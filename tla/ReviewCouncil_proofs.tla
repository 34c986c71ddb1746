------------------------- MODULE ReviewCouncil_proofs -------------------------
(***************************************************************************)
(* The invariants of ReviewCouncil for every roster, number of operators,  *)
(* workflows and rounds.  What a session read is a row as it was once, so  *)
(* what holds of every row holds of what was read, and the proofs are      *)
(* about what a flush makes of two such rows.                              *)
(***************************************************************************)
EXTENDS ReviewCouncil, TLAPS

IsRow(r) ==
  /\ r = [status |-> r.status, rounds |-> r.rounds, findings |-> r.findings, agreed |-> r.agreed,
          marks |-> r.marks]
  /\ r.status \in {"running", "awaiting_response", "done"}
  /\ r.findings = [slots |-> r.findings.slots, last |-> r.findings.last]
  /\ r.findings.slots = [c \in DOMAIN r.findings.slots |-> r.findings.slots[c]]
  /\ r.marks = [c \in DOMAIN r.findings.slots |-> r.marks[c]]

(* Issue i of CLI c was reported by some source. *)
Reported(c, i) == \E s \in Sources : s[2] = c /\ i \in task[s].found

(* A row that is whole, coherent, and whose slots and agreed findings come
   from reports. *)
Sound(r) ==
  /\ IsRow(r) /\ Coherent(r)
  /\ \A c \in DOMAIN r.findings.slots : \A i \in r.findings.slots[c] : Reported(c, i)
  /\ \A i \in r.agreed : \E c, d : c # d /\ Reported(c, i) /\ Reported(d, i)

(* A CLI has an entry for a round; every slot has one for the round it was recorded in. *)
Logged(c, round) == \E e \in board : e.source[2] = c /\ e.round = round
Audited(r) == skips = 0 => \A c \in DOMAIN r.findings.slots : Logged(c, r.marks[c])

IInv ==
  /\ task = [s \in Sources |-> task[s]]
  /\ operator = [o \in Operators |-> operator[o]]
  /\ skips \in Nat
  /\ Sound(row)
  /\ \A s \in Sources : /\ task[s] = [at |-> task[s].at, found |-> task[s].found, read |-> task[s].read,
                                     round |-> task[s].round]
                        /\ Sound(task[s].read)
                        /\ task[s].at \in {"none", "child"} => task[s].found = {}
                        /\ s[1] # Hand /\ flow[s[1]] # "fanned" => task[s].at = "none"
  /\ flow = [f \in Flows |-> flow[f]]
  /\ \A o \in Operators : /\ operator[o] = [at |-> operator[o].at, read |-> operator[o].read]
                          /\ Sound(operator[o].read)

AuditInv ==
  /\ Audited(row)
  /\ \A s \in Sources : /\ Audited(task[s].read)
                        /\ task[s].at = "read" /\ skips = 0 => Logged(s[2], task[s].round)

-----------------------------------------------------------------------------
(* A flush of what a session read and wrote. *)

LEMMA Flushing ==
  ASSUME NEW read, NEW written, IsRow(row), IsRow(read), IsRow(written)
  PROVE  LET w == Flush(read, written) IN
         /\ w = [status |-> w.status, rounds |-> w.rounds, findings |-> w.findings, agreed |-> w.agreed,
                 marks |-> w.marks]
         /\ w.status = IF written.status # read.status THEN written.status ELSE row.status
         /\ w.findings = IF written.findings # read.findings THEN written.findings ELSE row.findings
         /\ w.agreed = IF written.agreed # read.agreed THEN written.agreed ELSE row.agreed
         /\ w.marks = IF written.findings # read.findings THEN written.marks ELSE row.marks
  BY DEF Flush, ColumnOf, IsRow

(* What is written is sound, and moves status and findings of the row together. *)
Moves(read, written) ==
  \/ written.status = read.status /\ written.agreed = read.agreed
  \/ read.status # "done" /\ written.status = "running" /\ written.agreed = {}
  \/ read.status # "done" /\ written.status = "done"
  \/ read.status = "running" /\ written.status = "awaiting_response" /\ written.agreed # {}

LEMMA FlushIsSound ==
  ASSUME NEW read, NEW written, Sound(row), Sound(read), Sound(written), Moves(read, written)
  PROVE  Sound(Flush(read, written))
<1> DEFINE w == Flush(read, written)
<1>1. /\ w = [status |-> w.status, rounds |-> w.rounds, findings |-> w.findings, agreed |-> w.agreed,
              marks |-> w.marks]
      /\ w.status = IF written.status # read.status THEN written.status ELSE row.status
      /\ w.findings = IF written.findings # read.findings THEN written.findings ELSE row.findings
      /\ w.agreed = IF written.agreed # read.agreed THEN written.agreed ELSE row.agreed
      /\ w.marks = IF written.findings # read.findings THEN written.marks ELSE row.marks
  BY Flushing DEF Sound
<1> HIDE DEF w
<1>2. IsRow(w)  BY <1>1 DEF Sound, IsRow
<1>3. Coherent(w)
  <2>1. /\ Coherent(row) /\ Coherent(read) /\ Coherent(written)
        /\ read.status \in {"running", "awaiting_response", "done"}
    BY DEF Sound, IsRow
  <2>2. CASE written.status = read.status /\ written.agreed = read.agreed
    BY <1>1, <2>1, <2>2 DEF Coherent
  <2>3. CASE read.status # "done" /\ written.status = "running" /\ written.agreed = {}
    BY <1>1, <2>1, <2>3 DEF Coherent
  <2>4. CASE read.status # "done" /\ written.status = "done"
    BY <1>1, <2>1, <2>4 DEF Coherent
  <2>5. CASE read.status = "running" /\ written.status = "awaiting_response" /\ written.agreed # {}
    BY <1>1, <2>1, <2>5 DEF Coherent
  <2> QED BY <2>2, <2>3, <2>4, <2>5 DEF Moves
<1>4. \A c \in DOMAIN w.findings.slots : \A i \in w.findings.slots[c] : Reported(c, i)
  BY <1>1 DEF Sound
<1>5. \A i \in w.agreed : \E c, d : c # d /\ Reported(c, i) /\ Reported(d, i)
  BY <1>1 DEF Sound
<1>6. Sound(w)  BY <1>2, <1>3, <1>4, <1>5 DEF Sound
<1> QED BY <1>6 DEF w

(* A slot filled with what its CLI reported. *)
LEMMA FilledIsSound ==
  ASSUME NEW r, NEW c, NEW found, NEW round, Sound(r), \A i \in found : Reported(c, i)
  PROVE  LET n == Filled(r, c, found, round) IN
         /\ Sound(n) /\ n.status = r.status /\ n.agreed = r.agreed
         /\ DOMAIN n.findings.slots = DOMAIN r.findings.slots \cup {c}
         /\ \A d \in DOMAIN n.findings.slots : n.marks[d] = IF d = c THEN round ELSE r.marks[d]
<1> DEFINE slots == r.findings.slots
           filled == [d \in DOMAIN slots \cup {c} |-> IF d = c THEN found ELSE slots[d]]
           marked == [d \in DOMAIN slots \cup {c} |-> IF d = c THEN round ELSE r.marks[d]]
           n == Filled(r, c, found, round)
<1>1. n = [status |-> r.status, rounds |-> r.rounds, findings |-> [slots |-> filled, last |-> r.rounds],
           agreed |-> r.agreed, marks |-> marked]
  <2>1. PICK new, m : new = [slots |-> filled, last |-> r.rounds] /\ m = marked  OBVIOUS
  <2>2. n = [r EXCEPT !.findings = new, !.marks = m]  BY <2>1 DEF Filled
  <2>3. r = [status |-> r.status, rounds |-> r.rounds, findings |-> r.findings, agreed |-> r.agreed,
             marks |-> r.marks]
    BY DEF Sound, IsRow
  <2> HIDE DEF n
  <2>4. n = [status |-> r.status, rounds |-> r.rounds, findings |-> new, agreed |-> r.agreed, marks |-> m]
    BY <2>2, <2>3
  <2> QED BY <2>1, <2>4
<1>2. /\ n.status = r.status /\ n.agreed = r.agreed /\ n.findings.slots = filled
      /\ DOMAIN n.findings.slots = DOMAIN slots \cup {c} /\ n.marks = marked
  BY <1>1
<1>6. \A d \in DOMAIN slots \cup {c} : marked[d] = IF d = c THEN round ELSE r.marks[d]  OBVIOUS
<1>3. IsRow(n)  BY <1>1, <1>2 DEF Sound, IsRow
<1>4. \A d \in DOMAIN filled : \A i \in filled[d] : Reported(d, i)  BY DEF Sound
<1> HIDE DEF n, filled, marked
<1>5. Sound(n)  BY <1>2, <1>3, <1>4 DEF Sound, Coherent
<1> QED BY <1>2, <1>5, <1>6 DEF n

LEMMA ClosingIsSound ==
  ASSUME NEW r, Sound(r)
  PROVE  LET n == CloseRound(r) IN Sound(n) /\ Moves(r, n) /\ n.findings = r.findings /\ n.marks = r.marks
<1> DEFINE n == CloseRound(r)
           agreed == Agreed(r.findings.slots)
<1>1. CASE r.status # "running" \/ ~(Roster \subseteq DOMAIN r.findings.slots)
  BY <1>1 DEF CloseRound, Moves
<1>2. CASE r.status = "running" /\ Roster \subseteq DOMAIN r.findings.slots
  <2>1. PICK status :
          /\ n = [status |-> status, rounds |-> r.rounds + 1, findings |-> r.findings, agreed |-> agreed,
                  marks |-> r.marks]
          /\ status = IF agreed = {} \/ r.rounds + 1 >= MaxRounds THEN "done" ELSE "awaiting_response"
    BY <1>2 DEF CloseRound, Sound, IsRow
  <2>2. n.status = status /\ n.agreed = agreed /\ n.findings = r.findings /\ n.marks = r.marks  BY <2>1
  <2>3. IsRow(n)  BY <2>1, <2>2 DEF Sound, IsRow
  <2>4. \A i \in agreed : \E c, d : c # d /\ Reported(c, i) /\ Reported(d, i)
    BY DEF Agreed, Sound
  <2>5. Coherent(n) /\ Moves(r, n)  BY <1>2, <2>1, <2>2 DEF Coherent, Moves
  <2> HIDE DEF n, agreed
  <2>6. Sound(n)  BY <2>2, <2>3, <2>4, <2>5 DEF Sound
  <2> QED BY <2>2, <2>5, <2>6 DEF n
<1> QED BY <1>1, <1>2 DEF Sound, IsRow

LEMMA ReplyIsSound ==
  ASSUME NEW r, Sound(r)
  PROVE  LET n == Applied(r) IN
         /\ Sound(n) /\ Moves(r, n)
         /\ (n.findings = r.findings /\ n.marks = r.marks) \/ n.findings.slots = <<>>
<1> DEFINE n == Applied(r)
<1>1. CASE r.status = "done"  BY <1>1 DEF Applied, Moves
<1>2. CASE r.status # "done" /\ r.rounds >= MaxRounds
  <2>1. n = [status |-> "done", rounds |-> r.rounds, findings |-> r.findings, agreed |-> r.agreed,
             marks |-> r.marks]
    BY <1>2 DEF Applied, Sound, IsRow
  <2> QED BY <2>1 DEF Sound, IsRow, Coherent, Moves
<1>3. CASE r.status # "done" /\ ~(r.rounds >= MaxRounds)
  <2>1. n = [status |-> "running", rounds |-> r.rounds,
             findings |-> [slots |-> <<>>, last |-> r.rounds], agreed |-> {}, marks |-> <<>>]
    BY <1>3 DEF Applied, Sound, IsRow
  <2>2. n.findings.slots = <<>> /\ DOMAIN n.findings.slots = {} /\ n.marks = <<>>  BY <2>1
  <2>3. IsRow(n)  BY <2>1, <2>2 DEF IsRow
  <2> QED BY <1>3, <2>1, <2>2, <2>3 DEF Sound, Coherent, Moves
<1> QED BY <1>1, <1>2, <1>3

LEMMA NewRowIsSound == Sound(NewRow) /\ NewRow.findings.slots = <<>> /\ DOMAIN <<>> = {}
  BY DEF NewRow, Sound, IsRow, Coherent

-----------------------------------------------------------------------------
THEOREM IInvInit == Init => IInv
<1> SUFFICES ASSUME Init PROVE IInv
  OBVIOUS
<1>1. Sound(NewRow)  BY NewRowIsSound
<1>2. row = NewRow /\ skips \in Nat  BY DEF Init
<1>3. /\ task = [s \in Sources |-> [at |-> "none", found |-> {}, read |-> NewRow, round |-> 0]]
      /\ flow = [f \in Flows |-> flow[f]]
  BY DEF Init
<1>4. /\ operator = [o \in Operators |-> operator[o]]
      /\ \A o \in Operators : operator[o] = [at |-> operator[o].at, read |-> NewRow]
  <2>1. PICK first \in Operators :
          operator = [o \in Operators |-> [at |-> IF o = first THEN "dispatching" ELSE "idle", read |-> NewRow]]
    BY DEF Init
  <2> QED BY <2>1
<1>5. \A o \in Operators : /\ operator[o] = [at |-> operator[o].at, read |-> operator[o].read]
                           /\ operator[o].read = NewRow
  BY <1>4
<1>6. \A s \in Sources : /\ task[s] = [at |-> task[s].at, found |-> task[s].found, read |-> task[s].read,
                                      round |-> task[s].round]
                         /\ task[s].at = "none" /\ task[s].found = {} /\ task[s].read = NewRow
  BY <1>3
<1>7. task = [s \in Sources |-> task[s]]  BY <1>3
<1> QED BY <1>1, <1>2, <1>3, <1>4, <1>5, <1>6, <1>7 DEF IInv

(* Reports are never taken back, so a sound row stays sound. *)
LEMMA StillSound ==
  ASSUME \A s \in Sources : task[s].found \subseteq task'[s].found, NEW r, Sound(r)
  PROVE  Sound(r)'
<1>1. \A c, i : Reported(c, i) => Reported(c, i)'  BY DEF Reported
<1> QED BY <1>1 DEF Sound

(* A step that changes the entry of one source, and of the row only what is
   sound. *)
LEMMA OneTask ==
  ASSUME IInv, NEW s \in Sources, NEW at, NEW found, NEW read, NEW round,
         task' = [task EXCEPT ![s] = [at |-> at, found |-> found, read |-> read, round |-> round]],
         task[s].found \subseteq found, at \notin {"none", "child"},
         flow' = flow, s[1] # Hand => flow[s[1]] = "fanned",
         Sound(read), Sound(row'), operator' = operator, skips' \in Nat
  PROVE  IInv'
<1>1. task' = [t \in Sources |-> IF t = s THEN [at |-> at, found |-> found, read |-> read, round |-> round]
                                  ELSE task[t]]
  BY DEF IInv
<1>2. \A t \in Sources : task[t].found \subseteq task'[t].found  BY <1>1
<1>3. \A r : Sound(r) => Sound(r)'  BY <1>2, StillSound
<1>4. Sound(row)'
  <2>1. PICK r : r = row'  OBVIOUS
  <2>2. Sound(r)'  BY <1>3, <2>1
  <2> QED BY <2>1, <2>2 DEF Sound, IsRow, Coherent, Reported
<1> QED BY <1>1, <1>3, <1>4 DEF IInv

LEMMA IInvStep == IInv /\ [Next]_vars => IInv'
<1> SUFFICES ASSUME IInv, [Next]_vars PROVE IInv'
  OBVIOUS
<1>1. Sound(row) /\ Sound(NewRow) /\ skips \in Nat  BY NewRowIsSound DEF IInv
<1>2. ASSUME NEW s \in Sources
      PROVE  /\ task[s] = [at |-> task[s].at, found |-> task[s].found, read |-> task[s].read,
                           round |-> task[s].round]
             /\ Sound(task[s].read)
             /\ task[s].at \in {"none", "child"} => task[s].found = {}
             /\ s[1] # Hand => s[1] \in Flows
             /\ s[1] # Hand /\ flow[s[1]] # "fanned" => task[s].at = "none"
  BY <1>2 DEF IInv, Sources, Hand
(* A step that leaves the tasks alone. *)
<1>3. ASSUME task' = task, skips' = skips, Sound(row'),
             flow' = flow \/ \E f \in Flows : flow[f] = "none" /\ flow' = [flow EXCEPT ![f] = "queued"],
             NEW o \in Operators, NEW at, NEW read,
             operator' = [operator EXCEPT ![o] = [at |-> at, read |-> read]], Sound(read)
      PROVE  IInv'
  <2>1. \A r : Sound(r) => Sound(r)'  BY <1>3, StillSound
  <2>2. Sound(row)'
    <3>1. PICK r : r = row'  OBVIOUS
    <3>2. Sound(r)'  BY <2>1, <3>1, <1>3
    <3> QED BY <3>1, <3>2 DEF Sound, IsRow, Coherent, Reported
  <2>3. operator' = [p \in Operators |-> IF p = o THEN [at |-> at, read |-> read] ELSE operator[p]]
    BY <1>3 DEF IInv
  <2>4. /\ flow' = [f \in Flows |-> flow'[f]]
        /\ \A f \in Flows : flow'[f] = "fanned" <=> flow[f] = "fanned"
    BY <1>3 DEF IInv
  <2>5. \A s \in Sources : s[1] # Hand => s[1] \in Flows  BY DEF Sources, Hand
  <2>6. \A s \in Sources : s[1] # Hand /\ flow'[s[1]] # "fanned" => task'[s].at = "none"
    BY <1>3, <2>4, <2>5 DEF IInv
  <2> QED BY <1>3, <2>1, <2>2, <2>3, <2>4, <2>6 DEF IInv
<1>4. ASSUME NEW o \in Operators, Request(o) PROVE IInv'
  <2>1. CASE Dispatch(o) \/ DispatchFails(o)
    <3>1. PICK read : operator' = [operator EXCEPT ![o] = [at |-> "idle", read |-> read]] /\ Sound(read)
      BY <2>1 DEF Dispatch, DispatchFails, IInv
    <3>2. flow' = flow \/ \E f \in Flows : flow[f] = "none" /\ flow' = [flow EXCEPT ![f] = "queued"]
      BY <2>1 DEF Dispatch, DispatchFails, NextFlow
    <3>3. task' = task /\ skips' = skips /\ row' = row  BY <2>1 DEF Dispatch, DispatchFails
    <3> QED BY <1>1, <1>3, <3>1, <3>2, <3>3
  <2>2. CASE LoadReply(o)  BY <1>1, <1>3, <2>2 DEF LoadReply
  <2>3. CASE WriteReply(o)
    <3>1. Sound(operator[o].read)  BY DEF IInv
    <3>2. Sound(Applied(operator[o].read)) /\ Moves(operator[o].read, Applied(operator[o].read))
      BY <3>1, ReplyIsSound
    <3>3. Sound(row')  BY <1>1, <2>3, <3>1, <3>2, FlushIsSound DEF WriteReply
    <3>4. PICK at : operator' = [operator EXCEPT ![o] = [at |-> at, read |-> NewRow]]
      BY <2>3 DEF WriteReply
    <3>5. task' = task /\ skips' = skips /\ flow' = flow  BY <2>3 DEF WriteReply
    <3> QED BY <1>1, <1>3, <3>3, <3>4, <3>5
  <2> QED BY <1>4, <2>1, <2>2, <2>3 DEF Request
(* The tasks of a workflow that fans out have found nothing yet. *)
<1>5. ASSUME NEW f \in Flows, FanOut(f) PROVE IInv'
  <2>1. /\ row' = row /\ operator' = operator /\ skips' = skips
        /\ task' = [s \in Sources |->
                      IF s[1] # f THEN task[s]
                      ELSE [task[s] EXCEPT !.at = IF Running(s[2]) THEN "due" ELSE "child"]]
        /\ flow[f] = "queued" /\ flow' = [flow EXCEPT ![f] = "fanned"]
    BY <1>5 DEF FanOut
  <2>2. /\ task' = [s \in Sources |-> task'[s]]
        /\ flow' = [g \in Flows |-> IF g = f THEN "fanned" ELSE flow[g]]
    BY <2>1 DEF IInv
  <2>3. ASSUME NEW s \in Sources
        PROVE  /\ task'[s] = [at |-> task'[s].at, found |-> task[s].found, read |-> task[s].read,
                              round |-> task[s].round]
               /\ task'[s].at \in {"none", "child"} => task'[s].found = {}
               /\ s[1] # Hand /\ flow'[s[1]] # "fanned" => task'[s].at = "none"
    <3>1. CASE s[1] # f  BY <1>2, <2>1, <2>2, <3>1
    <3>2. CASE s[1] = f
      <4>1. PICK at : task'[s] = [task[s] EXCEPT !.at = at]  BY <2>1, <3>2
      <4>2. task'[s] = [at |-> at, found |-> task[s].found, read |-> task[s].read, round |-> task[s].round]
        BY <1>2, <4>1
      <4>3. s[1] # Hand  BY <3>2 DEF Hand, Flows
      <4>4. task[s].found = {}  BY <1>2, <2>1, <3>2, <4>3
      <4> QED BY <2>2, <3>2, <4>2, <4>4
    <3> QED BY <3>1, <3>2
  <2>6. ASSUME NEW s \in Sources
        PROVE  /\ task'[s] = [at |-> task'[s].at, found |-> task'[s].found, read |-> task'[s].read,
                              round |-> task'[s].round]
               /\ task'[s].found = task[s].found /\ Sound(task'[s].read)
    <3>1. PICK at : task'[s] = [at |-> at, found |-> task[s].found, read |-> task[s].read, round |-> task[s].round]
      BY <2>3
    <3>2. task'[s].found = task[s].found /\ task'[s].read = task[s].read /\ task'[s].at = at  BY <3>1
    <3> QED BY <1>2, <3>1, <3>2
  <2>4. \A s \in Sources : task[s].found \subseteq task'[s].found  BY <2>6
  <2>5. \A r : Sound(r) => Sound(r)'  BY <2>4, StillSound
  <2>7. \A s \in Sources : Sound(task[s].read)'
    <3> SUFFICES ASSUME NEW s \in Sources PROVE Sound(task[s].read)'
      OBVIOUS
    <3>1. PICK r : r = task'[s].read  OBVIOUS
    <3>2. Sound(r)'  BY <2>5, <2>6, <3>1
    <3> QED BY <3>1, <3>2 DEF Sound, IsRow, Coherent, Reported
  <2> QED BY <2>1, <2>2, <2>3, <2>5, <2>6, <2>7 DEF IInv
<1>6. ASSUME NEW s \in Sources, NEW found, task' = Brings(s, found), task[s].found = {},
             s[1] # Hand => flow[s[1]] = "fanned",
             UNCHANGED <<row, operator, flow, skips>>
      PROVE  IInv'
  <2>1. task' = [task EXCEPT ![s] = [at |-> "due", found |-> found, read |-> task[s].read,
                                     round |-> task[s].round]]
    <3>1. PICK t : t = [task[s] EXCEPT !.at = "due", !.found = found]  OBVIOUS
    <3>2. task[s] = [at |-> task[s].at, found |-> task[s].found, read |-> task[s].read, round |-> task[s].round]
      BY <1>2
    <3>3. t = [at |-> "due", found |-> found, read |-> task[s].read, round |-> task[s].round]
      BY <3>1, <3>2
    <3>4. task' = [task EXCEPT ![s] = t]  BY <1>6, <3>1 DEF Brings
    <3> QED BY <3>3, <3>4
  <2>2. "due" \notin {"none", "child"} /\ task[s].found \subseteq found  BY <1>6
  <2>3. Sound(task[s].read) /\ Sound(row') /\ operator' = operator /\ skips' \in Nat /\ flow' = flow
    BY <1>1, <1>2, <1>6
  <2>4. s[1] # Hand => flow[s[1]] = "fanned"  BY <1>6
  <2> DEFINE read == task[s].read
             round == task[s].round
  <2>5. task' = [task EXCEPT ![s] = [at |-> "due", found |-> found, read |-> read, round |-> round]]  BY <2>1
  <2>6. Sound(read)  BY <2>3
  <2> HIDE DEF read, round
  <2> QED BY <2>2, <2>3, <2>4, <2>5, <2>6, OneTask
<1>7. ASSUME NEW f \in Flows, NEW c \in Roster, ChildEnds(f, c) PROVE IInv'
  <2>1. PICK s, found : /\ s \in Sources /\ s[1] = f /\ task[s].at = "child" /\ task' = Brings(s, found)
    BY <1>7 DEF ChildEnds, Sources
  <2>2. f # Hand  BY ReviewAssumption DEF Hand, Flows
  <2>3. task[s].found = {} /\ flow[s[1]] = "fanned"  BY <1>2, <2>1, <2>2
  <2> QED BY <1>6, <1>7, <2>1, <2>3 DEF ChildEnds
<1>10. ASSUME NEW c \in ByHand, Submit(c) PROVE IInv'
  <2>1. PICK s, found : /\ s \in Sources /\ s[1] = Hand /\ task[s].at = "none" /\ task' = Brings(s, found)
    BY <1>10 DEF Submit, Sources
  <2>2. task[s].found = {}  BY <1>2, <2>1
  <2> QED BY <1>6, <1>10, <2>1, <2>2 DEF Submit
<1>8. ASSUME NEW s \in Sources, Records(s) PROVE IInv'
  <2>1. task[s].at \notin {"none", "child"} /\ operator' = operator /\ flow' = flow /\ skips' \in Nat
    BY <1>1, <1>8 DEF Records, Load, Append, AppendFails, Write, Retry
  <2>2. s[1] # Hand => flow[s[1]] = "fanned"  BY <1>2, <2>1
  <2>3. ASSUME NEW at, NEW read, NEW round, task' = Goes(s, at, read, round), at \notin {"none", "child"},
               Sound(read), Sound(row')
        PROVE  IInv'
    <3>1. task' = [task EXCEPT ![s] = [at |-> at, found |-> task[s].found, read |-> read, round |-> round]]
      BY <2>3 DEF Goes
    <3>2. task[s].found \subseteq task[s].found  OBVIOUS
    <3> QED BY <2>1, <2>2, <2>3, <3>1, <3>2, OneTask
  <2>4. CASE Load(s)
    <3>1. row' = row /\ \E at \in {"ended", "read", "loaded"}, read \in {row, NewRow}, round \in {0, row.rounds} :
            task' = Goes(s, at, read, round)
      BY <2>4 DEF Load
    <3> QED BY <1>1, <2>3, <3>1
  <2>5. CASE Append(s) \/ AppendFails(s)
    BY <1>1, <2>3, <2>5 DEF Append, AppendFails
  <2>6. CASE Write(s)
    <3> DEFINE read == task[s].read
               filled == Filled(read, s[2], task[s].found, task[s].round)
    <3>1. Sound(read) /\ \A i \in task[s].found : Reported(s[2], i)  BY <1>2 DEF Reported
    <3>2. Sound(filled) /\ filled.status = read.status /\ filled.agreed = read.agreed
      BY <3>1, FilledIsSound
    <3>3. Sound(CloseRound(filled)) /\ Moves(filled, CloseRound(filled))  BY <3>2, ClosingIsSound
    <3>4. Moves(read, CloseRound(filled))  BY <3>2, <3>3 DEF Moves
    <3>5. row' = Flush(read, CloseRound(filled)) /\ task' = Goes(s, "ended", NewRow, 0)
      BY <2>6 DEF Write
    <3> HIDE DEF read, filled
    <3>6. Sound(row')  BY <1>1, <3>1, <3>3, <3>4, <3>5, FlushIsSound
    <3> QED BY <1>1, <2>3, <3>5, <3>6
  <2>7. CASE Retry(s)
    BY <1>1, <2>3, <2>7 DEF Retry
  <2> QED BY <1>8, <2>4, <2>5, <2>6, <2>7 DEF Records
<1>9. CASE UNCHANGED vars
  <2>1. \A r : Sound(r) => Sound(r)'  BY <1>9, StillSound DEF vars
  <2> QED BY <1>9, <2>1 DEF vars, IInv
<1> QED BY <1>4, <1>5, <1>7, <1>8, <1>9, <1>10 DEF Next

(* An operator is asked to respond to something, and a running review shows
   nothing agreed. *)
THEOREM AlwaysAskedForSomething == Spec => []AskedForSomething
<1>1. IInv => AskedForSomething  BY DEF IInv, Sound, AskedForSomething
<1> QED BY IInvInit, IInvStep, <1>1, PTL DEF Spec

(* What is agreed was reported by two CLIs. *)
THEOREM AlwaysAgreedByTwo == Spec => []AgreedByTwo
<1>1. IInv => AgreedByTwo
  <2> SUFFICES ASSUME IInv, NEW i \in row.agreed
               PROVE  \E s, t \in Sources : s[2] # t[2] /\ i \in task[s].found \cap task[t].found
    BY DEF AgreedByTwo
  <2>1. PICK c, d : c # d /\ Reported(c, i) /\ Reported(d, i)  BY DEF IInv, Sound
  <2>2. PICK s \in Sources : s[2] = c /\ i \in task[s].found  BY <2>1 DEF Reported
  <2>3. PICK t \in Sources : t[2] = d /\ i \in task[t].found  BY <2>1 DEF Reported
  <2> QED BY <2>1, <2>2, <2>3
<1> QED BY IInvInit, IInvStep, <1>1, PTL DEF Spec

-----------------------------------------------------------------------------
(* The blackboard grows, and no slot is written before its entry. *)

LEMMA StillAudited ==
  ASSUME board \subseteq board', skips' >= skips, skips \in Nat, skips' \in Nat
  PROVE  /\ \A r : Audited(r) => Audited(r)'
         /\ \A c, n : Logged(c, n) => Logged(c, n)'
         /\ skips' = 0 => skips = 0
<1>1. \A c, n : Logged(c, n) => Logged(c, n)'  BY DEF Logged
<1>2. skips' = 0 => skips = 0  OBVIOUS
<1> QED BY <1>1, <1>2 DEF Audited

LEMMA AuditStep == IInv /\ IInv' /\ AuditInv /\ [Next]_vars => AuditInv'
<1> SUFFICES ASSUME IInv, IInv', AuditInv, [Next]_vars PROVE AuditInv'
  OBVIOUS
<1>1. skips \in Nat /\ skips' \in Nat /\ Audited(NewRow)
  BY NewRowIsSound DEF IInv, Audited
<1>2. ASSUME UNCHANGED <<board, skips, row>>,
             \A s \in Sources : /\ task'[s].read = task[s].read
                                /\ task'[s].round = task[s].round
                                /\ task'[s].at = "read" => task[s].at = "read"
      PROVE  AuditInv'
  <2>1. \A c, n : Logged(c, n) => Logged(c, n)'  BY <1>2 DEF Logged
  <2>2. Audited(row)'  BY <1>2, <2>1 DEF AuditInv, Audited
  <2>3. ASSUME NEW s \in Sources
        PROVE  (Audited(task[s].read) /\ (task[s].at = "read" /\ skips = 0 => Logged(s[2], task[s].round)))'
    <3>1. Audited(task[s].read) /\ (task[s].at = "read" /\ skips = 0 => Logged(s[2], task[s].round))
      BY DEF AuditInv
    <3>2. task'[s].read = task[s].read /\ task'[s].round = task[s].round /\ (task'[s].at = "read" => task[s].at = "read")
      BY <1>2
    <3>3. skips' = skips /\ board' = board  BY <1>2
    <3> QED BY <3>1, <3>2, <3>3 DEF Audited, Logged
  <2> QED BY <2>2, <2>3 DEF AuditInv
(* A step that moves one task, and the row from what the task or a reply read. *)
<1>3. ASSUME NEW s \in Sources, NEW at, NEW read, NEW round, task' = Goes(s, at, read, round),
             board \subseteq board', skips' >= skips,
             Audited(read), Audited(row'),
             skips' = 0 /\ at = "read" => Logged(s[2], round)'
      PROVE  AuditInv'
  <2>1. /\ \A r : Audited(r) => Audited(r)'
        /\ \A c, n : Logged(c, n) => Logged(c, n)'
        /\ skips' = 0 => skips = 0
    BY <1>1, <1>3, StillAudited
  <2>2. task' = [t \in Sources |-> IF t = s THEN [at |-> at, found |-> task[s].found, read |-> read, round |-> round]
                                   ELSE task[t]]
    BY <1>3 DEF Goes, IInv
  <2>3. Audited(row)'
    <3>1. PICK r : r = row'  OBVIOUS
    <3>2. Audited(r)'  BY <1>3, <2>1, <3>1
    <3> QED BY <3>1, <3>2 DEF Audited, Logged
  <2>4. ASSUME NEW t \in Sources
        PROVE  (Audited(task[t].read) /\ (task[t].at = "read" /\ skips = 0 => Logged(t[2], task[t].round)))'
    <3>1. CASE t = s
      <4>1. Audited(read)'  BY <1>3, <2>1
      <4>2. task'[t].read = read /\ task'[t].at = at /\ task'[t].round = round  BY <2>2, <3>1
      <4> QED BY <1>3, <3>1, <4>1, <4>2 DEF Audited, Logged
    <3>2. CASE t # s
      <4>1. task'[t] = task[t]  BY <2>2, <3>2
      <4>2. Audited(task[t].read) /\ (task[t].at = "read" /\ skips = 0 => Logged(t[2], task[t].round))
        BY DEF AuditInv
      <4>3. PICK r : r = task[t].read  OBVIOUS
      <4>4. Audited(r)'  BY <2>1, <4>2, <4>3
      <4>5. task'[t].at = "read" /\ skips' = 0 => Logged(t[2], task[t].round)'  BY <2>1, <4>1, <4>2
      <4> QED BY <4>1, <4>3, <4>4, <4>5 DEF Audited, Logged
    <3> QED BY <3>1, <3>2
  <2> QED BY <2>3, <2>4 DEF AuditInv
<1>4. ASSUME NEW o \in Operators, Request(o) PROVE AuditInv'
  <2>1. UNCHANGED <<board, skips, task>>
    BY <1>4 DEF Request, Dispatch, DispatchFails, LoadReply, WriteReply
  <2>2. Audited(row')
    <3>1. CASE row' = row  BY <3>1 DEF AuditInv
    <3>2. CASE WriteReply(o)
      <4> DEFINE read == operator[o].read
      <4>1. Sound(row) /\ Sound(read)  BY DEF IInv
      <4>2. Sound(Applied(read)) /\ ((Applied(read).findings = read.findings /\ Applied(read).marks = read.marks) \/ Applied(read).findings.slots = <<>>)
        BY <4>1, ReplyIsSound
      <4>3. /\ row'.findings = IF Applied(read).findings # read.findings THEN Applied(read).findings
                               ELSE row.findings
            /\ row'.marks = IF Applied(read).findings # read.findings THEN Applied(read).marks ELSE row.marks
        BY <3>2, <4>1, <4>2, Flushing DEF WriteReply, Sound
      <4> HIDE DEF read
      <4>4. (row'.findings = row.findings /\ row'.marks = row.marks) \/ DOMAIN row'.findings.slots = {}
        BY <4>2, <4>3, NewRowIsSound
      <4> QED BY <4>4 DEF Audited, AuditInv
    <3> QED BY <1>4, <3>1, <3>2 DEF Request, Dispatch, DispatchFails, LoadReply
  <2> QED BY <2>1, <2>2 DEF AuditInv, Audited, Logged
<1>5. ASSUME NEW f \in Flows, FanOut(f) PROVE AuditInv'
  <2>1. ASSUME NEW s \in Sources
        PROVE  /\ task'[s].read = task[s].read /\ task'[s].round = task[s].round
               /\ task'[s].at = "read" => task[s].at = "read"
    <3>1. task[s] = [at |-> task[s].at, found |-> task[s].found, read |-> task[s].read, round |-> task[s].round]
      BY DEF IInv
    <3>2. CASE s[1] # f  BY <1>5, <3>2 DEF FanOut
    <3>3. CASE s[1] = f
      <4>1. PICK at \in {"due", "child"} : task'[s] = [task[s] EXCEPT !.at = at]  BY <1>5, <3>3 DEF FanOut
      <4>2. task'[s] = [at |-> at, found |-> task[s].found, read |-> task[s].read, round |-> task[s].round]
        BY <3>1, <4>1
      <4> QED BY <4>2
    <3> QED BY <3>2, <3>3
  <2> QED BY <1>2, <1>5, <2>1 DEF FanOut
<1>6. ASSUME NEW s \in Sources, NEW found, task' = Brings(s, found), UNCHANGED <<board, skips, row>>
      PROVE  AuditInv'
  <2>1. ASSUME NEW t \in Sources
        PROVE  /\ task'[t].read = task[t].read /\ task'[t].round = task[t].round
               /\ task'[t].at = "read" => task[t].at = "read"
    <3>1. task[t] = [at |-> task[t].at, found |-> task[t].found, read |-> task[t].read, round |-> task[t].round]
      BY DEF IInv
    <3>2. CASE t # s  BY <1>6, <3>2 DEF Brings, IInv
    <3>3. CASE t = s
      <4>1. task'[t] = [task[t] EXCEPT !.at = "due", !.found = found]  BY <1>6, <3>3 DEF Brings, IInv
      <4> QED BY <3>1, <4>1
    <3> QED BY <3>2, <3>3
  <2> QED BY <1>2, <1>6, <2>1
<1>7. ASSUME NEW f \in Flows, NEW c \in Roster, ChildEnds(f, c) PROVE AuditInv'
  <2>1. \E s \in Sources : \E found : task' = Brings(s, found)  BY <1>7 DEF ChildEnds, Sources
  <2> QED BY <1>6, <1>7, <2>1 DEF ChildEnds
<1>8. ASSUME NEW c \in ByHand, Submit(c) PROVE AuditInv'
  <2>1. \E s \in Sources : \E found : task' = Brings(s, found)  BY <1>8 DEF Submit, Sources
  <2> QED BY <1>6, <1>8, <2>1 DEF Submit
<1>9. ASSUME NEW s \in Sources, Records(s) PROVE AuditInv'
  <2>1. Audited(row) /\ Audited(task[s].read)  BY DEF AuditInv
  <2>2. CASE Load(s)
    <3>1. UNCHANGED <<row, board, skips>>  BY <2>2 DEF Load
    <3>2. CASE row.status = "done"
      <4>1. task' = Goes(s, "ended", NewRow, 0)  BY <2>2, <3>2 DEF Load
      <4> QED BY <1>1, <1>3, <2>1, <3>1, <4>1
    <3>3. CASE row.status # "done" /\ Duplicate(s[2])
      <4>1. task' = Goes(s, "read", row, row.rounds)  BY <2>2, <3>3 DEF Load
      <4>2. Logged(s[2], row.rounds)'  BY <3>1, <3>3 DEF Duplicate, Logged
      <4> QED BY <1>1, <1>3, <2>1, <3>1, <4>1, <4>2
    <3>4. CASE row.status # "done" /\ ~Duplicate(s[2])
      <4>1. task' = Goes(s, "loaded", row, row.rounds)  BY <2>2, <3>4 DEF Load
      <4> QED BY <1>1, <1>3, <2>1, <3>1, <4>1
    <3> QED BY <3>2, <3>3, <3>4
  <2>3. CASE Append(s)
    <3>1. PICK e, round : e = [source |-> s, round |-> round] /\ round = task[s].round  OBVIOUS
    <3>2. /\ row' = row /\ skips' = skips /\ board' = board \cup {e} /\ task' = Goes(s, "read", row, round)
      BY <2>3, <3>1 DEF Append
    <3>3. e.source[2] = s[2] /\ e.round = round /\ e \in board'  BY <3>1, <3>2
    <3>4. Logged(s[2], round)'  BY <3>3 DEF Logged
    <3>5. board \subseteq board' /\ skips' >= skips  BY <1>1, <3>2
    <3> QED BY <1>3, <2>1, <3>2, <3>4, <3>5
  <2>4. CASE AppendFails(s)
    <3>1. row' = row /\ skips' = skips + 1 /\ board' = board /\ task' = Goes(s, "read", row, task[s].round)
      BY <2>4 DEF AppendFails
    <3>2. skips' >= skips /\ skips' # 0  BY <1>1, <3>1
    <3> QED BY <1>3, <2>1, <3>1, <3>2
  <2>5. CASE Write(s)
    <3> DEFINE read == task[s].read
               round == task[s].round
               filled == Filled(read, s[2], task[s].found, round)
               closed == CloseRound(filled)
    <3>1. /\ Sound(row) /\ Sound(read) /\ \A i \in task[s].found : Reported(s[2], i)
      BY DEF IInv, Reported
    <3>2. /\ Sound(filled) /\ DOMAIN filled.findings.slots = DOMAIN read.findings.slots \cup {s[2]}
          /\ \A d \in DOMAIN filled.findings.slots : filled.marks[d] = IF d = s[2] THEN round ELSE read.marks[d]
      BY <3>1, FilledIsSound
    <3>3. Sound(closed) /\ closed.findings = filled.findings /\ closed.marks = filled.marks  BY <3>2, ClosingIsSound
    <3>4. /\ row' = Flush(read, closed) /\ task' = Goes(s, "ended", NewRow, 0)
          /\ task[s].at = "read" /\ board' = board /\ skips' = skips
      BY <2>5 DEF Write
    <3>8. skips = 0 => Logged(s[2], round)  BY <3>4 DEF AuditInv
    <3>9. Audited(read) /\ Audited(row)  BY <2>1
    <3> HIDE DEF read, filled, closed, round
    <3>5. /\ row'.findings = IF closed.findings # read.findings THEN closed.findings ELSE row.findings
          /\ row'.marks = IF closed.findings # read.findings THEN closed.marks ELSE row.marks
      BY <3>1, <3>3, <3>4, Flushing DEF Sound
    <3>7. Audited(row')
      <4>1. CASE closed.findings # read.findings  BY <3>2, <3>3, <3>5, <3>8, <3>9, <4>1 DEF Audited
      <4>2. CASE closed.findings = read.findings  BY <3>5, <3>9, <4>2 DEF Audited
      <4> QED BY <4>1, <4>2
    <3> QED BY <1>1, <1>3, <3>4, <3>7
  <2>6. CASE Retry(s)
    BY <1>1, <1>3, <2>1, <2>6 DEF Retry
  <2> QED BY <1>9, <2>2, <2>3, <2>4, <2>5, <2>6 DEF Records
<1>10. CASE UNCHANGED vars  BY <1>2, <1>10 DEF vars
<1> QED BY <1>4, <1>5, <1>7, <1>8, <1>9, <1>10 DEF Next

(* Every slot of the cache has an entry of its CLI on the blackboard for the
   round it was recorded in, also when another session moved the round between
   the recorder's check and its flush. *)
THEOREM SlotsAlwaysAudited == Spec => []SlotsAreAudited
<1>1. Init => AuditInv
  <2>1. Init => row = NewRow /\ \A s \in Sources : task[s].at = "none" /\ task[s].read = NewRow
    BY DEF Init
  <2> QED BY <2>1, NewRowIsSound DEF AuditInv, Audited
<1>2. AuditInv => SlotsAreAudited  BY DEF AuditInv, Audited, Logged, SlotsAreAudited
<1> QED BY IInvInit, IInvStep, AuditStep, <1>1, <1>2, PTL DEF Spec
=============================================================================
