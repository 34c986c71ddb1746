------------------------ MODULE Collaboration_proofs ------------------------
(***************************************************************************)
(* For any patterns, casts, clients of the advance endpoint, bounds and    *)
(* crashes: what is on a collaboration's blackboard was contributed by an  *)
(* agent whose role its phase requires.                                    *)
(*                                                                         *)
(* EntriesByRole relates entries of the past to the session of the         *)
(* present, and the phase an advance_phase checked may no longer be the    *)
(* session's when it posts.  The invariant therefore carries the check     *)
(* with the thread, and needs that no flush changes the cast: the columns  *)
(* a flush writes are those its thread changed (OwnColumns).               *)
(*                                                                         *)
(* A panel shows each entry once and in order, for any panels.  And where  *)
(* one contributes at a time, the outcome is the last draft of the board   *)
(* and the end is final, and the board replays the pattern through rounds, *)
(* crashes and retries.  Whether one contributes is settled when a session *)
(* begins (FlowStays).                                                     *)
(***************************************************************************)
EXTENDS Collaboration, FiniteSetTheorems, TLAPS

Columns == {"pattern", "roles", "status", "index", "rounds", "limit", "consensus", "outcome"}

IsRow(r) == r = [f \in Columns |-> r[f]]
IsSeq(s) == \E S : s \in Seq(S)

(* The role of the agent is one the phase requires. *)
Speaks(row, agent, phase) == RoleOf(row, agent) \in ToSet(PhaseRoles[phase])

(* A thread that checked its contribution did so against the cast of the row. *)
ThreadOK(row, t) ==
  /\ t = [f \in DOMAIN Idle |-> t[f]]
  /\ t.at = "checked" => Speaks(row, t.agent, t.phase)
  /\ t.at = "loaded" => IsRow(t.loaded)

IInv ==
  /\ IsRow(session)
  /\ thread = [c \in Threads |-> thread[c]]
  /\ \A c \in Threads : ThreadOK(session, thread[c])
  /\ IsSeq(board)
  /\ EntriesByRole

-----------------------------------------------------------------------------
(* Posting an entry leaves the earlier ones where they are. *)
LEMMA Posting ==
  ASSUME NEW s, NEW e, IsSeq(s)
  PROVE  /\ IsSeq(Append(s, e))
         /\ DOMAIN Append(s, e) = DOMAIN s \cup {Len(s) + 1}
         /\ \A i \in DOMAIN s : Append(s, e)[i] = s[i]
         /\ Append(s, e)[Len(s) + 1] = e
<1>1. PICK S : s \in Seq(S)  BY DEF IsSeq
<1>2. s \in Seq(S \cup {e})
  <2>1. S \subseteq S \cup {e}  OBVIOUS
  <2> QED BY <1>1, <2>1
<1>3. Append(s, e) \in Seq(S \cup {e})  BY <1>2
<1> QED BY <1>2, <1>3 DEF IsSeq

(* Who may speak depends on the cast alone. *)
LEMMA SameCast ==
  ASSUME NEW row, NEW later, NEW agent, NEW phase, later.roles = row.roles
  PROVE  Speaks(later, agent, phase) = Speaks(row, agent, phase)
BY DEF Speaks, RoleOf

LEMMA StaysOK ==
  ASSUME NEW row, NEW later, NEW t, later.roles = row.roles, ThreadOK(row, t)
  PROVE  ThreadOK(later, t)
BY SameCast DEF ThreadOK

(* The next phase and the end of a session are not written to its cast. *)
LEMMA OwnColumns ==
  ASSUME NEW row, NEW agrees, NEW entry, IsRow(row)
  PROVE  LET new == Advanced(row, agrees, entry) IN
           IsRow(new) /\ new.roles = row.roles /\ new.pattern = row.pattern
<1> DEFINE p == PatternPhases[row.pattern]
<1>1. CASE row.index < Len(p)
  <2>1. Advanced(row, agrees, entry) = [row EXCEPT !.index = row.index + 1]
    BY <1>1 DEF Advanced
  <2> QED BY <2>1 DEF IsRow, Columns
<1>2. CASE ~(row.index < Len(p)) /\ agrees # "yes" /\ row.rounds + 1 < row.limit
  <2>1. Advanced(row, agrees, entry) = [row EXCEPT !.rounds = row.rounds + 1, !.index = LoopStart(p)]
    BY <1>2 DEF Advanced
  <2> QED BY <2>1 DEF IsRow, Columns
<1>3. CASE ~(row.index < Len(p)) /\ ~(agrees # "yes" /\ row.rounds + 1 < row.limit)
  <2>1. PICK consensus : consensus = IF agrees = "yes" THEN "yes" ELSE "partial"  OBVIOUS
  <2>2. Advanced(row, agrees, entry) =
          [row EXCEPT !.rounds = row.rounds + 1, !.status = "completed", !.outcome = Accepted(entry),
                      !.consensus = consensus]
    BY <1>3, <2>1 DEF Advanced
  <2> QED BY <2>2 DEF IsRow, Columns
<1> QED BY <1>1, <1>2, <1>3

-----------------------------------------------------------------------------
(* A step that leaves the cast and the board alone and gives one thread a
   state that is in order keeps the invariant. *)
LEMMA ThreadMoves ==
  ASSUME IInv, NEW c \in Threads, NEW t, t = [f \in DOMAIN Idle |-> t[f]],
         IsRow(session'), session'.roles = session.roles,
         t.at = "checked" => Speaks(session, t.agent, t.phase),
         t.at = "loaded" => IsRow(t.loaded),
         thread' = [thread EXCEPT ![c] = t], board' = board
  PROVE  IInv'
<1>1. \A d \in Threads : thread'[d] = IF d = c THEN t ELSE thread[d]
  BY DEF IInv
<1>2. thread' = [d \in Threads |-> thread'[d]]
  BY DEF IInv
<1>3. ASSUME NEW d \in Threads PROVE ThreadOK(session', thread'[d])
  <2>1. CASE d = c
    <3>1. ThreadOK(session, t)  BY DEF ThreadOK
    <3>2. thread'[d] = t  BY <1>1, <2>1
    <3> QED BY <3>1, <3>2, StaysOK
  <2>2. CASE d # c
    <3>1. ThreadOK(session, thread[d])  BY DEF IInv
    <3>2. thread'[d] = thread[d]  BY <1>1, <2>2
    <3> QED BY <3>1, <3>2, StaysOK
  <2> QED BY <2>1, <2>2
<1>4. EntriesByRole'
  <2>1. ASSUME NEW i \in DOMAIN board PROVE Speaks(session', board[i].agent, board[i].phase)
    <3>1. Speaks(session, board[i].agent, board[i].phase)  BY DEF IInv, EntriesByRole, Speaks
    <3> QED BY <3>1, SameCast
  <2> QED BY <2>1 DEF EntriesByRole, Speaks
<1> QED BY <1>2, <1>3, <1>4 DEF IInv, IsSeq

THEOREM InitIInv == Init => IInv
<1> SUFFICES ASSUME Init PROVE IInv  OBVIOUS
<1>1. IsRow(session)  BY DEF Init, IsRow, Columns
<1>2. thread = [c \in Threads |-> Idle]  BY DEF Init
<1>3. ASSUME NEW c \in Threads PROVE ThreadOK(session, thread[c])
  <2>1. thread[c] = Idle  BY <1>2
  <2>2. Idle = [f \in DOMAIN Idle |-> Idle[f]] /\ Idle.at = "idle"  BY DEF Idle
  <2> QED BY <2>1, <2>2 DEF ThreadOK
<1>4. IsSeq(board) /\ EntriesByRole
  <2>1. board = <<>>  BY DEF Init
  <2>2. board \in Seq({}) /\ DOMAIN board = {}  BY <2>1
  <2> QED BY <2>2 DEF IsSeq, EntriesByRole
<1> QED BY <1>1, <1>2, <1>3, <1>4 DEF IInv

(* Every step preserves the invariant. *)
THEOREM NextIInv == IInv /\ [Next]_vars => IInv'
<1> SUFFICES ASSUME IInv, [Next]_vars PROVE IInv'  OBVIOUS
<1> USE DEF IInv
<1>begin. ASSUME NEW c \in Threads, NEW agent, NEW agrees, NEW wrote,
                 BeginAdvance(c, agent, agrees, wrote), UNCHANGED <<session, board>>
          PROVE  IInv'
  <2>1. PICK t : t = [Idle EXCEPT !.at = "checked", !.agent = agent, !.agrees = agrees,
                                  !.phase = Phase(session), !.wrote = wrote]
    OBVIOUS
  <2>2. t = [f \in DOMAIN Idle |-> t[f]] /\ t.at = "checked" /\ t.agent = agent /\ t.phase = Phase(session)
    BY <2>1 DEF Idle
  <2>3. Speaks(session, t.agent, t.phase)
    BY <1>begin, <2>2 DEF BeginAdvance, MayContribute, Speaks
  <2>4. thread' = [thread EXCEPT ![c] = t]
    BY <1>begin, <2>1 DEF BeginAdvance
  <2> QED BY <1>begin, <2>2, <2>3, <2>4, ThreadMoves
<1>idle. ASSUME NEW c \in Threads, thread' = [thread EXCEPT ![c] = Idle], UNCHANGED <<session, board>>
         PROVE  IInv'
  <2>1. Idle = [f \in DOMAIN Idle |-> Idle[f]] /\ Idle.at = "idle"  BY DEF Idle
  <2> QED BY <1>idle, <2>1, ThreadMoves
<1>same. ASSUME UNCHANGED <<session, board, thread>> PROVE IInv'
  <2>1. EntriesByRole'  BY <1>same DEF EntriesByRole
  <2>2. IsSeq(board')  BY <1>same
  <2> QED BY <1>same, <2>1, <2>2 DEF IsSeq, IsRow
<1>add. ASSUME NEW c \in Threads, AddEntry(c) PROVE IInv'
  <2> DEFINE e == [phase |-> thread[c].phase, agent |-> thread[c].agent, wrote |-> thread[c].wrote]
  <2>1. Speaks(session, e.agent, e.phase)  BY <1>add DEF AddEntry, ThreadOK
  <2>2. board' = Append(board, e) /\ session' = session  BY <1>add DEF AddEntry
  <2>3. ASSUME NEW i \in DOMAIN board' PROVE Speaks(session, board'[i].agent, board'[i].phase)
    <3>1. CASE i \in DOMAIN board
      <4>1. board'[i] = board[i]  BY <2>2, <3>1, Posting
      <4>2. Speaks(session, board[i].agent, board[i].phase)  BY <3>1 DEF EntriesByRole, Speaks
      <4> QED BY <4>1, <4>2
    <3>2. CASE i = Len(board) + 1
      <4>1. board'[i] = e  BY <2>2, <3>2, Posting
      <4> QED BY <2>1, <4>1
    <3> QED BY <2>2, <3>1, <3>2, Posting
  <2>4. EntriesByRole'  BY <2>2, <2>3 DEF EntriesByRole, Speaks
  <2>5. IsSeq(board)'  BY <2>2, Posting DEF IsSeq
  <2>6. ASSUME NEW d \in Threads PROVE ThreadOK(session', thread'[d])
    <3>1. CASE d = c
      <4>1. thread'[d].at = "posted" /\ thread'[d] = [f \in DOMAIN Idle |-> thread'[d][f]]
        BY <1>add, <3>1 DEF AddEntry, ThreadOK, Idle
      <4> QED BY <4>1 DEF ThreadOK
    <3>2. CASE d # c
      <4>1. thread'[d] = thread[d]  BY <1>add, <3>2 DEF AddEntry
      <4> QED BY <2>2, <4>1
    <3> QED BY <3>1, <3>2
  <2>7. thread' = [d \in Threads |-> thread'[d]]  BY <1>add DEF AddEntry
  <2> QED BY <2>2, <2>4, <2>5, <2>6, <2>7 DEF IsRow
<1>reload. ASSUME NEW c \in Threads, ReloadSession(c) PROVE IInv'
  <2>1. PICK t : t = [thread[c] EXCEPT !.at = "loaded", !.loaded = session]  OBVIOUS
  <2>2. thread[c] = [f \in DOMAIN Idle |-> thread[c][f]]  BY DEF ThreadOK
  <2>3. t = [f \in DOMAIN Idle |-> t[f]] /\ t.at = "loaded" /\ t.loaded = session  BY <2>1, <2>2 DEF Idle
  <2>4. thread' = [thread EXCEPT ![c] = t] /\ UNCHANGED <<session, board>>
    BY <1>reload, <2>1 DEF ReloadSession
  <2> QED BY <2>3, <2>4, ThreadMoves
<1>commit. ASSUME NEW c \in Threads, CommitAdvance(c) PROVE IInv'
  <2>1. PICK new : new = Advanced(thread[c].loaded, thread[c].agrees, thread[c].entry)  OBVIOUS
  <2>2. IsRow(thread[c].loaded) /\ thread[c] = [f \in DOMAIN Idle |-> thread[c][f]]
    BY <1>commit DEF CommitAdvance, ThreadOK
  <2>3. new.roles = thread[c].loaded.roles  BY <2>1, <2>2, OwnColumns
  <2>4. session' = [f \in DOMAIN session |->
                      IF new[f] = thread[c].loaded[f] THEN session[f] ELSE new[f]] /\ board' = board
    BY <1>commit, <2>1 DEF CommitAdvance, Flushed
  <2>5. IsRow(session') /\ session'.roles = session.roles
    BY <2>3, <2>4 DEF IsRow, Columns
  <2>6. PICK t : t = IF c = Worker THEN [thread[c] EXCEPT !.at = "advanced", !.loaded = new] ELSE Idle
    OBVIOUS
  <2>7. t = [f \in DOMAIN Idle |-> t[f]] /\ t.at \notin {"checked", "loaded"}
    BY <2>2, <2>6 DEF Idle
  <2>8. thread' = [thread EXCEPT ![c] = t]  BY <1>commit, <2>1, <2>6 DEF CommitAdvance
  <2> QED BY <2>4, <2>5, <2>7, <2>8, ThreadMoves
<1>publish. ASSUME RecordPublishes PROVE IInv'
  <2>1. PICK t : t = [thread[Worker] EXCEPT !.at = "published"]  OBVIOUS
  <2>2. Worker \in Threads /\ thread[Worker] = [f \in DOMAIN Idle |-> thread[Worker][f]]
    BY DEF ThreadOK, Threads
  <2>3. t = [f \in DOMAIN Idle |-> t[f]] /\ t.at = "published"  BY <2>1, <2>2 DEF Idle
  <2>4. thread' = [thread EXCEPT ![Worker] = t] /\ UNCHANGED <<session, board>>
    BY <1>publish, <2>1 DEF RecordPublishes
  <2> QED BY <2>2, <2>3, <2>4, ThreadMoves
<1>worker. Worker \in Threads  BY DEF Threads
<1>client. \A c \in Requests : c \in Threads  BY DEF Threads
<1>1. CASE UNCHANGED vars  BY <1>1, <1>same DEF vars
<1>2. CASE WorkflowStep
  <2>1. CASE Prepare \/ CliAnswers \/ RecordRefused \/ Finalize
    BY <2>1, <1>same DEF Prepare, CliAnswers, RecordRefused, Finalize
  <2>2. CASE RecordBegins  BY <2>2, <1>begin, <1>worker DEF RecordBegins
  <2>3. CASE AdvanceStep(Worker)  BY <2>3, <1>worker, <1>add, <1>reload, <1>commit DEF AdvanceStep
  <2>4. CASE RecordPublishes  BY <2>4, <1>publish
  <2>5. CASE RecordReturns  BY <2>5, <1>worker, <1>idle DEF RecordReturns
  <2> QED BY <1>2, <2>1, <2>2, <2>3, <2>4, <2>5 DEF WorkflowStep
<1>3. CASE CliTimesOut  BY <1>3, <1>same DEF CliTimesOut
<1>4. CASE WorkerCrash  BY <1>4, <1>worker, <1>idle DEF WorkerCrash
<1>5. ASSUME NEW c \in Requests, Request(c) \/ AdvanceStep(c) \/ RequestCrash(c) PROVE IInv'
  <2>1. CASE Request(c)  BY <2>1, <1>begin, <1>client DEF Request
  <2>2. CASE AdvanceStep(c)  BY <2>2, <1>client, <1>add, <1>reload, <1>commit DEF AdvanceStep
  <2>3. CASE RequestCrash(c)  BY <2>3, <1>client, <1>idle DEF RequestCrash
  <2> QED BY <1>5, <2>1, <2>2, <2>3
<1>6. ASSUME NEW v \in Panels, CatchUp(v) \/ Subscribe(v) PROVE IInv'
  BY <1>6, <1>same DEF CatchUp, Subscribe
<1> QED BY <1>1, <1>2, <1>3, <1>4, <1>5, <1>6 DEF Next

-----------------------------------------------------------------------------
(* Whatever the interleaving of clients, workflow and crashes, every entry of
   the blackboard is by an agent whose role the entry's phase requires: the
   role check of advance_phase holds at the moment the entry is posted,
   although the session may have moved on. *)
THEOREM SpecEntriesByRole == Spec => []EntriesByRole
<1>1. IInv => EntriesByRole  BY DEF IInv
<1> QED BY <1>1, InitIInv, NextIInv, PTL DEF Spec

-----------------------------------------------------------------------------
(* What a panel has seen is on the board, in order; and what the workflow has
   yet to publish is either shown already, from the database, or later than
   everything that is. *)
Unpublished == thread[Worker].at \in {"posted", "loaded", "advanced", "published"}

PanelOK(p) ==
  /\ p = [f \in {"at", "shown", "seen"} |-> p[f]]
  /\ p.shown \in Seq(Nat)
  /\ p.seen = {p.shown[i] : i \in DOMAIN p.shown}
  /\ \A i \in DOMAIN p.shown : p.shown[i] <= Len(board)
  /\ \A i, k \in DOMAIN p.shown : i < k => p.shown[i] < p.shown[k]

NextToShow(p) ==
  \/ thread[Worker].entry \in p.seen
  \/ \A i \in DOMAIN p.shown : p.shown[i] < thread[Worker].entry

PanelInv ==
  /\ panel = [v \in Panels |-> panel[v]]
  /\ \A v \in Panels : PanelOK(panel[v])
  /\ Unpublished => /\ thread[Worker].entry \in 1..Len(board)
                    /\ \A v \in Panels : NextToShow(panel[v])

LEMMA BoardLength ==
  ASSUME NEW s, IsSeq(s)
  PROVE  Len(s) \in Nat /\ (\A e : Len(Append(s, e)) = Len(s) + 1)
<1>1. PICK S : s \in Seq(S)  BY DEF IsSeq
<1>2. ASSUME NEW e PROVE Len(Append(s, e)) = Len(s) + 1
  <2>1. S \subseteq S \cup {e}  OBVIOUS
  <2>2. s \in Seq(S \cup {e})  BY <1>1, <2>1
  <2> QED BY <2>2
<1> QED BY <1>1, <1>2

(* Nothing is shown, nothing is posted, and the workflow's entry is what it was. *)
LEMMA PanelsStay ==
  ASSUME PanelInv, UNCHANGED <<panel, board>>,
         Unpublished' => (Unpublished /\ thread'[Worker].entry = thread[Worker].entry)
  PROVE  PanelInv'
BY DEF PanelInv, PanelOK, NextToShow

(* An entry that is not among those shown before it is shown after them. *)
LEMMA HearsInOrder ==
  ASSUME NEW p, PanelOK(p), NEW e \in 1..Len(board), IsSeq(board),
         e \in p.seen \/ \A i \in DOMAIN p.shown : p.shown[i] < e
  PROVE  PanelOK(Hears(p, e)) /\ e \in Hears(p, e).seen
<1>1. CASE e \in p.seen  BY <1>1 DEF Hears
<1>2. CASE e \notin p.seen
  <2> DEFINE shown == Append(p.shown, e)
             h == [p EXCEPT !.shown = shown, !.seen = p.seen \cup {e}]
  <2>1. Hears(p, e) = h  BY <1>2 DEF Hears
  <2>2. h = [f \in {"at", "shown", "seen"} |-> h[f]] /\ h.shown = shown /\ h.seen = p.seen \cup {e}
    BY DEF PanelOK
  <2>3. p.shown \in Seq(Nat) /\ e \in Nat /\ Len(board) \in Nat /\ e <= Len(board)
    BY BoardLength DEF PanelOK
  <2>4. /\ shown \in Seq(Nat) /\ DOMAIN shown = 1..(Len(p.shown) + 1) /\ DOMAIN p.shown = 1..Len(p.shown)
        /\ Len(p.shown) \in Nat /\ shown[Len(p.shown) + 1] = e
        /\ \A i \in DOMAIN p.shown : shown[i] = p.shown[i]
    BY <2>3
  <2> HIDE DEF shown, h
  <2>a. DOMAIN shown = DOMAIN p.shown \cup {Len(p.shown) + 1}
    BY <2>4
  <2>b. \A i \in DOMAIN p.shown : i < Len(p.shown) + 1 /\ i \in Nat /\ p.shown[i] \in Nat
    BY <2>3, <2>4
  <2>5. ASSUME NEW i \in DOMAIN shown PROVE shown[i] <= Len(board)
    <3>1. CASE i \in DOMAIN p.shown
      <4>1. shown[i] = p.shown[i]  BY <2>4, <3>1
      <4> QED BY <3>1, <4>1 DEF PanelOK
    <3>2. CASE i = Len(p.shown) + 1  BY <2>3, <2>4, <3>2
    <3> QED BY <2>a, <3>1, <3>2
  <2>6. ASSUME NEW i \in DOMAIN shown, NEW k \in DOMAIN shown, i < k PROVE shown[i] < shown[k]
    <3>1. i \in DOMAIN p.shown
      <4>1. CASE k \in DOMAIN p.shown  BY <2>4, <2>6, <2>a, <4>1
      <4>2. CASE k = Len(p.shown) + 1  BY <2>4, <2>6, <2>a, <4>2
      <4> QED BY <2>a, <4>1, <4>2
    <3>2. shown[i] = p.shown[i]  BY <2>4, <3>1
    <3>3. CASE k \in DOMAIN p.shown
      <4>1. shown[k] = p.shown[k]  BY <2>4, <3>3
      <4> QED BY <2>6, <3>1, <3>2, <3>3, <4>1 DEF PanelOK
    <3>4. CASE k = Len(p.shown) + 1
      <4>1. p.shown[i] < e  BY <1>2, <3>1
      <4> QED BY <2>4, <3>2, <3>4, <4>1
    <3> QED BY <2>a, <3>3, <3>4
  <2>7. p.seen \cup {e} = {shown[i] : i \in DOMAIN shown}
    <3>1. p.seen = {p.shown[i] : i \in DOMAIN p.shown}  BY DEF PanelOK
    <3>2. ASSUME NEW x \in p.seen \cup {e} PROVE \E i \in DOMAIN shown : x = shown[i]
      BY <2>4, <2>a, <3>1
    <3>3. ASSUME NEW i \in DOMAIN shown PROVE shown[i] \in p.seen \cup {e}
      BY <2>4, <2>a, <3>1
    <3> QED BY <3>2, <3>3
  <2>8. PanelOK(h)  BY <2>2, <2>4, <2>5, <2>6, <2>7 DEF PanelOK
  <2> QED BY <2>1, <2>2, <2>8
<1> QED BY <1>1, <1>2

THEOREM InitPanelInv == Init => PanelInv
<1> SUFFICES ASSUME Init PROVE PanelInv  OBVIOUS
<1>1. panel = [v \in Panels |-> [at |-> "closed", shown |-> <<>>, seen |-> {}]]  BY DEF Init
<1>2. PanelOK([at |-> "closed", shown |-> <<>>, seen |-> {}])
  <2> DEFINE p == [at |-> "closed", shown |-> <<>>, seen |-> {}]
  <2>1. p = [f \in {"at", "shown", "seen"} |-> p[f]] /\ p.shown = <<>> /\ p.seen = {}  OBVIOUS
  <2> HIDE DEF p
  <2>2. <<>> \in Seq(Nat) /\ DOMAIN <<>> = {}  OBVIOUS
  <2> QED BY <2>1, <2>2 DEF PanelOK
<1>3. ~Unpublished
  <2>1. thread[Worker] = Idle  BY DEF Init, Threads
  <2>2. Idle.at = "idle"  BY DEF Idle
  <2> QED BY <2>1, <2>2 DEF Unpublished
<1> QED BY <1>1, <1>2, <1>3 DEF PanelInv

(* Every step preserves it, whoever else contributes to the board. *)
THEOREM NextPanelInv == IInv /\ PanelInv /\ [Next]_vars => PanelInv'
<1> SUFFICES ASSUME IInv, PanelInv, [Next]_vars PROVE PanelInv'  OBVIOUS
<1>worker. Worker \in Threads /\ thread = [c \in Threads |-> thread[c]]  BY DEF Threads, IInv
<1>client. \A c \in Requests : c \in Threads /\ c # Worker  BY CollaborationAssumption DEF Threads
<1>fields. \A c \in Threads : thread[c] = [f \in DOMAIN Idle |-> thread[c][f]]  BY DEF IInv, ThreadOK
<1>same. ASSUME UNCHANGED <<board, thread, panel>> PROVE PanelInv'
  <2>1. Unpublished' => (Unpublished /\ thread'[Worker].entry = thread[Worker].entry)
    BY <1>same DEF Unpublished
  <2> QED BY <1>same, <2>1, PanelsStay
<1>begin. ASSUME NEW c \in Threads, NEW agent, NEW agrees, NEW wrote,
                 BeginAdvance(c, agent, agrees, wrote), UNCHANGED <<board, panel>>
          PROVE  PanelInv'
  <2>1. CASE c = Worker
    <3>1. thread'[Worker].at = "checked"  BY <1>begin, <1>worker, <2>1 DEF BeginAdvance, Idle
    <3> QED BY <1>begin, <3>1, PanelsStay DEF Unpublished
  <2>2. CASE c # Worker
    <3>1. thread'[Worker] = thread[Worker]  BY <1>begin, <1>worker, <2>2 DEF BeginAdvance
    <3> QED BY <1>begin, <3>1, PanelsStay DEF Unpublished
  <2> QED BY <2>1, <2>2
<1>idle. ASSUME NEW c \in Threads, thread' = [thread EXCEPT ![c] = Idle], UNCHANGED <<board, panel>>
         PROVE  PanelInv'
  <2>1. CASE c = Worker
    <3>1. thread'[Worker].at = "idle"  BY <1>idle, <1>worker, <2>1 DEF Idle
    <3> QED BY <1>idle, <3>1, PanelsStay DEF Unpublished
  <2>2. CASE c # Worker
    <3>1. thread'[Worker] = thread[Worker]  BY <1>idle, <1>worker, <2>2
    <3> QED BY <1>idle, <3>1, PanelsStay DEF Unpublished
  <2> QED BY <2>1, <2>2
<1>reload. ASSUME NEW c \in Threads, ReloadSession(c) PROVE PanelInv'
  <2>1. CASE c = Worker
    <3>1. Unpublished  BY <1>reload, <2>1 DEF ReloadSession, Unpublished
    <3>2. thread'[Worker] = [thread[Worker] EXCEPT !.at = "loaded", !.loaded = session]
      BY <1>reload, <1>worker, <2>1 DEF ReloadSession
    <3>3. thread'[Worker].entry = thread[Worker].entry  BY <3>2, <1>worker, <1>fields DEF Idle
    <3> QED BY <1>reload, <3>1, <3>3, PanelsStay DEF ReloadSession
  <2>2. CASE c # Worker
    <3>1. thread'[Worker] = thread[Worker]  BY <1>reload, <1>worker, <2>2 DEF ReloadSession
    <3> QED BY <1>reload, <3>1, PanelsStay DEF Unpublished, ReloadSession
  <2> QED BY <2>1, <2>2
<1>commit. ASSUME NEW c \in Threads, CommitAdvance(c) PROVE PanelInv'
  <2>1. CASE c = Worker
    <3>1. Unpublished  BY <1>commit, <2>1 DEF CommitAdvance, Unpublished
    <3>2. PICK new : thread'[Worker] = [thread[Worker] EXCEPT !.at = "advanced", !.loaded = new]
      BY <1>commit, <1>worker, <2>1 DEF CommitAdvance
    <3>3. thread'[Worker].entry = thread[Worker].entry  BY <3>2, <1>worker, <1>fields DEF Idle
    <3> QED BY <1>commit, <3>1, <3>3, PanelsStay DEF CommitAdvance
  <2>2. CASE c # Worker
    <3>1. thread'[Worker] = thread[Worker]  BY <1>commit, <1>worker, <2>2 DEF CommitAdvance
    <3> QED BY <1>commit, <3>1, PanelsStay DEF Unpublished, CommitAdvance
  <2> QED BY <2>1, <2>2
<1>add. ASSUME NEW c \in Threads, AddEntry(c) PROVE PanelInv'
  <2>1. panel' = panel /\ Len(board) \in Nat /\ Len(board') = Len(board) + 1
    BY <1>add, BoardLength DEF AddEntry, IInv
  <2>2. \A v \in Panels : PanelOK(panel[v]) /\ \A i \in DOMAIN panel[v].shown : panel[v].shown[i] \in Nat
    BY DEF PanelInv, PanelOK
  <2>3. \A v \in Panels : PanelOK(panel[v])'
    BY <2>1, <2>2 DEF PanelInv, PanelOK
  <2>4. CASE c = Worker
    <3>1. thread'[Worker].entry = Len(board) + 1
      BY <1>add, <1>worker, <1>fields, <2>4 DEF AddEntry, Idle
    <3>2. ASSUME NEW v \in Panels, NEW i \in DOMAIN panel[v].shown
          PROVE  panel[v].shown[i] < Len(board) + 1
      <4>1. panel[v].shown[i] <= Len(board) /\ panel[v].shown[i] \in Nat  BY <2>2 DEF PanelOK
      <4> QED BY <2>1, <4>1
    <3>3. \A v \in Panels : NextToShow(panel[v])'
      BY <2>1, <3>1, <3>2 DEF NextToShow
    <3> QED BY <2>1, <2>3, <3>1, <3>3 DEF PanelInv
  <2>5. CASE c # Worker
    <3>1. thread'[Worker] = thread[Worker]  BY <1>add, <1>worker, <2>5 DEF AddEntry
    <3> QED BY <2>1, <2>3, <3>1 DEF PanelInv, Unpublished, NextToShow
  <2> QED BY <2>4, <2>5
<1>tell. ASSUME UNCHANGED <<board, thread>>, panel' = [v \in Panels |-> panel'[v]],
                \A v \in Panels : /\ PanelOK(panel'[v])
                                  /\ Unpublished => NextToShow(panel'[v])
         PROVE  PanelInv'
  BY <1>tell DEF PanelInv, PanelOK, NextToShow, Unpublished
<1>mark. ASSUME NEW p, PanelOK(p), NEW at
         PROVE  /\ PanelOK([p EXCEPT !.at = at])
                /\ NextToShow(p) => NextToShow([p EXCEPT !.at = at])
  <2> DEFINE q == [p EXCEPT !.at = at]
  <2>1. q = [f \in {"at", "shown", "seen"} |-> q[f]] /\ q.shown = p.shown /\ q.seen = p.seen
    BY <1>mark DEF PanelOK
  <2> HIDE DEF q
  <2> QED BY <1>mark, <2>1 DEF PanelOK, NextToShow
<1>publish. ASSUME RecordPublishes PROVE PanelInv'
  <2>1. PICK e : e = thread[Worker].entry  OBVIOUS
  <2>2. Unpublished /\ e \in 1..Len(board)  BY <1>publish, <2>1 DEF RecordPublishes, Unpublished, PanelInv
  <2>3. /\ panel' = [v \in Panels |-> IF Live(v) THEN Hears(panel[v], e) ELSE panel[v]]
        /\ board' = board
    BY <1>publish, <2>1 DEF RecordPublishes
  <2>4. thread'[Worker] = [thread[Worker] EXCEPT !.at = "published"]
    BY <1>publish, <1>worker DEF RecordPublishes
  <2>5. thread'[Worker].entry = e  BY <2>1, <2>4, <1>worker, <1>fields DEF Idle
  <2>6. ASSUME NEW v \in Panels
        PROVE  PanelOK(panel'[v]) /\ (e \in panel'[v].seen \/ \A i \in DOMAIN panel'[v].shown : panel'[v].shown[i] < e)
    <3>1. PanelOK(panel[v]) /\ (e \in panel[v].seen \/ \A i \in DOMAIN panel[v].shown : panel[v].shown[i] < e)
      BY <2>1, <2>2 DEF PanelInv, NextToShow
    <3>2. CASE Live(v)
      <4>1. panel'[v] = Hears(panel[v], e)  BY <2>3, <3>2
      <4>2. PanelOK(Hears(panel[v], e)) /\ e \in Hears(panel[v], e).seen
        BY <2>2, <3>1, HearsInOrder DEF IInv
      <4> QED BY <4>1, <4>2
    <3>3. CASE ~Live(v)
      <4>1. panel'[v] = panel[v]  BY <2>3, <3>3
      <4> QED BY <3>1, <4>1
    <3> QED BY <3>2, <3>3
  <2>7. panel' = [v \in Panels |-> panel'[v]]  BY <2>3
  <2> QED BY <2>2, <2>3, <2>5, <2>6, <2>7 DEF PanelInv, PanelOK, NextToShow
<1>finalize. ASSUME Finalize PROVE PanelInv'
  <2>1. /\ panel' = [v \in Panels |-> IF Live(v) THEN [panel[v] EXCEPT !.at = "done"] ELSE panel[v]]
        /\ UNCHANGED <<board, thread>>
    BY <1>finalize DEF Finalize
  <2>2. ASSUME NEW v \in Panels PROVE PanelOK(panel'[v]) /\ (Unpublished => NextToShow(panel'[v]))
    <3>1. PanelOK(panel[v]) /\ (Unpublished => NextToShow(panel[v]))  BY DEF PanelInv
    <3>2. panel'[v] = [panel[v] EXCEPT !.at = "done"] \/ panel'[v] = panel[v]  BY <2>1
    <3> QED BY <3>1, <3>2, <1>mark
  <2>3. panel' = [v \in Panels |-> panel'[v]]  BY <2>1
  <2> QED BY <2>1, <2>2, <2>3, <1>tell
<1>subscribe. ASSUME NEW w \in Panels, Subscribe(w) PROVE PanelInv'
  <2>1. panel' = [panel EXCEPT ![w] = [panel[w] EXCEPT !.at = "live"]] /\ UNCHANGED <<board, thread>>
    BY <1>subscribe DEF Subscribe
  <2>2. ASSUME NEW v \in Panels PROVE PanelOK(panel'[v]) /\ (Unpublished => NextToShow(panel'[v]))
    <3>1. PanelOK(panel[v]) /\ (Unpublished => NextToShow(panel[v]))  BY DEF PanelInv
    <3>2. panel'[v] = [panel[v] EXCEPT !.at = "live"] \/ panel'[v] = panel[v]  BY <2>1 DEF PanelInv
    <3> QED BY <3>1, <3>2, <1>mark
  <2>3. panel' = [v \in Panels |-> panel'[v]]  BY <2>1 DEF PanelInv
  <2> QED BY <2>1, <2>2, <2>3, <1>tell
<1>catch. ASSUME NEW w \in Panels, CatchUp(w) PROVE PanelInv'
  <2> DEFINE shown == [i \in 1..Len(board) |-> i]
             p == [at |-> "caught up", shown |-> shown, seen |-> 1..Len(board)]
  <2>1. panel' = [panel EXCEPT ![w] = p] /\ UNCHANGED <<board, thread>>
    BY <1>catch DEF CatchUp
  <2>2. p = [f \in {"at", "shown", "seen"} |-> p[f]] /\ p.shown = shown /\ p.seen = 1..Len(board)
    OBVIOUS
  <2>3. Len(board) \in Nat  BY BoardLength DEF IInv
  <2>4. shown \in Seq(Nat) /\ DOMAIN shown = 1..Len(board) /\ \A i \in 1..Len(board) : shown[i] = i
    BY <2>3
  <2> HIDE DEF shown, p
  <2>5. PanelOK(p)  BY <2>2, <2>3, <2>4 DEF PanelOK
  <2>6. Unpublished => NextToShow(p)  BY <2>2 DEF PanelInv, NextToShow
  <2>7. ASSUME NEW v \in Panels PROVE PanelOK(panel'[v]) /\ (Unpublished => NextToShow(panel'[v]))
    <3>1. PanelOK(panel[v]) /\ (Unpublished => NextToShow(panel[v]))  BY DEF PanelInv
    <3>2. panel'[v] = p \/ panel'[v] = panel[v]  BY <2>1 DEF PanelInv
    <3> QED BY <2>5, <2>6, <3>1, <3>2
  <2>8. panel' = [v \in Panels |-> panel'[v]]  BY <2>1 DEF PanelInv
  <2> QED BY <2>1, <2>7, <2>8, <1>tell
<1>1. CASE UNCHANGED vars  BY <1>1, <1>same DEF vars
<1>2. CASE WorkflowStep
  <2>1. CASE Prepare \/ CliAnswers \/ RecordRefused
    BY <2>1, <1>same DEF Prepare, CliAnswers, RecordRefused
  <2>2. CASE RecordBegins  BY <2>2, <1>begin, <1>worker DEF RecordBegins
  <2>3. CASE AdvanceStep(Worker)  BY <2>3, <1>worker, <1>add, <1>reload, <1>commit DEF AdvanceStep
  <2>4. CASE RecordPublishes  BY <2>4, <1>publish
  <2>5. CASE RecordReturns  BY <2>5, <1>worker, <1>idle DEF RecordReturns
  <2>6. CASE Finalize  BY <2>6, <1>finalize
  <2> QED BY <1>2, <2>1, <2>2, <2>3, <2>4, <2>5, <2>6 DEF WorkflowStep
<1>3. CASE CliTimesOut  BY <1>3, <1>same DEF CliTimesOut
<1>4. CASE WorkerCrash  BY <1>4, <1>worker, <1>idle DEF WorkerCrash
<1>5. ASSUME NEW c \in Requests, Request(c) \/ AdvanceStep(c) \/ RequestCrash(c) PROVE PanelInv'
  <2>1. CASE Request(c)  BY <2>1, <1>begin, <1>client DEF Request
  <2>2. CASE AdvanceStep(c)  BY <2>2, <1>client, <1>add, <1>reload, <1>commit DEF AdvanceStep
  <2>3. CASE RequestCrash(c)  BY <2>3, <1>client, <1>idle DEF RequestCrash
  <2> QED BY <1>5, <2>1, <2>2, <2>3
<1>6. ASSUME NEW v \in Panels, CatchUp(v) \/ Subscribe(v) PROVE PanelInv'
  BY <1>6, <1>catch, <1>subscribe
<1> QED BY <1>1, <1>2, <1>3, <1>4, <1>5, <1>6 DEF Next

(* A panel shows every entry once and in the order of the board, for any
   number of panels, contributors and crashes, and whenever it connects: what
   the stream read from the database and what it hears from the channel never
   overlap unnoticed and never cross. *)
THEOREM SpecShownInOrder == Spec => []ShownInOrder
<1>1. PanelInv => ShownInOrder  BY DEF PanelInv, PanelOK, ShownInOrder
<1> QED BY <1>1, InitIInv, NextIInv, InitPanelInv, NextPanelInv, PTL DEF Spec

-----------------------------------------------------------------------------
(* One contributor at a time: where the session stands, and where its last
   entry left it. *)
FlowFields == {"at", "step", "attempt", "agent", "phase", "why", "report"}
IsFlow(x) == x = [f \in FlowFields |-> x[f]]

Busy(t) == t.at \in {"checked", "posted", "loaded"}
Posted(t) == t.at \in {"posted", "loaded"}

OfPhase(i, k) == board[i].phase = Path[k]

Replay ==
  /\ \A i \in 1..Len(board) : \E k \in DOMAIN Path : OfPhase(i, k)
  /\ Len(board) > 0 => OfPhase(1, 1)
  /\ \A i \in 1..(Len(board) - 1) : \A j, k \in DOMAIN Path :
       OfPhase(i, j) /\ OfPhase(i + 1, k) => k \in {j, Successor(j)}
  /\ Len(board) = 0 => session.index = 1
  /\ Len(board) > 0 => \A k \in DOMAIN Path : OfPhase(Len(board), k) =>
       /\ session.index \in {k, Successor(k)}
       /\ session.status = "completed" => k = Len(Path)

(* A contribution at work was checked against the session as it is, and is
   the last entry of the board once it is posted. *)
AtWork(t) ==
  /\ Busy(t) => session.status = "active" /\ t.phase = Phase(session)
  /\ Posted(t) => Len(board) > 0 /\ t.entry = Len(board) /\ OfPhase(Len(board), session.index)
  /\ t.at = "loaded" => t.loaded = session

(* Once the session has left a drafting phase its draft is on the board. *)
HasDraft == \E i \in DOMAIN board : board[i].phase \in Drafting
Drafted == \A k \in DOMAIN Path : Path[k] \in Drafting /\ k < session.index => HasDraft

SoloInv ==
  /\ session.pattern \in Patterns /\ session.index \in DOMAIN Path
  /\ IsFlow(flow)
  /\ flow.at # "none" => \A c \in Requests : thread[c].at = "idle"
  /\ flow.at = "none" => thread[Worker].at = "idle"
  /\ \A c \in Threads : AtWork(thread[c])
  /\ Replay
  /\ Drafted
  /\ DraftIsOutcome

(* A set of positions has a last one. *)
LEMMA LastPosition ==
  ASSUME NEW n \in Nat, NEW S, S \subseteq 1..n, S # {}
  PROVE  Max(S) \in S /\ \A y \in S : y <= Max(S)
<1> DEFINE Above(x) == {y \in S : y > x}
           T == {Above(x) : x \in S}
           R == StrictSubsetOrdering(1..n)
<1>1. IsFiniteSet(1..n)  BY FS_Interval
<1>2. IsWellFoundedOn(R, SUBSET (1..n))
  BY <1>1, FS_FiniteSubsetsOfFinite, FS_StrictSubsetOrderingWellFounded
<1>3. T \subseteq SUBSET (1..n) /\ T # {}  OBVIOUS
<1>4. PICK U \in T : \A V \in T : ~ (<<V, U>> \in R)
  <2> HIDE DEF R, T
  <2> QED BY <1>2, <1>3, WFMin
<1>5. PICK x \in S : U = Above(x)  OBVIOUS
<1>6. ASSUME NEW y \in S PROVE x >= y
  <2>1. SUFFICES ASSUME y > x PROVE FALSE  OBVIOUS
  <2>2. Above(y) \in T /\ Above(y) \subseteq 1..n /\ Above(x) \subseteq 1..n  OBVIOUS
  <2>3. Above(y) \subseteq Above(x) /\ y \in Above(x) /\ y \notin Above(y)
    <3>1. x \in Nat /\ y \in Nat /\ \A z \in S : z \in Nat  OBVIOUS
    <3>2. \A z \in S : z > y => z > x  BY <2>1, <3>1
    <3>3. ~(y > y)  BY <3>1
    <3> QED BY <2>1, <3>1, <3>2, <3>3
  <2>4. <<Above(y), Above(x)>> \in R  BY <2>2, <2>3 DEF StrictSubsetOrdering
  <2> QED BY <1>4, <1>5, <2>2, <2>4
<1>7. \E z \in S : \A y \in S : z >= y  BY <1>6
<1>8. Max(S) \in S /\ \A y \in S : Max(S) >= y  BY <1>7 DEF Max
<1> QED BY <1>8

(* A pattern names each of its phases once. *)
LEMMA PathFacts ==
  ASSUME NEW q \in DOMAIN PatternPhases
  PROVE  LET p == PatternPhases[q] IN
           /\ Len(p) \in Nat /\ Len(p) > 1 /\ DOMAIN p = 1..Len(p)
           /\ \A j, k \in DOMAIN p : p[j] = p[k] => j = k
           /\ LoopStart(p) \in DOMAIN p
           /\ \E k \in DOMAIN p : p[k] \in Drafting
<1> DEFINE p == PatternPhases[q]
<1>1. CASE q = "propose_critique_revise"
  <2>1. p = <<"propose", "critique", "revise", "verify">>  BY <1>1 DEF PatternPhases
  <2>2. p[2] = "critique" /\ Len(p) = 4 /\ DOMAIN p = 1..4  BY <2>1
  <2>3. LoopStart(p) \in DOMAIN p  BY <2>2 DEF LoopStart, Contains
  <2>4. \A j, k \in 1..4 : p[j] = p[k] => j = k  BY <2>1
  <2>5. p[1] \in Drafting  BY <2>1 DEF Drafting
  <2> QED BY <2>2, <2>3, <2>4, <2>5
<1>2. CASE q = "plan_verify"
  <2>1. p = <<"propose", "verify">>  BY <1>2 DEF PatternPhases
  <2>2. ~Contains(p, "critique")  BY <2>1 DEF Contains
  <2>3. p[1] \in Drafting /\ 1 \in DOMAIN p  BY <2>1 DEF Drafting
  <2> QED BY <2>1, <2>2, <2>3 DEF LoopStart
<1>3. CASE q = "research_synthesize"
  <2>1. p = <<"research", "synthesize", "verify">>  BY <1>3 DEF PatternPhases
  <2>2. ~Contains(p, "critique")  BY <2>1 DEF Contains
  <2>3. p[2] \in Drafting /\ 2 \in DOMAIN p  BY <2>1 DEF Drafting
  <2> QED BY <2>1, <2>2, <2>3 DEF LoopStart
<1>4. CASE q = "debate_resolve"
  <2>1. p = <<"propose", "debate", "resolve">>  BY <1>4 DEF PatternPhases
  <2>2. ~Contains(p, "critique")  BY <2>1 DEF Contains
  <2>3. p[1] \in Drafting /\ 1 \in DOMAIN p  BY <2>1 DEF Drafting
  <2> QED BY <2>1, <2>2, <2>3 DEF LoopStart
<1>5. CASE q = "incident_investigation"
  <2>1. p = <<"triage", "investigate", "analyze", "command">>  BY <1>5 DEF PatternPhases
  <2>2. ~Contains(p, "critique")  BY <2>1 DEF Contains
  <2>3. p[4] \in Drafting /\ 4 \in DOMAIN p  BY <2>1 DEF Drafting
  <2> QED BY <2>1, <2>2, <2>3 DEF LoopStart
<1> QED BY <1>1, <1>2, <1>3, <1>4, <1>5 DEF PatternPhases

(* The three ways of advance_phase to leave a phase. *)
LeavesPhase(row, agrees, entry, new) ==
  LET p == PatternPhases[row.pattern] IN
  /\ new.pattern = row.pattern
  /\ \/ row.index < Len(p) /\ new.index = row.index + 1 /\ new.status = row.status
     \/ /\ ~(row.index < Len(p)) /\ agrees # "yes" /\ new.index = LoopStart(p)
        /\ new.status = row.status
     \/ /\ ~(row.index < Len(p)) /\ new.index = row.index /\ new.status = "completed"
        /\ new.outcome = Accepted(entry) /\ new.consensus # ""

LEMMA AdvancedCases ==
  ASSUME NEW row, NEW agrees, NEW entry, IsRow(row)
  PROVE  LeavesPhase(row, agrees, entry, Advanced(row, agrees, entry))
<1> USE DEF LeavesPhase
<1> DEFINE p == PatternPhases[row.pattern]
<1>1. CASE row.index < Len(p)
  <2>1. Advanced(row, agrees, entry) = [row EXCEPT !.index = row.index + 1]
    BY <1>1 DEF Advanced
  <2> QED BY <1>1, <2>1 DEF IsRow, Columns
<1>2. CASE ~(row.index < Len(p)) /\ agrees # "yes" /\ row.rounds + 1 < row.limit
  <2>1. Advanced(row, agrees, entry) = [row EXCEPT !.rounds = row.rounds + 1, !.index = LoopStart(p)]
    BY <1>2 DEF Advanced
  <2> QED BY <1>2, <2>1 DEF IsRow, Columns
<1>3. CASE ~(row.index < Len(p)) /\ ~(agrees # "yes" /\ row.rounds + 1 < row.limit)
  <2>1. PICK consensus : consensus = IF agrees = "yes" THEN "yes" ELSE "partial"  OBVIOUS
  <2>3. consensus # ""
    <3>1. CASE agrees = "yes"  BY <2>1, <3>1
    <3>2. CASE agrees # "yes"  BY <2>1, <3>2
    <3> QED BY <3>1, <3>2
  <2>2. Advanced(row, agrees, entry) =
          [row EXCEPT !.rounds = row.rounds + 1, !.status = "completed", !.outcome = Accepted(entry),
                      !.consensus = consensus]
    BY <1>3, <2>1 DEF Advanced
  <2> QED BY <1>3, <2>2, <2>3 DEF IsRow, Columns
<1> QED BY <1>1, <1>2, <1>3

(* A flush that finds the row as it was loaded writes it as it is now. *)
LEMMA FlushedFresh ==
  ASSUME IsRow(session), NEW new, IsRow(new)
  PROVE  Flushed(new, session) = new
BY DEF Flushed, IsRow, Columns

LEMMA PathOfSession ==
  ASSUME SoloInv
  PROVE  /\ Len(Path) \in Nat /\ Len(Path) > 1 /\ DOMAIN Path = 1..Len(Path)
         /\ \A j, k \in DOMAIN Path : Path[j] = Path[k] => j = k
         /\ LoopStart(Path) \in DOMAIN Path
         /\ session.index \in 1..Len(Path)
         /\ \E k \in DOMAIN Path : Path[k] \in Drafting
<1>1. session.pattern \in DOMAIN PatternPhases  BY CollaborationAssumption DEF SoloInv
<1> QED BY <1>1, PathFacts DEF SoloInv, Path

(* While one contributes nobody else does. *)
LEMMA NobodyElse ==
  ASSUME OneContributor, SoloInv, NEW c \in Threads, thread[c].at # "idle", NEW d \in Threads, d # c
  PROVE  thread[d].at = "idle"
<1>1. CASE c = Worker
  <2>1. flow.at # "none" /\ d \in Requests  BY <1>1 DEF SoloInv, Threads
  <2> QED BY <2>1 DEF SoloInv
<1>2. CASE c # Worker
  <2>1. c \in Requests /\ flow.at = "none"  BY <1>2 DEF SoloInv, Threads
  <2>2. d = Worker  BY <2>1 DEF OneContributor, Threads
  <2> QED BY <2>1, <2>2 DEF SoloInv
<1> QED BY <1>1, <1>2

(* A thread that moves while session and board stay. *)
LEMMA SoloStays ==
  ASSUME IInv, SoloInv, UNCHANGED <<session, board>>, IsFlow(flow'), flow'.at = "none" <=> flow.at = "none",
         NEW c \in Threads, NEW t, thread' = [thread EXCEPT ![c] = t],
         t.at # "idle" => (c = Worker <=> flow.at # "none"), AtWork(t)
  PROVE  SoloInv'
<1>1. \A d \in Threads : thread'[d] = IF d = c THEN t ELSE thread[d]  BY DEF IInv
<1>2. Worker \in Threads /\ Worker \notin Requests /\ \A d \in Requests : d \in Threads
  BY CollaborationAssumption DEF Threads
<1>3. ASSUME NEW d \in Threads PROVE AtWork(thread[d])'
  <2>1. AtWork(thread'[d])
    <3>1. AtWork(thread[d])  BY DEF SoloInv
    <3> QED BY <1>1, <3>1
  <2> QED BY <2>1 DEF AtWork, Busy, Posted, Phase, OfPhase, Path
<1>4. flow'.at # "none" => \A d \in Requests : thread'[d].at = "idle"
  BY <1>1, <1>2 DEF SoloInv
<1>5. flow'.at = "none" => thread'[Worker].at = "idle"
  BY <1>1, <1>2 DEF SoloInv
<1>6. Replay' /\ DraftIsOutcome'
  BY DEF SoloInv, Replay, DraftIsOutcome, OfPhase, Path, Successor, LoopStart
<1>8. Drafted'  BY DEF SoloInv, Drafted, HasDraft, Path
<1>7. session'.pattern \in Patterns /\ session'.index \in DOMAIN Path'
  BY DEF SoloInv, Path
<1> QED BY <1>3, <1>4, <1>5, <1>6, <1>7, <1>8 DEF SoloInv

(* An entry is posted where the session stands. *)
LEMMA SoloPosts ==
  ASSUME OneContributor, IInv, SoloInv, NEW c \in Threads, AddEntry(c)
  PROVE  SoloInv'
<1>n. PICK n : n = Len(board)  OBVIOUS
<1>e. PICK e : e = [phase |-> thread[c].phase, agent |-> thread[c].agent, wrote |-> thread[c].wrote]  OBVIOUS
<1>i. PICK idx : idx = session.index  OBVIOUS
<1>1. /\ session.status = "active" /\ e.phase = Path[idx] /\ e.phase = thread[c].phase
      /\ board' = Append(board, e) /\ session' = session /\ flow' = flow
  <2>1. Busy(thread[c]) /\ AtWork(thread[c])  BY DEF AddEntry, Busy, SoloInv
  <2> QED BY <1>e, <1>i, <2>1 DEF AddEntry, AtWork, Phase, Path
<1>2. n \in Nat /\ Len(board') = n + 1 /\ DOMAIN board = 1..n  BY <1>n, <1>1, BoardLength DEF IInv, IsSeq
<1>3. board'[n + 1] = e /\ \A i \in 1..n : board'[i] = board[i]  BY <1>n, <1>1, <1>2, Posting DEF IInv
<1>4. Path' = Path  BY <1>1 DEF Path
<1>5. idx \in DOMAIN Path /\ \A k \in DOMAIN Path : e.phase = Path[k] => k = idx
  BY <1>1, <1>i, PathOfSession
<1>6. /\ \A k : OfPhase(n + 1, k)' <=> e.phase = Path[k]
      /\ \A i \in 1..n : \A k : OfPhase(i, k)' <=> OfPhase(i, k)
  BY <1>3, <1>4 DEF OfPhase
<1>s. \A k : Successor(k)' = Successor(k)  BY <1>4 DEF Successor
<1>7. Replay'
  <2>1. \A i \in 1..(n + 1) : \E k \in DOMAIN Path' : OfPhase(i, k)'
    <3>1. \A i \in 1..n : \E k \in DOMAIN Path : OfPhase(i, k)  BY <1>n DEF SoloInv, Replay
    <3>2. OfPhase(n + 1, idx)'  BY <1>1, <1>6
    <3>3. 1..(n + 1) = (1..n) \cup {n + 1}  BY <1>2
    <3> QED BY <1>4, <1>5, <1>6, <3>1, <3>2, <3>3
  <2>2. OfPhase(1, 1)'
    <3>1. CASE n = 0
      <4>1. idx = 1  BY <1>n, <1>i, <3>1 DEF SoloInv, Replay
      <4>2. OfPhase(n + 1, 1)'  BY <1>1, <1>6, <4>1
      <4> QED BY <3>1, <4>2
    <3>2. CASE n > 0
      <4>1. OfPhase(1, 1) /\ 1 \in 1..n  BY <1>n, <1>2, <3>2 DEF SoloInv, Replay
      <4> QED BY <1>6, <4>1
    <3> QED BY <1>2, <3>1, <3>2
  <2>3. ASSUME NEW i \in 1..n, NEW j \in DOMAIN Path, NEW k \in DOMAIN Path, OfPhase(i, j)', OfPhase(i + 1, k)'
        PROVE  k \in {j, Successor(j)}
    <3>1. OfPhase(i, j)  BY <1>6, <2>3
    <3>2. CASE i < n
      <4>1. i + 1 \in 1..n /\ i \in 1..(n - 1)  BY <1>2, <3>2
      <4>2. OfPhase(i + 1, k)  BY <1>6, <2>3, <4>1
      <4> QED BY <1>n, <3>1, <4>1, <4>2 DEF SoloInv, Replay
    <3>3. CASE i = n
      <4>1. k = idx  BY <1>5, <1>6, <2>3, <3>3
      <4>2. n > 0  BY <1>2, <3>3
      <4>3. idx \in {j, Successor(j)}  BY <1>n, <1>i, <3>1, <3>3, <4>2 DEF SoloInv, Replay
      <4> QED BY <4>1, <4>3
    <3> QED BY <1>2, <3>2, <3>3
  <2>4. \A k \in DOMAIN Path' : OfPhase(n + 1, k)' =>
          session'.index \in {k, Successor(k)'} /\ (session'.status = "completed" => k = Len(Path'))
    BY <1>1, <1>i, <1>4, <1>5, <1>6
  <2>5. Len(board') = n + 1 /\ n + 1 > 0 /\ (n + 1) - 1 = n  BY <1>2
  <2> QED BY <1>4, <1>s, <2>1, <2>2, <2>3, <2>4, <2>5 DEF Replay
<1>8. ASSUME NEW d \in Threads PROVE AtWork(thread[d])' /\ (thread[d].at = "idle" => thread'[d].at = "idle")
  <2>1. CASE d = c
    <3>1. thread[c] = [f \in DOMAIN Idle |-> thread[c][f]]  BY DEF IInv, ThreadOK
    <3>2. /\ thread'[d].at = "posted" /\ thread'[d].entry = n + 1 /\ thread'[d].phase = e.phase
          /\ thread[d].at = "checked"
      BY <1>n, <1>1, <2>1, <3>1 DEF AddEntry, Idle, IInv
    <3>3. OfPhase(n + 1, idx)'  BY <1>1, <1>6
    <3>4. Len(board') > 0 /\ Len(board') = n + 1  BY <1>2
    <3>5. Phase(session)' = Path[idx]  BY <1>1, <1>i DEF Phase, Path
    <3> QED BY <1>1, <1>i, <3>2, <3>3, <3>4, <3>5 DEF AtWork, Busy, Posted
  <2>2. CASE d # c
    <3>1. thread'[d] = thread[d] /\ thread[c].at # "idle"  BY <2>2 DEF AddEntry, IInv
    <3>2. thread[d].at = "idle"  BY <2>2, <3>1, NobodyElse
    <3> QED BY <3>1, <3>2 DEF AtWork, Busy, Posted
  <2> QED BY <2>1, <2>2
<1>9. DraftIsOutcome'  BY <1>1 DEF DraftIsOutcome
<1>11. Drafted'
  <2>1. HasDraft => HasDraft'
    <3>1. DOMAIN board \subseteq DOMAIN board' /\ \A i \in DOMAIN board : board'[i] = board[i]
      BY <1>1, Posting DEF IInv
    <3> QED BY <3>1 DEF HasDraft
  <2> QED BY <1>1, <1>4, <2>1 DEF SoloInv, Drafted
<1>10. Worker \in Threads /\ \A d \in Requests : d \in Threads  BY DEF Threads
<1> QED BY <1>1, <1>4, <1>7, <1>8, <1>9, <1>10, <1>11 DEF SoloInv

(* The session is advanced from where its last entry was posted. *)
LEMMA SoloAdvances ==
  ASSUME OneContributor, IInv, SoloInv, NEW c \in Threads, CommitAdvance(c)
  PROVE  SoloInv'
<1>t. PICK t : t = thread[c]  OBVIOUS
<1>n. PICK n : n = Len(board)  OBVIOUS
<1>i. PICK idx : idx = session.index  OBVIOUS
<1>w. PICK new : new = Advanced(session, t.agrees, t.entry)  OBVIOUS
<1>1. /\ t.loaded = session /\ session.status = "active" /\ t.entry = n /\ n > 0 /\ OfPhase(n, idx)
  BY <1>t, <1>n, <1>i DEF CommitAdvance, SoloInv, AtWork, Busy, Posted
<1>2. IsRow(session) /\ IsRow(new)  BY <1>w, OwnColumns DEF IInv
<1>3. session' = new /\ board' = board /\ flow' = flow
  BY <1>t, <1>w, <1>1, <1>2, FlushedFresh DEF CommitAdvance
<1>4. n \in Nat /\ DOMAIN board = 1..n  BY <1>n, BoardLength DEF IInv, IsSeq
<1>5. /\ new.pattern = session.pattern
      /\ \/ idx < Len(Path) /\ new.index = idx + 1 /\ new.status = session.status
         \/ ~(idx < Len(Path)) /\ new.index = LoopStart(Path) /\ new.status = session.status
         \/ /\ ~(idx < Len(Path)) /\ new.index = idx /\ new.status = "completed"
            /\ new.outcome = Accepted(t.entry) /\ new.consensus # ""
  <2>1. Path = PatternPhases[session.pattern]  BY DEF Path
  <2>2. LeavesPhase(session, t.agrees, t.entry, new)  BY <1>w, <1>2, AdvancedCases
  <2> QED BY <1>i, <2>1, <2>2 DEF LeavesPhase
<1>6. Path' = Path  BY <1>3, <1>5 DEF Path
<1>7. /\ \A k : Successor(k)' = Successor(k)
      /\ \A i, k : OfPhase(i, k)' <=> OfPhase(i, k)
  BY <1>3, <1>6 DEF Successor, OfPhase
<1>8. /\ Len(Path) \in Nat /\ DOMAIN Path = 1..Len(Path) /\ idx \in 1..Len(Path) /\ LoopStart(Path) \in DOMAIN Path
      /\ \A k \in DOMAIN Path : OfPhase(n, k) => k = idx
  BY <1>1, <1>i, PathOfSession DEF OfPhase
<1>9. new.index \in DOMAIN Path /\ new.index \in {idx, Successor(idx)}
  <2>1. CASE idx < Len(Path)
    <3>1. new.index = idx + 1 /\ Successor(idx) = idx + 1  BY <1>5, <2>1 DEF Successor
    <3> QED BY <1>8, <2>1, <3>1
  <2>2. CASE ~(idx < Len(Path))
    <3>1. Successor(idx) = LoopStart(Path) /\ new.index \in {idx, LoopStart(Path)}
      BY <1>5, <2>2 DEF Successor
    <3> QED BY <1>8, <3>1
  <2> QED BY <2>1, <2>2
<1>10. new.status = "completed" => (idx = Len(Path) /\ new.outcome = Accepted(t.entry) /\ new.consensus # "")
  <2>0. idx \in 1..Len(Path) /\ Len(Path) \in Nat  BY <1>8
  <2>1. ~(idx < Len(Path)) => idx = Len(Path)  BY <2>0
  <2>2. session.status # "completed"  BY <1>1
  <2> QED BY <1>5, <2>1, <2>2
<1>11. Replay'
  <2>1. \A k \in DOMAIN Path' : OfPhase(n, k)' =>
          session'.index \in {k, Successor(k)'} /\ (session'.status = "completed" => k = Len(Path'))
    BY <1>3, <1>6, <1>7, <1>8, <1>9, <1>10
  <2>2. Len(board') = n /\ n # 0  BY <1>n, <1>1, <1>3, <1>4
  <2>3. /\ \A i \in 1..n : \E k \in DOMAIN Path : OfPhase(i, k)
        /\ OfPhase(1, 1)
        /\ \A i \in 1..(n - 1) : \A j, k \in DOMAIN Path :
             OfPhase(i, j) /\ OfPhase(i + 1, k) => k \in {j, Successor(j)}
    BY <1>n, <1>1 DEF SoloInv, Replay
  <2> QED BY <1>6, <1>7, <2>1, <2>2, <2>3 DEF Replay
<1>here. Path[idx] \in Drafting => HasDraft
  <2>1. board[n].phase = Path[idx] /\ n \in DOMAIN board  BY <1>1, <1>4 DEF OfPhase
  <2> QED BY <2>1 DEF HasDraft
<1>16. ASSUME NEW k \in DOMAIN Path, Path[k] \in Drafting, k <= idx PROVE HasDraft
  <2>1. k \in Nat /\ idx \in Nat  BY <1>8
  <2>2. CASE k < idx  BY <1>16, <1>i, <2>2 DEF SoloInv, Drafted
  <2>3. CASE k = idx  BY <1>16, <1>here, <2>3
  <2> QED BY <1>16, <2>1, <2>2, <2>3
<1>17. Drafted'
  <2>1. HasDraft' <=> HasDraft  BY <1>3 DEF HasDraft
  <2>2. ASSUME NEW k \in DOMAIN Path, k < new.index PROVE k <= idx
    <3>1. k \in Nat /\ idx \in Nat /\ Len(Path) \in Nat /\ idx <= Len(Path) /\ k <= Len(Path)  BY <1>8
    <3>2. ~(idx < Len(Path)) => idx = Len(Path)  BY <3>1
    <3>3. new.index = idx + 1 \/ idx = Len(Path)  BY <1>5, <3>2
    <3> QED BY <2>2, <3>1, <3>3
  <2>3. ASSUME NEW k \in DOMAIN Path, Path[k] \in Drafting, k < new.index PROVE HasDraft
    BY <1>16, <2>2, <2>3
  <2> QED BY <1>3, <1>6, <2>1, <2>3 DEF Drafted
<1>12. DraftIsOutcome'
  <2>1. SUFFICES ASSUME new.status = "completed"
                 PROVE  /\ new.outcome \in DOMAIN board /\ board[new.outcome].phase \in Drafting
                        /\ \A i \in DOMAIN board : board[i].phase \in Drafting => i <= new.outcome
                        /\ new.consensus # ""
    BY <1>3 DEF DraftIsOutcome
  <2> DEFINE drafts == {i \in DOMAIN board : board[i].phase \in Drafting}
  <2>2. new.outcome = (IF drafts = {} THEN n ELSE Max(drafts)) /\ new.consensus # ""
    BY <1>1, <1>10, <2>1 DEF Accepted
  <2>3. drafts # {}
    <3>1. PICK k \in DOMAIN Path : Path[k] \in Drafting  BY PathOfSession
    <3>2. k \in 1..Len(Path) /\ Len(Path) \in Nat  BY <1>8
    <3>4. idx = Len(Path)  BY <1>10, <2>1
    <3>5. k <= idx  BY <3>2, <3>4
    <3>3. HasDraft  BY <1>16, <3>1, <3>5
    <3> QED BY <3>3 DEF HasDraft
  <2>4. drafts \subseteq 1..n  BY <1>4
  <2>5. Max(drafts) \in drafts /\ \A y \in drafts : y <= Max(drafts)
    <3> HIDE DEF drafts
    <3> QED BY <1>4, <2>3, <2>4, LastPosition
  <2>6. PICK top : top = Max(drafts)  OBVIOUS
  <2>7. top \in drafts /\ (\A y \in drafts : y <= top) /\ new.outcome = top  BY <2>2, <2>3, <2>5, <2>6
  <2> QED BY <2>2, <2>7
<1>13. ASSUME NEW d \in Threads PROVE AtWork(thread[d])' /\ (thread[d].at = "idle" => thread'[d].at = "idle")
  <2>1. CASE d = c
    <3>1. thread[c] = [f \in DOMAIN Idle |-> thread[c][f]]  BY DEF IInv, ThreadOK
    <3>2. thread[d].at = "loaded" /\ (thread'[d].at = "advanced" \/ thread'[d] = Idle)
      BY <2>1, <3>1 DEF CommitAdvance, Idle, IInv
    <3>3. Idle.at = "idle"  BY DEF Idle
    <3> QED BY <3>2, <3>3 DEF AtWork, Busy, Posted
  <2>2. CASE d # c
    <3>1. thread'[d] = thread[d] /\ thread[c].at # "idle"  BY <2>2 DEF CommitAdvance, IInv
    <3>2. thread[d].at = "idle"  BY <2>2, <3>1, NobodyElse
    <3> QED BY <3>1, <3>2 DEF AtWork, Busy, Posted
  <2> QED BY <2>1, <2>2
<1>14. Worker \in Threads /\ \A d \in Requests : d \in Threads  BY DEF Threads
<1>15. session'.pattern \in Patterns /\ session'.index \in DOMAIN Path'
  BY <1>3, <1>5, <1>6, <1>9 DEF SoloInv
<1> QED BY <1>3, <1>11, <1>12, <1>13, <1>14, <1>15, <1>17 DEF SoloInv

THEOREM InitSoloInv == Init => SoloInv
<1> SUFFICES ASSUME Init PROVE SoloInv  OBVIOUS
<1>1. session.pattern \in Patterns /\ session.index = 1 /\ session.status = "active"  BY DEF Init
<1>2. 1 \in DOMAIN Path
  <2>1. session.pattern \in DOMAIN PatternPhases  BY <1>1, CollaborationAssumption
  <2> QED BY <2>1, PathFacts DEF Path
<1>3. IsFlow(flow)  BY DEF Init, IsFlow, FlowFields
<1>4. \A c \in Threads : thread[c] = Idle  BY DEF Init
<1>5. Idle.at = "idle"  BY DEF Idle
<1>6. Worker \in Threads /\ \A c \in Requests : c \in Threads  BY DEF Threads
<1>7. \A c \in Threads : AtWork(thread[c])  BY <1>4, <1>5 DEF AtWork, Busy, Posted
<1>8. Replay
  <2>1. Len(board) = 0  BY DEF Init
  <2> QED BY <1>1, <2>1 DEF Replay
<1>9. DraftIsOutcome  BY <1>1 DEF DraftIsOutcome
<1>10. Drafted  BY <1>1, <1>2, PathFacts, CollaborationAssumption DEF Drafted, Path
<1> QED BY <1>1, <1>2, <1>3, <1>4, <1>5, <1>6, <1>7, <1>8, <1>9, <1>10 DEF SoloInv

(* Every step of a single contributor preserves it, crashes included. *)
THEOREM NextSoloInv == IInv /\ OneContributor /\ SoloInv /\ [Next]_vars => SoloInv'
<1> SUFFICES ASSUME IInv, OneContributor, SoloInv, [Next]_vars PROVE SoloInv'  OBVIOUS
<1>worker. Worker \in Threads /\ thread = [c \in Threads |-> thread[c]]  BY DEF Threads, IInv
<1>client. \A c \in Requests : c \in Threads /\ c # Worker  BY CollaborationAssumption DEF Threads
<1>idle. ASSUME NEW c \in Threads, thread' = [thread EXCEPT ![c] = Idle], UNCHANGED <<session, board>>,
                IsFlow(flow'), flow'.at = "none" <=> flow.at = "none"
         PROVE  SoloInv'
  <2>1. Idle.at = "idle"  BY DEF Idle
  <2>2. AtWork(Idle)  BY <2>1 DEF AtWork, Busy, Posted
  <2> QED BY <1>idle, <2>1, <2>2, SoloStays
<1>same. ASSUME UNCHANGED <<session, board, thread>>, IsFlow(flow'), flow'.at = "none" <=> flow.at = "none"
         PROVE  SoloInv'
  <2>1. thread' = [thread EXCEPT ![Worker] = thread[Worker]]  BY <1>same, <1>worker
  <2>2. AtWork(thread[Worker])  BY <1>worker DEF SoloInv
  <2>3. thread[Worker].at # "idle" => flow.at # "none"  BY DEF SoloInv
  <2> QED BY <1>same, <1>worker, <2>1, <2>2, <2>3, SoloStays
<1>begin. ASSUME NEW c \in Threads, NEW agent, NEW agrees, NEW wrote, BeginAdvance(c, agent, agrees, wrote),
                 UNCHANGED <<session, board, flow>>, c = Worker <=> flow.at # "none"
          PROVE  SoloInv'
  <2>1. PICK t : t = [Idle EXCEPT !.at = "checked", !.agent = agent, !.agrees = agrees,
                                  !.phase = Phase(session), !.wrote = wrote]
    OBVIOUS
  <2>2. t.at = "checked" /\ t.phase = Phase(session)  BY <2>1 DEF Idle
  <2>3. session.status = "active"  BY <1>begin DEF BeginAdvance, MayContribute
  <2>4. AtWork(t)  BY <2>2, <2>3 DEF AtWork, Busy, Posted
  <2>5. thread' = [thread EXCEPT ![c] = t]  BY <1>begin, <2>1 DEF BeginAdvance
  <2>6. IsFlow(flow') /\ (flow'.at = "none" <=> flow.at = "none")  BY <1>begin DEF SoloInv
  <2> QED BY <1>begin, <2>4, <2>5, <2>6, SoloStays
<1>moves. ASSUME NEW c \in Threads, NEW t, thread' = [thread EXCEPT ![c] = t], thread[c].at # "idle", AtWork(t),
                 UNCHANGED <<session, board, flow>>
          PROVE  SoloInv'
  <2>1. c = Worker <=> flow.at # "none"  BY <1>moves, <1>client DEF SoloInv, Threads
  <2>2. IsFlow(flow') /\ (flow'.at = "none" <=> flow.at = "none")  BY <1>moves DEF SoloInv
  <2> QED BY <1>moves, <2>1, <2>2, SoloStays
<1>reload. ASSUME NEW c \in Threads, ReloadSession(c) PROVE SoloInv'
  <2>1. PICK t : t = [thread[c] EXCEPT !.at = "loaded", !.loaded = session]  OBVIOUS
  <2>2. thread[c] = [f \in DOMAIN Idle |-> thread[c][f]]  BY DEF IInv, ThreadOK
  <2>3. t.at = "loaded" /\ t.loaded = session /\ t.entry = thread[c].entry /\ t.phase = thread[c].phase
    BY <2>1, <2>2 DEF Idle
  <2>4. AtWork(thread[c]) /\ thread[c].at = "posted"  BY <1>reload DEF SoloInv, ReloadSession
  <2>5. AtWork(t)  BY <2>3, <2>4 DEF AtWork, Busy, Posted
  <2>6. thread' = [thread EXCEPT ![c] = t] /\ UNCHANGED <<session, board, flow>>
    BY <1>reload, <2>1 DEF ReloadSession
  <2> QED BY <2>4, <2>5, <2>6, <1>moves
<1>publish. ASSUME RecordPublishes PROVE SoloInv'
  <2>1. PICK t : t = [thread[Worker] EXCEPT !.at = "published"]  OBVIOUS
  <2>2. thread[Worker] = [f \in DOMAIN Idle |-> thread[Worker][f]]  BY <1>worker DEF IInv, ThreadOK
  <2>3. t.at = "published"  BY <2>1, <2>2 DEF Idle
  <2>4. AtWork(t)  BY <2>3 DEF AtWork, Busy, Posted
  <2>5. thread' = [thread EXCEPT ![Worker] = t] /\ UNCHANGED <<session, board, flow>> /\ thread[Worker].at # "idle"
    BY <1>publish, <2>1 DEF RecordPublishes
  <2> QED BY <1>worker, <2>4, <2>5, <1>moves
<1>retried. ASSUME NEW why, Retried(why), flow.at # "none" PROVE IsFlow(flow') /\ flow'.at # "none"
  <2>1. CASE flow.attempt < 3
    <3>1. flow' = [flow EXCEPT !.attempt = flow.attempt + 1, !.why = why]  BY <1>retried, <2>1 DEF Retried
    <3> QED BY <1>retried, <3>1 DEF SoloInv, IsFlow, FlowFields
  <2>2. CASE ~(flow.attempt < 3)
    <3>1. flow' = [flow EXCEPT !.at = "failed", !.why = why]  BY <1>retried, <2>2 DEF Retried
    <3> QED BY <1>retried, <3>1 DEF SoloInv, IsFlow, FlowFields
  <2> QED BY <2>1, <2>2
<1>1. CASE UNCHANGED vars  BY <1>1, <1>same DEF vars, SoloInv
<1>2. CASE WorkflowStep
  <2>1. CASE Prepare
    <3>1. PICK agent, phase : flow' = [flow EXCEPT !.at = "cli", !.attempt = 1, !.agent = agent, !.phase = phase]
      BY <2>1 DEF Prepare, Prepared
    <3>2. IsFlow(flow') /\ flow'.at = "cli"  BY <3>1 DEF SoloInv, IsFlow, FlowFields
    <3> QED BY <2>1, <3>2, <1>same DEF Prepare
  <2>2. CASE CliAnswers
    <3>1. IsFlow(flow') /\ flow'.at = "record"  BY <2>2 DEF CliAnswers, SoloInv, IsFlow, FlowFields
    <3> QED BY <2>2, <3>1, <1>same DEF CliAnswers
  <2>3. CASE RecordBegins
    <3>1. flow.at # "none" /\ UNCHANGED <<session, board, flow>>  BY <2>3 DEF RecordBegins
    <3> QED BY <2>3, <3>1, <1>worker, <1>begin DEF RecordBegins
  <2>4. CASE RecordRefused
    <3>1. flow.at # "none" /\ UNCHANGED <<session, board, thread>>  BY <2>4 DEF RecordRefused
    <3>2. IsFlow(flow') /\ flow'.at # "none"  BY <2>4, <3>1, <1>retried DEF RecordRefused
    <3> QED BY <3>1, <3>2, <1>same
  <2>5. CASE AdvanceStep(Worker)
    BY <2>5, <1>worker, <1>reload, SoloPosts, SoloAdvances DEF AdvanceStep
  <2>6. CASE RecordPublishes  BY <2>6, <1>publish
  <2>7. CASE RecordReturns
    <3>1. flow.at # "none" /\ thread' = [thread EXCEPT ![Worker] = Idle] /\ UNCHANGED <<session, board>>
      BY <2>7 DEF RecordReturns, SoloInv
    <3>2. PICK at : at \in {"finalize", "prepare"} /\
                    flow' = [flow EXCEPT !.attempt = 1, !.step = flow.step + 1, !.at = at]
      <4>1. CASE thread[Worker].loaded.status = "completed" \/ flow.step >= session.limit
        BY <2>7, <4>1 DEF RecordReturns, AfterStep
      <4>2. CASE ~(thread[Worker].loaded.status = "completed" \/ flow.step >= session.limit)
        BY <2>7, <4>2 DEF RecordReturns, AfterStep
      <4> QED BY <4>1, <4>2
    <3>3. IsFlow(flow') /\ flow'.at # "none"  BY <3>2 DEF SoloInv, IsFlow, FlowFields
    <3> QED BY <3>1, <3>3, <1>worker, <1>idle
  <2>8. CASE Finalize
    <3>1. IsFlow(flow') /\ flow'.at = "completed"  BY <2>8 DEF Finalize, SoloInv, IsFlow, FlowFields
    <3> QED BY <2>8, <3>1, <1>same DEF Finalize
  <2> QED BY <1>2, <2>1, <2>2, <2>3, <2>4, <2>5, <2>6, <2>7, <2>8 DEF WorkflowStep
<1>3. CASE CliTimesOut
  <2>1. IsFlow(flow') /\ flow'.at = "failed"  BY <1>3 DEF CliTimesOut, SoloInv, IsFlow, FlowFields
  <2> QED BY <1>3, <2>1, <1>same DEF CliTimesOut
<1>4. CASE WorkerCrash
  <2>1. flow.at # "none" /\ thread' = [thread EXCEPT ![Worker] = Idle] /\ UNCHANGED <<session, board>>
    BY <1>4 DEF WorkerCrash
  <2>2. IsFlow(flow') /\ flow'.at # "none"  BY <1>4, <2>1, <1>retried DEF WorkerCrash
  <2> QED BY <2>1, <2>2, <1>worker, <1>idle
<1>5. ASSUME NEW c \in Requests, Request(c) \/ AdvanceStep(c) \/ RequestCrash(c) PROVE SoloInv'
  <2>1. CASE Request(c)
    <3>1. flow.at = "none" /\ UNCHANGED <<session, board, flow>>  BY <2>1 DEF Request, OneContributor
    <3> QED BY <2>1, <3>1, <1>client, <1>begin DEF Request
  <2>2. CASE AdvanceStep(c)  BY <2>2, <1>client, <1>reload, SoloPosts, SoloAdvances DEF AdvanceStep
  <2>3. CASE RequestCrash(c)
    <3>1. IsFlow(flow') /\ (flow'.at = "none" <=> flow.at = "none")  BY <2>3 DEF RequestCrash, SoloInv
    <3> QED BY <2>3, <3>1, <1>client, <1>idle DEF RequestCrash
  <2> QED BY <1>5, <2>1, <2>2, <2>3
<1>6. ASSUME NEW v \in Panels, CatchUp(v) \/ Subscribe(v) PROVE SoloInv'
  BY <1>6, <1>same DEF CatchUp, Subscribe, SoloInv
<1> QED BY <1>1, <1>2, <1>3, <1>4, <1>5, <1>6 DEF Next

(* Whether one contributes is settled when the session begins. *)
Settled == flow'.at = "none" <=> flow.at = "none"

LEMMA FlowStays ==
  ASSUME IInv, IsFlow(flow), [Next]_vars
  PROVE  IsFlow(flow') /\ Settled /\ session'.pattern = session.pattern
<1> USE DEF Settled, IsFlow, FlowFields
<1>same. ASSUME flow' = flow, session' = session PROVE IsFlow(flow') /\ Settled /\ session'.pattern = session.pattern
  BY <1>same
<1>step. ASSUME NEW c, AddEntry(c) \/ ReloadSession(c)
         PROVE  IsFlow(flow') /\ Settled /\ session'.pattern = session.pattern
  BY <1>step DEF AddEntry, ReloadSession
<1>commit. ASSUME NEW c \in Threads, CommitAdvance(c)
           PROVE  IsFlow(flow') /\ Settled /\ session'.pattern = session.pattern
  <2>1. PICK new : new = Advanced(thread[c].loaded, thread[c].agrees, thread[c].entry)  OBVIOUS
  <2>2. IsRow(thread[c].loaded)  BY <1>commit DEF CommitAdvance, IInv, ThreadOK
  <2>3. new.pattern = thread[c].loaded.pattern  BY <2>1, <2>2, OwnColumns
  <2>4. session' = [f \in DOMAIN session |-> IF new[f] = thread[c].loaded[f] THEN session[f] ELSE new[f]]
    BY <1>commit, <2>1 DEF CommitAdvance, Flushed
  <2>5. session'.pattern = session.pattern  BY <2>3, <2>4 DEF IInv, IsRow, Columns
  <2> QED BY <1>commit, <2>5 DEF CommitAdvance
<1>retried. ASSUME NEW why, Retried(why), flow.at # "none", session' = session
            PROVE  IsFlow(flow') /\ Settled /\ session'.pattern = session.pattern
  <2>1. CASE flow.attempt < 3
    <3>1. flow' = [flow EXCEPT !.attempt = flow.attempt + 1, !.why = why]  BY <1>retried, <2>1 DEF Retried
    <3> QED BY <1>retried, <3>1
  <2>2. CASE ~(flow.attempt < 3)
    <3>1. flow' = [flow EXCEPT !.at = "failed", !.why = why]  BY <1>retried, <2>2 DEF Retried
    <3> QED BY <1>retried, <3>1
  <2> QED BY <2>1, <2>2
<1>worker. Worker \in Threads /\ \A c \in Requests : c \in Threads  BY DEF Threads
<1>1. CASE UNCHANGED vars  BY <1>1, <1>same DEF vars
<1>2. CASE WorkflowStep
  <2>1. CASE Prepare
    <3>1. PICK agent, phase : flow' = [flow EXCEPT !.at = "cli", !.attempt = 1, !.agent = agent, !.phase = phase]
      BY <2>1 DEF Prepare, Prepared
    <3> QED BY <2>1, <3>1 DEF Prepare
  <2>2. CASE CliAnswers  BY <2>2 DEF CliAnswers
  <2>3. CASE RecordBegins  BY <2>3, <1>same DEF RecordBegins
  <2>4. CASE RecordRefused
    <3>1. flow.at # "none" /\ session' = session  BY <2>4 DEF RecordRefused
    <3> QED BY <2>4, <3>1, <1>retried DEF RecordRefused
  <2>5. CASE AdvanceStep(Worker)  BY <2>5, <1>worker, <1>step, <1>commit DEF AdvanceStep
  <2>6. CASE RecordPublishes  BY <2>6, <1>same DEF RecordPublishes
  <2>7. CASE RecordReturns
    <3>1. PICK at : at \in {"finalize", "prepare"} /\
                    flow' = [flow EXCEPT !.attempt = 1, !.step = flow.step + 1, !.at = at]
      <4>1. CASE thread[Worker].loaded.status = "completed" \/ flow.step >= session.limit
        BY <2>7, <4>1 DEF RecordReturns, AfterStep
      <4>2. CASE ~(thread[Worker].loaded.status = "completed" \/ flow.step >= session.limit)
        BY <2>7, <4>2 DEF RecordReturns, AfterStep
      <4> QED BY <4>1, <4>2
    <3> QED BY <2>7, <3>1 DEF RecordReturns
  <2>8. CASE Finalize  BY <2>8 DEF Finalize
  <2> QED BY <1>2, <2>1, <2>2, <2>3, <2>4, <2>5, <2>6, <2>7, <2>8 DEF WorkflowStep
<1>3. CASE CliTimesOut  BY <1>3 DEF CliTimesOut
<1>4. CASE WorkerCrash
  <2>1. flow.at # "none" /\ session' = session  BY <1>4 DEF WorkerCrash
  <2> QED BY <1>4, <2>1, <1>retried DEF WorkerCrash
<1>5. ASSUME NEW c \in Requests, Request(c) \/ AdvanceStep(c) \/ RequestCrash(c)
      PROVE  IsFlow(flow') /\ Settled /\ session'.pattern = session.pattern
  BY <1>5, <1>worker, <1>same, <1>step, <1>commit DEF Request, AdvanceStep, RequestCrash
<1>6. ASSUME NEW v \in Panels, CatchUp(v) \/ Subscribe(v)
      PROVE  IsFlow(flow') /\ Settled /\ session'.pattern = session.pattern
  BY <1>6, <1>same DEF CatchUp, Subscribe
<1> QED BY <1>1, <1>2, <1>3, <1>4, <1>5, <1>6 DEF Next

(* Where one contributes at a time the session is as SoloInv says. *)
AloneInv == IsFlow(flow) /\ (OneContributor => SoloInv)

LEMMA OneStays ==
  ASSUME IInv, AloneInv, [Next]_vars
  PROVE  OneContributor' <=> OneContributor
<1>1. Settled /\ session'.pattern = session.pattern  BY FlowStays DEF AloneInv
<1> QED BY <1>1 DEF OneContributor, Settled

LEMMA InitAloneInv == Init => AloneInv
BY InitSoloInv DEF AloneInv, SoloInv

LEMMA NextAloneInv == IInv /\ AloneInv /\ [Next]_vars => AloneInv'
<1> SUFFICES ASSUME IInv, AloneInv, [Next]_vars PROVE AloneInv'  OBVIOUS
<1>1. IsFlow(flow)'  BY FlowStays DEF AloneInv
<1>2. ASSUME OneContributor' PROVE SoloInv'
  <2>1. OneContributor  BY <1>2, OneStays
  <2> QED BY <2>1, NextSoloInv DEF AloneInv
<1> QED BY <1>1, <1>2 DEF AloneInv

(* A contribution at work was let in while the session was active. *)
LEMMA EndStays ==
  ASSUME IInv, SoloInv, [Next]_vars
  PROVE  EndIsFinal
<1> SUFFICES ASSUME session.status = "completed" PROVE UNCHANGED <<session, board>>
  BY DEF EndIsFinal
<1>1. \A c \in Threads : ~Busy(thread[c])  BY DEF SoloInv, AtWork
<1>2. ASSUME NEW c \in Threads, AdvanceStep(c) PROVE FALSE
  BY <1>1, <1>2 DEF AdvanceStep, AddEntry, ReloadSession, CommitAdvance, Busy
<1>3. Worker \in Threads /\ \A c \in Requests : c \in Threads  BY DEF Threads
<1>4. CASE UNCHANGED vars  BY <1>4 DEF vars
<1>5. CASE WorkflowStep
  BY <1>2, <1>3, <1>5 DEF WorkflowStep, Prepare, CliAnswers, RecordBegins, RecordRefused, RecordPublishes,
    RecordReturns, Finalize
<1>6. CASE CliTimesOut \/ WorkerCrash  BY <1>6 DEF CliTimesOut, WorkerCrash
<1>7. ASSUME NEW c \in Requests, Request(c) \/ AdvanceStep(c) \/ RequestCrash(c) PROVE UNCHANGED <<session, board>>
  BY <1>2, <1>3, <1>7 DEF Request, RequestCrash
<1>8. ASSUME NEW v \in Panels, CatchUp(v) \/ Subscribe(v) PROVE UNCHANGED <<session, board>>
  BY <1>8 DEF CatchUp, Subscribe
<1> QED BY <1>4, <1>5, <1>6, <1>7, <1>8 DEF Next

(* Of a session with one contributor at a time, the outcome is a proposal or a
   synthesis and the last on its board, whatever crashed on the way: the
   session has passed a drafting phase before it ends, and the commit that
   ends it finds the board as its own entry left it.  Nothing is contributed
   or changed afterwards: whatever is at work was let in by an active session. *)
THEOREM SpecOutcomeIsAccepted == Spec => OutcomeIsAccepted
<1>1. AloneInv => (OneContributor => DraftIsOutcome)  BY DEF AloneInv, SoloInv
<1>2. IInv /\ AloneInv /\ [Next]_vars => [OneContributor => EndIsFinal]_vars
  BY EndStays DEF AloneInv
<1> QED BY <1>1, <1>2, InitIInv, NextIInv, InitAloneInv, NextAloneInv, PTL DEF Spec, OutcomeIsAccepted

-----------------------------------------------------------------------------
(* The turn the workflow works on is of the session's phase or of the one it
   has just left; what it posts, it posts in the phase it was prepared for. *)
TurnIsTaken ==
  flow.at \in {"cli", "record"} => \E k \in DOMAIN Path :
    /\ flow.phase = Path[k] /\ flow.agent = session.roles[PhaseRoles[Path[k]][1]]
    /\ session.status = "completed" \/ session.index \in {k, k + 1}

InTurn(t) == flow.at = "record" /\ flow.phase = Phase(session) /\ t.agrees = "yes"

TextInv ==
  /\ flow.at # "none" => session.pattern \in Driven
  /\ session.roles \in Casts /\ RolesOf(Path) \subseteq DOMAIN session.roles
  /\ TurnIsTaken
  /\ Busy(thread[Worker]) => InTurn(thread[Worker])
  /\ \A c \in Threads : thread[c].at = "checked" => thread[c].wrote = thread[c].phase
  /\ WrittenForPhase

LEMMA TextStays ==
  ASSUME IInv, TextInv, UNCHANGED <<session, board>>, flow'.at # "none" => flow.at # "none", TurnIsTaken',
         NEW c \in Threads, NEW t, thread' = [thread EXCEPT ![c] = t],
         t.at = "checked" => t.wrote = t.phase, c = Worker \/ flow' = flow,
         c = Worker => (Busy(t) => flow'.at = "record" /\ flow'.phase = Phase(session) /\ t.agrees = "yes")
  PROVE  TextInv'
<1>1. \A d \in Threads : thread'[d] = IF d = c THEN t ELSE thread[d]  BY DEF IInv
<1>2. Worker \in Threads  BY DEF Threads
<1>3. Path' = Path /\ Phase(session)' = Phase(session)  BY DEF Path, Phase
<1>4. (Busy(thread[Worker]) => InTurn(thread[Worker]))'
  <2>1. CASE c = Worker
    <3>1. thread'[Worker] = t  BY <1>1, <1>2, <2>1
    <3> QED BY <1>3, <2>1, <3>1 DEF InTurn, Busy
  <2>2. CASE c # Worker
    <3>1. thread'[Worker] = thread[Worker] /\ flow' = flow  BY <1>1, <1>2, <2>2
    <3> QED BY <1>3, <3>1 DEF TextInv, InTurn, Busy
  <2> QED BY <2>1, <2>2
<1>5. \A d \in Threads : thread'[d].at = "checked" => thread'[d].wrote = thread'[d].phase
  BY <1>1 DEF TextInv
<1>6. WrittenForPhase'  BY DEF TextInv, WrittenForPhase
<1> QED BY <1>3, <1>4, <1>5, <1>6 DEF TextInv

(* What the workflow makes of its own state between two turns. *)
LEMMA TurnStays ==
  ASSUME SoloInv, TextInv, session' = session,
         \/ flow'.at \notin {"cli", "record"}
         \/ flow.at \in {"cli", "record"} /\ flow'.agent = flow.agent /\ flow'.phase = flow.phase
  PROVE  TurnIsTaken'
<1>1. Path' = Path  BY DEF Path
<1> QED BY <1>1 DEF TextInv, TurnIsTaken

(* A commit advances the row it read. *)
LEMMA FreshCommit ==
  ASSUME IInv, SoloInv, NEW c \in Threads, CommitAdvance(c)
  PROVE  LeavesPhase(session, thread[c].agrees, thread[c].entry, session') /\ session'.roles = session.roles
<1>1. thread[c].loaded = session  BY DEF CommitAdvance, SoloInv, AtWork
<1>2. PICK new : new = Advanced(session, thread[c].agrees, thread[c].entry)  OBVIOUS
<1>3. IsRow(session) /\ IsRow(new) /\ new.roles = session.roles  BY <1>2, OwnColumns DEF IInv
<1>4. session' = new  BY <1>1, <1>2, <1>3, FlushedFresh DEF CommitAdvance
<1>5. LeavesPhase(session, thread[c].agrees, thread[c].entry, new)  BY <1>2, <1>3, AdvancedCases
<1> QED BY <1>3, <1>4, <1>5 DEF LeavesPhase

THEOREM InitTextInv == Init => TextInv
<1> SUFFICES ASSUME Init PROVE TextInv  OBVIOUS
<1>1. flow.at = IF session.pattern \in Driven THEN flow.at ELSE "none"  BY DEF Init
<1>2. flow.at \in {"none", "prepare"}  BY DEF Init
<1>3. session.roles \in Casts /\ RolesOf(Path) \subseteq DOMAIN session.roles  BY DEF Init
<1>4. \A c \in Threads : thread[c] = Idle  BY DEF Init
<1>5. Idle.at = "idle" /\ Worker \in Threads  BY DEF Idle, Threads
<1>6. WrittenForPhase
  <2>1. board = <<>>  BY DEF Init
  <2>2. DOMAIN <<>> = {}  OBVIOUS
  <2> QED BY <2>1, <2>2 DEF WrittenForPhase
<1> QED BY <1>1, <1>2, <1>3, <1>4, <1>5, <1>6 DEF TextInv, TurnIsTaken, Busy

(* An attempt to record a step is let through only in the phase its text was
   written for: in the phase after it, its agent has no role. *)
LEMMA AttemptInPhase ==
  ASSUME RetryIsRefused, SoloInv, TextInv, flow.at = "record", MayContribute(session, flow.agent, "yes")
  PROVE  flow.phase = Phase(session)
<1>1. PICK k \in DOMAIN Path : /\ flow.phase = Path[k] /\ flow.agent = session.roles[PhaseRoles[Path[k]][1]]
                               /\ session.status = "completed" \/ session.index \in {k, k + 1}
  BY DEF TextInv, TurnIsTaken
<1>2. session.status = "active" /\ RoleOf(session, flow.agent) \in ToSet(PhaseRoles[Phase(session)])
  BY DEF MayContribute
<1>3. CASE session.index = k  BY <1>1, <1>3 DEF Phase, Path
<1>4. CASE session.index = k + 1
  <2>1. k \in 1..(Len(Path) - 1) /\ Path[k + 1] = Phase(session)
    BY <1>4, PathOfSession DEF Phase, Path
  <2>2. session.pattern \in Driven /\ session.roles \in Casts /\ RolesOf(Path) \subseteq DOMAIN session.roles
    BY DEF TextInv
  <2>3. RoleOf([roles |-> session.roles], flow.agent) \notin ToSet(PhaseRoles[Path[k + 1]])
    <3>1. Path \in {PatternPhases[q] : q \in Driven}  BY <2>2 DEF Path
    <3> QED BY <1>1, <2>1, <2>2, <3>1 DEF RetryIsRefused
  <2>4. RoleOf([roles |-> session.roles], flow.agent) = RoleOf(session, flow.agent)
    BY DEF RoleOf
  <2> QED BY <1>2, <2>1, <2>3, <2>4
<1> QED BY <1>1, <1>2, <1>3, <1>4

THEOREM NextTextInv ==
  ASSUME RetryIsRefused
  PROVE  IInv /\ OneContributor /\ SoloInv /\ TextInv /\ [Next]_vars => TextInv'
<1> SUFFICES ASSUME IInv, OneContributor, SoloInv, TextInv, [Next]_vars PROVE TextInv'  OBVIOUS
<1>worker. Worker \in Threads /\ thread = [c \in Threads |-> thread[c]]  BY DEF Threads, IInv
<1>client. \A c \in Requests : c \in Threads /\ c # Worker  BY CollaborationAssumption DEF Threads
<1>fields. \A c \in Threads : thread[c] = [f \in DOMAIN Idle |-> thread[c][f]]  BY DEF IInv, ThreadOK
<1>turn. ASSUME session' = session, flow' = flow PROVE TurnIsTaken'
  BY <1>turn DEF TextInv, TurnIsTaken, Path
<1>idle. ASSUME NEW c \in Threads, thread' = [thread EXCEPT ![c] = Idle], UNCHANGED <<session, board>>,
                flow'.at # "none" => flow.at # "none", c = Worker \/ flow' = flow, TurnIsTaken'
         PROVE  TextInv'
  <2>1. Idle.at = "idle"  BY DEF Idle
  <2> QED BY <1>idle, <2>1, TextStays DEF Busy
<1>same. ASSUME UNCHANGED <<session, board, thread>>, flow'.at # "none" => flow.at # "none", TurnIsTaken',
                ~Busy(thread[Worker]) \/ flow' = flow
         PROVE  TextInv'
  <2>1. thread' = [thread EXCEPT ![Worker] = thread[Worker]]  BY <1>same, <1>worker
  <2>2. thread[Worker].at = "checked" => thread[Worker].wrote = thread[Worker].phase
    BY <1>worker DEF TextInv
  <2>3. Busy(thread[Worker]) =>
          flow'.at = "record" /\ flow'.phase = Phase(session) /\ thread[Worker].agrees = "yes"
    BY <1>same DEF TextInv, InTurn
  <2> QED BY <1>same, <1>worker, <2>1, <2>2, <2>3, TextStays
<1>begin. ASSUME NEW c \in Threads, NEW agent, NEW agrees, NEW wrote, BeginAdvance(c, agent, agrees, wrote),
                 UNCHANGED <<session, board, flow>>, wrote = Phase(session),
                 c = Worker => flow.at = "record" /\ flow.phase = Phase(session) /\ agrees = "yes"
          PROVE  TextInv'
  <2>1. PICK t : t = [Idle EXCEPT !.at = "checked", !.agent = agent, !.agrees = agrees,
                                  !.phase = Phase(session), !.wrote = wrote]
    OBVIOUS
  <2>2. t.wrote = t.phase /\ t.agrees = agrees  BY <1>begin, <2>1 DEF Idle
  <2>3. thread' = [thread EXCEPT ![c] = t]  BY <1>begin, <2>1 DEF BeginAdvance
  <2> QED BY <1>begin, <2>2, <2>3, <1>turn, TextStays
<1>moves. ASSUME NEW c \in Threads, NEW t, thread' = [thread EXCEPT ![c] = t], UNCHANGED <<session, board, flow>>,
                 t.at # "checked", Busy(t) => (Busy(thread[c]) /\ t.agrees = thread[c].agrees)
          PROVE  TextInv'
  <2>1. c = Worker => (Busy(t) => flow'.at = "record" /\ flow'.phase = Phase(session) /\ t.agrees = "yes")
    BY <1>moves DEF TextInv, InTurn
  <2> QED BY <1>moves, <2>1, <1>turn, TextStays
<1>add. ASSUME NEW c \in Threads, AddEntry(c) PROVE TextInv'
  <2>1. PICK e : e = [phase |-> thread[c].phase, agent |-> thread[c].agent, wrote |-> thread[c].wrote]  OBVIOUS
  <2>2. board' = Append(board, e) /\ UNCHANGED <<session, flow>> /\ thread[c].at = "checked"
    BY <1>add, <2>1 DEF AddEntry
  <2>3. e.wrote = e.phase  BY <2>1, <2>2 DEF TextInv
  <2>4. WrittenForPhase'
    <3>1. \A i \in DOMAIN board : board[i].wrote = board[i].phase  BY DEF TextInv, WrittenForPhase
    <3>2. ASSUME NEW i \in DOMAIN board' PROVE board'[i].wrote = board'[i].phase
      <4>1. CASE i \in DOMAIN board
        <5>1. board'[i] = board[i]  BY <2>2, <4>1, Posting DEF IInv
        <5> QED BY <3>1, <4>1, <5>1
      <4>2. CASE i = Len(board) + 1
        <5>1. board'[i] = e  BY <2>2, <4>2, Posting DEF IInv
        <5> QED BY <2>3, <5>1
      <4>3. DOMAIN board' = DOMAIN board \cup {Len(board) + 1}  BY <2>2, Posting DEF IInv
      <4> QED BY <4>1, <4>2, <4>3
    <3> QED BY <3>2 DEF WrittenForPhase
  <2>5. \A d \in Threads : d # c => thread'[d] = thread[d]  BY <1>add, <1>worker DEF AddEntry
  <2>6. thread'[c].at = "posted" /\ thread'[c].agrees = thread[c].agrees
    BY <1>add, <1>worker, <1>fields DEF AddEntry, Idle
  <2>7. \A d \in Threads : thread'[d].at = "checked" => thread'[d].wrote = thread'[d].phase
    <3>1. \A d \in Threads : d = c => thread'[d].at # "checked"  BY <2>6
    <3> QED BY <2>5, <3>1 DEF TextInv
  <2>8. (Busy(thread[Worker]) => InTurn(thread[Worker]))'
    <3>1. Phase(session)' = Phase(session)  BY <2>2 DEF Phase
    <3>2. CASE c = Worker
      <4>1. InTurn(thread[Worker])  BY <2>2, <3>2 DEF TextInv, Busy
      <4> QED BY <2>2, <2>6, <3>1, <3>2, <4>1 DEF InTurn
    <3>3. CASE c # Worker
      <4>1. thread'[Worker] = thread[Worker]  BY <1>worker, <2>5, <3>3
      <4> QED BY <2>2, <3>1, <4>1 DEF TextInv, InTurn, Busy
    <3> QED BY <3>2, <3>3
  <2>9. TurnIsTaken' /\ Path' = Path  BY <2>2, <1>turn DEF Path
  <2> QED BY <2>2, <2>4, <2>7, <2>8, <2>9 DEF TextInv
<1>reload. ASSUME NEW c \in Threads, ReloadSession(c) PROVE TextInv'
  <2>1. PICK t : t = [thread[c] EXCEPT !.at = "loaded", !.loaded = session]  OBVIOUS
  <2>2. t.at = "loaded" /\ t.agrees = thread[c].agrees  BY <2>1, <1>fields DEF Idle
  <2>3. thread' = [thread EXCEPT ![c] = t] /\ UNCHANGED <<session, board, flow>> /\ thread[c].at = "posted"
    BY <1>reload, <2>1 DEF ReloadSession
  <2> QED BY <2>2, <2>3, <1>moves DEF Busy
<1>commit. ASSUME NEW c \in Threads, CommitAdvance(c) PROVE TextInv'
  <2>1. LeavesPhase(session, thread[c].agrees, thread[c].entry, session') /\ session'.roles = session.roles
    BY <1>commit, FreshCommit
  <2>2. session'.pattern = session.pattern /\ Path' = Path /\ UNCHANGED <<board, flow>>
    BY <1>commit, <2>1 DEF LeavesPhase, Path, CommitAdvance
  <2>3. \A d \in Threads : d # c => thread'[d] = thread[d]  BY <1>commit, <1>worker DEF CommitAdvance
  <2>4. thread'[c].at \notin {"checked", "posted", "loaded"} /\ thread[c].at = "loaded"
    <3>1. Idle.at = "idle"  BY DEF Idle
    <3> QED BY <1>commit, <1>worker, <1>fields, <3>1 DEF CommitAdvance, Idle
  <2>5. \A d \in Threads : thread'[d].at = "checked" => thread'[d].wrote = thread'[d].phase
    <3>1. \A d \in Threads : d = c => thread'[d].at # "checked"  BY <2>4
    <3> QED BY <2>3, <3>1 DEF TextInv
  <2>6. ~Busy(thread'[Worker])
    <3>1. CASE c = Worker  BY <2>4, <3>1 DEF Busy
    <3>2. CASE c # Worker
      <4>1. thread'[Worker] = thread[Worker] /\ thread[Worker].at = "idle"
        BY <1>worker, <2>3, <2>4, <3>2, NobodyElse
      <4> QED BY <4>1 DEF Busy
    <3> QED BY <3>1, <3>2
  <2>7. TurnIsTaken'
    <3>1. CASE c # Worker
      <4>1. flow'.at = "none"  BY <2>2, <2>4, <3>1 DEF SoloInv, Threads
      <4> QED BY <4>1 DEF TurnIsTaken
    <3>2. CASE c = Worker
      <4>1. InTurn(thread[Worker])  BY <2>4, <3>2 DEF TextInv, Busy
      <4>2. PICK k \in DOMAIN Path : flow.phase = Path[k] /\ flow.agent = session.roles[PhaseRoles[Path[k]][1]]
        BY <4>1 DEF TextInv, TurnIsTaken, InTurn
      <4>3. session.index = k  BY <4>1, <4>2, PathOfSession DEF InTurn, Phase, Path
      <4>4. session'.status = "completed" \/ session'.index = k + 1
        BY <2>1, <3>2, <4>1, <4>3 DEF LeavesPhase, InTurn
      <4> QED BY <2>1, <2>2, <4>2, <4>4 DEF TurnIsTaken
    <3> QED BY <3>1, <3>2
  <2>8. WrittenForPhase'  BY <2>2 DEF TextInv, WrittenForPhase
  <2> QED BY <2>1, <2>2, <2>5, <2>6, <2>7, <2>8 DEF TextInv, Busy
<1>publish. ASSUME RecordPublishes PROVE TextInv'
  <2>1. PICK t : t = [thread[Worker] EXCEPT !.at = "published"]  OBVIOUS
  <2>2. t.at = "published"  BY <2>1, <1>worker, <1>fields DEF Idle
  <2>3. thread' = [thread EXCEPT ![Worker] = t] /\ UNCHANGED <<session, board, flow>>
    BY <1>publish, <2>1 DEF RecordPublishes
  <2> QED BY <2>2, <2>3, <1>worker, <1>moves DEF Busy
<1>retried. ASSUME NEW why, Retried(why)
            PROVE  /\ flow'.at \in {flow.at, "failed"} /\ flow'.agent = flow.agent /\ flow'.phase = flow.phase
  <2>1. CASE flow.attempt < 3
    <3>1. flow' = [flow EXCEPT !.attempt = flow.attempt + 1, !.why = why]  BY <1>retried, <2>1 DEF Retried
    <3> QED BY <3>1 DEF SoloInv, IsFlow, FlowFields
  <2>2. CASE ~(flow.attempt < 3)
    <3>1. flow' = [flow EXCEPT !.at = "failed", !.why = why]  BY <1>retried, <2>2 DEF Retried
    <3> QED BY <3>1 DEF SoloInv, IsFlow, FlowFields
  <2> QED BY <2>1, <2>2
<1>1. CASE UNCHANGED vars  BY <1>1, <1>same, <1>turn DEF vars
<1>2. CASE WorkflowStep
  <2>1. CASE Prepare
    <3>1. /\ flow' = [flow EXCEPT !.at = "cli", !.attempt = 1, !.phase = Phase(session),
                                  !.agent = session.roles[PhaseRoles[Phase(session)][1]]]
          /\ flow.at = "prepare" /\ UNCHANGED <<session, board, thread>>
      BY <2>1 DEF Prepare, Prepared
    <3>2. flow'.at = "cli" /\ flow'.phase = Phase(session) /\ flow'.agent = session.roles[PhaseRoles[Phase(session)][1]]
      BY <3>1 DEF SoloInv, IsFlow, FlowFields
    <3>3. Path' = Path /\ session.index \in DOMAIN Path /\ Phase(session) = Path[session.index]
      BY <3>1 DEF Path, Phase, SoloInv
    <3>4. TurnIsTaken'  BY <3>1, <3>2, <3>3 DEF TurnIsTaken
    <3>5. ~Busy(thread[Worker])  BY <3>1 DEF TextInv, InTurn
    <3> QED BY <3>1, <3>4, <3>5, <1>same
  <2>2. CASE CliAnswers
    <3>1. /\ flow.at = "cli" /\ flow'.at = "record" /\ flow'.agent = flow.agent /\ flow'.phase = flow.phase
          /\ UNCHANGED <<session, board, thread>>
      BY <2>2 DEF CliAnswers, SoloInv, IsFlow, FlowFields
    <3>2. ~Busy(thread[Worker])  BY <3>1 DEF TextInv, InTurn
    <3> QED BY <3>1, <3>2, TurnStays, <1>same
  <2>3. CASE RecordBegins
    <3>1. /\ flow.at = "record" /\ BeginAdvance(Worker, flow.agent, "yes", flow.phase)
          /\ UNCHANGED <<session, board, flow>>
      BY <2>3 DEF RecordBegins
    <3>2. flow.phase = Phase(session)  BY <3>1, AttemptInPhase DEF BeginAdvance
    <3> QED BY <3>1, <3>2, <1>worker, <1>begin
  <2>4. CASE RecordRefused
    <3>1. /\ flow.at = "record" /\ thread[Worker].at = "idle" /\ UNCHANGED <<session, board, thread>>
          /\ flow'.at \in {flow.at, "failed"} /\ flow'.agent = flow.agent /\ flow'.phase = flow.phase
      BY <2>4, <1>retried DEF RecordRefused
    <3> QED BY <3>1, TurnStays, <1>same DEF Busy
  <2>5. CASE AdvanceStep(Worker)  BY <2>5, <1>worker, <1>add, <1>reload, <1>commit DEF AdvanceStep
  <2>6. CASE RecordPublishes  BY <2>6, <1>publish
  <2>7. CASE RecordReturns
    <3>1. flow.at # "none" /\ thread' = [thread EXCEPT ![Worker] = Idle] /\ UNCHANGED <<session, board>>
      BY <2>7 DEF RecordReturns, SoloInv
    <3>2. PICK at : at \in {"finalize", "prepare"} /\
                    flow' = [flow EXCEPT !.attempt = 1, !.step = flow.step + 1, !.at = at]
      <4>1. CASE thread[Worker].loaded.status = "completed" \/ flow.step >= session.limit
        BY <2>7, <4>1 DEF RecordReturns, AfterStep
      <4>2. CASE ~(thread[Worker].loaded.status = "completed" \/ flow.step >= session.limit)
        BY <2>7, <4>2 DEF RecordReturns, AfterStep
      <4> QED BY <4>1, <4>2
    <3>3. flow'.at \notin {"cli", "record"}  BY <3>2 DEF SoloInv, IsFlow, FlowFields
    <3>4. TurnIsTaken'  BY <3>3 DEF TurnIsTaken
    <3> QED BY <3>1, <3>4, <1>worker, <1>idle
  <2>8. CASE Finalize
    <3>1. flow.at = "finalize" /\ flow'.at = "completed" /\ UNCHANGED <<session, board, thread>>
      BY <2>8 DEF Finalize, SoloInv, IsFlow, FlowFields
    <3>2. ~Busy(thread[Worker]) /\ TurnIsTaken'  BY <3>1 DEF TextInv, InTurn, TurnIsTaken
    <3> QED BY <3>1, <3>2, <1>same
  <2> QED BY <1>2, <2>1, <2>2, <2>3, <2>4, <2>5, <2>6, <2>7, <2>8 DEF WorkflowStep
<1>3. CASE CliTimesOut
  <2>1. flow.at = "cli" /\ flow'.at = "failed" /\ UNCHANGED <<session, board, thread>>
    BY <1>3 DEF CliTimesOut, SoloInv, IsFlow, FlowFields
  <2>2. ~Busy(thread[Worker]) /\ TurnIsTaken'  BY <2>1 DEF TextInv, InTurn, TurnIsTaken
  <2> QED BY <2>1, <2>2, <1>same
<1>4. CASE WorkerCrash
  <2>1. /\ flow.at \in {"prepare", "record", "finalize"}
        /\ thread' = [thread EXCEPT ![Worker] = Idle] /\ UNCHANGED <<session, board>>
        /\ flow'.at \in {flow.at, "failed"} /\ flow'.agent = flow.agent /\ flow'.phase = flow.phase
    BY <1>4, <1>retried DEF WorkerCrash
  <2>2. TurnIsTaken'  BY <2>1, TurnStays
  <2> QED BY <2>1, <2>2, <1>worker, <1>idle
<1>5. ASSUME NEW c \in Requests, Request(c) \/ AdvanceStep(c) \/ RequestCrash(c) PROVE TextInv'
  <2>1. CASE Request(c)
    <3>1. PICK agent, agrees : BeginAdvance(c, agent, agrees, Phase(session)) /\ UNCHANGED <<session, board, flow>>
      BY <2>1 DEF Request
    <3> QED BY <3>1, <1>client, <1>begin
  <2>2. CASE AdvanceStep(c)  BY <2>2, <1>client, <1>add, <1>reload, <1>commit DEF AdvanceStep
  <2>3. CASE RequestCrash(c)
    <3>1. UNCHANGED <<session, board, flow>> /\ thread' = [thread EXCEPT ![c] = Idle]  BY <2>3 DEF RequestCrash
    <3> QED BY <3>1, <1>client, <1>idle, <1>turn
  <2> QED BY <1>5, <2>1, <2>2, <2>3
<1>6. ASSUME NEW v \in Panels, CatchUp(v) \/ Subscribe(v) PROVE TextInv'
  BY <1>6, <1>same, <1>turn DEF CatchUp, Subscribe
<1> QED BY <1>1, <1>2, <1>3, <1>4, <1>5, <1>6 DEF Next

LEMMA PositionIs ==
  ASSUME SoloInv, NEW i, NEW k \in DOMAIN Path, OfPhase(i, k)
  PROVE  Position(i) = k
<1>1. \A j \in DOMAIN Path : (Path[j] = board[i].phase) <=> j = k  BY PathOfSession DEF OfPhase
<1> QED BY <1>1 DEF Position

(* The board of a session with one contributor at a time replays its pattern,
   through rounds, crashes and retries, each text in the phase it was written
   for: provided that whoever is prepared for a phase of a driven pattern has
   no role in the next one.  Where one has, as in debate_resolve, a retried
   step is recorded in the wrong phase. *)
THEOREM SpecBoardFollowsPattern ==
  ASSUME RetryIsRefused
  PROVE  Spec => []BoardFollowsPattern
<1>1. ASSUME IInv, SoloInv, TextInv PROVE PatternReplayed
  <2>1. PICK n : n = Len(board)  OBVIOUS
  <2>2. n \in Nat /\ (n = 0 <=> board = <<>>)
    <3>1. PICK S : board \in Seq(S)  BY <1>1 DEF IInv, IsSeq
    <3> QED BY <2>1, <3>1
  <2>3. n > 0 => Position(1) = 1
    <3>1. 1 \in DOMAIN Path  BY <1>1, PathOfSession
    <3> QED BY <1>1, <2>1, <3>1, PositionIs DEF SoloInv, Replay
  <2>4. ASSUME NEW i \in 2..n PROVE Position(i) \in {Position(i - 1), Successor(Position(i - 1))}
    <3>1. i \in 1..n /\ i - 1 \in 1..n /\ i - 1 \in 1..(n - 1) /\ (i - 1) + 1 = i  BY <2>2
    <3>2. PICK j \in DOMAIN Path : OfPhase(i - 1, j)  BY <1>1, <2>1, <3>1 DEF SoloInv, Replay
    <3>3. PICK k \in DOMAIN Path : OfPhase(i, k)  BY <1>1, <2>1, <3>1 DEF SoloInv, Replay
    <3>4. OfPhase((i - 1) + 1, k)  BY <3>1, <3>3
    <3>5. k \in {j, Successor(j)}  BY <1>1, <2>1, <3>1, <3>2, <3>4 DEF SoloInv, Replay
    <3>6. Position(i - 1) = j /\ Position(i) = k  BY <1>1, <3>2, <3>3, PositionIs
    <3> QED BY <3>5, <3>6
  <2>5. ASSUME n > 0
        PROVE  /\ session.index \in {Position(n), Successor(Position(n))}
               /\ session.status = "completed" => Position(n) = Len(Path)
    <3>1. n \in 1..n  BY <2>2, <2>5
    <3>2. PICK k \in DOMAIN Path : OfPhase(n, k)  BY <1>1, <2>1, <3>1 DEF SoloInv, Replay
    <3>3. Position(n) = k  BY <1>1, <3>2, PositionIs
    <3> QED BY <1>1, <2>1, <2>5, <3>2, <3>3 DEF SoloInv, Replay
  <2>6. n = 0 => session.index = 1  BY <1>1, <2>1 DEF SoloInv, Replay
  <2>7. WrittenForPhase  BY <1>1 DEF TextInv
  <2>8. CASE board = <<>>  BY <2>1, <2>2, <2>4, <2>6, <2>7, <2>8 DEF PatternReplayed
  <2>9. CASE board # <<>>
    <3>1. n > 0  BY <2>2, <2>9
    <3> QED BY <2>1, <2>3, <2>4, <2>5, <2>7, <2>9, <3>1 DEF PatternReplayed
  <2> QED BY <2>8, <2>9
<1> DEFINE J == OneContributor => TextInv
<1>2. Init => J  BY InitTextInv
<1>3. IInv /\ AloneInv /\ J /\ [Next]_vars => J'
  <2> SUFFICES ASSUME IInv, AloneInv, J, [Next]_vars, OneContributor' PROVE TextInv'  OBVIOUS
  <2>1. OneContributor  BY OneStays
  <2> QED BY <2>1, NextTextInv DEF AloneInv
<1>4. IInv /\ AloneInv /\ J => BoardFollowsPattern  BY <1>1 DEF AloneInv, BoardFollowsPattern
<1> HIDE DEF J
<1> QED BY <1>2, <1>3, <1>4, InitIInv, NextIInv, InitAloneInv, NextAloneInv, PTL DEF Spec

=============================================================================
