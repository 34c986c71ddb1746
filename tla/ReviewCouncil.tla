---------------------------- MODULE ReviewCouncil ----------------------------
(***************************************************************************)
(* The consensus code review of several CLIs (services/review_service.py,  *)
(* api/v1/reviews.py): the review's row, its blackboard, ReviewWorkflow    *)
(* with one child per CLI and the activity that records what a child       *)
(* found, the operator who replies to a round or records by hand.          *)
(*                                                                         *)
(* Nobody locks the row.  A session reads it, computes, and its flush      *)
(* writes the columns that differ from what it read; a commit in between,  *)
(* that of the blackboard entry, has the row read again.                   *)
(***************************************************************************)
EXTENDS Integers, FiniteSets, Functions

CONSTANTS Roster,        \* review.clis: the CLIs a round waits for
          ByHand,        \* the CLIs whose output POST /record may bring in
          Operators,     \* concurrent requests to start or to reply
          Issues,        \* findings that cluster as the same
          MaxRounds,     \* review.max_rounds
          MaxFlows,      \* bound on the workflows dispatched
          MaxOdd         \* bound on what is out of the ordinary: see Odd

Flows == 1..MaxFlows
Hand == 0                \* in place of a workflow: the output came by POST /record
Sources == (Flows \X Roster) \cup ({Hand} \X ByHand)
Clis == Roster \cup ByHand

ASSUME ReviewAssumption ==
  /\ Roster # {} /\ MaxRounds \in Nat \ {0}
  /\ MaxFlows \in Nat /\ MaxOdd \in Nat

VARIABLES
  row,       \* the review's row
  board,     \* the CRITIQUE entries of its blackboard
  task,      \* per source: the child, and the activity or the request that records
  flow,      \* per workflow: dispatched, fanned out
  operator,  \* per request to start or to reply: where it is
  faults,    \* dead attempts and failed dispatches so far
  skips      \* failed writes to the blackboard so far

vars == <<row, board, task, flow, operator, faults, skips>>

(* slots and last are the two keys of the `findings` column that matter.
   marks is no column but a history: the round a slot's recorder was in. *)
NewRow == [status |-> "running", rounds |-> 0, findings |-> [slots |-> <<>>, last |-> 0], agreed |-> {},
           marks |-> <<>>]

(* What a session writes: the columns that differ from those it read. *)
ColumnOf(f) == IF f = "marks" THEN "findings" ELSE f
Flush(read, written) ==
  [f \in DOMAIN row |-> IF written[ColumnOf(f)] # read[ColumnOf(f)] THEN written[f] ELSE row[f]]

(* A source brings its output, or records it; round is the one it read first. *)
Brings(s, found) == [task EXCEPT ![s].at = "due", ![s].found = found]
Goes(s, at, read, round) ==
  [task EXCEPT ![s] = [at |-> at, found |-> task[s].found, read |-> read, round |-> round]]

(* Attempts that died, calls of Temporal and writes to the blackboard that
   failed, outputs recorded by hand. *)
Odd == faults + skips + Cardinality({c \in ByHand : task[<<Hand, c>>].at # "none"})

Init ==
  /\ row = NewRow
  /\ board = {}
  /\ task = [s \in Sources |-> [at |-> "none", found |-> {}, read |-> NewRow, round |-> 0]]
  /\ flow = [f \in Flows |-> "none"]
  /\ \E first \in Operators :
       operator = [o \in Operators |-> [at |-> IF o = first THEN "dispatching" ELSE "idle", read |-> NewRow]]
  /\ faults = 0 /\ skips = 0

-----------------------------------------------------------------------------
(* ReviewWorkflow. *)

NextFlow == {f \in Flows : flow[f] = "none" /\ \A g \in 1..(f - 1) : flow[g] # "none"}

Dispatch(o) ==
  /\ operator[o].at = "dispatching"
  /\ \E f \in NextFlow : flow' = [flow EXCEPT ![f] = "queued"]
  /\ operator' = [operator EXCEPT ![o].at = "idle"]
  /\ UNCHANGED <<row, board, task, faults, skips>>

(* Temporal is out, which is logged; or the workflow cannot load the row. *)
DispatchFails(o) ==
  /\ operator[o].at = "dispatching" /\ Odd < MaxOdd
  /\ operator' = [operator EXCEPT ![o].at = "idle"]
  /\ faults' = faults + 1
  /\ UNCHANGED <<row, board, task, flow, skips>>

(* A child's id names the review and the CLI: the second child of a CLI is
   refused while the first runs, and the refusal is recorded as its output. *)
Running(c) == \E f \in Flows : task[<<f, c>>].at = "child"
FanOut(f) ==
  /\ flow[f] = "queued"
  /\ flow' = [flow EXCEPT ![f] = "fanned"]
  /\ task' = [s \in Sources |->
                IF s[1] # f THEN task[s]
                ELSE [task[s] EXCEPT !.at = IF Running(s[2]) THEN "due" ELSE "child"]]
  /\ UNCHANGED <<row, board, operator, faults, skips>>

(* A child that fails or times out has found nothing. *)
ChildEnds(f, c) ==
  /\ task[<<f, c>>].at = "child"
  /\ \E found \in SUBSET Issues : task' = Brings(<<f, c>>, found)
  /\ UNCHANGED <<row, board, flow, operator, faults, skips>>

-----------------------------------------------------------------------------
(* record_cli_findings, of the activity record_review_finding and of
   POST /record. *)

Submit(c) ==
  /\ task[<<Hand, c>>].at = "none" /\ Odd < MaxOdd
  /\ \E found \in SUBSET Issues : task' = Brings(<<Hand, c>>, found)
  /\ UNCHANGED <<row, board, flow, operator, faults, skips>>

(* The row is read; a review that is done records nothing.  A CLI that has an
   entry for this round gets no second one. *)
DuplicateEver(c) == \E e \in board : e.source[2] = c              \* mutant of Duplicate
Duplicate(c) == \E e \in board : e.source[2] = c /\ e.round = row.rounds
Load(s) ==
  /\ task[s].at = "due"
  /\ task' = IF row.status = "done" THEN Goes(s, "ended", NewRow, 0)
             ELSE Goes(s, IF Duplicate(s[2]) THEN "read" ELSE "loaded", row, row.rounds)
  /\ UNCHANGED <<row, board, flow, operator, faults, skips>>

(* The entry has the round that was read first; its commit, or the rollback
   when it fails, has the row read again. *)
Append(s) ==
  /\ task[s].at = "loaded"
  /\ board' = board \cup {[source |-> s, round |-> task[s].round]}
  /\ task' = Goes(s, "read", row, task[s].round)
  /\ UNCHANGED <<row, flow, operator, faults, skips>>
AppendFails(s) ==
  /\ task[s].at = "loaded" /\ Odd < MaxOdd
  /\ skips' = skips + 1
  /\ task' = Goes(s, "read", row, task[s].round)
  /\ UNCHANGED <<row, board, flow, operator, faults>>

(* aggregate_findings: an issue is agreed when two CLIs have it. *)
AgreedOnce(slots) == UNION {slots[c] : c \in DOMAIN slots}         \* mutant of Agreed
Agreed(slots) ==
  {i \in UNION {slots[c] : c \in DOMAIN slots} : \E c, d \in DOMAIN slots : c # d /\ i \in slots[c] \cap slots[d]}

(* _close_round, on a running review with every CLI of the roster in its slots. *)
CloseRound(r) ==
  IF r.status # "running" \/ ~(Roster \subseteq DOMAIN r.findings.slots) THEN r
  ELSE LET agreed == Agreed(r.findings.slots)
           rounds == r.rounds + 1
       IN  [r EXCEPT !.agreed = agreed, !.rounds = rounds,
                     !.status = IF agreed = {} \/ rounds >= MaxRounds THEN "done" ELSE "awaiting_response"]

(* The CLI's slot replaces the one it had. *)
Filled(r, c, found, round) ==
  LET slots == r.findings.slots
      held  == DOMAIN slots \cup {c}
  IN  [r EXCEPT !.findings = [slots |-> [d \in held |-> IF d = c THEN found ELSE slots[d]], last |-> r.rounds],
                !.marks = [d \in held |-> IF d = c THEN round ELSE r.marks[d]]]
Write(s) ==
  /\ task[s].at = "read"
  /\ LET t == task[s] IN row' = Flush(t.read, CloseRound(Filled(t.read, s[2], t.found, t.round)))
  /\ task' = Goes(s, "ended", NewRow, 0)
  /\ UNCHANGED <<board, flow, operator, faults, skips>>

(* An attempt of the activity dies, or its answer is lost, which is noticed
   when it times out: it is tried again. *)
Retry(s) ==
  /\ s[1] # Hand /\ task[s].at \in {"loaded", "read", "ended"} /\ Odd < MaxOdd
  /\ task' = Goes(s, "due", NewRow, 0)
  /\ faults' = faults + 1
  /\ UNCHANGED <<row, board, flow, operator, skips>>

-----------------------------------------------------------------------------
(* POST /{review_id}/reply. *)

LoadReply(o) ==
  /\ operator[o].at = "idle" /\ NextFlow # {}
  /\ operator' = [operator EXCEPT ![o] = [at |-> "loaded", read |-> row]]
  /\ UNCHANGED <<row, board, task, flow, faults, skips>>

(* apply_reply.  Nothing is left of a round but its entries. *)
AppliedKeeping(r) ==                                               \* mutant of Applied
  IF r.status = "done" THEN r
  ELSE IF r.rounds >= MaxRounds THEN [r EXCEPT !.status = "done"]
  ELSE [r EXCEPT !.findings = [slots |-> <<>>, last |-> r.rounds], !.marks = <<>>, !.status = "running"]
Applied(r) ==
  IF r.status = "done" THEN r
  ELSE IF r.rounds >= MaxRounds THEN [r EXCEPT !.status = "done"]
  ELSE [r EXCEPT !.findings = [slots |-> <<>>, last |-> r.rounds], !.marks = <<>>, !.agreed = {}, !.status = "running"]

(* The row is read again after the commit, and its status decides whether a
   workflow is dispatched. *)
WriteReply(o) ==
  /\ operator[o].at = "loaded"
  /\ row' = Flush(operator[o].read, Applied(operator[o].read))
  /\ LET read == IF operator[o].read.status = "done" THEN operator[o].read ELSE row' IN
       operator' = [operator EXCEPT ![o] = [at |-> IF read.status = "running" THEN "dispatching" ELSE "idle",
                                            read |-> NewRow]]
  /\ UNCHANGED <<board, task, flow, faults, skips>>

-----------------------------------------------------------------------------
Records(s) == Load(s) \/ Append(s) \/ AppendFails(s) \/ Write(s) \/ Retry(s)
Request(o) == Dispatch(o) \/ DispatchFails(o) \/ LoadReply(o) \/ WriteReply(o)

Next ==
  \/ \E o \in Operators : Request(o)
  \/ \E f \in Flows : FanOut(f) \/ \E c \in Roster : ChildEnds(f, c)
  \/ \E c \in ByHand : Submit(c)
  \/ \E s \in Sources : Records(s)

Spec == Init /\ [][Next]_vars

-----------------------------------------------------------------------------
(* Properties. *)

RowOK(r) ==
  /\ r.status \in {"running", "awaiting_response", "done"}
  /\ r.rounds \in Nat /\ r.findings.last \in Nat
  /\ DOMAIN r.findings.slots \subseteq Clis
  /\ \A c \in DOMAIN r.findings.slots : r.findings.slots[c] \subseteq Issues
  /\ r.agreed \subseteq Issues /\ DOMAIN r.marks = DOMAIN r.findings.slots

TypeOK ==
  /\ RowOK(row) /\ board \subseteq [source : Sources, round : Nat]
  /\ \A s \in Sources : task[s].at \in {"none", "child", "due", "loaded", "read", "ended"}
  /\ flow \in [Flows -> {"none", "queued", "fanned"}]
  /\ \A o \in Operators : operator[o].at \in {"idle", "loaded", "dispatching"}

(* An operator who is asked to respond has agreed findings to respond to, and
   a review that runs shows none of an earlier round, whatever recorders and
   replies read before they write. *)
Coherent(r) ==
  /\ r.status = "running" => r.agreed = {}
  /\ r.status = "awaiting_response" => r.agreed # {}
AskedForSomething == Coherent(row)

(* A CLI with a slot in the cache has an entry on the blackboard for the round
   in which the slot was recorded, unless a write to the blackboard failed,
   whoever wrote between its check and its flush: an entry of another round,
   or another CLI's, does not stand for it.  A second output of the CLI in the
   same round replaces the slot alone: see OutputIsAudited. *)
SlotsAreAudited ==
  skips = 0 => \A c \in DOMAIN row.findings.slots : \E e \in board : e.source[2] = c /\ e.round = row.marks[c]

(* "A finding is **agreed** only when >= 2 CLIs flag it". *)
AgreedByTwo ==
  \A i \in row.agreed : \E s, t \in Sources : s[2] # t[2] /\ i \in task[s].found \cap task[t].found

(* "all CLIs returned" ends "running": "the consensus aggregator runs
   synchronously inside `record_cli_findings` when the last CLI reports". *)
Quiet == /\ \A s \in Sources : task[s].at \in {"none", "ended"}
         /\ \A o \in Operators : operator[o].at = "idle"
         /\ \A f \in Flows : flow[f] # "queued"
LastReportCloses == Quiet /\ flow[1] = "fanned" /\ faults = 0 => row.status # "running"

(* "Check for an existing entry first and skip the append": a retried report
   has one entry. *)
RetryAppendsOnce == \A e, d \in board : e.source = d.source => e = d

(* A reply resets the cache: "preserve history in blackboard entries".  What is
   in a slot is on the blackboard. *)
OutputIsAudited ==
  skips = 0 => \A c \in DOMAIN row.findings.slots :
    \E e \in board : e.source[2] = c /\ row.findings.slots[c] = task[e.source].found

(* "Already terminal"; "replying to a done review is a no-op". *)
DoneIsFinal == [][row.status = "done" => row'.status = "done"]_vars
=============================================================================
