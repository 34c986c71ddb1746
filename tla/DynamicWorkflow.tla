--------------------------- MODULE DynamicWorkflow ---------------------------
(***************************************************************************)
(* A run of a dynamic workflow: the API that creates its row and starts it *)
(* (api/v1/dynamic_workflows.py), DynamicWorkflowExecutor interpreting the *)
(* definition, and the activities that execute steps, keep their log and   *)
(* finalize the row.  An iteration of for_each is a child executor with    *)
(* the run's own id, so `stack` holds the executors that wait on each      *)
(* other, the run's own first.                                             *)
(*                                                                         *)
(* What steps compute is left out: the executor looks at none of it.       *)
(***************************************************************************)
EXTENDS Integers, Sequences, FiniteSets

CONSTANTS Definition,    \* the steps: [id, type, tries, steps]
          MaxItems,      \* bound on the collection of a for_each
          MaxLate,       \* bound on the attempts of a step that outlive their timeout
          MaxFaults      \* bound on the faults of a behaviour, one of a kind

Steps == LET Below[n \in 0..3] ==          \* to the depth of a loop in a loop
               IF n = 0 THEN {Definition[i] : i \in DOMAIN Definition}
               ELSE Below[n - 1] \cup UNION {{s.steps[i] : i \in DOMAIN s.steps} : s \in Below[n - 1]}
         IN  Below[3]
Calls == {s.id : s \in {t \in Steps : t.type = "activity"}}
Approvals == {s.id : s \in {t \in Steps : t.type = "human_approval"}}
Faults == {"start", "late", "dead", "finalize"}

(* No definition nests deeper than Steps looks. *)
ASSUME WorkflowAssumption ==
  /\ MaxItems \in Nat /\ MaxLate \in Nat \ {0} /\ MaxFaults \in Nat
  /\ Definition \in Seq(Steps) /\ \A s \in Steps : s.steps \in Seq(Steps) /\ s.tries \in Nat

VARIABLES
  api,       \* the request that starts the run
  row,       \* its workflow_runs row
  stack,     \* the executors
  outcome,   \* what the run's own executor returned
  calls,     \* the activities the top executor waits for
  late,      \* attempts that go on after their timeout, of a step or of finalize_workflow_run
  open,      \* step ids with a log row that says "running"
  disabled,  \* DISABLE_MONITOR_CONTINUE_AS_NEW
  faults     \* what has gone wrong so far

vars == <<api, row, stack, outcome, calls, late, open, disabled, faults>>
logVars == <<late, open>>

Executor(steps) ==
  [steps |-> steps, at |-> 1, item |-> 0, mode |-> "step", status |-> "running",
   decided |-> [a \in Approvals |-> "none"], refused |-> {}]

Init ==
  /\ api = "starting" /\ row = [status |-> "running", linked |-> FALSE]
  /\ stack = <<>> /\ outcome = "none" /\ calls = <<>>
  /\ late = [calls |-> [c \in Calls |-> 0], finalize |-> {}] /\ open = {}
  /\ disabled \in BOOLEAN /\ faults = {}

Fault(kind) ==
  /\ kind \notin faults /\ Cardinality(faults) < MaxFaults
  /\ faults' = faults \cup {kind}

-----------------------------------------------------------------------------
(* run_workflow: the row is committed, the executor started, the row linked
   to it.  A start that fails, or whose answer is lost, fails the row. *)

Start ==
  /\ api = "starting"
  /\ \/ api' = "linking" /\ stack' = <<Executor(Definition)>> /\ UNCHANGED faults
     \/ api' = "refused" /\ UNCHANGED <<stack, faults>>
     \/ api' = "refused" /\ stack' = <<Executor(Definition)>> /\ Fault("start")
  /\ UNCHANGED <<row, outcome, calls, logVars, disabled>>

Answer ==
  /\ \/ api = "linking" /\ row' = [row EXCEPT !.linked = TRUE]
     \/ api = "refused" /\ row' = [row EXCEPT !.status = "failed"]
  /\ api' = "over"
  /\ UNCHANGED <<stack, outcome, calls, logVars, disabled, faults>>

(* approve_step, by an operator who may change their mind: the signal goes to
   the executor the row is linked to. *)
Approve(a, decision) ==
  /\ row.linked /\ stack # <<>>
  /\ stack' = [stack EXCEPT ![1].decided[a] = decision]
  /\ UNCHANGED <<api, row, outcome, calls, logVars, disabled, faults>>

-----------------------------------------------------------------------------
(* DynamicWorkflowExecutor.run, of the executor on top. *)

Top == stack[Len(stack)]
Becomes(executor) == stack' = [stack EXCEPT ![Len(stack)] = executor]
In(mode) == stack # <<>> /\ Top.mode = mode
Step == Top.steps[Top.at]
Passed(executor) == [executor EXCEPT !.at = @ + 1, !.mode = "step"]
Closing(status) == [Top EXCEPT !.mode = "closing", !.status = status]

Begin ==
  /\ In("step") /\ Top.at <= Len(Top.steps)
  /\ \/ /\ Step.type \in {"activity", "parallel"}
        /\ LET called == IF Step.type = "activity" THEN {Step} ELSE {Step.steps[i] : i \in DOMAIN Step.steps} IN
             calls' = [c \in {s.id : s \in called} |->
                         [at |-> "due", left |-> (CHOOSE s \in called : s.id = c).tries]]
        /\ Becomes([Top EXCEPT !.mode = "calls"])
     \/ Step.type = "for_each" /\ Becomes([Top EXCEPT !.mode = "each", !.item = 0]) /\ UNCHANGED calls
     \/ Step.type = "human_approval" /\ Becomes([Top EXCEPT !.mode = "wait"]) /\ UNCHANGED calls
     \/ Step.type \in {"wait", "cli_execute", "continue_as_new"} /\ Becomes(Passed(Top)) /\ UNCHANGED calls
     \/ Step.type = "cli_execute" /\ Becomes(Closing("failed")) /\ UNCHANGED calls
  /\ UNCHANGED <<api, row, outcome, logVars, disabled, faults>>

(* One call, or the gather of a parallel step, which raises with the first
   that has failed for good. *)
Join ==
  /\ In("calls")
  /\ \/ (\A c \in DOMAIN calls : calls[c].at = "ok") /\ Becomes(Passed(Top)) /\ calls' = <<>>
     \/ (\E c \in DOMAIN calls : calls[c].at = "failed") /\ Becomes(Closing("failed")) /\ UNCHANGED calls
  /\ UNCHANGED <<api, row, outcome, logVars, disabled, faults>>

Iterate ==
  /\ In("each")
  /\ \/ /\ Top.item < MaxItems
        /\ stack' = Append([stack EXCEPT ![Len(stack)].item = @ + 1], Executor(Step.steps))
     \/ Becomes(Passed(Top))
  /\ UNCHANGED <<api, row, outcome, calls, logVars, disabled, faults>>

(* A decision made before the wait counts; with none by the deadline it is
   on_timeout's, "reject". *)
Decide ==
  /\ In("wait")
  /\ LET refuses == Top.decided[Step.id] # "approved" IN
       Becomes([Passed(Top) EXCEPT !.refused = IF refuses THEN @ \cup {Step.id} ELSE @])
  /\ UNCHANGED <<api, row, outcome, calls, logVars, disabled, faults>>

Finish ==
  /\ In("step") /\ Top.at > Len(Top.steps)
  /\ Becomes(Closing("completed"))
  /\ UNCHANGED <<api, row, outcome, calls, logVars, disabled, faults>>

(* The executor returns with a status.  What it did not wait for goes on by
   itself; the one that waits for it goes on whatever its status. *)
Running(c) == c \in DOMAIN calls /\ calls[c].at = "running"
Lingers(c) == IF late.calls[c] < MaxLate THEN late.calls[c] + 1 ELSE MaxLate
Return(status) ==
  /\ stack' = SubSeq(stack, 1, Len(stack) - 1)
  /\ outcome' = IF Len(stack) = 1 THEN status ELSE outcome
  /\ calls' = <<>>
  /\ late' = [late EXCEPT !.calls = [c \in Calls |-> IF Running(c) THEN Lingers(c) ELSE @[c]]]

(* After finalize_workflow_run: a definition that ends in continue_as_new goes
   on when it has completed. *)
Loops == Top.status = "completed" /\ Top.steps # <<>> /\ Top.steps[Len(Top.steps)].type = "continue_as_new"
Proceed ==
  IF Loops THEN Becomes([Top EXCEPT !.mode = "check"]) /\ UNCHANGED <<outcome, calls, late>>
  ELSE Return(Top.status)

FinalizeOnSuccess ==                                               \* mutant of Finalize
  /\ In("closing")
  /\ row' = IF Top.status = "completed" THEN [row EXCEPT !.status = Top.status] ELSE row
  /\ Proceed
  /\ UNCHANGED <<api, open, disabled, faults>>
Finalize ==
  /\ In("closing")
  /\ row' = [row EXCEPT !.status = Top.status]
  /\ Proceed
  /\ UNCHANGED <<api, open, disabled, faults>>

(* It cannot write, and returns all the same. *)
FinalizeSwallowed ==
  /\ In("closing") /\ Fault("finalize")
  /\ Proceed
  /\ UNCHANGED <<api, row, open, disabled>>

(* It is slow, and tried again: the slow attempt still writes. *)
FinalizeTimesOut ==
  /\ In("closing") /\ Fault("finalize")
  /\ late' = [late EXCEPT !.finalize = @ \cup {Top.status}]
  /\ UNCHANGED <<api, row, stack, outcome, calls, open, disabled>>
FinalizeLate ==
  /\ \E status \in late.finalize :
       /\ row' = [row EXCEPT !.status = status]
       /\ late' = [late EXCEPT !.finalize = @ \ {status}]
  /\ UNCHANGED <<api, stack, outcome, calls, open, disabled, faults>>

(* monitors_continue_as_new_disabled, then the sleep and the same definition
   again; a chain that is stopped returns a status of its own, behind a row
   that was finalized as completed. *)
CheckNothing ==                                                    \* mutant of Check
  /\ In("check")
  /\ Becomes([Top EXCEPT !.mode = "sleep"])
  /\ UNCHANGED <<api, row, outcome, calls, logVars, disabled, faults>>
Check ==
  /\ In("check")
  /\ IF disabled THEN Return("stopped_by_killswitch")
     ELSE Becomes([Top EXCEPT !.mode = "sleep"]) /\ UNCHANGED <<outcome, calls, late>>
  /\ UNCHANGED <<api, row, open, disabled, faults>>
Wake ==
  /\ In("sleep")
  /\ Becomes(Executor(Top.steps))
  /\ UNCHANGED <<api, row, outcome, calls, logVars, disabled, faults>>

-----------------------------------------------------------------------------
(* The attempts of execute_dynamic_step, by Temporal's retries, and the log
   rows: one is inserted when an attempt starts, and every running row of the
   step is closed when one ends. *)

Attempt(c) ==
  /\ c \in DOMAIN calls /\ calls[c].at = "due"
  /\ calls' = [calls EXCEPT ![c] = [at |-> "running", left |-> @.left - 1]]
  /\ open' = open \cup {c}
  /\ UNCHANGED <<api, row, stack, outcome, late, disabled, faults>>

Again(c) == [calls EXCEPT ![c].at = IF calls[c].left > 0 THEN "due" ELSE "failed"]
CloseOnSuccess(c) ==                                               \* mutant of AttemptEnds
  /\ Running(c)
  /\ \/ calls' = [calls EXCEPT ![c].at = "ok"] /\ open' = open \ {c}
     \/ calls' = Again(c) /\ UNCHANGED open
  /\ UNCHANGED <<api, row, stack, outcome, late, disabled, faults>>
AttemptEnds(c) ==
  /\ Running(c)
  /\ calls' \in {[calls EXCEPT ![c].at = "ok"], Again(c)}
  /\ open' = open \ {c}
  /\ UNCHANGED <<api, row, stack, outcome, late, disabled, faults>>
AttemptTimesOut(c) ==
  /\ Running(c) /\ Fault("late")
  /\ calls' = Again(c)
  /\ late' = [late EXCEPT !.calls[c] = Lingers(c)]
  /\ UNCHANGED <<api, row, stack, outcome, open, disabled>>
AttemptDies(c) ==
  /\ Running(c) /\ Fault("dead")
  /\ calls' = Again(c)
  /\ UNCHANGED <<api, row, stack, outcome, logVars, disabled>>
LateEnds(c) ==
  /\ late.calls[c] > 0
  /\ late' = [late EXCEPT !.calls[c] = @ - 1]
  /\ open' = open \ {c}
  /\ UNCHANGED <<api, row, stack, outcome, calls, disabled, faults>>

-----------------------------------------------------------------------------
Switch == disabled' = ~disabled /\ UNCHANGED <<api, row, stack, outcome, calls, logVars, faults>>

Execute ==
  \/ Begin \/ Join \/ Iterate \/ Decide \/ Finish \/ Finalize \/ FinalizeLate \/ Check \/ Wake
  \/ \E c \in Calls : Attempt(c) \/ AttemptEnds(c) \/ LateEnds(c)

Next ==
  \/ Start \/ Answer \/ Execute \/ Switch
  \/ \E a \in Approvals, decision \in {"approved", "rejected"} : Approve(a, decision)
  \/ FinalizeSwallowed \/ FinalizeTimesOut
  \/ \E c \in Calls : AttemptTimesOut(c) \/ AttemptDies(c)

Spec == Init /\ [][Next]_vars

(* The request is served, the worker polls, timers fire and attempts time
   out; nobody has to answer or to touch the switch. *)
FairSpec == Spec /\ WF_vars(Start) /\ WF_vars(Answer) /\ WF_vars(Execute)

-----------------------------------------------------------------------------
(* Properties. *)

(* The row of a run that is over has what the run returned, through children
   that finalize the same row before, if its start was answered and every
   write of a status went through in time.  A chain the kill-switch stopped
   counts as completed: its row was finalized before the switch was read. *)
Recorded(status) == IF status = "stopped_by_killswitch" THEN "completed" ELSE status
EndIsRecorded ==
  outcome # "none" /\ faults \cap {"start", "finalize"} = {} => row.status = Recorded(outcome)

(* A log row says "running" while an attempt of its step runs, one that has
   timed out or whose run is over included, unless an attempt died. *)
RunningIsTrue ==
  "dead" \notin faults => \A c \in open : Running(c) \/ late.calls[c] > 0

(* "every chain finalizes and stops the next time it wakes from its sleep":
   with the switch on for good a run that loops is over in the end, whatever
   fails, whoever never answers, and wherever the switch found it. *)
ChainDrains == (<>[]disabled) => <>(stack = <<>> /\ api = "over")

(* "ENFORCED v1 guardrails: the `human_approval` workflow gate (runtime)":
   nothing is begun behind an approval that was refused. *)
GateHolds ==
  \A n \in DOMAIN stack : stack[n].refused # {} => stack[n].mode \notin {"calls", "each", "wait"}

(* "Persist final workflow run status": a run that says it has finished has. *)
FinishedIsOver == row.status # "running" /\ faults = {} => stack = <<>>

(* The same words of the run that returns "stopped_by_killswitch": the row
   has the status the run ended with. *)
ReturnIsRecorded == outcome # "none" /\ faults = {} => row.status = outcome

(* "Send approval signal to a waiting workflow step": who is answered
   "approved" has been heard by the step that waits. *)
ApprovalIsHeard ==
  [][(In("wait") /\ stack[1].decided[Step.id] = "approved" /\ Decide) => Step.id \notin stack'[Len(stack)].refused]_vars

(* "started", and then "completed" or "failed": each attempt has its row. *)
AttemptHasRow == \A c \in Calls : Running(c) => c \in open
=============================================================================
