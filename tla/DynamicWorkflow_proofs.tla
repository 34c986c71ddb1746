------------------------ MODULE DynamicWorkflow_proofs ------------------------
(***************************************************************************)
(* EndIsRecorded and RunningIsTrue of DynamicWorkflow, for every           *)
(* definition, every number of iterations, of lingering attempts and of    *)
(* faults.                                                                 *)
(***************************************************************************)
EXTENDS DynamicWorkflow, TLAPS

Statuses == {"running", "completed", "failed"}
Executors ==
  [steps : Seq(Steps), at : Nat \ {0}, item : Nat, status : Statuses,
   mode : {"step", "calls", "each", "wait", "closing", "check", "sleep"},
   decided : [Approvals -> {"none", "approved", "rejected"}], refused : SUBSET {s.id : s \in Steps}]

(* An executor that waits for something is at a step of its definition. *)
AtStep(e) == e.mode \in {"calls", "each", "wait"} => e.at <= Len(e.steps)

TypeInv ==
  /\ row \in [status : Statuses, linked : BOOLEAN]
  /\ stack \in Seq(Executors)
  /\ late \in [calls : [Calls -> 0..MaxLate], finalize : SUBSET Statuses]
  /\ calls = [c \in DOMAIN calls |-> [at |-> calls[c].at, left |-> calls[c].left]]

(* Whoever has an executor above it is in a for_each. *)
StackInv ==
  /\ \A n \in 1..Len(stack) : AtStep(stack[n])
  /\ \A n \in 1..(Len(stack) - 1) : stack[n].mode = "each"

(* What EndIsRecorded needs to be inductive: a run starts once, a refused
   start has no executor, no write of a status is still to come from an
   attempt, and the run's own executor reads the switch after it has written
   that it completed. *)
Undisturbed == faults \cap {"start", "finalize"} = {}
EndInv ==
  /\ api = "starting" => stack = <<>>
  /\ outcome # "none" => stack = <<>> /\ api # "starting"
  /\ Undisturbed =>
       /\ late.finalize = {}
       /\ api = "refused" => stack = <<>> /\ outcome = "none"
       /\ outcome # "none" => row.status = Recorded(outcome)
       /\ Len(stack) = 1 /\ stack[1].mode = "check" => row.status = "completed"

(* ... and RunningIsTrue: calls belong to an executor that waits for them or
   has failed by them. *)
LogInv ==
  /\ open \subseteq Calls
  /\ DOMAIN calls # {} => (In("calls") \/ (In("closing") /\ Top.status = "failed"))
  /\ RunningIsTrue

IInv == TypeInv /\ StackInv /\ EndInv /\ LogInv
-----------------------------------------------------------------------------
(* What the ways of changing the stack leave alone. *)
LEMMA TopIsThere ==
  ASSUME stack \in Seq(Executors), stack # <<>>
  PROVE  /\ Len(stack) \in Nat \ {0} /\ Len(stack) \in DOMAIN stack /\ Top \in Executors
         /\ DOMAIN stack = 1..Len(stack)
BY DEF Top

LEMMA LastReplaced ==
  ASSUME NEW S, NEW s \in Seq(S), NEW e \in S, s # <<>>
  PROVE  LET t == [s EXCEPT ![Len(s)] = e] IN
         t[Len(s)] = e /\ \A n \in 1..(Len(s) - 1) : t[n] = s[n]
OBVIOUS

LEMMA BecomesLemma ==
  ASSUME stack \in Seq(Executors), stack # <<>>, NEW e \in Executors, Becomes(e)
  PROVE  /\ stack' \in Seq(Executors) /\ Len(stack') = Len(stack) /\ stack' # <<>>
         /\ stack'[Len(stack)] = e /\ Top' = e
         /\ \A n \in 1..(Len(stack) - 1) : stack'[n] = stack[n]
<1>1. /\ stack' = [stack EXCEPT ![Len(stack)] = e] /\ Len(stack) \in Nat \ {0}
      /\ DOMAIN stack = 1..Len(stack)
  BY TopIsThere DEF Becomes
<1>2. stack' \in Seq(Executors) /\ Len(stack') = Len(stack)  BY <1>1
<1>3. stack'[Len(stack)] = e /\ \A n \in 1..(Len(stack) - 1) : stack'[n] = stack[n]
  <2> DEFINE t == [stack EXCEPT ![Len(stack)] = e]
  <2>1. t[Len(stack)] = e /\ \A n \in 1..(Len(stack) - 1) : t[n] = stack[n]  BY LastReplaced
  <2> QED BY <1>1, <2>1
<1>4. Top' = e  BY <1>2, <1>3 DEF Top
<1>5. stack' # <<>>  BY <1>1, <1>2
<1> QED BY <1>2, <1>3, <1>4, <1>5

LEMMA ReturnLemma ==
  ASSUME stack \in Seq(Executors), stack # <<>>, stack' = SubSeq(stack, 1, Len(stack) - 1)
  PROVE  /\ stack' \in Seq(Executors) /\ Len(stack') = Len(stack) - 1
         /\ \A n \in 1..(Len(stack) - 1) : stack'[n] = stack[n]
         /\ Len(stack) = 1 => stack' = <<>>
BY TopIsThere

LEMMA NewExecutor ==
  ASSUME NEW steps \in Seq(Steps)
  PROVE  /\ Executor(steps) \in Executors /\ Executor(steps).mode = "step"
BY DEF Executor, Executors, Statuses

LEMMA FaultIsKept ==
  ASSUME NEW kind, Fault(kind)  PROVE  faults \subseteq faults' /\ kind \in faults'
BY DEF Fault

(* The step an executor waits at is one of the definition's. *)
LEMMA StepIsThere ==
  ASSUME TypeInv, StackInv, stack # <<>>, Top.at <= Len(Top.steps)
  PROVE  Step \in Steps /\ Step.steps \in Seq(Steps) /\ Step.tries \in Nat
<1>1. Top \in Executors  BY TopIsThere DEF TypeInv
<1>2. Top.steps \in Seq(Steps) /\ Top.at \in Nat \ {0}  BY <1>1 DEF Executors
<1>3. Step \in Steps  BY <1>2 DEF Step
<1> QED BY <1>3, WorkflowAssumption

(* The executor on top goes on. *)
LEMMA StackBecomes ==
  ASSUME TypeInv, StackInv, stack # <<>>, NEW e \in Executors, AtStep(e), Becomes(e)
  PROVE  stack' \in Seq(Executors) /\ StackInv'
<1>1. /\ stack' \in Seq(Executors) /\ Len(stack') = Len(stack)
      /\ stack'[Len(stack)] = e /\ \A n \in 1..(Len(stack) - 1) : stack'[n] = stack[n]
      /\ Len(stack) \in Nat \ {0}
  BY BecomesLemma, TopIsThere DEF TypeInv
<1>2. ASSUME NEW n \in 1..Len(stack') PROVE AtStep(stack'[n])
  <2>1. CASE n = Len(stack)  BY <1>1, <2>1
  <2>2. CASE n # Len(stack)  BY <1>1, <2>2 DEF StackInv
  <2> QED BY <2>1, <2>2
<1>3. \A n \in 1..(Len(stack') - 1) : stack'[n].mode = "each"  BY <1>1 DEF StackInv
<1> QED BY <1>1, <1>2, <1>3 DEF StackInv

LEMMA EndBecomes ==
  ASSUME IInv, stack # <<>>, NEW e \in Executors, Becomes(e),
         UNCHANGED <<api, outcome>>,
         Undisturbed' => Undisturbed /\ late'.finalize = late.finalize
                         /\ (e.mode = "check" => row'.status = "completed")
  PROVE  EndInv'
<1>1. /\ stack' # <<>> /\ Len(stack') = Len(stack) /\ Len(stack) \in Nat
      /\ stack'[Len(stack)] = e
  BY BecomesLemma, TopIsThere DEF IInv, TypeInv
<1>2. api # "starting" /\ outcome = "none" /\ (Undisturbed => api # "refused" /\ late.finalize = {})
  BY DEF IInv, EndInv
<1> QED BY <1>1, <1>2 DEF EndInv

LEMMA GoesOn ==
  ASSUME IInv, stack # <<>>, NEW e \in Executors, AtStep(e), Becomes(e), e.mode # "check",
         UNCHANGED <<api, row, outcome, late, open, faults>>,
         calls' = [c \in DOMAIN calls' |-> [at |-> calls'[c].at, left |-> calls'[c].left]],
         DOMAIN calls' # {} => e.mode = "calls" \/ (e.mode = "closing" /\ e.status = "failed"),
         RunningIsTrue'
  PROVE  IInv'
<1>1. stack' \in Seq(Executors) /\ StackInv'  BY StackBecomes DEF IInv
<1>2. EndInv'  BY EndBecomes DEF Undisturbed
<1>3. stack' # <<>> /\ Top' = e  BY BecomesLemma DEF IInv, TypeInv
<1>4. LogInv'  BY <1>3 DEF IInv, LogInv, In
<1> QED BY <1>1, <1>2, <1>4 DEF IInv, TypeInv

(* It returns. *)
LEMMA TypeReturn ==
  ASSUME IInv, stack # <<>>, NEW status, Return(status)
  PROVE  /\ stack' \in Seq(Executors) /\ StackInv'
         /\ late' \in [calls : [Calls -> 0..MaxLate], finalize : SUBSET Statuses]
         /\ late'.finalize = late.finalize
         /\ calls' = [c \in DOMAIN calls' |-> [at |-> calls'[c].at, left |-> calls'[c].left]]
<1>1. /\ stack' \in Seq(Executors) /\ Len(stack') = Len(stack) - 1 /\ Len(stack) \in Nat \ {0}
      /\ \A n \in 1..(Len(stack) - 1) : stack'[n] = stack[n]
  BY ReturnLemma, TopIsThere DEF IInv, TypeInv, Return
<1>2. StackInv'
  <2>1. \A n \in 1..Len(stack') : n \in 1..Len(stack) /\ n \in 1..(Len(stack) - 1)  BY <1>1
  <2>2. \A n \in 1..(Len(stack') - 1) : n \in 1..(Len(stack) - 1)  BY <1>1
  <2> QED BY <1>1, <2>1, <2>2 DEF IInv, StackInv
<1>3. ASSUME NEW c \in Calls PROVE Lingers(c) \in 0..MaxLate
  BY WorkflowAssumption DEF IInv, TypeInv, Lingers
<1>4. /\ late' \in [calls : [Calls -> 0..MaxLate], finalize : SUBSET Statuses]
      /\ late'.finalize = late.finalize
  BY <1>3 DEF IInv, TypeInv, Return
<1>5. calls' = <<>>  BY DEF Return
<1>6. calls' = [c \in DOMAIN calls' |-> [at |-> calls'[c].at, left |-> calls'[c].left]]  BY <1>5
<1> QED BY <1>1, <1>2, <1>4, <1>6

LEMMA EndReturn ==
  ASSUME IInv, stack # <<>>, NEW status, Return(status), status # "none", UNCHANGED api,
         Undisturbed' => Undisturbed /\ (Len(stack) = 1 => row'.status = Recorded(status))
  PROVE  EndInv'
<1>1. /\ Len(stack') = Len(stack) - 1 /\ Len(stack) \in Nat \ {0}
      /\ \A n \in 1..(Len(stack) - 1) : stack'[n] = stack[n]
      /\ Len(stack) = 1 => stack' = <<>>
  BY ReturnLemma, TopIsThere DEF IInv, TypeInv, Return
<1>2. /\ api # "starting" /\ outcome = "none"
      /\ Undisturbed => api # "refused" /\ late.finalize = {}
  BY DEF IInv, EndInv
<1>3. late'.finalize = late.finalize  BY TypeReturn
<1>4. Len(stack') = 1 => stack'[1].mode = "each"  BY <1>1 DEF IInv, StackInv
<1>5. outcome' = IF Len(stack) = 1 THEN status ELSE outcome  BY DEF Return
<1> QED BY <1>1, <1>2, <1>3, <1>4, <1>5 DEF EndInv

LEMMA LogReturn ==
  ASSUME IInv, stack # <<>>, NEW status, Return(status), UNCHANGED open, faults \subseteq faults'
  PROVE  LogInv'
<1>1. calls' = <<>>  BY DEF Return
<1>2. DOMAIN calls' = {}  BY <1>1
<1>3. ASSUME NEW c \in open, "dead" \notin faults PROVE late'.calls[c] > 0
  <2>1. c \in Calls /\ (Running(c) \/ late.calls[c] > 0)  BY <1>3 DEF IInv, LogInv, RunningIsTrue
  <2>2. late'.calls[c] = IF Running(c) THEN Lingers(c) ELSE late.calls[c]
    BY <2>1 DEF Return, IInv, TypeInv
  <2>3. Lingers(c) > 0  BY <2>1, WorkflowAssumption DEF Lingers, IInv, TypeInv
  <2> QED BY <2>1, <2>2, <2>3
<1> QED BY <1>2, <1>3 DEF IInv, LogInv, RunningIsTrue

-----------------------------------------------------------------------------
LEMMA IInvInit == Init => IInv
<1> SUFFICES ASSUME Init PROVE IInv  OBVIOUS
<1>1. DOMAIN calls = {} /\ Len(stack) = 0  BY DEF Init
<1>2. calls = [c \in DOMAIN calls |-> [at |-> calls[c].at, left |-> calls[c].left]]
  BY <1>1 DEF Init
<1>3. TypeInv
  <2>1. late \in [calls : [Calls -> 0..MaxLate], finalize : SUBSET Statuses]
    BY WorkflowAssumption DEF Init
  <2> QED BY <1>2, <2>1 DEF Init, TypeInv, Statuses
<1>4. StackInv  BY <1>1 DEF StackInv
<1>5. EndInv  BY <1>1 DEF Init, EndInv
<1>6. LogInv  BY <1>1 DEF Init, LogInv, RunningIsTrue
<1> QED BY <1>3, <1>4, <1>5, <1>6 DEF IInv

(* The steps of the executor on top. *)
LEMMA OnTop ==
  ASSUME IInv, stack # <<>>
  PROVE  /\ Top \in Executors /\ AtStep(Top)
         /\ Top.steps \in Seq(Steps) /\ Top.at \in Nat \ {0} /\ Len(Top.steps) \in Nat
<1>1. Top \in Executors /\ AtStep(Top)  BY TopIsThere DEF IInv, TypeInv, StackInv, Top
<1> QED BY <1>1 DEF Executors

(* Only an executor in these modes has calls. *)
LEMMA NoCalls ==
  ASSUME IInv, stack # <<>>, Top.mode \notin {"calls", "closing"}
  PROVE  DOMAIN calls = {} /\ \A c : ~Running(c)
BY DEF IInv, LogInv, In, Running

LEMMA StillTrue ==
  ASSUME IInv, UNCHANGED <<calls, late, open, faults>>  PROVE  RunningIsTrue'
BY DEF IInv, LogInv, RunningIsTrue, Running

LEMMA PassedOn ==
  ASSUME IInv, stack # <<>>
  PROVE  Passed(Top) \in Executors /\ AtStep(Passed(Top)) /\ Passed(Top).mode = "step"
<1>1. Top \in Executors /\ Top.at + 1 \in Nat \ {0}  BY OnTop
<1>2. Passed(Top) \in Executors /\ Passed(Top).mode = "step"  BY <1>1 DEF Executors, Passed
<1> QED BY <1>2 DEF AtStep

LEMMA Closes ==
  ASSUME IInv, stack # <<>>, NEW status \in Statuses
  PROVE  /\ Closing(status) \in Executors /\ AtStep(Closing(status))
         /\ Closing(status).mode = "closing" /\ Closing(status).status = status
BY OnTop DEF Executors, Closing, AtStep

LEMMA ModeChanges ==
  ASSUME IInv, stack # <<>>, Top.at <= Len(Top.steps),
         NEW mode \in {"step", "calls", "wait", "closing", "check", "sleep"}, NEW item \in Nat
  PROVE  /\ [Top EXCEPT !.mode = mode] \in Executors /\ AtStep([Top EXCEPT !.mode = mode])
         /\ [Top EXCEPT !.mode = mode].mode = mode
         /\ [Top EXCEPT !.mode = "each", !.item = item] \in Executors
         /\ AtStep([Top EXCEPT !.mode = "each", !.item = item])
         /\ [Top EXCEPT !.mode = "each", !.item = item].mode = "each"
BY OnTop DEF Executors, AtStep

LEMMA BeginStep == ASSUME IInv, Begin PROVE IInv'
<1>1. /\ stack # <<>> /\ Top.mode = "step" /\ Top.at <= Len(Top.steps)
      /\ UNCHANGED <<api, row, outcome, late, open, faults>>
  BY DEF Begin, In, logVars
<1>2. DOMAIN calls = {} /\ \A c : ~Running(c)  BY <1>1, NoCalls
<1>3. CASE UNCHANGED calls
  <2>1. calls' = [c \in DOMAIN calls' |-> [at |-> calls'[c].at, left |-> calls'[c].left]]
    BY <1>3 DEF IInv, TypeInv
  <2>2. RunningIsTrue'  BY <1>1, <1>3, StillTrue
  <2>3. ASSUME NEW e \in Executors, AtStep(e), Becomes(e), e.mode # "check" PROVE IInv'
    BY <1>1, <1>2, <1>3, <2>1, <2>2, <2>3, GoesOn
  <2>4. CASE Becomes([Top EXCEPT !.mode = "each", !.item = 0])  BY <1>1, <2>3, <2>4, ModeChanges
  <2>5. CASE Becomes([Top EXCEPT !.mode = "wait"])  BY <1>1, <2>3, <2>5, ModeChanges
  <2>6. CASE Becomes([Top EXCEPT !.mode = "calls"])  BY <1>1, <2>3, <2>6, ModeChanges
  <2>7. CASE Becomes(Passed(Top))  BY <1>1, <2>3, <2>7, PassedOn
  <2>8. CASE Becomes(Closing("failed"))  BY <1>1, <2>3, <2>8, Closes DEF Statuses
  <2> QED BY <2>4, <2>5, <2>6, <2>7, <2>8 DEF Begin
<1>4. CASE ~UNCHANGED calls
  <2>1. Becomes([Top EXCEPT !.mode = "calls"])  BY <1>4 DEF Begin
  <2> DEFINE called == IF Step.type = "activity" THEN {Step} ELSE {Step.steps[i] : i \in DOMAIN Step.steps}
             left(c) == (CHOOSE s \in called : s.id = c).tries
  <2>2. calls' = [c \in {s.id : s \in called} |-> [at |-> "due", left |-> left(c)]]
    <3>1. \/ calls' = [c \in {s.id : s \in called} |-> [at |-> "due", left |-> left(c)]]
          \/ UNCHANGED calls
      BY Zenon DEF Begin
    <3> QED BY <1>4, <3>1
  <2> HIDE DEF called, left
  <2>3. calls' = [c \in DOMAIN calls' |-> [at |-> calls'[c].at, left |-> calls'[c].left]]  BY <2>2
  <2>4. RunningIsTrue'  BY <1>1, <1>2 DEF IInv, LogInv, RunningIsTrue
  <2>5. [Top EXCEPT !.mode = "calls"] \in Executors /\ AtStep([Top EXCEPT !.mode = "calls"])
        /\ [Top EXCEPT !.mode = "calls"].mode = "calls"
    BY <1>1, ModeChanges, WorkflowAssumption
  <2> QED BY <1>1, <2>1, <2>3, <2>4, <2>5, GoesOn
<1> QED BY <1>3, <1>4

LEMMA JoinStep == ASSUME IInv, Join PROVE IInv'
<1>1. stack # <<>> /\ Top.mode = "calls" /\ UNCHANGED <<api, row, outcome, late, open, faults>>
  BY DEF Join, In, logVars
<1>2. CASE (\A c \in DOMAIN calls : calls[c].at = "ok") /\ Becomes(Passed(Top)) /\ calls' = <<>>
  <2>1. DOMAIN calls' = {}  BY <1>2
  <2>2. calls' = [c \in DOMAIN calls' |-> [at |-> calls'[c].at, left |-> calls'[c].left]]
    BY <1>2, <2>1
  <2>3. RunningIsTrue'  BY <1>1, <1>2 DEF IInv, LogInv, RunningIsTrue, Running
  <2> QED BY <1>1, <1>2, <2>1, <2>2, <2>3, PassedOn, GoesOn
<1>3. CASE Becomes(Closing("failed")) /\ UNCHANGED calls
  <2>1. calls' = [c \in DOMAIN calls' |-> [at |-> calls'[c].at, left |-> calls'[c].left]]
    BY <1>3 DEF IInv, TypeInv
  <2> QED BY <1>1, <1>3, <2>1, StillTrue, Closes, GoesOn DEF Statuses
<1> QED BY <1>2, <1>3 DEF Join

(* What goes on without a call. *)
LEMMA QuietStep ==
  ASSUME IInv, stack # <<>>, Top.mode \notin {"calls", "closing"},
         NEW e \in Executors, AtStep(e), Becomes(e), e.mode # "check",
         UNCHANGED <<api, row, outcome, calls, late, open, faults>>
  PROVE  IInv'
<1>1. calls' = [c \in DOMAIN calls' |-> [at |-> calls'[c].at, left |-> calls'[c].left]]
  BY DEF IInv, TypeInv
<1>2. DOMAIN calls' = {}  BY NoCalls
<1> QED BY <1>1, <1>2, StillTrue, GoesOn

LEMMA DecideStep == ASSUME IInv, Decide PROVE IInv'
<1>1. /\ stack # <<>> /\ Top.mode = "wait"
      /\ UNCHANGED <<api, row, outcome, calls, late, open, faults>>
  BY DEF Decide, In, logVars
<1>2. Step \in Steps  BY <1>1, OnTop, StepIsThere DEF IInv, AtStep
<1>3. ASSUME NEW refused \in SUBSET {s.id : s \in Steps}
      PROVE  /\ [Passed(Top) EXCEPT !.refused = refused] \in Executors
             /\ AtStep([Passed(Top) EXCEPT !.refused = refused])
             /\ [Passed(Top) EXCEPT !.refused = refused].mode = "step"
  BY <1>1, PassedOn DEF Executors, AtStep
<1>4. Passed(Top).refused \in SUBSET {s.id : s \in Steps}  BY <1>1, PassedOn DEF Executors
<1>5. PICK refused \in SUBSET {s.id : s \in Steps} : Becomes([Passed(Top) EXCEPT !.refused = refused])
  <2>1. Passed(Top).refused \cup {Step.id} \in SUBSET {s.id : s \in Steps}  BY <1>2, <1>4
  <2> QED BY <1>4, <2>1 DEF Decide
<1> QED BY <1>1, <1>3, <1>5, QuietStep

LEMMA FinishStep == ASSUME IInv, Finish PROVE IInv'
<1>1. /\ stack # <<>> /\ Top.mode = "step" /\ Becomes(Closing("completed"))
      /\ UNCHANGED <<api, row, outcome, calls, late, open, faults>>
  BY DEF Finish, In, logVars
<1> QED BY <1>1, Closes, QuietStep DEF Statuses

LEMMA WakeStep == ASSUME IInv, Wake PROVE IInv'
<1>1. /\ stack # <<>> /\ Top.mode = "sleep" /\ Becomes(Executor(Top.steps))
      /\ UNCHANGED <<api, row, outcome, calls, late, open, faults>>
  BY DEF Wake, In, logVars
<1>2. Executor(Top.steps) \in Executors /\ Executor(Top.steps).mode = "step"
  BY <1>1, OnTop, NewExecutor
<1> QED BY <1>1, <1>2, QuietStep DEF AtStep

LEMMA IterateStep == ASSUME IInv, Iterate PROVE IInv'
<1>1. /\ stack # <<>> /\ Top.mode = "each"
      /\ UNCHANGED <<api, row, outcome, calls, late, open, faults>>
  BY DEF Iterate, In, logVars
<1>2. CASE Becomes(Passed(Top))  BY <1>1, <1>2, PassedOn, QuietStep
<1>3. CASE stack' = Append([stack EXCEPT ![Len(stack)].item = @ + 1], Executor(Step.steps))
  <2> DEFINE e == [Top EXCEPT !.item = Top.item + 1]
             under == [stack EXCEPT ![Len(stack)] = e]
             child == Executor(Step.steps)
  <2>1. e \in Executors /\ AtStep(e) /\ e.mode = "each"
    BY <1>1, OnTop DEF Executors, AtStep
  <2>2. child \in Executors /\ child.mode = "step" /\ AtStep(child)
    <3>1. Step.steps \in Seq(Steps)  BY <1>1, OnTop, StepIsThere DEF IInv, AtStep
    <3> QED BY <3>1, NewExecutor DEF AtStep
  <2>3. /\ Len(stack) \in Nat \ {0} /\ stack \in Seq(Executors) /\ DOMAIN stack = 1..Len(stack)
    BY <1>1, TopIsThere DEF IInv, TypeInv
  <2>4. under \in Seq(Executors) /\ Len(under) = Len(stack)  BY <2>1, <2>3
  <2>5. under[Len(stack)] = e /\ \A n \in 1..(Len(stack) - 1) : under[n] = stack[n]
    BY <1>1, <2>1, <2>3, LastReplaced
  <2>6. stack' = Append(under, child)
    <3>1. [stack EXCEPT ![Len(stack)].item = @ + 1]
            = [stack EXCEPT ![Len(stack)] = [stack[Len(stack)] EXCEPT !.item = @ + 1]]
      OBVIOUS
    <3>2. [stack[Len(stack)] EXCEPT !.item = @ + 1] = e  BY DEF Top
    <3> QED BY <1>3, <3>1, <3>2, Zenon
  <2> HIDE DEF e, under, child
  <2>7. /\ stack' \in Seq(Executors) /\ Len(stack') = Len(stack) + 1
        /\ stack'[Len(stack) + 1] = child /\ \A n \in 1..Len(stack) : stack'[n] = under[n]
    BY <2>2, <2>3, <2>4, <2>6
  <2>8. \A n \in 1..Len(stack) : stack'[n].mode = "each" /\ AtStep(stack'[n])
    <3>1. ASSUME NEW n \in 1..Len(stack) PROVE stack'[n].mode = "each" /\ AtStep(stack'[n])
      <4>1. CASE n = Len(stack)
        <5>1. stack'[n] = e  BY <2>5, <2>7, <4>1
        <5> QED BY <2>1, <5>1
      <4>2. CASE n # Len(stack)
        <5>1. n \in 1..(Len(stack) - 1)
          <6>1. n \in Nat /\ n >= 1 /\ n <= Len(stack) /\ Len(stack) \in Nat  BY <2>3
          <6> QED BY <4>2, <6>1
        <5>2. stack'[n] = stack[n]  BY <2>5, <2>7, <5>1
        <5> QED BY <5>1, <5>2 DEF IInv, StackInv
      <4> QED BY <4>1, <4>2
    <3> QED BY <3>1
  <2>9. StackInv'
    <3>1. \A n \in 1..Len(stack') : n = Len(stack) + 1 \/ n \in 1..Len(stack)  BY <2>3, <2>7
    <3>2. \A n \in 1..(Len(stack') - 1) : n \in 1..Len(stack)  BY <2>3, <2>7
    <3> QED BY <2>2, <2>7, <2>8, <3>1, <3>2 DEF StackInv
  <2>10. DOMAIN calls = {}  BY <1>1, NoCalls
  <2>11. EndInv'
    <3>1. api # "starting" /\ outcome = "none"
          /\ (Undisturbed => api # "refused" /\ late.finalize = {})
      BY <1>1 DEF IInv, EndInv
    <3>2. Len(stack') # 1  BY <2>3, <2>7
    <3> QED BY <1>1, <3>1, <3>2 DEF EndInv, Undisturbed
  <2>12. LogInv'  BY <1>1, <2>10, StillTrue DEF IInv, LogInv
  <2>13. TypeInv'  BY <1>1, <2>7 DEF IInv, TypeInv
  <2> QED BY <2>9, <2>11, <2>12, <2>13 DEF IInv
<1> QED BY <1>2, <1>3 DEF Iterate

(* An executor that has closed, or checked the switch, and goes on. *)
LEMMA TopGoesOn ==
  ASSUME IInv, stack # <<>>, NEW mode \in {"check", "sleep"}, Becomes([Top EXCEPT !.mode = mode]),
         DOMAIN calls = {}, UNCHANGED <<api, outcome, calls, late, open>>, faults \subseteq faults',
         row' \in [status : Statuses, linked : BOOLEAN],
         Undisturbed' => (mode = "check" => row'.status = "completed")
  PROVE  IInv'
<1> DEFINE e == [Top EXCEPT !.mode = mode]
<1>1. e \in Executors /\ AtStep(e) /\ e.mode = mode
  BY OnTop DEF Executors, AtStep
<1>2. Becomes(e)  OBVIOUS
<1> HIDE DEF e
<1>3. stack' \in Seq(Executors) /\ StackInv'  BY <1>1, <1>2, StackBecomes DEF IInv
<1>4. EndInv'
  <2>1. Undisturbed' => Undisturbed  BY DEF Undisturbed
  <2> QED BY <1>1, <1>2, <2>1, EndBecomes
<1>5. LogInv'
  <2>1. RunningIsTrue'  BY DEF IInv, LogInv, RunningIsTrue, Running
  <2> QED BY <2>1 DEF IInv, LogInv
<1>6. TypeInv'  BY <1>3 DEF IInv, TypeInv
<1> QED BY <1>3, <1>4, <1>5, <1>6 DEF IInv

LEMMA TopReturns ==
  ASSUME IInv, stack # <<>>, NEW status, Return(status), status # "none",
         UNCHANGED <<api, open>>, faults \subseteq faults',
         row' \in [status : Statuses, linked : BOOLEAN],
         Undisturbed' => (Len(stack) = 1 => row'.status = Recorded(status))
  PROVE  IInv'
<1>1. Undisturbed' => Undisturbed  BY DEF Undisturbed
<1>2. EndInv'  BY <1>1, EndReturn
<1>3. LogInv'  BY LogReturn
<1> QED BY <1>2, <1>3, TypeReturn DEF IInv, TypeInv

LEMMA CheckStep == ASSUME IInv, Check PROVE IInv'
<1>1. stack # <<>> /\ Top.mode = "check" /\ UNCHANGED <<api, row, open, faults>>
  BY DEF Check, In
<1>2. row' \in [status : Statuses, linked : BOOLEAN]  BY <1>1 DEF IInv, TypeInv
<1>3. Undisturbed' => (Len(stack) = 1 => row'.status = Recorded("stopped_by_killswitch"))
  BY <1>1 DEF IInv, EndInv, Undisturbed, Top, Recorded
<1>4. CASE Return("stopped_by_killswitch")  BY <1>1, <1>2, <1>3, <1>4, TopReturns
<1>5. CASE Becomes([Top EXCEPT !.mode = "sleep"]) /\ UNCHANGED <<outcome, calls, late>>
  BY <1>1, <1>2, <1>5, NoCalls, TopGoesOn
<1> QED BY <1>4, <1>5 DEF Check

LEMMA ProceedStep ==
  ASSUME IInv, In("closing"), Proceed, UNCHANGED <<api, open>>, faults \subseteq faults',
         row' \in [status : Statuses, linked : BOOLEAN],
         Undisturbed' => row'.status = Top.status
  PROVE  IInv'
<1>1. stack # <<>> /\ Top.mode = "closing"  BY DEF In
<1>2. CASE Loops
  <2>1. DOMAIN calls = {}  BY <1>1, <1>2 DEF Loops, IInv, LogInv, In
  <2>2. Becomes([Top EXCEPT !.mode = "check"]) /\ UNCHANGED <<outcome, calls, late>>
    BY <1>2 DEF Proceed
  <2>3. Top.status = "completed"  BY <1>2 DEF Loops
  <2> QED BY <1>1, <2>1, <2>2, <2>3, TopGoesOn
<1>3. CASE ~Loops
  <2>1. Return(Top.status)  BY <1>3 DEF Proceed
  <2>2. Top.status \in Statuses  BY <1>1, OnTop DEF Executors
  <2>3. Top.status # "none" /\ Recorded(Top.status) = Top.status  BY <2>2 DEF Statuses, Recorded
  <2> QED BY <1>1, <2>1, <2>3, TopReturns
<1> QED BY <1>2, <1>3

LEMMA FinalizeStep == ASSUME IInv, Finalize \/ FinalizeSwallowed PROVE IInv'
<1>1. CASE Finalize
  <2>1. In("closing") /\ Proceed /\ UNCHANGED <<api, open, faults>>
        /\ row' = [row EXCEPT !.status = Top.status]
    BY <1>1 DEF Finalize
  <2>2. Top.status \in Statuses  BY <2>1, OnTop DEF In, Executors
  <2>3. row' \in [status : Statuses, linked : BOOLEAN] /\ row'.status = Top.status
    BY <2>1, <2>2 DEF IInv, TypeInv
  <2> QED BY <2>1, <2>3, ProceedStep
<1>2. CASE FinalizeSwallowed
  <2>1. /\ In("closing") /\ Proceed /\ UNCHANGED <<api, row, open>>
        /\ faults \subseteq faults' /\ "finalize" \in faults'
    BY <1>2, FaultIsKept DEF FinalizeSwallowed
  <2>2. ~Undisturbed'  BY <2>1 DEF Undisturbed
  <2>3. row' \in [status : Statuses, linked : BOOLEAN]  BY <2>1 DEF IInv, TypeInv
  <2> QED BY <2>1, <2>2, <2>3, ProceedStep
<1> QED BY <1>1, <1>2

LEMMA FinalizeLateStep == ASSUME IInv, FinalizeLate \/ FinalizeTimesOut PROVE IInv'
<1>1. ASSUME UNCHANGED <<api, stack, outcome, calls, open>>, faults \subseteq faults', ~Undisturbed',
             row' \in [status : Statuses, linked : BOOLEAN],
             late' \in [calls : [Calls -> 0..MaxLate], finalize : SUBSET Statuses],
             late'.calls = late.calls
      PROVE  IInv'
  <2>1. TypeInv' /\ StackInv'  BY <1>1 DEF IInv, TypeInv, StackInv
  <2>2. EndInv'  BY <1>1 DEF IInv, EndInv
  <2>3. LogInv'  BY <1>1 DEF IInv, LogInv, RunningIsTrue, Running, In, Top
  <2> QED BY <2>1, <2>2, <2>3 DEF IInv
<1>2. CASE FinalizeLate
  <2>1. PICK status \in late.finalize : /\ row' = [row EXCEPT !.status = status]
                                        /\ late' = [late EXCEPT !.finalize = @ \ {status}]
    BY <1>2 DEF FinalizeLate
  <2>2. UNCHANGED <<api, stack, outcome, calls, open, faults>>  BY <1>2 DEF FinalizeLate
  <2>3. late.finalize \subseteq Statuses /\ late.finalize # {}  BY <2>1 DEF IInv, TypeInv
  <2>4. ~Undisturbed'  BY <2>2, <2>3 DEF IInv, EndInv, Undisturbed
  <2>5. row' \in [status : Statuses, linked : BOOLEAN]  BY <2>1, <2>3 DEF IInv, TypeInv
  <2>6. /\ late' \in [calls : [Calls -> 0..MaxLate], finalize : SUBSET Statuses]
        /\ late'.calls = late.calls
    BY <2>1, <2>3 DEF IInv, TypeInv
  <2> QED BY <1>1, <2>2, <2>4, <2>5, <2>6
<1>3. CASE FinalizeTimesOut
  <2>1. /\ stack # <<>> /\ late' = [late EXCEPT !.finalize = @ \cup {Top.status}]
        /\ faults \subseteq faults' /\ "finalize" \in faults'
        /\ UNCHANGED <<api, row, stack, outcome, calls, open>>
    BY <1>3, FaultIsKept DEF FinalizeTimesOut, In
  <2>2. Top.status \in Statuses  BY <2>1, OnTop DEF Executors
  <2>3. ~Undisturbed'  BY <2>1 DEF Undisturbed
  <2>4. /\ late' \in [calls : [Calls -> 0..MaxLate], finalize : SUBSET Statuses]
        /\ late'.calls = late.calls
    BY <2>1, <2>2 DEF IInv, TypeInv
  <2>5. row' \in [status : Statuses, linked : BOOLEAN]  BY <2>1 DEF IInv, TypeInv
  <2> QED BY <1>1, <2>1, <2>3, <2>4, <2>5
<1> QED BY <1>2, <1>3

(* The request that starts the run. *)
LEMMA StartStep == ASSUME IInv, Start PROVE IInv'
<1>1. /\ api = "starting" /\ stack = <<>> /\ outcome = "none"
      /\ UNCHANGED <<row, outcome, calls, late, open>>
  BY DEF Start, logVars, IInv, EndInv
<1>2. DOMAIN calls = {}  BY <1>1 DEF IInv, LogInv, In
<1>3. CASE stack' = <<Executor(Definition)>>
  <2> DEFINE e == Executor(Definition)
  <2>1. e \in Executors /\ e.mode = "step" /\ AtStep(e)  BY NewExecutor, WorkflowAssumption DEF AtStep
  <2> HIDE DEF e
  <2>2. stack' = <<e>>  BY <1>3 DEF e
  <2>3. stack' \in Seq(Executors) /\ Len(stack') = 1 /\ stack'[1] = e  BY <2>1, <2>2
  <2>4. StackInv'
    <3>1. \A n \in 1..Len(stack') : n = 1  BY <2>3
    <3>2. 1..(Len(stack') - 1) = {}  BY <2>3
    <3> QED BY <2>1, <2>3, <3>1, <3>2 DEF StackInv
  <2>5. /\ api' \in {"linking", "refused"} /\ faults \subseteq faults'
        /\ api' = "refused" => ~Undisturbed'
    BY <1>1, <1>3, <2>3, FaultIsKept DEF Start, Undisturbed
  <2>6. EndInv'  BY <1>1, <2>1, <2>3, <2>5 DEF IInv, EndInv, Undisturbed
  <2>7. LogInv'
    <3>1. RunningIsTrue'  BY <1>1, <2>5 DEF IInv, LogInv, RunningIsTrue, Running
    <3> QED BY <1>1, <1>2, <3>1 DEF IInv, LogInv
  <2> QED BY <1>1, <2>3, <2>4, <2>6, <2>7 DEF IInv, TypeInv
<1>4. CASE UNCHANGED <<stack, faults>> /\ api' = "refused"
  <2>1. TypeInv' /\ StackInv'  BY <1>1, <1>4 DEF IInv, TypeInv, StackInv
  <2>2. EndInv'  BY <1>1, <1>4 DEF IInv, EndInv, Undisturbed
  <2>3. LogInv'
    <3>1. RunningIsTrue'  BY <1>1, <1>4, StillTrue
    <3> QED BY <1>1, <1>2, <3>1 DEF IInv, LogInv
  <2> QED BY <2>1, <2>2, <2>3 DEF IInv
<1> QED BY <1>3, <1>4 DEF Start

LEMMA AnswerStep == ASSUME IInv, Answer PROVE IInv'
<1>1. /\ api' = "over" /\ UNCHANGED <<stack, outcome, calls, late, open, faults>>
      /\ \/ api = "linking" /\ row' = [row EXCEPT !.linked = TRUE]
         \/ api = "refused" /\ row' = [row EXCEPT !.status = "failed"]
  BY DEF Answer, logVars
<1>2. /\ row' \in [status : Statuses, linked : BOOLEAN]
      /\ api = "linking" => row'.status = row.status
  BY <1>1 DEF IInv, TypeInv, Statuses
<1>3. TypeInv' /\ StackInv'  BY <1>1, <1>2 DEF IInv, TypeInv, StackInv
<1>4. EndInv'
  <2>1. CASE api = "linking"  BY <1>1, <1>2, <2>1 DEF IInv, EndInv, Undisturbed
  <2>2. CASE api = "refused"
    <3>1. Undisturbed => stack = <<>> /\ outcome = "none" /\ late.finalize = {}
      BY <2>2 DEF IInv, EndInv
    <3>2. stack = <<>> => Len(stack) = 0  OBVIOUS
    <3> QED BY <1>1, <2>2, <3>1, <3>2 DEF IInv, EndInv, Undisturbed
  <2> QED BY <1>1, <2>1, <2>2
<1>5. LogInv'  BY <1>1, StillTrue DEF IInv, LogInv, In, Top
<1> QED BY <1>3, <1>4, <1>5 DEF IInv

LEMMA ApproveStep ==
  ASSUME IInv, NEW a \in Approvals, NEW decision \in {"approved", "rejected"}, Approve(a, decision)
  PROVE  IInv'
<1> DEFINE e == [stack[1] EXCEPT !.decided[a] = decision]
<1>1. /\ stack # <<>> /\ UNCHANGED <<api, row, outcome, calls, late, open, faults>>
      /\ stack' = [stack EXCEPT ![1].decided[a] = decision]
  BY DEF Approve, logVars
<1>2. /\ stack \in Seq(Executors) /\ Len(stack) \in Nat \ {0} /\ DOMAIN stack = 1..Len(stack)
      /\ stack[1] \in Executors
  BY <1>1, TopIsThere DEF IInv, TypeInv
<1>3. e \in Executors /\ e.mode = stack[1].mode /\ e.status = stack[1].status
      /\ e.at = stack[1].at /\ e.steps = stack[1].steps
  BY <1>2 DEF Executors
<1>4. stack' = [stack EXCEPT ![1] = e]
  <2>1. [stack EXCEPT ![1].decided[a] = decision]
          = [stack EXCEPT ![1] = [stack[1] EXCEPT !.decided[a] = decision]]
    OBVIOUS
  <2> QED BY <1>1, <2>1, Zenon
<1> HIDE DEF e
<1>5. stack' \in Seq(Executors) /\ Len(stack') = Len(stack)  BY <1>2, <1>3, <1>4
<1>6. \A n \in 1..Len(stack) : /\ stack'[n].mode = stack[n].mode /\ stack'[n].status = stack[n].status
                               /\ stack'[n].at = stack[n].at /\ stack'[n].steps = stack[n].steps
  <2>1. \A n \in 1..Len(stack) : stack'[n] = IF n = 1 THEN e ELSE stack[n]  BY <1>2, <1>4
  <2> QED BY <1>3, <2>1
<1>7. TypeInv'  BY <1>1, <1>5 DEF IInv, TypeInv
<1>8. StackInv'
  <2>1. \A n \in 1..Len(stack) : AtStep(stack'[n])  BY <1>6 DEF IInv, StackInv, AtStep
  <2>2. \A n \in 1..(Len(stack) - 1) : n \in 1..Len(stack)  BY <1>2
  <2>3. \A n \in 1..(Len(stack) - 1) : stack'[n].mode = "each"  BY <1>6, <2>2 DEF IInv, StackInv
  <2> QED BY <1>5, <2>1, <2>3 DEF StackInv
<1>9. EndInv'
  <2>1. api # "starting" /\ outcome = "none"
        /\ (Undisturbed => api # "refused" /\ late.finalize = {})
    BY <1>1 DEF IInv, EndInv
  <2>2. Len(stack) = 1 => stack'[1].mode = stack[1].mode /\ stack'[1].status = stack[1].status
    BY <1>6
  <2> QED BY <1>1, <1>5, <2>1, <2>2 DEF IInv, EndInv, Undisturbed
<1>10. LogInv'
  <2>1. Top'.mode = Top.mode /\ Top'.status = Top.status /\ stack' # <<>>
    BY <1>2, <1>5, <1>6 DEF Top
  <2>2. RunningIsTrue'  BY <1>1, StillTrue
  <2> QED BY <1>1, <2>1, <2>2 DEF IInv, LogInv, In
<1> QED BY <1>7, <1>8, <1>9, <1>10 DEF IInv

(* What happens below the executors: they and the row stay as they are. *)
LEMMA LogStep ==
  ASSUME IInv, UNCHANGED <<api, row, stack, outcome>>, faults \subseteq faults',
         late' \in [calls : [Calls -> 0..MaxLate], finalize : SUBSET Statuses],
         late'.finalize = late.finalize,
         calls' = [c \in DOMAIN calls' |-> [at |-> calls'[c].at, left |-> calls'[c].left]],
         DOMAIN calls' = DOMAIN calls, open' \subseteq Calls, RunningIsTrue'
  PROVE  IInv'
<1>1. TypeInv' /\ StackInv'  BY DEF IInv, TypeInv, StackInv
<1>2. EndInv'  BY DEF IInv, EndInv, Undisturbed
<1>3. LogInv'  BY DEF IInv, LogInv, In, Top
<1> QED BY <1>1, <1>2, <1>3 DEF IInv

LEMMA AttemptStep ==
  ASSUME IInv, NEW c \in Calls,
         Attempt(c) \/ AttemptEnds(c) \/ LateEnds(c) \/ AttemptTimesOut(c) \/ AttemptDies(c)
  PROVE  IInv'
<1>1. /\ late \in [calls : [Calls -> 0..MaxLate], finalize : SUBSET Statuses]
      /\ calls = [d \in DOMAIN calls |-> [at |-> calls[d].at, left |-> calls[d].left]]
      /\ open \subseteq Calls
      /\ "dead" \notin faults => \A d \in open : Running(d) \/ late.calls[d] > 0
  BY DEF IInv, TypeInv, LogInv, RunningIsTrue
<1>2. ASSUME NEW at, NEW left, c \in DOMAIN calls,
             calls' = [calls EXCEPT ![c] = [at |-> at, left |-> left]]
      PROVE  /\ calls' = [d \in DOMAIN calls' |-> [at |-> calls'[d].at, left |-> calls'[d].left]]
             /\ DOMAIN calls' = DOMAIN calls /\ calls'[c].at = at
             /\ \A d : d # c => (Running(d)' <=> Running(d))
  <2>1. DOMAIN calls' = DOMAIN calls  BY <1>1, <1>2
  <2>2. \A d \in DOMAIN calls : calls'[d] = IF d = c THEN [at |-> at, left |-> left] ELSE calls[d]
    BY <1>1, <1>2
  <2>3. \A d \in DOMAIN calls : calls'[d] = [at |-> calls'[d].at, left |-> calls'[d].left]
    BY <1>1, <2>2
  <2>4. calls' = [d \in DOMAIN calls |-> calls'[d]]  BY <1>1, <1>2
  <2>5. calls' = [d \in DOMAIN calls' |-> [at |-> calls'[d].at, left |-> calls'[d].left]]
    BY <2>1, <2>3, <2>4
  <2>6. calls'[c].at = at  BY <1>2, <2>2
  <2>7. \A d : d # c => (Running(d)' <=> Running(d))  BY <2>1, <2>2 DEF Running
  <2> QED BY <2>1, <2>5, <2>6, <2>7
<1>3. ASSUME NEW at, c \in DOMAIN calls, calls' = [calls EXCEPT ![c].at = at]
      PROVE  /\ calls' = [d \in DOMAIN calls' |-> [at |-> calls'[d].at, left |-> calls'[d].left]]
             /\ DOMAIN calls' = DOMAIN calls
             /\ \A d : d # c => (Running(d)' <=> Running(d))
  <2> DEFINE left == calls[c].left
  <2>1. calls[c] = [at |-> calls[c].at, left |-> left]  BY <1>1, <1>3
  <2>2. [calls[c] EXCEPT !.at = at] = [at |-> at, left |-> left]  BY <2>1
  <2>3. [calls EXCEPT ![c].at = at] = [calls EXCEPT ![c] = [calls[c] EXCEPT !.at = at]]  OBVIOUS
  <2>4. calls' = [calls EXCEPT ![c] = [at |-> at, left |-> left]]  BY <1>3, <2>2, <2>3, Zenon
  <2> HIDE DEF left
  <2> QED BY <1>2, <1>3, <2>4
<1>4. CASE Attempt(c)
  <2>1. /\ c \in DOMAIN calls /\ calls' = [calls EXCEPT ![c] = [at |-> "running", left |-> calls[c].left - 1]]
        /\ open' = open \cup {c} /\ UNCHANGED <<api, row, stack, outcome, late, faults>>
    BY <1>4 DEF Attempt
  <2>2. Running(c)'  BY <1>2, <2>1 DEF Running
  <2>3. RunningIsTrue'  BY <1>1, <1>2, <2>1, <2>2 DEF RunningIsTrue
  <2> QED BY <1>1, <1>2, <2>1, <2>3, LogStep
<1>5. CASE AttemptEnds(c)
  <2>1. /\ c \in DOMAIN calls /\ open' = open \ {c}
        /\ UNCHANGED <<api, row, stack, outcome, late, faults>>
    BY <1>5 DEF AttemptEnds, Running
  <2>2. PICK at : calls' = [calls EXCEPT ![c].at = at]  BY <1>5 DEF AttemptEnds, Again
  <2>3. /\ calls' = [d \in DOMAIN calls' |-> [at |-> calls'[d].at, left |-> calls'[d].left]]
        /\ DOMAIN calls' = DOMAIN calls /\ \A d : d # c => (Running(d)' <=> Running(d))
    BY <1>3, <2>1, <2>2
  <2>4. RunningIsTrue'  BY <1>1, <2>1, <2>3 DEF RunningIsTrue
  <2> QED BY <1>1, <2>1, <2>3, <2>4, LogStep
<1>6. CASE LateEnds(c)
  <2>1. /\ late' = [late EXCEPT !.calls[c] = @ - 1] /\ late.calls[c] > 0 /\ open' = open \ {c}
        /\ UNCHANGED <<api, row, stack, outcome, calls, faults>>
    BY <1>6 DEF LateEnds
  <2>2. late.calls[c] - 1 \in 0..MaxLate  BY <1>1, <2>1, WorkflowAssumption
  <2>3. /\ late' \in [calls : [Calls -> 0..MaxLate], finalize : SUBSET Statuses]
        /\ late'.finalize = late.finalize
        /\ \A d \in Calls : d # c => late'.calls[d] = late.calls[d]
    BY <1>1, <2>1, <2>2
  <2>4. RunningIsTrue'  BY <1>1, <2>1, <2>3 DEF RunningIsTrue, Running
  <2> QED BY <1>1, <2>1, <2>3, <2>4, LogStep
<1>7. CASE AttemptTimesOut(c)
  <2>1. /\ c \in DOMAIN calls /\ faults \subseteq faults' /\ late' = [late EXCEPT !.calls[c] = Lingers(c)]
        /\ UNCHANGED <<api, row, stack, outcome, open>>
    BY <1>7, FaultIsKept DEF AttemptTimesOut, Running
  <2>2. PICK at : calls' = [calls EXCEPT ![c].at = at]  BY <1>7 DEF AttemptTimesOut, Again
  <2>3. /\ calls' = [d \in DOMAIN calls' |-> [at |-> calls'[d].at, left |-> calls'[d].left]]
        /\ DOMAIN calls' = DOMAIN calls /\ \A d : d # c => (Running(d)' <=> Running(d))
    BY <1>3, <2>1, <2>2
  <2>4. Lingers(c) \in 1..MaxLate  BY <1>1, WorkflowAssumption DEF Lingers
  <2>5. /\ late' \in [calls : [Calls -> 0..MaxLate], finalize : SUBSET Statuses]
        /\ late'.finalize = late.finalize /\ late'.calls[c] > 0
        /\ \A d \in Calls : d # c => late'.calls[d] = late.calls[d]
    BY <1>1, <2>1, <2>4
  <2>6. RunningIsTrue'  BY <1>1, <2>1, <2>3, <2>5 DEF RunningIsTrue
  <2> QED BY <1>1, <2>1, <2>3, <2>5, <2>6, LogStep
<1>8. CASE AttemptDies(c)
  <2>1. /\ c \in DOMAIN calls /\ faults \subseteq faults' /\ "dead" \in faults'
        /\ UNCHANGED <<api, row, stack, outcome, late, open>>
    BY <1>8, FaultIsKept DEF AttemptDies, Running, logVars
  <2>2. PICK at : calls' = [calls EXCEPT ![c].at = at]  BY <1>8 DEF AttemptDies, Again
  <2>3. /\ calls' = [d \in DOMAIN calls' |-> [at |-> calls'[d].at, left |-> calls'[d].left]]
        /\ DOMAIN calls' = DOMAIN calls
    BY <1>3, <2>1, <2>2
  <2>4. RunningIsTrue'  BY <2>1 DEF RunningIsTrue
  <2> QED BY <1>1, <2>1, <2>3, <2>4, LogStep
<1> QED BY <1>4, <1>5, <1>6, <1>7, <1>8

LEMMA IInvStep == ASSUME IInv, [Next]_vars PROVE IInv'
<1>1. CASE UNCHANGED <<api, row, stack, outcome, calls, late, open, faults>>
  BY <1>1, LogStep, StillTrue DEF IInv, TypeInv, LogInv
<1>2. CASE Execute
  <2>1. CASE \E c \in Calls : Attempt(c) \/ AttemptEnds(c) \/ LateEnds(c)  BY <2>1, AttemptStep
  <2> QED BY <1>2, <2>1, BeginStep, JoinStep, IterateStep, DecideStep, FinishStep, FinalizeStep,
             FinalizeLateStep, CheckStep, WakeStep DEF Execute
<1>3. CASE \E a \in Approvals, decision \in {"approved", "rejected"} : Approve(a, decision)
  BY <1>3, ApproveStep
<1>4. CASE \E c \in Calls : AttemptTimesOut(c) \/ AttemptDies(c)  BY <1>4, AttemptStep
<1>5. CASE Switch \/ UNCHANGED vars  BY <1>1, <1>5 DEF Switch, vars, logVars
<1> QED BY <1>2, <1>3, <1>4, <1>5, StartStep, AnswerStep, FinalizeStep, FinalizeLateStep DEF Next

-----------------------------------------------------------------------------
(* The row of a run that is over has what the run returned ("completed" for a
   chain that the kill-switch stopped), unless the answer to its start or a
   write of a status was lost: through any nesting of
   iterations that finalize the same row, retries, and chains of the workflow
   with itself (dynamic_executor.py run, dynamic_step.py finalize_workflow_run). *)
THEOREM EndAlwaysRecorded == Spec => []EndIsRecorded
<1>1. IInv => EndIsRecorded  BY DEF IInv, EndInv, Undisturbed, EndIsRecorded
<1> QED BY <1>1, IInvInit, IInvStep, PTL DEF Spec

(* A log row says "running" only while an attempt of its step runs, however
   many attempts of how many calls overlap, unless a worker died
   (dynamic_step.py execute_dynamic_step, _log_step). *)
THEOREM RunningAlwaysTrue == Spec => []RunningIsTrue
<1>1. IInv => RunningIsTrue  BY DEF IInv, LogInv
<1> QED BY <1>1, IInvInit, IInvStep, PTL DEF Spec
===============================================================================
