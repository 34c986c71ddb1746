--------------------------- MODULE ChatJobs_proofs ---------------------------
(* A chat job runs once, its row follows the lifecycle and seals its log,   *)
(* and a cancel before its "done" event is honoured, for every number of    *)
(* jobs, workers and readers.                                               *)
EXTENDS ChatJobs, TLAPS

RowStates == {"none", "queued", "running", "gone"} \cup JobTerminal

\* The statements before the turn is handed to post_user_message.
Early == {"bail1", "started", "session", "bail2", "post"}

(* The inductive invariant.  Owned makes finish_job's lax guard harmless; *)
(* Unposted and Fresh carry the count of replies from the row's creation  *)
(* to the one call of post_user_message.                                  *)
RowType  == /\ status \in [Jobs -> RowStates]
            /\ replies \in [Jobs -> {0, 1}]
            /\ pc \in [Workers -> States]
Owned    == \A w \in Workers : pc[w] \in Body => status[WorkerJob[w]] \notin {"none", "queued"}
Alone    == \A v, w \in Workers :
              WorkerJob[v] = WorkerJob[w] /\ pc[v] \in Body /\ pc[w] \in Body => v = w
Unposted == \A w \in Workers : pc[w] \in Early => replies[WorkerJob[w]] = 0
Fresh    == \A j \in Jobs : status[j] \in {"none", "queued"} => replies[j] = 0
IInv     == RowType /\ Owned /\ Alone /\ Unposted /\ Fresh

USE ChatJobsAssumption

LEMMA Statements ==
    /\ Early \subseteq Body /\ Body \subseteq States
    /\ {"skipped", "returned", "dead", "idle", "start"} \subseteq States
    /\ {"skipped", "returned", "dead", "idle", "start"} \cap Body = {}
    /\ \A a \in Appends : /\ a[1] \in Body /\ a[3] \in Body
                          /\ a[3] \in Early => a[1] \in Early
    /\ \A b \in Bails : /\ b \in Body /\ AfterBail[b] \in Body
                        /\ AfterBail[b] \in Early => b \in Early
BY DEF Early, Body, Bails, States, Ended, Appends, BailAppends, TurnAppends, ErrorAppends, AfterBail

LEMMA RowStatesFacts ==
    /\ JobTerminal \subseteq RowStates /\ {"none", "queued", "running", "gone"} \subseteq RowStates
    /\ JobTerminal \cap {"none", "queued", "running", "gone"} = {}
BY DEF RowStates, JobTerminal

\* A step that starts no run and hands no turn over keeps the invariant, as
\* long as no row goes back to the queue.
LEMMA Quiet ==
    ASSUME IInv, replies' = replies,
           status' \in [Jobs -> RowStates], pc' \in [Workers -> States],
           \A j \in Jobs : status'[j] \in {"none", "queued"} => status[j] \in {"none", "queued"},
           \A w \in Workers : /\ pc'[w] \in Body => pc[w] \in Body
                              /\ pc'[w] \in Early => pc[w] \in Early
    PROVE  IInv'
<1>1. RowType' /\ Unposted' /\ Fresh'
    BY DEF IInv, RowType, Unposted, Fresh
<1>2. Owned' /\ Alone'
    BY DEF IInv, Owned, Alone
<1> QED
    BY <1>1, <1>2 DEF IInv

\* Only one worker moves, within the body or out of it.
LEMMA Moves ==
    ASSUME IInv, NEW w \in Workers, NEW next \in States, pc' = [pc EXCEPT ![w] = next],
           next \in Body => pc[w] \in Body, next \in Early => pc[w] \in Early,
           replies' = replies, status' \in [Jobs -> RowStates],
           \A j \in Jobs : status'[j] \in {"none", "queued"} => status[j] \in {"none", "queued"}
    PROVE  IInv'
<1>1. pc \in [Workers -> States]
    BY DEF IInv, RowType
<1>2. pc' \in [Workers -> States]
    BY <1>1
<1>3. \A v \in Workers : /\ pc'[v] \in Body => pc[v] \in Body
                         /\ pc'[v] \in Early => pc[v] \in Early
    BY <1>1
<1> QED
    BY <1>2, <1>3, Quiet

\* The winner of the queued row is the only worker in the body.
LEMMA Wins ==
    ASSUME IInv, NEW w \in Workers, status[WorkerJob[w]] = "queued",
           status' = [status EXCEPT ![WorkerJob[w]] = "running"],
           pc' = [pc EXCEPT ![w] = "bail1"], replies' = replies
    PROVE  IInv'
<1>0. WorkerJob[w] \in Jobs
    OBVIOUS
<1>1. "bail1" \in Body /\ "bail1" \in States /\ "running" \in RowStates
    BY Statements, RowStatesFacts DEF Body, Bails
<1>2. \A v \in Workers : WorkerJob[v] = WorkerJob[w] => pc[v] \notin Body
    BY DEF IInv, Owned
<1>3. RowType'
    BY <1>0, <1>1 DEF IInv, RowType
<1>4. \A v \in Workers : pc'[v] = IF v = w THEN "bail1" ELSE pc[v]
    BY DEF IInv, RowType
<1>5. \A j \in Jobs : status'[j] = IF j = WorkerJob[w] THEN "running" ELSE status[j]
    BY <1>0 DEF IInv, RowType
<1>6. Owned' /\ Alone'
    BY <1>2, <1>4, <1>5 DEF IInv, Owned, Alone
<1>7. replies[WorkerJob[w]] = 0
    BY <1>0 DEF IInv, Fresh
<1>8. Unposted'
    BY <1>4, <1>7 DEF IInv, Unposted
<1>9. Fresh'
    BY <1>5 DEF IInv, Fresh
<1> QED
    BY <1>3, <1>6, <1>8, <1>9 DEF IInv

\* The turn is handed over by the one worker that has not done so.
LEMMA Posts ==
    ASSUME IInv, NEW w \in Workers, NEW next \in States \ Early, pc[w] = "post",
           pc' = [pc EXCEPT ![w] = next], status' = status,
           replies' = [replies EXCEPT ![WorkerJob[w]] = @ + 1]
    PROVE  IInv'
<1>0. WorkerJob[w] \in Jobs /\ "post" \in Early /\ "post" \in Body
    BY DEF Early, Body
<1>1. replies[WorkerJob[w]] = 0
    BY <1>0 DEF IInv, Unposted
<1>2. \A v \in Workers : pc'[v] = IF v = w THEN next ELSE pc[v]
    BY DEF IInv, RowType
<1>3. \A j \in Jobs : replies'[j] = IF j = WorkerJob[w] THEN 1 ELSE replies[j]
    BY <1>0, <1>1 DEF IInv, RowType
<1>4. RowType'
    BY <1>0, <1>1 DEF IInv, RowType
<1>5. Owned' /\ Alone'
    BY <1>0, <1>2 DEF IInv, Owned, Alone
<1>6. \A v \in Workers : v # w /\ pc[v] \in Early => WorkerJob[v] # WorkerJob[w]
    BY <1>0, Statements DEF IInv, Alone
<1>7. Unposted'
    BY <1>2, <1>3, <1>6 DEF IInv, Unposted
<1>8. status[WorkerJob[w]] \notin {"none", "queued"}
    BY <1>0 DEF IInv, Owned
<1>9. Fresh'
    BY <1>3, <1>8 DEF IInv, Fresh
<1> QED
    BY <1>4, <1>5, <1>7, <1>9 DEF IInv

\* A status written by a worker or a watcher settles the row or leaves it.
LEMMA StatusWritten ==
    ASSUME IInv, NEW j \in Jobs, NEW s \in JobTerminal, SetStatus(j, s)
    PROVE  /\ status' \in [Jobs -> RowStates]
           /\ \A k \in Jobs : status'[k] \in {"none", "queued"} => status[k] \in {"none", "queued"}
<1>1. status \in [Jobs -> RowStates] /\ s \in RowStates /\ s \notin {"none", "queued"}
    BY RowStatesFacts DEF IInv, RowType
<1>2. CASE status' = status
    BY <1>1, <1>2
<1>3. CASE status' = [status EXCEPT ![j] = s]
    BY <1>1, <1>3
<1> QED
    BY <1>2, <1>3 DEF SetStatus

LEMMA InitIInv == Init => IInv
<1> SUFFICES ASSUME Init PROVE IInv
    OBVIOUS
<1>1. RowType
    BY Statements, RowStatesFacts DEF Init, RowType
<1>2. \A w \in Workers : pc[w] \notin Body /\ pc[w] \notin Early
    BY Statements DEF Init
<1>3. Owned /\ Alone /\ Unposted /\ Fresh
    BY <1>2 DEF Init, Owned, Alone, Unposted, Fresh
<1> QED
    BY <1>1, <1>3 DEF IInv

LEMMA RowStepIInv ==
    ASSUME IInv, NEW j \in Jobs, CreateJob(j) \/ CancelJob(j) \/ WatchFail(j) \/ DeleteRow(j)
    PROVE  IInv'
<1>0. /\ status \in [Jobs -> RowStates] /\ pc \in [Workers -> States]
      /\ {"queued", "cancelled", "failed", "gone"} \subseteq RowStates
    BY RowStatesFacts DEF IInv, RowType, JobTerminal
<1>1. CASE CreateJob(j)
    <2>1. /\ status' \in [Jobs -> RowStates]
          /\ \A k \in Jobs : status'[k] \in {"none", "queued"} => status[k] \in {"none", "queued"}
        BY <1>0, <1>1 DEF CreateJob
    <2> QED
        BY <1>0, <1>1, <2>1, Quiet DEF CreateJob
<1>2. CASE CancelJob(j)
    <2>1. /\ status' \in [Jobs -> RowStates]
          /\ \A k \in Jobs : status'[k] \in {"none", "queued"} => status[k] \in {"none", "queued"}
        BY <1>0, <1>2 DEF CancelJob
    <2> QED
        BY <1>0, <1>2, <2>1, Quiet DEF CancelJob
<1>3. CASE WatchFail(j)
    <2>1. SetStatus(j, "failed") /\ "failed" \in JobTerminal
        BY <1>3 DEF WatchFail, JobTerminal
    <2> QED
        BY <1>0, <1>3, <2>1, StatusWritten, Quiet DEF WatchFail
<1>4. CASE DeleteRow(j)
    <2>1. /\ status' \in [Jobs -> RowStates]
          /\ \A k \in Jobs : status'[k] \in {"none", "queued"} => status[k] \in {"none", "queued"}
        BY <1>0, <1>4 DEF DeleteRow
    <2> QED
        BY <1>0, <1>4, <2>1, Quiet DEF DeleteRow
<1> QED
    BY <1>1, <1>2, <1>3, <1>4

LEMMA WorkerStepIInv ==
    ASSUME IInv, NEW w \in Workers, Worker(w) \/ DatabaseError(w)
    PROVE  IInv'
<1>0. /\ status \in [Jobs -> RowStates] /\ pc \in [Workers -> States] /\ WorkerJob[w] \in Jobs
      /\ pc[w] \in States
    BY DEF IInv, RowType
<1>1. CASE Dispatch(w)
    <2>1. "start" \in States /\ "start" \notin Body /\ "start" \notin Early
        BY Statements
    <2> QED
        BY <1>0, <1>1, <2>1, Moves DEF Dispatch, Goto, rowVars
<1>2. CASE StartJob(w)
    <2>1. CASE status[WorkerJob[w]] = "queued"
        BY <1>2, <2>1, Wins DEF StartJob, Goto
    <2>2. CASE status[WorkerJob[w]] # "queued"
        <3>1. "skipped" \in States /\ "skipped" \notin Body /\ "skipped" \notin Early
            BY Statements
        <3> QED
            BY <1>0, <1>2, <2>2, <3>1, Moves DEF StartJob, Goto
    <2> QED
        BY <2>1, <2>2
<1>3. CASE ReadCancelFlag(w)
    <2>1. /\ pc[w] \in Body /\ AfterBail[pc[w]] \in Body
          /\ AfterBail[pc[w]] \in Early => pc[w] \in Early
          /\ "logCancelled" \in Body /\ "logCancelled" \notin Early
        BY <1>3, Statements DEF ReadCancelFlag, Body, Early
    <2>2. CASE cancelReq[WorkerJob[w]]
        BY <1>0, <1>3, <2>1, <2>2, Moves, Statements DEF ReadCancelFlag, Goto, rowVars
    <2>3. CASE ~cancelReq[WorkerJob[w]]
        BY <1>0, <1>3, <2>1, <2>3, Moves, Statements DEF ReadCancelFlag, Goto, rowVars
    <2> QED
        BY <2>2, <2>3
<1>4. ASSUME NEW s \in JobTerminal, SetStatus(WorkerJob[w], s), Goto(w, "returned"),
             replies' = replies
      PROVE  IInv'
    <2>1. "returned" \in States /\ "returned" \notin Body /\ "returned" \notin Early
        BY Statements
    <2> QED
        BY <1>0, <1>4, <2>1, StatusWritten, Moves DEF Goto
<1>5. CASE ObserveCancel(w)
    BY <1>4, <1>5 DEF ObserveCancel, JobTerminal
<1>6. CASE FinishJob(w)
    BY <1>4, <1>6 DEF FinishJob, JobTerminal
<1>7. CASE FailJob(w)
    BY <1>4, <1>7 DEF FailJob, JobTerminal
<1>8. CASE LogEvent(w)
    <2>1. PICK a \in Appends : pc[w] = a[1] /\ Goto(w, a[3]) /\ status' = status /\ replies' = replies
        BY <1>8 DEF LogEvent
    <2>2. a[3] \in States /\ pc[w] \in Body /\ (a[3] \in Early => pc[w] \in Early)
        BY <2>1, Statements
    <2> QED
        BY <1>0, <2>1, <2>2, Moves DEF Goto
<1>9. ASSUME Goto(w, "returned"), status' = status, replies' = replies
      PROVE  IInv'
    <2>1. "returned" \in States /\ "returned" \notin Body /\ "returned" \notin Early
        BY Statements
    <2> QED
        BY <1>0, <1>9, <2>1, Moves DEF Goto
<1>10. CASE LogRefused(w)
    BY <1>9, <1>10 DEF LogRefused, rowVars
<1>11. CASE GetSession(w)
    <2>1. PICK next \in {"bail2", "vanished"} : Goto(w, next)
        BY <1>11 DEF GetSession
    <2>2. /\ next \in States /\ pc[w] \in Body /\ pc[w] \in Early
          /\ status' = status /\ replies' = replies
        BY <1>11, <2>1 DEF GetSession, Body, Bails, Early, States, rowVars
    <2> QED
        BY <1>0, <2>1, <2>2, Moves DEF Goto
<1>12. CASE PostUserMessage(w)
    <2>1. PICK next \in {"bail3", "logError"} : Goto(w, next)
        BY <1>12 DEF PostUserMessage
    <2>2. next \in States \ Early
        BY <2>1 DEF States, Body, Bails, Early
    <2> QED
        BY <1>12, <2>1, <2>2, Posts DEF PostUserMessage, Goto, rowVars
<1>13. CASE DatabaseError(w)
    <2>1. "returned" \in States \ Early
        BY Statements
    <2>2. CASE pc[w] = "post"
        BY <1>13, <2>1, <2>2, Posts DEF DatabaseError, Goto, rowVars
    <2>3. CASE pc[w] # "post"
        BY <1>9, <1>13, <2>3 DEF DatabaseError, rowVars
    <2> QED
        BY <2>2, <2>3
<1> QED
    BY <1>1, <1>2, <1>3, <1>5, <1>6, <1>7, <1>8, <1>10, <1>11, <1>12, <1>13 DEF Worker

LEMMA NextIInv == IInv /\ [Next]_vars => IInv'
<1> SUFFICES ASSUME IInv, [Next]_vars PROVE IInv'
    OBVIOUS
<1>0. /\ status \in [Jobs -> RowStates] /\ pc \in [Workers -> States]
    BY DEF IInv, RowType
<1>1. ASSUME rowVars' = rowVars, replies' = replies, pc' = pc
      PROVE  IInv'
    BY <1>0, <1>1, Quiet DEF rowVars
<1>2. CASE \E j \in Jobs : CreateJob(j) \/ CancelJob(j) \/ WatchFail(j) \/ DeleteRow(j)
    BY <1>2, RowStepIInv
<1>3. CASE \E w \in Workers : Worker(w) \/ DatabaseError(w)
    BY <1>3, WorkerStepIInv
<1>4. CASE Crash
    <2>1. /\ pc' \in [Workers -> States] /\ status' = status /\ replies' = replies
          /\ \A w \in Workers : /\ pc'[w] \in Body => pc[w] \in Body
                                /\ pc'[w] \in Early => pc[w] \in Early
        BY <1>0, <1>4, Statements DEF Crash, rowVars
    <2>2. /\ status' \in [Jobs -> RowStates]
          /\ \A j \in Jobs : status'[j] \in {"none", "queued"} => status[j] \in {"none", "queued"}
        BY <1>0, <2>1
    <2> QED
        BY <2>1, <2>2, Quiet
<1>5. CASE \E r \in Readers : Server(r) \/ Client(r) \/ DropStream(r)
    BY <1>1, <1>5 DEF Server, Client, OpenStream, NotFound, ReadEvents, CheckStatus, Receive,
                      StreamEnds, DropStream
<1>6. CASE vars' = vars
    BY <1>1, <1>6 DEF vars
<1> QED
    BY <1>2, <1>3, <1>4, <1>5, <1>6 DEF Next

THEOREM Invariance == Spec => []IInv
BY InitIInv, NextIInv, PTL DEF Spec

(* The ownership guard holds up: however often, and by however many workers, *)
(* a job is dispatched, one call at most is in the body of run_job_blocking  *)
(* and the turn is handed to post_user_message at most once.                 *)
THEOREM SpecRunsOnce == Spec => []RunsOnce
<1>1. IInv => RunsOnce
    <2> SUFFICES ASSUME IInv PROVE RunsOnce
        OBVIOUS
    <2>1. \A j \in Jobs : replies[j] \in {0, 1}
        BY DEF IInv, RowType
    <2>2. \A j \in Jobs : replies[j] <= 1
        BY <2>1
    <2> QED
        BY <2>2 DEF RunsOnce, IInv, Alone
<1> QED
    BY <1>1, Invariance, PTL

-----------------------------------------------------------------------------
(* The rows refine JobLifecycle: every step writes one row along an edge of *)
(* the lifecycle, or none.                                                  *)

LEMMA Settling ==
    ASSUME IInv, NEW j \in Jobs, NEW s \in JobTerminal, SetStatus(j, s),
           status[j] # "queued" \/ s \in {"failed", "cancelled"}
    PROVE  [Row!Next]_status
<1>1. CASE Open(j)
    BY <1>1 DEF SetStatus, Open, Row!Next, Row!Withdraw, Row!Settle, Row!Becomes, Row!Terminal,
                JobTerminal
<1>2. CASE ~Open(j)
    BY <1>2 DEF SetStatus
<1> QED
    BY <1>1, <1>2

LEMMA RowStepRefines ==
    ASSUME IInv, NEW j \in Jobs, CreateJob(j) \/ CancelJob(j) \/ WatchFail(j) \/ DeleteRow(j)
    PROVE  [Row!Next]_status
<1>1. CASE CreateJob(j)
    BY <1>1 DEF CreateJob, Row!Next, Row!Create, Row!Becomes
<1>2. CASE CancelJob(j)
    BY <1>2 DEF CancelJob, Row!Next, Row!Withdraw, Row!Becomes
<1>3. CASE WatchFail(j)
    BY <1>3, Settling DEF WatchFail, JobTerminal
<1>4. CASE DeleteRow(j)
    BY <1>4 DEF DeleteRow, Row!Next, Row!Delete, Row!Becomes
<1> QED
    BY <1>1, <1>2, <1>3, <1>4

LEMMA WorkerStepRefines ==
    ASSUME IInv, NEW w \in Workers, Worker(w) \/ DatabaseError(w)
    PROVE  [Row!Next]_status
<1>0. WorkerJob[w] \in Jobs
    OBVIOUS
<1>1. ASSUME pc[w] \in Body PROVE status[WorkerJob[w]] # "queued"
    BY <1>1 DEF IInv, Owned
<1>2. CASE StartJob(w)
    BY <1>0, <1>2 DEF StartJob, Row!Next, Row!Start, Row!Becomes
<1>3. CASE ObserveCancel(w)
    BY <1>0, <1>3, Settling DEF ObserveCancel, JobTerminal
<1>4. CASE FinishJob(w)
    <2>1. status[WorkerJob[w]] # "queued"
        BY <1>1, <1>4 DEF FinishJob, Body
    <2> QED
        BY <1>0, <1>4, <2>1, Settling DEF FinishJob, JobTerminal
<1>5. CASE FailJob(w)
    BY <1>0, <1>5, Settling DEF FailJob, JobTerminal
<1>6. CASE \/ Dispatch(w) \/ ReadCancelFlag(w) \/ LogEvent(w) \/ LogRefused(w) \/ GetSession(w)
           \/ PostUserMessage(w) \/ DatabaseError(w)
    BY <1>6 DEF Dispatch, ReadCancelFlag, LogEvent, LogRefused, GetSession, PostUserMessage,
                DatabaseError, rowVars
<1> QED
    BY <1>2, <1>3, <1>4, <1>5, <1>6 DEF Worker

(* Every status change is one the lifecycle allows, whichever of the worker, *)
(* the cancel endpoint, the watchers and a deletion comes first.             *)
THEOREM SpecLifecycleRefined == Spec => LifecycleRefined
<1>1. Init => Row!Init
    BY DEF Init, Row!Init
<1>2. IInv /\ [Next]_vars => [Row!Next]_status
    <2> SUFFICES ASSUME IInv, [Next]_vars PROVE [Row!Next]_status
        OBVIOUS
    <2>1. CASE \E j \in Jobs : CreateJob(j) \/ CancelJob(j) \/ WatchFail(j) \/ DeleteRow(j)
        BY <2>1, RowStepRefines
    <2>2. CASE \E w \in Workers : Worker(w) \/ DatabaseError(w)
        BY <2>2, WorkerStepRefines
    <2>3. CASE Crash
        BY <2>3 DEF Crash, rowVars
    <2>4. CASE \E r \in Readers : Server(r) \/ Client(r) \/ DropStream(r)
        BY <2>4 DEF Server, Client, OpenStream, NotFound, ReadEvents, CheckStatus, Receive,
                    StreamEnds, DropStream, rowVars
    <2>5. CASE vars' = vars
        BY <2>5 DEF vars, rowVars
    <2> QED
        BY <2>1, <2>2, <2>3, <2>4, <2>5 DEF Next
<1> QED
    BY <1>1, <1>2, Invariance, PTL DEF Spec, LifecycleRefined, Row!Spec

-----------------------------------------------------------------------------
(* The log is sealed by the status: the row of a job in the body is running, *)
(* unless it was deleted or its watcher gave it up.                          *)

Held(j) == status[j] \in {"running", "gone"} \/ (status[j] = "failed" /\ j \in Watched)
Working == \A w \in Workers : pc[w] \in Body => Held(WorkerJob[w])
SealInv == Working /\ log = [j \in Jobs |-> log[j]]

\* Workers come into the body by winning a row only.
LEMMA WorkingStays ==
    ASSUME Working, \A j \in Jobs : Held(j) => Held(j)',
           \A w \in Workers : pc'[w] \in Body => pc[w] \in Body
    PROVE  Working'
BY DEF Working

\* What settles the row is the last statement of the only worker in the body.
LEMMA SettlesLast ==
    ASSUME IInv, Working, NEW w \in Workers, pc[w] \in Body, NEW s \in JobTerminal,
           SetStatus(WorkerJob[w], s), pc' = [pc EXCEPT ![w] = "returned"]
    PROVE  Working'
<1>1. WorkerJob[w] \in Jobs /\ "returned" \notin Body
    BY Statements
<1>2. \A j \in Jobs : j # WorkerJob[w] => status'[j] = status[j]
    BY <1>1 DEF SetStatus, IInv, RowType
<1>3. ASSUME NEW v \in Workers, pc'[v] \in Body PROVE Held(WorkerJob[v])'
    <2>1. v # w /\ pc[v] \in Body
        BY <1>1, <1>3 DEF IInv, RowType
    <2>2. WorkerJob[v] # WorkerJob[w] /\ WorkerJob[v] \in Jobs
        BY <2>1 DEF IInv, Alone
    <2>3. status'[WorkerJob[v]] = status[WorkerJob[v]] /\ Held(WorkerJob[v])
        BY <2>1, <2>2, <1>2 DEF Working
    <2> QED
        BY <2>3 DEF Held
<1> QED
    BY <1>3 DEF Working

LEMMA RowStepSeals ==
    ASSUME IInv, SealInv, NEW j \in Jobs, CreateJob(j) \/ CancelJob(j) \/ WatchFail(j) \/ DeleteRow(j)
    PROVE  /\ SealInv'
           /\ \A k \in Jobs : log'[k] = log[k] \/ status'[k] = "gone"
<1>1. /\ \A k \in Jobs : k # j => status'[k] = status[k]
      /\ Held(j) => status'[j] \in {status[j], "gone"} \/ (status'[j] = "failed" /\ j \in Watched)
    BY DEF IInv, RowType, CreateJob, CancelJob, WatchFail, SetStatus, DeleteRow, Open, Held
<1>2. pc' = pc
    BY DEF CreateJob, CancelJob, WatchFail, DeleteRow
<1>3. Working'
    BY <1>1, <1>2, WorkingStays DEF SealInv, Held
<1>4. CASE log' = log
    BY <1>3, <1>4 DEF SealInv
<1>5. CASE DeleteRow(j)
    BY <1>3, <1>5 DEF SealInv, DeleteRow, IInv, RowType
<1> QED
    BY <1>4, <1>5 DEF CreateJob, CancelJob, WatchFail

LEMMA WorkerStepSeals ==
    ASSUME IInv, SealInv, NEW w \in Workers, Worker(w) \/ DatabaseError(w)
    PROVE  /\ SealInv'
           /\ \A j \in Jobs : log'[j] = log[j] \/ (Held(j) /\ status[j] # "gone")
<1>0. WorkerJob[w] \in Jobs /\ pc \in [Workers -> States]
    BY DEF IInv, RowType
<1>1. ASSUME NEW next \in States, next \in Body => pc[w] \in Body, Goto(w, next), status' = status
      PROVE  Working'
    <2>1. \A v \in Workers : pc'[v] \in Body => pc[v] \in Body
        BY <1>0, <1>1 DEF Goto
    <2> QED
        BY <1>1, <2>1, WorkingStays DEF SealInv, Held
<1>2. CASE StartJob(w)
    <2>1. CASE status[WorkerJob[w]] = "queued"
        <3>1. /\ status' = [status EXCEPT ![WorkerJob[w]] = "running"]
              /\ pc' = [pc EXCEPT ![w] = "bail1"] /\ log' = log
            BY <1>2, <2>1 DEF StartJob, Goto
        <3>2. \A v \in Workers : pc'[v] \in Body => v = w \/ pc[v] \in Body
            BY <3>1, <1>0
        <3>3. \A j \in Jobs : status'[j] = IF j = WorkerJob[w] THEN "running" ELSE status[j]
            BY <3>1, <1>0 DEF IInv, RowType
        <3> QED
            BY <3>1, <3>2, <3>3, <1>0 DEF SealInv, Working, Held
    <2>2. CASE status[WorkerJob[w]] # "queued"
        <3>1. Goto(w, "skipped") /\ status' = status /\ log' = log /\ "skipped" \in States
            BY <1>2, <2>2, Statements DEF StartJob
        <3> QED
            BY <3>1, <1>1, Statements DEF SealInv
    <2> QED
        BY <2>1, <2>2
<1>3. CASE ObserveCancel(w) \/ FinishJob(w) \/ FailJob(w)
    <2>1. /\ pc[w] \in Body /\ pc' = [pc EXCEPT ![w] = "returned"] /\ log' = log
          /\ \E s \in JobTerminal : SetStatus(WorkerJob[w], s)
        BY <1>3 DEF ObserveCancel, FinishJob, FailJob, Goto, Body, JobTerminal
    <2> QED
        BY <2>1, SettlesLast DEF SealInv
<1>4. CASE LogEvent(w)
    <2>1. PICK a \in Appends : /\ pc[w] = a[1] /\ status[WorkerJob[w]] # "gone"
                               /\ AppendEvent(WorkerJob[w], a[2]) /\ Goto(w, a[3]) /\ status' = status
        BY <1>4 DEF LogEvent
    <2>2. pc[w] \in Body /\ a[3] \in States
        BY <2>1, Statements
    <2>3. Held(WorkerJob[w])
        BY <2>2 DEF SealInv, Working
    <2>4. \A j \in Jobs : j # WorkerJob[w] => log'[j] = log[j]
        BY <2>1 DEF AppendEvent, SealInv
    <2>5. log' = [j \in Jobs |-> log'[j]]
        BY <2>1 DEF AppendEvent, SealInv
    <2>6. Working'
        BY <1>1, <2>1, <2>2
    <2> QED
        BY <2>1, <2>3, <2>4, <2>5, <2>6 DEF SealInv
<1>5. ASSUME status' = status, log' = log,
             \E next \in States : Goto(w, next) /\ (next \in Body => pc[w] \in Body)
      PROVE  /\ SealInv'
             /\ \A j \in Jobs : log'[j] = log[j]
    BY <1>1, <1>5 DEF SealInv
<1>6. CASE Dispatch(w) \/ LogRefused(w) \/ DatabaseError(w)
    <2>1. /\ status' = status /\ log' = log
          /\ Goto(w, "start") \/ Goto(w, "returned")
        BY <1>6 DEF Dispatch, LogRefused, DatabaseError, rowVars
    <2> QED
        BY <2>1, <1>5, Statements
<1>7. CASE ReadCancelFlag(w) \/ GetSession(w) \/ PostUserMessage(w)
    <2>1. /\ status' = status /\ log' = log /\ pc[w] \in Body
        BY <1>7 DEF ReadCancelFlag, GetSession, PostUserMessage, rowVars, Body
    <2>2. \E next \in States : Goto(w, next)
        <3>1. CASE ReadCancelFlag(w)
            <4>1. pc[w] \in Bails /\ "logCancelled" \in States /\ AfterBail[pc[w]] \in States
                BY <3>1, Statements DEF ReadCancelFlag, Body, States
            <4> QED
                BY <3>1, <4>1 DEF ReadCancelFlag
        <3>2. CASE GetSession(w)
            <4>1. PICK next \in {"bail2", "vanished"} : Goto(w, next)
                BY <3>2 DEF GetSession
            <4> QED
                BY <4>1 DEF States, Body, Bails
        <3>3. CASE PostUserMessage(w)
            <4>1. PICK next \in {"bail3", "logError"} : Goto(w, next)
                BY <3>3 DEF PostUserMessage
            <4> QED
                BY <4>1 DEF States, Body, Bails
        <3> QED
            BY <1>7, <3>1, <3>2, <3>3
    <2> QED
        BY <2>1, <2>2, <1>5
<1> QED
    BY <1>2, <1>3, <1>4, <1>6, <1>7 DEF Worker

\* All other steps leave rows and logs alone, and bring no worker into the body.
LEMMA RestSeals ==
    ASSUME IInv, SealInv,
           Crash \/ (\E r \in Readers : Server(r) \/ Client(r) \/ DropStream(r)) \/ vars' = vars
    PROVE  SealInv' /\ log' = log
<1>1. /\ status' = status /\ log' = log
      /\ \A w \in Workers : pc'[w] \in Body => pc[w] \in Body
    <2>1. CASE Crash
        BY <2>1, Statements DEF Crash, rowVars
    <2>2. CASE \E r \in Readers : Server(r) \/ Client(r) \/ DropStream(r)
        BY <2>2 DEF Server, Client, OpenStream, NotFound, ReadEvents, CheckStatus, Receive,
                    StreamEnds, DropStream, rowVars
    <2>3. CASE vars' = vars
        BY <2>3 DEF vars, rowVars
    <2> QED
        BY <2>1, <2>2, <2>3
<1>2. Working'
    BY <1>1, WorkingStays DEF SealInv, Held
<1> QED
    BY <1>1, <1>2 DEF SealInv

(* No log grows behind a terminal status, whatever cancels, deletions, faults *)
(* and other dispatches come between the statements of run_job_blocking: the  *)
(* one exception is a job whose watcher gave it up while it ran.              *)
THEOREM SpecLogSealed == Spec => LogSealed
<1> DEFINE Sealed(j) ==
             status[j] \in JobTerminal /\ (j \in Watched => status[j] # "failed")
               => log'[j] = log[j] \/ status'[j] = "gone"
<1>1. Init => SealInv
    BY Statements DEF Init, SealInv, Working
<1>2. IInv /\ SealInv /\ [Next]_vars => SealInv' /\ \A j \in Jobs : Sealed(j)
    <2> SUFFICES ASSUME IInv, SealInv, [Next]_vars PROVE SealInv' /\ \A j \in Jobs : Sealed(j)
        OBVIOUS
    <2>1. CASE \E j \in Jobs : CreateJob(j) \/ CancelJob(j) \/ WatchFail(j) \/ DeleteRow(j)
        BY <2>1, RowStepSeals
    <2>2. CASE \E w \in Workers : Worker(w) \/ DatabaseError(w)
        <3>1. SealInv' /\ \A j \in Jobs : log'[j] = log[j] \/ (Held(j) /\ status[j] # "gone")
            BY <2>2, WorkerStepSeals
        <3> QED
            BY <3>1 DEF Held, JobTerminal
    <2>3. CASE Crash \/ (\E r \in Readers : Server(r) \/ Client(r) \/ DropStream(r)) \/ vars' = vars
        BY <2>3, RestSeals
    <2> QED
        BY <2>1, <2>2, <2>3 DEF Next
<1>3. SealInv' /\ (\A j \in Jobs : Sealed(j)) => [\A j \in Jobs : Sealed(j)]_vars
    OBVIOUS
<1> QED
    BY <1>1, <1>2, Invariance, PTL DEF Spec, LogSealed
-----------------------------------------------------------------------------
(* A cancel is honoured.  "done" is in the log before its worker takes the   *)
(* last look at the flag, so it is there when the row becomes done.          *)

DoneLogged(j) == Contains(log[j], "done") \/ status[j] = "gone"
LogType == /\ log \in [Jobs -> Seq(Events)]
           /\ cancelReq \in [Jobs -> BOOLEAN]
DoneInv == /\ LogType
           /\ \A w \in Workers : pc[w] \in {"bail4", "finish"} => DoneLogged(WorkerJob[w])
           /\ \A j \in Jobs : status[j] = "done" => DoneLogged(j)

\* The flag is up and no worker is past its last look at it: the row is gone,
\* or it will never be done.
Safe(j) ==
    \/ status[j] = "gone"
    \/ /\ cancelReq[j] /\ status[j] # "done"
       /\ \A w \in Workers : WorkerJob[w] = j => pc[w] # "finish"

LEMMA AppendKeeps ==
    ASSUME NEW S, NEW s \in Seq(S), NEW e \in S, NEW x
    PROVE  /\ Append(s, e) \in Seq(S)
           /\ Contains(Append(s, e), e)
           /\ Contains(s, x) => Contains(Append(s, e), x)
<1>1. /\ Append(s, e) \in Seq(S) /\ Len(Append(s, e)) = Len(s) + 1 /\ Len(s) \in Nat
      /\ Append(s, e)[Len(s) + 1] = e
      /\ \A i \in 1..Len(s) : Append(s, e)[i] = s[i]
    OBVIOUS
<1>2. Len(s) + 1 \in 1..Len(Append(s, e)) /\ \A i \in 1..Len(s) : i \in 1..Len(Append(s, e))
    BY <1>1
<1>3. Contains(Append(s, e), e)
    BY <1>1, <1>2 DEF Contains
<1>4. Contains(s, x) => Contains(Append(s, e), x)
    BY <1>1, <1>2 DEF Contains
<1> QED
    BY <1>1, <1>3, <1>4

\* No log loses its "done" while the row exists, and nobody comes to the two
\* statements, or makes a row done, whose log lacks it.
LEMMA DoneStays ==
    ASSUME DoneInv, LogType',
           \A j \in Jobs : DoneLogged(j) => DoneLogged(j)',
           \A w \in Workers : pc'[w] \in {"bail4", "finish"} =>
             pc[w] \in {"bail4", "finish"} \/ DoneLogged(WorkerJob[w])',
           \A j \in Jobs : status'[j] = "done" => status[j] = "done" \/ DoneLogged(j)'
    PROVE  DoneInv'
BY DEF DoneInv

\* A row that is safe stays so unless the flag is taken back, a worker comes
\* past its last look, or the row is made done.
LEMMA SafeStays ==
    ASSUME NEW j \in Jobs, Safe(j),
           status[j] = "gone" => status'[j] = "gone",
           status'[j] = "gone" \/ (cancelReq[j] => cancelReq'[j]),
           status'[j] = "done" => status[j] = "done",
           \A w \in Workers : WorkerJob[w] = j /\ pc'[w] = "finish" => pc[w] = "finish"
    PROVE  Safe(j)'
BY DEF Safe

LEMMA RowStepHonours ==
    ASSUME IInv, DoneInv, NEW j \in Jobs,
           CreateJob(j) \/ CancelJob(j) \/ WatchFail(j) \/ DeleteRow(j)
    PROVE  DoneInv' /\ \A k \in Jobs : Safe(k) => Safe(k)'
<1>0. /\ status \in [Jobs -> RowStates] /\ log \in [Jobs -> Seq(Events)]
      /\ cancelReq \in [Jobs -> BOOLEAN] /\ pc' = pc
    BY DEF IInv, RowType, DoneInv, LogType, CreateJob, CancelJob, WatchFail, DeleteRow
<1>1. CASE ~DeleteRow(j)
    <2>1. /\ log' = log /\ cancelReq' \in [Jobs -> BOOLEAN]
          /\ \A k \in Jobs : cancelReq[k] => cancelReq'[k]
        BY <1>0, <1>1 DEF CreateJob, CancelJob, WatchFail
    <2>2. \A k \in Jobs : /\ status[k] = "gone" => status'[k] = "gone"
                          /\ status'[k] = "done" => status[k] = "done"
        BY <1>0, <1>1 DEF CreateJob, CancelJob, WatchFail, SetStatus, Open
    <2>3. DoneInv'
        BY <1>0, <2>1, <2>2, DoneStays DEF LogType, DoneLogged
    <2> QED
        BY <1>0, <2>1, <2>2, <2>3, SafeStays
<1>2. CASE DeleteRow(j)
    <2>0. <<>> \in Seq(Events)
        OBVIOUS
    <2>1. log' \in [Jobs -> Seq(Events)] /\ cancelReq' \in [Jobs -> BOOLEAN]
        BY <1>0, <1>2, <2>0 DEF DeleteRow
    <2>2. /\ status'[j] = "gone"
          /\ \A k \in Jobs : k # j => /\ status'[k] = status[k] /\ log'[k] = log[k]
                                      /\ cancelReq'[k] = cancelReq[k]
        BY <1>0, <1>2 DEF DeleteRow
    <2>3. \A k \in Jobs : /\ status[k] = "gone" => status'[k] = "gone"
                          /\ status'[k] = "done" => status[k] = "done"
                          /\ status'[k] = "gone" \/ (cancelReq[k] => cancelReq'[k])
        BY <2>2
    <2>4. \A k \in Jobs : DoneLogged(k) => DoneLogged(k)'
        BY <2>2 DEF DoneLogged
    <2>5. DoneInv'
        BY <1>0, <2>1, <2>3, <2>4, DoneStays DEF LogType
    <2> QED
        BY <1>0, <2>3, <2>5, SafeStays
<1> QED
    BY <1>1, <1>2

\* A step of a worker that writes no row and does not pass the last look.
LEMMA WorkerMovesOn ==
    ASSUME IInv, DoneInv, NEW w \in Workers, NEW next \in States, Goto(w, next),
           status' = status, cancelReq' = cancelReq, log' = log,
           next = "bail4" => pc[w] = "bail4",
           next = "finish" => pc[w] = "bail4" /\ ~cancelReq[WorkerJob[w]]
    PROVE  DoneInv' /\ \A k \in Jobs : Safe(k) => Safe(k)'
<1>0. pc \in [Workers -> States] /\ pc' = [pc EXCEPT ![w] = next]
    BY DEF IInv, RowType, Goto
<1>1. \A v \in Workers : pc'[v] = IF v = w THEN next ELSE pc[v]
    BY <1>0
<1>2. LogType' /\ \A k \in Jobs : DoneLogged(k) => DoneLogged(k)'
    BY DEF DoneInv, LogType, DoneLogged
<1>3. DoneInv'
    BY <1>1, <1>2, DoneStays
<1>4. ASSUME NEW k \in Jobs, Safe(k) PROVE Safe(k)'
    <2>1. CASE status[k] = "gone"
        BY <2>1 DEF Safe
    <2>2. CASE /\ cancelReq[k] /\ status[k] # "done"
               /\ \A v \in Workers : WorkerJob[v] = k => pc[v] # "finish"
        BY <1>1, <2>2 DEF Safe
    <2> QED
        BY <1>4, <2>1, <2>2 DEF Safe
<1> QED
    BY <1>3, <1>4

\* A worker that writes its row returns; only finish_job writes "done".
LEMMA WorkerSettles ==
    ASSUME IInv, DoneInv, NEW w \in Workers, NEW s \in JobTerminal,
           SetStatus(WorkerJob[w], s), Goto(w, "returned"),
           cancelReq' = cancelReq, log' = log, s = "done" => pc[w] = "finish"
    PROVE  DoneInv' /\ \A k \in Jobs : Safe(k) => Safe(k)'
<1>0. /\ status \in [Jobs -> RowStates] /\ pc \in [Workers -> States] /\ WorkerJob[w] \in Jobs
      /\ pc' = [pc EXCEPT ![w] = "returned"]
    BY DEF IInv, RowType, Goto
<1>1. \A v \in Workers : pc'[v] = IF v = w THEN "returned" ELSE pc[v]
    BY <1>0
<1>2. \A k \in Jobs : status'[k] = IF k = WorkerJob[w] /\ Open(k) THEN s ELSE status[k]
    BY <1>0 DEF SetStatus
<1>3. s # "gone"
    BY DEF JobTerminal
<1>4. \A k \in Jobs : status[k] = "gone" => status'[k] = "gone"
    BY <1>2 DEF Open
<1>5. LogType' /\ \A k \in Jobs : DoneLogged(k) => DoneLogged(k)'
    BY <1>4 DEF DoneInv, LogType, DoneLogged
<1>6. \A k \in Jobs : status'[k] = "done" => status[k] = "done" \/ DoneLogged(k)'
    <2>1. pc[w] = "finish" => DoneLogged(WorkerJob[w])'
        BY <1>0, <1>5 DEF DoneInv
    <2> QED
        BY <1>2, <2>1
<1>7. DoneInv'
    BY <1>1, <1>5, <1>6, DoneStays
<1>8. ASSUME NEW k \in Jobs, Safe(k) PROVE Safe(k)'
    <2>1. CASE status[k] = "gone"
        BY <1>4, <2>1 DEF Safe
    <2>2. CASE /\ cancelReq[k] /\ status[k] # "done"
               /\ \A v \in Workers : WorkerJob[v] = k => pc[v] # "finish"
        <3>1. status'[k] # "done"
            BY <1>2, <2>2
        <3> QED
            BY <1>1, <2>2, <3>1 DEF Safe
    <2> QED
        BY <1>8, <2>1, <2>2 DEF Safe
<1> QED
    BY <1>7, <1>8

LEMMA WorkerStepHonours ==
    ASSUME IInv, DoneInv, NEW w \in Workers, Worker(w) \/ DatabaseError(w)
    PROVE  DoneInv' /\ \A k \in Jobs : Safe(k) => Safe(k)'
<1>0. /\ status \in [Jobs -> RowStates] /\ pc \in [Workers -> States] /\ WorkerJob[w] \in Jobs
      /\ log \in [Jobs -> Seq(Events)] /\ cancelReq \in [Jobs -> BOOLEAN]
    BY DEF IInv, RowType, DoneInv, LogType
<1>1. CASE Dispatch(w) \/ LogRefused(w) \/ DatabaseError(w)
    <2>1. /\ status' = status /\ log' = log /\ cancelReq' = cancelReq
          /\ Goto(w, "start") \/ Goto(w, "returned")
        BY <1>1 DEF Dispatch, LogRefused, DatabaseError, rowVars
    <2> QED
        BY <2>1, Statements, WorkerMovesOn
<1>2. CASE GetSession(w) \/ PostUserMessage(w)
    <2>1. /\ status' = status /\ log' = log /\ cancelReq' = cancelReq
          /\ \E next \in {"bail2", "vanished", "bail3", "logError"} : Goto(w, next)
        BY <1>2 DEF GetSession, PostUserMessage, rowVars
    <2>2. {"bail2", "vanished", "bail3", "logError"} \subseteq States
        BY DEF States, Body, Bails
    <2> QED
        BY <2>1, <2>2, WorkerMovesOn
<1>3. CASE ReadCancelFlag(w)
    <2>1. /\ status' = status /\ log' = log /\ cancelReq' = cancelReq /\ pc[w] \in Bails
          /\ Goto(w, IF cancelReq[WorkerJob[w]] THEN "logCancelled" ELSE AfterBail[pc[w]])
        BY <1>3 DEF ReadCancelFlag, rowVars
    <2>2. "logCancelled" \in States /\ AfterBail[pc[w]] \in States
        BY <2>1, Statements DEF Body, States
    <2>3. AfterBail[pc[w]] # "bail4" /\ (AfterBail[pc[w]] = "finish" => pc[w] = "bail4")
        BY <2>1 DEF AfterBail, Bails
    <2>4. CASE cancelReq[WorkerJob[w]]
        BY <2>1, <2>2, <2>4, WorkerMovesOn
    <2>5. CASE ~cancelReq[WorkerJob[w]]
        BY <2>1, <2>2, <2>3, <2>5, WorkerMovesOn
    <2> QED
        BY <2>4, <2>5
<1>4. CASE ObserveCancel(w) \/ FailJob(w) \/ FinishJob(w)
    <2>1. /\ Goto(w, "returned") /\ log' = log /\ cancelReq' = cancelReq
          /\ \E s \in JobTerminal : SetStatus(WorkerJob[w], s) /\ (s = "done" => pc[w] = "finish")
        BY <1>4 DEF ObserveCancel, FailJob, FinishJob, JobTerminal
    <2> QED
        BY <2>1, WorkerSettles
<1>5. CASE StartJob(w)
    <2>1. log' = log /\ cancelReq' = cancelReq
        BY <1>5 DEF StartJob
    <2>2. CASE status[WorkerJob[w]] = "queued"
        <3>1. /\ status' = [status EXCEPT ![WorkerJob[w]] = "running"]
              /\ pc' = [pc EXCEPT ![w] = "bail1"]
            BY <1>5, <2>2 DEF StartJob, Goto
        <3>2. \A k \in Jobs : /\ status[k] = "gone" => status'[k] = "gone"
                              /\ status'[k] = "done" => status[k] = "done"
            BY <1>0, <2>2, <3>1
        <3>3. \A v \in Workers : pc'[v] \in {"bail4", "finish"} => pc'[v] = pc[v]
            BY <1>0, <3>1
        <3>4. LogType' /\ \A k \in Jobs : DoneLogged(k) => DoneLogged(k)'
            BY <2>1, <3>2 DEF DoneInv, LogType, DoneLogged
        <3>5. DoneInv'
            BY <3>2, <3>3, <3>4, DoneStays
        <3> QED
            BY <2>1, <3>2, <3>3, <3>5, SafeStays
    <2>3. CASE status[WorkerJob[w]] # "queued"
        <3>1. Goto(w, "skipped") /\ status' = status
            BY <1>5, <2>3 DEF StartJob
        <3> QED
            BY <2>1, <3>1, Statements, WorkerMovesOn
    <2> QED
        BY <2>2, <2>3
<1>6. CASE LogEvent(w)
    <2>1. PICK a \in Appends : /\ pc[w] = a[1] /\ AppendEvent(WorkerJob[w], a[2]) /\ Goto(w, a[3])
                               /\ status' = status /\ cancelReq' = cancelReq
        BY <1>6 DEF LogEvent
    <2>2. /\ a[2] \in Events /\ a[3] # "finish"
          /\ a[3] = "bail4" => a[2] = "done"
        BY DEF Appends, BailAppends, TurnAppends, ErrorAppends, Events, Lifecycle
    <2>3. PICK j \in Jobs : j = WorkerJob[w]
        BY <1>0
    <2>4. log[j] \in Seq(Events)
        BY <1>0
    <2>5. /\ Append(log[j], a[2]) \in Seq(Events)
          /\ Contains(Append(log[j], a[2]), a[2])
          /\ Contains(log[j], "done") => Contains(Append(log[j], a[2]), "done")
        BY <2>2, <2>4, AppendKeeps
    <2>6. /\ log' \in [Jobs -> Seq(Events)] /\ log'[j] = Append(log[j], a[2])
          /\ \A k \in Jobs : k # j => log'[k] = log[k]
        BY <1>0, <2>1, <2>3, <2>5 DEF AppendEvent
    <2>7. LogType' /\ \A k \in Jobs : DoneLogged(k) => DoneLogged(k)'
        BY <1>0, <2>1, <2>5, <2>6 DEF LogType, DoneLogged
    <2>8. \A v \in Workers : pc'[v] = IF v = w THEN a[3] ELSE pc[v]
        BY <1>0, <2>1 DEF Goto
    <2>9. a[3] = "bail4" => DoneLogged(j)'
        BY <2>2, <2>5, <2>6 DEF DoneLogged
    <2>10. DoneInv'
        BY <2>1, <2>2, <2>3, <2>7, <2>8, <2>9, DoneStays
    <2> QED
        BY <2>1, <2>2, <2>8, <2>10, SafeStays
<1> QED
    BY <1>1, <1>2, <1>3, <1>4, <1>5, <1>6 DEF Worker

\* Neither a restart nor a reader moves a worker to a statement or touches a row.
LEMMA RestHonours ==
    ASSUME IInv, DoneInv,
           Crash \/ (\E r \in Readers : Server(r) \/ Client(r) \/ DropStream(r)) \/ vars' = vars
    PROVE  DoneInv' /\ \A k \in Jobs : Safe(k) => Safe(k)'
<1>1. /\ status' = status /\ log' = log /\ cancelReq' = cancelReq
      /\ \A w \in Workers : pc'[w] \in {"bail4", "finish"} => pc'[w] = pc[w]
    <2>1. CASE Crash
        BY <2>1 DEF Crash, rowVars
    <2>2. CASE \E r \in Readers : Server(r) \/ Client(r) \/ DropStream(r)
        BY <2>2 DEF Server, Client, OpenStream, NotFound, ReadEvents, CheckStatus, Receive,
                    StreamEnds, DropStream, rowVars
    <2>3. CASE vars' = vars
        BY <2>3 DEF vars, rowVars
    <2> QED
        BY <2>1, <2>2, <2>3
<1>2. LogType' /\ \A k \in Jobs : DoneLogged(k) => DoneLogged(k)'
    BY <1>1 DEF DoneInv, LogType, DoneLogged
<1>3. DoneInv'
    BY <1>1, <1>2, DoneStays
<1> QED
    BY <1>1, <1>3, SafeStays

LEMMA InitDoneInv == Init => DoneInv
<1> SUFFICES ASSUME Init PROVE DoneInv
    OBVIOUS
<1>0. <<>> \in Seq(Events)
    OBVIOUS
<1>1. LogType
    BY <1>0 DEF Init, LogType
<1> QED
    BY <1>1 DEF Init, DoneInv

LEMMA NextDoneInv ==
    ASSUME IInv, DoneInv, [Next]_vars
    PROVE  DoneInv' /\ \A j \in Jobs : Safe(j) => Safe(j)'
<1>1. CASE \E j \in Jobs : CreateJob(j) \/ CancelJob(j) \/ WatchFail(j) \/ DeleteRow(j)
    BY <1>1, RowStepHonours
<1>2. CASE \E w \in Workers : Worker(w) \/ DatabaseError(w)
    BY <1>2, WorkerStepHonours
<1>3. CASE Crash \/ (\E r \in Readers : Server(r) \/ Client(r) \/ DropStream(r)) \/ vars' = vars
    BY <1>3, RestHonours
<1> QED
    BY <1>1, <1>2, <1>3 DEF Next

(* A cancel that is recorded before the job's "done" event is honoured: from *)
(* then on the job is never done, whatever statement its worker had reached, *)
(* and however many calls of run_job_blocking the job has.                   *)
THEOREM SpecCancelHonoured == Spec => CancelHonoured
<1> SUFFICES ASSUME NEW j \in Jobs
             PROVE  Spec => [](cancelReq[j] /\ ~Contains(log[j], "done") => [](status[j] # "done"))
    BY DEF CancelHonoured
<1>1. Init => DoneInv
    BY InitDoneInv
<1>2. IInv /\ DoneInv /\ [Next]_vars => DoneInv'
    BY NextDoneInv
<1>3. IInv /\ DoneInv /\ [Next]_vars /\ Safe(j) => Safe(j)'
    BY NextDoneInv
<1>4. DoneInv /\ cancelReq[j] /\ ~Contains(log[j], "done") => Safe(j)
    BY DEF DoneInv, DoneLogged, Safe
<1>5. Safe(j) => status[j] # "done"
    BY DEF Safe
<1> QED
    BY <1>1, <1>2, <1>3, <1>4, <1>5, Invariance, PTL DEF Spec
=============================================================================
