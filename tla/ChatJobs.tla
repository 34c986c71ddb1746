------------------------------ MODULE ChatJobs ------------------------------
(***************************************************************************)
(* One chat turn as a background job (services/chat_jobs.py and the job    *)
(* endpoints of api/v1/chat.py).  A request creates the job's row and      *)
(* hands it to a worker thread; the worker commits after every statement,  *)
(* so every statement of run_job_blocking is a step of its own, and the    *)
(* user's cancel, a WhatsApp watcher's fail_job and the readers of the     *)
(* event log come between any two of them.  A reader is one server-sent    *)
(* event stream and its client: the server polls the log, then the status; *)
(* the client reconnects from the last event it has rendered.              *)
(***************************************************************************)
EXTENDS Naturals, Sequences, SequencesExt

CONSTANTS Jobs,
          Workers,     \* calls of run_job_blocking, ...
          WorkerJob,   \* ... each for one job
          Watched,     \* the jobs a WhatsApp consumer watches
          Deletable,   \* the jobs whose user, tenant or session may be deleted
          Readers,     \* clients of the event stream, ...
          ReaderJob,   \* ... each of one job
          MaxIters,    \* polls of one stream (600 in the code)
          MaxFaults,   \* database errors in workers
          MaxCrashes,  \* restarts of the api process
          MaxDrops     \* broken connections

ASSUME ChatJobsAssumption ==
  /\ WorkerJob \in [Workers -> Jobs]
  /\ ReaderJob \in [Readers -> Jobs]
  /\ Watched \subseteq Jobs /\ Deletable \subseteq Jobs
  /\ MaxIters \in Nat \ {0}
  /\ {MaxFaults, MaxCrashes, MaxDrops} \subseteq Nat

VARIABLES
  status,      \* chat_jobs.status, "none" before the row exists, "gone" after
  cancelReq,   \* chat_jobs.cancel_requested
  log,         \* chat_job_events of the job: the n-th element has seq n
  replies,     \* how often the turn was handed to post_user_message
  pc,          \* the worker's next statement
  conn,        \* the reader's server side: "down", "read", "check" or "ended"
  srvSeq,      \* last_seq of the server's generator
  polls,       \* iterations it has finished
  wire,        \* frames sent and not yet received
  rendered,    \* the seqs the client has rendered, in order
  told,        \* how the client closed: the terminal frame's status, or "missing"
  faults, crashes, drops

rowVars    == <<status, cancelReq, log>>
readerVars == <<conn, srvSeq, polls, wire, rendered, told>>
budgets    == <<faults, crashes, drops>>
vars == <<rowVars, replies, pc, readerVars, budgets>>

JobTerminal == {"done", "failed", "cancelled"}
Lifecycle   == {"started", "error", "done", "cancelled"}
Events      == Lifecycle \cup {"chunk"}

(* The worker's statements between winning the job and returning. *)
Bails  == {"bail1", "bail2", "bail3", "bail4"}
Body   == Bails \cup {"logCancelled", "observe", "started", "session", "vanished", "failVanished",
                      "post", "chunk", "doneEvent", "finish", "logError", "fail"}
Ended  == {"skipped", "returned", "dead"}
States == {"idle", "start"} \cup Body \cup Ended

Init == /\ status = [j \in Jobs |-> "none"]
        /\ cancelReq = [j \in Jobs |-> FALSE]
        /\ log = [j \in Jobs |-> <<>>]
        /\ replies = [j \in Jobs |-> 0]
        /\ pc = [w \in Workers |-> "idle"]
        /\ conn = [r \in Readers |-> "down"]
        /\ srvSeq = [r \in Readers |-> 0]
        /\ polls = [r \in Readers |-> 0]
        /\ wire = [r \in Readers |-> <<>>]
        /\ rendered = [r \in Readers |-> <<>>]
        /\ told = [r \in Readers |-> "none"]
        /\ faults = 0 /\ crashes = 0 /\ drops = 0

-----------------------------------------------------------------------------
(* The statements of chat_jobs.py, each one transaction. *)

Open(j) == status[j] \in {"queued", "running"}

(* UPDATE ... SET status = s WHERE status NOT IN terminal: finish_job,
   fail_job and observe_cancel. *)
SetStatusAlways(j, s) == status' = [status EXCEPT ![j] = s]        \* mutant of SetStatus
SetStatus(j, s) == status' = IF Open(j) THEN [status EXCEPT ![j] = s] ELSE status

(* append_event: the advisory lock makes reading MAX(seq) and inserting
   MAX(seq) + 1 one step. *)
AppendEvent(j, e) == log' = [log EXCEPT ![j] = Append(@, e)]

CreateJob(j) ==
  /\ status[j] = "none"
  /\ status' = [status EXCEPT ![j] = "queued"]
  /\ UNCHANGED <<cancelReq, log, replies, pc, readerVars, budgets>>

(* Mutant of CancelJob: the endpoint ends a running job itself. *)
CancelAtOnce(j) ==
  /\ Open(j)
  /\ cancelReq' = [cancelReq EXCEPT ![j] = TRUE]
  /\ status' = [status EXCEPT ![j] = "cancelled"]
  /\ UNCHANGED <<log, replies, pc, readerVars, budgets>>

(* The cancel endpoint. *)
CancelJob(j) ==
  /\ Open(j)
  /\ cancelReq' = [cancelReq EXCEPT ![j] = TRUE]
  /\ status' = IF status[j] = "queued" THEN [status EXCEPT ![j] = "cancelled"] ELSE status
  /\ UNCHANGED <<log, replies, pc, readerVars, budgets>>

(* A WhatsApp consumer gives the job up: over capacity, watch timeout, a
   status that is not "done", or a drain. *)
WatchFail(j) ==
  /\ j \in Watched /\ Open(j)
  /\ SetStatus(j, "failed")
  /\ UNCHANGED <<cancelReq, log, replies, pc, readerVars, budgets>>

(* The job's user, tenant or session is deleted, and the row and its events
   go with it: the foreign keys of migration 137 cascade. *)
DeleteRow(j) ==
  /\ j \in Deletable /\ status[j] \notin {"none", "gone"}
  /\ status' = [status EXCEPT ![j] = "gone"]
  /\ cancelReq' = [cancelReq EXCEPT ![j] = FALSE]
  /\ log' = [log EXCEPT ![j] = <<>>]
  /\ UNCHANGED <<replies, pc, readerVars, budgets>>

-----------------------------------------------------------------------------
(* run_job_blocking. *)

Goto(w, next) == pc' = [pc EXCEPT ![w] = next]

Dispatch(w) ==
  /\ pc[w] = "idle" /\ status[WorkerJob[w]] # "none"
  /\ Goto(w, "start")
  /\ UNCHANGED <<rowVars, replies, readerVars, budgets>>

(* Mutant of StartJob: a running job may be started again. *)
StartAnyway(w) ==
  LET j == WorkerJob[w] IN
  /\ pc[w] = "start"
  /\ IF Open(j)
       THEN status' = [status EXCEPT ![j] = "running"] /\ Goto(w, "bail1")
       ELSE UNCHANGED status /\ Goto(w, "skipped")
  /\ UNCHANGED <<cancelReq, log, replies, readerVars, budgets>>

(* Only the caller that moves the job from queued to running goes on. *)
StartJob(w) ==
  LET j == WorkerJob[w] IN
  /\ pc[w] = "start"
  /\ IF status[j] = "queued"
       THEN status' = [status EXCEPT ![j] = "running"] /\ Goto(w, "bail1")
       ELSE UNCHANGED status /\ Goto(w, "skipped")
  /\ UNCHANGED <<cancelReq, log, replies, readerVars, budgets>>

AfterBail == [bail1 |-> "started", bail2 |-> "post", bail3 |-> "chunk", bail4 |-> "finish"]

(* _bail_if_cancelled reads the flag; the event and the status flip follow. *)
ReadCancelFlag(w) ==
  /\ pc[w] \in Bails
  /\ Goto(w, IF cancelReq[WorkerJob[w]] THEN "logCancelled" ELSE AfterBail[pc[w]])
  /\ UNCHANGED <<rowVars, replies, readerVars, budgets>>

ObserveCancel(w) ==
  /\ pc[w] = "observe"
  /\ SetStatus(WorkerJob[w], "cancelled") /\ Goto(w, "returned")
  /\ UNCHANGED <<cancelReq, log, replies, readerVars, budgets>>

(* The statements that append an event: the statement, the event, and what
   comes next.  The mutant drops the last look at the cancel flag. *)
BailAppends    == {<<"logCancelled", "cancelled", "observe">>}
TurnNoLastLook == {<<"started", "started", "session">>,
                   <<"chunk", "chunk", "doneEvent">>, <<"doneEvent", "done", "finish">>}
TurnAppends    == {<<"started", "started", "session">>,
                   <<"chunk", "chunk", "doneEvent">>, <<"doneEvent", "done", "bail4">>}
ErrorAppends   == {<<"vanished", "error", "failVanished">>, <<"logError", "error", "fail">>}
Appends == BailAppends \cup TurnAppends \cup ErrorAppends

LogEvent(w) ==
  \E a \in Appends :
    /\ pc[w] = a[1] /\ status[WorkerJob[w]] # "gone"
    /\ AppendEvent(WorkerJob[w], a[2]) /\ Goto(w, a[3])
    /\ UNCHANGED <<status, cancelReq, replies, readerVars, budgets>>

(* The event's job is gone: the foreign key of chat_job_events fails the
   statement, and the call ends as in DatabaseError below. *)
LogRefused(w) ==
  /\ \E a \in Appends : pc[w] = a[1]
  /\ status[WorkerJob[w]] = "gone"
  /\ Goto(w, "returned")
  /\ UNCHANGED <<rowVars, replies, readerVars, budgets>>

(* get_session: a session that vanished took the job's row with it, a user
   that was deleted took only the row. *)
GetSession(w) ==
  /\ pc[w] = "session"
  /\ \E next \in IF status[WorkerJob[w]] = "gone" THEN {"bail2", "vanished"} ELSE {"bail2"} :
       Goto(w, next)
  /\ UNCHANGED <<rowVars, replies, readerVars, budgets>>

(* post_user_message runs the whole turn; it returns or raises. *)
PostUserMessage(w) ==
  /\ pc[w] = "post"
  /\ replies' = [replies EXCEPT ![WorkerJob[w]] = @ + 1]
  /\ \E next \in {"bail3", "logError"} : Goto(w, next)
  /\ UNCHANGED <<rowVars, readerVars, budgets>>

FinishJob(w) ==
  /\ pc[w] = "finish"
  /\ SetStatus(WorkerJob[w], "done") /\ Goto(w, "returned")
  /\ UNCHANGED <<cancelReq, log, replies, readerVars, budgets>>

(* Mutant of FailJob: the error is logged and the row forgotten. *)
FailUnrecorded(w) ==
  /\ pc[w] \in {"failVanished", "fail"}
  /\ Goto(w, "returned")
  /\ UNCHANGED <<rowVars, replies, readerVars, budgets>>

FailJob(w) ==
  /\ pc[w] \in {"failVanished", "fail"}
  /\ SetStatus(WorkerJob[w], "failed") /\ Goto(w, "returned")
  /\ UNCHANGED <<cancelReq, log, replies, readerVars, budgets>>

(* A statement fails in the database.  The session refuses every further
   statement until it is rolled back, which nobody does: the handler's
   append_event and fail_job fail too, both are swallowed, and the call
   returns. *)
DatabaseError(w) ==
  /\ pc[w] \in Body \cup {"start"} /\ faults < MaxFaults
  /\ faults' = faults + 1
  /\ replies' = IF pc[w] = "post" THEN [replies EXCEPT ![WorkerJob[w]] = @ + 1] ELSE replies
  /\ Goto(w, "returned")
  /\ UNCHANGED <<rowVars, readerVars, crashes, drops>>

Worker(w) == \/ Dispatch(w) \/ StartJob(w) \/ ReadCancelFlag(w) \/ ObserveCancel(w)
             \/ LogEvent(w) \/ LogRefused(w) \/ GetSession(w) \/ PostUserMessage(w)
             \/ FinishJob(w) \/ FailJob(w)

(* The api process restarts: its threads, its request handlers and its
   streams are gone, the tables stay, and nothing picks the jobs up again. *)
Crash ==
  /\ crashes < MaxCrashes
  /\ crashes' = crashes + 1
  /\ pc' = [w \in Workers |->
              IF pc[w] \in Ended \/ status[WorkerJob[w]] = "none" THEN pc[w] ELSE "dead"]
  /\ conn' = [r \in Readers |-> "down"]
  /\ wire' = [r \in Readers |-> <<>>]
  /\ UNCHANGED <<rowVars, replies, srvSeq, polls, rendered, told, faults, drops>>

-----------------------------------------------------------------------------
(* stream_chat_job_events and its client. *)

EventFrame(n)    == [type |-> "event", seq |-> n]
TerminalFrame(s) == [type |-> "terminal", status |-> s]
TimeoutFrame     == [type |-> "timeout"]

(* The client's cursor: the highest seq it has rendered. *)
LastSeq(r) == IF rendered[r] = <<>> THEN 0 ELSE Last(rendered[r])

OpenStream(r) ==
  /\ conn[r] = "down" /\ told[r] = "none" /\ status[ReaderJob[r]] \notin {"none", "gone"}
  /\ conn' = [conn EXCEPT ![r] = "read"]
  /\ srvSeq' = [srvSeq EXCEPT ![r] = LastSeq(r)]
  /\ polls' = [polls EXCEPT ![r] = 0]
  /\ UNCHANGED <<rowVars, replies, pc, wire, rendered, told, budgets>>

(* The pre-flight get_job finds nothing: the client closes on the 404. *)
NotFound(r) ==
  /\ conn[r] = "down" /\ told[r] = "none" /\ status[ReaderJob[r]] = "gone"
  /\ told' = [told EXCEPT ![r] = "missing"]
  /\ UNCHANGED <<rowVars, replies, pc, conn, srvSeq, polls, wire, rendered, budgets>>

(* read_events(from_seq = last_seq), every event a frame. *)
ReadEvents(r) ==
  LET top == Max({srvSeq[r], Len(log[ReaderJob[r]])}) IN
  /\ conn[r] = "read"
  /\ wire' = [wire EXCEPT ![r] = @ \o [i \in 1..(top - srvSeq[r]) |-> EventFrame(srvSeq[r] + i)]]
  /\ srvSeq' = [srvSeq EXCEPT ![r] = top]
  /\ conn' = [conn EXCEPT ![r] = "check"]
  /\ UNCHANGED <<rowVars, replies, pc, polls, rendered, told, budgets>>

Closes(r, frame) == /\ wire' = [wire EXCEPT ![r] = Append(@, frame)]
                    /\ conn' = [conn EXCEPT ![r] = "ended"]

(* The status is read after the events.  A terminal one ends the stream;
   otherwise the server polls again, or has polled max_iters times and asks
   the client to reconnect. *)
CheckStatus(r) ==
  LET s == status[ReaderJob[r]] IN
  /\ conn[r] = "check"
  /\ IF s \in JobTerminal
       THEN Closes(r, TerminalFrame(s))
       ELSE IF polls[r] + 1 < MaxIters
              THEN conn' = [conn EXCEPT ![r] = "read"] /\ UNCHANGED wire
              ELSE Closes(r, TimeoutFrame)
  /\ polls' = [polls EXCEPT ![r] = @ + 1]
  /\ UNCHANGED <<rowVars, replies, pc, srvSeq, rendered, told, budgets>>

(* The client takes one frame; the terminal one makes it close for good. *)
Receive(r) ==
  /\ wire[r] # <<>> /\ told[r] = "none"
  /\ LET f == Head(wire[r]) IN
       /\ rendered' = IF f.type = "event" THEN [rendered EXCEPT ![r] = Append(@, f.seq)]
                                          ELSE rendered
       /\ told' = IF f.type = "terminal" THEN [told EXCEPT ![r] = f.status] ELSE told
  /\ wire' = [wire EXCEPT ![r] = Tail(@)]
  /\ UNCHANGED <<rowVars, replies, pc, conn, srvSeq, polls, budgets>>

StreamEndsForGood(r) ==                          \* mutant of StreamEnds: no reconnect
  /\ conn[r] = "ended" /\ wire[r] = <<>> /\ told[r] = "none"
  /\ UNCHANGED vars

(* The stream ended without a terminal frame: the client will reconnect. *)
StreamEnds(r) ==
  /\ conn[r] = "ended" /\ wire[r] = <<>> /\ told[r] = "none"
  /\ conn' = [conn EXCEPT ![r] = "down"]
  /\ UNCHANGED <<rowVars, replies, pc, srvSeq, polls, wire, rendered, told, budgets>>

(* The connection breaks and what was on the wire is lost. *)
DropStream(r) ==
  /\ conn[r] # "down" /\ told[r] = "none" /\ drops < MaxDrops
  /\ drops' = drops + 1
  /\ conn' = [conn EXCEPT ![r] = "down"]
  /\ wire' = [wire EXCEPT ![r] = <<>>]
  /\ UNCHANGED <<rowVars, replies, pc, srvSeq, polls, rendered, told, faults, crashes>>

Server(r) == ReadEvents(r) \/ CheckStatus(r)
Client(r) == OpenStream(r) \/ NotFound(r) \/ Receive(r) \/ StreamEnds(r)

-----------------------------------------------------------------------------
Next == \/ \E j \in Jobs : CreateJob(j) \/ CancelJob(j) \/ WatchFail(j) \/ DeleteRow(j)
        \/ \E w \in Workers : Worker(w) \/ DatabaseError(w)
        \/ Crash
        \/ \E r \in Readers : Server(r) \/ Client(r) \/ DropStream(r)

Spec == Init /\ [][Next]_vars

(* Threads run, the turn's dispatch is bounded by its own timeout, and the
   poll loop and the client's reconnect timer keep going.  Nothing makes a
   user create, cancel or drop. *)
FairSpec == /\ Spec
            /\ \A w \in Workers : WF_vars(Worker(w))
            /\ \A r \in Readers : WF_vars(Server(r)) /\ WF_vars(Client(r))

-----------------------------------------------------------------------------
(* Properties. *)

TypeOK ==
  /\ status \in [Jobs -> {"none", "queued", "running", "gone"} \cup JobTerminal]
  /\ cancelReq \in [Jobs -> BOOLEAN]
  /\ log \in [Jobs -> Seq(Events)]
  /\ replies \in [Jobs -> Nat]
  /\ pc \in [Workers -> States]
  /\ conn \in [Readers -> {"down", "read", "check", "ended"}]
  /\ srvSeq \in [Readers -> Nat] /\ polls \in [Readers -> 0..MaxIters]
  /\ wire \in [Readers -> Seq([type : {"event"}, seq : Nat]
                               \cup [type : {"terminal"}, status : JobTerminal]
                               \cup [type : {"timeout"}])]
  /\ rendered \in [Readers -> Seq(Nat)]
  /\ told \in [Readers -> JobTerminal \cup {"none", "missing"}]
  /\ faults \in 0..MaxFaults /\ crashes \in 0..MaxCrashes /\ drops \in 0..MaxDrops

(* However often a job is dispatched, one call at most works on it, and the
   turn is handed to post_user_message at most once: the ownership guard of
   run_job_blocking. *)
RunsOnce ==
  \A j \in Jobs :
    /\ replies[j] <= 1
    /\ \A v, w \in Workers :
         WorkerJob[v] = j /\ WorkerJob[w] = j /\ pc[v] \in Body /\ pc[w] \in Body => v = w

(* Nothing is appended to a job's log once its row is terminal, unless a
   WhatsApp consumer gave up on a job that still runs: every path of
   run_job_blocking appends first and moves the status last, so a stream that
   sees the terminal status can have seen everything. *)
LogSealed ==
  [][\A j \in Jobs :
       status[j] \in JobTerminal /\ (j \in Watched => status[j] # "failed")
         => log'[j] = log[j] \/ status'[j] = "gone"]_vars

(* A cancel that lands before the "done" event is in the log is honoured:
   the worker looks once more between that event and finish_job, so the job
   never ends done. *)
CancelHonoured ==
  \A j \in Jobs :
    [](cancelReq[j] /\ ~Contains(log[j], "done") => [](status[j] # "done"))

(* Every status change is one of the lifecycle the module's docstring draws:
   in particular finish_job, which would also accept a queued job, only ever
   meets a running one, and no cancel, watcher or late worker rewrites a
   terminal status while the row exists. *)
Row == INSTANCE JobLifecycle
LifecycleRefined == Row!Spec

(* run_job_blocking returns with its job terminal, if no statement of it
   failed in the database ("Run one queued chat_job to terminal state in the
   CALLING thread"). *)
ReturnsTerminal ==
  \A w \in Workers : pc[w] = "returned" => status[WorkerJob[w]] \in JobTerminal \cup {"gone"}

(* Without a database error or a restart every job that exists comes to an
   end, cancelled or not. *)
JobSettles ==
  \A j \in Jobs : status[j] # "none" ~> status[j] \in JobTerminal \cup {"gone"} \/ faults + crashes > 0

(* ... and every client that follows it is told how it ended, through
   timeouts of the stream and broken connections. *)
ReaderTold ==
  \A r \in Readers : status[ReaderJob[r]] # "none" ~> told[r] # "none" \/ faults + crashes > 0

(* "After draining new events, check terminal status": a client that
   is told its job is done has rendered the whole log, the reply included. *)
ToldMeansDrained ==
  \A r \in Readers : told[r] = "done" => Len(rendered[r]) = Len(log[ReaderJob[r]])
=============================================================================
