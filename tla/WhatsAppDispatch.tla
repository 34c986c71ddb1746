-------------------------- MODULE WhatsAppDispatch --------------------------
(***************************************************************************)
(* The fire-and-forget dispatch of WhatsApp chat turns                     *)
(* (services/whatsapp_service.py).  An event loop admits turns to one      *)
(* queue per sender and runs one consumer task per queue; the turns        *)
(* themselves run as chat jobs on a bounded thread pool, each watched with *)
(* a timeout; a graceful drain ends it all.                                *)
(*                                                                         *)
(* The event loop is one thread: what a coroutine does between two awaits  *)
(* is one step of the loop, and `_chat_dispatch_lock` is never held across *)
(* an await, so nobody ever waits for it.  The pool's threads and the      *)
(* cancel endpoint commit to the jobs' rows at any time, also between two  *)
(* statements of a step of the loop: `failing` are the turns whose         *)
(* fail_job the loop is about to commit before it does anything else.      *)
(***************************************************************************)
EXTENDS Integers, Sequences, FiniteSets, SequencesExt

CONSTANTS Senders,
          LastTurn,       \* turns are 1..LastTurn, ...
          SenderOf,       \* ... each of a sender, who sends them in this order
          PoolSize,       \* WHATSAPP_CHAT_WORKERS
          GlobalCap,      \* WHATSAPP_CHAT_GLOBAL_CAP
          PerSenderCap,   \* WHATSAPP_CHAT_PER_SENDER_CAP
          MayDrain        \* whether the process is ever shut down

Turns == 1..LastTurn

ASSUME DispatchAssumption ==
  /\ LastTurn \in Nat /\ SenderOf \in [Turns -> Senders]
  /\ {PoolSize, GlobalCap, PerSenderCap} \subseteq Nat \ {0}
  /\ MayDrain \in BOOLEAN

VARIABLES
  status,     \* chat_jobs.status of the turn's job, "none" before it exists
  text,       \* whether its log has a reply that is not empty
  future,     \* its run on the pool: "none", "pending", "running", "finished", "cancelled"
  work,       \* the pool's queue of runs
  late,       \* turns on a thread whose watch timed out
  queue,      \* _chat_queues, per sender
  consumer,   \* the sender's consumer task
  held,       \* the turn it runs (_chat_active), or 0
  verdict,    \* what it will send: "reply" or "fallback"
  inflight,   \* _chat_inflight_global
  failing,    \* turns the loop is failing right now, with the reason
  phase,      \* the drain: "no", "waiting", "notifying" or "stopped"
  targets,    \* senders still to be told of the restart
  outbox      \* messages to the sender: <<turn, kind>>

jobVars   == <<status, text>>
poolVars  == <<future, work>>
turnVars  == <<consumer, held, verdict>>
loopVars  == <<queue, turnVars, inflight, failing, phase, targets, outbox>>
vars      == <<jobVars, poolVars, late, loopVars>>

JobTerminal == {"done", "failed", "cancelled"}
Kinds == {"reply", "fallback", "overloaded", "restart"}

Init == /\ status = [t \in Turns |-> "none"]
        /\ text = [t \in Turns |-> FALSE]
        /\ future = [t \in Turns |-> "none"]
        /\ work = <<>>
        /\ late = {}
        /\ queue = [s \in Senders |-> <<>>]
        /\ consumer = [s \in Senders |-> "none"]
        /\ held = [s \in Senders |-> 0]
        /\ verdict = [s \in Senders |-> "fallback"]
        /\ inflight = 0
        /\ failing = {}
        /\ phase = "no"
        /\ targets = {}
        /\ outbox = [s \in Senders |-> <<>>]

Open(t) == status[t] \in {"queued", "running"}
SetStatus(t, s) == status' = IF Open(t) THEN [status EXCEPT ![t] = s] ELSE status

(* The loop runs a coroutine only when it is in none. *)
LoopFree == failing = {}

Tell(s, t, kind) == outbox' = [outbox EXCEPT ![s] = Append(@, <<t, kind>>)]

-----------------------------------------------------------------------------
(* Admission: _build_turn creates the job and _enqueue_turn admits it, with
   no await in between. *)

Admits(s) == inflight < GlobalCap /\ Len(queue[s]) < PerSenderCap

EnqueuedFirst(q, t) == <<t>> \o q                                 \* mutant of Enqueued
Enqueued(q, t) == Append(q, t)

Arrive(t) ==
  LET s == SenderOf[t] IN
  /\ LoopFree /\ phase = "no"
  /\ status[t] = "none" /\ \A u \in Turns : u < t /\ SenderOf[u] = s => status[u] # "none"
  /\ status' = [status EXCEPT ![t] = "queued"]
  /\ IF Admits(s)
       THEN /\ queue' = [queue EXCEPT ![s] = Enqueued(@, t)]
            /\ inflight' = inflight + 1
            /\ consumer' = [consumer EXCEPT ![s] = IF @ = "none" THEN "spawned" ELSE @]
            /\ UNCHANGED failing
       ELSE /\ failing' = {[turn |-> t, why |-> "overloaded"]}
            /\ UNCHANGED <<queue, inflight, consumer>>
  /\ UNCHANGED <<text, poolVars, late, held, verdict, phase, targets, outbox>>

(* _fail_job_safe commits; the loop goes on with the next one, or with what
   follows: the notice of an overload, the fallback of a consumer's turn. *)
FailJobSafe ==
  \E f \in failing :
    LET s == SenderOf[f.turn] IN
    /\ SetStatus(f.turn, "failed")
    /\ IF f.why = "overloaded" THEN Tell(s, f.turn, "overloaded") ELSE UNCHANGED outbox
    /\ consumer' = IF held[s] = f.turn THEN [consumer EXCEPT ![s] = "sending"] ELSE consumer
    /\ failing' = failing \ {f}
    /\ UNCHANGED <<text, poolVars, late, queue, held, verdict, inflight, phase, targets>>

-----------------------------------------------------------------------------
(* The consumer. *)

(* The next turn of the queue goes to the pool (_chat_consumer, _run_turn up
   to its first await); without one the consumer and its queue are dropped.
   A pool that was shut down refuses the turn. *)
TakeNext(s) ==
  IF queue[s] = <<>>
    THEN /\ consumer' = [consumer EXCEPT ![s] = "none"]
         /\ held' = [held EXCEPT ![s] = 0]
         /\ verdict' = [verdict EXCEPT ![s] = "fallback"]
         /\ UNCHANGED <<queue, poolVars, failing>>
    ELSE LET t == Head(queue[s]) IN
         /\ queue' = [queue EXCEPT ![s] = Tail(@)]
         /\ held' = [held EXCEPT ![s] = t]
         /\ verdict' = [verdict EXCEPT ![s] = "fallback"]
         /\ IF phase = "stopped"
              THEN /\ failing' = {[turn |-> t, why |-> "executor unavailable"]}
                   /\ consumer' = [consumer EXCEPT ![s] = "failing"]
                   /\ UNCHANGED poolVars
              ELSE /\ consumer' = [consumer EXCEPT ![s] = "waiting"]
                   /\ future' = [future EXCEPT ![t] = "pending"]
                   /\ work' = Append(work, t)
                   /\ UNCHANGED failing

ConsumerStarts(s) ==
  /\ LoopFree /\ consumer[s] = "spawned"
  /\ TakeNext(s)
  /\ UNCHANGED <<jobVars, late, inflight, phase, targets, outbox>>

(* _read_job_reply, then _fail_job_safe unless there is a reply to send. *)
ReadReply(s) ==
  LET t == held[s] IN
  IF status[t] = "done" /\ text[t]
    THEN /\ verdict' = [verdict EXCEPT ![s] = "reply"]
         /\ consumer' = [consumer EXCEPT ![s] = "sending"]
         /\ UNCHANGED failing
    ELSE /\ failing' = {[turn |-> t, why |-> "not done"]}
         /\ consumer' = [consumer EXCEPT ![s] = "failing"]
         /\ UNCHANGED verdict

RunFinished(s) ==
  /\ LoopFree /\ consumer[s] = "waiting" /\ future[held[s]] = "finished"
  /\ ReadReply(s)
  /\ UNCHANGED <<jobVars, poolVars, late, queue, held, inflight, phase, targets, outbox>>

(* A run that is not yet on a thread is taken back; one that is goes on. *)
Withdrawn(ts) ==
  future' = [t \in Turns |-> IF t \in ts /\ future[t] = "pending" THEN "cancelled" ELSE future[t]]

WatchTimesOut(s) ==
  /\ LoopFree /\ consumer[s] = "waiting" /\ future[held[s]] \in {"pending", "running"}
  /\ late' = IF future[held[s]] = "running" THEN late \cup {held[s]} ELSE late
  /\ Withdrawn({held[s]})
  /\ ReadReply(s)
  /\ UNCHANGED <<jobVars, work, queue, held, inflight, phase, targets, outbox>>

SendVerdict(s) ==
  /\ LoopFree /\ consumer[s] = "sending"
  /\ Tell(s, held[s], verdict[s])
  /\ consumer' = [consumer EXCEPT ![s] = "leaving"]
  /\ UNCHANGED <<jobVars, poolVars, late, queue, held, verdict, inflight, failing, phase, targets>>

ReleasedUnclamped == inflight - 1                                  \* mutant of Released
Released == IF inflight = 0 THEN 0 ELSE inflight - 1

(* The turn is over: it no longer counts, and the consumer looks for the next. *)
TurnEnds(s) ==
  /\ LoopFree /\ consumer[s] = "leaving"
  /\ inflight' = Released
  /\ TakeNext(s)
  /\ UNCHANGED <<jobVars, late, phase, targets, outbox>>

Consumer(s) == \/ ConsumerStarts(s) \/ RunFinished(s) \/ SendVerdict(s) \/ TurnEnds(s)

-----------------------------------------------------------------------------
(* The pool: run_job_blocking on a thread. *)

Running == {t \in Turns : future[t] = "running"}

(* A free thread takes the oldest run, and drops it if it was cancelled; only
   a queued job is started.  A run whose job is no longer queued returns at
   once, and so does one whose start_job fails in the database: the handler's
   append_event and fail_job fail on the same session, and the job stays
   queued. *)
ThreadStarts ==
  /\ work # <<>> /\ Cardinality(Running) < PoolSize
  /\ LET t == Head(work) IN
       \/ /\ future[t] = "pending" /\ status[t] = "queued"
          /\ future' = [future EXCEPT ![t] = "running"]
          /\ status' = [status EXCEPT ![t] = "running"]
       \/ /\ future' = [future EXCEPT ![t] = IF @ = "pending" THEN "finished" ELSE @]
          /\ UNCHANGED status
  /\ work' = Tail(work)
  /\ UNCHANGED <<text, late, loopVars>>

(* It ends the job as done, with a reply or an empty one, or as failed (or
   cancelled: nobody here tells them apart), or returns after a database
   error with the row as it was. *)
ThreadEnds(t) ==
  /\ future[t] = "running"
  /\ future' = [future EXCEPT ![t] = "finished"]
  /\ late' = late \ {t}
  /\ \/ SetStatus(t, "done") /\ \E b \in BOOLEAN : text' = [text EXCEPT ![t] = b /\ Open(t)]
     \/ SetStatus(t, "failed") /\ UNCHANGED text
     \/ UNCHANGED jobVars
  /\ UNCHANGED <<work, loopVars>>

(* The cancel endpoint; a running job is cancelled by its thread. *)
CancelQueued(t) ==
  /\ status[t] = "queued"
  /\ status' = [status EXCEPT ![t] = "cancelled"]
  /\ UNCHANGED <<text, poolVars, late, loopVars>>

-----------------------------------------------------------------------------
(* The drain. *)

(* From here on no turn is built. *)
DrainStarts ==
  /\ MayDrain /\ LoopFree /\ phase = "no"
  /\ phase' = "waiting"
  /\ UNCHANGED <<jobVars, poolVars, late, queue, turnVars, inflight, failing, targets, outbox>>

PendingForgotten == {}                                            \* mutant of Pending
Pending == {t \in Turns : \E s \in Senders : Contains(queue[s], t)}

(* Who has a turn running or waiting.  A consumer that is `leaving` may or may
   not have dropped its turn from _chat_active yet: `gone` have. *)
TargetsPending(gone) == {s \in Senders : queue[s] # <<>>}         \* mutant of Targets
Targets(gone) == {s \in Senders : (held[s] # 0 /\ s \notin gone) \/ queue[s] # <<>>}

(* No turn runs any more, or the deadline has passed: what still waits in a
   queue is failed, and its senders and those of the running turns are to be
   told. *)
DrainClears ==
  /\ LoopFree /\ phase = "waiting"
  /\ phase' = "notifying"
  /\ failing' = {[turn |-> t, why |-> "draining"] : t \in Pending}
  /\ \E gone \in SUBSET {s \in Senders : consumer[s] = "leaving"} : targets' = Targets(gone)
  /\ queue' = [s \in Senders |-> <<>>]
  /\ inflight' = 0
  /\ UNCHANGED <<jobVars, poolVars, late, turnVars, outbox>>

DrainNotifies(s) ==
  /\ LoopFree /\ phase = "notifying" /\ s \in targets
  /\ targets' = targets \ {s}
  /\ Tell(s, 0, "restart")
  /\ UNCHANGED <<jobVars, poolVars, late, queue, turnVars, inflight, failing, phase>>

(* The consumers are cancelled and the pool is shut down: pending runs are
   cancelled with it, running ones go on.  A consumer's CancelledError passes
   its handlers, so it neither fails its job nor answers its sender. *)
DrainStops ==
  /\ LoopFree /\ phase = "notifying" /\ targets = {}
  /\ phase' = "stopped"
  /\ consumer' = [s \in Senders |-> "none"]
  /\ held' = [s \in Senders |-> 0]
  /\ Withdrawn(Turns) /\ work' = <<>>
  /\ UNCHANGED <<jobVars, late, queue, verdict, inflight, failing, targets, outbox>>

Drain == DrainClears \/ DrainStops \/ \E s \in Senders : DrainNotifies(s)

-----------------------------------------------------------------------------
Next == \/ \E t \in Turns : Arrive(t) \/ ThreadEnds(t) \/ CancelQueued(t)
        \/ FailJobSafe \/ ThreadStarts
        \/ \E s \in Senders : Consumer(s) \/ WatchTimesOut(s)
        \/ DrainStarts \/ Drain

Spec == Init /\ [][Next]_vars

(* The loop runs what is ready, threads run and a run ends within its
   dispatch bound (600 s, below the watch), sends return.  Nothing makes a
   turn arrive, a watch fire or a drain begin. *)
FairSpec == /\ Spec
            /\ WF_vars(FailJobSafe) /\ WF_vars(ThreadStarts) /\ WF_vars(Drain)
            /\ \A s \in Senders : WF_vars(Consumer(s))
            /\ \A t \in Turns : WF_vars(ThreadEnds(t))

-----------------------------------------------------------------------------
(* Properties. *)

TypeOK ==
  /\ status \in [Turns -> {"none", "queued", "running"} \cup JobTerminal]
  /\ text \in [Turns -> BOOLEAN]
  /\ future \in [Turns -> {"none", "pending", "running", "finished", "cancelled"}]
  /\ work \in Seq(Turns)
  /\ late \subseteq Turns
  /\ queue \in [Senders -> Seq(Turns)]
  /\ consumer \in [Senders -> {"none", "spawned", "waiting", "failing", "sending", "leaving"}]
  /\ held \in [Senders -> Turns \cup {0}]
  /\ verdict \in [Senders -> {"reply", "fallback"}]
  /\ inflight \in 0..GlobalCap
  /\ failing \subseteq [turn : Turns, why : {"overloaded", "executor unavailable", "not done", "draining"}]
  /\ phase \in {"no", "waiting", "notifying", "stopped"}
  /\ targets \subseteq Senders
  /\ outbox \in [Senders -> Seq((Turns \cup {0}) \X Kinds)]

(* The gate counts what it admitted: the counter is the number of queued and
   held turns until the drain resets it, and stays 0 from then on although
   the turns that still end release it once more. *)
GateCounts ==
  IF phase \in {"no", "waiting"}
    THEN inflight = Cardinality({t \in Turns : \E s \in Senders : t = held[s] \/ Contains(queue[s], t)})
    ELSE inflight = 0

(* A queued job is on its way: in its sender's queue; on the pool's with its
   consumer behind it; returned unstarted by a database error, with a consumer
   that has still to read its reply and will fail it; or about to be failed.
   Only the shutdown leaves one behind, whose run it cancelled or whose
   consumer it cancelled before the consumer saw the run return. *)
QueuedIsCarried ==
  \A t \in Turns : status[t] = "queued" =>
    \/ Contains(queue[SenderOf[t]], t)
    \/ future[t] = "pending" /\ Contains(work, t) /\ held[SenderOf[t]] = t
    \/ future[t] = "finished" /\ held[SenderOf[t]] = t /\ consumer[SenderOf[t]] = "waiting"
    \/ \E f \in failing : f.turn = t
    \/ future[t] \in {"cancelled", "finished"} /\ phase = "stopped"

(* What a sender hears about his turns comes in the order he sent them, each
   turn answered once; overload notices jump the queue. *)
AnsweredInOrder ==
  \A s \in Senders : \A i, k \in DOMAIN outbox[s] :
    LET m == outbox[s][i]
        n == outbox[s][k] IN
    i < k /\ {m[2], n[2]} \subseteq {"reply", "fallback"} => m[1] < n[1]

(* Every turn that arrives is answered, or its sender is told of the restart. *)
Heard(t) == \E m \in ToSet(outbox[SenderOf[t]]) : m[1] = t \/ m[2] = "restart"
TurnIsHeardOf == \A t \in Turns : status[t] # "none" ~> Heard(t)

(* "terminalize queued (never-started) jobs so they can't orphan as 'queued'":
   once the pool was shut down, all its threads busy, no job is queued. *)
DrainLeavesNoneQueued ==
  phase = "stopped" /\ Cardinality(Running) = PoolSize => \A t \in Turns : status[t] # "queued"

(* "a job that actually finished 'done' is read as ok=True above and never
   reaches here": a sender who gets the fallback has no finished reply. *)
FallbackMeansNoReply ==
  \A s \in Senders : \A m \in ToSet(outbox[s]) :
    m[2] = "fallback" => ~(status[m[1]] = "done" /\ text[m[1]])
=============================================================================
