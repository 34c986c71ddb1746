----------------------------- MODULE TaskFanout -----------------------------
(***************************************************************************)
(* Running one prompt on several coding CLIs (api/v1/tasks_fanout.py): the *)
(* in-memory ledger of tasks and the per-tenant counter that caps it, the  *)
(* dispatch of a run to Temporal or to the in-memory stub, cancelling, the *)
(* event stream of `alpha watch`, and FanoutChatCliWorkflow with its       *)
(* children (code-worker/workflows.py).                                    *)
(*                                                                         *)
(* The API is one event loop: what a handler does between two awaits is    *)
(* one action.  The real dispatch awaits Temporal between its check of the *)
(* cap and its records; a real cancel awaits it before it evicts.  One     *)
(* tenant: another's requests touch neither its records nor its counter.   *)
(***************************************************************************)
EXTENDS Integers, Sequences, FiniteSets, FiniteSetsExt, Functions

CONSTANTS Providers,     \* CLI platforms
          Orders,        \* the bodies of POST /run
          Cooldowns,     \* the sets of platforms a request may find in cooldown
          Modes,         \* values of USE_REAL_FANOUT_WORKFLOW
          Clients,       \* concurrent requests to run or cancel
          Watchers,      \* streams of `alpha watch`
          Cap,           \* MAX_TASKS_PER_TENANT
          MaxKids,       \* bound on the platforms of an order
          MaxRuns,       \* bound on the runs dispatched
          MaxFaults      \* bound on failed calls of Temporal and restarts of the API

Runs == 1..MaxRuns
Kids == 1..MaxKids
Merges == {"council", "all", "first-wins"}

ASSUME FanoutAssumption ==
  /\ Orders \subseteq [how : {"fanout", "chain", "default"}, list : Seq(Providers), merge : Merges]
  /\ \A o \in Orders : /\ Len(o.list) \in Kids
                       /\ o.how = "default" => Len(o.list) = 1
                       /\ o.how # "fanout" => o.merge = "first-wins"
  /\ Modes \subseteq BOOLEAN /\ IsFiniteSet(Clients) /\ Clients # {}
  /\ Cap \in Nat /\ MaxKids \in Nat /\ MaxRuns \in Nat /\ MaxFaults \in Nat

VARIABLES
  real,      \* settings.USE_REAL_FANOUT_WORKFLOW
  ledger,    \* _TASKS, and the tenant's entry of _TENANT_COUNTS
  run,       \* per dispatched run: the age of its records, whether a cancel was acknowledged
  request,   \* per client: the handler that awaits Temporal
  flow,      \* per run: its workflow and the workflow's children
  stream,    \* per watcher: its stream
  faults     \* failed calls and restarts so far

vars == <<real, ledger, run, request, flow, stream, faults>>

(* The record of run r's i-th child, and of r itself for i = 0. *)
Id(r, i) == <<r, i>>
Idle == [at |-> "idle", run |-> 0, order |-> <<>>, kids |-> {}]
NoRun == [age |-> "none", cancelled |-> FALSE]
NewRun == [NoRun EXCEPT !.age = "running"]
NoFlow == [at |-> "none", asked |-> FALSE, order |-> <<>>, kids |-> <<>>, success |-> FALSE]
NoStream == [at |-> "closed", id |-> Id(0, 0), told |-> "none"]

Init ==
  /\ real \in Modes
  /\ ledger = [tasks |-> <<>>, count |-> 0]
  /\ run = [r \in Runs |-> NoRun]
  /\ request = [c \in Clients |-> Idle]
  /\ flow = [r \in Runs |-> NoFlow]
  /\ stream = [w \in Watchers |-> NoStream]
  /\ faults = 0

-----------------------------------------------------------------------------
(* The ledger. *)

(* _evict_record on each of ids: a record that is gone already costs nothing,
   and the counter stops at zero. *)
Evict(l, ids) ==
  LET freed == Cardinality(ids \cap DOMAIN l.tasks) IN
  [tasks |-> Restrict(l.tasks, DOMAIN l.tasks \ ids),
   count |-> IF freed <= l.count THEN l.count - freed ELSE 0]

(* _sweep_expired_tasks. *)
Sweep(l) == Evict(l, {id \in DOMAIN l.tasks : run[id[1]].age = "expired"})

(* The records of run r and of its children; a parent's record lists them. *)
Enter(l, r, kids, billed) ==
  LET new == {Id(r, i) : i \in {0} \cup kids} IN
  [tasks |-> [id \in DOMAIN l.tasks \cup new |->
                IF id \notin new THEN l.tasks[id] ELSE IF id[2] = 0 THEN kids ELSE {}],
   count |-> l.count + billed]

(* The children of an order, by their places in its list; only a fan-out has
   any in the stub. *)
Planned(o) == IF real \/ o.how = "fanout" THEN DOMAIN o.list ELSE {}
Slots(o) == 1 + Cardinality(Planned(o))
Fits(l, o) == l.count + Slots(o) <= Cap

(* A run gets an id of its own. *)
Unused(r) == /\ run[r].age = "none" /\ flow[r].at = "none"
             /\ \A c \in Clients : request[c].run # r
Fresh == {r \in Runs : Unused(r) /\ \A q \in Runs : Unused(q) => r <= q}

-----------------------------------------------------------------------------
(* POST /run. *)

(* Over the cap, over the monthly tokens (not in the stub), or all platforms
   cooling: the sweep is all that happens. *)
RefuseRun(o) ==
  /\ real \/ ~Fits(Sweep(ledger), o)
  /\ ledger' = Sweep(ledger)
  /\ UNCHANGED <<real, run, request, flow, stream, faults>>

RunStub(o) ==
  /\ ~real /\ Fits(Sweep(ledger), o)
  /\ \E r \in Fresh :
       /\ ledger' = Enter(Sweep(ledger), r, Planned(o), Slots(o))
       /\ run' = [run EXCEPT ![r] = NewRun]
  /\ UNCHANGED <<real, request, flow, stream, faults>>

(* The check of the cap and the platforms that are not in cooldown; then the
   handler awaits start_workflow. *)
BeginRun(c, o) ==
  /\ real /\ request[c].at = "idle" /\ Fits(Sweep(ledger), o)
  /\ \E r \in Fresh, cooled \in Cooldowns :
       LET effective == {i \in DOMAIN o.list : o.list[i] \notin cooled} IN
       /\ effective # {}
       /\ request' = [request EXCEPT ![c] = [at |-> "starting", run |-> r, order |-> o, kids |-> effective]]
  /\ ledger' = Sweep(ledger)
  /\ UNCHANGED <<real, run, flow, stream, faults>>

(* Temporal starts the workflow, which starts its children. *)
StartFlow(c) ==
  /\ request[c].at = "starting"
  /\ LET q == request[c] IN
       flow' = [flow EXCEPT ![q.run] = [NoFlow EXCEPT !.at = "running", !.order = q.order,
                                                      !.kids = [i \in q.kids |-> "running"]]]
  /\ request' = [request EXCEPT ![c].at = "started"]
  /\ UNCHANGED <<real, ledger, run, stream, faults>>

(* The call fails, before the workflow started or with its answer lost; the
   handler answers 500 and records nothing. *)
StartFails(c) ==
  /\ request[c].at \in {"starting", "started"} /\ faults < MaxFaults
  /\ request' = [request EXCEPT ![c] = Idle]
  /\ faults' = faults + 1
  /\ UNCHANGED <<real, ledger, run, flow, stream>>

(* The slots billed are those of the request, the records those of the
   platforms that were left of it. *)
RecordRunUnbilled(c) ==                               \* mutant of RecordRun: the parent alone
  /\ request[c].at = "started"
  /\ ledger' = Enter(ledger, request[c].run, request[c].kids, 1)
  /\ run' = [run EXCEPT ![request[c].run] = NewRun]
  /\ request' = [request EXCEPT ![c] = Idle]
  /\ UNCHANGED <<real, flow, stream, faults>>
RecordRun(c) ==
  /\ request[c].at = "started"
  /\ ledger' = Enter(ledger, request[c].run, request[c].kids, Slots(request[c].order))
  /\ run' = [run EXCEPT ![request[c].run] = NewRun]
  /\ request' = [request EXCEPT ![c] = Idle]
  /\ UNCHANGED <<real, flow, stream, faults>>

-----------------------------------------------------------------------------
(* POST /{task_id}/cancel. *)

(* A record and the children it lists. *)
Family(r) == {Id(r, 0)} \cup (IF Id(r, 0) \in DOMAIN ledger.tasks
                               THEN {Id(r, i) : i \in ledger.tasks[Id(r, 0)]} ELSE {})

CancelStub(r) ==
  /\ ~real /\ Id(r, 0) \in DOMAIN ledger.tasks
  /\ ledger' = Evict(ledger, Family(r))
  /\ run' = [run EXCEPT ![r].cancelled = TRUE]
  /\ UNCHANGED <<real, request, flow, stream, faults>>

(* A child goes from its parent's list too. *)
CancelStubChildListed(r, i) ==                           \* mutant of CancelStubChild
  /\ ~real /\ Id(r, i) \in DOMAIN ledger.tasks
  /\ ledger' = Evict(ledger, {Id(r, i)})
  /\ UNCHANGED <<real, run, request, flow, stream, faults>>
CancelStubChild(r, i) ==
  /\ ~real /\ Id(r, i) \in DOMAIN ledger.tasks
  /\ LET l == Evict(ledger, {Id(r, i)}) IN
       ledger' = [l EXCEPT !.tasks = [id \in DOMAIN @ |-> IF id = Id(r, 0) THEN @[id] \ {i} ELSE @[id]]]
  /\ UNCHANGED <<real, run, request, flow, stream, faults>>

(* The workflow is asked to cancel; a workflow that has closed answers the
   request with an error, the client gets a 404 and the records stay. *)
AskCancel(c, r) ==
  /\ real /\ request[c].at = "idle" /\ run[r].age # "none" /\ flow[r].at = "running"
  /\ flow' = [flow EXCEPT ![r].asked = TRUE]
  /\ request' = [request EXCEPT ![c] = [Idle EXCEPT !.at = "cancelling", !.run = r]]
  /\ UNCHANGED <<real, ledger, run, stream, faults>>

AskFails(c) ==
  /\ request[c].at = "cancelling" /\ faults < MaxFaults
  /\ request' = [request EXCEPT ![c] = Idle]
  /\ faults' = faults + 1
  /\ UNCHANGED <<real, ledger, run, flow, stream>>

EvictRunAlone(c) ==                            \* mutant of EvictRun: the children stay
  /\ request[c].at = "cancelling"
  /\ ledger' = Evict(ledger, {Id(request[c].run, 0)})
  /\ run' = [run EXCEPT ![request[c].run].cancelled = TRUE]
  /\ request' = [request EXCEPT ![c] = Idle]
  /\ UNCHANGED <<real, flow, stream, faults>>
EvictRun(c) ==
  /\ request[c].at = "cancelling"
  /\ ledger' = Evict(ledger, Family(request[c].run))
  /\ run' = [run EXCEPT ![request[c].run].cancelled = TRUE]
  /\ request' = [request EXCEPT ![c] = Idle]
  /\ UNCHANGED <<real, flow, stream, faults>>

-----------------------------------------------------------------------------
(* FanoutChatCliWorkflow. *)

Ended(f, i) == f.kids[i] # "running"

(* ChatCliWorkflow ends by itself: its activity's attempts and its execution
   timeout are bounded. *)
ChildEnds(r, i, how) ==
  /\ flow[r].at # "none" /\ i \in DOMAIN flow[r].kids /\ ~Ended(flow[r], i)
  /\ flow' = [flow EXCEPT ![r].kids[i] = how]
  /\ UNCHANGED <<real, ledger, run, request, stream, faults>>

(* Temporal stops the child of a workflow that was cancelled or has closed,
   which is one more way to fail. *)
ChildStopped(r, i) ==
  /\ flow[r].at # "none" /\ i \in DOMAIN flow[r].kids /\ ~Ended(flow[r], i)
  /\ flow[r].asked \/ flow[r].at # "running"
  /\ flow' = [flow EXCEPT ![r].kids[i] = "failed"]
  /\ UNCHANGED <<real, ledger, run, request, stream, faults>>

(* council and all wait for every child. *)
Gather(r) ==
  /\ flow[r].at = "running" /\ ~flow[r].asked /\ flow[r].order.merge # "first-wins"
  /\ \A i \in DOMAIN flow[r].kids : Ended(flow[r], i)
  /\ flow' = [flow EXCEPT ![r].at = "completed",
                          ![r].success = \E i \in DOMAIN flow[r].kids : flow[r].kids[i] = "ok"]
  /\ UNCHANGED <<real, ledger, run, request, stream, faults>>

(* first-wins keeps one handle per platform, the last, and takes what has
   ended when the first of them ends. *)
Held(f) ==
  {i \in DOMAIN f.kids : \A j \in DOMAIN f.kids : j > i => f.order.list[j] # f.order.list[i]}
Decide(r) ==
  /\ flow[r].at = "running" /\ ~flow[r].asked /\ flow[r].order.merge = "first-wins"
  /\ LET done == {i \in Held(flow[r]) : Ended(flow[r], i)} IN
       /\ done # {}
       /\ flow' = [flow EXCEPT ![r].at = "completed",
                               ![r].success = \E i \in done : flow[r].kids[i] = "ok"]
  /\ UNCHANGED <<real, ledger, run, request, stream, faults>>

(* A cancelled gather still waits for its children to stop; the cancelled
   wait of first-wins does not. *)
CloseCancelled(r) ==
  /\ flow[r].at = "running" /\ flow[r].asked
  /\ flow[r].order.merge # "first-wins" => \A i \in DOMAIN flow[r].kids : Ended(flow[r], i)
  /\ flow' = [flow EXCEPT ![r].at = "cancelled"]
  /\ UNCHANGED <<real, ledger, run, request, stream, faults>>

-----------------------------------------------------------------------------
(* GET /{task_id}/events/stream, which polls once a second. *)

(* The statuses a poll can read: that of the workflow, or in the stub that of
   the record's age, "cancelled" when there is no record. *)
StatusOf(id) ==
  IF real THEN flow[id[1]].at
  ELSE IF id \notin DOMAIN ledger.tasks THEN "cancelled"
  ELSE IF run[id[1]].age = "running" THEN "running" ELSE "completed"

OpenStream(w, id) ==
  /\ stream[w].at = "closed" /\ run[id[1]].age # "none"
  /\ IF real THEN id[2] = 0 /\ flow[id[1]].at # "none" ELSE id \in DOMAIN ledger.tasks
  /\ stream' = [stream EXCEPT ![w] = [at |-> "open", id |-> id, told |-> "none"]]
  /\ UNCHANGED <<real, ledger, run, request, flow, faults>>

Poll(w) ==
  /\ stream[w].at = "open"
  /\ LET s == StatusOf(stream[w].id) IN
       stream' = [stream EXCEPT ![w] = IF s = "running" THEN @ ELSE [@ EXCEPT !.at = "ended", !.told = s]]
  /\ UNCHANGED <<real, ledger, run, request, flow, faults>>

(* The 30 minutes are over, which a stub's run does not take; or a poll
   failed. *)
GiveUp(w) ==
  /\ real /\ stream[w].at = "open"
  /\ stream' = [stream EXCEPT ![w] = NoStream]
  /\ UNCHANGED <<real, ledger, run, request, flow, faults>>

-----------------------------------------------------------------------------
(* Time, and the process. *)

(* A stub's run completes after 8 seconds; records expire after 600, those of
   a workflow that still runs too. *)
Tick(r) ==
  /\ run[r].age \in {"running", "completed"}
  /\ run' = [run EXCEPT ![r].age = IF @ = "running" /\ ~real THEN "completed" ELSE "expired"]
  /\ UNCHANGED <<real, ledger, request, flow, stream, faults>>

(* A restart loses the ledger and every handler; the workflows go on. *)
Restart ==
  /\ faults < MaxFaults
  /\ ledger' = [tasks |-> <<>>, count |-> 0]
  /\ request' = [c \in Clients |-> Idle]
  /\ stream' = [w \in Watchers |-> NoStream]
  /\ faults' = faults + 1
  /\ UNCHANGED <<real, run, flow>>

-----------------------------------------------------------------------------
Ids == {Id(r, i) : r \in Runs, i \in {0} \cup Kids}

Handler(c) == StartFlow(c) \/ RecordRun(c) \/ EvictRun(c)
Workflow(r) == Gather(r) \/ Decide(r) \/ CloseCancelled(r)
Child(r, i) == ChildEnds(r, i, "ok") \/ ChildEnds(r, i, "failed") \/ ChildStopped(r, i)

Next ==
  \/ \E o \in Orders : RefuseRun(o) \/ RunStub(o) \/ \E c \in Clients : BeginRun(c, o)
  \/ \E c \in Clients : Handler(c) \/ StartFails(c) \/ AskFails(c) \/ \E r \in Runs : AskCancel(c, r)
  \/ \E r \in Runs : CancelStub(r) \/ Workflow(r) \/ Tick(r)
                     \/ \E i \in Kids : CancelStubChild(r, i) \/ Child(r, i)
  \/ \E w \in Watchers : Poll(w) \/ GiveUp(w) \/ \E id \in Ids : OpenStream(w, id)
  \/ Restart

Spec == Init /\ [][Next]_vars

-----------------------------------------------------------------------------
(* Properties. *)

TypeOK ==
  /\ real \in BOOLEAN
  /\ DOMAIN ledger.tasks \subseteq Ids /\ ledger.count \in Nat
  /\ \A id \in DOMAIN ledger.tasks : ledger.tasks[id] \subseteq Kids
  /\ run \in [Runs -> [age : {"none", "running", "completed", "expired"}, cancelled : BOOLEAN]]
  /\ \A c \in Clients : request[c].at \in {"idle", "starting", "started", "cancelling"}
  /\ faults \in 0..MaxFaults

(* A child's record has the record of its parent beside it, which lists it,
   and what a parent lists has a record: no orphan counts against the tenant
   for ever, and no parent reports a child that was cancelled ("orphan child
   records would otherwise count against the tenant forever"). *)
Whole(tasks) ==
  /\ \A id \in DOMAIN tasks : id[2] # 0 => /\ Id(id[1], 0) \in DOMAIN tasks
                                           /\ id[2] \in tasks[Id(id[1], 0)]
  /\ \A id \in DOMAIN tasks : \A i \in tasks[id] : Id(id[1], i) \in DOMAIN tasks
FamiliesWhole == Whole(ledger.tasks)

(* The counter covers the records, so the cap bounds the ledger's memory; in
   the stub it is their number. *)
CountCovers ==
  /\ Cardinality(DOMAIN ledger.tasks) <= ledger.count
  /\ ~real => ledger.count = Cardinality(DOMAIN ledger.tasks)

(* The stub never exceeds the cap, since it does not await between the check
   and the records; dispatches that wait for Temporal at the same time exceed
   it by what the others of them asked for, at most. *)
CapHeld ==
  ledger.count <= IF real THEN Cap + (Cardinality(Clients) - 1) * (1 + MaxKids) ELSE Cap

(* A cancel that was acknowledged is kept: the run has no record, of a child
   neither, and its workflow does not complete; and no watcher of a run is told
   of a cancel that nobody asked for, unless the record had expired. *)
CancelIsKept ==
  /\ \A r \in Runs : run[r].cancelled => /\ \A id \in DOMAIN ledger.tasks : id[1] # r
                                         /\ flow[r].at # "completed"
  /\ \A w \in Watchers :
       LET r == stream[w].id[1] IN
       stream[w].told = "cancelled" =>
         run[r].cancelled \/ flow[r].asked \/ run[r].age = "expired" \/ stream[w].id[2] # 0

(* "The in-flight cap above bounds Temporal workflow inventory". *)
Live(r) == IF flow[r].at = "none" THEN 0
           ELSE (IF flow[r].at = "running" THEN 1 ELSE 0)
                + Cardinality({i \in DOMAIN flow[r].kids : ~Ended(flow[r], i)})
CapBoundsInventory == MapThenSumSet(Live, Runs) <= Cap

(* "All eviction paths go through here so the counter never drifts". *)
CountNeverDrifts == ledger.count = Cardinality(DOMAIN ledger.tasks)

(* "`first-wins` returns the first successful child": a run fails only if no
   child succeeds or could still. *)
FirstSuccessWins ==
  \A r \in Runs : flow[r].at = "completed" /\ ~flow[r].success =>
    \A i \in DOMAIN flow[r].kids : flow[r].kids[i] = "failed"
=============================================================================
