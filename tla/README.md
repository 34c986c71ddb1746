# Verification of AgentProvision

TLA+ models of the parts of AgentProvision whose correctness rests on the order
in which things happen, the TLC runs that check them on small instances, and
theorems that TLAPS has checked for every value of the constants. Paths are
relative to the repository root.

- [System](#system): the parts, their state, how they interact, what is hard
- [Modules](#modules): which module models what, and how it corresponds to the code
- [Runs](#runs): what TLC checks, the bounds, the fairness
- [Proofs](#proofs): what is proved, and along which argument
- [Divergences](#divergences): where code and documents disagree
- [Not modelled](#not-modelled) and [Plan](#plan)

How to run: `tlc -config <X>.cfg <MCModule>.tla` and `tlapm <M>_proofs.tla` in this
directory. `PROJECT.json` lists the components, the runs, for each property a
mutation of the code that breaks it, the source lines of every definition, and
the hazards of the code with the properties that guard them.

## System

AgentProvision is a multi-tenant platform that runs AI agents. A FastAPI service
(`apps/api`) keeps its state in Postgres and Redis, starts Temporal workflows, and
talks to code workers that run vendor CLIs, to WhatsApp, to a desktop client
(Luna) and to a web client. Several API workers and threads serve one tenant at a
time; Postgres transactions run at READ COMMITTED and most handlers take no lock.

| Part | State it keeps | Operations | Talks to | What is hard | What makes it correct |
|---|---|---|---|---|---|
| **Desktop control** (`services/desktop_control_service.py`) | `desktop_commands`, approval grants, envelope nonces, tenant switches | enqueue, approve, switch, claim, complete, sweep, Stop | the Luna shell polls; agents enqueue; the operator approves | each request reads, computes and writes later; two workers, Stop and the clock meet at every row; repeated completions | no double lease, no overspent grant, no work without approval or against a switch, one outcome per command, every command closes |
| **Resilient executor, policy** (`packages/cli_orchestrator`) | cursor, attempt, carried hint, counters of one `execute` call; its events | gate, preflight, run, retry, fallback, stop | adapters; webhook subscribers; learning store | five exits, each writing events, metadata and result; a hint carried over several platforms | events, metadata and result agree; setup errors are always told; retries are bounded; a walk goes forward only |
| **CLI resolver and routing** (`services/cli_platform_resolver.py`, `agent_router.py`) | cooldowns in Redis; a chain and a cursor per turn | resolve, walk (two walkers), cool, expire | the executor; chat turns of one tenant share the cooldowns | a chain is built from reads at different times and walked for minutes while others cool platforms | a limit a legacy turn met spares later turns; no turn gives up before the floor; both walkers make the same promise; turns end |
| **Chat jobs and event stream** (`services/chat_jobs.py`, `api/v1/chat.py`) | `chat_jobs`, `chat_job_events`; a cursor per stream and per client | create, dispatch, run, cancel, delete, stream, reconnect | worker threads, web client, CLI, WhatsApp | every statement of the worker commits on its own; cancel, delete, restart and readers between any two | run once, status follows a lifecycle, log sealed before status, clients see a gap-free log and the true outcome, jobs settle |
| **WhatsApp dispatch** (`services/whatsapp_service.py`) | queues per sender, consumers, in-flight count, pool, drain phase | admit, consume, watch, reply, drain | chat jobs; the WhatsApp client library | event loop, pool threads and the drain share jobs; a timed-out watch leaves its thread running | exact admission count, no lost turn, per-sender order, every sender hears of every turn |
| **Collaboration** (`services/collaboration_service.py`, `workflows/coalition_workflow.py`, `api/v1/collaborations.py`) | `collaboration_sessions`, blackboard entries; workflow state; streams | advance a phase, run the workflow, retry activities, stream to panels | Temporal, CLI steps, Redis channel, web panels | `advance_phase` is two transactions without a lock; activities are retried after a lost commit; a stream catches up, then subscribes | entries by the right role, the board replays the pattern, the outcome is the accepted draft, the workflow ends |
| **Task fan-out** (`api/v1/tasks_fanout.py`, `FanoutChatCliWorkflow` in `code-worker/workflows.py`) | an in-memory ledger of task records and a counter per tenant; the workflow and its children | run, cancel, stream, sweep | Temporal, code workers, the CLI's `alpha watch` | the cap is checked before an await and billed after it; cancel awaits and evicts; restarts lose the ledger and not the workflows | records come and go as families, the counter covers them, the cap holds up to what is in flight, a cancel is kept |
| **Review council** (`services/review_service.py`, `workflows/review_workflow.py`, `api/v1/reviews.py`) | the review's row with a JSON cache of findings, blackboard entries, workflows | start, record, close a round, reply | child workflows on code workers, operators | the row is read, changed and written without a lock; activities are retried; a reply opens a round while the last one still reports | status and agreed findings fit each other, two CLIs behind each, every slot of the cache has its entry |
| **Dynamic workflows** (`workflows/dynamic_executor.py`, `workflows/activities/dynamic_step.py`, `api/v1/dynamic_workflows.py`) | `workflow_runs` rows, step logs; an executor per run and per iteration | start, step, loop, approve, finalize, continue as new | Temporal, approvers, the kill-switch | children finalize the run's row; attempts outlive their timeout; a monitor restarts itself for ever | the row ends with what the run returned, the log tells the truth about what runs, the switch ends a chain |
| **External agents** (`services/external_agent_reliability.py`, `external_agent_adapter.py`, `api/v1/external_agents.py`) | a breaker and a failure counter per agent in Redis, `external_agents.status` | call, retry, fall back, mark, health check | agents of other vendors; chat steps and the test endpoint | marks are flushed in the caller's transaction and keep the row locked over minutes of fallback; counter and breaker are separate commands | an answer reaches its caller, tries are bounded, calls end |
| Agent tasks, plans, session events | rows, sequence numbers | see the [Plan](#plan) | each other, chat, Temporal | partial failure, retries, replay | planned |
| Everything else (memory, emotion, learning, skills, connectors, provisioning, web, desktop client, MCP server, Rust services, deployment) | mostly rows of one request each | | | little control flow of its own | see [Not modelled](#not-modelled) |

How the parts meet. A chat turn enters through the web endpoint or WhatsApp; both
create a *chat job* and hand it to `run_job_blocking`, whose one call
`post_user_message` reaches *routing*, which walks a chain of CLIs itself or
through the *resilient executor*. The executed agent may enqueue *desktop
commands*. A *collaboration* drives such CLI steps from a Temporal workflow and
publishes its board on the event channel. A *fan-out* and a *review council* start
children of the same chat workflow on the code workers, a *dynamic workflow* child
executors and code tasks. Shared state between parts is confined
to database rows (the job's row is written by worker threads, by the WhatsApp loop
and by the cancel endpoint) and to Redis (cooldowns, channels); the modules share
the corresponding abstract specifications: `JobLifecycle` for the row, which
`ChatJobs` implements and whose statements `WhatsAppDispatch` reuses, and
`FallbackPolicy` and `FallbackChain` for the walk, which the executor and both
routing walkers implement.

## Modules

| Module | Kind | Models |
|---|---|---|
| `DesktopControl` | detailed | `desktop_control_service.py`: every request split at each point where another transaction may commit |
| `DesktopAuthority` | abstract | the same service with atomic requests: queue, approve, authorise, close |
| `FallbackPolicy` | pure | the decision table `decide` of `policy.py` |
| `FallbackChain` | abstract | a walk over a chain: forward only, bounded repeats, one ending |
| `ResilientExecutor` | detailed | `ResilientExecutor.execute`, one call, every exit |
| `CliRouting` | composition | concurrent turns: resolver, shared cooldowns, both walkers; uses `FallbackPolicy`, implements `FallbackChain` |
| `JobLifecycle` | abstract | the status of a chat job |
| `ChatJobs` | detailed | worker, cancel, watcher, deletion, restart, stream and reconnecting client |
| `WhatsAppDispatch` | composition | event loop, per-sender consumers, pool, watch and drain over chat jobs |
| `Collaboration` | composition | session, blackboard, coalition workflow, requests, panels |
| `TaskFanout` | composition | the API's event loop with its ledger, the workflow and its children, streams |
| `ReviewCouncil` | composition | row and blackboard, workflows and recorders, operators |
| `DynamicWorkflow` | detailed | request, interpreter with child executors, activities, step log, kill-switch |
| `ExternalAgents` | detailed | concurrent calls with retries, breaker, row marks, locks and fallbacks |
| `MC*` | instances | model values, functions and symmetry for the cfgs |
| `*_proofs` | theorems | see [Proofs](#proofs) |

**DesktopControl.** A row of `desktop_commands` is `status`, `created`, `lease`,
`approval`, with `envelope` and `nonce` for what the claim signed; a grant row is
`grantStatus`, `remaining` and `terms`; `enabled` is the tenant's switches and
`featureLock` the `FOR UPDATE` on their row. A worker's transaction is `pc` and
`ctx`: `ClaimPick` reads the oldest pending command and sweeps, `ClaimGate` takes
the feature lock and checks, `ClaimMatch` finds a grant, `ClaimCommit` runs the
conditional UPDATEs and commits or, having lost, rolls back. `CompleteRead` and
`CompleteCommit` split a completion in the same way, and grant creation is split
between its read of the command and its write. Evaluating the WHERE clauses at
the commit is what an UPDATE at READ COMMITTED gets, since it holds the row lock
until then. Time is an integer; TTLs, leases and grant lives are a few ticks.
Left out: target and argument checks of native control, ownership of device and
session (all rows belong to one shell: every query filters on it), event rows and
observation uploads.

**ResilientExecutor.** A call is `at` a place of `execute`, at
`chain_index` `index` and `attempt` `tries`. One action per exit of its loop: the gate
(`Start`), a platform without an adapter, preflight that passes or fails, a run that
succeeds or fails with any status, and the exhausted chain. Each failing exit asks
`Decide`. `log` is what webhook subscribers and the metadata mirror received, in
order. The adapter is a nondeterministic outcome. The policy itself repeats only
the first attempt, so the executor's own cap (`_PER_PLATFORM_ATTEMPT_CAP` = 2) never
bites; `Retries` carries that branch for other caps. Texts, redaction, metrics and
durations are left out.

**CliRouting.** `BeginTurn`, `ResolveOne` and `Resolved` build a turn's chain from
cooldowns read one at a time; the legacy walker is the `Attempt...` actions, the
resilient one `ExecutorAttempt`. `Expire` ends a cooldown at any time.
`limited` and `since` are history variables: which platforms reported a quota or auth
failure to a legacy walk less than a cooldown ago, and which of them when a turn began. Left out: the classification of error texts,
the local fast path, the fallback when the resolver itself raises, and the
per-process cooldown map used while Redis is down.

**ChatJobs.** `pc` is the next statement of a `run_job_blocking` call; every
statement is a transaction and a step. `append_event` is one step because of its
advisory lock. A row can be deleted under the worker (foreign keys cascade).
`DatabaseError` leaves the session in its failed transaction, as the handler does.
The stream's server polls the log, then the status; the client reconnects from its
own cursor. `MaxIters` = 2 stands for 600 polls. The 2000-event page limit is out of
reach of a worker that logs at most three events. Dispatching a job twice is what
the docstring of `run_job_blocking` allows for. With the session deleted the row is
gone as well, so the `failVanished` statement finds nothing to write.

**WhatsAppDispatch.** What a coroutine does between two awaits is one step of the
loop, except that the pool's threads may commit before the loop's `fail_job`, which
is a step of its own (`failing`). `_chat_dispatch_lock` is never held over an await,
so no one ever waits for it. A run is `future` (`pending` on `work`, `running`,
`finished`, `cancelled`); `late` are those whose watch gave up. The thread is
`run_job_blocking` reduced to its two ends, and it does not tell failed from
cancelled. A run that is withdrawn stays on the pool's queue until a thread drops it. A run may
also return with its job still queued, when `start_job` and then the handler's own writes
fail in the database (`ThreadStarts`), or still running (`ThreadEnds`); the consumer that
reads no reply then fails the job.
The jobs the drain fails are failed in any order. Left out: pairing, sessions, media, a tenant without user or agent, and a
database that fails under the loop's own short statements. Sends are assumed to
return, and restart notices (best effort in the code) to arrive.

**Collaboration.** `advance_phase` is `BeginAdvance` (read and check), `AddEntry`
(commits version and entry under the board's row lock), `ReloadSession` (the commit
expired the object) and `CommitAdvance`, which flushes only changed columns
(`Flushed`). A session of a pattern in `Joint` takes requests of clients while a workflow
drives it, another one is driven or open to clients. The workflow is `flow`; each activity may be lost and is retried three
times. A panel catches up from the database, then subscribes. The order in which
JSONB returns keys decides which of an agent's roles counts (`RoleOrder`). Left out:
template selection, entries and resolutions posted through the blackboard's own API,
attempts that time out and go on running, and the stream while Redis is down.

**TaskFanout.** What a handler does between two awaits is one action: the stub's
dispatch is atomic (`RunStub`), the real one is `BeginRun` (sweep, cap, cooldowns),
`StartFlow` (Temporal) and `RecordRun`, a cancel `AskCancel` and `EvictRun`. `ledger`
is `_TASKS` with `_TENANT_COUNTS`; a parent's record lists its children. `Evict` is
`_evict_record`, which stops the counter at zero. `flow` is the workflow: `Gather`
for council and all, `Decide` for first-wins, whose handles are kept by platform
(`Held`). Time is the age of a run's records. Left out: GET /status, which reads what
the stream reads, the token budget, estimates, merged texts, and a switch of
`USE_REAL_FANOUT_WORKFLOW` while records are warm.

**ReviewCouncil.** A session is a read (`Load`, `LoadReply`) and a flush (`Write`,
`WriteReply`) of the columns that differ from it (`Flush`); the commit of the
blackboard entry, or the rollback when it fails, has the row read again in between
(`Append`, `AppendFails`). `marks` is a history beside the cache: the round each slot's
recorder was in when it read the row first. A source is a workflow's child or a POST /record. The
activity's three attempts are `Retry`, also after a commit whose answer was lost.
Left out: who may record, the choice of the roster, parsing and clustering (a finding
is a cluster), and attempts that go on after their timeout.

**DynamicWorkflow.** `stack` holds the executors that wait for each other, the run's
own first: an iteration of `for_each` is a child with the same `run_id`. `Begin`
dispatches on the step's type, `Join`, `Iterate` and `Decide` end a step, `Finalize`
writes the row on every way out, `Check` and `Wake` are the monitor's loop. `outcome` is
what the run returns (`Return`), `stopped_by_killswitch` from `Check`, whose row says completed.
`execute_dynamic_step` is `Attempt` and `AttemptEnds`; an attempt that times out goes
on (`late`), and every end of an attempt closes the log rows of its step (`open`).
What a step computes is left out, because the executor looks at none of it: a
`condition` that fails only continues with the next step. Left out too: the
notification, log writes that fail, definitions and their validation, the launcher
that starts an executor without a row, and cancelled or terminated workflows.

**ExternalAgents.** `call` is where an `external_agent_call` is (`at`), for which agent,
how deep in fallbacks, at which attempt, and the status it last saw in the row (`seen`:
SQLAlchemy writes only what differs). `writes` are the marks its transaction has
flushed, and so the rows it has locked: `Mark` waits while another call holds the row,
and `Abort` is Postgres breaking a cycle of waits (`InCycle`). A dispatch to an agent
with a credential commits on the way (`Keyed`), the test endpoint commits at the end
(`Tested`), a workflow step rolls back. INCR and SET NX are two steps (`RecordFailure`,
`Trip`), DEL of both keys one (`RecordSuccess`). Left out: the protocols (a dispatch
answers or fails), the non-retryable error, which no protocol raises, outages of Redis
and Postgres, agents deleted during a call, and call logs. A health check reads and
writes at once.

## Runs

Twelve runs. A passing run visits its whole state space; together they fire every
action.

| Run | Instance | Shows |
|---|---|---|
| `desktop_small` | 2 commands, 1 grant with 2 actions, 2 workers, 3 ticks; 2.1 M states | `LeasedOnce`; `GrantLedger`: what a grant spent is what was signed under it, also after rollbacks; `NonceBurntWithResult`; `OutcomeOnlyExpires`; `NoEnvelopeWhileDisabled`; `ImplementsAuthority`: the interleaved transactions implement the atomic service |
| `desktop_kinds` | a native command, a dry run, grants of either kind; fair; 0.6 M states | `EnvelopeFitsApproval`: grants never cross kinds or commands; `QueueDrains`: every open command ends |
| `executor_calls` | 6 chains of up to 3 platforms, one of them without an adapter, 5 lineages; 148 k states | `MirrorAgreesWithEvents`: what is attempted, announced and mirrored agrees; `ImplementsFallbackChain` |
| `routing_turns` | a legacy and a resilient turn, 3 platforms; 0.53 M states | `LimitSparesLaterTurns`: of the limits a legacy walk meets; `FloorBeforeSilence`, `TurnsEnd`, `WalksImplementFallbackChain` |
| `chatjobs_turns` | a job dispatched twice, one client, a watcher, 1 fault, 1 restart, 1 drop; fair; 218 k states | `RunsOnce`, `LogSealed`, `LifecycleRefined`, `CancelHonoured`, `JobSettles`, `ReaderTold` |
| `whatsapp_dispatch` | 3 turns of 2 senders, pool and caps of 2, drain; fair; 0.38 M states | `GateCounts`, `QueuedIsCarried`, `AnsweredInOrder`, `TurnIsHeardOf` |
| `collaboration_sessions` | 5 patterns, 4 of them also driven by a workflow and one of these with a client beside it; an agent per role, or one that plans and verifies; 2 rounds, 1 client, 1 panel, 3 crashes; fair; 1.2 M states | `BoardFollowsPattern`, `OutcomeIsAccepted`, `EntriesByRole`, `ShownInOrder`, `WorkflowEnds` |
| `fanout_runs` | 2 runs of 2 kinds, both modes, 2 clients, a watcher, cap 3, 1 fault; 1.3 M states | `FamiliesWhole`, `CountCovers`, `CancelIsKept` |
| `review_rounds` | 2 CLIs, 2 rounds, 2 workflows, 1 operator, 1 odd event; 2.7 M states | `AskedForSomething`, `AgreedByTwo`, `SlotsAreAudited`: a slot's CLI has an entry for the round it was recorded in |
| `dynamic_monitor` | a loop with an approval and a parallel step, a child, a call, all over again; 1 fault; fair; 235 k states | `EndIsRecorded`, `RunningIsTrue`, `ChainDrains` |
| `external_calls` | 2 agents that fall back to each other, to themselves or to nobody, 2 calls, one that commits and one that rolls back, 2 attempts; fair; 1.1 M states | `AnswerIsReturned`: without a cycle of fallbacks no lock wait costs an answer; `CallsEnd` |
| `dynamic_gate` | a packet drafted, approved and saved | `GateHolds`, an expected violation, see [Divergences](#divergences) |

**Bounds and why they are enough.** Desktop: a lost compare-and-swap needs two
workers on one row, a blocked queue a second command, a spent grant that is used
again a budget of two and two commands; three ticks let a lease, a pending
command and a grant each expire before and after another step. A command is
enqueued at the first tick (`desktop_small`) or the first two (`desktop_kinds`).
Executor: chains of no platform to three, with the floor last, ahead of another or
absent and with a platform that has no adapter, reach every end of the loop; a lineage
of length 0 to 3, with a repetition,
both refusals. Routing: two turns are what it takes for one to cool a platform the
other has read; the legacy turn meets quota failures and not auth failures, which take the
same steps, the resilient one meets both, which cool nothing (see below). Chat jobs: jobs do not share state, so
one is enough; a second worker is the duplicate dispatch; two polls let a stream end
by its timeout. WhatsApp: with three turns
one sender has two of them queued, both pool threads can be taken (one by a run its
watch gave up) and the global cap of two refuses the third; the per-sender cap is the
other conjunct of the same test. Collaboration: `MaxEntries` (eight entries, three
where a client meets the workflow) keeps clients from posting without end and admits a
complete run of every pattern with a repeated phase; the workflow's entries are not counted.
A client and a workflow on one session are run for `plan_verify`, the shortest pattern, where
each can move the session on between check and entry of the other; three crashes are one lost attempt more
than the workflow survives; debate_resolve is driven by the client only, because a
retried record of the workflow breaks `BoardFollowsPattern` there (see below). Fan-out: two
runs are a dispatch that waits while another is recorded, expires or is cancelled; a
cap of three admits one council and refuses a second; a platform in cooldown makes a
run smaller than it was billed. Review: two rounds end by agreement, by its absence
and by the limit, and a second workflow reports into the first one's round; the odd
event is one of a retry, a failed dispatch, a failed entry, an output by hand.
Dynamic: two iterations make a second child on the run's row, the parallel step has
a call with a retry beside one without, and a fault of each kind is reached, if not
two in one behaviour. External agents: two calls are what a cycle of lock waits needs; one
agent has a credential and one has none; with a second fallback behind the first, depth
is cut. A failure opens the breaker at once, which may close again at once: a threshold
of two adds no way for calls to meet, and the two calls could not reach it and still
wait for each other.

**Fairness.** Stated only in `FairSpec` (or in `CallSpec` and `RoutingSpec`) and only
for what the code schedules by itself: polling shells claim and the answer to a
claim's completion commits, and time passes (desktop); an adapter call and an
attempt end, because a dispatched workflow has an execution timeout (executor,
routing); threads run, the server's poll loop and the client's reconnect timer go on
(chat jobs); the loop runs what is ready, runs end within 600 s, below the 660 s
watch, and sends return (WhatsApp); Temporal schedules every task and times out lost
attempts (collaboration); the request is served, the worker polls, timers fire and
attempts end (dynamic workflows, as one action, since an executor always has
something it may do); threads run, dispatches time out and Postgres looks for cycles of
lock waits (external agents). All of it is weak fairness. Nothing makes a user create,
approve, cancel or disconnect, a shell report, a watch fire, a drain begin or a
process crash.

**Deadlock** is not checked: every system here may come to rest, with all commands
closed, all turns ended, or a bound reached.

## Proofs

| Theorem | States |
|---|---|
| `DesktopControl_proofs!TypeCorrect`, `NeverLeasedTwice`, `LedgerBalances`, `EnvelopesFit` | `[]TypeOK`, `[]LeasedOnce`, `[]GrantLedger`, `[]EnvelopeFitsApproval` |
| `DesktopControl_proofs!OutcomesOnlyExpire`, `DeadGrantsStayDead`, `DisabledKindsGetNoEnvelope`, `NoncesBurnWithResults` | the action properties of the same names |
| `DesktopControl_proofs!Refinement` | `DesktopControl` implements `DesktopAuthority` |
| `ChatJobs_proofs!SpecRunsOnce`, `SpecLogSealed`, `SpecCancelHonoured`, `SpecLifecycleRefined` | `[]RunsOnce`; `LogSealed`; `CancelHonoured`; the rows implement `JobLifecycle` |
| `Collaboration_proofs!SpecEntriesByRole`, `SpecShownInOrder` | `[]EntriesByRole`, `[]ShownInOrder` |
| `Collaboration_proofs!SpecOutcomeIsAccepted`, `SpecBoardFollowsPattern` | `OutcomeIsAccepted`, `[]BoardFollowsPattern`: both about sessions with one contributor |
| `TaskFanout_proofs!FamiliesAlwaysWhole`, `CountAlwaysCovers`, `CapAlwaysHeld`, `CancelsAlwaysKept` | `[]FamiliesWhole`, `[]CountCovers`, `[]CapHeld`, `[]CancelIsKept` |
| `ReviewCouncil_proofs!AlwaysAskedForSomething`, `AlwaysAgreedByTwo`, `SlotsAlwaysAudited` | `[]AskedForSomething`, `[]AgreedByTwo`, `[]SlotsAreAudited` |
| `DynamicWorkflow_proofs!EndAlwaysRecorded`, `RunningAlwaysTrue` | `[]EndIsRecorded`, `[]RunningIsTrue` |
| `WhatsAppDispatch_proofs!GateAlwaysCounts`, `QueuedAlwaysCarried`, `AlwaysAnsweredInOrder` | `[]GateCounts`, `[]QueuedIsCarried`, `[]AnsweredInOrder` |
| `Fallbacks_proofs!AnswersAlwaysReturned`, `TriesAlwaysBounded` | `[]AnswerIsReturned`, `[]TriesBounded` of `ExternalAgents` |
| `Fallbacks_proofs!MirrorAlwaysAgrees`, `CallIsTyped` | `[]MirrorAgreesWithEvents`, `[]CallTypeOK` of `ResilientExecutor` |
| `Fallbacks_proofs!FloorAlwaysBeforeSilence`, `LimitsSpareLaterTurns`, `RoutingIsTyped` | `[]FloorBeforeSilence`, `LimitSparesLaterTurns`, `[]RoutingTypeOK` of `CliRouting` |
| `Fallbacks_proofs!CallImplementsFallbackChain`, `BothWalkersImplementFallbackChain` | the executor's calls, and the turns of both walkers, implement `FallbackChain` |
| `Fallbacks_proofs!ChainsAreDistinct` | no resolved chain names a platform twice |

They hold for any number of commands, grants, workers, jobs, readers, faults,
crashes, agents, contributors, panels, runs, reviewers, rounds, calls, fallbacks,
senders, turns, pool threads, platforms and chains, and for every definition
of a dynamic workflow to loops nested three deep. (`Fallbacks_proofs` extends three
modules, which is why the names of two of their specifications are `CallSpec` and
`RoutingSpec`.) The assumptions are those the modules declare
(`ConstantsAssumption`, `ChatJobsAssumption`, `CollaborationAssumption`,
`DispatchAssumption`, `FanoutAssumption`, `ReviewAssumption`, `WorkflowAssumption`,
`AgentsAssumption`, `ExecutorAssumption`, `RoutingAssumption`): types of
constants, and that null ids are not ids. TLC evaluates them on each run. Some theorems assume more:

- `OutcomeIsAccepted` and `BoardFollowsPattern` are themselves about sessions with one
  contributor at a time (`OneContributor`: driven, and of a pattern that takes no requests
  beside, or open to one client). With two they are false (`AllPhasesComplete` below).
- `SpecBoardFollowsPattern` assumes `RetryIsRefused`: the agent prepared for a phase of a
  driven pattern may not speak in the next one. Where it may, a retried record posts
  into the next phase (`WrittenForPhase` below). `RefusedWhereChecked` in `MCCollaboration`
  has TLC evaluate it on the run's casts.
- `AnswersAlwaysReturned`: the property itself is about fallbacks without a cycle
  (`Acyclic`); `AnswerIsAlwaysReturned` below is what happens otherwise.
- `MirrorAlwaysAgrees` assumes `Usual`: chains name no platform twice, which
  `ChainsAreDistinct` shows of the chains the resolver builds, and a platform may be
  tried twice (`_PER_PLATFORM_ATTEMPT_CAP` = 2, `executor.py:191`). With a platform twice in
  a chain `platform_attempted` skips the second; with a cap of one a failed run the
  policy wants retried would leave its platform unannounced and uncounted.
- `LimitsSpareLaterTurns`: the property itself is about limits met by legacy walks. The
  executor is handed nothing to cool a platform with (`agent_router.py:1589`): `LimitsCool` below.
- `EndAlwaysRecorded`: the property reads a return of `stopped_by_killswitch` as completed,
  which is what the row says; `ReturnIsRecorded` below is what the code says of it.
- `SlotsAlwaysAudited` is about the presence of an entry for the round, not its text: a
  second output in the round replaces the slot alone (`OutputIsAudited` below).

*Desktop.* None of the safety properties is inductive: what a transaction will
commit depends on what it read. `IInv` adds `TxInv` (between the feature check and
the commit a transaction holds the row lock, so the switch it read is still on, and
what it works on exists), `ApproverInv`, and `RowInv` (an unclaimed command has no
envelope and no nonce; an active grant has something left; an absent grant has signed
nothing). The ledger needs the last: a commit replaces `NoGrant` by the grant whose
budget it lowers, so the set of envelopes signed under it gains one element as
`remaining` loses one. The action properties follow from `IInv` and per-action lemmas
(`StatusStep`, `EffectStep`, `NonceStep`). For the refinement a step maps to one
abstract step: a `ClaimCommit` that wins is `Authorise` together with the closings of
the sweep in the same commit (`IssueIsAuthorise`); all others close, approve, queue or
stutter (`StepRefines`). Its mapping is `Phase` of the status, the envelope, and
the grants' remaining budgets.

*Chat jobs.* `finish_job` would also end a queued row; that it never meets one is
`Owned`: a worker in the body of `run_job_blocking` works on a row that has left the
queue. `Alone` (no two workers in the body of one job) needs that rows do not return
to the queue; `Unposted` and `Fresh` carry the count of replies from the creation of the
row to the one call of `post_user_message`. `LogSealed` rests on `Working`: the row of a
job in the body is running, unless it was deleted or given up by its watcher, so the
statement that settles it is the last of the only worker there. Database errors, restarts, deletions,
watchers and duplicate dispatches are steps of the proof like the others.
`CancelHonoured` is a property of pairs of moments, proved through a state that lasts:
once the flag is up and no worker is past its last look at it, the row is gone or will never
be done (`Safe`). `DoneInv` gets there: whoever is past that look has logged "done".

*Collaboration.* `EntriesByRole` relates old entries to the present session, and the
phase that was checked may have passed when the entry is posted. `IInv` carries the
check with the thread that made it (`ThreadOK`), and `OwnColumns` shows that a flush
of changed columns leaves the cast alone. `ShownInOrder` needs that what the workflow
has yet to publish is later than all a panel shows, or shown already from the database
(`NextToShow`). Both hold for any number of contributors at once, with or without the
workflow. The other two are about sessions with one contributor, which stay so
(`OneStays`): a contribution at work was checked
against the session as it still is, and is the board's last entry once posted (`AtWork`),
so a commit moves the session on from that entry (`Replay`), none is at work on a completed
session (`EndStays`), and the accepted draft is the last one posted. `TextInv` adds what the
retries need: the workflow's turn is of the session's phase or of the one before
(`TurnIsTaken`), and in the latter case the record is refused.

*Fan-out.* `FamiliesWhole` needs to know that ids are fresh: a dispatch that waits has
a run nobody else has (`IInv`), so its records meet none. The lemmas on the ledger
(`Freeing`, `Evicting`, `Entering`, `CancellingFamily`, `CancellingChild`) carry the
cardinalities: an eviction frees what it takes, an entry bills at least what it adds.
`CapHeld` is about dispatches that passed the check at different times; `CapInv`
says that some waiting dispatch leaves room for its own slots and a full order of
every other one (`Room`), which a new one re-establishes with itself, for it has just
checked, and one that is recorded passes on. `CancelIsKept` needs that what is asked of a
workflow stays asked, that a dispatch starts only workflows no cancel refers to
(`HandlerOK`), and for the watchers that a stub's record goes only with the end of its
run, or with the stream (`StreamOK`).

*Review.* A session writes what it computed from a row read before, so the invariant
is `Sound` of every row there is: the present one, and those the recorders and the
operators have read. `FlushIsSound` shows the core: of two sound rows and a change
that `Moves` allows, the mixture of columns is sound, because `agreed` and `status`
only change together. `AuditInv` is the same argument for the cache and the
blackboard: a recorder past its check has the entry of the round it read, by its own
hand or because the check found one, before it writes the slot.

*Dynamic workflows.* `EndInv` says who may still write the row: a run starts once, a
refused start has no executor, no late finalize is under way, and the run's own
executor has written what it would return when it decides to go on. Children write
before their parent goes on, since `StackInv` says that whoever has an executor above
it is in a loop. `LogInv` ties calls to the executor that waits for them or has failed
by them. Each action is a lemma (`BeginStep`, ..., `LogStep`).

*External agents.* An answer is lost only by an abort, and an abort needs a cycle of
waits. The invariant says that a call that waits holds at most the row of the agent
whose fallback it is at. In a cycle every call waits for a row the next one holds, so
the agents of the cycle are each other's fallbacks, all the way around, and `Acyclic`
excludes that. `TriesBounded` counts: `sends` is what the depth and the attempt allow.

*WhatsApp.* The counter is exact because no turn is counted twice, and no turn is in
two places because a sender's turns are in order: `Lined` says that what waits in a
queue comes, each after the one before, behind what the consumer holds, and that all of
it has arrived; `Closed`, that turns arrive in that order. A step of the consumer then
takes exactly its own turn out of the set that is counted (`TakingKeepsCount`).
`QueuedIsCarried` needs `Awaited`: a run on the pool's queue has a consumer that waits
for it, which fails the job of one that returned unstarted once it has read no reply, so a withdrawal by the watch fails the job in the same step, and a thread that
drops a run drops none that is still queued. `Calm` is the frame lemma for the steps
that leave queues and hands alone. `AnswerInv` says that whoever was answered came before
all that is queued and before what is held, unless it is the held turn whose consumer is
leaving it (`Before`), and that of a turn the loop is still failing nothing was said yet.

*Executor.* `CallInv` ties the stage of a call to what it has said. `MirrorInv` counts:
what was attempted is the chain up to the cursor, and every registered platform behind the
cursor was announced with the one it was left for (`Trail`); at each stage the decisions
counted are the events sent (`Tally`), and at the end the mirrored numbers are those
of the log (`Told`). `CountAppend` carries the cardinalities of event kinds over
each append.

*Routing.* `RouteInv` says that a walk has heard from every platform behind its
cursor and has the floor in its chain, so one that leaves its chain behind has heard from the floor
(`Walking`, `Silence`). `LimitInv` is about two turns: a platform a legacy walk met with a
limit is cooled until
its cooldown expires, what joins a chain is not cooled at that moment (`ChainGrows`), and
so no chain holds a platform that was limited when its turn began, though cooldowns
are read one by one while others come and go (`Fresh`).
Both refinements go step by step: a step of either walker leaves a platform, repeats it
within the cap, ends, or does not touch the walk.

*Model-checked only:* the eight liveness properties (`QueueDrains`, `JobSettles`,
`ReaderTold`, `TurnIsHeardOf`, `WorkflowEnds`, `TurnsEnd`, `ChainDrains`, `CallsEnd`),
which need fairness and `ENABLED`, out of the prover's reach. Every other property of a
passing run is proved.

## Divergences

One run has an expected counterexample, `dynamic_gate` (`GateHolds`,
`workflows/dynamic_executor.py:346`): a `human_approval` step that is rejected, or
times out with `on_timeout: reject`, returns its decision as a result, and the next
step runs. `services/provisioning/vet_practice.py:39` calls that gate an enforced
guardrail, and `services/vet_practice_dashboard.py:765` reports it as
`enforced_by_workflow`.

Further disagreements have a cfg that reproduces them with TLC by hand, stated at the
end of their modules with the text they come from. Where a cfg lists several, TLC
stops at the first it finds; strike that from the list to see the next.

| cfg (module) | Property | What the code does |
|---|---|---|
| `DesktopControl_claims` (MCDesktopControl) | `TerminalIsFinal` | a completion that finds its lease expired writes `expired` over a terminal status committed meanwhile, without a WHERE on the status; the design plan (:1551) says transitions are compare-and-swap |
| | `AuthorisedWorkNotDenied` | a second approval during the lease changes `approval_id`, and authorised work is recorded as denied |
| `ResilientExecutor_claims` (MCResilientExecutor) | `StartMeansGatePassed` | `execution.started` is sent before the recursion gate, as the design (11.3) has it; `webhook_events.py:12` says after |
| | `AttemptsAreTotal` | `attempt_count` is the winning adapter's, or the number of platforms |
| | `SetupFailureAlwaysTold` | a hint carried to the floor is dropped when the floor stops the walk |
| `CliRouting_claims` (MCCliRouting) | `LimitsCool` | under the resilient executor a quota or auth failure (`quota_exhausted`, `needs_auth`) cools nothing; `cli_platform_resolver.py:23` and `agent_router.py:1168` say that it is marked cool |
| | `FloorIsLast` | an explicit `opencode` heads the chain |
| | `ReasonIsOfRequested` | a requested CLI that was dropped from the chain is shown with another one's error |
| | `NoPaneLeftRunning` | quota, auth and credential failures send no `cli_subprocess_complete` |
| `ChatJobs_claims` (MCChatJobs) | `ToldMeansDrained` | a stream reads the events, then the status; what the worker logs in between, reply included, is never sent, and clients close (`api/v1/chat.py:702`) |
| | `ReturnsTerminal` | after a failed statement the session is not rolled back, `fail_job` fails too, and the job stays open |
| `WhatsAppDispatch_claims` (MCWhatsAppDispatch) | `DrainLeavesNoneQueued` | a turn handed to a busy pool is in no queue when the drain fails the queued ones; its run is cancelled with the pool and its job stays queued (`whatsapp_service.py:2034`) |
| | `FallbackMeansNoReply` | a thread that finishes between the read of its status and `fail_job` leaves a done job and a sender with the fallback |
| `Collaboration_claims` (MCCollaboration) | `AllPhasesComplete` | two contributions to one phase, checked before either commits, advance the session twice (`collaboration_service.py:240`) |
| | `NoEventsLost` | an entry published between catch-up and subscription is never shown |
| | `FallbackAgentIsHeard` | an agent with several roles is refused in the phases of all but the first |
| | `WrittenForPhase` | a retried record posts the proposal as the debate |
| `TaskFanout_claims` (MCTaskFanout) | `CapBoundsInventory` | records expire after ten minutes, workflows run for hours: the cap, said to bound "Temporal workflow inventory", then admits more |
| | `CountNeverDrifts` | the slots billed are those requested, the records those left by the cooldowns; the difference is never given back |
| | `FirstSuccessWins` | first-wins takes the first child to end, which may have failed, and cancels the one that would have succeeded |
| `ReviewCouncil_claims` (MCReviewCouncil) | `LastReportCloses` | two recorders write the JSON cache they read; the slot of one is lost, and the round stays open although every CLI reported |
| | `RetryAppendsOnce` | a retried record whose first attempt closed the round finds no entry for the new round and adds a second one |
| | `DoneIsFinal` | a record or a reply that read the row before writes its status over `done` |
| | `OutputIsAudited` | a second output of a CLI in a round (by hand and by its child, or after a reply to a round that runs) replaces its slot and appends no entry (`review_service.py:564`), which loses it with the next reply; `review_service.py:679` has history kept in the blackboard |
| `DynamicWorkflow_claims` (MCDynamicWorkflow) | `FinishedIsOver` | the first iteration of a loop finalizes the row of the whole run, which goes on |
| | `AttemptHasRow` | an attempt that outlived its timeout closes the log row of its successor |
| | `ApprovalIsHeard` | the signal goes to the run's own executor; a `human_approval` inside a loop waits in a child and never hears it |
| | `ReturnIsRecorded` | the kill-switch is read after the row is finalized: the run returns `stopped_by_killswitch`, its row says completed (`dynamic_executor.py:228-239`) |
| `ExternalAgents_claims` (MCExternalAgents) | `StaleFailureNeverReopens` | a failure is counted, a success deletes counter and breaker, then SET NX finds no key and opens the breaker on the stale count; `external_agent_reliability.py:32` says that it can't |
| | `AnswerIsAlwaysReturned` | two agents that are each other's fallback, and two calls: the one Postgres aborts may have been answered |
| | `BreakerIsSurfaced` | the marks of a workflow step are rolled back, and a health check overwrites those of a request: `status` says online with the breaker open |

## Not modelled

`PROJECT.json` lists every component with the reason. In short: memory, emotion,
learning and value scoring are numeric or best effort beside a turn; provisioning,
agents, connectors, skills, branding and workspaces are rows written by one request;
authentication and safety tables are data, not control flow; the web client, the Luna
client, the MCP server and the CLI are clients whose requests are inputs of the
modules; the Rust services answer single queries; code workers are outcomes of an
attempt. That the event channel of a review has no publisher is a missing call, not a
behaviour to model. Row-lock deadlocks that Postgres resolves by an abort are modelled
in `ExternalAgents` alone, where transactions last minutes; elsewhere an aborted request
has no effect.

## Plan

Written so far, in this order: desktop control and its refinement; policy, chain,
executor, routing; job lifecycle, chat jobs; WhatsApp dispatch; collaboration; task
fan-out; review council; dynamic workflows; external agents. Each module is written to be proved
about: constants with named assumptions, one action per operation, no recursive
operators.

Modules to come, most important first:

1. `AgentTasks` (`services/agent_tasks.py`): lineage, approval gate, status.
2. `PlanRuntime` (`services/plan_service.py`): budgets, pauses, re-planning.
3. `WhatsAppLink` (`services/whatsapp_service.py:255`): reconnects, watchdog, heartbeat,
   session backups. The watchdog awaits a reconnect that cancels the watchdog, which
   a liveness property should expose.
4. `ClaudeLogin` (`api/v1/claude_auth.py`) and `SessionEvents` (sequence numbers and
   replay).
5. A composition of `ChatJobs` with `CliRouting`, of `DesktopControl` with a
   client that loses answers, and of a fan-out with the code workers' queue.

Theorems to come: `AuthorisedWorkNotDenied` for commands that are approved once; of
`ChatJobs`, that what a client has rendered is a prefix of its job's log; of
`CliRouting`, that a requested CLI which is available and not limited heads its chain.
