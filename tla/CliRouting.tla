----------------------------- MODULE CliRouting -----------------------------
(***************************************************************************)
(* Chat turns of one tenant choosing a CLI: cli_platform_resolver.py       *)
(* builds the chain, agent_router.py walks it, and a quota or auth failure *)
(* met by the legacy walker puts the platform into a cooldown all turns    *)
(* share.                                                                  *)
(*                                                                         *)
(* Turns run concurrently.  A turn reads the cooldowns one platform at a   *)
(* time while it builds its chain and never looks at them again, so others *)
(* may cool a platform, or its cooldown may end, at any point in between.  *)
(* A turn in Resilient walks its chain through the executor, whose steps   *)
(* are those of ResilientExecutor without the events; it cools no platform *)
(* whatever it hears.                                                      *)
(***************************************************************************)
EXTENDS FallbackPolicy, Sequences, FiniteSets, SequencesExt

CONSTANTS
  Turns,        \* chat turns
  Priority,     \* _DEFAULT_PRIORITY without the floor
  Connected,    \* platforms the tenant has credentials for
  Explicit,     \* preferences a turn may carry: platforms, NoCLI
  NoCLI,
  Resilient,    \* the turns of a tenant with use_resilient_executor
  Raises,       \* exception classes an attempt may raise
  Errors,       \* error classes an attempt may report
  Reported      \* statuses an executor attempt may report

ASSUME RoutingAssumption ==
  /\ Floor \in Platforms /\ Connected \subseteq Platforms
  /\ Priority \in Seq(Platforms \ {Floor})
  /\ NoCLI \notin Platforms /\ Explicit \subseteq Platforms \cup {NoCLI}
  /\ Resilient \subseteq Turns
  /\ Raises \subseteq {"exception", "internal_error", "mint_failed"}
  /\ Errors \subseteq {"quota", "auth", "missing_credential", "unclassified"}
  /\ Reported \subseteq Statuses
  /\ AttemptCap \in Nat \ {0}

VARIABLES
  cooled,      \* platforms in cooldown
  pc,          \* "idle", "resolve", "walk" or "done"
  requested,   \* the explicit platform, NoCLI if the turn has none
  available,   \* the platforms _connected_clis named
  todo,        \* candidates still to be looked at
  chain,       \* cli_chain
  pos,         \* index into chain
  attempt,     \* tries on chain[pos], this one included
  heard,       \* what each attempt came to, in order: platform and class
  served,      \* the platform that answered, NoCLI if none
  running,     \* platforms whose cli_subprocess_started has no complete
  limited,     \* history: platforms that met a legacy walk with a limit less than a cooldown ago
  since        \* history: platforms that are limited ever since the turn began

turnVars == <<pc, requested, available, todo, chain, pos, attempt, heard, served, running>>
history == <<limited, since>>
routingVars == <<cooled, turnVars, history>>

RoutingInit ==
  /\ cooled = {}
  /\ pc = [t \in Turns |-> "idle"]
  /\ requested = [t \in Turns |-> NoCLI]
  /\ available = [t \in Turns |-> {}]
  /\ todo = [t \in Turns |-> <<>>]
  /\ chain = [t \in Turns |-> <<>>]
  /\ pos = [t \in Turns |-> 0]
  /\ attempt = [t \in Turns |-> 1]
  /\ heard = [t \in Turns |-> <<>>]
  /\ served = [t \in Turns |-> NoCLI]
  /\ running = [t \in Turns |-> {}]
  /\ limited = {}
  /\ since = [t \in Turns |-> {}]

-----------------------------------------------------------------------------
(* The cooldown map. *)

MarkAlways(p) == cooled' = cooled \cup {p}     \* mutant of MarkCooldown
MarkCooldown(p) == cooled' = IF p = Floor THEN cooled ELSE cooled \cup {p}

(* A cooldown's time passes: the entry of p, if there is one, expires. *)
Expire(p) ==
  /\ p \in cooled \cup limited
  /\ cooled' = cooled \ {p}
  /\ limited' = limited \ {p}
  /\ since' = [t \in Turns |-> since[t] \ {p}]
  /\ UNCHANGED turnVars

-----------------------------------------------------------------------------
(* resolve_cli_chain. *)

(* _connected_clis: a failed integration query leaves the floor alone. *)
Available(queryOk) == IF queryOk THEN Connected \cup {Floor} ELSE {Floor}

(* The explicit platform comes first, if it is available; it is trusted    *)
(* when the query failed.                                                  *)
Candidates(explicit, queryOk) ==
  (IF explicit \in Available(queryOk) \/ (explicit # NoCLI /\ ~ queryOk) THEN <<explicit>> ELSE <<>>)
    \o Priority

BeginTurn(t) ==
  /\ pc[t] = "idle"
  /\ \E explicit \in Explicit, queryOk \in BOOLEAN:
       /\ requested' = [requested EXCEPT ![t] = explicit]
       /\ available' = [available EXCEPT ![t] = Available(queryOk)]
       /\ todo' = [todo EXCEPT ![t] = Candidates(explicit, queryOk)]
  /\ pc' = [pc EXCEPT ![t] = "resolve"]
  /\ since' = [since EXCEPT ![t] = limited]
  /\ UNCHANGED <<cooled, limited, chain, pos, attempt, heard, served, running>>

InCooldown(p) == p # Floor /\ p \in cooled

(* Mutant of Added: no cooldown check. *)
AddedHot(p, ps) == IF Contains(ps, p) THEN ps ELSE Append(ps, p)
Added(p, ps) == IF Contains(ps, p) \/ InCooldown(p) THEN ps ELSE Append(ps, p)

(* What comes from the priority list has to be available. *)
Offered(t) == Head(todo[t]) \in available[t] \/ Len(todo[t]) > Len(Priority)

ResolveOne(t) ==
  /\ pc[t] = "resolve" /\ todo[t] # <<>>
  /\ chain' = IF Offered(t) THEN [chain EXCEPT ![t] = Added(Head(todo[t]), @)] ELSE chain
  /\ todo' = [todo EXCEPT ![t] = Tail(@)]
  /\ UNCHANGED <<cooled, pc, requested, available, pos, attempt, heard, served, running, history>>

WithoutFloor(ps) == ps                                   \* mutant of WithFloor
WithFloor(ps) == IF Contains(ps, Floor) THEN ps ELSE Append(ps, Floor)

Dispatch(t, ps) ==
  /\ chain' = [chain EXCEPT ![t] = ps]
  /\ pos' = [pos EXCEPT ![t] = 1]
  /\ pc' = [pc EXCEPT ![t] = "walk"]
  /\ todo' = [todo EXCEPT ![t] = <<>>] /\ available' = [available EXCEPT ![t] = {}]
  /\ UNCHANGED <<cooled, requested, attempt, heard, served, running, history>>

Resolved(t) ==
  /\ pc[t] = "resolve" /\ todo[t] = <<>>
  /\ Dispatch(t, WithFloor(chain[t]))

-----------------------------------------------------------------------------
(* What every walker does after an attempt on chain[pos]. *)

InChain(t) == pc[t] = "walk" /\ pos[t] <= Len(chain[t])
Current(t) == chain[t][pos[t]]

Hear(t, class) == heard' = [heard EXCEPT ![t] = Append(@, [platform |-> Current(t), class |-> class])]

(* Mutant of MoveOn: a platform of the chain is left out. *)
MoveOnTwice(t) ==
  /\ pos' = [pos EXCEPT ![t] = @ + 2]
  /\ attempt' = [attempt EXCEPT ![t] = 1]
  /\ UNCHANGED <<pc, served>>

MoveOn(t) ==
  /\ pos' = [pos EXCEPT ![t] = @ + 1]
  /\ attempt' = [attempt EXCEPT ![t] = 1]
  /\ UNCHANGED <<pc, served>>

Serve(t) ==
  /\ served' = [served EXCEPT ![t] = Current(t)]
  /\ pc' = [pc EXCEPT ![t] = "done"]
  /\ UNCHANGED <<pos, attempt>>

GiveUp(t) ==
  /\ pc' = [pc EXCEPT ![t] = "done"]
  /\ UNCHANGED <<pos, attempt, served>>

HitsLimit(p) == limited' = limited \cup ({p} \ {Floor})

(* "cli_subprocess_started", and the "complete" some outcomes are told by. *)
PaneLeftRunning(t) == running' = [running EXCEPT ![t] = @ \cup {Current(t)}]
PaneCompleted(t) == UNCHANGED running

-----------------------------------------------------------------------------
(* _legacy_chain_walk: run_agent_session raises, answers, or returns no    *)
(* text and an error that is then classified.                              *)

Legacy(t) == InChain(t) /\ t \notin Resilient

AttemptRaises(t, class) ==
  /\ Legacy(t)
  /\ Hear(t, class) /\ PaneCompleted(t)
  /\ IF class = "mint_failed" THEN GiveUp(t) ELSE MoveOn(t)
  /\ UNCHANGED <<cooled, requested, available, todo, chain, history>>

AttemptAnswers(t) ==
  /\ Legacy(t)
  /\ Hear(t, "answer") /\ PaneCompleted(t)
  /\ Serve(t)
  /\ UNCHANGED <<cooled, requested, available, todo, chain, history>>

AttemptCools(t, class) ==
  /\ Legacy(t) /\ class \in {"quota", "auth"}
  /\ Hear(t, class) /\ PaneLeftRunning(t) /\ HitsLimit(Current(t))
  /\ MarkCooldown(Current(t))
  /\ MoveOn(t)
  /\ UNCHANGED <<requested, available, todo, chain, since>>

AttemptLacksCredential(t) ==
  /\ Legacy(t) /\ "missing_credential" \in Errors
  /\ Hear(t, "missing_credential") /\ PaneLeftRunning(t)
  /\ MoveOn(t)
  /\ UNCHANGED <<cooled, requested, available, todo, chain, history>>

AttemptUnclassified(t) ==
  /\ Legacy(t) /\ "unclassified" \in Errors
  /\ Hear(t, "unclassified") /\ PaneCompleted(t)
  /\ GiveUp(t)
  /\ UNCHANGED <<cooled, requested, available, todo, chain, history>>

-----------------------------------------------------------------------------
(* _resilient_chain_walk: the executor asks the policy.  It is handed no   *)
(* way to cool a platform.                                                 *)

NextInChain(t) == IF pos[t] < Len(chain[t]) THEN chain[t][pos[t] + 1] ELSE NoCLI

ExecutorAttempt(t, status) ==
  LET action == Decide(status, attempt[t], Current(t), NextInChain(t)).action
  IN  /\ InChain(t) /\ t \in Resilient
      /\ Hear(t, status) /\ PaneCompleted(t)
      /\ \/ status = "execution_succeeded" /\ Serve(t)
         \/ status # "execution_succeeded" /\ action = "stop" /\ GiveUp(t)
         \/ /\ action = "retry" /\ attempt[t] < AttemptCap
            /\ attempt' = [attempt EXCEPT ![t] = @ + 1]
            /\ UNCHANGED <<pos, pc, served>>
         \/ /\ action = "fallback" \/ (action = "retry" /\ attempt[t] >= AttemptCap)
            /\ MoveOn(t)
      /\ UNCHANGED <<cooled, requested, available, todo, chain, history>>

-----------------------------------------------------------------------------
(* Mutant of WalkEnds: the end of the chain is off by one. *)
WalkEndsLate(t) ==
  /\ pc[t] = "walk" /\ pos[t] > Len(chain[t]) + 1
  /\ GiveUp(t)
  /\ UNCHANGED <<cooled, requested, available, todo, chain, heard, running, history>>
WalkEnds(t) ==
  /\ pc[t] = "walk" /\ pos[t] > Len(chain[t])
  /\ GiveUp(t)
  /\ UNCHANGED <<cooled, requested, available, todo, chain, heard, running, history>>

TurnStep(t) ==
  \/ ResolveOne(t) \/ Resolved(t) \/ WalkEnds(t)
  \/ \E class \in Raises: AttemptRaises(t, class)
  \/ AttemptAnswers(t)
  \/ \E class \in Errors: AttemptCools(t, class)
  \/ AttemptLacksCredential(t) \/ AttemptUnclassified(t)
  \/ \E status \in Reported: ExecutorAttempt(t, status)

RoutingNext ==
  \/ \E t \in Turns: BeginTurn(t) \/ TurnStep(t)
  \/ \E p \in Platforms: Expire(p)

(* A turn that has begun runs on its own thread, and an attempt ends.      *)
RoutingSpec == RoutingInit /\ [][RoutingNext]_routingVars /\ \A t \in Turns: WF_routingVars(TurnStep(t))
-----------------------------------------------------------------------------
RoutingTypeOK ==
  /\ cooled \subseteq Platforms \ {Floor}
  /\ pc \in [Turns -> {"idle", "resolve", "walk", "done"}]
  /\ requested \in [Turns -> Platforms \cup {NoCLI}]
  /\ available \in [Turns -> SUBSET Platforms]
  /\ todo \in [Turns -> Seq(Platforms)] /\ chain \in [Turns -> Seq(Platforms)]
  /\ \A t \in Turns: pos[t] \in 0..(Len(chain[t]) + 1) /\ attempt[t] \in 1..AttemptCap
  /\ served \in [Turns -> Platforms \cup {NoCLI}]
  /\ running \in [Turns -> SUBSET Platforms]

Heard(t) == {heard[t][k].platform: k \in DOMAIN heard[t]}

(* "Subsequent chat turns skip it", for the limits the legacy walker meets *)
(* (_legacy_chain_walk): once a platform has reported a quota or auth      *)
(* failure to a legacy turn, no turn of either kind that begins within the *)
(* cooldown attempts it.  For those a resilient turn meets it is not so:   *)
(* see LimitsCool.                                                         *)
LimitSparesLaterTurns ==
  [][\A t \in Turns: heard'[t] # heard[t] => Last(heard'[t]).platform \notin since[t]]_routingVars

(* A turn ends without an answer only when the floor has been tried or an  *)
(* outcome came up that must not be papered over by another CLI.           *)
Final == {"mint_failed", "unclassified", "workflow_failed", "unknown_failure"} \cup SetupStatuses
FloorBeforeSilence ==
  \A t \in Turns: pc[t] = "done" /\ served[t] = NoCLI =>
    Floor \in Heard(t) \/ (heard[t] # <<>> /\ Last(heard[t]).class \in Final)

(* Every turn that has begun ends, answered or not. *)
TurnsEnd == \A t \in Turns: pc[t] = "resolve" ~> pc[t] = "done"

(* Both walkers keep the same promise: the cutover from the one to the     *)
(* other does not change what a walk is.                                   *)
TurnWalk(t) == INSTANCE FallbackChain WITH
                 chain <- chain[t], Cap <- AttemptCap, retries <- attempt[t] - 1,
                 pos <- pos[t],
                 outcome <- IF pc[t] # "done" THEN "open"
                            ELSE IF served[t] = NoCLI THEN "failed" ELSE "answered"
WalksImplementFallbackChain ==
  /\ \A t \in Turns: TurnWalk(t)!Init
  /\ [][\A t \in Turns: TurnWalk(t)!Next \/ UNCHANGED TurnWalk(t)!walk]_routingVars

-----------------------------------------------------------------------------
(* Statements of the documents that the code does not keep.                *)

(* "When a CLI returns a quota or auth error, we mark it cool"             *)
(* (cli_platform_resolver.py; agent_router.py says the same of route_and_  *)
(* execute): whichever walker hears of the limit, the platform is in       *)
(* cooldown afterwards.  The executor cools for neither kind of error.     *)
Limits == {"quota", "auth", "quota_exhausted", "needs_auth"}
LimitsCool ==
  [][\A t \in Turns: heard'[t] # heard[t] =>
       LET h == Last(heard'[t]) IN h.class \in Limits /\ h.platform # Floor => h.platform \in cooled']_routingVars

(* "opencode ... never absent, always last in the chain"                   *)
(* (cli_platform_resolver.py).                                             *)
FloorIsLast == \A t \in Turns: pc[t] = "walk" => Last(chain[t]) = Floor

(* "Attributes the right error to the originally-requested CLI"            *)
(* (agent_router.py): the reason shown is the first class heard, when the  *)
(* turn is served by another CLI than the requested one.                   *)
ShownReason(t) ==
  IF served[t] \in {NoCLI, requested[t]} \/ heard[t][1].class = "answer" THEN NoCLI ELSE heard[t][1].class
ReasonIsOfRequested ==
  \A t \in Turns: requested[t] # NoCLI /\ ShownReason(t) # NoCLI => heard[t][1].platform = requested[t]

(* "Chat ending in cli_subprocess_complete with error quota" (the plan of  *)
(* the terminal's regression checks): no pane is left running by a turn    *)
(* that has ended.                                                         *)
NoPaneLeftRunning == \A t \in Turns: pc[t] = "done" => running[t] = {}
=============================================================================
