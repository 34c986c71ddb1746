-------------------------- MODULE ResilientExecutor --------------------------
(***************************************************************************)
(* One call of ResilientExecutor.execute (packages/cli_orchestrator/       *)
(* executor.py): the recursion gate, the walk over the chain, the retry    *)
(* loop on a platform, the policy's decision after every failure, and what *)
(* the call tells the outside world on its way: webhook events, the        *)
(* metadata mirrored for learning, and the result.                         *)
(*                                                                         *)
(* Between two calls of an adapter the code is sequential and shares       *)
(* nothing, so a step is one adapter call with all that follows it.        *)
(***************************************************************************)
EXTENDS FallbackPolicy, Sequences, FiniteSets, SequencesExt

CONSTANTS
  Chains,       \* the chains a request may ask for
  Lineages,     \* the parent chains a request may come with, sequences of agent ids
  Registered,   \* platforms that have an adapter
  MaxDepth      \* MAX_FALLBACK_DEPTH

ASSUME ExecutorAssumption ==
  /\ Floor \in Platforms /\ Registered \subseteq Platforms
  /\ Chains \subseteq Seq(Platforms)
  /\ MaxDepth \in Nat /\ AttemptCap \in Nat \ {0}

VARIABLES
  req,         \* the request: its chain and its lineage
  at,          \* "start", "preflight" or "run" (waiting for an adapter), "done"
  index,       \* chain_index, counted from 1
  tries,       \* attempt: the tries on chain[index], this one included
  attempted,   \* platform_attempted
  last,        \* last_result: status, platform, attempts
  carry,       \* carry_hint
  decisions,   \* lengths of retry_decisions and fallback_decisions
  log,         \* webhook events and mirrored metadata, in the order they are sent
  result       \* what execute returned, NoResult before

callVars == <<req, at, index, tries, attempted, last, carry, decisions, log, result>>

NoResult == <<>>
PreflightStatuses == {"provider_unavailable"} \cup SetupStatuses

Outcome(status, platform, n) == [status |-> status, platform |-> platform, attempts |-> n]

CallInit ==
  /\ req \in [chain: Chains, lineage: Lineages]
  /\ at = "start" /\ index = 1 /\ tries = 1 /\ attempted = <<>>
  /\ last = NoResult /\ carry = NoHint /\ decisions = [retry |-> 0, fallback |-> 0]
  /\ log = <<>> /\ result = NoResult

Platform == req.chain[index]
NextPlatform == IF index < Len(req.chain) THEN req.chain[index + 1] ELSE <<>>
Attempting == IF Contains(attempted, Platform) THEN attempted ELSE Append(attempted, Platform)

Started == [event |-> "started"]
AttemptFailed(o, n) == [event |-> "attempt_failed", platform |-> o.platform, status |-> o.status, index |-> n]
FallbackTriggered == [event |-> "fallback_triggered", from |-> Platform, to |-> NextPlatform]
Mirrored(o) == [event |-> "mirrored", status |-> o.status, decisions |-> decisions]
Ended(o) == [event |-> IF o.status = "execution_succeeded" THEN "succeeded" ELSE "failed", status |-> o.status]

(* Every exit mirrors the metadata and then sends the terminal webhook. *)
Finish(o, tried, hint, sent) ==
  /\ log' = log \o sent \o <<Mirrored(o), Ended(o)>>
  /\ result' = [status |-> o.status, platform |-> o.platform, attempts |-> o.attempts,
                attempted |-> tried, hint |-> hint]
  /\ at' = "done"

Refused == Len(req.lineage) >= MaxDepth \/ ~ IsInjective(req.lineage)

EmptyChain == Outcome("provider_unavailable", <<>>, 0)

Start ==
  /\ at = "start"
  /\ IF Refused
     THEN /\ Finish(IF req.chain = <<>> THEN EmptyChain
                    ELSE Outcome("provider_unavailable", Head(req.chain), 0),
                    <<>>, IF Len(req.lineage) >= MaxDepth THEN <<"depth">> ELSE <<"cycle">>, <<Started>>)
     ELSE /\ log' = <<Started>> /\ at' = "preflight"
          /\ UNCHANGED result
  /\ UNCHANGED <<req, index, tries, attempted, last, carry, decisions>>

AdvanceTwice == index' = index + 2 /\ tries' = 1 /\ at' = "preflight"   \* mutant of Advance

(* Leave chain[index] for the next platform. *)
Advance == index' = index + 1 /\ tries' = 1 /\ at' = "preflight"

MissingAdapter ==
  /\ at = "preflight" /\ index <= Len(req.chain) /\ Platform \notin Registered
  /\ attempted' = Append(attempted, Platform)
  /\ last' = Outcome("provider_unavailable", Platform, 0)
  /\ Advance
  /\ UNCHANGED <<req, carry, decisions, log, result>>

PreflightPasses ==
  /\ at = "preflight" /\ index <= Len(req.chain) /\ Platform \in Registered
  /\ at' = "run"
  /\ UNCHANGED <<req, index, tries, attempted, last, carry, decisions, log, result>>

Stops(o, d, n) ==
  /\ d.action = "stop"
  /\ Finish(o, attempted', d.hint, <<AttemptFailed(o, n)>>)
  /\ UNCHANGED <<index, tries, carry, decisions>>

FallsBack(o, d, n) ==
  /\ d.action = "fallback"
  /\ log' = log \o <<AttemptFailed(o, n), FallbackTriggered>>
  /\ decisions' = [decisions EXCEPT !.fallback = @ + 1]
  /\ carry' = IF d.hint = NoHint THEN carry ELSE d.hint
  /\ Advance
  /\ UNCHANGED result

(* "preflight isn't retryable": a retry decision only moves on. *)
PreflightFails(status) ==
  LET o == Outcome(status, Platform, 0)
      d == Decide(status, 1, Platform, NextPlatform)
  IN  /\ at = "preflight" /\ index <= Len(req.chain) /\ Platform \in Registered
      /\ attempted' = Append(attempted, Platform)
      /\ last' = o
      /\ \/ Stops(o, d, 0)
         \/ FallsBack(o, d, 0)
      /\ UNCHANGED req

RunSucceeds ==
  LET o == Outcome("execution_succeeded", Platform, 1)
  IN  /\ at = "run"
      /\ attempted' = Attempting
      /\ last' = o
      /\ Finish(o, attempted', carry, <<>>)
      /\ UNCHANGED <<req, index, tries, carry, decisions>>

(* Mutant of Retries: the decision is not recorded. *)
RetriesUnrecorded(o, d) ==
  /\ d.action = "retry" /\ tries < AttemptCap
  /\ log' = Append(log, AttemptFailed(o, tries))
  /\ tries' = tries + 1
  /\ UNCHANGED <<index, carry, decisions, result, at>>

(* The policy itself asks for one retry only, so the cap never bites while *)
(* it is 2 or more.                                                        *)
Retries(o, d) ==
  /\ d.action = "retry"
  /\ log' = Append(log, AttemptFailed(o, tries))
  /\ IF tries < AttemptCap
     THEN /\ decisions' = [decisions EXCEPT !.retry = @ + 1]
          /\ tries' = tries + 1
          /\ UNCHANGED <<index, at>>
     ELSE Advance /\ UNCHANGED decisions
  /\ UNCHANGED <<carry, result>>

(* An adapter reports its own attempt_count, 1; one that raises is         *)
(* classified here and given the number of the attempt.                    *)
RunFails(status, raised) ==
  LET o == Outcome(status, Platform, IF raised THEN tries ELSE 1)
      d == Decide(status, tries, Platform, NextPlatform)
  IN  /\ at = "run"
      /\ attempted' = Attempting
      /\ last' = o
      /\ \/ Stops(o, d, tries)
         \/ Retries(o, d)
         \/ FallsBack(o, d, tries)
      /\ UNCHANGED req

Exhausted ==
  /\ at = "preflight" /\ index > Len(req.chain)
  /\ Finish(IF last = NoResult THEN EmptyChain
            ELSE [last EXCEPT !.attempts = Len(attempted)],
            attempted, carry, <<>>)
  /\ UNCHANGED <<req, index, tries, attempted, last, carry, decisions>>

AdapterAnswers ==
  \/ PreflightPasses
  \/ \E s \in PreflightStatuses: PreflightFails(s)
  \/ RunSucceeds
  \/ \E s \in FailureStatuses, raised \in BOOLEAN: RunFails(s, raised)

CallNext == Start \/ MissingAdapter \/ AdapterAnswers \/ Exhausted

(* An adapter call ends: a dispatched workflow has an execution timeout.   *)
CallSpec == CallInit /\ [][CallNext]_callVars /\ WF_callVars(CallNext)
-----------------------------------------------------------------------------
(* Where the log has events of a kind.                                     *)
Events(kind) == {n \in DOMAIN log: log[n].event = kind}
Failures == Events("attempt_failed")
Fallbacks == Events("fallback_triggered")

CallTypeOK ==
  /\ req \in [chain: Chains, lineage: Lineages]
  /\ at \in {"start", "preflight", "run", "done"}
  /\ index \in 1..(Len(req.chain) + 1) /\ tries \in 1..AttemptCap
  /\ attempted \in Seq(Platforms)
  /\ last # NoResult => last \in [status: Statuses, platform: Platforms, attempts: 0..AttemptCap]
  /\ decisions \in [retry: Nat, fallback: Nat]

MovesAreAnnounced ==
  \A k \in 1..(Len(attempted) - 1):
    attempted[k] \in Registered =>
      \E n \in Fallbacks: log[n].from = attempted[k] /\ log[n].to = attempted[k + 1]

(* What is attempted, announced and mirrored agrees: no registered         *)
(* platform is left without an announcement that names the next one, and   *)
(* the metadata learning is fed with has as many fallback decisions as     *)
(* fallbacks announced, and a retry for every failed run that was not      *)
(* followed by a fallback or the end.                                      *)
MirrorAgreesWithEvents ==
  /\ MovesAreAnnounced
  /\ result # NoResult =>
       LET told == log[Len(log) - 1].decisions
           stopped == IF Failures # {} /\ result.status # "execution_succeeded"
                         /\ log[Len(log) - 2].event = "attempt_failed" THEN 1 ELSE 0
       IN  /\ told.fallback = Cardinality(Fallbacks)
           /\ told.retry = Cardinality(Failures) - told.fallback - stopped

(* The walk as FallbackChain promises it. *)
CallWalk == INSTANCE FallbackChain WITH
              chain <- req.chain, Cap <- AttemptCap,
              pos <- IF log = <<>> \/ Refused THEN 0 ELSE index,
              retries <- tries - 1,
              outcome <- IF result = NoResult THEN "open"
                         ELSE IF result.status = "execution_succeeded" THEN "answered" ELSE "failed"
ImplementsFallbackChain == CallWalk!Spec

-----------------------------------------------------------------------------
(* Statements of the documents that the code does not keep.                *)

(* "execution.started -- at top of execute() after recursion gate passes"  *)
(* (webhook_events.py): a refused request announces no start.              *)
StartMeansGatePassed == log # <<>> => ~ Refused

(* "attempt_count: Total attempts across all platforms" (adapters/base.py).*)
RunsMade == Cardinality({n \in Failures: log[n].index >= 1})
              + (IF result # NoResult /\ result.status = "execution_succeeded" THEN 1 ELSE 0)
AttemptsAreTotal == result # NoResult => result.attempts = RunsMade

(* "The user must see the actionable hint" (the design's key invariant):   *)
(* whatever happens after a setup failure, the result names it.            *)
SetupFailureAlwaysTold ==
  result # NoResult =>
    \A n \in Failures: log[n].status \in SetupStatuses =>
      result.hint = HintKey(log[n].status, log[n].platform)
=============================================================================
