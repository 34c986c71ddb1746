--------------------------- MODULE FallbackPolicy ---------------------------
(***************************************************************************)
(* The pure decision table of packages/cli_orchestrator/policy.py: what a  *)
(* chain walk does after one platform has reported one status.             *)
(* A hint is a tuple, <<>> for no hint: only whom it names matters.        *)
(***************************************************************************)
EXTENDS Naturals

CONSTANTS
  Platforms,    \* CLI platforms, Floor among them
  Floor,        \* the local platform that needs no credentials, "opencode"
  AttemptCap    \* _PER_PLATFORM_ATTEMPT_CAP

SetupStatuses == {"needs_auth", "workspace_untrusted", "api_disabled"}
RetriedStatuses == {"retryable_network_failure", "timeout", "unknown_failure"}
FailureStatuses == SetupStatuses \cup RetriedStatuses
                     \cup {"quota_exhausted", "provider_unavailable", "workflow_failed"}
Statuses == FailureStatuses \cup {"execution_succeeded"}

NoHint == <<>>
HintKey(status, platform) == <<status, platform>>

(* "attempt" counts the tries on this platform; "next" is the platform a   *)
(* fallback would walk to.                                                 *)
Decide(status, attempt, platform, next) ==
  CASE status \in SetupStatuses ->
         [action |-> IF next = Floor THEN "fallback" ELSE "stop", hint |-> HintKey(status, platform)]
    [] status \in RetriedStatuses /\ attempt = 1 ->
         [action |-> "retry", hint |-> NoHint]
    [] status = "workflow_failed" \/ (status = "unknown_failure" /\ attempt > 1) ->
         [action |-> "stop", hint |-> <<status>>]
    [] status = "execution_succeeded" ->
         [action |-> "stop", hint |-> NoHint]
    [] OTHER ->
         [action |-> "fallback", hint |-> NoHint]
=============================================================================
