SPECIFICATION RoutingSpec
CONSTANTS
  gemini_cli = gemini_cli
  codex = codex
  opencode = opencode
  t1 = t1
  t2 = t2
  t3 = t3
  NoCLI = NoCLI
  Floor = opencode
  Platforms = {gemini_cli, codex, opencode}
  Priority <- PaidFirst
  Connected = {gemini_cli, codex}
  AttemptCap = 2
  Turns = {t1, t2}
  Resilient = {t2}
  Explicit = {codex, opencode, NoCLI}
  Raises = {"mint_failed", "exception"}
  Errors = {"quota", "missing_credential", "unclassified"}
  Reported = {"execution_succeeded", "quota_exhausted", "needs_auth", "timeout"}
CHECK_DEADLOCK FALSE
INVARIANTS FloorBeforeSilence
PROPERTIES LimitSparesLaterTurns TurnsEnd WalksImplementFallbackChain
