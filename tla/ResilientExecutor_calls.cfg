SPECIFICATION CallSpec
CONSTANTS
  claude_code = claude_code
  codex = codex
  gemini_cli = gemini_cli
  opencode = opencode
  a1 = a1
  a2 = a2
  a3 = a3
  Floor = opencode
  Platforms = {claude_code, codex, gemini_cli, opencode}
  Registered = {claude_code, opencode, codex}
  Chains <- ShortChains
  Lineages <- ManyLineages
  MaxDepth = 3
  AttemptCap = 2
CHECK_DEADLOCK FALSE
INVARIANTS MirrorAgreesWithEvents
PROPERTIES ImplementsFallbackChain
