SPECIFICATION Spec
CONSTANTS
  c1 = c1
  c2 = c2
  w1 = w1
  claude = claude
  codex = codex
  Providers = {claude, codex}
  Orders <- CouncilOrRace
  Cooldowns <- NoneOrCodex
  Modes = {TRUE}
  Clients = {c1}
  Watchers = {}
  MaxKids = 2
  Cap = 4
  MaxRuns = 2
  MaxFaults = 0
CHECK_DEADLOCK FALSE
INVARIANTS CapBoundsInventory CountNeverDrifts FirstSuccessWins
