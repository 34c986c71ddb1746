SPECIFICATION Spec
CONSTANTS
  c1 = c1
  c2 = c2
  w1 = w1
  claude = claude
  codex = codex
  Providers = {claude, codex}
  Orders <- Bodies
  Cooldowns <- NoneOrCodex
  Modes = {TRUE, FALSE}
  Clients = {c1, c2}
  Watchers = {w1}
  MaxKids = 2
  Cap = 3
  MaxRuns = 2
  MaxFaults = 1
SYMMETRY Symmetric
CHECK_DEADLOCK FALSE
INVARIANTS FamiliesWhole CountCovers CancelIsKept
