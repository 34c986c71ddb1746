SPECIFICATION Spec
CONSTANTS
  claude = claude
  codex = codex
  bug = bug
  o1 = o1
  o2 = o2
  Roster = {claude, codex}
  ByHand = {claude, codex}
  Operators = {o1}
  Issues = {bug}
  MaxRounds = 2
  MaxFlows = 2
  MaxOdd = 1
SYMMETRY Symmetric
CHECK_DEADLOCK FALSE
INVARIANTS AskedForSomething SlotsAreAudited AgreedByTwo
