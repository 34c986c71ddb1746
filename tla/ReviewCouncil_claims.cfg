SPECIFICATION Spec
CONSTANTS
  claude = claude
  codex = codex
  bug = bug
  o1 = o1
  o2 = o2
  Roster = {claude, codex}
  ByHand = {}
  Operators = {o1, o2}
  Issues = {bug}
  MaxRounds = 2
  MaxFlows = 2
  MaxOdd = 1
CHECK_DEADLOCK FALSE
INVARIANTS LastReportCloses RetryAppendsOnce OutputIsAudited
PROPERTIES DoneIsFinal
