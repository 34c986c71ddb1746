SPECIFICATION Spec
CONSTANTS
  a = a
  b = b
  c1 = c1
  c2 = c2
  NoAgent = NoAgent
  Agents = {a, b}
  Graphs <- SomeGraphs
  Keyed = {}
  Calls = {c1, c2}
  Tested = {c1}
  MaxAttempts = 1
  Threshold = 2
CHECK_DEADLOCK FALSE
INVARIANTS BreakerIsSurfaced AnswerIsAlwaysReturned
PROPERTIES StaleFailureNeverReopens
