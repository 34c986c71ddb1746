SPECIFICATION FairSpec
CONSTANTS
  a = a
  b = b
  c1 = c1
  c2 = c2
  NoAgent = NoAgent
  Agents = {a, b}
  Graphs <- SomeGraphs
  Keyed = {b}
  Calls = {c1, c2}
  Tested = {c1}
  MaxAttempts = 2
  Threshold = 1
CHECK_DEADLOCK FALSE
INVARIANTS AnswerIsReturned
PROPERTIES CallsEnd
