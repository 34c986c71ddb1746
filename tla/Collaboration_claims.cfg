SPECIFICATION Spec
CONSTANTS
  r1 = r1
  v1 = v1
  Patterns <- Debate
  Casts <- AnyCast
  RoundLimits = {1}
  Driven <- Debate
  Requests = {r1}
  Joint <- Debate
  Panels = {v1}
  MaxEntries <- Bound
  MaxCrashes = 1
INVARIANTS
  FallbackAgentIsHeard
  NoEventsLost
  WrittenForPhase
  AllPhasesComplete
CHECK_DEADLOCK FALSE
