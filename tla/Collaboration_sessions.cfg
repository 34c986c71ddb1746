SPECIFICATION FairSpec
CONSTANTS
  r1 = r1
  v1 = v1
  Patterns <- AllPatterns
  Casts <- BothCasts
  RoundLimits = {1, 2}
  Driven <- NoDebate
  Requests = {r1}
  Joint <- Short
  Panels = {v1}
  MaxEntries <- Bound
  MaxCrashes = 3
INVARIANTS
  BoardFollowsPattern
  EntriesByRole
  ShownInOrder
PROPERTIES
  OutcomeIsAccepted
  WorkflowEnds
CHECK_DEADLOCK FALSE
