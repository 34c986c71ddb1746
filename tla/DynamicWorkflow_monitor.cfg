SPECIFICATION FairSpec
CONSTANTS
  Definition <- Monitor
  MaxItems = 2
  MaxLate = 2
  MaxFaults = 1
INVARIANTS EndIsRecorded RunningIsTrue
PROPERTY ChainDrains
CHECK_DEADLOCK FALSE
