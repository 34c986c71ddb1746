SPECIFICATION Spec
CONSTANTS
  Definition <- Monitor
  MaxItems = 2
  MaxLate = 2
  MaxFaults = 1
CHECK_DEADLOCK FALSE
INVARIANTS FinishedIsOver ReturnIsRecorded AttemptHasRow
PROPERTIES ApprovalIsHeard
