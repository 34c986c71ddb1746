SPECIFICATION Spec
CONSTANTS
  Definition <- Packet
  MaxItems = 2
  MaxLate = 2
  MaxFaults = 0
INVARIANT GateHolds
CHECK_DEADLOCK FALSE
