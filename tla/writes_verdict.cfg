SPECIFICATION Spec
CONSTANTS
  Users = {a}
  MaxPendingWrites = 3
  MaxWrites = 3
  MaxFaults = 0
INVARIANTS
  RejectedWasRefused
CHECK_DEADLOCK FALSE
