SPECIFICATION FairSpec
CONSTANTS
  Users = {a, b}
  MaxPendingWrites = 3
  MaxWrites = 4
  MaxFaults = 2
INVARIANTS
  ResultMatchesFront
  PipelineIsQueueFront
  IdleOnlyWhenDone
  CallbackFindsItsWrite
  VerdictsHold
PROPERTIES
  ImplementsOutbox
  QueueDrains
CHECK_DEADLOCK FALSE
