\* A ring that overflows, a file that is rotated or does not open, other outputs and Close.
SPECIFICATION FairSpec
CONSTANTS
  Loggers = {g1}
  Cap = 2
  Configs <- AnyConfig
  MaxFiles = 0
  OpenFails = TRUE
  MaxEvents = 3
  MaxGen = 2
  MaxRotations = 1
  NoEvent = NoEvent
  Free = Free
CHECK_DEADLOCK FALSE \* a watcher stuck in its own log message stops everything
INVARIANTS
  TypeOK
  RingHoldsWindow
  StoppedDrained
  MissedCountsLosses
  HandlerIsCurrent
PROPERTIES
  ImplementsStream
  EventsReachSinks
  CallerReturns
