\* Cleaning up rotated files logs with the mutex held.
SPECIFICATION FairSpec
CONSTANTS
  Loggers = {g1}
  Cap = 2
  Configs <- FileOnly
  MaxFiles = 1
  OpenFails = FALSE
  MaxEvents = 2
  MaxGen = 2
  MaxRotations = 2
  NoEvent = NoEvent
  Free = Free
CHECK_DEADLOCK FALSE \* a stuck watcher stops everything
PROPERTY LoggersReturn
