\* Two jobs, two requests at once, every kind of row: all safety properties.
SPECIFICATION Spec
CONSTANTS
  Jobs = {j1, j2}
  Clients = {c1, c2}
  EntryIDs = {e1, e2, e3}
  hourly = hourly
  daily = daily
  Specs <- SpecsMC
  Rows <- RowsAll
  BadSpec = BadSpec
  NoSpec = NoSpec
  NoRow = NoRow
  NoEntry = NoEntry
  NoJob = NoJob
  Free = Free
  QueueCap = 2
  MaxFiring = 1
  DBMayFail = FALSE
SYMMETRY JobClientSymmetry
INVARIANTS
  TypeOK
  EntriesTrackCron
  ScheduleMatches
  WorkerLeavesNothing
