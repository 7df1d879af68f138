\* Handlers and shutdown finish although a run may hang for ever; queued jobs run if runs return.
SPECIFICATION FairSpec
CONSTANTS
  Jobs = {j1, j2}
  Clients = {c1, c2}
  EntryIDs = {e1, e2}
  hourly = hourly
  daily = daily
  Specs <- SpecsMC
  Rows <- RowsOn
  BadSpec = BadSpec
  NoSpec = NoSpec
  NoRow = NoRow
  NoEntry = NoEntry
  NoJob = NoJob
  Free = Free
  QueueCap = 1
  MaxFiring = 1
  DBMayFail = TRUE
PROPERTIES
  QueuedJobRuns
  ShutdownTerminates
  RequestsComplete
