\* Two jobs with a list each or one in common, the worker and a manual run, deletions and failures.
SPECIFICATION FairSpec
CONSTANTS
  a1 = a1
  a2 = a2
  n1 = n1
  l1 = l1
  l2 = l2
  Jobs = {j1, j2}
  Runners = {w, m1}
  Manual = {m1}
  Lists = {l1, l2}
  Addrs = {a1, a2}
  Ranges = {n1}
  Initial <- RangeOnOne
  Rows <- RowsTwoLists
  NoRow = NoRow
  NoJob = NoJob
  NoLog = NoLog
  Never = Never
  Deleted = Deleted
  Events = {"delete", "db", "api"}
  FKModes = {TRUE}
  MaxTime = 0
  MaxLogs = 3
INVARIANTS
  TypeOK
  OneRunPerJob
  OpenLogHasItsRun
  LastResultIsLatest
  HistoryExplainsList
PROPERTIES
  ImplementsRunLock
  JobReleased
