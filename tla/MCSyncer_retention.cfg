\* Retention while everything may happen around the runs.
SPECIFICATION Spec
CONSTANTS
  a1 = a1
  a2 = a2
  n1 = n1
  l1 = l1
  l2 = l2
  Jobs = {j1}
  Runners = {w, m1}
  Manual = {m1}
  Lists = {l1, l2}
  Addrs = {a1, a2}
  Ranges = {}
  Initial <- EmptyLists
  Rows <- RowsFixedTTL
  NoRow = NoRow
  NoJob = NoJob
  NoLog = NoLog
  Never = Never
  Deleted = Deleted
  Events = {"edit", "delete", "admin", "servers", "db", "log", "api", "lost", "crash"}
  FKModes = {TRUE, FALSE}
  MaxTime = 2
  MaxLogs = 2
INVARIANTS
  PushedWithinWindow
  KeptThroughWindow
  OrphansAreLoose
  HistoryExplainsList
SYMMETRY AddrSymmetry
