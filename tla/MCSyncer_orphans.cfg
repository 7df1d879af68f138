\* A job is deleted through a connection that does not have the pragma.
SPECIFICATION Spec
CONSTANTS
  a1 = a1
  a2 = a2
  n1 = n1
  l1 = l1
  l2 = l2
  Jobs = {j1, j2}
  Runners = {w, m1}
  Manual = {m1}
  Lists = {l1, l2}
  Addrs = {a1, a2}
  Ranges = {}
  Initial <- EmptyLists
  Rows <- RowsTwoLists
  NoRow = NoRow
  NoJob = NoJob
  NoLog = NoLog
  Never = Never
  Deleted = Deleted
  Events = {"delete"}
  FKModes = {TRUE, FALSE}
  MaxTime = 0
  MaxLogs = 3
INVARIANT DeletedJobHasNoRows
