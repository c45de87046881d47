CONSTANTS
  p1 = p1  p2 = p2  t1 = t1  t2 = t2  t3 = t3  t4 = t4  rid = rid
  Proc = {p1, p2}
  Task = {t1, t2, t3, t4}
  Id = {rid}
  Rem = {}
  ProcOf <- MCProcOf
  TickAt <- MCTickAt
  Rid = rid
  None = None
  Overrun = TRUE
  Orphan = Orphan
  Skew = 1
  MaxSpins = 3
  MaxDelay = 1
  MaxWork = 3
  MinTask = 2
  Slack = 1
  Ttl = 5
  Mortal = {p1}
CHECK_DEADLOCK FALSE
SPECIFICATION TickSpec
INVARIANT TickTypeOK SkippedTickWasBusy
PROPERTY DurationsBoundTasks RunsApart GrantsInTime
