CONSTANTS
  p1 = p1  p2 = p2  t1 = t1  t2 = t2  t3 = t3  t4 = t4  i1 = i1  i2 = i2
  Proc = {p1, p2}
  Task = {t1, t2, t3, t4}
  Id = {i1, i2}
  Rem = {}
  ProcOf <- MCProcOf
  None = None
  Overrun = FALSE
  Orphan = Orphan
SPECIFICATION LockFairSpec
INVARIANT LockTypeOK MutualExclusion ReleaseSucceeds
PROPERTY ImplementsMutex LocksFreed
