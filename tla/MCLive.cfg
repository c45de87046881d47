CONSTANTS
  h = h  a = a  t1 = t1  t2 = t2  t3 = t3  i1 = i1  i2 = i2
  Proc = {h, a}
  Task = {t1, t3}
  Id = {i1, i2}
  None = None
  ProcOf <- TwoTasks
  Keys <- MCKeys
  Handler = h
  Overrun = TRUE
  Orphan = Orphan
  MaxJobs = 2
  Rem <- LiveRem
  Request <- LiveRequest
  Budget <- LiveBudget
CHECK_DEADLOCK FALSE
SPECIFICATION FairSpec
PROPERTY CommandsDrain TasksEnd OneTimeIsSent ForeignLockKept
INVARIANT SendsAreDue
