CONSTANTS
  h = h  a = a  t1 = t1  t2 = t2  t3 = t3  i1 = i1  i2 = i2
  Proc = {h, a}
  Task = {t1, t2, t3}
  Id = {i1, i2}
  None = None
  ProcOf <- MCProcOf
  Keys <- MCKeys
  Handler = h
  Overrun = FALSE
  Orphan = Orphan
  MaxJobs = 3
  Rem <- RecurringRem
  Request <- RecurringRequest
  Budget <- RecurringBudget
CHECK_DEADLOCK FALSE
SYMMETRY SameTasks
SPECIFICATION Spec
INVARIANT ScheduleMatchesStore ArmedIsNotLost
