CONSTANTS
  c1 = c1  c2 = c2
  Call = {c1, c2}
  None = None
CHECK_DEADLOCK FALSE
SPECIFICATION LifeSpec
INVARIANT LifeTypeOK AbortHasCulprit UnsetIsEarly CleanExitDestroys
PROPERTY ApiQuietAfterDestroy StopEnds StartEnds SettleOrEnd
