\* An action and a stop that meets it while it claims the device.
SPECIFICATION Spec
CONSTANTS
  Threads = {t1, t2}
  move = move pick = pick halt = halt query = query junk = junk stray = stray
  Commands = {move, halt}
  TA = TA TB = TB
  Tasks = {TA, TB}
  Payload <- MCPayload
  Steps = 2
  MaxBroadcasts = 0
  Watchers = {"mqtt"}
  None = None
  Free = Free
INVARIANT
  NoStopLost
CHECK_DEADLOCK FALSE
