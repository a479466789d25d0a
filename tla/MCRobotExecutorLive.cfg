\* Two deliveries of any of six commands (a command may be delivered twice), one
\* broadcast or reconnection, a termination signal at any time.
SPECIFICATION Spec
CONSTANTS
  Threads = {t1, t2}
  move = move pick = pick halt = halt query = query junk = junk stray = stray
  Commands = {move, pick, halt, query, junk, stray}
  TA = TA TB = TB
  Tasks = {TA, TB}
  Payload <- MCPayload
  Steps = 2
  MaxBroadcasts = 1
  Watchers = {"mqtt"}
  None = None
  Free = Free
PROPERTIES
  EveryCommandEnds CancelTakesEffect
\* Every command may have been dealt with, every broadcast sent.
CHECK_DEADLOCK FALSE
