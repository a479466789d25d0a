\* Two deliveries of any of six commands (a command may be delivered twice), two
\* broadcasts or reconnections, a termination signal at any time.
SPECIFICATION Spec
CONSTANTS
  Threads = {t1, t2}
  move = move pick = pick halt = halt query = query junk = junk stray = stray
  Commands = {move, pick, halt, query, junk, stray}
  TA = TA TB = TB
  Tasks = {TA, TB}
  Payload <- MCPayload
  Steps = 2
  MaxBroadcasts = 2
  Watchers = {"mqtt"}
  None = None
  Free = Free
INVARIANTS
  OneActionAtATime IdsBelongToHolder RestingStateWhenFree StopHasCause
  StopObeyed InjectedFailureOnce
PROPERTIES
  ImplementsContract
SYMMETRY ThreadSymmetry
\* Every command may have been dealt with, every broadcast sent.
CHECK_DEADLOCK FALSE
