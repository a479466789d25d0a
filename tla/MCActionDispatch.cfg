\* An action and a stop of one task, each of an Action or sent by itself; the robot may
\* resend its reports once, one report may be lost.
SPECIFICATION Spec
CONSTANTS
  go = go halt = halt ask = ask
  Actions = {go, halt}
  TA = TA TB = TB
  Tasks = {TA}
  Kind <- MCKind
  TaskOf <- MCTaskOf
  Twice = {}
  Copies <- MCCopies
  MaxResends = 1
  MaxLost = 1
  MaxReports = 4
  None = None
INVARIANTS
  SettledStatusAgrees StatusHasEvidence TaskHasEvidence
CHECK_DEADLOCK FALSE
