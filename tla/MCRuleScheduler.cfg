CONSTANTS
  Schedules = {s1, s2}
  Directs = {d}
  Planners = {w1, w2}
  First = First
  Offered <- MCOffered
  Limit = 1
SPECIFICATION Spec
SYMMETRY Symmetry
INVARIANTS
  NoStepSkipped
  SecondActionHasCause
  IssuedStepsHaveCommands
  StepsAgree
  PlansSucceed
  ReplacedPlanUnused
CHECK_DEADLOCK FALSE
