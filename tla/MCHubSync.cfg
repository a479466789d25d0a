CONSTANTS
  sync1 = sync1
  sync2 = sync2
  dog = dog
  run = run
  task = task
  plan = plan
  action = action
  query = query
  older = older
  other = other
  Syncs = {sync1, sync2}
  Robots = {dog}
  Runs = {run}
  Tasks = {task, other}
  Plans = {plan}
  Actions = {action, query, older}
  Active = {plan}
  Queries = {query}
  RunOf <- MCRunOf
  TaskOf <- MCTaskOf
  PlanOf <- MCPlanOf
  NamedTask <- MCNamedTask
  RobotOf <- MCRobotOf
  CreatedAt <- MCCreatedAt
  ActionLimit = 2
  Requests <- MCRequests
  MaxHub = 14
SPECIFICATION Spec
INVARIANTS
  TypeOK
  IdsAreOwn
  OkMeansMapped
  NoNeedlessRepeat
  SceneFollowsMap
CHECK_DEADLOCK FALSE
