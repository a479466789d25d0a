CONSTANTS
  sync1 = sync1
  sync2 = sync2
  dog = dog
  run = run
  task = task
  plan = plan
  action = action
  query = query
  older = older
  other = other
  Syncs = {sync1, sync2}
  Robots = {dog}
  Runs = {run}
  Tasks = {task, other}
  Plans = {plan}
  Actions = {action}
  Active = {plan}
  Queries = {}
  RunOf <- MCRunOf
  TaskOf <- MCTaskOf
  PlanOf <- MCPlanOf
  NamedTask <- MCNamedTask
  RobotOf <- MCRobotOf
  CreatedAt <- MCCreatedAt
  ActionLimit = 1000
  Requests <- MovedRequests
  MaxHub = 12
SPECIFICATION Spec
INVARIANTS
  ActionsAccepted
CHECK_DEADLOCK FALSE
