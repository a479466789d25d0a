CONSTANTS
  Handlers = {h1, h2}
  Robot = robot1
  Path = path1
  AlertLimit = 2
  MaxOwn = 1
  None = None
  Mqtt = Mqtt
  Requests <- MCRobotRequests
SPECIFICATION Spec
SYMMETRY Symmetry
INVARIANTS
  RobotRowSettles
CHECK_DEADLOCK FALSE
