CONSTANTS
  Handlers = {h1, h2, h3}
  Robot = robot1
  Path = path1
  AlertLimit = 2
  MaxOwn = 0
  None = None
  Mqtt = Mqtt
  Requests <- MCRequests
SPECIFICATION Spec
SYMMETRY Symmetry
INVARIANTS
  TypeOK
  AlertsMirrorEvents
  NewestFirst
  SameVersionSameState
CHECK_DEADLOCK FALSE
