CONSTANTS
  Runs = {r1, r2}
  Makers = {m1, m2}
  Sizes = {2}
  MaxTasks = 3
  Clients = {c1, c2}
  Names = {scene, other}
  Scenario = scene
  PlatformTrace = trace
  Offered <- MCOffered
  Limit = 2
  MaxVersion = 2
  MaxLog = 5
SPECIFICATION Spec
SYMMETRY Symmetry
INVARIANTS
  GroupsWhole
  DuplicatesHaveCause
  EventsInOrder
  RunsKeepTheirScene
CHECK_DEADLOCK FALSE
