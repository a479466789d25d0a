SPECIFICATION Spec
CONSTANTS
  None = None
  siteA = siteA
  siteB = siteB
  pub1 = pub1
  pub2 = pub2
  n1 = n1
  n2 = n2
  n3 = n3
  e1 = e1
  e2 = e2
  groupA = groupA
  groupB = groupB
  station = station
  robot1 = robot1
  robot2 = robot2
  lonePath = lonePath
  path1 = path1
  path2 = path2
  Fleet = {robot1}
  DefaultMapId = siteA
  DefaultGroups <- MCDefaultGroups
  FirstRobots <- MCFirstRobots
  GroupIds <- MCGroupIds
  Publishers = {pub1, pub2}
  Content <- MCContent
  First = "small"
  Edited = {n3}
  MaxSeconds = 2
  MaxEdits = 1
  MaxLoads = 3
SYMMETRY Symmetry
INVARIANTS
  PublishedIsDrivable
PROPERTIES
  AloneTellsTruth
  AloneLeavesOrder
  CurrentOnlyAdvances
CHECK_DEADLOCK FALSE
