CONSTANTS
  Robots = {dog1, dog2}
  Default = {dog1}
  Writers = {w1, w2}
  Messages = {1, 2, 3}
  Keep = 2
  Columns = {state, place}
  Values = {u, v}
  NoRow = none
  Admins = {a1, a2}
  Offered <- MCOffered
  MaxExecutors = 4
SPECIFICATION Spec
SYMMETRY Symmetry
INVARIANTS
  CacheAgrees
  MessagesOnce
  TwoActiveHaveCause
  ConfigsHaveRobots
CHECK_DEADLOCK FALSE
