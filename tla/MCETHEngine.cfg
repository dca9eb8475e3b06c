SPECIFICATION EngineSpec
CONSTANTS
  e1 = e1
  e2 = e2
  e3 = e3
  menu = menu
  level = level
  NoScene = NoScene
  Entity <- MCEntity
  Scene <- MCScene
  Position <- MCPosition
  BucketSize = 2
  FileId = {0, 1}
  MaxRequests = 1
  Calls <- StaleHandles
INVARIANTS
  CurrentIndexInv
  FunctionsOfScene
  StaleIsDead
PROPERTIES
  RequestServed
