SPECIFICATION Spec
CONSTANTS
  e1 = e1
  e2 = e2
  Entity <- MCEntity
  Position <- MCPosition
  BucketSize = 2
  FileId <- MCFileId
  MaxRequests = 3
INVARIANTS
  MovePath
  LostHasRequest
  ExactAtRest
PROPERTIES
  EventuallyIndexed
  ResolveKillsNoOne
  ImplementsIndex
  DeleteKillsIt
