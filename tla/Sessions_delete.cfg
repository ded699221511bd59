CONSTANTS
  c1 = c1
  c2 = c2
  r1 = r1
  r2 = r2
  r3 = r3
  id1 = id1
  id2 = id2
  NoId = NoId
  NoData = NoData
  NoMap = NoMap
  Types <- AnyType
  Clients <- TwoClients
  Requests <- TwoRequests
  Ids <- TwoIds
SPECIFICATION Spec
INVARIANT DeletedStaysDeleted
CHECK_DEADLOCK FALSE
