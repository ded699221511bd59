CONSTANTS
  c1 = c1
  c2 = c2
  r1 = r1
  r2 = r2
  r3 = r3
  id1 = id1
  id2 = id2
  NoId = NoId
  NoData = NoData
  NoMap = NoMap
  Types <- AnyType
  Clients <- TwoClients
  Requests <- ThreeRequests
  Ids <- TwoIds
SPECIFICATION Spec
SYMMETRY Symmetry
INVARIANTS SessionsSeparate JarFindsSession
PROPERTIES NoChangeLost GuardKnowsClient
CHECK_DEADLOCK FALSE
