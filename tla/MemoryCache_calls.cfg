CONSTANTS
  p1 = p1
  p2 = p2
  k1 = k1
  v1 = v1
  Janitor = Janitor
  NoItem = NoItem
  NoKey = NoKey
  Clients <- TwoClients
  Keys <- OneKey
  Values <- OneValue
  TTLs <- ForeverOrOne
  MaxTime = 3
  MaxSets = 3
  Flushes = TRUE
SPECIFICATION FairSpec
PROPERTIES
  PermanentEntriesStay
  ExpiredEventuallyGone
CHECK_DEADLOCK FALSE
