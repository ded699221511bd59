CONSTANTS
  r1 = r1
  r2 = r2
  ip1 = ip1
  port1 = port1
  port2 = port2
  b1 = b1
  b2 = b2
  NoBucket = NoBucket
  Requests <- TwoRequests
  IPs <- OneIP
  Ports <- TwoPorts
  Buckets <- TwoBuckets
  Burst = 1
  Token = 2
  Rate = 1
  IdleLimit = 2
  MaxStall = 1
  MaxTime = 5
SPECIFICATION FairSpec
INVARIANTS RateHeld
PROPERTIES ImplementsTokenBucket IdleForgotten
CHECK_DEADLOCK FALSE
