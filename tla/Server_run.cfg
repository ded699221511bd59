CONSTANTS
  Requests = {r1, r2}
  Hangs = TRUE
  MaxSignals = 2
SPECIFICATION FairSpec
INVARIANTS NilIsGraceful ShutdownIsNoError
PROPERTIES RunReturns ServingEnds
CHECK_DEADLOCK FALSE
