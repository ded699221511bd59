CONSTANTS
  r1 = r1
  r2 = r2
  c1 = c1
  c2 = c2
  NoReq = NoReq
  NoCtx = NoCtx
  Recovery = "recovery"
  Others <- OneMiddleware
  Requests <- TwoRequests
  Contexts <- TwoContexts
  RouteKinds <- AllRoutes
  Outcomes <- AllOutcomes
  Cooperative = FALSE
  MaxMiddlewares = 2
  MaxWrites = 1
SPECIFICATION FairSpec
INVARIANTS
  ContextExclusive
  ContextIsolation
  ResponseIsolation
  StatusMatchesOutcome
PROPERTIES
  ChainCompiledOnce
  TimeoutAnswers
  TimedGoroutineEnds
CHECK_DEADLOCK FALSE
