CONSTANTS
  r1 = r1
  r2 = r2
  c1 = c1
  c2 = c2
  NoReq = NoReq
  NoCtx = NoCtx
  Recovery = "recovery"
  Others <- OneMiddleware
  Requests <- TwoRequests
  Contexts <- TwoContexts
  RouteKinds <- TimedRoutes
  Outcomes <- Returns
  Cooperative = TRUE
  MaxMiddlewares = 2
  MaxWrites = 1
SPECIFICATION Spec
INVARIANT ResponseNeverShared
CHECK_DEADLOCK FALSE
