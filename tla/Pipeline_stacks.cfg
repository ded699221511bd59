CONSTANTS
  NoPage = NoPage
  Stacks <- SomeStacks
  Policies <- AnyPolicy
  Requests <- SomeRequests
  Listed <- ListedOrigins
  Statuses <- Codes
  MaxRequests = 2
  MaxCalls = 2
SPECIFICATION Spec
INVARIANTS
  OutcomeTold
  HitRepeatsMiss
  LoggedAsSent
  Decodable
  GuardsHold
  OriginTold
  StreamKeepsUp
CHECK_DEADLOCK FALSE
