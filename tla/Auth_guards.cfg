CONSTANTS
  Stacks <- SomeStacks
  Requests <- SomeRequests
  Places <- AllPlaces
  Foreign <- OtherTokens
  Claims <- SomeClaims
  Issuers <- SomeIssuers
  MaxNow = 3
  MaxIssued = 1
  None = None
SPECIFICATION Spec
INVARIANTS AdmittedWithReason RefusedWithReason IssuedIsAdmitted
