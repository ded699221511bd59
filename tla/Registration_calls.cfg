CONSTANTS
  StandardMethods <- ThreeMethods
  Adds <- MixedAdds
  AnyPaths <- SomeAnys
  MountPaths <- SomeMounts
  GroupPrefixes <- SomePrefixes
  Middlewares <- Auth
  Paths <- MixedPaths
  MaxCalls = 3
SPECIFICATION Spec
INVARIANTS
  RegisteredAsReturned
  Coherent
PROPERTY ImplementsTable
CHECK_DEADLOCK FALSE
