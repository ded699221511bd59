CONSTANTS
  Structs <- MCStructs
  Keys = {"a", "b"}
  Word = 8
  Queries <- MCQueries
  Bodies <- MCBodies
  MaxBinds = 3
SPECIFICATION BindingSpec
INVARIANTS BoundAsSent FailureStopsThere PartialFormWasReported VerdictIsRight
CHECK_DEADLOCK FALSE
