SPECIFICATION Spec
CONSTANTS
  RuleBuckets = 1
  TaskLimit = 1
  Keys <- Registered
  Lab <- SmallLab
  Together <- Combinations
INVARIANTS
  TypeOK
  CompletePollIsExact
  GreenMeansWell
  SessionsRenew
PROPERTIES
  ResolvedIsOver
