SPECIFICATION Spec
CONSTANTS
  RuleBuckets = 1
  TaskLimit = 1
  Keys <- UndeclaredKeys
  Lab <- SmallLab
  Together <- Combinations
PROPERTIES
  UnreadInfersNothing
