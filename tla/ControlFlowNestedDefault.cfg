SPECIFICATION Spec
CONSTANTS
  Value <- TwoValues
  NestedDefaults = TRUE
  MaxOpen = 3
  MaxLabel = 8
INVARIANTS
  JumpsLand
