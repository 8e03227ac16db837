SPECIFICATION Spec
CONSTANTS
  Value <- TwoValues
  NestedDefaults = FALSE
  MaxOpen = 3
  MaxLabel = 8
INVARIANTS
  TypeOK
  TargetsMirrorNesting
  JumpsLand
  LabelsUnique
