SPECIFICATION Spec
CONSTANTS
  FrameSize = 32
  SavedArea = 16
  Name = {x, y}
  Widths <- SmallWidths
  Bounds <- LargeBounds
  MaxScopes = 3
  MaxGlobals = 1
  MaxOperands = 2
INVARIANTS
  GlobalArraysApart
