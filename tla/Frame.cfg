SPECIFICATION Spec
CONSTANTS
  FrameSize = 28
  SavedArea = 16
  Name = {x, y}
  Widths <- SmallWidths
  Bounds <- SmallBounds
  MaxScopes = 3
  MaxGlobals = 1
  MaxOperands = 2
INVARIANTS
  TypeOK
  SlotsInFrame
  SlotsDisjoint
  FrameAccounted
  LiteralBoundHarmless
SYMMETRY NameSymmetry
