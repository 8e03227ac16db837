SPECIFICATION Spec
CONSTANTS
  WordBits = 8
  CharBits = 4
  FrameBytes = 96
  ConstBase <- MCConstBase
  FrameTop = 112
  CallValue = 9
  LocalsEnd <- MCLocalsEnd
  Unnamed = "z"
  CurrentTypes = {"INT", "FLOAT", "DOUBLE"}
  Pitfalls = {}
  Parts <- MCParts
  GetIdentifier <- MCGetIdentifier
  GetType <- MCGetType
  Emit <- MCEmit
  Height <- MCHeight
  CType <- MCCType
  CValue <- MCCValue
  CPlace <- MCCPlace
  Symbols <- MCSymbols
  Memories <- MCMemories
  Programs <- MCPrograms
INVARIANTS
  TypeOK
  ReturnRight
  EffectsRight
  CallerIntact
  FrameHeld
  StaysInCode
  CompilesAndRuns
  ContextRestored
  LabelsResolved
  ParkedBelowVariables
CHECK_DEADLOCK FALSE
