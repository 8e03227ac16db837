SPECIFICATION Spec
CONSTANTS
  WordBits = 4
  CharBits = 3
  Name = {"A", "B"}
  Undefined = Undefined
  None = None
  DivisionTraps = TRUE
  Pitfalls = {}
  MaxScopes = 5
  MaxNames = 2
  Expressions <- MCExpressions
  CaseLists <- MCCaseLists
INVARIANTS
  TypeOK
  ConstantsRight
  EnumeratorsRight
  CasesFound
