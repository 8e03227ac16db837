SPECIFICATION Spec
CONSTANTS
  Name = {x, y}
  Type <- TwoTypes
  NoType = "none"
  Unknown = Unknown
  Pitfalls <- NoPitfall
  MaxScopes = 4
  MaxNames = 3
INVARIANTS
  TypeOK
PROPERTIES
  LexicallyScoped
