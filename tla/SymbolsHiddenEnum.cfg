SPECIFICATION Spec
CONSTANTS
  Name = {x, y}
  Type <- TwoTypes
  NoType = "none"
  Unknown = Unknown
  Pitfalls <- HideEnum
  MaxScopes = 4
  MaxNames = 3
PROPERTIES
  LexicallyScoped
