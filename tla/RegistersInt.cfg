SPECIFICATION Spec
CONSTANTS
  Bank <- IntBank
  Temps <- IntTemps
  Args <- IntArgs
  Reserved <- IntReserved
  Stray <- IntStray
  NoReg = "none"
  MaxHeld = 4
  MaxParams = 3
INVARIANTS
  TypeOK
  NoSilentSharing
  OnlyAssignmentsLeak
PROPERTIES
  KeepsContract
  ReservedLast
