SPECIFICATION Spec
CONSTANTS
  Bank <- BothBanks
  Temps <- BothTemps
  Args <- BothArgs
  Reserved <- BothReserved
  Stray <- BothStray
  NoReg = "none"
  MaxHeld = 3
  MaxParams = 2
INVARIANTS
  Exclusive
  ArgumentsInPlace
  DequeTracksFlags
