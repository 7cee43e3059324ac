CONSTANTS
  Thread = {t1, t2, t3, t4}
  None = None
SPECIFICATION TurnsSpec
INVARIANTS
  OnePlace
  PassedAreBehind
PROPERTY NoSecondTurn
