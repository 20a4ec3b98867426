SPECIFICATION Spec
CONSTANTS
  Ids = {i1, i2}
  Words = {w1, w2}
  MaxChanges = 1
  None = none
INVARIANTS TypeOK ChangesTheOneMeant CardTakesNewKey
