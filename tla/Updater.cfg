SPECIFICATION UpdateSpec
CONSTANTS
  Checkers = {c1}
  Updates = {u1}
  MaxVersion = 3
  Interval = 2
  MaxAhead = 1
  MaxSetBacks = 1
INVARIANTS UpdateTypeOK
PROPERTIES EventuallyTold
CHECK_DEADLOCK FALSE
