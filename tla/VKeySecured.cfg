SPECIFICATION SmoothSpec
CONSTANTS
  Procs = {p1}
  MaxGen = 1
  MaxRenew = 0
INVARIANTS SecuredNeverLost
CHECK_DEADLOCK FALSE
