SPECIFICATION CarefulSpec
CONSTANTS
  Procs = {p1, p2}
  MaxGen = 2
  MaxRenew = 1
SYMMETRY ProcSymmetry
INVARIANTS IInv SecuredNeverLost StubIsBackedUp BackedUpMeansBackup
PROPERTIES NewestOnCard CustodyKept
CHECK_DEADLOCK FALSE
