SPECIFICATION Spec
CONSTANTS
  Serials = {c1, c2}
  Here = here
  Wide = 16
  MaxSpan = 2
  Spells = {0, 1}
  MaxTime = 2
  MaxChanges = 3
  None = none
INVARIANTS TypeOK ExpiryAsAsked UsageKept
PROPERTIES SignaturesStay
CHECK_DEADLOCK FALSE
