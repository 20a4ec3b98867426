SPECIFICATION Spec
CONSTANTS
  Factory = factory
  NoPin = none
  Chosen = {a}
  Foreign = {f}
  Generated = {g1, g2}
  Policies = {"off", "fixed"}
INVARIANTS TypeOK TouchSetForAll
PROPERTIES OneRunNeverBlocks ShownPinsWork KdfBeforePins ImportNeedsOwnAdminPin
