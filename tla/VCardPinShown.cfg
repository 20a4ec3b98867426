SPECIFICATION SmoothSpec
CONSTANTS
  Factory = factory
  NoPin = none
  Chosen = {a}
  Foreign = {f}
  Generated = {g1}
  Policies = {"off", "fixed"}
INVARIANTS SetPinsAreDisplayed
