SPECIFICATION Spec
CONSTANTS
  Procs = {p1, p2}
  Sticks = {d1, d2}
  Archs = {"x86_64", "aarch64", "other"}
  MaxFlashes = 1
  NoStick = none
SYMMETRY StickSymmetry
CONSTRAINT FlashesFewSticks
INVARIANTS TypeOK CreatedStaysComplete OwnVolume UnmountedAtClose
PROPERTIES StickKept
CHECK_DEADLOCK FALSE
