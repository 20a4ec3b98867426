SPECIFICATION Spec
CONSTANTS
  Downloaders = {d1}
  Flashers = {f1}
  MaxVersion = 2
  Blocks = 2
  Inodes = 3
INVARIANTS TypeOK CachedIsGenuine
PROPERTIES StoreKept
CHECK_DEADLOCK FALSE
