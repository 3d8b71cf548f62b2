CONSTANTS
  c1 = c1
  c2 = c2
  x = x
  y = y
  ZERO = ZERO
  NONE = NONE
  Contexts = {c1, c2}
  MAX_CONTEXTS = 2
  CHUNK_PAGES = 2
  MaxPages = 3
  PageData = {x}
  HashOf <- MCHashOf
  BootMemory <- MCBootMemory
  Builds = {1, 2}
  Hooked = {2}
  Faults = {}
  PagesPerRun = 1
  GuestPages = {0, 2}
  HookPages = {0}
  MaxLifetimes = 0
SPECIFICATION Spec
INVARIANTS TypeOK StoredImageIsLastSnapshot ChunkIdsAreStored BehindIsFlaggedOrLimited
PROPERTIES ImplementsContextMemory
CHECK_DEADLOCK FALSE
SYMMETRY Symmetry
