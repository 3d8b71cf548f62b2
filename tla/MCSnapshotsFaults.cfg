CONSTANTS
  c1 = c1
  c2 = c2
  x = x
  y = y
  ZERO = ZERO
  NONE = NONE
  Contexts = {c1}
  MAX_CONTEXTS = 2
  CHUNK_PAGES = 2
  MaxPages = 3
  PageData = {x}
  HashOf <- MCHashOf
  BootMemory <- MCBootMemory
  Builds = {1, 2}
  Hooked = {2}
  Faults = {"boot", "storage", "alarm"}
  PagesPerRun = 1
  GuestPages = {0, 1, 2}
  HookPages = {0, 1, 2}
  MaxLifetimes = 1
SPECIFICATION Spec
INVARIANTS NoOrphanChunks
CHECK_DEADLOCK FALSE
