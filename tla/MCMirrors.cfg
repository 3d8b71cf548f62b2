CONSTANTS
  a = a
  b = b
  x = x
  y = y
  i1 = i1
  i2 = i2
  dir = dir
  Paths <- MCPaths
  Contents = {x, y}
  DIR = dir
  MAX_ENTRIES = 3
  Interpreters = {i1, i2}
  Retypes = {"file to dir", "dir to file"}
  Faults = {"storage", "alarm"}
  NONE = NONE
SPECIFICATION MCSpec
INVARIANTS TypeOK TableIsExact GuestSeesTheWorkspace
PROPERTIES SyncConverges
