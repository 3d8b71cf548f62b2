CONSTANTS
  a = a
  b = b
  x = x
  y = y
  i1 = i1
  i2 = i2
  dir = dir
  Paths <- MCPaths
  Contents = {x}
  DIR = dir
  MAX_ENTRIES = 3
  Interpreters = {i1}
  Retypes = {"file to dir"}
  Faults = {}
  NONE = NONE
SPECIFICATION Spec
PROPERTIES DeliveryAgrees
