CONSTANTS
  Contexts = {c1, c2, c3}
  Bindings = {b1, b2}
  MAX_CONTEXTS = 2
  Faults = {}
  NONE = NONE
SPECIFICATION Spec
INVARIANTS AckedIsRegistered
CHECK_DEADLOCK FALSE
