CONSTANTS
  Contexts = {c1, c2, c3}
  Bindings = {b1, b2}
  MAX_CONTEXTS = 2
  Faults = {"calls", "crash", "expiry"}
  NONE = NONE
SPECIFICATION FairSpec
INVARIANTS TypeOK CapsHold DeletedStaysDeleted HostedIsRegistered CreateIsNotRefused
PROPERTIES RequestsComplete
CHECK_DEADLOCK FALSE
