CONSTANTS
  Owners = {"sandbox", "interpreter"}
  TTLs = {0, 10}
  Horizon = 26
  NONE = NONE
SPECIFICATION FairSpec
INVARIANTS TypeOK CacheIsCoherent ArmedWithinWindow
PROPERTIES NeverEarly DisabledNeverExpires TouchedIsEventuallyWiped
CHECK_DEADLOCK FALSE
