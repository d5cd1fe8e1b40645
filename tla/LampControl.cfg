CONSTANTS
  MaxShuts = 2
  MaxTouches = 2
SPECIFICATION FairSpec
INVARIANTS OneCommandPerTouch
PROPERTIES LampComesOn LampGoesOff
CHECK_DEADLOCK FALSE
