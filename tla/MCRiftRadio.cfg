SPECIFICATION FairSpec
CONSTANTS
  Blocks = 1
  BadFlash = {0}
  MaxTone = 1
  Vibrating = {1}
  Restarts = TRUE
INVARIANTS ReadInv HapticInv
PROPERTIES RequestsSent
