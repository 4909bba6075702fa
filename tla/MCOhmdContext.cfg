SPECIFICATION FairSpec
CONSTANTS
  Devices = {0, 1, 2}
  HeadsetOf <- OneHeadset
  ManualToo = TRUE
INVARIANTS ListAndUsersExact UpdatedOnce
PROPERTIES UpdaterGoesOn
CHECK_DEADLOCK FALSE
