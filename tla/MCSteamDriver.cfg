SPECIFICATION SteamFairSpec
CONSTANTS
  Devices = {0, 1, 2, 3, 4, 5}
  HeadsetOf <- Behind
  ManualToo = FALSE
  Setups <- AllSetups
  Unset = 0
  MaxDrift = 2
INVARIANTS FirstThatFits PosesRight
PROPERTIES ThreadsGoOn
CHECK_DEADLOCK FALSE
