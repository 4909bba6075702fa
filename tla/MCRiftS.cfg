SPECIFICATION FairSpec
CONSTANTS
  Remotes <- AllRemotes
  Lists <- ListsRead
  Hand <- HandOf
  MAX_CONTROLLERS = 2
  BlockLen = 3
  MaxFaults = 1
INVARIANTS CalibratedByOwn HeadUnitShared
PROPERTIES RemotesComeUp
