SPECIFICATION FairSpec
CONSTANTS
  Buffers = {b1, b2}
  Obs = {o1, o2, o3}
  None = None
  MaxDecoded = 4
  Jpeg = FALSE
PROPERTIES OldestReturns TearDownEnds
CHECK_DEADLOCK FALSE
