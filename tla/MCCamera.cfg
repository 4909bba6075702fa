SPECIFICATION CameraFairSpec
CONSTANTS
  Transfers = 2
  Parts = 3
  Frames = 2
  MaxTries = 2
  NumDevices = 3
  NumBlobs = 4
  Devices <- AllDevices
  Blobs <- AllBlobs
  MinMatched = 2
  MinUnaided = 3
INVARIANTS TransfersCounted FrameOfOneImage ClaimsHold SearchExact
PROPERTIES StopReturns
CHECK_DEADLOCK FALSE
