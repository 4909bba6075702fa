SPECIFICATION TimeSpec
CONSTANTS
  NumDevices = 2
  Sensors = {s1, s2}
  Buffers = {b1}
  NumSlots = 1
  HistSize = 1
  MaxReports = 2
  Quiet = {1}
  Synced = TRUE
  MaxExposures = 2
  Wrap = 32
  SeqWrap = 8
  Starts = {0, 13, 25}
  MaxGap = 3
  MaxTime = 22
SYMMETRY Symmetry
INVARIANTS UseCountExact NoStaleMatch ReportsOfOwnExposure ClaimsFit
PROPERTIES TakenOnlyIfFused SamplesExact
CHECK_DEADLOCK FALSE
