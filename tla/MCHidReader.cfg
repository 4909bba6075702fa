SPECIFICATION FairSpec
CONSTANTS
  Devices = {h1, h2}
  MaxQueued = 0
  MaxReports = 3
INVARIANTS ReportsKept
PROPERTIES ReadersEnd
CHECK_DEADLOCK FALSE
