SPECIFICATION HeightFairSpec
CONSTANTS
  Heights = {1, 2, 6}
  Standing = 1
  Target = 4
  Plausible <- SmallOffsets
  Window = 2
  Prepare = 2
  Patience = 7
  MaxRuns = 2
  MaxCrashes = 1
INVARIANTS AnswerRight
PROPERTIES BothReturn
CHECK_DEADLOCK FALSE
