SPECIFICATION Spec
CONSTANTS
  Buffers = {b1, b2, b3, b4}
  Obs = {o1, o2, o3}
  None = None
  MaxDecoded = 4
  Jpeg = TRUE
SYMMETRY Symmetry
INVARIANTS FramesConserved HandedOver
PROPERTIES ImplementsLife
CHECK_DEADLOCK FALSE
