SPECIFICATION Spec
CONSTANTS
    Sensors = {s1, s2}
    Liars = {s2}
    Turns = {0, 1, 4}
    Places = {0, 1}
    Truth <- MCTruth
    Doubts <- MCDoubts
    Kinds = {"hmd", "controller"}
    NumSlots = 1
    OrientLost = 1
    CrossGap = 1
    PoseLost = 2
    MaxSearch = 1
PROPERTIES OneCameraCannotReplace PoseStands
CHECK_DEADLOCK FALSE
