SPECIFICATION TracksSpec
CONSTANTS
  MaxExtents = 2
  MaxSize = 35
  MaxBlobs = 100
  Lights = {l1, l2}
  Places <- AllPlaces
  Targets = {d1, d2}
  MaxIds = 4
  MaxMarks = 2
SYMMETRY Names
VIEW InUse
INVARIANTS PixelsOnce MatchingStable LabelsRight MatchesStand
PROPERTIES IdsFollowLights
