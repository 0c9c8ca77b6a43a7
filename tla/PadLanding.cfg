SPECIFICATION Spec
CONSTANTS
  d1 = d1
  d2 = d2
  b1 = b1
  b2 = b2
  Drones <- MCDrones
  Beacons <- MCBeacons
  NoDrone = none
  NoPad = nopad
  Blob = blob
  ValidIds <- Differing
  ServoOn <- ByMarker
  Frames = 2
  MinHits = 2
  DescendHits = 2
  CenterFrames = 2
  MaxLosses = 1
INVARIANTS
  OneDronePerPad
PROPERTIES
  DescendsOnGreen
  ImplementsPadClaims
