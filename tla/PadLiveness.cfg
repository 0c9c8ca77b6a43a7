SPECIFICATION FairSpec
CONSTANTS
  d1 = d1
  d2 = d2
  b1 = b1
  b2 = b2
  Drones <- MCDrones
  Beacons <- OneBeacon
  NoDrone = none
  NoPad = nopad
  Blob = blob
  ValidIds <- Same
  ServoOn <- ByEither
  Frames = 1
  MinHits = 1
  DescendHits = 1
  CenterFrames = 1
  MaxLosses = 1
PROPERTIES
  PhaseEnds
