SPECIFICATION FairSpec
CONSTANTS
  Drones = {d1, d2}
  Faults = {"phase", "hang"}
  Window = 1
  Period = 1
  Outer = 0
INVARIANTS
  CleanExitMeansGrounded
PROPERTIES
  MissionEnds
  CrashIsSafed
