SPECIFICATION FairSafetySpec
CONSTANTS
  Drones = {d1, d2, d3}
  Window = 3
  Period = 1
  Outer = 2
INVARIANTS
  LadderWithinBound
  EscalationIsFinal
  PermitsConserved
PROPERTIES
  LaunchIsCorridor
  LandingIsCorridor
  LandingEnds
CHECK_DEADLOCK FALSE
