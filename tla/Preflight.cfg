SPECIFICATION FairSpec
CONSTANTS
  d1 = d1
  d2 = d2
  d3 = d3
  Fleet <- MCFleet
INVARIANTS
  FliesOnlyWhatPassed
  NothingLeftUp
PROPERTIES
  CasualtyStaysDown
  StartIsDecided
CHECK_DEADLOCK FALSE
