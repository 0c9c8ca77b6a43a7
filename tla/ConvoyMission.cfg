SPECIFICATION Spec
CONSTANTS
  Drones = {d1, d2}
  Convoys = {c1, c2}
  NoDrone = none
  Serviced = serviced
  TTL = 2
  ConfirmHits = 2
INVARIANTS
  FlagsBelongToAClaim
  OwnerIsTracking
  FlagAgrees
PROPERTIES
  ImplementsOwnership
SYMMETRY FleetSymmetry
