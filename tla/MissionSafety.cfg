SPECIFICATION Spec
CONSTANTS
  Drones = {d1, d2}
  Faults = {"log", "hang", "swallow"}
  Window = 2
  Period = 1
  Outer = 1
INVARIANTS
  EmergencyOnce
  NoDroneForgotten
  ShutdownLandsNothing
PROPERTIES
  UsesSafetyController
SYMMETRY DroneSymmetry
