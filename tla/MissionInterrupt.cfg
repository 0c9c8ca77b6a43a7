SPECIFICATION Spec
CONSTANTS
  Drones = {d1, d2}
  Faults = {"phase", "interrupt", "abortkey"}
  Window = 1
  Period = 1
  Outer = 0
INVARIANTS
  NoDroneForgotten
  StopAttributed
SYMMETRY DroneSymmetry
