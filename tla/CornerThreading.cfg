SPECIFICATION Spec
CONSTANTS
    Worlds <- CornerWorlds
    Inflation = 1
    Fine = 10
    Farthest = 400
    LongestLeg = 80
    Tol = 0
    MaxStep = 4
    Offset = 3
    Unit = 25
    Creep <- MCCreep
    MaxDrifts = 1
    StartYaws <- MCStartYaws
    NoWorld = NoWorld
    NoYaw = NoYaw
    NoCommand = NoCommand
INVARIANT PlanStaysClear
CHECK_DEADLOCK FALSE
