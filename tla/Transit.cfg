SPECIFICATION FairSpec
CONSTANTS
    Worlds <- GeneralWorlds
    Inflation = 1
    Fine = 10
    Farthest = 400
    LongestLeg = 80
    Tol = 0
    MaxStep = 4
    Offset = 3
    Unit = 25
    Creep <- MCCreep
    MaxDrifts = 1
    StartYaws <- MCStartYaws
    NoWorld = NoWorld
    NoYaw = NoYaw
    NoCommand = NoCommand
INVARIANTS TypeOK PlanIsShortest PlanStaysClear RouteFlownInOrder
PROPERTIES NoseOnLeg TransitEnds
CHECK_DEADLOCK FALSE
