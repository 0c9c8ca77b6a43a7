--------------------------- MODULE Preflight_proofs ---------------------------
(***************************************************************************)
(* Theorems about the gates, for a fleet of any size and any floor.        *)
(***************************************************************************)
EXTENDS Preflight, FiniteSetTheorems, TLAPS

-----------------------------------------------------------------------------
(***************************************************************************)
(* The inductive invariant.                                                *)
(***************************************************************************)
Past6 == {"P8", "P9", "P10", "passed", "flying"}
Past5 == Past6 \union {"P6"}
Past4 == Past5 \union {"P5"}
Past3 == Past4 \union {"P4"}
OnTheWay == Past3 \union {"P0", "P3"}

\* The loop of gate g is through with the i-th drone.
Through(g, past, i) == gate \in past \/ (gate = g /\ i < next)

\* Nothing is up before the links are made, and nobody is dropped before the
\* scan.
NothingYet ==
  gate \in {"P0", "P3"} =>
    /\ linked = {} /\ sane = {} /\ streaming = {} /\ started = {}
    /\ gate = "P0" \/ next = 1 => dropped = {}

\* A strict start drops nobody.
StrictIsWhole == ~cfg.partial => dropped = {}

\* Whoever is left was heard.
LeftWereHeard ==
  gate \in Past3 \/ (gate = "P3" /\ next # 1) => Alive \subseteq addressed

\* Whoever is left passed each gate whose loop is through with it.
LeftHavePassed ==
  \A i \in DOMAIN Fleet : Fleet[i] \notin dropped =>
    /\ Through("P4", Past4, i) => Fleet[i] \in linked
    /\ Through("P5", Past5, i) => Fleet[i] \in sane
    /\ Through("P6", Past6, i) => Fleet[i] \in started

\* The streams are those of the sources that were started.
StreamsAreStarted == gate \in OnTheWay => streaming = started \ dropped

DownIsDown == dropped \intersect (linked \union streaming \union flying) = {}

AboveFloor == gate \in Past6 => FloorHolds

GoGiven == gate \in {"passed", "flying"} => go /\ ~cfg.only

FliesWhoIsLeft == flying = IF gate = "flying" THEN Alive ELSE {}

\* The safing down of a start, without the size of what it leaves on.
SafedDown ==
  gate \in {"refused", "checked", "ended"} =>
    /\ linked = {}
    /\ \/ streaming = {}
       \/ ~cfg.partial /\ \E d \in Drones \ started : streaming = {d}

PreflightInv ==
  /\ TypeOK /\ NothingYet /\ StrictIsWhole /\ LeftWereHeard /\ LeftHavePassed
  /\ StreamsAreStarted /\ DownIsDown /\ AboveFloor /\ GoGiven
  /\ FliesWhoIsLeft /\ SafedDown


-----------------------------------------------------------------------------
(***************************************************************************)
(* The fleet.                                                              *)
(***************************************************************************)
\* A fleet has as many drones as its list is long.
LEMMA FleetSize ==
  /\ IsFiniteSet(Drones) /\ Cardinality(Drones) = Len(Fleet)
  /\ \A i \in DOMAIN Fleet : Fleet[i] \in Drones
  /\ DOMAIN Fleet = 1..Len(Fleet) /\ Len(Fleet) \in Nat /\ Len(Fleet) # 0
<1>1. /\ DOMAIN Fleet = 1..Len(Fleet) /\ Len(Fleet) \in Nat /\ Len(Fleet) # 0
      /\ Fleet \in [1..Len(Fleet) -> Drones]
  BY FleetAssumption
<1>2. Fleet \in Bijection(1..Len(Fleet), Drones)
  BY <1>1, FleetAssumption DEF Bijection, Injection, Surjection, IsInjective, Drones
<1>3. ExistsBijection(1..Len(Fleet), Drones)
  BY <1>2 DEF ExistsBijection
<1>4. IsFiniteSet(Drones) /\ Cardinality(Drones) = Len(Fleet)
  BY <1>1, <1>3, FS_CountingElements, FS_NatBijection
<1>5. \A i \in DOMAIN Fleet : Fleet[i] \in Drones
  BY DEF Drones
<1> QED
  BY <1>1, <1>4, <1>5

LEMMA PreflightInitial == Init => PreflightInv
<1> SUFFICES ASSUME Init PROVE PreflightInv
  OBVIOUS
<1> USE DEF Init
<1>1. TypeOK
  <2>1. next \in 1..(Len(Fleet) + 1)
    BY FleetSize
  <2> QED
    BY <2>1 DEF TypeOK, Gates
<1>2. NothingYet /\ StrictIsWhole /\ LeftWereHeard /\ StreamsAreStarted /\ DownIsDown
  BY DEF NothingYet, StrictIsWhole, LeftWereHeard, StreamsAreStarted, DownIsDown,
         Past3, Past4, Past5, Past6
<1>3. LeftHavePassed /\ AboveFloor /\ GoGiven /\ FliesWhoIsLeft /\ SafedDown
  BY DEF LeftHavePassed, Through, AboveFloor, GoGiven, FliesWhoIsLeft, SafedDown,
         Past3, Past4, Past5, Past6
<1> QED
  BY <1>1, <1>2, <1>3 DEF PreflightInv

-----------------------------------------------------------------------------
(***************************************************************************)
(* What the gates share.                                                   *)
(***************************************************************************)
\* A critical failure safes down whatever is up.
LEMMA RefuseStep ==
  ASSUME PreflightInv, gate \in OnTheWay, gate # "flying", Refuse
  PROVE  PreflightInv'
<1> USE FleetSize
    DEF PreflightInv, TypeOK, Gates, Outcomes, NothingYet, StrictIsWhole,
        LeftWereHeard, LeftHavePassed, Through, StreamsAreStarted, DownIsDown,
        AboveFloor, GoGiven, FliesWhoIsLeft, SafedDown,
        Past3, Past4, Past5, Past6, OnTheWay, Alive, FloorHolds
<1>1. streaming' = {} /\ linked' = {} /\ gate' = "refused" /\ flying = {}
  BY DEF Refuse
<1> QED
  BY <1>1 DEF Refuse

\* A drone fails in a gate that can drop it: it is dropped, or the fleet
\* refused.
LEMMA FailsStep ==
  ASSUME PreflightInv, NEW g \in {"P4", "P5", "P6"}, AtDrone(g), Fails
  PROVE  PreflightInv'
<1>1. CASE Refuse
  BY <1>1, RefuseStep DEF AtDrone, OnTheWay, Past3, Past4, Past5
<1>2. ASSUME ~Refuse PROVE PreflightInv'
  <2>1. /\ cfg.partial /\ Drop(Fleet[next]) /\ next' = next + 1
        /\ UNCHANGED <<cfg, gate, addressed, sane, started, go, flying>>
    BY <1>2 DEF Fails
  <2> USE FleetSize
      DEF PreflightInv, TypeOK, Gates, Outcomes, NothingYet, StrictIsWhole,
          LeftWereHeard, LeftHavePassed, Through, StreamsAreStarted, DownIsDown,
          AboveFloor, GoGiven, FliesWhoIsLeft, SafedDown,
          Past3, Past4, Past5, Past6, OnTheWay, Alive, FloorHolds
  <2> QED
    BY <2>1 DEF AtDrone, Drop
<1> QED
  BY <1>1, <1>2

\* The end of a gate.
LEMMA EndStep ==
  ASSUME PreflightInv,
         NEW g, NEW f,
         \/ g = "P3" /\ f = "P4"
         \/ g = "P4" /\ f = "P5"
         \/ g = "P5" /\ f = "P6"
         \/ g = "P6" /\ f = "P8",
         EndOf(g, f)
  PROVE  PreflightInv'
<1>1. CASE Refuse
  BY <1>1, RefuseStep DEF EndOf, OnTheWay, Past3, Past4, Past5
<1>2. ASSUME ~Refuse PROVE PreflightInv'
  <2>1. /\ gate = g /\ next > Len(Fleet) /\ FloorHolds /\ gate' = f /\ next' = 1
        /\ UNCHANGED <<cfg, addressed, linked, sane, streaming, started, dropped,
                       go, flying>>
    BY <1>2 DEF EndOf, Goto
  <2>2. \A i \in DOMAIN Fleet : i < next /\ ~(i < next')
    BY <2>1, FleetSize DEF PreflightInv, TypeOK
  <2> USE FleetSize
      DEF PreflightInv, TypeOK, Gates, Outcomes, NothingYet, StrictIsWhole,
          LeftWereHeard, LeftHavePassed, Through, StreamsAreStarted, DownIsDown,
          AboveFloor, GoGiven, FliesWhoIsLeft, SafedDown,
          Past3, Past4, Past5, Past6, OnTheWay, Alive, FloorHolds
  <2> QED
    BY <2>1, <2>2
<1> QED
  BY <1>1, <1>2

-----------------------------------------------------------------------------
(***************************************************************************)
(* The gates, the hand-over and the interrupt.                             *)
(***************************************************************************)
LEMMA GateStep ==
  ASSUME PreflightInv, P0 \/ P8 \/ P9 \/ EndP9 \/ P10TimesOut \/ P10Go \/ P10Skips
                       \/ P10Raises
  PROVE  PreflightInv'
<1>1. CASE Refuse
  BY <1>1, RefuseStep
     DEF P0, P8, P9, EndP9, P10TimesOut, P10Go, P10Skips, P10Raises, AtDrone, OnTheWay,
         Past3, Past4, Past5, Past6
<1> USE FleetSize
    DEF PreflightInv, TypeOK, Gates, Outcomes, NothingYet, StrictIsWhole,
        LeftWereHeard, LeftHavePassed, Through, StreamsAreStarted, DownIsDown,
        AboveFloor, GoGiven, FliesWhoIsLeft, SafedDown,
        Past3, Past4, Past5, Past6, OnTheWay, Alive, FloorHolds
<1>2. ASSUME P0, ~Refuse PROVE PreflightInv'
  <2>1. /\ gate = "P0" /\ gate' = "P3" /\ next' = 1
        /\ UNCHANGED <<cfg, addressed, linked, sane, streaming, started, dropped,
                       go, flying>>
    BY <1>2 DEF P0, Goto
  <2> QED
    BY <2>1
<1>3. ASSUME P8, ~Refuse PROVE PreflightInv'
  <2>1. /\ gate = "P8" /\ gate' = "P9" /\ next' = 1
        /\ UNCHANGED <<cfg, addressed, linked, sane, streaming, started, dropped,
                       go, flying>>
    BY <1>3 DEF P8, Goto
  <2> QED
    BY <2>1
<1>4. ASSUME P9, ~Refuse PROVE PreflightInv'
  <2>1. /\ gate = "P9" /\ next <= Len(Fleet) /\ next' = next + 1
        /\ UNCHANGED <<cfg, gate, addressed, linked, sane, streaming, started, dropped,
                       go, flying>>
    BY <1>4 DEF P9, AtDrone
  <2> QED
    BY <2>1
<1>5. CASE EndP9
  BY <1>5 DEF EndP9, Goto
<1>6. CASE P10Go
  BY <1>6 DEF P10Go
<1>7. CASE P10Skips
  BY <1>7 DEF P10Skips
<1>8. CASE P10Raises
  BY <1>8 DEF P10Raises
<1> QED
  BY <1>1, <1>2, <1>3, <1>4, <1>5, <1>6, <1>7, <1>8 DEF P10TimesOut

\* The scan, and whom it did not hear.
LEMMA ScanStep == ASSUME PreflightInv, P3 PROVE PreflightInv'
<1>1. CASE Refuse
  BY <1>1, RefuseStep DEF P3, OnTheWay
<1>2. ASSUME ~Refuse PROVE PreflightInv'
  <2>1. PICK heard \in SUBSET Drones :
          /\ gate = "P3" /\ next = 1 /\ next' = Len(Fleet) + 1
          /\ addressed' = heard /\ dropped' = Drones \ heard
          /\ ~cfg.partial => heard = Drones
          /\ UNCHANGED <<cfg, gate, linked, sane, streaming, started, go, flying>>
    BY <1>2 DEF P3, ScanSuffices
  <2> USE FleetSize
      DEF PreflightInv, TypeOK, Gates, Outcomes, NothingYet, StrictIsWhole,
          LeftWereHeard, LeftHavePassed, Through, StreamsAreStarted, DownIsDown,
          AboveFloor, GoGiven, FliesWhoIsLeft, SafedDown,
          Past3, Past4, Past5, Past6, OnTheWay, Alive, FloorHolds
  <2>2. next' \in 1..(Len(Fleet) + 1) /\ next' # 1
    BY <2>1
  <2> QED
    BY <2>1, <2>2
<1> QED
  BY <1>1, <1>2

\* The links, the fitness check and the streams.
LEMMA DroneStep ==
  ASSUME PreflightInv, P4 \/ P5 \/ P6Starts \/ P6Looks \/ P6Raises \/ SkipDropped
  PROVE  PreflightInv'
<1>1. ASSUME NEW g \in {"P4", "P5", "P6"}, AtDrone(g), Fails PROVE PreflightInv'
  BY <1>1, FailsStep
<1> USE FleetSize
    DEF PreflightInv, TypeOK, Gates, Outcomes, NothingYet, StrictIsWhole,
        LeftWereHeard, LeftHavePassed, Through, StreamsAreStarted, DownIsDown,
        AboveFloor, GoGiven, FliesWhoIsLeft, SafedDown,
        Past3, Past4, Past5, Past6, OnTheWay, Alive, FloorHolds
<1>2. ASSUME P4, ~Fails PROVE PreflightInv'
  BY <1>2 DEF P4, AtDrone
<1>3. ASSUME P5, ~Fails PROVE PreflightInv'
  BY <1>3 DEF P5, AtDrone
<1>4. CASE P6Starts
  BY <1>4 DEF P6Starts, AtDrone
<1>5. ASSUME P6Looks, ~Fails PROVE PreflightInv'
  BY <1>5 DEF P6Looks, AtDrone
<1>6. ASSUME P6Raises, ~Fails PROVE PreflightInv'
  BY <1>6 DEF P6Raises, AtDrone
<1>7. CASE SkipDropped
  BY <1>7 DEF SkipDropped
<1> QED
  BY <1>1, <1>2, <1>3, <1>4, <1>5, <1>6, <1>7 DEF P4, P5, P6Looks, P6Raises

\* The hand-over, the end of the mission, and Ctrl+C.
LEMMA AfterStep ==
  ASSUME PreflightInv, HandOver \/ MissionOver \/ Interrupt \/ InterruptTeardown
  PROVE  PreflightInv'
<1>1. ASSUME gate = "passed" \/ gate = "flying"
      PROVE  /\ Alive \subseteq started /\ Alive \subseteq linked
             /\ linked \subseteq Alive /\ streaming \subseteq Alive
  <2>1. \A d \in Drones : \E i \in DOMAIN Fleet : d = Fleet[i]
    BY DEF Drones
  <2> QED
    BY <1>1, <2>1
    DEF PreflightInv, TypeOK, LeftHavePassed, Through, StreamsAreStarted, DownIsDown,
        Alive, Past4, Past5, Past6, Past3, OnTheWay
<1> USE FleetSize
    DEF PreflightInv, TypeOK, Gates, Outcomes, NothingYet, StrictIsWhole,
        LeftWereHeard, LeftHavePassed, Through, StreamsAreStarted, DownIsDown,
        AboveFloor, GoGiven, FliesWhoIsLeft, SafedDown,
        Past3, Past4, Past5, Past6, OnTheWay, Alive, FloorHolds
<1>2. CASE HandOver
  <2>1. CASE gate' = "flying"
    BY <1>1, <1>2, <2>1 DEF HandOver
  <2>2. CASE gate' = "abandoned"
    BY <1>2, <2>2 DEF HandOver
  <2> QED
    BY <1>2, <2>1, <2>2 DEF HandOver
<1>3. CASE MissionOver
  BY <1>1, <1>3 DEF MissionOver
<1>4. CASE Interrupt
  BY <1>4 DEF Interrupt
<1>5. CASE InterruptTeardown
  <2>1. linked' \subseteq linked /\ streaming' \subseteq streaming
    BY <1>5 DEF InterruptTeardown
  <2> QED
    BY <1>5, <2>1 DEF InterruptTeardown
<1> QED
  BY <1>2, <1>3, <1>4, <1>5

LEMMA PreflightInductive == PreflightInv /\ [Next]_vars => PreflightInv'
<1>1. ASSUME PreflightInv, UNCHANGED vars PROVE PreflightInv'
  BY <1>1 DEF vars, PreflightInv, TypeOK, NothingYet, StrictIsWhole, LeftWereHeard,
              LeftHavePassed, Through, StreamsAreStarted, DownIsDown, AboveFloor,
              GoGiven, FliesWhoIsLeft, SafedDown, Alive, FloorHolds
<1>2. ASSUME PreflightInv, Next PROVE PreflightInv'
  <2>1. CASE EndP3 \/ EndP4 \/ EndP5 \/ EndP6
    BY <1>2, <2>1, EndStep DEF EndP3, EndP4, EndP5, EndP6
  <2> QED
    BY <1>2, <2>1, GateStep, ScanStep, DroneStep, AfterStep
    DEF Next, Proceed, Unbounded
<1> QED
  BY <1>1, <1>2

-----------------------------------------------------------------------------
(***************************************************************************)
(* The theorems.                                                           *)
(***************************************************************************)
\* What is known of every reachable state of a start, together.
THEOREM PreflightInvariant == Spec => []PreflightInv
BY PreflightInitial, PreflightInductive, PTL DEF Spec

\* Type correctness: among others, no stream and no finding about a drone that
\* was not heard in this start.
THEOREM PreflightTypeCorrect == Spec => []TypeOK
<1>1. PreflightInv => TypeOK
  BY DEF PreflightInv
<1> QED
  BY <1>1, PreflightInvariant, PTL

\* The drones that fly passed every gate, are as many as the floor asks for
\* (all of them when strict), and the operator said GO.
THEOREM PreflightFliesOnlyWhatPassed == Spec => []FliesOnlyWhatPassed
<1>1. ASSUME PreflightInv, gate = "flying"
      PROVE  /\ go /\ ~cfg.only
             /\ flying \subseteq addressed \intersect linked \intersect sane
                                   \intersect streaming
             /\ Cardinality(flying) >= IF cfg.partial THEN cfg.floor ELSE Len(Fleet)
  <2>1. go /\ ~cfg.only /\ flying = Alive /\ FloorHolds
    BY <1>1 DEF PreflightInv, GoGiven, FliesWhoIsLeft, AboveFloor, Past6
  <2>2. \A d \in Alive : d \in linked /\ d \in sane /\ d \in started
    <3>1. \A d \in Drones : \E i \in DOMAIN Fleet : d = Fleet[i]
      BY DEF Drones
    <3> QED
      BY <1>1, <3>1
      DEF PreflightInv, LeftHavePassed, Through, Alive, Past4, Past5, Past6
  <2>3. Alive \subseteq addressed /\ streaming = started \ dropped
    BY <1>1 DEF PreflightInv, LeftWereHeard, StreamsAreStarted, OnTheWay, Past3, Past4,
                Past5, Past6
  <2>4. Cardinality(Alive) >= IF cfg.partial THEN cfg.floor ELSE Len(Fleet)
    <3>1. CASE cfg.partial
      BY <2>1, <3>1 DEF FloorHolds
    <3>2. CASE ~cfg.partial
      <4>1. Alive = Drones
        BY <1>1, <3>2 DEF PreflightInv, StrictIsWhole, Alive
      <4> QED
        BY <3>2, <4>1, FleetSize
    <3> QED
      BY <3>1, <3>2
  <2> QED
    BY <2>1, <2>2, <2>3, <2>4 DEF Alive
<1>2. PreflightInv => FliesOnlyWhatPassed
  BY <1>1 DEF FliesOnlyWhatPassed
<1> QED
  BY <1>2, PreflightInvariant, PTL

\* A start that was refused, only checked, or flown to its end leaves no drone
\* linked and no stream on, but one of a strict start.
THEOREM PreflightNothingLeftUp == Spec => []NothingLeftUp
<1>1. ASSUME PreflightInv PROVE NothingLeftUp
  <2>1. \A d : Cardinality({d}) = 1
    BY FS_Singleton
  <2>2. Cardinality({}) = 0
    BY FS_EmptySet
  <2>3. SafedDown
    BY <1>1 DEF PreflightInv
  <2> QED
    BY <2>1, <2>2, <2>3 DEF SafedDown, NothingLeftUp
<1> QED
  BY <1>1, PreflightInvariant, PTL

\* A dropped drone is out for good.
THEOREM PreflightCasualtyStaysDown == Spec => CasualtyStaysDown
<1>1. ASSUME PreflightInv, PreflightInv', [Next]_vars
      PROVE  /\ dropped \subseteq dropped'
             /\ dropped' \intersect (linked' \union streaming' \union flying') = {}
  <2>1. dropped' \intersect (linked' \union streaming' \union flying') = {}
    BY <1>1 DEF PreflightInv, DownIsDown
  <2>2. CASE P3
    <3>1. dropped = {}
      BY <1>1, <2>2 DEF P3, PreflightInv, NothingYet
    <3> QED
      BY <2>1, <3>1
  <2>3. CASE UNCHANGED dropped
    BY <2>1, <2>3
  <2>4. ASSUME Next, ~P3 PROVE UNCHANGED dropped \/ \E d \in Drones : Drop(d)
    BY <1>1, <2>4, FleetSize
    DEF Next, Proceed, P0, EndP3, P4, EndP4, P5, EndP5, P6Starts, P6Looks, P6Raises,
        EndP6, P8, P9, EndP9, P10TimesOut, P10Skips, HandOver, MissionOver, SkipDropped,
        Unbounded, P10Go, P10Raises, Interrupt, InterruptTeardown, EndOf, Fails, Refuse,
        AtDrone, PreflightInv, TypeOK
  <2> QED
    BY <1>1, <2>1, <2>2, <2>3, <2>4 DEF Drop, vars
<1>2. PreflightInv /\ PreflightInv' /\ [Next]_vars =>
        [/\ dropped \subseteq dropped'
         /\ dropped' \intersect (linked' \union streaming' \union flying') = {}]_vars
  BY <1>1
<1> QED
  BY <1>2, PreflightInvariant, PTL DEF Spec, CasualtyStaysDown
=============================================================================
