------------------------------ MODULE Preflight ------------------------------
(***************************************************************************)
(* finals.preflight.run_preflight and the part of finals.main._amain it    *)
(* gates: P0-P10 in order, strict (the first failure refuses the fleet) or *)
(* degraded (allow_partial_fleet: a failing drone is dropped and the fleet *)
(* refused only below min_drones), then the hand-over to the orchestrator. *)
(*                                                                         *)
(* What a gate is told (a plane answers the scan, a link comes up, the     *)
(* telemetry is sane, frames arrive, the operator types GO) is chosen      *)
(* freely.  P7 only warns and is left out.                                 *)
(***************************************************************************)
EXTENDS Integers, Sequences, FiniteSets

CONSTANT Fleet                    \* cfg.drones: a sequence of drones

Drones == {Fleet[i] : i \in DOMAIN Fleet}

ASSUME FleetAssumption ==
  /\ Fleet \in Seq(Drones) /\ Len(Fleet) \in Nat \ {0}
  /\ \A i, j \in DOMAIN Fleet : Fleet[i] = Fleet[j] => i = j

\* The configurations load_config() accepts: the degraded-fleet fallback and
\* its floor, an IP of every drone in the file, sectors for a convoy mission,
\* and the --preflight-only entry.
Configs ==
  [partial : BOOLEAN, floor : 1..Len(Fleet), static : BOOLEAN,
   sectored : BOOLEAN, only : BOOLEAN]

VARIABLES
  cfg,        \* the configuration of this start
  gate,       \* the gate in progress, or how the start went
  next,       \* the drone the gate's loop is at
  addressed,  \* the drones whose adapter has the IP of this start
  linked,     \* the drones whose adapter is connected: its flag, which
              \* disconnect() clears before all that can fail or time out
  sane,       \* the drones P5 found fit to fly
  streaming,  \* the drones whose source started its stream and was not told
              \* to stop; stop() reports what fails, and does not raise it
  started,    \* started_sources
  dropped,    \* dropped
  go,         \* the operator typed GO in time
  flying      \* the drones the orchestrator flies

vars == <<cfg, gate, next, addressed, linked, sane, streaming, started,
          dropped, go, flying>>

Gates == {"P0", "P3", "P4", "P5", "P6", "P8", "P9", "P10"}
\* checked: preflight-only, all passed.  abandoned: main failed after GO.
\* interrupted: run_preflight() was left by what _gate() does not catch.
Outcomes == {"refused", "checked", "ended", "abandoned", "interrupted"}

TypeOK ==
  /\ cfg \in Configs
  /\ gate \in Gates \union Outcomes \union {"passed", "flying"}
  /\ next \in 1..(Len(Fleet) + 1)
  /\ addressed \subseteq Drones /\ linked \subseteq addressed
  /\ sane \subseteq addressed /\ streaming \subseteq sane
  /\ started \subseteq sane /\ dropped \subseteq Drones
  /\ go \in BOOLEAN /\ flying \subseteq started \ dropped

Init ==
  /\ cfg \in Configs
  /\ gate = "P0" /\ next = 1
  /\ addressed = {} /\ linked = {} /\ sane = {}
  /\ streaming = {} /\ started = {} /\ dropped = {}
  /\ go = FALSE /\ flying = {}

Alive == Drones \ dropped

\* _gate() on a critical failure: _teardown() stops the sources that were
\* started and disconnects every adapter, then PreflightError.  A disconnect()
\* that times out and a stop() that fails are printed and the next is taken:
\* neither brings back the flags that linked and streaming stand for.
Refuse ==
  /\ gate' = "refused"
  /\ linked' = {} /\ streaming' = streaming \ started
  /\ UNCHANGED <<cfg, next, addressed, sane, started, dropped, go, flying>>

Goto(g) == gate' = g /\ next' = 1

\* Mutant of Drop: a drone that is dropped keeps its link.
DropOnly(d) ==
  /\ dropped' = dropped \union {d}
  /\ streaming' = streaming \ {d}
  /\ UNCHANGED linked

\* _drop_drone(): recorded, its stream stopped, its adapter disconnected; as in
\* Refuse, whether or not the SDK answers.
Drop(d) ==
  /\ dropped' = dropped \union {d}
  /\ streaming' = streaming \ {d}
  /\ linked' = linked \ {d}

\* Mutant of AtDrone: the loop does not skip the casualties.
AtAnyDrone(g) == gate = g /\ next <= Len(Fleet)

\* The loop of gate g over the drones, which skips the dropped ones.
AtDrone(g) == gate = g /\ next <= Len(Fleet) /\ Fleet[next] \notin dropped

SkipDropped ==
  /\ gate \in {"P4", "P5", "P6", "P9"}
  /\ next <= Len(Fleet) /\ Fleet[next] \in dropped
  /\ next' = next + 1
  /\ UNCHANGED <<cfg, gate, addressed, linked, sane, streaming, started,
                 dropped, go, flying>>

\* Mutant of FloorHolds: the floor is checked against the fleet of the file.
FloorOfAll == ~cfg.partial \/ Cardinality(Drones) >= cfg.floor

\* The end of a degraded gate; a strict one that gets here has passed.
FloorHolds == ~cfg.partial \/ Cardinality(Alive) >= cfg.floor

EndOf(g, following) ==
  /\ gate = g /\ next > Len(Fleet)
  /\ \/ /\ FloorHolds
        /\ Goto(following)
        /\ UNCHANGED <<cfg, addressed, linked, sane, streaming, started,
                       dropped, go, flying>>
     \/ ~FloorHolds /\ Refuse

(***************************************************************************)
(* The gates.                                                              *)
(***************************************************************************)
\* P0-P2 look at the configuration, the run directory and the detector.
P0 ==
  /\ gate = "P0"
  /\ \/ /\ Goto("P3")
        /\ UNCHANGED <<cfg, addressed, linked, sane, streaming, started,
                       dropped, go, flying>>
     \/ Refuse

\* discover_required(): other aircraft that answer the scan count towards its
\* floor, not towards the one of the gate.
ScanSuffices(heard, others) ==
  IF cfg.partial THEN Cardinality(heard) + others >= cfg.floor ELSE heard = Drones

\* The scan, unless the IPs are in the file, and set_target_ip(); whoever was
\* not heard is dropped.
P3 ==
  /\ gate = "P3" /\ next = 1
  /\ \E heard \in IF cfg.static THEN {Drones} ELSE SUBSET Drones,
        others \in 0..1 :
       \/ /\ ScanSuffices(heard, others)
          /\ addressed' = heard /\ dropped' = Drones \ heard
          /\ next' = Len(Fleet) + 1
          /\ UNCHANGED <<cfg, gate, linked, sane, streaming, started, go, flying>>
       \/ ~ScanSuffices(heard, others) /\ Refuse
EndP3 == EndOf("P3", "P4")

\* A failing drone in a gate that can drop it.
Fails ==
  \/ /\ cfg.partial
     /\ Drop(Fleet[next])
     /\ next' = next + 1
     /\ UNCHANGED <<cfg, gate, addressed, sane, started, go, flying>>
  \/ ~cfg.partial /\ Refuse

P4 ==
  /\ AtDrone("P4")
  /\ \/ /\ linked' = linked \union {Fleet[next]}
        /\ next' = next + 1
        /\ UNCHANGED <<cfg, gate, addressed, sane, streaming, started,
                       dropped, go, flying>>
     \/ Fails
EndP4 == EndOf("P4", "P5")

P5 ==
  /\ AtDrone("P5")
  /\ \/ /\ sane' = sane \union {Fleet[next]}
        /\ next' = next + 1
        /\ UNCHANGED <<cfg, gate, addressed, linked, streaming, started,
                       dropped, go, flying>>
     \/ Fails
EndP5 == EndOf("P5", "P6")

\* start() returned: the source is listed, then looked at.
P6Starts ==
  /\ AtDrone("P6") /\ Fleet[next] \notin started
  /\ started' = started \union {Fleet[next]}
  /\ streaming' = streaming \union {Fleet[next]}
  /\ UNCHANGED <<cfg, gate, next, addressed, linked, sane, dropped, go, flying>>
P6Looks ==
  /\ AtDrone("P6") /\ Fleet[next] \in started
  /\ \/ /\ next' = next + 1
        /\ UNCHANGED <<cfg, gate, addressed, linked, sane, streaming, started,
                       dropped, go, flying>>
     \/ Fails

\* start() raised, before or after it had switched the stream on.
P6Raises ==
  /\ AtDrone("P6") /\ Fleet[next] \notin started
  /\ \/ Fails
     \/ /\ ~cfg.partial
        /\ gate' = "refused" /\ linked' = {}
        /\ streaming' = (streaming \ started) \union {Fleet[next]}
        /\ UNCHANGED <<cfg, next, addressed, sane, started, dropped, go, flying>>
EndP6 == EndOf("P6", "P8")

P8 ==
  /\ gate = "P8"
  /\ \/ /\ Goto("P9")
        /\ UNCHANGED <<cfg, addressed, linked, sane, streaming, started,
                       dropped, go, flying>>
     \/ Refuse

\* The identity lights: a set_led() that fails refuses a degraded fleet too.
P9 ==
  /\ AtDrone("P9")
  /\ \/ /\ next' = next + 1
        /\ UNCHANGED <<cfg, gate, addressed, linked, sane, streaming, started,
                       dropped, go, flying>>
     \/ Refuse
EndP9 ==
  /\ gate = "P9" /\ next > Len(Fleet)
  /\ Goto("P10")
  /\ UNCHANGED <<cfg, addressed, linked, sane, streaming, started, dropped,
                 go, flying>>

\* Mutant of P10TimesOut: the deadline only runs where nobody is asked.
P10Untimed == gate = "P10" /\ cfg.only /\ Refuse

\* Default-deny: no answer in time, or another one than GO.
P10TimesOut == gate = "P10" /\ ~cfg.only /\ Refuse

P10Go ==
  /\ gate = "P10" /\ ~cfg.only
  /\ gate' = "passed" /\ go' = TRUE
  /\ UNCHANGED <<cfg, next, addressed, linked, sane, streaming, started,
                 dropped, flying>>

\* --preflight-only asks nobody and tears the fleet down.
P10Skips ==
  /\ gate = "P10" /\ cfg.only
  /\ gate' = "checked" /\ linked' = {} /\ streaming' = streaming \ started
  /\ UNCHANGED <<cfg, next, addressed, sane, started, dropped, go, flying>>

\* The reader raises: its EOFError (stdin is closed) is none of _GATE_ERRORS and
\* leaves run_preflight() with no teardown.
P10Raises ==
  /\ gate = "P10" /\ ~cfg.only
  /\ gate' = "interrupted"
  /\ UNCHANGED <<cfg, next, addressed, linked, sane, streaming, started,
                 dropped, go, flying>>

(***************************************************************************)
(* main._amain() after the gate.                                           *)
(***************************************************************************)
\* Every per-drone list is filtered, but drone_sectors is made of cfg.drones:
\* the Orchestrator refuses the sector of a drone it was not given, before
\* the try whose finally would stop anything.  Before that a degraded fleet is
\* logged, and a disk that is full then ends the start at the same place.
Unmatched == cfg.sectored /\ dropped # {}
HandOver ==
  /\ gate = "passed"
  /\ \/ ~Unmatched /\ gate' = "flying" /\ flying' = Alive
     \/ dropped # {} /\ gate' = "abandoned" /\ UNCHANGED flying
  /\ UNCHANGED <<cfg, next, addressed, linked, sane, streaming, started,
                 dropped, go>>

\* Orchestrator.run() disconnects its agents, the finally stops the sources
\* of the fleet that flew.
MissionOver ==
  /\ gate = "flying" /\ gate' = "ended"
  /\ linked' = linked \ flying /\ streaming' = streaming \ flying
  /\ flying' = {}
  /\ UNCHANGED <<cfg, next, addressed, sane, started, dropped, go>>

\* Ctrl+C cancels run_preflight() at an await: no except clause of _gate()
\* takes a CancelledError.  P3, P5 and P6 only await in _drop_drone().
Interrupt ==
  /\ \/ gate \in {"P4", "P9", "P10"}
     \/ gate \in {"P3", "P5", "P6"} /\ dropped # {}
  /\ gate' = "interrupted"
  /\ UNCHANGED <<cfg, next, addressed, linked, sane, streaming, started,
                 dropped, go, flying>>

\* Ctrl+C in a teardown, at the n-th disconnect(): the adapters behind it keep
\* their links.
InterruptTeardown ==
  /\ gate \in Gates /\ gate' = "interrupted"
  /\ \E n \in DOMAIN Fleet : linked' = linked \ {Fleet[i] : i \in 1..n}
  /\ streaming' = streaming \ started
  /\ UNCHANGED <<cfg, next, addressed, sane, started, dropped, go, flying>>

Proceed ==
  \/ P0 \/ P3 \/ EndP3 \/ P4 \/ EndP4 \/ P5 \/ EndP5
  \/ P6Looks \/ EndP6 \/ P8 \/ P9 \/ EndP9
  \/ P10TimesOut \/ P10Skips \/ HandOver \/ MissionOver \/ SkipDropped

\* What may never come: a source's start() calls the SDK in the event loop and
\* bounds only its wait for the first frame; the operator; Ctrl+C.
Unbounded ==
  P6Starts \/ P6Raises \/ P10Go \/ P10Raises \/ Interrupt \/ InterruptTeardown

Next == Proceed \/ Unbounded

Spec == Init /\ [][Next]_vars

\* Every other wait of a gate has a timeout.
FairSpec == Spec /\ WF_vars(Proceed)

-----------------------------------------------------------------------------
(***************************************************************************)
(* Properties.                                                             *)
(***************************************************************************)
\* Whatever was lost on the way, the drones that fly were each discovered in
\* this start, are linked, were found sane and stream, there are no fewer of
\* them than the floor (all of them when strict), and the operator said GO.
FliesOnlyWhatPassed ==
  gate = "flying" =>
    /\ go /\ ~cfg.only
    /\ flying \subseteq addressed \intersect linked \intersect sane
                          \intersect streaming
    /\ Cardinality(flying) >= IF cfg.partial THEN cfg.floor ELSE Len(Fleet)

\* "Fleet safed down (disconnected, video stopped)": a start that was refused,
\* only checked, or flown to its end leaves no drone linked, casualties
\* included, and no stream on but that of a strict start whose source raised
\* after it had switched the stream on.
NothingLeftUp ==
  gate \in {"refused", "checked", "ended"} =>
    /\ linked = {}
    /\ streaming \subseteq IF cfg.partial THEN {} ELSE Drones \ started
    /\ Cardinality(streaming) <= 1

\* A dropped drone is out for good: no later gate, nor the hand-over to the
\* mission, brings its link or its stream up again or hands it to anyone.
CasualtyStaysDown ==
  [][/\ dropped \subseteq dropped'
     /\ dropped' \intersect (linked' \union streaming' \union flying') = {}]_vars

\* A start is decided though the operator never answers: it is refused, or it
\* flies and lands, and no drone that fails makes a gate wait.  Only a video
\* source whose start() does not return can hold it up.
SourceHangs == AtDrone("P6") /\ Fleet[next] \notin started
StartIsDecided == <>(gate \in Outcomes) \/ <>[]SourceHangs
==============================================================================
