----------------------------- MODULE MCSightings -----------------------------
(* Two drones with a frame each, which share the log, the bus and the pool; *)
(* a's agent reads its own drone's sightings, and the codec refuses one.    *)
EXTENDS Perception

CONSTANTS a, b

MCDrones == {a, b}
OneEach == [d \in {a, b} |-> 1]
MCSightings == {a, b} \X (1..2) \X {"marker", "yolo"}
MCMalformed == {<<a, 1, "marker">>}
MCWriters == {"loop", "worker"}
MCReaders == {"agent"}
MCWanted == [r \in MCReaders |-> {s \in MCSightings : s[1] = a}]
=============================================================================
