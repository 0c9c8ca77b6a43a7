-------------------------- MODULE Perception_proofs --------------------------
(***************************************************************************)
(* Theorems about the sighting log and the threads that record, for any    *)
(* drones, any number of frames and of kills, and any size of the queues.  *)
(***************************************************************************)
EXTENDS Perception, SequenceTheorems, WellFoundedInduction, TLAPS

-----------------------------------------------------------------------------
(***************************************************************************)
(* The inductive invariant.                                                *)
(***************************************************************************)
\* The frames a camera can have delivered.
Frames == {f \in Drones \X Nat : f[2] \in 1..MaxFrames[f[1]]}

\* A thread that is not idle works on such a frame, and only such are queued.
FramesInv ==
  /\ \A w \in Writers : at[w] # "idle" => frame[w] \in Frames
  /\ pending \in Seq(Frames)

\* Who writes holds the lock of an open log, and writes what it has sighted.
LockInv ==
  /\ \A w \in Writers : at[w] = "write" <=> holder = w
  /\ \A w \in Writers : holder = w => handle = "open" /\ inflight = Sighted(w)
  /\ bytes = "whole" => inflight \in Sightings

\* The process knows the file as it is from the recovery on.
KnownInv == handle \in {"recovered", "open"} => mirror = rows

\* Before the log is open nothing is under way.
QuietInv ==
  handle \in {"down", "recovered"} =>
    at = Nowhere /\ pending = <<>> /\ published = <<>> /\ ending = "no"

\* The order of the end of a run.
EndInv ==
  /\ ending # "no" => at["loop"] = "idle"
  /\ ending = "joined" => at["worker"] = "idle"
  /\ handle = "closed" => ending \in {"joined", "expired"}

\* What is about to be published is a row, unless the log is out of use.
NotedInv ==
  handle = "open" /\ ~dead =>
    \A w \in Writers : at[w] \in {"good", "bad", "publish"} =>
      Sighted(w) \in Malformed \union Members(rows)

PerceptionInv ==
  /\ TypeOK /\ FramesInv /\ LockInv /\ QuietInv /\ EndInv /\ NotedInv
  /\ KnownInv /\ MirrorIsFile /\ AckedIdsHold /\ SeenMeansLogged


\* The type invariant, by what it is about.
CameraTypes ==
  /\ shown \in [Drones -> Nat] /\ lastKey \in [Drones -> Nat]
  /\ \A d \in Drones : shown[d] <= MaxFrames[d] /\ lastKey[d] <= shown[d]
ThreadTypes ==
  /\ at \in [Writers -> {"idle", "record", "append", "write", "good",
                         "bad", "publish", "submit", "infer"}]
  /\ frame \in [Writers -> (Drones \X Nat) \union {<<>>}]
PoolTypes ==
  /\ pending \in Seq(Drones \X Nat) /\ Len(pending) <= QueueMax
  /\ dropped \in Nat /\ noticed \in [Drones -> Nat]
HealthTypes == streak \in Nat /\ dead \in BOOLEAN
BusTypes == published \in Seq(Sightings) /\ nextSeq = Len(published) + 1
RunTypes ==
  ending \in {"no", "stopping", "joined", "expired"} /\ kills \in 0..MaxKills

LEMMA TypeParts ==
  TypeOK <=> /\ LogTypeOK /\ CameraTypes /\ ThreadTypes /\ PoolTypes
             /\ HealthTypes /\ BusTypes /\ RunTypes
BY DEF TypeOK, CameraTypes, ThreadTypes, PoolTypes, HealthTypes, BusTypes, RunTypes

-----------------------------------------------------------------------------
(***************************************************************************)
(* Sequences and sightings.                                                *)
(***************************************************************************)
\* A row is added behind the others.
LEMMA Added ==
  ASSUME NEW S, NEW q \in Seq(S), NEW s \in S
  PROVE  /\ Append(q, s) \in Seq(S) /\ Len(Append(q, s)) = Len(q) + 1
         /\ Members(Append(q, s)) = Members(q) \union {s}
         /\ \A i \in DOMAIN q : i \in DOMAIN Append(q, s) /\ Append(q, s)[i] = q[i]
         /\ Len(q) + 1 \in DOMAIN Append(q, s) /\ Append(q, s)[Len(q) + 1] = s
<1>1. /\ DOMAIN q = 1..Len(q) /\ Len(q) \in Nat
      /\ Append(q, s) \in Seq(S) /\ Len(Append(q, s)) = Len(q) + 1
      /\ DOMAIN Append(q, s) = 1..(Len(q) + 1)
      /\ \A i \in 1..Len(q) : Append(q, s)[i] = q[i]
      /\ Append(q, s)[Len(q) + 1] = s
  OBVIOUS
<1> QED
  BY <1>1 DEF Members

\* What is seen on a frame is a sighting.
LEMMA Seen ==
  ASSUME NEW w \in Writers, frame[w] \in Frames
  PROVE  Sighted(w) \in Sightings
<1>1. PICK d \in Drones, n \in Nat : n \in 1..MaxFrames[d] /\ frame[w] = <<d, n>>
  BY DEF Frames
<1>2. frame[w][1] = d /\ frame[w][2] = n
  BY <1>1
<1>3. \A k \in {"marker", "yolo"} : <<d, n, k>> \in Sightings
  BY <1>1, PerceptionAssumption
<1> QED
  BY <1>2, <1>3 DEF Sighted

LEMMA PerceptionInitial == Init => PerceptionInv
<1> SUFFICES ASSUME Init PROVE PerceptionInv
  OBVIOUS
<1> USE DEF Init, LogInit, BusInit, Nowhere, None
<1>1. LogTypeOK
  <2>1. acked \subseteq Nat \X Sightings /\ rows \in Seq(Sightings)
    OBVIOUS
  <2> QED
    BY <2>1 DEF LogTypeOK
<1>7. HealthTypes /\ RunTypes
  <2>1. MaxKills \in Nat
    BY PerceptionAssumption
  <2>2. kills \in 0..MaxKills
    BY <2>1
  <2> QED
    BY <2>2 DEF HealthTypes, RunTypes
<1>2. CameraTypes
  BY PerceptionAssumption DEF CameraTypes
<1>3. BusTypes
  BY DEF BusTypes
<1>4. ThreadTypes /\ PoolTypes
  BY PerceptionAssumption DEF ThreadTypes, PoolTypes
<1>5. FramesInv /\ LockInv /\ QuietInv /\ EndInv /\ NotedInv
  BY PerceptionAssumption DEF FramesInv, LockInv, QuietInv, EndInv, NotedInv
<1>6. KnownInv /\ MirrorIsFile /\ AckedIdsHold /\ SeenMeansLogged
  BY DEF KnownInv, MirrorIsFile, AckedIdsHold, SeenMeansLogged, Members
<1> QED
  BY <1>1, <1>2, <1>3, <1>4, <1>5, <1>6, <1>7, TypeParts DEF PerceptionInv

-----------------------------------------------------------------------------
(***************************************************************************)
(* What a step leaves alone.                                               *)
(***************************************************************************)
\* A thread asks whether the log is held for dead, or begins its row.
BeforeRow(w) == AskHealth(w) \/ Record(w)

OnTheLog == (\E w \in Writers : BeforeRow(w) \/ Written(w)) \/ Close \/ Open

\* A thread goes on without the log.
Moving ==
  \/ (\E d \in Drones : GetFrame(d)) \/ Submit \/ TakeFrame \/ Infer
  \/ \E w \in Writers : Note(w) \/ OnBus(w)

LEMMA Untouched ==
  ASSUME Next, ~Kill
  PROVE  /\ OnTheLog \/ UNCHANGED logVars
         /\ (\E d \in Drones : Deliver(d) \/ GetFrame(d)) \/ UNCHANGED camera
         /\ \/ Moving \/ \E w \in Writers : BeforeRow(w) \/ Written(w)
            \/ UNCHANGED <<at, frame>>
         /\ Submit \/ TakeFrame \/ UNCHANGED poolVars
         /\ (\E w \in Writers : Note(w)) \/ UNCHANGED health
         /\ (\E w \in Writers : OnBus(w)) \/ UNCHANGED <<published, nextSeq>>
         /\ StopPool \/ Join \/ UNCHANGED <<ending, kills>>
<1>1. CASE \E d \in Drones : Deliver(d) \/ GetFrame(d)
  BY <1>1 DEF Deliver, GetFrame, Moving, busVars, poolVars, health, run
<1>2. CASE Submit \/ TakeFrame \/ Infer
  BY <1>2 DEF Submit, TakeFrame, Infer, Moving, busVars, camera, poolVars, health, run
<1>3. CASE \E w \in Writers : Thread(w)
  BY <1>3 DEF Thread, BeforeRow, AskHealth, Record, Written, Note, OnBus, Moving,
              OnTheLog, recording, busVars, poolVars, health, run
<1>4. CASE (\E r \in Readers : Drain(r)) \/ StopPool \/ Join \/ Close \/ Open
  BY <1>4 DEF Drain, DrainAfter, StopPool, Join, Close, Open, OnTheLog, busVars, camera,
              poolVars, health, run
<1> QED
  BY <1>1, <1>2, <1>3, <1>4 DEF Next

-----------------------------------------------------------------------------
(***************************************************************************)
(* The steps, part by part.  The first does what is least local: a kill.   *)
(***************************************************************************)
LEMMA KillStep == ASSUME PerceptionInv, Kill PROVE PerceptionInv'
<1> USE DEF Kill, LoseLog, LoseBus, Nowhere, None
<1>1. TypeOK
  BY DEF PerceptionInv
<1>2. LogTypeOK'
  BY <1>1, TypeParts DEF LogTypeOK
<1>3. CameraTypes'
  BY <1>1, TypeParts, PerceptionAssumption DEF CameraTypes
<1>4. ThreadTypes' /\ PoolTypes'
  BY PerceptionAssumption DEF ThreadTypes, PoolTypes
<1>5. HealthTypes' /\ RunTypes'
  <2>1. MaxKills \in Nat
    BY PerceptionAssumption
  <2>2. kills' \in 0..MaxKills
    BY <1>1, <2>1, TypeParts DEF RunTypes
  <2> QED
    BY <2>2 DEF HealthTypes, RunTypes
<1>6. BusTypes'
  BY DEF BusTypes
<1>7. FramesInv' /\ QuietInv' /\ EndInv' /\ NotedInv'
  BY PerceptionAssumption DEF FramesInv, QuietInv, EndInv, NotedInv
<1>8. LockInv'
  BY PerceptionAssumption DEF LockInv, PerceptionInv
<1>9. KnownInv' /\ MirrorIsFile' /\ AckedIdsHold' /\ SeenMeansLogged'
  BY DEF KnownInv, MirrorIsFile, AckedIdsHold, SeenMeansLogged, PerceptionInv
<1>10. TypeOK'
  BY <1>2, <1>3, <1>4, <1>5, <1>6
  DEF TypeOK, CameraTypes, ThreadTypes, PoolTypes, HealthTypes, BusTypes, RunTypes
<1> QED
  BY <1>7, <1>8, <1>9, <1>10 DEF PerceptionInv

\* The sightings the threads are at.
LEMMA Sane ==
  ASSUME PerceptionInv, NEW w \in Writers, at[w] # "idle"
  PROVE  Sighted(w) \in Sightings /\ frame[w] \in Frames
BY Seen DEF PerceptionInv, FramesInv

\* A thread that moves does so alone, and is nowhere near the file.
LEMMA MoveEffect ==
  ASSUME PerceptionInv, Moving
  PROVE  \E w \in Writers :
           /\ at[w] # "write" /\ at'[w] # "write"
           /\ at' \in [Writers -> {"idle", "record", "append", "write", "good",
                                   "bad", "publish", "submit", "infer"}]
           /\ frame' \in [Writers -> (Drones \X Nat) \union {<<>>}]
           /\ at'[w] # "idle" => frame'[w] \in Frames
           /\ \A v \in Writers \ {w} : at'[v] = at[v] /\ frame'[v] = frame[v]
           /\ at'[w] \in {"good", "bad", "publish"} =>
                at[w] \in {"good", "bad"} /\ frame'[w] = frame[w]
<1> USE DEF GoTo, Off
<1> DEFINE Goal(w) ==
      /\ at[w] # "write" /\ at'[w] # "write"
      /\ at' \in [Writers -> {"idle", "record", "append", "write", "good",
                              "bad", "publish", "submit", "infer"}]
      /\ frame' \in [Writers -> (Drones \X Nat) \union {<<>>}]
      /\ at'[w] # "idle" => frame'[w] \in Frames
      /\ \A v \in Writers \ {w} : at'[v] = at[v] /\ frame'[v] = frame[v]
      /\ at'[w] \in {"good", "bad", "publish"} =>
           at[w] \in {"good", "bad"} /\ frame'[w] = frame[w]
<1>0. "loop" \in Writers /\ "worker" \in Writers
  BY PerceptionAssumption
<1>1. /\ at \in [Writers -> {"idle", "record", "append", "write", "good",
                             "bad", "publish", "submit", "infer"}]
      /\ frame \in [Writers -> (Drones \X Nat) \union {<<>>}]
      /\ \A w \in Writers : at[w] # "idle" => frame[w] \in Frames
      /\ CameraTypes /\ pending \in Seq(Frames) /\ Frames \subseteq Drones \X Nat
  BY TypeParts DEF PerceptionInv, ThreadTypes, FramesInv, Frames
<1>2. ASSUME NEW d \in Drones, GetFrame(d)
      PROVE  /\ at["loop"] = "idle" /\ <<d, shown[d]>> \in Frames
             /\ \/ /\ frame' = [frame EXCEPT !["loop"] = <<d, shown[d]>>]
                   /\ at' \in {[at EXCEPT !["loop"] = x] : x \in {"record", "submit"}}
                \/ /\ frame' = [frame EXCEPT !["loop"] = <<>>]
                   /\ at' = [at EXCEPT !["loop"] = "idle"]
  <2>1. shown[d] \in 1..MaxFrames[d] /\ shown[d] \in Nat
    BY <1>1, <1>2 DEF GetFrame, CameraTypes
  <2>2. <<d, shown[d]>> \in Frames
    BY <2>1 DEF Frames
  <2> QED
    BY <1>2, <2>2 DEF GetFrame, Sampling, Search
<1>3. CASE \E d \in Drones : GetFrame(d)
  <2>1. PICK d \in Drones : GetFrame(d)
    BY <1>3
  <2>2. at["loop"] = "idle" /\ <<d, shown[d]>> \in Frames
    BY <1>2, <2>1
  <2>3. CASE /\ frame' = [frame EXCEPT !["loop"] = <<d, shown[d]>>]
             /\ at' \in {[at EXCEPT !["loop"] = x] : x \in {"record", "submit"}}
    <3>1. <<d, shown[d]>> \in Drones \X Nat
      BY <2>2 DEF Frames
    <3> HIDE DEF Frames
    <3>2. PICK f \in Frames : f \in Drones \X Nat /\ frame' = [frame EXCEPT !["loop"] = f]
      BY <2>2, <2>3, <3>1
    <3>3. Goal("loop")
      BY <1>0, <1>1, <2>2, <2>3, <3>2
    <3> QED
      BY <1>0, <3>3
  <2>4. CASE /\ frame' = [frame EXCEPT !["loop"] = <<>>]
             /\ at' = [at EXCEPT !["loop"] = "idle"]
    <3>1. Goal("loop")
      BY <1>0, <1>1, <2>2, <2>4
    <3> QED
      BY <1>0, <3>1
  <2> QED
    BY <1>2, <2>1, <2>3, <2>4
<1>4. CASE Submit
  <2>1. Goal("loop")
    BY <1>0, <1>1, <1>4 DEF Submit
  <2> QED
    BY <1>0, <2>1
<1>5. CASE TakeFrame
  <2>1. Head(pending) \in Frames
    BY <1>1, <1>5 DEF TakeFrame
  <2>2. Goal("worker")
    BY <1>0, <1>1, <1>5, <2>1 DEF TakeFrame
  <2> QED
    BY <1>0, <2>2
<1>6. CASE Infer
  <2>1. Goal("worker")
    BY <1>0, <1>1, <1>6 DEF Infer
  <2> QED
    BY <1>0, <2>1
<1>7. CASE \E w \in Writers : Note(w) \/ OnBus(w)
  <2>1. PICK w \in Writers : Note(w) \/ OnBus(w)
    BY <1>7
  <2>2. CASE Note(w)
    <3>1. Goal(w)
      BY <1>1, <2>2 DEF Note
    <3> QED
      BY <3>1
  <2>3. CASE OnBus(w)
    <3>1. Goal(w)
      BY <1>1, <2>3 DEF OnBus
    <3> QED
      BY <3>1
  <2> QED
    BY <2>1, <2>2, <2>3
<1> QED
  BY <1>3, <1>4, <1>5, <1>6, <1>7 DEF Moving

\* What a thread does to the log.
LEMMA WriteEffect ==
  ASSUME PerceptionInv, NEW w \in Writers, BeforeRow(w) \/ Written(w)
  PROVE  /\ at[w] \in {"record", "append", "write"} /\ frame' = frame
         /\ \E p \in {"append", "write", "good", "bad", "publish"} :
              at' = [at EXCEPT ![w] = p]
         /\ Sighted(w) \in Sightings
<1>1. /\ at[w] \in {"record", "append", "write"} /\ frame' = frame
      /\ \E p \in {"append", "write", "good", "bad", "publish"} :
           at' = [at EXCEPT ![w] = p]
  BY DEF BeforeRow, AskHealth, Record, Written, GoTo
<1> QED
  BY <1>1, Sane

-----------------------------------------------------------------------------
\* The types, one part at a time.
LEMMA TypeStep == ASSUME PerceptionInv, Next, ~Kill PROVE TypeOK'
<1>1. /\ LogTypeOK /\ CameraTypes /\ ThreadTypes /\ PoolTypes /\ HealthTypes
      /\ BusTypes /\ RunTypes
  BY TypeParts DEF PerceptionInv
<1>2. LogTypeOK'
  <2>1. CASE UNCHANGED logVars
    BY <1>1, <2>1 DEF LogTypeOK, logVars
  <2>2. ASSUME NEW w \in Writers, BeforeRow(w) PROVE LogTypeOK'
    <3>1. CASE UNCHANGED logVars
      BY <1>1, <3>1 DEF LogTypeOK, logVars
    <3>2. CASE BeginAppend(w, Sighted(w))
      BY <1>1, <2>2, <3>2, WriteEffect DEF BeginAppend, LogTypeOK
    <3> QED
      BY <2>2, <3>1, <3>2 DEF BeforeRow, AskHealth, Record
  <2>3. ASSUME NEW w \in Writers, Written(w) PROVE LogTypeOK'
    <3>1. CASE FinishAppend(w)
      <4>1. inflight \in Sightings
        BY <2>3, <3>1, WriteEffect DEF FinishAppend, PerceptionInv, LockInv
      <4>2. /\ rows' \in Seq(Sightings) /\ mirror' \in Seq(Sightings)
            /\ Len(mirror') \in Nat
        BY <1>1, <3>1, <4>1 DEF FinishAppend, LogTypeOK
      <4>3. acked' \subseteq Nat \X Sightings
        BY <1>1, <3>1, <4>1, <4>2 DEF FinishAppend, LogTypeOK
      <4> QED
        BY <1>1, <3>1, <4>2, <4>3 DEF FinishAppend, LogTypeOK
    <3>2. CASE FailAppend(w)
      BY <1>1, <3>2 DEF FailAppend, LogTypeOK
    <3> QED
      BY <2>3, <3>1, <3>2 DEF Written
  <2>4. CASE Close
    BY <1>1, <2>4 DEF Close, CloseLog, LogTypeOK
  <2>5. CASE Open
    <3>1. CASE Recover
      <4>1. rows' \in Seq(Sightings)
        BY <1>1, <3>1 DEF Recover, LogTypeOK, PerceptionInv, LockInv
      <4> QED
        BY <1>1, <3>1, <4>1 DEF Recover, LogTypeOK
    <3>2. CASE WriteHeader \/ OpenLog
      BY <1>1, <3>2 DEF WriteHeader, OpenLog, LogTypeOK
    <3> QED
      BY <2>5, <3>1, <3>2 DEF Open
  <2> QED
    BY <2>1, <2>2, <2>3, <2>4, <2>5, Untouched DEF OnTheLog
<1>3. CameraTypes'
  <2>1. ASSUME NEW d \in Drones, MaxFrames[d] \in Nat, Deliver(d) \/ GetFrame(d)
        PROVE  CameraTypes'
    BY <1>1, <2>1
    DEF CameraTypes, Deliver, GetFrame, Search, camera
  <2>2. \A d \in Drones : MaxFrames[d] \in Nat
    BY PerceptionAssumption
  <2>3. CASE UNCHANGED camera
    BY <1>1, <2>3 DEF CameraTypes, camera
  <2> QED
    BY <2>1, <2>2, <2>3, Untouched
<1>4. ThreadTypes'
  <2>1. CASE Moving
    BY <2>1, MoveEffect DEF ThreadTypes
  <2>2. CASE \E w \in Writers : BeforeRow(w) \/ Written(w)
    BY <1>1, <2>2, WriteEffect DEF ThreadTypes
  <2>3. CASE UNCHANGED <<at, frame>>
    BY <1>1, <2>3 DEF ThreadTypes
  <2> QED
    BY <2>1, <2>2, <2>3, Untouched
<1>5. PoolTypes'
  <2>1. CASE Submit
    <3>1. QueueMax \in Nat \ {0} /\ "loop" \in Writers
      BY PerceptionAssumption
    <3>2. frame["loop"] \in Drones \X Nat
      BY <2>1, <3>1, Sane DEF Submit, Frames
    <3>3. pending' \in Seq(Drones \X Nat) /\ Len(pending') <= QueueMax
      BY <1>1, <2>1, <3>1, <3>2 DEF Submit, Queued, PoolTypes
    <3>4. dropped' \in Nat /\ noticed' \in [Drones -> Nat]
      <4>1. PICK d : noticed' = [noticed EXCEPT ![d] = dropped]
        BY <2>1 DEF Submit
      <4>2. noticed' \in [Drones -> Nat]
        BY <1>1, <4>1 DEF PoolTypes
      <4>3. dropped' \in Nat
        BY <1>1, <2>1 DEF Submit, PoolTypes
      <4> QED
        BY <4>2, <4>3
    <3> QED
      BY <3>3, <3>4 DEF PoolTypes
  <2>2. CASE TakeFrame
    BY <1>1, <2>2, PerceptionAssumption DEF TakeFrame, PoolTypes
  <2>3. CASE UNCHANGED poolVars
    BY <1>1, <2>3 DEF PoolTypes, poolVars
  <2> QED
    BY <2>1, <2>2, <2>3, Untouched
<1>6. HealthTypes'
  <2>1. CASE \E w \in Writers : Note(w)
    <3>1. streak' \in Nat
      BY <1>1, <2>1 DEF Note, HealthTypes
    <3>2. dead' \in BOOLEAN
      BY <1>1, <2>1 DEF Note, HealthTypes
    <3> QED
      BY <3>1, <3>2 DEF HealthTypes
  <2>2. CASE UNCHANGED health
    BY <1>1, <2>2 DEF HealthTypes, health
  <2> QED
    BY <2>1, <2>2, Untouched
<1>7. BusTypes'
  <2>1. ASSUME NEW w \in Writers, OnBus(w) PROVE BusTypes'
    <3>1. Sighted(w) \in Sightings
      BY <2>1, Sane DEF OnBus
    <3> QED
      BY <1>1, <2>1, <3>1 DEF OnBus, Publish, BusTypes
  <2>2. CASE UNCHANGED <<published, nextSeq>>
    BY <1>1, <2>2 DEF BusTypes
  <2> QED
    BY <2>1, <2>2, Untouched
<1>8. RunTypes'
  <2>1. CASE StopPool \/ Join
    BY <1>1, <2>1 DEF StopPool, Join, RunTypes, run
  <2>2. CASE UNCHANGED <<ending, kills>>
    BY <1>1, <2>2 DEF RunTypes
  <2> QED
    BY <2>1, <2>2, Untouched
<1> QED
  BY <1>2, <1>3, <1>4, <1>5, <1>6, <1>7, <1>8
  DEF TypeOK, CameraTypes, ThreadTypes, PoolTypes, HealthTypes, BusTypes, RunTypes

\* What the threads work on.
LEMMA FramesStep == ASSUME PerceptionInv, Next, ~Kill PROVE FramesInv'
<1>1. FramesInv
  BY DEF PerceptionInv
<1>2. \A w \in Writers : at'[w] # "idle" => frame'[w] \in Frames
  <2>1. CASE Moving
    BY <1>1, <2>1, MoveEffect DEF FramesInv
  <2>2. ASSUME NEW v \in Writers, BeforeRow(v) \/ Written(v)
        PROVE  \A w \in Writers : at'[w] # "idle" => frame'[w] \in Frames
    BY <1>1, <2>2, WriteEffect, Sane, TypeParts DEF FramesInv, PerceptionInv, ThreadTypes
  <2>3. CASE UNCHANGED <<at, frame>>
    BY <1>1, <2>3 DEF FramesInv
  <2> QED
    BY <2>1, <2>2, <2>3, Untouched
<1>3. pending' \in Seq(Frames)
  <2>1. CASE Submit
    <3>1. frame["loop"] \in Frames
      BY <2>1, PerceptionAssumption, Sane DEF Submit
    <3>2. Len(pending) = QueueMax => pending # <<>>
      BY PerceptionAssumption
    <3> QED
      BY <1>1, <2>1, <3>1, <3>2 DEF Submit, Queued, FramesInv
  <2>2. CASE TakeFrame
    BY <1>1, <2>2 DEF TakeFrame, FramesInv
  <2>3. CASE UNCHANGED poolVars
    BY <1>1, <2>3 DEF FramesInv, poolVars
  <2> QED
    BY <2>1, <2>2, <2>3, Untouched
<1> QED
  BY <1>2, <1>3 DEF FramesInv

\* A step moves a thread off the log, is on the log, or neither.
LEMMA Cases ==
  ASSUME Next, ~Kill
  PROVE  \/ Moving /\ UNCHANGED logVars
         \/ \E w \in Writers : BeforeRow(w) \/ Written(w)
         \/ (Close \/ Open) /\ UNCHANGED <<at, frame, published, dead>>
         \/ UNCHANGED <<at, frame, published, dead, logVars>>
<1>1. Moving => UNCHANGED logVars
  BY DEF Moving, GetFrame, Submit, TakeFrame, Infer, Note, OnBus
<1>2. Close \/ Open => UNCHANGED <<at, frame, published, dead>>
  BY DEF Close, Open, health
<1>3. ~Moving => UNCHANGED <<published, dead>>
  <2>1. \/ ~(\E w \in Writers : Note(w)) /\ ~(\E w \in Writers : OnBus(w))
        \/ Moving
    BY DEF Moving
  <2> QED
    BY <2>1, Untouched DEF health
<1> QED
  BY <1>1, <1>2, <1>3, Untouched DEF OnTheLog

\* The lock.
LEMMA LockStep == ASSUME PerceptionInv, Next, ~Kill PROVE LockInv'
<1>1. LockInv /\ ThreadTypes /\ Nobody \notin Writers
  BY TypeParts, PerceptionAssumption DEF PerceptionInv
<1>2. CASE Moving /\ UNCHANGED logVars
  <2>1. PICK w \in Writers :
          /\ at[w] # "write" /\ at'[w] # "write"
          /\ \A v \in Writers \ {w} : at'[v] = at[v] /\ frame'[v] = frame[v]
    BY <1>2, MoveEffect
  <2>2. \A v \in Writers : holder = v => v # w
    BY <1>1, <2>1 DEF LockInv
  <2> QED
    BY <1>1, <1>2, <2>1, <2>2 DEF LockInv, logVars, Sighted
<1>3. ASSUME NEW w \in Writers, BeforeRow(w) PROVE LockInv'
  <2>1. Sighted(w) \in Sightings /\ frame' = frame
    BY <1>3, WriteEffect
  <2>2. CASE BeginAppend(w, Sighted(w)) /\ GoTo(w, "write")
    BY <1>1, <2>1, <2>2 DEF BeginAppend, GoTo, LockInv, ThreadTypes, Sighted
  <2>3. CASE UNCHANGED logVars /\ \E p \in {"append", "bad", "publish"} : GoTo(w, p)
    BY <1>1, <1>3, <2>1, <2>3
    DEF BeforeRow, AskHealth, Record, GoTo, LockInv, ThreadTypes, Sighted, logVars
  <2> QED
    BY <1>3, <2>2, <2>3 DEF BeforeRow, AskHealth, Record
<1>4. ASSUME NEW w \in Writers, Written(w) PROVE LockInv'
  <2>1. /\ holder = w /\ holder' = Nobody /\ frame' = frame
        /\ \/ bytes' = "none"
           \/ UNCHANGED <<bytes, inflight>>
    BY <1>4 DEF Written, FinishAppend, FailAppend, GoTo
  <2>2. \A v \in Writers : at'[v] # "write"
    BY <1>1, <1>4, <2>1 DEF Written, GoTo, LockInv, ThreadTypes
  <2> QED
    BY <1>1, <2>1, <2>2 DEF LockInv
<1>5. CASE (Close \/ Open) /\ UNCHANGED <<at, frame, published, dead>>
  <2>1. CASE Close
    BY <1>1, <1>5, <2>1 DEF Close, CloseLog, LockInv, Sighted
  <2>2. CASE Open
    <3>1. holder \notin Writers /\ holder' = holder
      BY <1>1, <2>2 DEF Open, Recover, WriteHeader, OpenLog, LockInv
    <3>2. bytes' = "none" \/ UNCHANGED <<bytes, inflight>>
      BY <2>2 DEF Open, Recover, WriteHeader, OpenLog
    <3> QED
      BY <1>1, <1>5, <3>1, <3>2 DEF LockInv
  <2> QED
    BY <1>5, <2>1, <2>2
<1>6. CASE UNCHANGED <<at, frame, published, dead, logVars>>
  BY <1>1, <1>6 DEF LockInv, logVars, Sighted
<1> QED
  BY <1>2, <1>3, <1>4, <1>5, <1>6, Cases

\* Before the log is open.
LEMMA QuietStep == ASSUME PerceptionInv, Next, ~Kill PROVE QuietInv'
<1>1. QuietInv /\ LockInv
  BY DEF PerceptionInv
<1>2. CASE handle \in {"down", "recovered"}
  <2>1. at = Nowhere /\ pending = <<>> /\ published = <<>> /\ ending = "no"
    BY <1>1, <1>2 DEF QuietInv
  <2>2. \A w \in Writers : at[w] = "idle" /\ holder # w
    BY <1>1, <1>2, <2>1 DEF Nowhere, LockInv
  <2>3. ~Moving /\ ~StopPool /\ ~Join /\ \A w \in Writers : ~BeforeRow(w) /\ ~Written(w)
    BY <1>2, <2>1, <2>2, PerceptionAssumption
    DEF Moving, GetFrame, Sampling, Submit, TakeFrame, Infer, Note, OnBus, BeforeRow,
        AskHealth, Record, Written, StopPool, Join
  <2>4. UNCHANGED <<at, pending, published, ending>>
    BY <2>3, Untouched DEF Moving, poolVars
  <2> QED
    BY <2>1, <2>4 DEF QuietInv, Nowhere
<1>3. CASE handle \notin {"down", "recovered"}
  <2>1. handle' \notin {"down", "recovered"}
    <3>1. CASE UNCHANGED logVars
      BY <1>3, <3>1 DEF logVars
    <3>2. CASE \E w \in Writers : BeforeRow(w) \/ Written(w)
      BY <1>3, <3>2
      DEF BeforeRow, AskHealth, Record, Written, BeginAppend, FinishAppend,
          FailAppend, logVars
    <3>3. CASE Close \/ Open
      BY <1>3, <3>3 DEF Close, CloseLog, Open, Recover, WriteHeader, OpenLog
    <3> QED
      BY <3>1, <3>2, <3>3, Untouched DEF OnTheLog
  <2> QED
    BY <2>1 DEF QuietInv
<1> QED
  BY <1>2, <1>3

\* The end of a run.
LEMMA EndStep == ASSUME PerceptionInv, Next, ~Kill PROVE EndInv'
<1>1. EndInv /\ ThreadTypes /\ "loop" \in Writers /\ "worker" \in Writers
  BY TypeParts, PerceptionAssumption DEF PerceptionInv
<1>2. /\ at["loop"] = "idle" /\ ending # "no" => at'["loop"] = "idle"
      /\ at["worker"] = "idle" /\ ending # "no" => at'["worker"] = "idle"
  <2>1. CASE UNCHANGED at
    BY <2>1
  <2>2. ASSUME NEW w \in Writers, at[w] # "idle", NEW p, at' = [at EXCEPT ![w] = p]
        PROVE  /\ at["loop"] = "idle" => at'["loop"] = "idle"
               /\ at["worker"] = "idle" => at'["worker"] = "idle"
    BY <1>1, <2>2 DEF ThreadTypes
  <2>3. ASSUME NEW w \in Writers, BeforeRow(w) \/ Written(w) \/ Note(w) \/ OnBus(w)
        PROVE  at[w] # "idle" /\ \E p : at' = [at EXCEPT ![w] = p]
    BY <2>3 DEF BeforeRow, AskHealth, Record, Written, Note, OnBus, GoTo, Off
  <2>4. ASSUME Submit PROVE at["loop"] # "idle" /\ \E p : at' = [at EXCEPT !["loop"] = p]
    BY <2>4 DEF Submit, Off
  <2>5. ASSUME Infer PROVE at["worker"] # "idle" /\ \E p : at' = [at EXCEPT !["worker"] = p]
    BY <2>5 DEF Infer, GoTo, Off
  <2>6. ASSUME (\E d \in Drones : GetFrame(d)) \/ TakeFrame PROVE ending = "no"
    BY <2>6 DEF GetFrame, Sampling, TakeFrame
  <2> QED
    BY <1>1, <2>1, <2>2, <2>3, <2>4, <2>5, <2>6, Untouched DEF Moving
<1>3. CASE UNCHANGED ending
  <2>1. handle' = "closed" => handle = "closed" \/ ending \in {"joined", "expired"}
    <3>1. CASE UNCHANGED logVars
      BY <3>1 DEF logVars
    <3>2. CASE \E w \in Writers : BeforeRow(w) \/ Written(w)
      BY <3>2
      DEF BeforeRow, AskHealth, Record, Written, BeginAppend, FinishAppend,
          FailAppend, logVars
    <3>3. CASE Close \/ Open
      BY <3>3 DEF Close, MayClose, Open, Recover, WriteHeader, OpenLog
    <3> QED
      BY <3>1, <3>2, <3>3, Untouched DEF OnTheLog
  <2> QED
    BY <1>1, <1>2, <1>3, <2>1 DEF EndInv
<1>4. CASE StopPool \/ Join
  BY <1>1, <1>4 DEF StopPool, Join, EndInv, logVars
<1> QED
  BY <1>3, <1>4, Untouched

\* The file, and what the process knows of it.
LEMMA FileStep ==
  ASSUME PerceptionInv, Next, ~Kill
  PROVE  /\ KnownInv' /\ MirrorIsFile' /\ AckedIdsHold'
         /\ Members(rows) \subseteq Members(rows')
<1> USE DEF KnownInv, MirrorIsFile, AckedIdsHold
<1>1. LogTypeOK /\ KnownInv /\ MirrorIsFile /\ AckedIdsHold
  BY TypeParts DEF PerceptionInv
<1>2. CASE UNCHANGED logVars
  BY <1>1, <1>2 DEF logVars
<1>3. ASSUME NEW w \in Writers, BeforeRow(w), ~UNCHANGED logVars
      PROVE  UNCHANGED <<header, rows, handle, mirror, acked>>
  BY <1>3 DEF BeforeRow, AskHealth, Record, BeginAppend
<1>4. CASE \E w \in Writers : BeforeRow(w)
  BY <1>1, <1>2, <1>3, <1>4
<1>5. ASSUME NEW w \in Writers, Written(w)
      PROVE  /\ KnownInv' /\ MirrorIsFile' /\ AckedIdsHold'
             /\ Members(rows) \subseteq Members(rows')
  <2>1. CASE FailAppend(w)
    BY <1>1, <2>1 DEF FailAppend
  <2>2. CASE FinishAppend(w)
    <3>1. inflight \in Sightings /\ handle = "open" /\ mirror = rows
      BY <1>1, <1>5, <2>2, WriteEffect DEF FinishAppend, PerceptionInv, LockInv
    <3>2. rows' = Append(rows, inflight) /\ mirror' = rows' /\ rows \in Seq(Sightings)
      BY <1>1, <2>2, <3>1 DEF FinishAppend, LogTypeOK
    <3>3. /\ Len(mirror') = Len(rows) + 1
          /\ Members(rows') = Members(rows) \union {inflight}
          /\ \A i \in DOMAIN rows : i \in DOMAIN rows' /\ rows'[i] = rows[i]
          /\ Len(rows) + 1 \in DOMAIN rows' /\ rows'[Len(rows) + 1] = inflight
      BY <3>1, <3>2, Added
    <3>4. acked' = acked \union {<<Len(rows) + 1, inflight>>}
      BY <2>2, <3>3 DEF FinishAppend
    <3>5. AckedIdsHold'
      BY <1>1, <3>3, <3>4
    <3>6. MirrorIsFile' /\ KnownInv'
      BY <1>1, <2>2, <3>1, <3>2 DEF FinishAppend
    <3> QED
      BY <3>3, <3>5, <3>6
  <2> QED
    BY <1>5, <2>1, <2>2 DEF Written
<1>6. CASE Close
  BY <1>1, <1>6 DEF Close, CloseLog
<1>7. CASE WriteHeader \/ OpenLog
  BY <1>1, <1>7 DEF WriteHeader, OpenLog
<1>8. CASE Recover
  <2>1. CASE bytes = "whole"
    <3>1. /\ inflight \in Sightings /\ rows \in Seq(Sightings)
          /\ rows' = Append(rows, inflight)
      BY <1>1, <1>8, <2>1 DEF Recover, PerceptionInv, LockInv, LogTypeOK
    <3>2. /\ Members(rows') = Members(rows) \union {inflight}
          /\ \A i \in DOMAIN rows : i \in DOMAIN rows' /\ rows'[i] = rows[i]
      BY <3>1, Added
    <3> QED
      BY <1>1, <1>8, <3>2 DEF Recover
  <2>2. CASE bytes # "whole"
    BY <1>1, <1>8, <2>2 DEF Recover
  <2> QED
    BY <2>1, <2>2
<1> QED
  BY <1>2, <1>4, <1>5, <1>6, <1>7, <1>8, Untouched DEF OnTheLog, Open

\* What a thread has in hand of the log, and what a reader can know of.
LEMMA NotedStep ==
  ASSUME PerceptionInv, Next, ~Kill
  PROVE  NotedInv' /\ SeenMeansLogged'
<1> SUFFICES ASSUME handle' = "open", ~dead'
             PROVE  /\ \A w \in Writers : at'[w] \in {"good", "bad", "publish"} =>
                         Sighted(w)' \in Malformed \union Members(rows')
                    /\ Members(published') \ Malformed \subseteq Members(rows')
  BY DEF NotedInv, SeenMeansLogged
<1>1. Members(rows) \subseteq Members(rows') /\ LogTypeOK /\ ThreadTypes /\ BusTypes
  BY FileStep, TypeParts DEF PerceptionInv
<1>2. CASE handle # "open"
  <2>1. OpenLog
    <3>1. ~UNCHANGED logVars
      BY <1>2 DEF logVars
    <3>2. \A w \in Writers : ~BeforeRow(w) /\ ~Written(w)
      BY <1>2, <3>1
      DEF BeforeRow, AskHealth, Record, Written, BeginAppend, FinishAppend,
          FailAppend, logVars
    <3>3. ~Close /\ ~Recover /\ ~WriteHeader
      BY <1>2 DEF Close, CloseLog, Recover, WriteHeader
    <3> QED
      BY <3>1, <3>2, <3>3, Untouched DEF OnTheLog, Open
  <2>2. UNCHANGED <<at, published>> /\ at = Nowhere /\ published = <<>>
    <3>1. handle = "recovered"
      BY <2>1 DEF OpenLog
    <3>2. UNCHANGED <<at, published>>
      BY <2>1, Untouched, Cases, QuietStep, <1>2, <3>1
      DEF OpenLog, Moving, logVars, BeforeRow, AskHealth, Record, Written,
          BeginAppend, FinishAppend, FailAppend
    <3> QED
      BY <3>1, <3>2 DEF PerceptionInv, QuietInv
  <2>3. \A w \in Writers : at'[w] = "idle"
    BY <2>2 DEF Nowhere
  <2> QED
    BY <2>2, <2>3 DEF Members
<1>3. CASE handle = "open"
  <2>1. ~dead
    <3>1. CASE \E w \in Writers : Note(w)
      BY <3>1 DEF Note
    <3>2. CASE UNCHANGED health
      BY <3>2 DEF health
    <3> QED
      BY <3>1, <3>2, Untouched
  <2>2. /\ \A w \in Writers : at[w] \in {"good", "bad", "publish"} =>
             Sighted(w) \in Malformed \union Members(rows)
        /\ Members(published) \ Malformed \subseteq Members(rows)
    BY <1>3, <2>1 DEF PerceptionInv, NotedInv, SeenMeansLogged
  <2>3. \A w \in Writers : at'[w] \in {"good", "bad", "publish"} =>
          Sighted(w)' \in Malformed \union Members(rows')
    <3>1. CASE Moving
      BY <1>1, <2>2, <3>1, MoveEffect DEF Sighted
    <3>2. ASSUME NEW w \in Writers, BeforeRow(w)
          PROVE  at'[w] \in {"bad", "publish"} => Sighted(w) \in Malformed
      BY <1>1, <1>3, <2>1, <3>2
      DEF BeforeRow, AskHealth, Record, Refuses, GoTo, ThreadTypes
    <3>3. ASSUME NEW w \in Writers, Written(w)
          PROVE  Sighted(w) \in Members(rows')
      <4>1. FinishAppend(w) /\ inflight = Sighted(w) /\ Sighted(w) \in Sightings
        BY <3>3, WriteEffect
        DEF Written, FailAppend, FinishAppend, PerceptionInv, LockInv
      <4> QED
        BY <1>1, <4>1, Added DEF FinishAppend, LogTypeOK
    <3>4. ASSUME NEW w \in Writers, BeforeRow(w) \/ Written(w)
          PROVE  /\ frame' = frame
                 /\ at'[w] \in {"good", "bad", "publish"} =>
                      Sighted(w) \in Malformed \union Members(rows')
                 /\ \A v \in Writers \ {w} : at'[v] = at[v]
      <5>1. frame' = frame /\ \A v \in Writers \ {w} : at'[v] = at[v]
        BY <1>1, <3>4, WriteEffect DEF ThreadTypes
      <5>2. BeforeRow(w) => at'[w] # "good"
        BY <1>1 DEF BeforeRow, AskHealth, Record, GoTo, ThreadTypes
      <5> QED
        BY <3>2, <3>3, <3>4, <5>1, <5>2
    <3>5. CASE \E w \in Writers : BeforeRow(w) \/ Written(w)
      BY <1>1, <2>2, <3>4, <3>5 DEF Sighted
    <3>6. CASE UNCHANGED <<at, frame>>
      BY <1>1, <2>2, <3>6 DEF Sighted
    <3> QED
      BY <3>1, <3>5, <3>6, Untouched
  <2>4. Members(published') \ Malformed \subseteq Members(rows')
    <3>1. ASSUME NEW w \in Writers, OnBus(w)
          PROVE  Members(published') \ Malformed \subseteq Members(rows')
      <4>1. /\ Sighted(w) \in Sightings /\ at[w] = "publish"
            /\ published' = Append(published, Sighted(w)) /\ published \in Seq(Sightings)
        BY <1>1, <3>1, Sane DEF OnBus, BusTypes
      <4>2. Members(published') = Members(published) \union {Sighted(w)}
        BY <4>1, Added
      <4> QED
        BY <1>1, <2>2, <4>1, <4>2
    <3>2. CASE UNCHANGED <<published, nextSeq>>
      BY <1>1, <2>2, <3>2
    <3> QED
      BY <3>1, <3>2, Untouched
  <2> QED
    BY <2>3, <2>4
<1> QED
  BY <1>2, <1>3

LEMMA PerceptionInductive == PerceptionInv /\ [Next]_vars => PerceptionInv'
<1>1. ASSUME PerceptionInv, UNCHANGED vars PROVE PerceptionInv'
  <2> USE <1>1 DEF vars, logVars, busVars, camera, poolVars, health, run, PerceptionInv
  <2>1. TypeOK'
    BY DEF TypeOK, LogTypeOK
  <2>2. FramesInv' /\ LockInv' /\ QuietInv' /\ EndInv'
    BY DEF FramesInv, LockInv, QuietInv, EndInv, Sighted, Nowhere
  <2>3. NotedInv' /\ SeenMeansLogged'
    BY DEF NotedInv, SeenMeansLogged, Sighted, Members
  <2>4. KnownInv' /\ MirrorIsFile' /\ AckedIdsHold'
    BY DEF KnownInv, MirrorIsFile, AckedIdsHold
  <2> QED
    BY <2>1, <2>2, <2>3, <2>4
<1>2. ASSUME PerceptionInv, Next, ~Kill PROVE PerceptionInv'
  BY <1>2, TypeStep, FramesStep, LockStep, QuietStep, EndStep, FileStep, NotedStep
  DEF PerceptionInv
<1> QED
  BY <1>1, <1>2, KillStep

-----------------------------------------------------------------------------
(***************************************************************************)
(* The bus and its readers.  The invariant: the deque holds the last ones  *)
(* published, under consecutive numbers; a cursor is behind the newest     *)
(* number; and of what concerns a reader, the part up to its cursor was    *)
(* given or missed, the part beyond is still in the deque or was missed.   *)
(***************************************************************************)
Entries == Nat \X Sightings

BusVarTypes ==
  /\ dq \in Seq(Entries) /\ Len(dq) < nextSeq
  /\ cursor \in [Readers -> Nat]
  /\ got \in [Readers -> Seq(Entries)]
  /\ missed \in [Readers -> SUBSET Entries]

DequeInv ==
  \A i \in DOMAIN dq :
    /\ dq[i][1] = (nextSeq - 1) - (Len(dq) - i)
    /\ published[dq[i][1]] = dq[i][2]

Ascending(s) == \A i, j \in DOMAIN s : i < j => s[i][1] < s[j][1]

GivenInv ==
  \A r \in Readers :
    /\ cursor[r] < nextSeq
    /\ Ascending(got[r])
    /\ \A e \in Members(got[r]) :
         e[1] \in 1..cursor[r] /\ published[e[1]] = e[2]

AccountedInv ==
  \A r \in Readers, n \in DOMAIN published :
    published[n] \in Wanted[r] =>
      \/ <<n, published[n]>> \in missed[r]
      \/ n <= cursor[r] /\ <<n, published[n]>> \in Members(got[r])
      \/ n > cursor[r] /\ <<n, published[n]>> \in Members(dq)

BusInv == BusVarTypes /\ DequeInv /\ GivenInv /\ AccountedInv

-----------------------------------------------------------------------------
(***************************************************************************)
(* What a reader is given: the selection from the deque.                   *)
(***************************************************************************)
\* A set of numbers that is not empty has a least one.
LEMMA Least ==
  ASSUME NEW S, S \subseteq Nat, S # {}
  PROVE  \E m \in S : \A k \in S : m <= k
<1> DEFINE R == OpToRel(<, Nat)
<1>1. IsWellFoundedOn(R, Nat)
  BY NatLessThanWellFounded
<1>2. \A x, y \in Nat : <<y, x>> \in R <=> y < x
  BY DEF OpToRel
<1> HIDE DEF R
<1>3. \E x \in S : \A y \in S : ~(<<y, x>> \in R)
  BY <1>1, WFMin
<1>4. PICK x \in S : \A y \in S : ~(<<y, x>> \in R)
  BY <1>3
<1>5. \A y \in S : ~(y < x)
  BY <1>2, <1>4
<1>6. \A y \in S : x \in Nat /\ y \in Nat
  BY <1>4
<1>7. \A y \in S : x <= y
  BY <1>5, <1>6
<1> QED
  BY <1>4, <1>7

\* Induction up to a number, over a set.
LEMMA CountingUp ==
  ASSUME NEW n \in Nat, NEW S, 0 \in S,
         \A k \in 0..n : k < n /\ k \in S => k + 1 \in S
  PROVE  \A k \in 0..n : k \in S
<1> DEFINE B == {k \in 0..n : k \notin S}
<1> SUFFICES ASSUME B # {} PROVE FALSE
  OBVIOUS
<1>1. B \subseteq Nat
  OBVIOUS
<1>2. PICK m \in B : \A k \in B : m <= k
  BY <1>1, Least
<1>3. m # 0 /\ m - 1 \in 0..n /\ m - 1 \in S
  BY <1>2
<1> QED
  BY <1>2, <1>3

\* One more at the end.
LEMMA OneMore ==
  ASSUME NEW E, NEW s \in Seq(E), NEW e \in E
  PROVE  /\ Append(s, e) \in Seq(E)
         /\ Members(Append(s, e)) = Members(s) \union {e}
         /\ Ascending(s) /\ (\A x \in Members(s) : x[1] < e[1]) =>
              Ascending(Append(s, e))
<1>1. /\ DOMAIN s = 1..Len(s) /\ Len(s) \in Nat /\ Append(s, e) \in Seq(E)
      /\ DOMAIN Append(s, e) = 1..(Len(s) + 1)
      /\ \A i \in 1..Len(s) : Append(s, e)[i] = s[i]
      /\ Append(s, e)[Len(s) + 1] = e
  OBVIOUS
<1> QED
  BY <1>1 DEF Members, Ascending

\* News is the part of the deque that passes the filter, in its order.
LEMMA NewsSelects ==
  ASSUME NEW E, dq \in Seq(E), NEW r
  PROVE  /\ News(r) \in Seq(E)
         /\ Members(News(r)) = {e \in Members(dq) : Passes(r, e)}
         /\ Ascending(dq) => Ascending(News(r))
<1> DEFINE Def(g, k) == IF k = 0 THEN <<>>
                        ELSE IF Passes(r, dq[k]) THEN Append(g[k - 1], dq[k])
                        ELSE g[k - 1]
           L == Len(dq)
<1>0. L \in Nat /\ DOMAIN dq = 1..L /\ \A k \in 1..L : dq[k] \in E
  OBVIOUS
<1> HIDE DEF L
<1>1. \E g : g = [k \in 0..L |-> Def(g, k)]
  <2> DEFINE S == {n \in 0..L : \E g : g = [k \in 0..n |-> Def(g, k)]}
  <2>1. 0 \in S
    <3> DEFINE g == [k \in 0..0 |-> <<>>]
    <3>1. \A k \in 0..0 : g[k] = Def(g, k)
      OBVIOUS
    <3>2. g = [k \in 0..0 |-> Def(g, k)]
      BY <3>1
    <3> HIDE DEF g
    <3> QED
      BY <1>0, <3>2
  <2>2. ASSUME NEW n \in 0..L, n < L, n \in S PROVE n + 1 \in S
    <3>1. PICK g : g = [k \in 0..n |-> Def(g, k)]
      BY <2>2
    <3> DEFINE h == [k \in 0..(n + 1) |-> IF k = n + 1 THEN Def(g, k) ELSE g[k]]
    <3>2. ASSUME NEW k \in 0..(n + 1) PROVE h[k] = Def(h, k)
      <4>0. k # 0 => h[k - 1] = g[k - 1]
        BY <1>0
      <4>1. CASE k = n + 1
        BY <1>0, <4>0, <4>1
      <4>2. CASE k # n + 1
        <5>1. k \in 0..n
          BY <1>0, <4>2
        <5>2. g[k] = Def(g, k)
          BY <3>1, <5>1
        <5> QED
          BY <1>0, <4>0, <4>2, <5>2
      <4> QED
        BY <4>1, <4>2
    <3>3. h = [k \in 0..(n + 1) |-> Def(h, k)]
      BY <3>2
    <3>4. n + 1 \in 0..L
      BY <1>0, <2>2
    <3> HIDE DEF h
    <3> QED
      BY <3>3, <3>4
  <2> HIDE DEF S
  <2>3. \A k \in 0..L : k \in S
    BY <1>0, <2>1, <2>2, CountingUp
  <2>4. L \in S
    BY <1>0, <2>3
  <2> HIDE DEF Def
  <2> QED
    BY <2>4 DEF S
<1> DEFINE f == CHOOSE g : g = [k \in 0..L |-> Def(g, k)]
<1>2. f = [k \in 0..L |-> Def(f, k)]
  BY <1>1
<1>3. News(r) = f[L]
  BY DEF News, L
<1> HIDE DEF f
<1> DEFINE Passed(n) == {e \in {dq[i] : i \in 1..n} : Passes(r, e)}
           T == {n \in 0..L : /\ f[n] \in Seq(E)
                              /\ Members(f[n]) = Passed(n)
                              /\ Ascending(dq) => Ascending(f[n])}
<1>4. 0 \in T
  <2>1. f[0] = <<>>
    BY <1>0, <1>2
  <2>2. 1..0 = {} /\ Members(<<>>) = {} /\ Ascending(<<>>) /\ <<>> \in Seq(E)
    BY DEF Members, Ascending
  <2>3. Members(f[0]) = Passed(0)
    BY <2>1, <2>2
  <2>4. f[0] \in Seq(E) /\ Ascending(f[0])
    BY <2>1, <2>2
  <2>5. 0 \in 0..L
    BY <1>0
  <2> HIDE DEF Def, Passed
  <2> QED
    BY <2>3, <2>4, <2>5
<1>5. ASSUME NEW n \in 0..L, n < L, n \in T PROVE n + 1 \in T
  <2>0. n + 1 \in 1..L /\ (n + 1) - 1 = n /\ dq[n + 1] \in E
    BY <1>0, <1>5
  <2>1. f[n + 1] = Def(f, n + 1)
    <3>1. n + 1 \in 0..L
      BY <1>0, <2>0
    <3> HIDE DEF Def
    <3> QED
      BY <1>2, <3>1
  <2>2. /\ f[n] \in Seq(E)
        /\ Members(f[n]) = {e \in {dq[i] : i \in 1..n} : Passes(r, e)}
        /\ Ascending(dq) => Ascending(f[n])
    BY <1>5
  <2>3. {dq[i] : i \in 1..(n + 1)} = {dq[i] : i \in 1..n} \union {dq[n + 1]}
    BY <1>0, <1>5
  <2>4. CASE Passes(r, dq[n + 1])
    <3>1. f[n + 1] = Append(f[n], dq[n + 1])
      BY <2>0, <2>1, <2>4
    <3>2. ASSUME Ascending(dq), NEW x \in Members(f[n]) PROVE x[1] < dq[n + 1][1]
      <4>1. PICK i \in 1..n : x = dq[i]
        BY <2>2
      <4>2. i \in DOMAIN dq /\ n + 1 \in DOMAIN dq /\ i < n + 1
        BY <1>0, <1>5, <2>0
      <4> QED
        BY <3>2, <4>1, <4>2 DEF Ascending
    <3> HIDE DEF Def
    <3>5. f[n] \in Seq(E) /\ dq[n + 1] \in E
      BY <2>0, <2>2
    <3>6. /\ Append(f[n], dq[n + 1]) \in Seq(E)
          /\ Members(Append(f[n], dq[n + 1])) = Members(f[n]) \union {dq[n + 1]}
          /\ Ascending(f[n]) /\ (\A x \in Members(f[n]) : x[1] < dq[n + 1][1]) =>
               Ascending(Append(f[n], dq[n + 1]))
      BY <3>5, OneMore
    <3>3. /\ f[n + 1] \in Seq(E) /\ Members(f[n + 1]) = Members(f[n]) \union {dq[n + 1]}
          /\ Ascending(dq) => Ascending(f[n + 1])
      BY <2>2, <3>1, <3>2, <3>6
    <3>4. Members(f[n + 1]) = {e \in {dq[i] : i \in 1..(n + 1)} : Passes(r, e)}
      BY <2>2, <2>3, <2>4, <3>3
    <3> QED
      BY <2>0, <3>3, <3>4
  <2>5. CASE ~Passes(r, dq[n + 1])
    <3>1. f[n + 1] = f[n]
      BY <2>0, <2>1, <2>5
    <3> HIDE DEF Def
    <3>2. Members(f[n + 1]) = {e \in {dq[i] : i \in 1..(n + 1)} : Passes(r, e)}
      BY <2>2, <2>3, <2>5, <3>1
    <3> QED
      BY <2>0, <2>2, <3>1, <3>2
  <2> QED
    BY <2>4, <2>5
<1> HIDE DEF T
<1>6. L \in T
  BY <1>0, <1>4, <1>5, CountingUp
<1> QED
  BY <1>0, <1>3, <1>6 DEF T, Members

\* Two ascending runs, the second above the first.
LEMMA InARow ==
  ASSUME NEW s \in Seq(Entries), NEW t \in Seq(Entries), NEW c \in Nat,
         Ascending(s), Ascending(t),
         \A e \in Members(s) : e[1] <= c, \A e \in Members(t) : e[1] > c
  PROVE  /\ s \o t \in Seq(Entries) /\ Ascending(s \o t)
         /\ Members(s \o t) = Members(s) \union Members(t)
<1>1. /\ s \o t \in Seq(Entries) /\ Len(s) \in Nat /\ Len(t) \in Nat
      /\ DOMAIN s = 1..Len(s) /\ DOMAIN t = 1..Len(t)
      /\ DOMAIN (s \o t) = 1..(Len(s) + Len(t))
      /\ \A i \in 1..(Len(s) + Len(t)) :
           (s \o t)[i] = IF i <= Len(s) THEN s[i] ELSE t[i - Len(s)]
  OBVIOUS
<1>2. \A i \in 1..Len(t) : /\ i + Len(s) \in 1..(Len(s) + Len(t))
                           /\ (s \o t)[i + Len(s)] = t[i]
  BY <1>1
<1>3. Members(s \o t) = Members(s) \union Members(t)
  <2>1. Members(s \o t) \subseteq Members(s) \union Members(t)
    BY <1>1 DEF Members
  <2>2. Members(s) \subseteq Members(s \o t)
    BY <1>1 DEF Members
  <2>3. Members(t) \subseteq Members(s \o t)
    BY <1>1, <1>2 DEF Members
  <2> QED
    BY <2>1, <2>2, <2>3
<1>4. ASSUME NEW i \in 1..(Len(s) + Len(t)), NEW j \in 1..(Len(s) + Len(t)), i < j
      PROVE  (s \o t)[i][1] < (s \o t)[j][1]
  <2>1. CASE j <= Len(s)
    BY <1>1, <1>4, <2>1 DEF Ascending
  <2>2. CASE i > Len(s)
    <3>1. /\ i - Len(s) \in DOMAIN t /\ j - Len(s) \in DOMAIN t
          /\ i - Len(s) < j - Len(s)
      BY <1>1, <1>4, <2>2
    <3>2. (s \o t)[i] = t[i - Len(s)] /\ (s \o t)[j] = t[j - Len(s)]
      BY <1>1, <1>4, <2>2
    <3> QED
      BY <3>1, <3>2 DEF Ascending
  <2>3. CASE i <= Len(s) /\ j > Len(s)
    <3>1. (s \o t)[i] \in Members(s) /\ (s \o t)[j] \in Members(t)
      BY <1>1, <1>4, <2>3 DEF Members
    <3>2. (s \o t)[i] \in Entries /\ (s \o t)[j] \in Entries
      BY <1>1
    <3>3. (s \o t)[i][1] <= c /\ (s \o t)[j][1] > c
      BY <3>1
    <3>4. (s \o t)[i][1] \in Nat /\ (s \o t)[j][1] \in Nat
      BY <3>2 DEF Entries
    <3>5. \A x, y \in Nat : x <= c /\ y > c => x < y
      OBVIOUS
    <3> QED
      BY <3>3, <3>4, <3>5, Zenon
  <2>4. j <= Len(s) \/ i > Len(s) \/ (i <= Len(s) /\ j > Len(s))
    <3>1. i \in Int /\ j \in Int /\ Len(s) \in Int
      BY <1>1
    <3> QED
      BY <3>1
  <2> QED
    BY <2>1, <2>2, <2>3, <2>4, Zenon
<1> QED
  BY <1>1, <1>3, <1>4 DEF Ascending

\* The numbers in the deque.
LEMMA DequeNumbers ==
  ASSUME TypeOK, BusInv
  PROVE  /\ nextSeq \in Nat \ {0} /\ Len(dq) \in Nat /\ DOMAIN dq = 1..Len(dq)
         /\ Len(published) = nextSeq - 1 /\ DOMAIN published = 1..(nextSeq - 1)
         /\ \A i \in 1..Len(dq) :
              dq[i] \in Entries /\ dq[i][1] \in 1..(nextSeq - 1)
         /\ Ascending(dq)
<1>1. /\ published \in Seq(Sightings) /\ nextSeq = Len(published) + 1
      /\ dq \in Seq(Entries) /\ Len(dq) < nextSeq
  BY DEF TypeOK, BusInv, BusVarTypes
<1>2. /\ nextSeq \in Nat \ {0} /\ Len(dq) \in Nat /\ DOMAIN dq = 1..Len(dq)
      /\ Len(published) = nextSeq - 1 /\ DOMAIN published = 1..(nextSeq - 1)
      /\ \A i \in 1..Len(dq) : dq[i] \in Entries
  BY <1>1
<1>3. \A i \in 1..Len(dq) : dq[i][1] = (nextSeq - 1) - (Len(dq) - i)
  BY <1>2 DEF BusInv, DequeInv
<1>4. \A i \in 1..Len(dq) : dq[i][1] \in 1..(nextSeq - 1)
  BY <1>1, <1>2, <1>3
<1>5. Ascending(dq)
  BY <1>2, <1>3 DEF Ascending
<1> QED
  BY <1>2, <1>4, <1>5

\* An empty bus.
LEMMA BusInitial == BusInit /\ published = <<>> => BusInv
<1> SUFFICES ASSUME BusInit, published = <<>> PROVE BusInv
  OBVIOUS
<1>1. BusVarTypes
  BY DEF BusInit, BusVarTypes
<1>2. DequeInv /\ GivenInv /\ AccountedInv
  BY DEF BusInit, DequeInv, GivenInv, AccountedInv, Ascending, Members
<1> QED
  BY <1>1, <1>2 DEF BusInv

\* One is published, and the oldest falls off a full deque.
LEMMA PublishStep ==
  ASSUME TypeOK, BusInv, NEW s \in Sightings,
         Publish(s), published' = Append(published, s)
  PROVE  BusInv'
<1> DEFINE kept == IF Len(dq) = Maxlen THEN Tail(dq) ELSE dq
           out == IF Len(dq) = Maxlen THEN 1 ELSE 0
           new == <<nextSeq, s>>
<1>1. /\ nextSeq \in Nat \ {0} /\ Len(dq) \in Nat /\ DOMAIN dq = 1..Len(dq)
      /\ DOMAIN published = 1..(nextSeq - 1) /\ Maxlen \in Nat \ {0}
      /\ \A i \in 1..Len(dq) : dq[i] \in Entries /\ dq[i][1] \in 1..(nextSeq - 1)
  BY DequeNumbers, BusAssumption
<1>2. /\ dq \in Seq(Entries) /\ Len(dq) < nextSeq /\ cursor \in [Readers -> Nat]
      /\ got \in [Readers -> Seq(Entries)] /\ missed \in [Readers -> SUBSET Entries]
      /\ published \in Seq(Sightings)
  BY DEF TypeOK, BusInv, BusVarTypes
<1>3. /\ DOMAIN published' = 1..nextSeq
      /\ \A n \in 1..(nextSeq - 1) : published'[n] = published[n]
      /\ published'[nextSeq] = s
  BY <1>1, <1>2
<1>4. /\ kept \in Seq(Entries) /\ Len(kept) = Len(dq) - out
      /\ DOMAIN kept = 1..(Len(dq) - out)
      /\ \A i \in 1..(Len(dq) - out) : kept[i] = dq[i + out]
      /\ out = 1 => Head(dq) = dq[1] /\ dq[1] \in Entries /\ Len(dq) = Maxlen
  <2>1. CASE Len(dq) = Maxlen
    <3>1. dq # <<>> /\ Len(dq) >= 1
      BY <1>1, <1>2, <2>1
    <3>2. /\ Tail(dq) \in Seq(Entries) /\ Len(Tail(dq)) = Len(dq) - 1
          /\ \A i \in 1..(Len(dq) - 1) : Tail(dq)[i] = dq[i + 1]
          /\ DOMAIN Tail(dq) = 1..(Len(dq) - 1)
      BY <1>1, <1>2, <3>1, HeadTailProperties
    <3>3. Head(dq) = dq[1] /\ dq[1] \in Entries
      BY <1>1, <1>2, <3>1
    <3> QED
      BY <1>1, <2>1, <3>1, <3>2, <3>3
  <2>2. CASE Len(dq) # Maxlen
    <3>1. kept = dq /\ out = 0
      BY <2>2
    <3>2. Len(dq) - 0 = Len(dq) /\ \A i \in 1..Len(dq) : i + 0 = i
      BY <1>1
    <3> HIDE DEF kept, out
    <3> QED
      BY <1>1, <1>2, <3>1, <3>2
  <2> QED
    BY <2>1, <2>2
<1>13. out \in Nat /\ out <= 1 /\ out <= Len(dq)
  <2>1. CASE Len(dq) = Maxlen
    BY <1>1, <2>1
  <2>2. CASE Len(dq) # Maxlen
    <3>1. out = 0
      BY <2>2
    <3> HIDE DEF out
    <3> QED
      BY <1>1, <3>1
  <2> QED
    BY <2>1, <2>2
<1>5. new \in Entries
  BY <1>1 DEF Entries
<1>0. dq' = Append(kept, new) /\ (out = 1 <=> Len(dq) = Maxlen)
  BY DEF Publish
<1> HIDE DEF kept, out
<1>6. /\ dq' \in Seq(Entries) /\ Len(dq') = Len(dq) - out + 1
      /\ DOMAIN dq' = 1..(Len(dq) - out + 1)
      /\ \A i \in 1..(Len(dq) - out) : dq'[i] = dq[i + out]
      /\ dq'[Len(dq) - out + 1] = new
  <2>1. /\ Append(kept, new) \in Seq(Entries)
        /\ Len(Append(kept, new)) = Len(kept) + 1
        /\ DOMAIN Append(kept, new) = 1..(Len(kept) + 1)
        /\ \A i \in 1..Len(kept) : Append(kept, new)[i] = kept[i]
        /\ Append(kept, new)[Len(kept) + 1] = new
    BY <1>4, <1>5, AppendProperties
  <2> HIDE DEF new
  <2> QED
    BY <1>0, <1>1, <1>4, <2>1
<1>7. nextSeq' = nextSeq + 1 /\ cursor' = cursor /\ got' = got
  BY DEF Publish
<1>8. /\ \A r \in Readers : missed[r] \subseteq missed'[r]
      /\ \A r \in Readers : out = 1 /\ Passes(r, dq[1]) => dq[1] \in missed'[r]
      /\ missed' \in [Readers -> SUBSET Entries]
  BY <1>0, <1>2, <1>4 DEF Publish
<1>9. BusVarTypes'
  <2>1. Len(dq') < nextSeq'
    BY <1>1, <1>2, <1>6, <1>7, <1>13
  <2> QED
    BY <1>2, <1>6, <1>7, <1>8, <2>1 DEF BusVarTypes
<1>10. DequeInv'
  <2> SUFFICES ASSUME NEW i \in DOMAIN dq'
               PROVE  /\ dq'[i][1] = (nextSeq' - 1) - (Len(dq') - i)
                      /\ published'[dq'[i][1]] = dq'[i][2]
    BY DEF DequeInv
  <2>1. CASE i = Len(dq) - out + 1
    <3>1. dq'[i][1] = nextSeq /\ dq'[i][2] = s /\ i = Len(dq')
      BY <1>6, <2>1
    <3>2. (nextSeq' - 1) - (Len(dq') - i) = nextSeq
      BY <1>1, <1>6, <1>7, <1>13, <2>1
    <3> QED
      BY <1>3, <3>1, <3>2
  <2>2. CASE i # Len(dq) - out + 1
    <3>1. i \in 1..(Len(dq) - out) /\ i + out \in 1..Len(dq)
      BY <1>1, <1>6, <1>13, <2>2
    <3>2. dq'[i] = dq[i + out]
      BY <1>6, <3>1
    <3>3. /\ dq[i + out][1] = (nextSeq - 1) - (Len(dq) - (i + out))
          /\ published[dq[i + out][1]] = dq[i + out][2]
      BY <1>1, <3>1 DEF BusInv, DequeInv
    <3>4. (nextSeq' - 1) - (Len(dq') - i) = (nextSeq - 1) - (Len(dq) - (i + out))
      <4>1. nextSeq' = nextSeq + 1 /\ Len(dq') = Len(dq) - out + 1
        BY <1>6, <1>7
      <4>2. nextSeq \in Int /\ Len(dq) \in Int /\ out \in Int /\ i \in Int
        BY <1>1, <1>13, <3>1
      <4> DEFINE l == Len(dq)
      <4>3. l \in Int
        BY <4>2
      <4> HIDE DEF l
      <4>4. ((nextSeq + 1) - 1) - ((l - out + 1) - i) = (nextSeq - 1) - (l - (i + out))
        BY <4>2, <4>3
      <4> QED
        BY <4>1, <4>4 DEF l
    <3>5. dq[i + out][1] \in 1..(nextSeq - 1)
      BY <1>1, <3>1
    <3> QED
      BY <1>3, <3>2, <3>3, <3>4, <3>5
  <2> QED
    BY <2>1, <2>2
<1>11. GivenInv'
  <2>1. \A r \in Readers : \A e \in Members(got[r]) : e \in Entries
    BY <1>2 DEF Members
  <2>2. ASSUME NEW r \in Readers
        PROVE  /\ cursor'[r] < nextSeq'
               /\ Ascending(got'[r])
               /\ \A e \in Members(got'[r]) : e[1] \in 1..cursor'[r]
    BY <1>1, <1>2, <1>7 DEF BusInv, GivenInv
  <2>3. ASSUME NEW r \in Readers, NEW e \in Members(got[r])
        PROVE  published'[e[1]] = e[2]
    <3>1. e[1] \in 1..cursor[r] /\ cursor[r] < nextSeq /\ published[e[1]] = e[2]
      BY DEF BusInv, GivenInv
    <3>2. e[1] \in DOMAIN published
      BY <1>1, <1>2, <3>1
    <3> QED
      BY <1>1, <1>3, <3>1, <3>2
  <2> QED
    BY <1>7, <2>2, <2>3 DEF GivenInv
<1>12. AccountedInv'
  <2> SUFFICES ASSUME NEW r \in Readers, NEW n \in 1..nextSeq, published'[n] \in Wanted[r]
               PROVE  \/ <<n, published'[n]>> \in missed'[r]
                      \/ n <= cursor[r] /\ <<n, published'[n]>> \in Members(got[r])
                      \/ n > cursor[r] /\ <<n, published'[n]>> \in Members(dq')
    BY <1>3, <1>7 DEF AccountedInv
  <2>1. CASE n = nextSeq
    <3>1. n > cursor[r]
      BY <1>1, <1>2, <2>1 DEF BusInv, GivenInv
    <3>2. new \in Members(dq')
      <4>1. Len(dq) - out + 1 \in DOMAIN dq'
        BY <1>1, <1>6, <1>13
      <4> QED
        BY <1>6, <4>1 DEF Members
    <3> QED
      BY <1>3, <2>1, <3>1, <3>2
  <2>2. CASE n # nextSeq
    <3>1. n \in DOMAIN published /\ published'[n] = published[n]
      BY <1>1, <1>3, <2>2
    <3>2. \/ <<n, published[n]>> \in missed[r]
          \/ n <= cursor[r] /\ <<n, published[n]>> \in Members(got[r])
          \/ n > cursor[r] /\ <<n, published[n]>> \in Members(dq)
      BY <3>1 DEF BusInv, AccountedInv
    <3>3. ASSUME n > cursor[r], <<n, published[n]>> \in Members(dq)
          PROVE  <<n, published[n]>> \in Members(dq') \union missed'[r]
      <4>1. PICK i \in 1..Len(dq) : dq[i] = <<n, published[n]>>
        BY <1>1, <3>3 DEF Members
      <4>2. CASE out = 1 /\ i = 1
        <5>1. Passes(r, dq[1])
          BY <3>1, <3>3, <4>1, <4>2 DEF Passes
        <5> QED
          BY <1>8, <4>1, <4>2, <5>1
      <4>3. CASE ~(out = 1 /\ i = 1)
        <5>1. i - out \in 1..(Len(dq) - out) /\ (i - out) + out = i
          BY <1>1, <1>13, <4>3
        <5>2. dq'[i - out] = dq[i] /\ i - out \in DOMAIN dq'
          BY <1>1, <1>6, <1>13, <5>1
        <5> QED
          BY <4>1, <5>2 DEF Members
      <4> QED
        BY <4>2, <4>3
    <3> QED
      BY <1>8, <3>1, <3>2, <3>3
  <2> QED
    BY <1>1, <2>1, <2>2
<1> QED
  BY <1>9, <1>10, <1>11, <1>12 DEF BusInv

\* A reader drains.
LEMMA DrainStep ==
  ASSUME TypeOK, BusInv, NEW r \in Readers, DrainAfter(r), UNCHANGED published
  PROVE  BusInv'
<1>1. /\ nextSeq \in Nat \ {0} /\ Len(dq) \in Nat /\ DOMAIN dq = 1..Len(dq)
      /\ DOMAIN published = 1..(nextSeq - 1) /\ Ascending(dq)
      /\ \A i \in 1..Len(dq) : dq[i] \in Entries /\ dq[i][1] \in 1..(nextSeq - 1)
  BY DequeNumbers
<1>2. /\ dq \in Seq(Entries) /\ Len(dq) < nextSeq /\ cursor \in [Readers -> Nat]
      /\ got \in [Readers -> Seq(Entries)] /\ missed \in [Readers -> SUBSET Entries]
  BY DEF BusInv, BusVarTypes
<1>3. /\ News(r) \in Seq(Entries) /\ Ascending(News(r))
      /\ Members(News(r)) = {e \in Members(dq) : Passes(r, e)}
  BY <1>1, <1>2, NewsSelects
<1>4. /\ cursor[r] <= Newest(r) /\ Newest(r) \in Nat /\ Newest(r) < nextSeq
      /\ \A e \in Members(dq) : e[1] \in 1..Newest(r)
  <2>1. CASE dq = <<>>
    BY <1>1, <1>2, <2>1 DEF Newest, BusInv, GivenInv, Members
  <2>2. CASE dq # <<>>
    <3>1. Len(dq) \in 1..Len(dq)
      BY <1>1, <1>2, <2>2
    <3>2. Newest(r) = nextSeq - 1
      BY <1>1, <2>2, <3>1 DEF Newest, BusInv, DequeInv
    <3>3. \A e \in Members(dq) : e[1] \in 1..(nextSeq - 1)
      BY <1>1 DEF Members
    <3>4. cursor[r] < nextSeq /\ cursor[r] \in Nat
      BY <1>2 DEF BusInv, GivenInv
    <3> QED
      BY <1>1, <3>2, <3>3, <3>4
  <2> QED
    BY <2>1, <2>2
<1>5. \A e \in Members(News(r)) : /\ e[1] > cursor[r] /\ e[1] \in 1..Newest(r)
                                  /\ published[e[1]] = e[2]
  <2>1. \A e \in Members(dq) : published[e[1]] = e[2]
    BY DEF BusInv, DequeInv, Members
  <2> QED
    BY <1>3, <1>4, <2>1 DEF Passes
<1>6. /\ Ascending(got[r])
      /\ \A e \in Members(got[r]) : e[1] \in 1..cursor[r] /\ published[e[1]] = e[2]
  BY DEF BusInv, GivenInv
<1>7. /\ got[r] \o News(r) \in Seq(Entries) /\ Ascending(got[r] \o News(r))
      /\ Members(got[r] \o News(r)) = Members(got[r]) \union Members(News(r))
  <2>1. got[r] \in Seq(Entries) /\ cursor[r] \in Nat
    BY <1>2
  <2>2. \A e \in Members(got[r]) : e[1] <= cursor[r]
    BY <1>6, <2>1
  <2> QED
    BY <1>3, <1>5, <1>6, <2>1, <2>2, InARow
<1>8. /\ dq' = dq /\ nextSeq' = nextSeq /\ missed' = missed /\ published' = published
      /\ got'[r] = got[r] \o News(r) /\ cursor'[r] = Newest(r)
      /\ \A q \in Readers \ {r} : got'[q] = got[q] /\ cursor'[q] = cursor[q]
      /\ got' \in [Readers -> Seq(Entries)] /\ cursor' \in [Readers -> Nat]
  BY <1>2, <1>4, <1>7 DEF DrainAfter
<1>9. BusVarTypes' /\ DequeInv'
  BY <1>2, <1>8 DEF BusVarTypes, DequeInv, BusInv
<1>10. GivenInv'
  <2>1. \A e \in Members(got'[r]) : e[1] \in 1..cursor'[r] /\ published'[e[1]] = e[2]
    <3>1. \A e \in Members(got[r]) : e[1] \in 1..Newest(r)
      BY <1>2, <1>4, <1>6
    <3> QED
      BY <1>5, <1>6, <1>7, <1>8, <3>1
  <2>2. cursor'[r] < nextSeq' /\ Ascending(got'[r])
    BY <1>4, <1>7, <1>8
  <2> QED
    BY <1>8, <2>1, <2>2 DEF BusInv, GivenInv
<1>11. AccountedInv'
  <2> SUFFICES ASSUME NEW q \in Readers, NEW n \in DOMAIN published,
                      published[n] \in Wanted[q]
               PROVE  \/ <<n, published[n]>> \in missed[q]
                      \/ n <= cursor'[q] /\ <<n, published[n]>> \in Members(got'[q])
                      \/ n > cursor'[q] /\ <<n, published[n]>> \in Members(dq)
    BY <1>8 DEF AccountedInv
  <2>1. \/ <<n, published[n]>> \in missed[q]
        \/ n <= cursor[q] /\ <<n, published[n]>> \in Members(got[q])
        \/ n > cursor[q] /\ <<n, published[n]>> \in Members(dq)
    BY DEF BusInv, AccountedInv
  <2>2. CASE q # r
    BY <1>8, <2>1, <2>2
  <2>3. CASE q = r
    <3>1. n \in Nat /\ cursor[r] \in Nat
      BY <1>1, <1>2
    <3>2. ASSUME n <= cursor[r], <<n, published[n]>> \in Members(got[r])
          PROVE  n <= cursor'[r] /\ <<n, published[n]>> \in Members(got'[r])
      BY <1>4, <1>7, <1>8, <3>1, <3>2
    <3>3. ASSUME n > cursor[r], <<n, published[n]>> \in Members(dq)
          PROVE  n <= cursor'[r] /\ <<n, published[n]>> \in Members(got'[r])
      <4>1. Passes(r, <<n, published[n]>>)
        BY <2>3, <3>3 DEF Passes
      <4>2. <<n, published[n]>> \in Members(News(r))
        BY <1>3, <3>3, <4>1
      <4>3. n <= Newest(r)
        BY <1>4, <3>1, <3>3
      <4> QED
        BY <1>7, <1>8, <4>2, <4>3
    <3> QED
      BY <2>1, <2>3, <3>2, <3>3
  <2> QED
    BY <2>2, <2>3
<1> QED
  BY <1>9, <1>10, <1>11 DEF BusInv

\* Only a publication, a drain or a kill touches the bus.
LEMMA BusInductive == PerceptionInv /\ BusInv /\ [Next]_vars => BusInv'
<1> SUFFICES ASSUME PerceptionInv, BusInv, [Next]_vars PROVE BusInv'
  OBVIOUS
<1>1. TypeOK
  BY DEF PerceptionInv
<1>2. CASE UNCHANGED <<busVars, published>>
  BY <1>2 DEF BusInv, busVars, BusVarTypes, DequeInv, GivenInv, AccountedInv
<1>3. ASSUME NEW w \in Writers, OnBus(w) PROVE BusInv'
  <2>1. Sighted(w) \in Sightings
    BY <1>3, Sane DEF OnBus
  <2> QED
    BY <1>1, <1>3, <2>1, PublishStep DEF OnBus
<1>4. ASSUME NEW r \in Readers, Drain(r) PROVE BusInv'
  BY <1>1, <1>4, DrainStep DEF Drain
<1>5. CASE Kill
  <2>1. BusInit' /\ published' = <<>>
    BY <1>5 DEF Kill, LoseBus, BusInit
  <2>2. (BusInit /\ published = <<>> => BusInv)'
    BY BusInitial, PTL
  <2> QED
    BY <2>1, <2>2
<1>6. CASE UNCHANGED vars
  BY <1>2, <1>6 DEF vars
<1>7. CASE \E d \in Drones : Deliver(d) \/ GetFrame(d)
  BY <1>2, <1>7 DEF Deliver, GetFrame
<1>8. CASE Submit \/ TakeFrame \/ Infer \/ StopPool \/ Join \/ Close \/ Open
  BY <1>2, <1>8 DEF Submit, TakeFrame, Infer, StopPool, Join, Close, Open
<1>9. CASE \E w \in Writers : BeforeRow(w) \/ Written(w) \/ Note(w)
  BY <1>2, <1>9 DEF BeforeRow, AskHealth, Record, Written, Note, recording
<1> QED
  BY <1>3, <1>4, <1>5, <1>6, <1>7, <1>8, <1>9 DEF Next, Thread, BeforeRow

-----------------------------------------------------------------------------
(***************************************************************************)
(* The theorems.                                                           *)
(***************************************************************************)
\* What is known of every reachable state of recording, together.
THEOREM PerceptionInvariant == Spec => []PerceptionInv
BY PerceptionInitial, PerceptionInductive, PTL DEF Spec

\* Type correctness: among others, the pool's queue never outgrows its bound
\* and the bus numbers what is published without a gap.
THEOREM PerceptionTypeCorrect == Spec => []TypeOK
<1>1. PerceptionInv => TypeOK
  BY DEF PerceptionInv
<1> QED
  BY <1>1, PerceptionInvariant, PTL

\* An id that append() returned is its sighting's row for good: through
\* failed appends, kills and recoveries, in any number.
THEOREM LogAckedIdsHold == Spec => []AckedIdsHold
<1>1. PerceptionInv => AckedIdsHold
  BY DEF PerceptionInv
<1> QED
  BY <1>1, PerceptionInvariant, PTL

\* A handle that accepts rows knows the file as it is.
THEOREM LogMirrorIsFile == Spec => []MirrorIsFile
<1>1. PerceptionInv => MirrorIsFile
  BY DEF PerceptionInv
<1> QED
  BY <1>1, PerceptionInvariant, PTL

\* While the log is in use, nobody knows of a sighting that is not a row, but
\* for what the codec refused.
THEOREM SightingsSeenMeansLogged == Spec => []SeenMeansLogged
<1>1. PerceptionInv => SeenMeansLogged
  BY DEF PerceptionInv
<1> QED
  BY <1>1, PerceptionInvariant, PTL

\* The log is closed behind the last callback, except that of an inference
\* that outlasted the join.
THEOREM LogClosedBehindCallbacks == Spec => []ClosedBehindCallbacks
<1>1. ASSUME PerceptionInv PROVE ClosedBehindCallbacks
  <2>1. CASE handle = "closed" /\ ending = "joined"
    <3>1. at["loop"] = "idle" /\ at["worker"] = "idle"
      BY <1>1, <2>1 DEF PerceptionInv, EndInv
    <3>2. at \in [Writers -> {"idle", "record", "append", "write", "good",
                              "bad", "publish", "submit", "infer"}]
      BY <1>1, TypeParts DEF PerceptionInv, ThreadTypes
    <3> QED
      BY <3>1, <3>2, PerceptionAssumption DEF ClosedBehindCallbacks, Nowhere
  <2> QED
    BY <1>1, <2>1 DEF ClosedBehindCallbacks, PerceptionInv, EndInv
<1> QED
  BY <1>1, PerceptionInvariant, PTL

\* What is known of the bus and its readers in every reachable state.
THEOREM BusInvariant == Spec => []BusInv
<1>1. Init => BusInv
  BY BusInitial DEF Init
<1> QED
  BY <1>1, BusInductive, PerceptionInvariant, PTL DEF Spec

\* The cursor protocol: of what was published up to its cursor, a reader was
\* given each sighting that concerns it, once and in order, unless the bus had
\* evicted it before; and nothing from beyond.  For any size of the bus, any
\* readers and filters, and any number of threads' publications in between.
THEOREM BusReadExactlyOnce == Spec => []ReadExactlyOnce
<1>1. ASSUME TypeOK, BusInv PROVE ReadExactlyOnce
  <2>1. DOMAIN published = 1..(nextSeq - 1) /\ nextSeq \in Nat /\ cursor \in [Readers -> Nat]
    BY <1>1, DequeNumbers DEF BusInv, BusVarTypes
  <2>2. \A r \in Readers : \A e \in Members(got[r]) :
          e[1] <= cursor[r] /\ e[1] < nextSeq /\ published[e[1]] = e[2]
    BY <1>1, <2>1 DEF BusInv, GivenInv
  <2>3. \A r \in Readers, n \in DOMAIN published :
          n <= cursor[r] /\ published[n] \in Wanted[r] =>
            <<n, published[n]>> \in Members(got[r]) \union missed[r]
    BY <1>1, <2>1 DEF BusInv, AccountedInv
  <2> QED
    BY <1>1, <2>2, <2>3 DEF ReadExactlyOnce, BusInv, GivenInv, Ascending
<1>2. PerceptionInv => TypeOK
  BY DEF PerceptionInv
<1> QED
  BY <1>1, <1>2, PerceptionInvariant, BusInvariant, PTL
=============================================================================
