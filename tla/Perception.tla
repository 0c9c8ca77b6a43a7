------------------------------ MODULE Perception ------------------------------
(***************************************************************************)
(* finals.vision: from a camera to the sightings.  On the event loop each  *)
(* drone's PerceptionLoop takes the latest frame, reads the markers in it, *)
(* records them (CSV row, then bus) and hands the frame to the shared      *)
(* DetectorPool, whose worker thread infers and records likewise.          *)
(* CsvRecordingHealth stops the appends of a log it holds for dead.  At    *)
(* the end of a run the pool is stopped, then the log closed; a process    *)
(* that is killed may be followed by one that opens the same file.         *)
(*                                                                         *)
(* A picture is taken to come with its number (PyhulaxVideoSource reads    *)
(* the number after the picture, which may be of the next one by then).    *)
(* At most one marker and one detection per frame.  One action is one      *)
(* step of a thread between two accesses to what threads share.            *)
(***************************************************************************)
EXTENDS SightingLog, SightingBus

CONSTANTS
  Drones,
  MaxFrames,   \* BOUND: MaxFrames[d]: the frames d's camera delivers
  MaxKills,    \* BOUND: the times the process dies
  Malformed,   \* the sightings the CSV codec refuses
  LatchAfter,  \* latch_after
  QueueMax,    \* queue_maxlen of the pool
  Hangs        \* whether a worker may outlast the join of stop(): an inference
               \* or a callback, with the fsync of its row, that takes longer

ASSUME PerceptionAssumption ==
  /\ MaxFrames \in [Drones -> Nat] /\ MaxKills \in Nat /\ QueueMax \in Nat \ {0}
  /\ LatchAfter \in Nat \ {0} /\ Hangs \in BOOLEAN
  /\ \A d \in Drones : \A n \in 1..MaxFrames[d], k \in {"marker", "yolo"} :
       <<d, n, k>> \in Sightings
  /\ Malformed \subseteq Sightings
  /\ Writers = {"loop", "worker"}
  /\ NoRow \notin Sightings /\ Nobody \notin Writers

VARIABLES
  shown,      \* shown[d]: the number of the latest frame of d's camera
  at,         \* at[w]: where the thread is
  frame,      \* frame[w]: the frame it works on: drone, picture
  lastKey,    \* _last_frame_key[d]
  pending,    \* _dq of the pool
  dropped,    \* dropped_total
  noticed,    \* _last_dropped_total[d]; d's sampling is shed when positive
  streak,     \* _consecutive
  dead,       \* _dead
  published,  \* the sightings as the bus numbered them
  ending,     \* stop() of the pool: no, stopping, joined, or expired
  kills

camera == <<shown, lastKey>>
poolVars == <<pending, dropped, noticed>>
health == <<streak, dead>>
run == <<ending, kills>>
vars == <<logVars, busVars, camera, at, frame, poolVars, health, published, run>>

Nowhere == [w \in Writers |-> "idle"]

TypeOK ==
  /\ LogTypeOK
  /\ shown \in [Drones -> Nat] /\ lastKey \in [Drones -> Nat]
  /\ \A d \in Drones : shown[d] <= MaxFrames[d] /\ lastKey[d] <= shown[d]
  /\ at \in [Writers -> {"idle", "record", "append", "write", "good",
                         "bad", "publish", "submit", "infer"}]
  /\ frame \in [Writers -> (Drones \X Nat) \union {<<>>}]
  /\ pending \in Seq(Drones \X Nat) /\ Len(pending) <= QueueMax
  /\ dropped \in Nat /\ noticed \in [Drones -> Nat]
  /\ streak \in Nat /\ dead \in BOOLEAN
  /\ published \in Seq(Sightings) /\ nextSeq = Len(published) + 1
  /\ ending \in {"no", "stopping", "joined", "expired"}
  /\ kills \in 0..MaxKills

None == [d \in Drones |-> 0]

Init ==
  /\ LogInit /\ BusInit
  /\ shown = None /\ lastKey = None
  /\ at = Nowhere /\ frame = [w \in Writers |-> <<>>]
  /\ pending = <<>> /\ dropped = 0 /\ noticed = None
  /\ streak = 0 /\ dead = FALSE /\ published = <<>>
  /\ ending = "no" /\ kills = 0

(***************************************************************************)
(* The camera, and sample_once().                                          *)
(***************************************************************************)
Deliver(d) ==
  /\ shown[d] < MaxFrames[d]
  /\ shown' = [shown EXCEPT ![d] = @ + 1]
  /\ UNCHANGED <<logVars, busVars, lastKey, at, frame, poolVars, health,
                 published, run>>

GoTo(w, where) == at' = [at EXCEPT ![w] = where] /\ UNCHANGED frame
Off(w) == at' = [at EXCEPT ![w] = "idle"] /\ frame' = [frame EXCEPT ![w] = <<>>]

\* The perception tasks are cancelled before the pool is stopped.
Sampling == at["loop"] = "idle" /\ handle \in {"open", "failed"} /\ ending = "no"

IsNews(d, number) == number # lastKey[d]

\* A frame whose number is new is searched: a marker is seen or is not.
Search(d, number) ==
  IF IsNews(d, number)
  THEN /\ lastKey' = [lastKey EXCEPT ![d] = number]
       /\ frame' = [frame EXCEPT !["loop"] = <<d, number>>]
       /\ \E next \in {"record", "submit"} : at' = [at EXCEPT !["loop"] = next]
  ELSE Off("loop") /\ UNCHANGED lastKey

GetFrame(d) ==
  /\ Sampling /\ shown[d] > 0
  /\ Search(d, shown[d])
  /\ UNCHANGED <<logVars, busVars, shown, poolVars, health, published, run>>

(***************************************************************************)
(* Recording, on either thread: a row unless the log is held for dead, the *)
(* health, and the bus in any case.                                        *)
(***************************************************************************)
Sighted(w) ==
  <<frame[w][1], frame[w][2], IF w = "loop" THEN "marker" ELSE "yolo">>

recording == <<busVars, camera, poolVars, health, published, run>>

\* Mutant of AskHealth: the sighting is on the bus before its row is written.
AskAndPublish(w) ==
  /\ at[w] = "record"
  /\ Publish(Sighted(w)) /\ published' = Append(published, Sighted(w))
  /\ GoTo(w, "append")
  /\ UNCHANGED <<logVars, camera, poolVars, health, run>>

\* The flag is read first; the other thread may latch it, or close the log,
\* before this one has the lock.
AskHealth(w) ==
  /\ at[w] = "record"
  /\ GoTo(w, IF dead THEN "publish" ELSE "append")
  /\ UNCHANGED <<logVars, recording>>

Record(w) ==
  /\ at[w] = "append"
  /\ \/ /\ Sighted(w) \in Malformed \/ Refuses
        /\ GoTo(w, "bad") /\ UNCHANGED logVars
     \/ /\ Sighted(w) \notin Malformed
        /\ BeginAppend(w, Sighted(w))
        /\ GoTo(w, "write")
  /\ UNCHANGED recording

Written(w) ==
  /\ at[w] = "write"
  /\ \/ FinishAppend(w) /\ GoTo(w, "good")
     \/ FailAppend(w) /\ GoTo(w, "bad")
  /\ UNCHANGED recording

Latches(n) == n >= LatchAfter

\* note_success() and note_failure()
Note(w) ==
  /\ \/ at[w] = "good" /\ streak' = 0 /\ UNCHANGED dead
     \/ /\ at[w] = "bad"
        /\ streak' = streak + 1
        /\ dead' = (dead \/ Latches(streak'))
  /\ GoTo(w, "publish")
  /\ UNCHANGED <<logVars, busVars, camera, poolVars, published, run>>

OnBus(w) ==
  /\ at[w] = "publish"
  /\ Publish(Sighted(w)) /\ published' = Append(published, Sighted(w))
  /\ IF w = "loop" THEN GoTo(w, "submit") ELSE Off(w)
  /\ UNCHANGED <<logVars, camera, poolVars, health, run>>

(***************************************************************************)
(* The detector pool: a full queue drops its oldest frame.                 *)
(***************************************************************************)
Queued(f) == Append(IF Len(pending) = QueueMax THEN Tail(pending) ELSE pending, f)

\* The drops so far are looked at before the submission that may add one.
Submit ==
  /\ at["loop"] = "submit"
  /\ noticed' = [noticed EXCEPT ![frame["loop"][1]] = dropped]
  /\ dropped' = IF Len(pending) = QueueMax THEN dropped + 1 ELSE dropped
  /\ pending' = Queued(frame["loop"])
  /\ Off("loop")
  /\ UNCHANGED <<logVars, busVars, camera, health, published, run>>

TakeFrame ==
  /\ at["worker"] = "idle" /\ ending = "no" /\ pending # <<>>
  /\ at' = [at EXCEPT !["worker"] = "infer"]
  /\ frame' = [frame EXCEPT !["worker"] = Head(pending)]
  /\ pending' = Tail(pending)
  /\ UNCHANGED <<logVars, busVars, camera, dropped, noticed, health, published, run>>

\* Something is detected, or nothing (an inference that raises counts so).
Infer ==
  /\ at["worker"] = "infer"
  /\ GoTo("worker", "record") \/ Off("worker")
  /\ UNCHANGED <<logVars, busVars, camera, poolVars, health, published, run>>

(***************************************************************************)
(* The readers, the end of a run, and a kill.                              *)
(***************************************************************************)
Drain(r) ==
  /\ ending = "no"
  /\ DrainAfter(r)
  /\ UNCHANGED <<logVars, camera, at, frame, poolVars, health, published, run>>

StopPool ==
  /\ ending = "no" /\ at["loop"] = "idle" /\ handle \in {"open", "failed"}
  /\ ending' = "stopping"
  /\ UNCHANGED <<logVars, busVars, camera, at, frame, poolVars, health, published,
                 kills>>

\* The worker ends before the timeout, or is still at a frame when it passes.
Join ==
  /\ ending = "stopping"
  /\ \/ at["worker"] = "idle" /\ ending' = "joined"
     \/ at["worker"] # "idle" /\ Hangs /\ ending' = "expired"
  /\ UNCHANGED <<logVars, busVars, camera, at, frame, poolVars, health, published,
                 kills>>

\* Mutant of MayClose: the log is closed while the pool stops.
MayCloseFirst == ending # "no"

MayClose == ending \in {"joined", "expired"}

Close ==
  /\ MayClose /\ CloseLog
  /\ UNCHANGED <<busVars, camera, at, frame, poolVars, health, published, run>>

Open ==
  /\ Recover \/ WriteHeader \/ OpenLog
  /\ UNCHANGED <<busVars, camera, at, frame, poolVars, health, published, run>>

Kill ==
  /\ kills < MaxKills /\ handle # "down"
  /\ LoseLog /\ LoseBus
  /\ lastKey' = None
  /\ at' = Nowhere /\ frame' = [w \in Writers |-> <<>>]
  /\ pending' = <<>> /\ dropped' = 0 /\ noticed' = None
  /\ streak' = 0 /\ dead' = FALSE /\ published' = <<>>
  /\ ending' = "no" /\ kills' = kills + 1
  /\ UNCHANGED shown

Thread(w) == AskHealth(w) \/ Record(w) \/ Written(w) \/ Note(w) \/ OnBus(w)

Next ==
  \/ \E d \in Drones : Deliver(d) \/ GetFrame(d)
  \/ Submit \/ TakeFrame \/ Infer
  \/ \E w \in Writers : Thread(w)
  \/ \E r \in Readers : Drain(r)
  \/ StopPool \/ Join \/ Close \/ Open \/ Kill

Spec == Init /\ [][Next]_vars

-----------------------------------------------------------------------------
(***************************************************************************)
(* Properties (with those of SightingLog).                                 *)
(***************************************************************************)
Members(s) == {s[i] : i \in DOMAIN s}

\* The cursor protocol: of what was published up to its cursor, a reader was
\* given each sighting that concerns it, once, unless the bus had evicted it
\* before; and nothing from beyond.
ReadExactlyOnce ==
  \A r \in Readers :
    /\ \A i, j \in DOMAIN got[r] : i < j => got[r][i][1] < got[r][j][1]
    /\ \A e \in Members(got[r]) :
         e[1] <= cursor[r] /\ e[1] < nextSeq /\ published[e[1]] = e[2]
    /\ \A n \in DOMAIN published :
         n <= cursor[r] /\ published[n] \in Wanted[r] =>
           <<n, published[n]>> \in Members(got[r]) \union missed[r]

\* While the log is open and not held for dead, whatever a reader can know of
\* is a row, but for what the codec refused: with two threads recording, and
\* a row that fails between them.
SeenMeansLogged ==
  handle = "open" /\ ~dead =>
    Members(published) \ Malformed \subseteq Members(rows)

\* The log is closed behind the last callback, except that of a worker that
\* outlasted the join.
ClosedBehindCallbacks ==
  handle = "closed" => at = Nowhere \/ ending = "expired"
==============================================================================
