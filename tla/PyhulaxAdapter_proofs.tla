------------------------ MODULE PyhulaxAdapter_proofs ------------------------
(***************************************************************************)
(* Theorems about the adapter, for any freshness limit and whether or not  *)
(* a getter may block.                                                     *)
(***************************************************************************)
EXTENDS PyhulaxAdapter, TLAPS

-----------------------------------------------------------------------------
(***************************************************************************)
(* The inductive invariant.                                                *)
(***************************************************************************)
Distinct(q) == \A i, j \in DOMAIN q : q[i] = q[j] => i = j

\* A job is in the queue or on the worker, and its caller waits for it.
WorkerInv ==
  /\ running = NoJob <=> by = "nobody"
  /\ by \in Callers => at[by] = "waiting" /\ by \notin Range(queue)
  /\ Distinct(queue)
  /\ \A c \in Callers : op[c] = NoJob <=> at[c] = "idle"

\* Who may be in a call next to whom.
SharingInv ==
  /\ op["safe"] \in Landings \union {NoJob}
  /\ op["safe"] = "land" => op["agent"] \in {NoJob, "unlink"}
  /\ at["agent"] = "first" => op["agent"] = "failsafe"

\* A command that steers was let in by a trusted line, and a connect() queues
\* behind whatever was given up.
TrustInv ==
  /\ op["agent"] \in Steering => ~degraded
  /\ by = "timedOut" /\ op["agent"] \in Dialing => "agent" \in Range(queue)

\* The time stamp is no younger than an outage.
StampInv ==
  /\ up => down = 0
  /\ seen => down <= age

LineInv == TypeOK /\ WorkerInv /\ SharingInv /\ TrustInv

AdapterInv == LineInv /\ StampInv /\ ReadyMeansHeard

-----------------------------------------------------------------------------
(***************************************************************************)
(* The queue.                                                              *)
(***************************************************************************)
\* A job joins at the end.
LEMMA Joined ==
  ASSUME NEW q \in Seq(Callers), Distinct(q), NEW c \in Callers, c \notin Range(q)
  PROVE  /\ Append(q, c) \in Seq(Callers) /\ Distinct(Append(q, c))
         /\ Range(Append(q, c)) = Range(q) \union {c}
<1>1. /\ Append(q, c) \in Seq(Callers) /\ DOMAIN Append(q, c) = 1..(Len(q) + 1)
      /\ DOMAIN q = 1..Len(q) /\ Len(q) \in Nat
      /\ \A i \in 1..Len(q) : Append(q, c)[i] = q[i]
      /\ Append(q, c)[Len(q) + 1] = c
  OBVIOUS
<1>2. \A i \in DOMAIN q : q[i] # c
  BY DEF Range
<1>3. Distinct(Append(q, c))
  BY <1>1, <1>2 DEF Distinct
<1>4. Range(Append(q, c)) = Range(q) \union {c}
  BY <1>1 DEF Range
<1> QED
  BY <1>1, <1>3, <1>4

\* The worker takes the first one.
LEMMA Taken ==
  ASSUME NEW q \in Seq(Callers), Distinct(q), q # <<>>
  PROVE  /\ Head(q) \in Range(q) /\ Head(q) \in Callers
         /\ Tail(q) \in Seq(Callers) /\ Distinct(Tail(q))
         /\ Range(Tail(q)) = Range(q) \ {Head(q)}
<1>1. /\ Tail(q) \in Seq(Callers) /\ DOMAIN Tail(q) = 1..(Len(q) - 1)
      /\ DOMAIN q = 1..Len(q) /\ Len(q) \in Nat /\ Len(q) # 0
      /\ \A i \in 1..(Len(q) - 1) : Tail(q)[i] = q[i + 1]
      /\ Head(q) = q[1]
  OBVIOUS
<1>2. Distinct(Tail(q))
  BY <1>1 DEF Distinct
<1>3. Range(Tail(q)) = Range(q) \ {Head(q)}
  <2>1. ASSUME NEW i \in DOMAIN q, q[i] # q[1] PROVE q[i] \in Range(Tail(q))
    <3>1. i - 1 \in DOMAIN Tail(q) /\ Tail(q)[i - 1] = q[i]
      BY <1>1, <2>1
    <3> QED
      BY <3>1 DEF Range
  <2>2. ASSUME NEW i \in DOMAIN Tail(q)
        PROVE  Tail(q)[i] \in Range(q) /\ Tail(q)[i] # q[1]
    BY <1>1 DEF Range, Distinct
  <2> QED
    BY <1>1, <2>1, <2>2 DEF Range
<1>4. Head(q) \in Range(q) /\ Head(q) \in Callers
  <2>1. 1 \in DOMAIN q /\ q[1] \in Callers
    BY <1>1
  <2> QED
    BY <1>1, <2>1 DEF Range
<1> QED
  BY <1>1, <1>2, <1>3, <1>4

\* One is withdrawn.
LEMMA Cut ==
  ASSUME NEW q \in Seq(Callers), Distinct(q), NEW k \in DOMAIN q
  PROVE  LET r == SubSeq(q, 1, k - 1) \o SubSeq(q, k + 1, Len(q)) IN
           /\ r \in Seq(Callers) /\ Distinct(r)
           /\ Range(r) = Range(q) \ {q[k]}
<1> DEFINE a == SubSeq(q, 1, k - 1)
           b == SubSeq(q, k + 1, Len(q))
           r == a \o b
<1>1. /\ DOMAIN q = 1..Len(q) /\ Len(q) \in Nat /\ k \in 1..Len(q)
      /\ a \in Seq(Callers) /\ Len(a) = k - 1 /\ \A i \in 1..(k - 1) : a[i] = q[i]
  OBVIOUS
<1>2. /\ b \in Seq(Callers) /\ Len(b) = Len(q) - k
      /\ \A i \in 1..(Len(q) - k) : b[i] = q[i + k]
  BY <1>1
<1> HIDE DEF a, b
<1> DEFINE At(i) == IF i < k THEN i ELSE i + 1
<1>3. /\ r \in Seq(Callers) /\ DOMAIN r = 1..(Len(q) - 1)
      /\ \A i \in 1..(Len(q) - 1) : At(i) \in DOMAIN q /\ r[i] = q[At(i)]
  <2>1. r \in Seq(Callers) /\ Len(r) = Len(q) - 1 /\ DOMAIN r = 1..Len(r)
    <3>1. a \in Seq(Callers) /\ b \in Seq(Callers)
      BY <1>1, <1>2
    <3>2. r \in Seq(Callers)
      BY <3>1
    <3>3. Len(r) = Len(a) + Len(b) /\ DOMAIN r = 1..Len(r)
      BY <3>1
    <3> QED
      BY <1>1, <1>2, <3>2, <3>3
  <2>2. ASSUME NEW i \in 1..(Len(q) - 1), i < k PROVE r[i] = q[i]
    <3>1. i \in 1..Len(a)
      BY <1>1, <2>2
    <3>2. r[i] = a[i]
      BY <1>1, <1>2, <3>1
    <3> QED
      BY <1>1, <3>1, <3>2
  <2>3. ASSUME NEW i \in 1..(Len(q) - 1), ~(i < k) PROVE r[i] = q[i + 1]
    <3>1. i - Len(a) \in 1..Len(b) /\ i - Len(a) + k = i + 1
      BY <1>1, <1>2, <2>3
    <3>2. r[i] = b[i - Len(a)]
      BY <1>1, <1>2, <3>1
    <3> QED
      BY <1>2, <3>1, <3>2
  <2>4. ASSUME NEW i \in 1..(Len(q) - 1) PROVE At(i) \in DOMAIN q /\ r[i] = q[At(i)]
    <3> HIDE DEF r
    <3>1. CASE i < k
      BY <1>1, <2>2, <3>1
    <3>2. CASE ~(i < k)
      BY <1>1, <2>3, <3>2
    <3> QED
      BY <3>1, <3>2
  <2> HIDE DEF r, At
  <2> QED
    BY <2>1, <2>4
<1> HIDE DEF r
<1>4. Distinct(r)
  <2> SUFFICES ASSUME NEW i \in DOMAIN r, NEW j \in DOMAIN r, r[i] = r[j] PROVE i = j
    BY DEF Distinct
  <2>1. At(i) = At(j)
    BY <1>3 DEF Distinct
  <2> QED
    BY <1>1, <1>3, <2>1
<1>5. Range(r) = Range(q) \ {q[k]}
  <2>1. ASSUME NEW i \in DOMAIN q, q[i] # q[k] PROVE q[i] \in Range(r)
    <3>1. CASE i < k
      <4>1. i \in DOMAIN r /\ At(i) = i
        BY <1>1, <1>3, <3>1
      <4> QED
        BY <1>3, <4>1 DEF Range
    <3>2. CASE i > k
      <4>1. i - 1 \in DOMAIN r /\ At(i - 1) = i
        BY <1>1, <1>3, <3>2
      <4> QED
        BY <1>3, <4>1 DEF Range
    <3> QED
      BY <1>1, <2>1, <3>1, <3>2
  <2>2. ASSUME NEW i \in DOMAIN r PROVE r[i] \in Range(q) /\ r[i] # q[k]
    <3>1. At(i) \in DOMAIN q /\ r[i] = q[At(i)] /\ At(i) # k
      BY <1>1, <1>3
    <3> QED
      BY <3>1 DEF Range, Distinct
  <2> QED
    BY <2>1, <2>2 DEF Range
<1> QED
  BY <1>3, <1>4, <1>5 DEF r, a, b

-----------------------------------------------------------------------------
(***************************************************************************)
(* What happens to a call.                                                 *)
(***************************************************************************)
CallTypes ==
  /\ at \in [Callers -> {"idle", "waiting", "answered", "first"}]
  /\ op \in [Callers -> Ops \union {NoJob}]
  /\ answer \in [Callers -> Answers]
  /\ queue \in Seq(Callers) /\ \A c \in Range(queue) : at[c] = "waiting"
  /\ running \in Ops \union {NoJob}
  /\ by \in Callers \union {"nobody", "timedOut", "cancelled"}

RestTypes ==
  /\ pool \in {"none", "up", "closed"}
  /\ connected \in BOOLEAN /\ degraded \in BOOLEAN /\ airborne \in BOOLEAN
  /\ pollers \subseteq {"this", "old"} /\ dead \in {"no", "this", "old"}
  /\ seen \in BOOLEAN /\ age \in 0..(Fresh + 1)
  /\ up \in BOOLEAN /\ down \in 0..(Fresh + 1)

CallInv == CallTypes /\ WorkerInv

\* The two halves of the type invariant.
LEMMA TypeParts == TypeOK <=> CallTypes /\ RestTypes
<1>1. (\A i \in DOMAIN queue : at[queue[i]] = "waiting")
        <=> \A c \in Range(queue) : at[c] = "waiting"
  BY DEF Range
<1> QED
  BY <1>1 DEF TypeOK, CallTypes, RestTypes

\* A caller hands in a job.
LEMMA Submitted ==
  ASSUME CallInv, NEW c \in Callers, NEW o \in Ops,
         at[c] \in {"idle", "answered"}, Submit(c, o)
  PROVE  CallInv' /\ Range(queue') = Range(queue) \union {c}
<1>1. c \notin Range(queue) /\ by # c /\ queue \in Seq(Callers) /\ Distinct(queue)
  BY DEF CallInv, CallTypes, WorkerInv
<1>2. /\ queue' \in Seq(Callers) /\ Distinct(queue')
      /\ Range(queue') = Range(queue) \union {c}
  BY <1>1, Joined DEF Submit
<1>3. CallTypes'
  BY <1>2 DEF CallInv, CallTypes, Submit, Answers
<1>4. WorkerInv'
  BY <1>1, <1>2, IdleAssumption DEF CallInv, CallTypes, WorkerInv, Submit
<1> QED
  BY <1>2, <1>3, <1>4 DEF CallInv

\* A caller that was answered, or that only waits for telemetry, returns.
LEMMA Returned ==
  ASSUME CallInv, NEW c \in Callers, at[c] \in {"answered", "first"},
         Return(c), UNCHANGED <<queue, running, by>>
  PROVE  CallInv'
<1>1. c \notin Range(queue) /\ by # c
  BY DEF CallInv, CallTypes, WorkerInv
<1>2. CallTypes'
  BY <1>1 DEF CallInv, CallTypes, Return, Answers
<1>3. WorkerInv'
  BY <1>1 DEF CallInv, CallTypes, WorkerInv, Return
<1> QED
  BY <1>2, <1>3 DEF CallInv

\* A caller goes, whatever its job is at.
LEMMA Withdrawn ==
  ASSUME CallInv, NEW c \in Callers, at[c] # "idle",
         NEW how \in {"timedOut", "cancelled"}, Return(c), Withdraw(c, how)
  PROVE  CallInv' /\ Range(queue') = Range(queue) \ {c}
<1>1. /\ queue' \in Seq(Callers) /\ Distinct(queue')
      /\ Range(queue') = Range(queue) \ {c}
  <2>1. CASE c \in Range(queue)
    <3>1. PICK k \in DOMAIN queue :
            /\ queue[k] = c
            /\ queue' = SubSeq(queue, 1, k - 1) \o SubSeq(queue, k + 1, Len(queue))
      BY <2>1 DEF Withdraw
    <3> QED
      BY <3>1, Cut DEF CallInv, CallTypes, WorkerInv
  <2>2. CASE c \notin Range(queue)
    BY <2>2 DEF Withdraw, CallInv, CallTypes, WorkerInv
  <2> QED
    BY <2>1, <2>2
<1>2. CallTypes'
  BY <1>1 DEF CallInv, CallTypes, Return, Withdraw, Answers
<1>3. WorkerInv'
  BY <1>1 DEF CallInv, CallTypes, WorkerInv, Return, Withdraw, Callers
<1> QED
  BY <1>1, <1>2, <1>3 DEF CallInv

\* disconnect() ends: the queue is emptied.
LEMMA Closed ==
  ASSUME CallInv, ShutDown(queue), at["agent"] # "idle", running' = running,
         by' = IF by = "agent" THEN "cancelled" ELSE by
  PROVE  CallInv' /\ queue' = <<>>
<1>1. queue' = <<>> /\ queue' \in Seq(Callers) /\ Range(queue') = {}
      /\ Distinct(queue')
  BY DEF ShutDown, Range, Distinct
<1>2. CallTypes'
  BY <1>1 DEF CallInv, CallTypes, ShutDown, Answers, Callers
<1>3. WorkerInv'
  BY <1>1 DEF CallInv, CallTypes, WorkerInv, ShutDown, Callers
<1> QED
  BY <1>1, <1>2, <1>3 DEF CallInv

-----------------------------------------------------------------------------
(***************************************************************************)
(* The steps.                                                              *)
(***************************************************************************)
Steady == CallInv /\ RestTypes /\ SharingInv /\ TrustInv

LEMMA SteadyIsLineInv == Steady <=> LineInv
BY TypeParts DEF Steady, LineInv, CallInv

\* The worker.
LEMMA WorkerStep ==
  ASSUME Steady, StartJob \/ FinishJob
  PROVE  Steady'
<1> USE DEF Steady
<1>1. CASE StartJob
  <2>1. /\ Head(queue) \in Range(queue) /\ Head(queue) \in Callers
        /\ queue' \in Seq(Callers) /\ Distinct(queue')
        /\ Range(queue') = Range(queue) \ {Head(queue)}
        /\ at[Head(queue)] = "waiting" /\ op[Head(queue)] \in Ops
    BY <1>1, Taken DEF StartJob, CallInv, CallTypes, WorkerInv
  <2>2. CallTypes'
    BY <1>1, <2>1 DEF StartJob, CallInv, CallTypes, coroutines
  <2>3. WorkerInv'
    BY <1>1, <2>1, IdleAssumption
    DEF StartJob, CallInv, CallTypes, WorkerInv, coroutines, Callers
  <2>4. RestTypes' /\ SharingInv' /\ TrustInv'
    BY <1>1, <2>1 DEF StartJob, RestTypes, SharingInv, TrustInv, Callers, coroutines,
                      flags, telemetry
  <2> QED
    BY <2>2, <2>3, <2>4 DEF CallInv
<1>2. CASE FinishJob
  <2>1. CallTypes'
    <3>1. CASE by \in Callers
      <4>1. PICK a \in Answers : answer' = [answer EXCEPT ![by] = a]
        BY <1>2, <3>1 DEF FinishJob
      <4>2. /\ by \notin Range(queue) /\ at' = [at EXCEPT ![by] = "answered"]
            /\ queue' = queue /\ Range(queue') = Range(queue)
            /\ op' = op /\ running' = NoJob /\ by' = "nobody"
        BY <1>2, <3>1 DEF FinishJob, CallInv, WorkerInv
      <4>3. \A c \in Range(queue') : at'[c] = "waiting"
        BY <4>2 DEF CallInv, CallTypes, Range
      <4> QED
        BY <3>1, <4>1, <4>2, <4>3 DEF CallInv, CallTypes
    <3>2. CASE by \notin Callers
      BY <1>2, <3>2 DEF FinishJob, CallInv, CallTypes
    <3> QED
      BY <3>1, <3>2
  <2>2. WorkerInv'
    BY <1>2 DEF FinishJob, CallInv, CallTypes, WorkerInv, Callers
  <2>3. RestTypes' /\ SharingInv' /\ TrustInv'
    BY <1>2 DEF FinishJob, RestTypes, SharingInv, TrustInv, CallInv, CallTypes, Callers,
                flags, telemetry
  <2> QED
    BY <2>1, <2>2, <2>3 DEF CallInv
<1> QED
  BY <1>1, <1>2

\* A call of the adapter begins.
LEMMA CallStep ==
  ASSUME Steady, Call
  PROVE  Steady'
<1> USE DEF Steady
<1>1. CASE Connect
  <2>1. CallInv' /\ Range(queue') = Range(queue) \union {"agent"}
    BY <1>1, Submitted DEF Connect, AgentFree, Callers, Ops, Dialing
  <2>2. RestTypes'
    <3>1. pollers' \subseteq {"this", "old"}
      BY <1>1 DEF Connect, StopPoller, RestTypes
    <3>2. age' \in 0..(Fresh + 1) /\ dead' \in {"no", "this", "old"}
      BY <1>1, FreshAssumption DEF Connect
    <3>3. /\ pool' = "up" /\ seen' = FALSE /\ airborne' = FALSE
          /\ UNCHANGED <<connected, degraded, up, down>>
      BY <1>1 DEF Connect
    <3> QED
      BY <3>1, <3>2, <3>3 DEF RestTypes
  <2>3. op["agent"] = NoJob /\ op["safe"] # "land" /\ at["agent"] = "idle"
    BY <1>1, IdleAssumption DEF Connect, AgentFree, TripLands, CallInv, WorkerInv,
                                Callers, Ops, Landings
  <2>4. SharingInv' /\ TrustInv'
    BY <1>1, <2>1, <2>3 DEF Connect, Submit, SharingInv, TrustInv, CallInv, CallTypes,
                            Callers, Steering, Dialing
  <2> QED
    BY <2>1, <2>2, <2>4
<1>2. CASE EmergencyLand
  <2>1. CallInv' /\ Range(queue') = Range(queue) \union {"safe"}
    BY <1>2, Submitted DEF EmergencyLand, Callers, Ops, Landings
  <2>2. RestTypes' /\ SharingInv' /\ TrustInv'
    BY <1>2, <2>1 DEF EmergencyLand, Submit, RestTypes, SharingInv, TrustInv,
                      CallInv, CallTypes, Callers, Landings, telemetry
  <2> QED
    BY <2>1, <2>2
<1>3. CASE Disconnect
  <2>1. CallInv' /\ Range(queue') = Range(queue) \union {"agent"}
    BY <1>3, Submitted DEF Disconnect, Callers, Ops
  <2>2. RestTypes' /\ SharingInv' /\ TrustInv'
    BY <1>3, <2>1 DEF Disconnect, Submit, RestTypes, SharingInv, TrustInv,
                      CallInv, CallTypes, Callers, Steering, Dialing
  <2> QED
    BY <2>1, <2>2
<1>4. CASE \E o \in Steering : Steer(o)
  <2>1. PICK o \in Steering : Steer(o)
    BY <1>4
  <2>2. CallInv' /\ Range(queue') = Range(queue) \union {"agent"}
    BY <2>1, Submitted DEF Steer, AgentFree, Callers, Ops
  <2>3. RestTypes'
    BY <2>1 DEF Steer, RestTypes, flags, telemetry
  <2>4. op["safe"] # "land" /\ ~degraded
    BY <2>1, IdleAssumption DEF Steer, AgentFree, TripLands, Trusted, CallInv, WorkerInv,
                                Callers, Ops, Landings
  <2>5. /\ at' = [at EXCEPT !["agent"] = "waiting"] /\ op' = [op EXCEPT !["agent"] = o]
        /\ at \in [Callers -> {"idle", "waiting", "answered", "first"}]
        /\ op \in [Callers -> Ops \union {NoJob}]
        /\ UNCHANGED <<by, degraded>>
    BY <2>1 DEF Steer, Submit, CallInv, CallTypes, flags
  <2>6. SharingInv' /\ TrustInv'
    BY <2>2, <2>4, <2>5 DEF SharingInv, TrustInv, Callers, Steering, Dialing
  <2> QED
    BY <2>2, <2>3, <2>6
<1>5. CASE \E c \in Callers : Land(c)
  <2>1. PICK c \in Callers : Land(c)
    BY <1>5
  <2>2. CallInv' /\ Range(queue') = Range(queue) \union {c}
    BY <2>1, Submitted DEF Land, Ops, Landings
  <2>3. op["agent"] = NoJob /\ at["agent"] = "idle"
    BY <2>1 DEF Land, AgentFree, CallInv, WorkerInv, Callers
  <2>4. RestTypes'
    BY <2>1 DEF Land, RestTypes, flags, telemetry
  <2>5. /\ at' = [at EXCEPT ![c] = "waiting"] /\ op' = [op EXCEPT ![c] = "land"]
        /\ at \in [Callers -> {"idle", "waiting", "answered", "first"}]
        /\ op \in [Callers -> Ops \union {NoJob}]
        /\ UNCHANGED <<by, degraded>>
        /\ c = "agent" => op["safe"] # "land"
    BY <2>1, IdleAssumption DEF Land, AgentFree, TripLands, Submit, CallInv, CallTypes,
                                WorkerInv, flags, Callers, Ops, Landings
  <2>6. NoJob \notin Steering \union Landings \union Dialing
    BY IdleAssumption DEF Ops
  <2>7. ASSUME c = "agent" PROVE SharingInv' /\ TrustInv'
    BY <2>3, <2>5, <2>6, <2>7 DEF SharingInv, TrustInv, Callers, Steering, Landings, Dialing
  <2>8. ASSUME c = "safe" PROVE SharingInv' /\ TrustInv'
    BY <2>3, <2>5, <2>6, <2>8 DEF SharingInv, TrustInv, Callers, Steering, Landings, Dialing
  <2> QED
    BY <2>2, <2>4, <2>7, <2>8 DEF Callers
<1> QED
  BY <1>1, <1>2, <1>3, <1>4, <1>5 DEF Call

\* A coroutine goes on from the await it was at.
LEMMA ResumeStep ==
  ASSUME Steady, NEW c \in Callers, Resume(c)
  PROVE  Steady'
<1> USE DEF Steady
<1>1. ASSUME Failed("agent"), at["agent"] = "answered" PROVE Steady'
  <2>1. CallInv'
    BY <1>1, Returned DEF Failed, worker, Callers
  <2>2. RestTypes' /\ SharingInv' /\ TrustInv'
    BY <1>1, IdleAssumption
    DEF Failed, Return, Degrading, RestTypes, SharingInv, TrustInv, CallInv, CallTypes,
        Callers, Ops, Steering, Landings, Dialing, worker, telemetry
  <2> QED
    BY <2>1, <2>2
<1>2. CASE Commanded(c)
  <2>1. CallInv'
    BY <1>2, Returned DEF Commanded, worker
  <2>2. RestTypes'
    BY <1>2 DEF Commanded, Degrading, RestTypes, worker, telemetry
  <2>3. c = "safe" /\ op[c] # "emergency" => op["agent"] \notin Steering
    BY <1>2, IdleAssumption
    DEF Commanded, SharingInv, Ops, Steering, Landings, Callers
  <2>4. SharingInv' /\ TrustInv'
    BY <1>2, <2>3, IdleAssumption
    DEF Commanded, Return, SharingInv, TrustInv, CallInv, CallTypes,
        Callers, Ops, Steering, Landings, Dialing, worker
  <2> QED
    BY <2>1, <2>2, <2>4
<1>3. ASSUME c = "agent", Dialed PROVE Steady'
  <2>1. ASSUME NEW o \in {"redial", "failsafe"}, Submit("agent", o),
               UNCHANGED <<pool, flags, telemetry>>
        PROVE  Steady'
    <3>1. CallInv' /\ Range(queue') = Range(queue) \union {"agent"}
      BY <1>3, <2>1, Submitted DEF Dialed, Callers, Ops, Dialing
    <3>2. RestTypes'
      BY <2>1 DEF RestTypes, flags, telemetry
    <3>3. op["safe"] # "land"
      BY <1>3, IdleAssumption DEF Dialed, SharingInv, Ops, Dialing
    <3>4. SharingInv' /\ TrustInv'
      BY <2>1, <3>1, <3>3
      DEF Submit, SharingInv, TrustInv, CallInv, CallTypes, Callers, Steering, Dialing
    <3> QED
      BY <3>1, <3>2, <3>4
  <2> QED
    BY <1>1, <1>3, <2>1 DEF Dialed
<1>4. ASSUME c = "agent", FailsafeSet PROVE Steady'
  <2>1. CASE answer["agent"] = "ok"
    <3>1. /\ "agent" \notin Range(queue) /\ by # "agent" /\ op["agent"] # NoJob
          /\ Range(queue)' = Range(queue) /\ Distinct(queue)' = Distinct(queue)
      BY <1>4, <2>1 DEF FailsafeSet, CallInv, CallTypes, WorkerInv, worker, Callers,
                        Range, Distinct
    <3>2. CallTypes'
      <4>1. /\ at' = [at EXCEPT !["agent"] = "first"]
            /\ UNCHANGED <<op, answer, queue, running, by>>
        BY <1>4, <2>1 DEF FailsafeSet, worker
      <4>2. \A d \in Range(queue)' : at'[d] = "waiting"
        BY <3>1, <4>1 DEF CallInv, CallTypes
      <4>3. at' \in [Callers -> {"idle", "waiting", "answered", "first"}]
        BY <4>1 DEF CallInv, CallTypes
      <4> QED
        BY <4>1, <4>2, <4>3 DEF CallInv, CallTypes
    <3>3. WorkerInv'
      BY <1>4, <2>1, <3>1 DEF FailsafeSet, CallInv, CallTypes, WorkerInv, worker, Callers
    <3>4. RestTypes'
      BY <1>4, <2>1 DEF FailsafeSet, RestTypes, worker, flags
    <3>5. SharingInv' /\ TrustInv'
      BY <1>4, <2>1, <3>1 DEF FailsafeSet, SharingInv, TrustInv, CallInv, CallTypes,
                              worker, flags, Callers
    <3> QED
      BY <3>2, <3>3, <3>4, <3>5 DEF CallInv
  <2>2. CASE answer["agent"] # "ok"
    BY <1>1, <1>4, <2>2 DEF FailsafeSet
  <2> QED
    BY <2>1, <2>2
<1>5. ASSUME c = "agent", FirstReading PROVE Steady'
  <2>1. CallInv'
    BY <1>5, Returned DEF FirstReading, worker
  <2>2. RestTypes' /\ SharingInv' /\ TrustInv'
    BY <1>5, IdleAssumption
    DEF FirstReading, Return, RestTypes, SharingInv, TrustInv, CallInv, CallTypes, Callers,
        Ops, Steering, Landings, Dialing, worker, telemetry
  <2> QED
    BY <2>1, <2>2
<1>6. ASSUME c = "agent", Unlinked PROVE Steady'
  <2>1. CallInv' /\ queue' = <<>>
    BY <1>6, Closed DEF Unlinked, CallInv, WorkerInv, CallTypes
  <2>2. RestTypes' /\ SharingInv' /\ TrustInv'
    BY <1>6, <2>1, IdleAssumption
    DEF Unlinked, ShutDown, RestTypes, SharingInv, TrustInv, CallInv, CallTypes, Callers,
        Ops, Steering, Landings, Dialing, flags, telemetry
  <2> QED
    BY <2>1, <2>2
<1> QED
  BY <1>2, <1>3, <1>4, <1>5, <1>6 DEF Resume

\* A deadline or a cancellation.
LEMMA LeaveStep ==
  ASSUME Steady, NEW c \in Callers, Deadline(c) \/ Cancel(c)
  PROVE  Steady'
<1> USE DEF Steady
<1>1. at[c] # "idle" /\ op[c] # NoJob /\ op[c] \in Ops
  BY DEF Deadline, Cancel, CallInv, CallTypes, WorkerInv
<1>2. PICK how \in {"timedOut", "cancelled"} :
        /\ Leave(c, how)
        /\ how = "timedOut" => op[c] \notin {"emergency", "unlink"} /\ degraded' = TRUE
        /\ how = "cancelled" => UNCHANGED degraded
        /\ UNCHANGED <<connected, airborne, telemetry>>
  BY DEF Deadline, Expire, Cancel, flags
<1>3. CASE op[c] = "unlink"
  <2>1. c = "agent"
    BY <1>1, <1>3 DEF SharingInv, Landings, Callers
  <2>2. CallInv' /\ queue' = <<>>
    BY <1>1, <1>2, <1>3, <2>1, Closed DEF Leave
  <2>3. RestTypes' /\ SharingInv' /\ TrustInv'
    BY <1>2, <1>3, <2>1, <2>2, IdleAssumption
    DEF Leave, ShutDown, RestTypes, SharingInv, TrustInv, CallInv, CallTypes, Callers,
        Ops, Steering, Landings, Dialing, telemetry
  <2> QED
    BY <2>2, <2>3
<1>4. CASE op[c] # "unlink"
  <2>1. Return(c) /\ Withdraw(c, how) /\ UNCHANGED pool
    BY <1>2, <1>4 DEF Leave
  <2>2. CallInv' /\ Range(queue') = Range(queue) \ {c}
    BY <1>1, <2>1, Withdrawn
  <2>3. RestTypes'
    BY <1>2, <2>1 DEF RestTypes, telemetry
  <2>4. /\ op'[c] = NoJob /\ at'[c] = "idle" /\ NoJob \notin Ops
        /\ \A o \in Callers \ {c} : op'[o] = op[o] /\ at'[o] = at[o]
        /\ by' = IF by = c THEN how ELSE by
    BY <2>1, IdleAssumption DEF Return, Withdraw, CallInv, CallTypes
  <2>5. SharingInv'
    BY <2>4 DEF SharingInv, Callers, Ops, Steering, Landings, Dialing
  <2>6. ASSUME c = "agent" PROVE TrustInv'
    BY <2>4, <2>6 DEF TrustInv, Ops, Steering, Dialing
  <2>7. ASSUME c = "safe" PROVE TrustInv'
    <3>1. op'["agent"] = op["agent"]
          /\ ("agent" \in Range(queue') <=> "agent" \in Range(queue))
      BY <2>2, <2>4, <2>7 DEF Callers
    <3>2. how = "timedOut" => op["agent"] \in {NoJob, "unlink"}
      BY <1>1, <1>2, <2>4, <2>7 DEF SharingInv, Landings
    <3> QED
      BY <1>2, <2>2, <2>4, <2>7, <3>1, <3>2 DEF TrustInv, Ops, Steering, Dialing
  <2> QED
    BY <2>2, <2>3, <2>5, <2>6, <2>7 DEF Callers
<1> QED
  BY <1>3, <1>4

\* The poller, the link and the clock leave the calls alone.
LEMMA TelemetryStep ==
  ASSUME Steady,
         LinkChanges \/ Tick \/ \E p \in {"this", "old"} : PollReads(p) \/ PollDies(p)
  PROVE  Steady'
<1> USE DEF Steady
<1>1. UNCHANGED <<coroutines, worker, flags>>
  BY DEF LinkChanges, Tick, PollReads, PollDies
<1>2. CallInv' /\ SharingInv' /\ TrustInv'
  BY <1>1 DEF CallInv, CallTypes, WorkerInv, SharingInv, TrustInv, coroutines, worker,
              flags, Range, Distinct
<1>3. RestTypes'
  <2>1. CASE LinkChanges
    BY <1>1, <2>1, FreshAssumption DEF RestTypes, LinkChanges, worker, flags
  <2>2. CASE Tick
    <3>1. \A n \in 0..(Fresh + 1) : Older(n) \in 0..(Fresh + 1)
      BY FreshAssumption DEF Older
    <3> QED
      BY <1>1, <2>2, <3>1, FreshAssumption DEF RestTypes, Tick, worker, flags
  <2>3. ASSUME NEW p \in {"this", "old"}, PollReads(p) PROVE RestTypes'
    BY <1>1, <2>3, FreshAssumption DEF RestTypes, PollReads, worker, flags
  <2>4. ASSUME NEW p \in {"this", "old"}, PollDies(p) PROVE RestTypes'
    BY <1>1, <2>4 DEF RestTypes, PollDies, worker, flags
  <2> QED
    BY <2>1, <2>2, <2>3, <2>4
<1> QED
  BY <1>2, <1>3

\* Every step.
LEMMA SteadyStep ==
  ASSUME Steady, [Next]_vars
  PROVE  Steady'
<1>1. CASE UNCHANGED vars
  BY <1>1 DEF vars, coroutines, worker, flags, telemetry, Steady, CallInv, CallTypes,
              WorkerInv, RestTypes, SharingInv, TrustInv, Range, Distinct
<1>2. CASE Next
  BY <1>2, WorkerStep, CallStep, ResumeStep, LeaveStep, TelemetryStep DEF Next, Thread
<1> QED
  BY <1>1, <1>2

\* The time stamp of the telemetry is set by a getter that answered, so only
\* while the link is up; the clock moves it along with the outage.
LEMMA StampStep ==
  ASSUME TypeOK, StampInv, [Next]_vars
  PROVE  StampInv'
<1> USE DEF StampInv
<1>1. CASE UNCHANGED <<seen, age, up, down>>
  BY <1>1
<1>2. CASE Connect
  BY <1>2 DEF Connect
<1>3. ASSUME NEW p \in {"this", "old"}, PollReads(p) PROVE StampInv'
  BY <1>3 DEF PollReads
<1>4. CASE LinkChanges
  BY <1>4 DEF LinkChanges, TypeOK
<1>5. CASE Tick
  <2>1. Older(down) <= Older(age) \/ ~(down <= age)
    BY FreshAssumption DEF TypeOK, Older
  <2>2. 0 <= Older(age)
    BY FreshAssumption DEF TypeOK, Older
  <2> QED
    BY <1>5, <2>1, <2>2 DEF Tick
<1>6. ASSUME NEW c \in Callers, Resume(c) PROVE UNCHANGED <<seen, age, up, down>>
  BY <1>6 DEF Resume, Commanded, Dialed, FailsafeSet, FirstReading, Unlinked, Failed, telemetry
<1>7. ASSUME NEW c \in Callers, Deadline(c) \/ Cancel(c)
      PROVE  UNCHANGED <<seen, age, up, down>>
  BY <1>7 DEF Deadline, Expire, Cancel, telemetry
<1>8. ASSUME Call, ~Connect PROVE UNCHANGED <<seen, age, up, down>>
  BY <1>8 DEF Call, EmergencyLand, Disconnect, Steer, Land, telemetry
<1>9. ASSUME Thread, \A p \in {"this", "old"} : ~PollReads(p)
      PROVE  UNCHANGED <<seen, age, up, down>>
  BY <1>9 DEF Thread, StartJob, FinishJob, PollDies, telemetry
<1>10. CASE UNCHANGED vars
  BY <1>10 DEF vars, telemetry
<1> QED
  BY <1>1, <1>2, <1>3, <1>4, <1>5, <1>6, <1>7, <1>8, <1>9, <1>10 DEF Next

\* Only a first reading makes the adapter usable, and only a connect(), of an
\* adapter that is not, forgets the readings.
LEMMA HeardStep ==
  ASSUME ReadyMeansHeard, [Next]_vars
  PROVE  ReadyMeansHeard'
<1> USE DEF ReadyMeansHeard, Trusted
<1>1. CASE Connect
  BY <1>1 DEF Connect
<1>2. CASE FirstReading
  BY <1>2 DEF FirstReading, telemetry
<1>3. CASE /\ connected' => connected
           /\ degraded => degraded'
           /\ seen => seen'
  BY <1>3
<1>4. ASSUME NEW c \in Callers, Resume(c), ~FirstReading
      PROVE  (connected' => connected) /\ (degraded => degraded') /\ (seen => seen')
  <2>1. CASE Commanded(c)
    BY <2>1 DEF Commanded, telemetry
  <2>2. ASSUME Failed("agent")
        PROVE  (connected' => connected) /\ (degraded => degraded') /\ (seen => seen')
    BY <2>2 DEF Failed, telemetry
  <2>3. CASE Dialed
    BY <2>2, <2>3 DEF Dialed, flags, telemetry
  <2>4. CASE FailsafeSet
    BY <2>2, <2>4 DEF FailsafeSet, flags
  <2>5. CASE Unlinked
    BY <2>5 DEF Unlinked, flags, telemetry
  <2> QED
    BY <1>4, <2>1, <2>3, <2>4, <2>5 DEF Resume
<1>5. ASSUME NEW c \in Callers, Deadline(c) \/ Cancel(c)
      PROVE  (connected' => connected) /\ (degraded => degraded') /\ (seen => seen')
  BY <1>5 DEF Deadline, Expire, Cancel, telemetry, flags
<1>6. ASSUME Call, ~Connect
      PROVE  (connected' => connected) /\ (degraded => degraded') /\ (seen => seen')
  <2>1. CASE EmergencyLand
    BY <2>1 DEF EmergencyLand, telemetry
  <2>2. CASE Disconnect
    BY <2>2 DEF Disconnect
  <2>3. CASE (\E o \in Steering : Steer(o)) \/ \E c \in Callers : Land(c)
    BY <2>3 DEF Steer, Land, telemetry, flags
  <2> QED
    BY <1>6, <2>1, <2>2, <2>3 DEF Call
<1>7. ASSUME Thread \/ LinkChanges \/ Tick \/ UNCHANGED vars
      PROVE  (connected' => connected) /\ (degraded => degraded') /\ (seen => seen')
  BY <1>7 DEF Thread, StartJob, FinishJob, PollReads, PollDies, LinkChanges, Tick,
              vars, telemetry, flags
<1> QED
  BY <1>1, <1>2, <1>3, <1>4, <1>5, <1>6, <1>7 DEF Next

LEMMA AdapterInitial == Init => AdapterInv
<1> SUFFICES ASSUME Init PROVE AdapterInv
  OBVIOUS
<1>1. queue \in Seq(Callers) /\ DOMAIN queue = {} /\ Range(queue) = {}
  BY DEF Init, Range
<1>2. TypeOK
  <2>1. age \in 0..(Fresh + 1) /\ down \in 0..(Fresh + 1)
    BY FreshAssumption DEF Init
  <2>2. /\ at \in [Callers -> {"idle", "waiting", "answered", "first"}]
        /\ op \in [Callers -> Ops \union {NoJob}]
        /\ answer \in [Callers -> Answers]
    BY DEF Init, Answers
  <2>3. \A i \in DOMAIN queue : at[queue[i]] = "waiting"
    BY <1>1
  <2>4. /\ pool \in {"none", "up", "closed"}
        /\ running \in Ops \union {NoJob}
        /\ by \in Callers \union {"nobody", "timedOut", "cancelled"}
        /\ connected \in BOOLEAN /\ degraded \in BOOLEAN /\ airborne \in BOOLEAN
        /\ pollers \subseteq {"this", "old"} /\ dead \in {"no", "this", "old"}
        /\ seen \in BOOLEAN /\ up \in BOOLEAN
    BY DEF Init
  <2> QED
    BY <1>1, <2>1, <2>2, <2>3, <2>4 DEF TypeOK
<1>3. WorkerInv
  BY <1>1, IdleAssumption DEF Init, WorkerInv, Distinct, Callers
<1>4. SharingInv /\ TrustInv
  BY IdleAssumption
  DEF Init, SharingInv, TrustInv, Callers, Ops, Steering, Landings, Dialing
<1>5. StampInv /\ ReadyMeansHeard
  BY DEF Init, StampInv, ReadyMeansHeard, Trusted
<1> QED
  BY <1>2, <1>3, <1>4, <1>5 DEF AdapterInv, LineInv

LEMMA AdapterInductive == AdapterInv /\ [Next]_vars => AdapterInv'
<1> SUFFICES ASSUME AdapterInv, [Next]_vars PROVE AdapterInv'
  OBVIOUS
<1>1. LineInv'
  <2>1. Steady'
    BY SteadyIsLineInv, SteadyStep DEF AdapterInv
  <2>2. CallTypes' /\ RestTypes' <=> TypeOK'
    <3>1. (\A i \in DOMAIN queue' : at'[queue'[i]] = "waiting")
            <=> \A c \in Range(queue') : at'[c] = "waiting"
      BY DEF Range
    <3> QED
      BY <3>1 DEF TypeOK, CallTypes, RestTypes
  <2> QED
    BY <2>1, <2>2 DEF Steady, CallInv, LineInv
<1>2. StampInv' /\ ReadyMeansHeard'
  BY StampStep, HeardStep DEF AdapterInv, LineInv
<1> QED
  BY <1>1, <1>2 DEF AdapterInv

-----------------------------------------------------------------------------
(***************************************************************************)
(* The refinement.                                                         *)
(***************************************************************************)
\* A job is started: trusted, if it steers.
LEMMA StartRefines == ASSUME LineInv, StartJob PROVE Line!Next
<1>1. /\ Head(queue) \in Callers /\ Head(queue) \in Range(queue)
      /\ op[Head(queue)] \in Ops
  BY Taken, SteadyIsLineInv
  DEF StartJob, Steady, CallInv, CallTypes, WorkerInv
<1>2. op[Head(queue)] \in Steering => ~degraded
  BY <1>1, IdleAssumption
  DEF LineInv, SharingInv, TrustInv, Callers, Ops, Steering, Landings
<1>3. by' # "timedOut" /\ by # "timedOut" /\ running = NoJob
  BY <1>1 DEF StartJob, LineInv, WorkerInv, Callers
<1>4. Line!Begin(op[Head(queue)])
  BY <1>2, <1>3 DEF StartJob, Line!Begin, flags
<1> QED
  BY <1>1, <1>4 DEF Line!Next

\* connect() is over: nothing that was given up is left.
LEMMA TrustRefines ==
  ASSUME LineInv, FirstReading
  PROVE  Line!Next \/ UNCHANGED Line!vars
<1>1. op["agent"] \in Dialing /\ at["agent"] # "waiting"
  BY DEF FirstReading, LineInv, SharingInv, Dialing
<1>2. "agent" \notin Range(queue)
  BY <1>1, SteadyIsLineInv DEF Steady, CallInv, CallTypes
<1>3. by # "timedOut"
  BY <1>1, <1>2 DEF LineInv, TrustInv
<1>4. CASE seen
  BY <1>3, <1>4 DEF FirstReading, worker, Line!Next, Line!Trust
<1>5. CASE ~seen
  BY <1>5 DEF FirstReading, worker, Line!vars
<1> QED
  BY <1>4, <1>5

\* A caller goes.
LEMMA LeaveRefines ==
  ASSUME LineInv, NEW c \in Callers, Deadline(c) \/ Cancel(c)
  PROVE  Line!Next \/ UNCHANGED Line!vars
<1>1. at[c] # "idle" /\ running' = running
  BY DEF Deadline, Expire, Cancel, Leave, Withdraw
<1>2. PICK how \in {"timedOut", "cancelled"} :
        /\ by' = IF by = c THEN how ELSE by
        /\ how = "timedOut" => degraded' = TRUE
        /\ how = "cancelled" => degraded' = degraded
  BY DEF Deadline, Expire, Cancel, Leave, Withdraw, flags
<1>3. by = c => running # NoJob
  BY DEF LineInv, WorkerInv, Callers
<1>4. CASE how = "timedOut"
  BY <1>1, <1>2, <1>3, <1>4 DEF Line!Next, Line!GiveUp
<1>5. CASE how = "cancelled"
  BY <1>1, <1>2, <1>5 DEF Line!vars, Callers
<1> QED
  BY <1>4, <1>5

\* A coroutine that goes on may have learned of a timeout of the SDK's own.
LEMMA ResumeRefines ==
  ASSUME LineInv, NEW c \in Callers, Resume(c)
  PROVE  Line!Next \/ UNCHANGED Line!vars
<1>1. CASE FirstReading
  BY <1>1, TrustRefines
<1>2. ASSUME UNCHANGED <<running, by>>, degraded' \in {degraded, TRUE}
      PROVE  Line!Next \/ UNCHANGED Line!vars
  BY <1>2, SteadyIsLineInv DEF Line!Next, Line!GiveUp, Line!vars, Steady, RestTypes
<1>3. ASSUME ~FirstReading
      PROVE  UNCHANGED <<running, by>> /\ degraded' \in {degraded, TRUE}
  <2>1. degraded \in BOOLEAN
    BY SteadyIsLineInv DEF Steady, RestTypes
  <2>2. ASSUME Failed("agent")
        PROVE  UNCHANGED <<running, by>> /\ degraded' \in {degraded, TRUE}
    BY <2>1, <2>2 DEF Failed, Degrading, worker
  <2>3. CASE Commanded(c)
    BY <2>1, <2>3 DEF Commanded, Degrading, worker
  <2>4. CASE Dialed
    BY <2>2, <2>4 DEF Dialed, Submit, flags
  <2>5. CASE FailsafeSet
    BY <2>2, <2>5 DEF FailsafeSet, worker, flags
  <2>6. CASE Unlinked
    BY <2>6 DEF Unlinked, flags
  <2> QED
    BY <1>3, <2>3, <2>4, <2>5, <2>6 DEF Resume
<1> QED
  BY <1>1, <1>2, <1>3

LEMMA LineRefines ==
  AdapterInv /\ [Next]_vars => [Line!Next]_(Line!vars)
<1> SUFFICES ASSUME LineInv, [Next]_vars
             PROVE  Line!Next \/ UNCHANGED Line!vars
  BY DEF AdapterInv
<1>1. CASE StartJob
  BY <1>1, StartRefines
<1>2. CASE FinishJob
  BY <1>2 DEF FinishJob, Line!Next, Line!End, flags
<1>3. ASSUME NEW c \in Callers, Resume(c) PROVE Line!Next \/ UNCHANGED Line!vars
  BY <1>3, ResumeRefines
<1>4. ASSUME NEW c \in Callers, Deadline(c) \/ Cancel(c)
      PROVE  Line!Next \/ UNCHANGED Line!vars
  BY <1>4, LeaveRefines
<1>5. CASE Call
  BY <1>5 DEF Call, Connect, EmergencyLand, Disconnect, Steer, Land, Submit, flags, Line!vars
<1>6. CASE \E p \in {"this", "old"} : PollReads(p) \/ PollDies(p)
  BY <1>6 DEF PollReads, PollDies, worker, flags, Line!vars
<1>7. CASE LinkChanges \/ Tick \/ UNCHANGED vars
  BY <1>7 DEF LinkChanges, Tick, vars, worker, flags, Line!vars
<1> QED
  BY <1>1, <1>2, <1>3, <1>4, <1>5, <1>6, <1>7 DEF Next, Thread

LEMMA LineRefinesInit == Init => Line!Init
BY DEF Init, Line!Init

-----------------------------------------------------------------------------
(***************************************************************************)
(* The theorems.                                                           *)
(***************************************************************************)
\* What is known of every reachable state of the adapter, together.
THEOREM AdapterInvariant == Spec => []AdapterInv
BY AdapterInitial, AdapterInductive, PTL DEF Spec

\* Type correctness: among others, whoever has a job in the queue waits for it.
THEOREM AdapterTypeCorrect == Spec => []TypeOK
<1>1. AdapterInv => TypeOK
  BY DEF AdapterInv, LineInv
<1> QED
  BY <1>1, AdapterInvariant, PTL

\* No way through a failed, timed-out or cancelled connect() gives an adapter
\* that accepts commands without telemetry of the link it commands over.
THEOREM AdapterReadyMeansHeard == Spec => []ReadyMeansHeard
<1>1. AdapterInv => ReadyMeansHeard
  BY DEF AdapterInv
<1> QED
  BY <1>1, AdapterInvariant, PTL

\* A takeoff or a move is only sent when the link was up within fresh_s.
THEOREM AdapterSteersOnLiveLink == Spec => SteersOnLiveLink
<1>1. ASSUME AdapterInv, [Next]_vars, NEW o \in {"takeoff", "fly"},
             at["agent"] = "idle", at'["agent"] = "waiting", op'["agent"] = o
      PROVE  down <= Fresh
  <2>1. LineInv /\ CallInv /\ StampInv /\ TypeOK
    BY <1>1, SteadyIsLineInv DEF AdapterInv, LineInv, Steady
  <2>2. ~UNCHANGED at
    BY <1>1
  <2>3. \A c \in Callers : Deadline(c) \/ Cancel(c) => at'["agent"] # "waiting"
    BY <1>1, <2>1
    DEF Deadline, Expire, Cancel, Leave, ShutDown, Return, TypeOK, Callers
  <2>4. \A c \in Callers : Resume(c) => at'["agent"] # "waiting"
    BY <1>1, <2>1
    DEF Resume, Commanded, Dialed, FailsafeSet, FirstReading, Unlinked, Return, TypeOK,
        Callers
  <2>5. Thread \/ LinkChanges \/ Tick => at'["agent"] # "waiting"
    BY <1>1, <2>1
    DEF Thread, StartJob, FinishJob, PollReads, PollDies, LinkChanges, Tick, coroutines,
        TypeOK, Callers
  <2>6. Call
    BY <1>1, <2>2, <2>3, <2>4, <2>5 DEF Next, vars, coroutines
  <2>7. Steer("takeoff") \/ Steer("fly")
    <3>1. ASSUME NEW c \in Callers, NEW s \in Ops, Submit(c, s)
          PROVE  c = "agent" /\ s = o
      BY <1>1, <2>1, <3>1 DEF Submit, TypeOK, Callers
    <3>2. ~Connect /\ ~EmergencyLand /\ ~Disconnect /\ \A c \in Callers : ~Land(c)
      BY <3>1 DEF Connect, EmergencyLand, Disconnect, Land, Callers, Ops, Dialing, Landings
    <3>3. PICK s \in Steering : Steer(s)
      BY <2>6, <3>2 DEF Call
    <3>4. s = o
      BY <3>1, <3>3 DEF Steer, Callers, Ops
    <3> QED
      BY <3>3, <3>4
  <2>8. seen /\ age <= Fresh
    BY <2>7 DEF Steer, AliveFresh
  <2> QED
    BY <2>1, <2>8, FreshAssumption DEF StampInv, TypeOK
<1>2. AdapterInv /\ [Next]_vars =>
        [\A o \in {"takeoff", "fly"} :
           at["agent"] = "idle" /\ at'["agent"] = "waiting" /\ op'["agent"] = o
             => down <= Fresh]_vars
  BY <1>1
<1> QED
  BY <1>2, AdapterInvariant, PTL DEF Spec, SteersOnLiveLink

\* The adapter implements the command line: one SDK call at a time, no command
\* that steers between a timeout and a successful connect(), and no successful
\* connect() before the call that was given up is over.
THEOREM AdapterImplementsCommandLine == Spec => ImplementsCommandLine
BY AdapterInvariant, LineRefines, LineRefinesInit, PTL
   DEF Spec, ImplementsCommandLine, Line!Spec
=============================================================================
