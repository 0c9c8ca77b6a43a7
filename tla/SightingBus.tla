----------------------------- MODULE SightingBus -----------------------------
(***************************************************************************)
(* finals.sightings.SightingBus: the bounded handoff from the threads that *)
(* detect to the coroutines that read.  Publishing appends under a lock    *)
(* and gives the sighting its sequence number; the oldest falls off a full *)
(* deque.  A reader keeps the number it has read up to (drain_after); each *)
(* agent reads its own drone's sightings, the orchestrator all of them.    *)
(***************************************************************************)
EXTENDS Naturals, Sequences

CONSTANTS
  Maxlen,     \* maxlen of the deque
  Readers,    \* the orchestrator and the agents
  Wanted      \* Wanted[r]: the sightings that pass r's filter

ASSUME BusAssumption == Maxlen \in Nat \ {0}

VARIABLES
  dq,         \* _dq: the pairs of a sequence number and a sighting
  nextSeq,    \* _next_seq
  cursor,     \* cursor[r]: what r passes to its next drain_after()
  got,        \* got[r]: the entries r was given, in that order
  missed      \* missed[r]: those evicted before r had read them

busVars == <<dq, nextSeq, cursor, got, missed>>

BusInit ==
  /\ dq = <<>> /\ nextSeq = 1
  /\ cursor = [r \in Readers |-> 0]
  /\ got = [r \in Readers |-> <<>>] /\ missed = [r \in Readers |-> {}]

Passes(r, e) == e[1] > cursor[r] /\ e[2] \in Wanted[r]

Publish(s) ==
  /\ dq' = Append(IF Len(dq) = Maxlen THEN Tail(dq) ELSE dq, <<nextSeq, s>>)
  /\ nextSeq' = nextSeq + 1
  /\ missed' = [r \in Readers |->
                  IF Len(dq) = Maxlen /\ Passes(r, Head(dq))
                  THEN missed[r] \union {Head(dq)} ELSE missed[r]]
  /\ UNCHANGED <<cursor, got>>

\* The entries that pass r's filter, in their order: first[k], among the
\* first k.
News(r) ==
  LET first[k \in 0..Len(dq)] ==
        IF k = 0 THEN <<>>
        ELSE IF Passes(r, dq[k]) THEN Append(first[k - 1], dq[k])
        ELSE first[k - 1]
  IN first[Len(dq)]

\* Mutant of Newest: the next number to be given, not the newest given.
NewestOffByOne(r) == nextSeq

Newest(r) == IF dq = <<>> THEN cursor[r] ELSE dq[Len(dq)][1]

DrainAfter(r) ==
  /\ got' = [got EXCEPT ![r] = @ \o News(r)]
  /\ cursor' = [cursor EXCEPT ![r] = Newest(r)]
  /\ UNCHANGED <<dq, nextSeq, missed>>

\* The bus is memory only.
LoseBus ==
  /\ dq' = <<>> /\ nextSeq' = 1
  /\ cursor' = [r \in Readers |-> 0]
  /\ got' = [r \in Readers |-> <<>>] /\ missed' = [r \in Readers |-> {}]
==============================================================================
