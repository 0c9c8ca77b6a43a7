--------------------------- MODULE ConvoyOwnership ---------------------------
(***************************************************************************)
(* What the convoy coordination promises the swarm, without locks, clocks, *)
(* flags or heartbeats: a convoy belongs to at most one drone, a drone     *)
(* tracks at most one convoy, a convoy that is held only changes hands by  *)
(* an offer, to the drone it was offered to, and a serviced convoy is done *)
(* for good.                                                               *)
(***************************************************************************)
CONSTANTS Drones, Convoys, Nobody, Done

VARIABLES
  holder,     \* holder[c]: a drone, Nobody or Done
  offer       \* offer[c]: the drone a held convoy is offered to, or Nobody

Init ==
  /\ holder = [c \in Convoys |-> Nobody]
  /\ offer = [c \in Convoys |-> Nobody]

Free(d) == \A c \in Convoys : holder[c] # d

\* A drone that tracks nothing takes a convoy that nobody tracks ...
Take(d, c) ==
  /\ holder[c] = Nobody /\ Free(d)
  /\ holder' = [holder EXCEPT ![c] = d]
  /\ UNCHANGED offer

\* ... or one that another drone is handing over to it.
HandOver(d, c) ==
  /\ offer[c] = d /\ Free(d)
  /\ holder' = [holder EXCEPT ![c] = d]
  /\ offer' = [offer EXCEPT ![c] = Nobody]

\* Held convoys, any number at once, are offered to drones that hold nothing
Offer ==
  /\ offer' \in [Convoys -> Drones \union {Nobody}]
  /\ \A c \in Convoys : offer'[c] # offer[c] =>
       holder[c] \in Drones /\ offer'[c] \in Drones /\ Free(offer'[c])
  /\ UNCHANGED holder

\* ... or the offer is withdrawn.
Withdraw(c) == offer' = [offer EXCEPT ![c] = Nobody] /\ UNCHANGED holder

\* Given up, or lost because the radio went quiet, any number at once.
Lose ==
  /\ holder' \in [Convoys -> Drones \union {Nobody, Done}]
  /\ offer' \in [Convoys -> Drones \union {Nobody}]
  /\ \A c \in Convoys :
       \/ holder'[c] = holder[c] /\ offer'[c] = offer[c]
       \/ holder[c] \in Drones /\ holder'[c] = Nobody /\ offer'[c] = Nobody

Service(c) ==
  /\ holder[c] # Done
  /\ holder' = [holder EXCEPT ![c] = Done]
  /\ offer' = [offer EXCEPT ![c] = Nobody]

Next ==
  \/ \E d \in Drones, c \in Convoys : Take(d, c) \/ HandOver(d, c)
  \/ Offer \/ Lose
  \/ \E c \in Convoys : Withdraw(c) \/ Service(c)

Spec == Init /\ [][Next]_<<holder, offer>>
=============================================================================
