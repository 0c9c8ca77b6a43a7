----------------------------- MODULE CommandLine -----------------------------
(***************************************************************************)
(* What an adapter promises about one drone, and nothing about how: the    *)
(* drone executes one command at a time; once a command was given up with  *)
(* its outcome unknown, nothing that steers the drone is started until the *)
(* line is trusted again; and it is only trusted again when whatever was   *)
(* given up is over.  PyhulaxAdapter.tla is shown to implement this.       *)
(***************************************************************************)
CONSTANTS Commands, Steering, Idle

VARIABLES
  busy,      \* the command the drone executes, or Idle
  givenUp,   \* that command's caller has gone, with a timeout
  trusted    \* FALSE from a timeout until the link is made again

vars == <<busy, givenUp, trusted>>

Init == busy = Idle /\ givenUp = FALSE /\ trusted = TRUE

Begin(c) ==
  /\ busy = Idle
  /\ c \in Steering => trusted
  /\ busy' = c
  /\ UNCHANGED <<givenUp, trusted>>

\* The drone is done with the command, well or badly.  Its caller, if it is
\* still there, may learn from the SDK that the command timed out.
End ==
  /\ busy # Idle
  /\ busy' = Idle /\ givenUp' = FALSE
  /\ UNCHANGED trusted

\* A caller gives up: on the command being executed, or on one that waits.
GiveUp ==
  /\ \/ busy # Idle /\ givenUp' = TRUE
     \/ UNCHANGED givenUp
  /\ trusted' = FALSE
  /\ UNCHANGED busy

Trust ==
  /\ ~givenUp
  /\ trusted' = TRUE
  /\ UNCHANGED <<busy, givenUp>>

Next == End \/ GiveUp \/ Trust \/ \E c \in Commands : Begin(c)

Spec == Init /\ [][Next]_vars
==============================================================================
