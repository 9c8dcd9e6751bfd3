----------------------------- MODULE Lifecycle ------------------------------
(***************************************************************************)
(* What the two state machines promise of the node, without events, queues *)
(* and tasks.  After a reset a sink comes to listen for messages.  It      *)
(* listens until an upload is complete, and goes on to the reboot that     *)
(* follows from it.  Nothing but that reboot and the button starts it      *)
(* over.                                                                   *)
(***************************************************************************)
EXTENDS Naturals

VARIABLES
  sink,    \* the role
  phase,   \* "starting", "listening", "committed"
  presses  \* presses of the button

vars == <<sink, phase, presses>>

Init ==
  /\ sink \in BOOLEAN
  /\ phase = "starting"
  /\ presses = 0

Listen ==
  /\ phase = "starting"
  /\ sink
  /\ phase' = "listening"
  /\ UNCHANGED <<sink, presses>>

\* An upload is complete.
Commit ==
  /\ phase = "listening"
  /\ phase' = "committed"
  /\ UNCHANGED <<sink, presses>>

Reboot ==
  /\ phase = "committed"
  /\ phase' = "starting"
  /\ UNCHANGED <<sink, presses>>

\* The role is changed, if the new one can be stored.
Press ==
  /\ presses' = presses + 1
  /\ phase' = "starting"
  /\ sink' \in BOOLEAN

Next == Listen \/ Commit \/ Reboot \/ Press

Spec == Init /\ [][Next]_vars

=============================================================================
