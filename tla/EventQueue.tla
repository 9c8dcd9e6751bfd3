----------------------------- MODULE EventQueue -----------------------------
(***************************************************************************)
(* What the event queue of a state machine in src/src/sm.c promises to its *)
(* callers: the events fired are handled one at a time and in order, and   *)
(* one is dropped only when the queue is full.                             *)
(*                                                                         *)
(* This is the abstract specification; module Sm implements it.            *)
(***************************************************************************)
EXTENDS Naturals, Sequences

CONSTANTS
  Event,    \* the events that may be fired
  NoEvent,  \* no event is being handled
  QueueLen  \* number of slots, the one of the event being handled included

VARIABLES
  pending,  \* events fired and not yet handled, oldest first
  current   \* the event being handled

vars == <<pending, current>>

Taken == IF current = NoEvent THEN Len(pending) ELSE Len(pending) + 1

Init == pending = <<>> /\ current = NoEvent

Fire(e) ==
  /\ pending' = IF Taken < QueueLen THEN Append(pending, e) ELSE pending
  /\ UNCHANGED current

Take ==
  /\ current = NoEvent
  /\ pending # <<>>
  /\ current' = Head(pending)
  /\ pending' = Tail(pending)

Done ==
  /\ current # NoEvent
  /\ current' = NoEvent
  /\ UNCHANGED pending

Next == (\E e \in Event : Fire(e)) \/ Take \/ Done

Spec == Init /\ [][Next]_vars

\* No event waits for ever.
FairSpec == Spec /\ WF_vars(Take) /\ WF_vars(Done)

=============================================================================
