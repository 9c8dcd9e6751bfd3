------------------------------- MODULE MCFsm --------------------------------
(* Both state machines on short queues. *)
EXTENDS Fsm
=============================================================================
