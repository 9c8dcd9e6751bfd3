------------------------------ MODULE MCBleTx -------------------------------
(***************************************************************************)
(* BleTx on small instances.  Message ids start over after IdMax instead   *)
(* of 65535 and list_size after CountMod instead of 256, so both wraps     *)
(* happen within a few steps.                                              *)
(***************************************************************************)
EXTENDS BleTx

=============================================================================
