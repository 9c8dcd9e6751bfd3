-------------------------------- MODULE MCSm --------------------------------
(***************************************************************************)
(* The engine with a matrix that uses every feature of the rows: a guard,  *)
(* a row for any state, one that keeps the state, two rows that match the  *)
(* same event, an exit action, and an event no row takes.                  *)
(***************************************************************************)
EXTENDS Sm

MCMatrix == <<
  [state |-> "sm_S_BOOT", event |-> "init", guard |-> Null,
   next |-> "sm_S_IDLE", entry |-> "initialize", exit |-> Null],
  [state |-> "sm_S_IDLE", event |-> "go", guard |-> "isSink",
   next |-> "busy", entry |-> "start", exit |-> "stop"],
  [state |-> "sm_S_ANY_STATE", event |-> "go", guard |-> Null,
   next |-> "sm_S_NO_NEW_STATE", entry |-> "log", exit |-> Null]
>>

=============================================================================
