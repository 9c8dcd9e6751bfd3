------------------------------- MODULE Outbox -------------------------------
(***************************************************************************)
(* What the transmit side of src/src/mod/ble.c promises to the handlers    *)
(* that call bleSendCmd(): commands wait in a bounded first-in first-out   *)
(* backlog and are put on air one after the other by a single beacon.      *)
(*                                                                         *)
(* A command sent with qos is "held": once on air it stays there until     *)
(* the receive callback, which owns keep_sending, releases it.  At most    *)
(* the newest qos command is held, because keep_sending is one variable.   *)
(*                                                                         *)
(* This is the abstract specification; module BleTx implements it.         *)
(***************************************************************************)
EXTENDS Naturals, Sequences

CONSTANTS
  Cmd,    \* the commands the node sends
  NoCmd,  \* content of the beacon while it is switched off
  TxLen   \* BLE_TX_LIST_LEN: number of slots, the one on air included

VARIABLES
  backlog,  \* commands accepted and not yet on air, oldest first
  beacon    \* the command on air

vars == <<backlog, beacon>>

Entry == [cmd : Cmd, held : BOOLEAN]
Silent == [cmd |-> NoCmd, held |-> FALSE]

\* One slot is taken by the command on air.
Taken(q) == IF beacon = Silent THEN Len(q) ELSE Len(q) + 1

\* The backlogs that may result from sending e: it is queued when a slot is
\* free and silently forgotten when none is.  The slot of the command on air
\* is given back a moment before its successor replaces it, so at the last
\* slot both outcomes are possible.
AfterSend(q, e) ==
  {r \in {Append(q, e), q} : /\ r = q => Taken(q) >= TxLen
                             /\ r # q => Len(q) < TxLen}

\* Mutant: keep_sending is left alone.
ReleaseNothing(q) == q

\* keep_sending no longer names any command.
Release(q) == [k \in DOMAIN q |-> [q[k] EXCEPT !.held = FALSE]]

Init ==
  /\ backlog = <<>>
  /\ beacon = Silent

\* An ordinary answer: whatever is held stays held.
SendPlain(c) ==
  /\ backlog' \in AfterSend(backlog, [cmd |-> c, held |-> FALSE])
  /\ UNCHANGED beacon

\* A request that must be answered takes over the hold.
SendHeld(c) ==
  /\ backlog' \in AfterSend(Release(backlog), [cmd |-> c, held |-> TRUE])
  /\ beacon' = [beacon EXCEPT !.held = FALSE]

\* The final answer: nothing is held any more.
SendLast(c) ==
  /\ backlog' \in AfterSend(Release(backlog), [cmd |-> c, held |-> FALSE])
  /\ beacon' = [beacon EXCEPT !.held = FALSE]

\* The next command replaces the one on air, unless that one is held.
Advance ==
  /\ ~beacon.held
  /\ backlog # <<>>
  /\ beacon' = Head(backlog)
  /\ backlog' = Tail(backlog)

\* Nothing was left to send: the beacon is switched off.  A command accepted
\* at that very moment waits until the beacon is on again.
SwitchOff ==
  /\ ~beacon.held
  /\ beacon' = Silent
  /\ UNCHANGED backlog

Next ==
  \/ \E c \in Cmd : SendPlain(c) \/ SendHeld(c) \/ SendLast(c)
  \/ Advance
  \/ SwitchOff

Spec == Init /\ [][Next]_vars

\* Every command accepted goes on air, unless the one before it stays held.
FairSpec == Spec /\ WF_vars(Advance)

=============================================================================
