------------------------------- MODULE BleTx --------------------------------
(***************************************************************************)
(* The transmit backlog of src/src/mod/ble.c: bleSendCmd(), called by the  *)
(* receive callback, and bleSendTask(), run by the application scheduler.  *)
(*                                                                         *)
(* The two share ble_tx_items[], the linked list of the items waiting and  *)
(* keep_sending.  The source guards only the list operations by critical   *)
(* sections, so the callback is taken to preempt the task at every other   *)
(* point, and the task is cut into one step per access the callback could  *)
(* observe.  The callback itself runs to completion.                       *)
(***************************************************************************)
EXTENDS Naturals, Sequences

CONSTANTS
  TxLen,     \* BLE_TX_LIST_LEN (1024)
  CountMod,  \* number of values of the uint8_t list_size (256)
  IdMax      \* largest message id, 0xffff

ASSUME BleTxAssumption ==
  /\ TxLen \in Nat \ {0}
  /\ CountMod \in Nat \ {0}
  /\ IdMax \in Nat \ {0}

Slot == 1..TxLen
None == 0  \* the NULL pointer to an item
Id == 1..IdMax
Off == [id |-> 0, qos |-> FALSE]  \* beacon transmission is disabled

VARIABLES
  items,           \* ble_tx_items[]
  list,            \* ble_tx_items_head_p: the slots waiting, oldest first
  keepSending,     \* keep_sending
  messageId,       \* message_id: the last id given out
  sendingElement,  \* static sending_element of bleSendTask()
  beaconSending,   \* static beacon_sending of bleSendTask()
  element,         \* local element: popped from the list, not yet on air
  pc,              \* where bleSendTask() is, "idle" when it does not run
  scheduled,       \* the scheduler holds a request to run bleSendTask()
  onAir            \* what lib_beacon_tx transmits

taskVars == <<sendingElement, beaconSending, element, pc, onAir>>
vars == <<items, list, keepSending, messageId, scheduled, taskVars>>

Init ==
  /\ items = [s \in Slot |-> [status |-> "EMPTY", qos |-> FALSE, id |-> 0]]
  /\ list = <<>>
  /\ keepSending = 0
  /\ messageId = 0
  /\ sendingElement = None
  /\ beaconSending = FALSE
  /\ element = None
  /\ pc = "idle"
  /\ scheduled = FALSE
  /\ onAir = Off

-----------------------------------------------------------------------------
(* The receive callback's side.                                            *)

\* Mutant: the id is not started over after the last one.
NextMessageIdNoWrap == messageId + 1

NextMessageId == IF messageId = IdMax THEN 1 ELSE messageId + 1

\* Bound: an id is reused only after the command that carried it is gone.
\* The code gives out 65535 ids before one repeats, and has 1024 slots.
IdHorizon ==
  /\ NextMessageId # onAir.id
  /\ \A s \in Slot : items[s].status # "EMPTY" => NextMessageId # items[s].id

FreeSlots == {s \in Slot : items[s].status = "EMPTY"}

\* Mutant: the task is taken to run already while the beacon is on.
bleSendCmdWhenSilent(id, qos) ==
  /\ \/ /\ FreeSlots = {}
        /\ UNCHANGED <<items, list>>
     \/ \E s \in FreeSlots :
          /\ \A t \in FreeSlots : s <= t
          /\ items' = [items EXCEPT ![s] =
                         [status |-> "SEND", qos |-> qos, id |-> id]]
          /\ list' = Append(list, s)
  /\ scheduled' = (scheduled \/ ~beaconSending)

\* bleSendCmd(): the first free slot, if there is one, joins the list; the
\* task is requested either way.
bleSendCmd(id, qos) ==
  /\ \/ /\ FreeSlots = {}
        /\ UNCHANGED <<items, list>>
     \/ \E s \in FreeSlots :
          /\ \A t \in FreeSlots : s <= t
          /\ items' = [items EXCEPT ![s] =
                         [status |-> "SEND", qos |-> qos, id |-> id]]
          /\ list' = Append(list, s)
  /\ scheduled' = TRUE

\* A response: scan, begin upload, upload status.
SendResponse ==
  /\ IdHorizon
  /\ messageId' = NextMessageId
  /\ bleSendCmd(NextMessageId, FALSE)
  /\ UNCHANGED <<keepSending, taskVars>>

\* The request for a missing message; the beacon has to wait for its answer.
SendResendRequest ==
  /\ IdHorizon
  /\ messageId' = NextMessageId
  /\ keepSending' = NextMessageId
  /\ bleSendCmd(NextMessageId, TRUE)
  /\ UNCHANGED taskVars

\* The upload is complete: no answer is awaited any more.
SendCompletion ==
  /\ IdHorizon
  /\ messageId' = NextMessageId
  /\ keepSending' = 0
  /\ bleSendCmd(NextMessageId, FALSE)
  /\ UNCHANGED taskVars

Callback == SendResponse \/ SendResendRequest \/ SendCompletion

-----------------------------------------------------------------------------
(* bleSendTask(), one step per point where the callback may intervene.     *)

\* Mutant: the lock compares with the last id given out.
LockedOnNewest ==
  /\ sendingElement # None
  /\ items[sendingElement].qos
  /\ messageId = items[sendingElement].id

\* The item on air waits for an answer.
Locked ==
  /\ sendingElement # None
  /\ items[sendingElement].qos
  /\ keepSending = items[sendingElement].id

\* The scheduler drops its request when it starts the task and keeps one
\* made while the task runs; a task that returns a delay stays scheduled.
Return(again) ==
  /\ pc' = "idle"
  /\ scheduled' = (scheduled \/ again)

\* A locked task returns at once, to be called again: nothing changes.
\* Otherwise the item that was on air gives its slot back.
TaskStart ==
  /\ pc = "idle"
  /\ scheduled
  /\ ~Locked
  /\ scheduled' = FALSE
  /\ \/ /\ sendingElement = None
        /\ pc' = "size"
        /\ UNCHANGED items
     \/ /\ sendingElement # None
        /\ pc' = "freed"
        /\ items' = [items EXCEPT ![sendingElement].status = "EMPTY"]
  /\ UNCHANGED <<list, keepSending, messageId, sendingElement, beaconSending,
                 element, onAir>>

TaskForget ==
  /\ pc = "freed"
  /\ sendingElement' = None
  /\ pc' = "size"
  /\ UNCHANGED <<items, list, keepSending, messageId, scheduled,
                 beaconSending, element, onAir>>

\* uint8_t list_size = sl_list_size(...)
TaskSize ==
  /\ pc = "size"
  /\ pc' = IF Len(list) % CountMod = 0 THEN "empty" ELSE "pop"
  /\ UNCHANGED <<items, list, keepSending, messageId, scheduled,
                 sendingElement, beaconSending, element, onAir>>

TaskStop ==
  /\ pc = "empty"
  /\ onAir' = Off
  /\ beaconSending' = FALSE
  /\ Return(FALSE)
  /\ UNCHANGED <<items, list, keepSending, messageId, sendingElement, element>>

\* enableBeacons(false) fails.
TaskStopFails ==
  /\ pc = "empty"
  /\ Return(TRUE)
  /\ UNCHANGED <<items, list, keepSending, messageId, sendingElement,
                 beaconSending, element, onAir>>

TaskPop ==
  /\ pc = "pop"
  /\ element' = Head(list)
  /\ list' = Tail(list)
  /\ pc' = "tx"
  /\ UNCHANGED <<items, keepSending, messageId, scheduled, sendingElement,
                 beaconSending, onAir>>

\* The beacon is running or can be enabled: it takes over the item.
TaskTransmit ==
  /\ pc = "tx"
  /\ onAir' = [id |-> items[element].id, qos |-> items[element].qos]
  /\ beaconSending' = TRUE
  /\ sendingElement' = element
  /\ items' = [items EXCEPT ![element].status = "SENDING"]
  /\ element' = None
  /\ Return(TRUE)
  /\ UNCHANGED <<list, keepSending, messageId>>

\* Mutants: the item is not put back; it is put at the end of the list; the
\* task stops instead of trying again.
TaskRetryForgets ==
  /\ pc = "tx"
  /\ ~beaconSending
  /\ element' = None
  /\ Return(TRUE)
  /\ UNCHANGED <<items, list, keepSending, messageId, sendingElement,
                 beaconSending, onAir>>

TaskRetryAtEnd ==
  /\ pc = "tx"
  /\ ~beaconSending
  /\ list' = Append(list, element)
  /\ element' = None
  /\ Return(TRUE)
  /\ UNCHANGED <<items, keepSending, messageId, sendingElement, beaconSending,
                 onAir>>

TaskRetryStops ==
  /\ pc = "tx"
  /\ ~beaconSending
  /\ list' = <<element>> \o list
  /\ element' = None
  /\ Return(FALSE)
  /\ UNCHANGED <<items, keepSending, messageId, sendingElement, beaconSending,
                 onAir>>

\* enableBeacons(true) fails: the item goes back to the front of the list.
TaskRetry ==
  /\ pc = "tx"
  /\ ~beaconSending
  /\ list' = <<element>> \o list
  /\ element' = None
  /\ Return(TRUE)
  /\ UNCHANGED <<items, keepSending, messageId, sendingElement, beaconSending,
                 onAir>>

Task ==
  \/ TaskStart \/ TaskForget \/ TaskSize \/ TaskStop \/ TaskStopFails
  \/ TaskPop \/ TaskTransmit \/ TaskRetry

Next == Callback \/ Task

Spec == Init /\ [][Next]_vars

\* The scheduler runs what is scheduled and the callback returns, so a task
\* that has started goes on; the radio does not refuse for ever.
FairSpec ==
  /\ Spec
  /\ WF_vars(Task)
  /\ SF_vars(TaskTransmit)
  /\ SF_vars(TaskStop)

-----------------------------------------------------------------------------
(* What bleSendTask() and bleSendCmd() have to get right together.         *)

Item == [status : {"EMPTY", "SEND", "SENDING"}, qos : BOOLEAN, id : 0..IdMax]
Content == [id : 0..IdMax, qos : BOOLEAN]

TypeOK ==
  /\ items \in [Slot -> Item]
  /\ list \in Seq(Slot)
  /\ keepSending \in 0..IdMax
  /\ messageId \in 0..IdMax
  /\ sendingElement \in Slot \cup {None}
  /\ beaconSending \in BOOLEAN
  /\ element \in Slot \cup {None}
  /\ pc \in {"idle", "freed", "size", "empty", "pop", "tx"}
  /\ scheduled \in BOOLEAN
  /\ onAir \in Content

\* The slot sendingElement names; between the two statements that free it,
\* the pointer is still set although the slot is already free for others.
InUse == IF pc = "freed" THEN None ELSE sendingElement

\* Every occupied slot has exactly one owner: it waits in the list, or the
\* task has popped it, or it is on air.  A slot without an owner would be
\* lost for good; one with two would be overwritten while it is sent.
\* (ble.c:246-261 against ble.c:578-582 and 608-643)
SlotsAccounted ==
  /\ \A i, j \in 1..Len(list) : list[i] = list[j] => i = j
  /\ \A i \in 1..Len(list) : list[i] # element /\ list[i] # InUse
  /\ element # None => element # InUse
  /\ \A s \in Slot :
       items[s].status # "EMPTY" <=> \/ \E i \in 1..Len(list) : list[i] = s
                                     \/ s = element
                                    \/ s = InUse

\* The task may only go to sleep on a backlog when it mistakes its length
\* for zero: the backlog is a multiple of the 256 values of list_size, and
\* no command pushed while the task was busy is forgotten.
\* (ble.c:264 against ble.c:584-602)
StopsOnlyAtWrap ==
  list # <<>> /\ pc = "idle" => scheduled \/ Len(list) % CountMod = 0

\* "no more data to send: stop the task" (ble.c:593-594): a task that sleeps
\* has nothing left to send.
NoLostWakeup == list # <<>> /\ pc = "idle" => scheduled

\* A resend request that waits for its answer is neither replaced on air nor
\* switched off before the callback changes keep_sending, whatever is sent
\* meanwhile. ("wait, till we have answer", ble.c:571-576)
QosHeld ==
  [][onAir.qos /\ onAir.id = keepSending /\ keepSending' = keepSending
       => onAir' = onAir]_vars

\* A command that waits goes on air, unless a held request blocks it.
\* ("task handles the ble_tx data backlog", ble.c:80)
Delivered == \A s \in Slot :
  (\E i \in 1..Len(list) : list[i] = s) ~> (sendingElement = s \/ Locked)

\* The slots, the popped element and the task's steps implement the abstract
\* first-in first-out outbox: no command is lost, repeated or overtaken, and
\* each one accepted goes on air.
Command(s) ==
  [cmd |-> items[s].id,
   held |-> items[s].qos /\ items[s].id = keepSending]

Backlog ==
  LET waiting == IF element = None THEN list ELSE <<element>> \o list
  IN  [k \in DOMAIN waiting |-> Command(waiting[k])]

Beacon == [cmd |-> onAir.id, held |-> onAir.qos /\ onAir.id = keepSending]

Out == INSTANCE Outbox WITH Cmd <- Id, NoCmd <- 0,
                            backlog <- Backlog, beacon <- Beacon

Implements == Out!FairSpec

=============================================================================
