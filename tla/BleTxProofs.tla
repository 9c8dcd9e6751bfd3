---------------------------- MODULE BleTxProofs -----------------------------
(***************************************************************************)
(* What holds of BleTx for any number of slots, any width of list_size and *)
(* any range of message ids.                                               *)
(***************************************************************************)
EXTENDS BleTx, SlotCount

\* Where the task is, and what it holds there.
TaskInv ==
  /\ pc = "freed" => sendingElement # None
  /\ pc \in {"size", "empty", "pop", "tx"} => sendingElement = None
  /\ element # None <=> pc = "tx"
  /\ pc = "pop" => list # <<>>

\* The task holds a reason to sleep: it saw no command, or a multiple of
\* CountMod of them, and none has come since.
SleepInv == pc = "empty" => scheduled \/ Len(list) % CountMod = 0

IInv == TypeOK /\ TaskInv /\ SlotsAccounted /\ SleepInv /\ StopsOnlyAtWrap

USE BleTxAssumption

LEMMA InitIInv == Init => IInv
<1> SUFFICES ASSUME Init PROVE IInv
  OBVIOUS
<1>1. TypeOK
  <2>1. items \in [Slot -> Item]
    BY DEF Init, Item
  <2>2. onAir \in Content
    BY DEF Init, Content, Off
  <2>3. list \in Seq(Slot) /\ keepSending \in 0..IdMax /\ messageId \in 0..IdMax
    BY DEF Init
  <2> QED
    BY <2>1, <2>2, <2>3 DEF Init, TypeOK
<1>2. TaskInv /\ SleepInv /\ StopsOnlyAtWrap
  BY DEF Init, TaskInv, SleepInv, StopsOnlyAtWrap, None
<1>3. SlotsAccounted
  BY DEF Init, SlotsAccounted, InUse, Slot, None
<1> QED
  BY <1>1, <1>2, <1>3 DEF IInv

\* Type correctness is kept by every step.
LEMMA NextTypeOK == TypeOK /\ TaskInv /\ [Next]_vars => TypeOK'
<1> SUFFICES ASSUME TypeOK, TaskInv, [Next]_vars PROVE TypeOK'
  OBVIOUS
<1> USE DEF TypeOK
<1>1. ASSUME NEW id \in Id, NEW qos \in BOOLEAN, bleSendCmd(id, qos)
      PROVE  /\ items' \in [Slot -> Item]
             /\ list' \in Seq(Slot)
             /\ scheduled' \in BOOLEAN
  <2>1. [status |-> "SEND", qos |-> qos, id |-> id] \in Item
    BY DEF Item, Id
  <2> QED
    BY <1>1, <2>1 DEF bleSendCmd, FreeSlots
<1>2. NextMessageId \in Id /\ NextMessageId \in 0..IdMax
  BY DEF NextMessageId, Id
<1>3. CASE Callback
  <2>1. CASE SendResponse
    BY <1>1, <1>2, <2>1 DEF SendResponse, taskVars
  <2>2. CASE SendResendRequest
    BY <1>1, <1>2, <2>2 DEF SendResendRequest, taskVars
  <2>3. CASE SendCompletion
    <3>1. keepSending' \in 0..IdMax
      BY <2>3 DEF SendCompletion
    <3> QED
      BY <1>1, <1>2, <2>3, <3>1 DEF SendCompletion, taskVars
  <2> QED
    BY <1>3, <2>1, <2>2, <2>3 DEF Callback
<1>4. CASE TaskStart
  <2>1. ASSUME sendingElement # None
        PROVE  [items EXCEPT ![sendingElement].status = "EMPTY"]
                 \in [Slot -> Item]
    <3>1. [items[sendingElement] EXCEPT !.status = "EMPTY"] \in Item
      BY <2>1 DEF Item
    <3> QED
      BY <3>1
  <2> QED
    BY <1>4, <2>1 DEF TaskStart
<1>5. CASE TaskForget
  BY <1>5 DEF TaskForget
<1>6. CASE TaskSize
  BY <1>6 DEF TaskSize
<1>7. CASE TaskStop
  <2>1. Off \in Content
    BY DEF Off, Content
  <2> QED
    BY <1>7, <2>1 DEF TaskStop, Return
<1>8. CASE TaskStopFails
  BY <1>8 DEF TaskStopFails, Return
<1>9. CASE TaskPop
  <2>1. list # <<>>
    BY <1>9 DEF TaskPop, TaskInv
  <2>2. Head(list) \in Slot /\ Tail(list) \in Seq(Slot)
    BY <2>1
  <2> QED
    BY <1>9, <2>2 DEF TaskPop
<1>10. CASE TaskTransmit
  <2>1. element \in Slot
    BY <1>10 DEF TaskTransmit, TaskInv
  <2>2. [items[element] EXCEPT !.status = "SENDING"] \in Item
    BY <2>1 DEF Item
  <2>3. [id |-> items[element].id, qos |-> items[element].qos] \in Content
    BY <2>1 DEF Item, Content
  <2> QED
    BY <1>10, <2>1, <2>2, <2>3 DEF TaskTransmit, Return
<1>11. CASE TaskRetry
  <2>1. element \in Slot
    BY <1>11 DEF TaskRetry, TaskInv
  <2> QED
    BY <1>11, <2>1 DEF TaskRetry, Return
<1>12. CASE UNCHANGED vars
  BY <1>12 DEF vars, taskVars
<1> QED
  BY <1>3, <1>4, <1>5, <1>6, <1>7, <1>8, <1>9, <1>10, <1>11, <1>12
     DEF Next, Task

\* A command is put into a free slot, which the others do not own.
LEMMA SendSlots ==
  ASSUME IInv, NEW id \in Id, NEW qos \in BOOLEAN, bleSendCmd(id, qos),
         UNCHANGED <<sendingElement, element, pc>>
  PROVE  SlotsAccounted'
<1>1. list \in Seq(Slot) /\ items \in [Slot -> Item] /\ InUse' = InUse
  BY DEF IInv, TypeOK, InUse
<1>2. SlotsAccounted
  BY DEF IInv
<1>3. CASE UNCHANGED <<items, list>>
  BY <1>1, <1>2, <1>3 DEF SlotsAccounted
<1>4. ASSUME NEW s \in Slot, items[s].status = "EMPTY",
             items' = [items EXCEPT ![s] =
                         [status |-> "SEND", qos |-> qos, id |-> id]],
             list' = Append(list, s)
      PROVE  SlotsAccounted'
  <2>1. /\ Len(list) \in Nat
        /\ Len(list') = Len(list) + 1
        /\ \A i \in 1..Len(list) : list'[i] = list[i]
        /\ list'[Len(list) + 1] = s
    BY <1>1, <1>4
  <2>2. /\ \A i \in 1..Len(list) : list[i] # s
        /\ s # element /\ s # InUse
    BY <1>2, <1>4 DEF SlotsAccounted
  <2>3. /\ items'[s].status # "EMPTY"
        /\ \A t \in Slot : t # s => items'[t] = items[t]
    BY <1>1, <1>4
  <2>4. \A i, j \in 1..Len(list') : list'[i] = list'[j] => i = j
    BY <1>2, <2>1, <2>2 DEF SlotsAccounted
  <2>5. \A i \in 1..Len(list') : list'[i] # element /\ list'[i] # InUse
    BY <1>2, <2>1, <2>2 DEF SlotsAccounted
  <2>6. ASSUME NEW t \in Slot
        PROVE  (\E i \in 1..Len(list') : list'[i] = t)
                 <=> (t = s \/ \E i \in 1..Len(list) : list[i] = t)
    BY <2>1
  <2>7. ASSUME NEW t \in Slot
        PROVE  items'[t].status # "EMPTY"
                 <=> \/ \E i \in 1..Len(list') : list'[i] = t
                     \/ t = element
                     \/ t = InUse
    BY <1>2, <2>2, <2>3, <2>6 DEF SlotsAccounted
  <2> QED
    BY <1>1, <1>2, <2>4, <2>5, <2>7 DEF SlotsAccounted
<1> QED
  BY <1>3, <1>4 DEF bleSendCmd, FreeSlots

\* Only the task moves itself; it finds in the list what it counted there.
LEMMA NextTaskInv == IInv /\ [Next]_vars => TaskInv'
<1> SUFFICES ASSUME IInv, [Next]_vars PROVE TaskInv'
  OBVIOUS
<1> USE DEF TaskInv
<1>0. TaskInv /\ TypeOK
  BY DEF IInv
<1>1. CASE Callback
  <2>1. UNCHANGED <<pc, sendingElement, element>>
    BY <1>1 DEF Callback, SendResponse, SendResendRequest, SendCompletion,
       taskVars
  <2>2. list # <<>> => list' # <<>>
    BY <1>0, <1>1 DEF Callback, SendResponse, SendResendRequest,
       SendCompletion, bleSendCmd, TypeOK
  <2> QED
    BY <1>0, <2>1, <2>2
<1>2. CASE TaskStart \/ TaskForget
  BY <1>0, <1>2 DEF TaskStart, TaskForget
<1>3. CASE TaskSize
  <2>1. list = <<>> => Len(list) % CountMod = 0
    BY DEF TypeOK
  <2> QED
    BY <1>0, <1>3, <2>1 DEF TaskSize
<1>4. CASE TaskStop \/ TaskStopFails
  BY <1>0, <1>4 DEF TaskStop, TaskStopFails, Return
<1>5. CASE TaskPop
  <2>1. element' # None
    BY <1>0, <1>5 DEF TaskPop, TypeOK, Slot, None
  <2> QED
    BY <1>0, <1>5, <2>1 DEF TaskPop
<1>6. CASE TaskTransmit \/ TaskRetry
  BY <1>0, <1>6 DEF TaskTransmit, TaskRetry, Return
<1>7. CASE UNCHANGED vars
  BY <1>0, <1>7 DEF vars, taskVars
<1> QED
  BY <1>1, <1>2, <1>3, <1>4, <1>5, <1>6, <1>7 DEF Next, Task

\* A slot changes owner together with its status, but for the moment between
\* the two statements that free it.
LEMMA NextSlotsAccounted == IInv /\ [Next]_vars => SlotsAccounted'
<1> SUFFICES ASSUME IInv, [Next]_vars PROVE SlotsAccounted'
  OBVIOUS
<1>0. TaskInv /\ TypeOK /\ SlotsAccounted
  BY DEF IInv
<1>1. CASE Callback
  <2>1. NextMessageId \in Id
    BY <1>0 DEF NextMessageId, Id, TypeOK
  <2> QED
    BY <1>1, <2>1, SendSlots DEF Callback, SendResponse, SendResendRequest,
       SendCompletion, taskVars
<1>2. CASE TaskStart
  <2>1. CASE sendingElement = None
    BY <1>0, <1>2, <2>1 DEF TaskStart, SlotsAccounted, InUse
  <2>2. CASE sendingElement # None
    <3>1. InUse = sendingElement /\ InUse' = None
      BY <1>2, <2>2 DEF TaskStart, InUse
    <3>2. /\ items'[sendingElement].status = "EMPTY"
          /\ \A s \in Slot : s # sendingElement => items'[s] = items[s]
      BY <1>0, <1>2, <2>2 DEF TaskStart, TypeOK, Item
    <3>3. sendingElement # element
            /\ \A i \in 1..Len(list) : list[i] # sendingElement
      BY <1>0, <2>2, <3>1 DEF SlotsAccounted
    <3>4. \A i \in 1..Len(list) : list[i] # None
      BY <1>0 DEF TypeOK, Slot, None
    <3>5. list' = list /\ element' = element
      BY <1>2 DEF TaskStart
    <3> QED
      BY <1>0, <3>1, <3>2, <3>3, <3>4, <3>5, <2>2 DEF SlotsAccounted, Slot, None
  <2> QED
    BY <2>1, <2>2
<1>3. CASE TaskForget
  <2>1. InUse' = InUse /\ UNCHANGED <<list, element, items>>
    BY <1>3 DEF TaskForget, InUse
  <2> QED
    BY <1>0, <2>1 DEF SlotsAccounted
<1>4. CASE TaskSize \/ TaskStop \/ TaskStopFails
  <2>1. InUse' = InUse /\ UNCHANGED <<list, element, items>>
    BY <1>4 DEF TaskSize, TaskStop, TaskStopFails, InUse, Return
  <2> QED
    BY <1>0, <2>1 DEF SlotsAccounted
<1>5. CASE TaskPop
  <2>1. list # <<>> /\ element = None /\ InUse = None /\ InUse' = None
    BY <1>0, <1>5 DEF TaskPop, TaskInv, InUse
  <2>2. /\ Len(list) \in Nat \ {0}
        /\ Len(list') = Len(list) - 1
        /\ \A i \in 1..Len(list') : list'[i] = list[i + 1]
        /\ element' = list[1]
        /\ items' = items
    BY <1>0, <1>5, <2>1 DEF TaskPop, TypeOK
  <2>3. \A i \in 1..Len(list) : list[i] \in Slot
    BY <1>0 DEF TypeOK
  <2>4. /\ \A i, j \in 1..Len(list') : list'[i] = list'[j] => i = j
        /\ \A i \in 1..Len(list') : list'[i] # element' /\ list'[i] # InUse'
        /\ element' # InUse'
    BY <1>0, <2>1, <2>2, <2>3 DEF SlotsAccounted, Slot, None
  <2>5. ASSUME NEW s \in Slot
        PROVE  (\E i \in 1..Len(list) : list[i] = s)
                 <=> (s = element' \/ \E i \in 1..Len(list') : list'[i] = s)
    <3>1. ASSUME NEW i \in 1..Len(list), list[i] = s
          PROVE  s = element' \/ \E j \in 1..Len(list') : list'[j] = s
      <4>1. CASE i = 1
        BY <2>2, <3>1, <4>1
      <4>2. CASE i # 1
        <5>1. i - 1 \in 1..Len(list') /\ list'[i - 1] = s
          BY <2>2, <3>1, <4>2
        <5> QED
          BY <5>1
      <4> QED
        BY <4>1, <4>2
    <3>2. ASSUME NEW i \in 1..Len(list'), list'[i] = s
          PROVE  \E j \in 1..Len(list) : list[j] = s
      <4>1. i + 1 \in 1..Len(list) /\ list[i + 1] = s
        BY <2>2, <3>2
      <4> QED
        BY <4>1
    <3>3. 1 \in 1..Len(list) /\ list[1] = element'
      BY <2>2
    <3> QED
      BY <3>1, <3>2, <3>3
  <2> QED
    BY <1>0, <2>1, <2>2, <2>4, <2>5 DEF SlotsAccounted, Slot, None
<1>6. CASE TaskTransmit
  <2>1. /\ element \in Slot /\ InUse = None /\ InUse' = element
        /\ element' = None /\ list' = list
    BY <1>0, <1>6 DEF TaskTransmit, TaskInv, TypeOK, InUse, Return
  <2>2. /\ items'[element].status = "SENDING"
        /\ \A s \in Slot : s # element => items'[s] = items[s]
    BY <1>0, <1>6, <2>1 DEF TaskTransmit, TypeOK, Item
  <2>3. \A i \in 1..Len(list) : list[i] # None
    BY <1>0 DEF TypeOK, Slot, None
  <2> QED
    BY <1>0, <2>1, <2>2, <2>3 DEF SlotsAccounted, Slot, None
<1>7. CASE TaskRetry
  <2>1. /\ element \in Slot /\ InUse = None /\ InUse' = None
        /\ element' = None /\ items' = items
    BY <1>0, <1>7 DEF TaskRetry, TaskInv, TypeOK, InUse, Return
  <2>2. /\ Len(list) \in Nat
        /\ Len(list') = Len(list) + 1
        /\ list'[1] = element
        /\ \A i \in 2..Len(list') : list'[i] = list[i - 1]
    BY <1>0, <1>7, <2>1 DEF TaskRetry, TypeOK
  <2>3. \A i \in 1..Len(list) : list[i] \in Slot
    BY <1>0 DEF TypeOK
  <2>4. /\ \A i, j \in 1..Len(list') : list'[i] = list'[j] => i = j
        /\ \A i \in 1..Len(list') : list'[i] # None
    <3>1. \A i \in 2..Len(list') : /\ i - 1 \in 1..Len(list)
                                  /\ list'[i] = list[i - 1]
                                  /\ list'[i] # element
                                  /\ list'[i] # None
      BY <1>0, <2>2, <2>3 DEF SlotsAccounted, Slot, None
    <3>2. ASSUME NEW i \in 1..Len(list'), NEW j \in 1..Len(list'),
                 list'[i] = list'[j]
          PROVE  i = j
      <4>1. CASE i = 1 \/ j = 1
        BY <2>2, <3>1, <3>2, <4>1
      <4>2. CASE i # 1 /\ j # 1
        <5>1. i \in 2..Len(list') /\ j \in 2..Len(list')
          BY <2>2, <4>2
        <5>2. i - 1 = j - 1
          BY <1>0, <3>1, <3>2, <5>1 DEF SlotsAccounted
        <5> QED
          BY <5>1, <5>2
      <4> QED
        BY <4>1, <4>2
    <3> QED
      BY <2>1, <2>2, <3>1, <3>2 DEF Slot, None
  <2>5. ASSUME NEW s \in Slot
        PROVE  (\E i \in 1..Len(list') : list'[i] = s)
                 <=> (s = element \/ \E i \in 1..Len(list) : list[i] = s)
    <3>1. ASSUME NEW i \in 1..Len(list), list[i] = s
          PROVE  \E j \in 1..Len(list') : list'[j] = s
      <4>1. i + 1 \in 1..Len(list') /\ list'[i + 1] = s
        BY <2>2, <3>1
      <4> QED
        BY <4>1
    <3>2. 1 \in 1..Len(list')
      BY <2>2
    <3> QED
      BY <2>2, <3>1, <3>2
  <2> QED
    BY <1>0, <2>1, <2>4, <2>5 DEF SlotsAccounted, Slot, None
<1>8. CASE UNCHANGED vars
  BY <1>0, <1>8 DEF vars, taskVars, SlotsAccounted, InUse
<1> QED
  BY <1>1, <1>2, <1>3, <1>4, <1>5, <1>6, <1>7, <1>8 DEF Next, Task

\* The task falls asleep only after it counted none, or a wrapped number, and
\* a command that comes then requests it again.
LEMMA NextSleep == IInv /\ [Next]_vars => SleepInv' /\ StopsOnlyAtWrap'
<1> SUFFICES ASSUME IInv, [Next]_vars PROVE SleepInv' /\ StopsOnlyAtWrap'
  OBVIOUS
<1> USE DEF SleepInv, StopsOnlyAtWrap
<1>0. SleepInv /\ StopsOnlyAtWrap
  BY DEF IInv
<1>1. CASE Callback
  BY <1>1 DEF Callback, SendResponse, SendResendRequest, SendCompletion,
     bleSendCmd
<1>2. CASE TaskStart \/ TaskForget \/ TaskSize
  BY <1>2 DEF TaskStart, TaskForget, TaskSize
<1>3. CASE TaskStop \/ TaskStopFails
  BY <1>0, <1>3 DEF TaskStop, TaskStopFails, Return
<1>4. CASE TaskPop
  BY <1>4 DEF TaskPop
<1>5. CASE TaskTransmit \/ TaskRetry
  BY <1>5 DEF TaskTransmit, TaskRetry, Return
<1>6. CASE UNCHANGED vars
  BY <1>0, <1>6 DEF vars, taskVars
<1> QED
  BY <1>1, <1>2, <1>3, <1>4, <1>5, <1>6 DEF Next, Task

LEMMA Invariance == Spec => []IInv
<1>1. IInv /\ [Next]_vars => IInv'
  BY NextTypeOK, NextTaskInv, NextSlotsAccounted, NextSleep DEF IInv
<1> QED
  BY InitIInv, <1>1, PTL DEF Spec

\* The state of the outbox stays well formed.
THEOREM TypeCorrect == Spec => []TypeOK
BY Invariance, PTL DEF IInv

\* No slot is ever lost or shared, for any interleaving of bleSendCmd() with
\* bleSendTask(): ble.c:246-261 against ble.c:578-582 and 608-643.
THEOREM NoSlotLost == Spec => []SlotsAccounted
BY Invariance, PTL DEF IInv

\* bleSendTask() sleeps on a backlog only when list_size has wrapped to zero:
\* ble.c:584-602.
THEOREM SleepsOnlyAtWrap == Spec => []StopsOnlyAtWrap
BY Invariance, PTL DEF IInv

\* As long as fewer commands wait than list_size has values, the task does not
\* sleep on them, however many slots there are: ble.c:584-602.
THEOREM NoWakeupLost == Spec => [](Len(list) < CountMod => NoLostWakeup)
<1>1. IInv => (Len(list) < CountMod => NoLostWakeup)
  <2>1. SUFFICES ASSUME IInv, Len(list) < CountMod, list # <<>>, pc = "idle"
                 PROVE  scheduled
    BY DEF NoLostWakeup
  <2>2. Len(list) \in Nat \ {0}
    BY <2>1 DEF IInv, TypeOK
  <2>3. Len(list) % CountMod = Len(list)
    BY <2>1, <2>2, BleTxAssumption
  <2> QED
    BY <2>1, <2>2, <2>3 DEF IInv, StopsOnlyAtWrap
<1> QED
  BY <1>1, Invariance, PTL

-----------------------------------------------------------------------------
(* The request that is held, and the abstract outbox.                      *)

\* The item on air is the one keep_sending names.
OnAirHeld == onAir.qos /\ onAir.id = keepSending

\* Requests have an id, and 0 is none; what is held on air is the item of a
\* task that does not run, which is the one it looks at when it starts.
HoldInv ==
  /\ \A s \in Slot : items[s].qos => items[s].id # 0
  /\ \A s \in Slot : items[s].status # "EMPTY" => items[s].id # 0
  /\ onAir.qos => onAir.id # 0
  /\ OnAirHeld => /\ pc = "idle" /\ sendingElement # None
                  /\ onAir.id = items[sendingElement].id
                  /\ onAir.qos = items[sendingElement].qos
  /\ pc = "idle" /\ sendingElement # None => onAir.id # 0

LEMMA InitHold == Init => HoldInv
  BY DEF Init, HoldInv, OnAirHeld, Off, None

\* A new id is on nothing that is on air or waits.
LEMMA CallbackFacts ==
  ASSUME IInv, HoldInv, Callback
  PROVE  \E qos \in BOOLEAN :
           /\ bleSendCmd(NextMessageId, qos)
           /\ NextMessageId \in Id /\ NextMessageId # 0
           /\ NextMessageId # onAir.id
           /\ \A s \in Slot : items[s].status # "EMPTY" => NextMessageId # items[s].id
           /\ UNCHANGED <<sendingElement, element, pc, onAir>>
           /\ \/ ~qos /\ keepSending' = keepSending
              \/ qos /\ keepSending' = NextMessageId
              \/ ~qos /\ keepSending' = 0
<1>1. NextMessageId \in Id /\ NextMessageId # 0
  BY DEF NextMessageId, Id, IInv, TypeOK
<1>2. IdHorizon /\ UNCHANGED taskVars
  BY DEF Callback, SendResponse, SendResendRequest, SendCompletion
<1>3. CASE SendResponse
  BY <1>1, <1>2, <1>3 DEF SendResponse, IdHorizon, taskVars
<1>4. CASE SendResendRequest
  BY <1>1, <1>2, <1>4 DEF SendResendRequest, IdHorizon, taskVars
<1>5. CASE SendCompletion
  BY <1>1, <1>2, <1>5 DEF SendCompletion, IdHorizon, taskVars
<1> QED
  BY <1>3, <1>4, <1>5 DEF Callback

LEMMA NextHold == IInv /\ HoldInv /\ [Next]_vars => HoldInv'
<1> SUFFICES ASSUME IInv, HoldInv, [Next]_vars PROVE HoldInv'
  OBVIOUS
<1> USE DEF HoldInv, OnAirHeld
<1>0. TypeOK /\ TaskInv /\ SlotsAccounted
  BY DEF IInv
<1>1. CASE Callback
  <2>1. PICK qos \in BOOLEAN :
           /\ bleSendCmd(NextMessageId, qos)
           /\ NextMessageId \in Id /\ NextMessageId # 0
           /\ NextMessageId # onAir.id
           /\ UNCHANGED <<sendingElement, element, pc, onAir>>
           /\ \/ ~qos /\ keepSending' = keepSending
              \/ qos /\ keepSending' = NextMessageId
              \/ ~qos /\ keepSending' = 0
    BY <1>1, CallbackFacts
  <2>2. \/ items' = items
        \/ \E s \in Slot : /\ items[s].status = "EMPTY"
                           /\ items' = [items EXCEPT ![s] =
                                [status |-> "SEND", qos |-> qos, id |-> NextMessageId]]
    BY <2>1 DEF bleSendCmd, FreeSlots
  <2>3. \A s \in Slot : \/ items'[s] = items[s]
                        \/ /\ items[s].status = "EMPTY"
                           /\ items'[s].id = NextMessageId
    BY <1>0, <2>2 DEF TypeOK
  <2>4. pc = "idle" /\ sendingElement # None =>
          sendingElement \in Slot /\ items[sendingElement].status # "EMPTY"
    BY <1>0 DEF TypeOK, SlotsAccounted, InUse
  <2>5. OnAirHeld' => OnAirHeld
    BY <2>1
  <2>6. \A s \in Slot : items'[s].id # 0 \/ items'[s] = items[s]
    BY <2>1, <2>3
  <2> QED
    BY <2>1, <2>3, <2>4, <2>5, <2>6
<1>2. CASE TaskStart
  <2>1. ~OnAirHeld
    BY <1>2 DEF TaskStart, Locked
  <2>2. UNCHANGED <<onAir, keepSending>> /\ pc' # "idle"
    BY <1>2 DEF TaskStart
  <2>3. \A s \in Slot : /\ items'[s].qos = items[s].qos /\ items'[s].id = items[s].id
                        /\ items'[s].status # "EMPTY" => items[s].status # "EMPTY"
    <3>1. CASE sendingElement = None
      BY <1>2, <3>1 DEF TaskStart
    <3>2. CASE sendingElement # None
      <4>1. sendingElement \in Slot /\ items[sendingElement] \in Item
            /\ items' = [items EXCEPT ![sendingElement].status = "EMPTY"]
            /\ items \in [Slot -> Item]
        BY <1>0, <1>2, <3>2 DEF TaskStart, TypeOK
      <4>2. \A s \in Slot : s # sendingElement => items'[s] = items[s]
        BY <4>1
      <4>3. /\ items'[sendingElement].qos = items[sendingElement].qos
            /\ items'[sendingElement].id = items[sendingElement].id
            /\ items'[sendingElement].status = "EMPTY"
        BY <4>1 DEF Item
      <4> QED
        BY <4>2, <4>3
    <3> QED
      BY <3>1, <3>2
  <2> QED
    BY <2>1, <2>2, <2>3
<1>3. CASE TaskForget \/ TaskSize
  BY <1>3 DEF TaskForget, TaskSize
<1>4. CASE TaskStop \/ TaskStopFails
  BY <1>0, <1>4 DEF TaskStop, TaskStopFails, Return, Off, TaskInv
<1>5. CASE TaskPop
  BY <1>5 DEF TaskPop
<1>6. CASE TaskTransmit
  <2>1. element \in Slot /\ element # None
    BY <1>0, <1>6 DEF TaskTransmit, TaskInv, TypeOK
  <2>2. /\ onAir'.id = items[element].id /\ onAir'.qos = items[element].qos
        /\ pc' = "idle" /\ sendingElement' = element /\ keepSending' = keepSending
    BY <1>6 DEF TaskTransmit, Return
  <2>3. \A s \in Slot : items'[s].qos = items[s].qos /\ items'[s].id = items[s].id
    BY <1>0, <1>6 DEF TaskTransmit, TypeOK, Item
  <2>4. items[element].status # "EMPTY"
    BY <1>0, <2>1 DEF SlotsAccounted
  <2>5. \A s \in Slot : items'[s].status # "EMPTY" => items[s].status # "EMPTY"
    BY <1>0, <1>6, <2>4 DEF TaskTransmit, TypeOK, Item
  <2> QED
    BY <2>1, <2>2, <2>3, <2>4, <2>5
<1>7. CASE TaskRetry
  BY <1>0, <1>7 DEF TaskRetry, Return, TaskInv
<1>8. CASE UNCHANGED vars
  BY <1>8 DEF vars, taskVars
<1> QED
  BY <1>1, <1>2, <1>3, <1>4, <1>5, <1>6, <1>7, <1>8 DEF Next, Task

LEMMA HoldInvariance == Spec => [](IInv /\ HoldInv)
  BY Invariance, InitHold, NextHold, PTL DEF Spec

\* A resend request that waits for its answer stays on air, whatever is sent
\* meanwhile: ble.c:571-576 against ble.c:512-521.
THEOREM RequestHeld == Spec => QosHeld
<1>1. IInv /\ HoldInv /\ [Next]_vars =>
        [onAir.qos /\ onAir.id = keepSending /\ keepSending' = keepSending
           => onAir' = onAir]_vars
  <2> SUFFICES ASSUME IInv, HoldInv, [Next]_vars, OnAirHeld
               PROVE  onAir' = onAir
    BY DEF OnAirHeld
  <2>1. pc = "idle"
    BY DEF HoldInv
  <2> QED
    BY <2>1 DEF Next, Callback, SendResponse, SendResendRequest, SendCompletion,
       Task, TaskStart, TaskForget, TaskSize, TaskStop, TaskStopFails, TaskPop,
       TaskTransmit, TaskRetry, vars, taskVars
<1> QED
  BY <1>1, HoldInvariance, PTL DEF Spec, QosHeld

-----------------------------------------------------------------------------

\* The slots whose commands are not on air yet, in order, and all owners.
Waiting == IF element = None THEN list ELSE <<element>> \o list
Owners == IF InUse = None THEN Waiting ELSE Append(Waiting, InUse)

LEMMA WaitingFacts ==
  ASSUME IInv
  PROVE  /\ Waiting \in Seq(Slot) /\ Len(Waiting) \in Nat
         /\ \A i, j \in 1..Len(Waiting) : Waiting[i] = Waiting[j] => i = j
         /\ \A i \in 1..Len(Waiting) : Waiting[i] # InUse
         /\ \A s \in Slot : items[s].status # "EMPTY" <=>
              (\E i \in 1..Len(Waiting) : Waiting[i] = s) \/ s = InUse
         /\ Backlog = [k \in 1..Len(Waiting) |-> Command(Waiting[k])]
         /\ Len(Backlog) = Len(Waiting)
<1>1. /\ list \in Seq(Slot) /\ Len(list) \in Nat
      /\ element \in Slot \cup {None} /\ None \notin Slot
  BY DEF IInv, TypeOK, Slot, None
<1>2. /\ \A i, j \in 1..Len(list) : list[i] = list[j] => i = j
      /\ \A i \in 1..Len(list) : list[i] # element /\ list[i] # InUse
      /\ element # None => element # InUse
      /\ \A s \in Slot : items[s].status # "EMPTY" <=>
           (\E i \in 1..Len(list) : list[i] = s) \/ s = element \/ s = InUse
  BY DEF IInv, SlotsAccounted
<1>3. /\ Waiting \in Seq(Slot) /\ Len(Waiting) \in Nat
      /\ \A i, j \in 1..Len(Waiting) : Waiting[i] = Waiting[j] => i = j
      /\ \A i \in 1..Len(Waiting) : Waiting[i] # InUse
      /\ \A s \in Slot : items[s].status # "EMPTY" <=>
           (\E i \in 1..Len(Waiting) : Waiting[i] = s) \/ s = InUse
  <2>1. CASE element = None
    BY <1>1, <1>2, <2>1 DEF Waiting
  <2>2. CASE element # None
    <3> DEFINE w == Waiting
    <3>1. /\ w \in Seq(Slot) /\ Len(w) = Len(list) + 1 /\ w[1] = element
          /\ \A i \in 1..Len(list) : w[i + 1] = list[i] /\ i + 1 \in 1..Len(w)
          /\ 1 \in 1..Len(w)
      BY <1>1, <2>2 DEF Waiting
    <3>2. \A i \in 1..Len(w) : i = 1 \/ \E j \in 1..Len(list) : i = j + 1
      <4> TAKE i \in 1..Len(w)
      <4>1. i = 1 \/ (i - 1 \in 1..Len(list) /\ i = (i - 1) + 1)
        BY <1>1, <3>1
      <4> QED
        BY <4>1
    <3> HIDE DEF w
    <3>3. \A i, j \in 1..Len(w) : w[i] = w[j] => i = j
      <4> TAKE i, j \in 1..Len(w)
      <4>1. CASE i = 1 /\ j = 1
        BY <4>1
      <4>2. ASSUME NEW k \in 1..Len(list), i = k + 1, j = 1
            PROVE  w[i] # w[j]
        BY <1>2, <3>1, <4>2
      <4>3. ASSUME NEW k \in 1..Len(list), j = k + 1, i = 1
            PROVE  w[i] # w[j]
        BY <1>2, <3>1, <4>3
      <4>4. ASSUME NEW k \in 1..Len(list), NEW l \in 1..Len(list),
                   i = k + 1, j = l + 1, w[i] = w[j]
            PROVE  i = j
        <5>1. list[k] = list[l]
          BY <3>1, <4>4
        <5> QED
          BY <1>2, <4>4, <5>1
      <4> QED
        BY <3>2, <4>1, <4>2, <4>3, <4>4
    <3>4. \A i \in 1..Len(w) : w[i] # InUse
      <4> TAKE i \in 1..Len(w)
      <4>1. CASE i = 1
        BY <1>2, <2>2, <3>1, <4>1
      <4>2. ASSUME NEW k \in 1..Len(list), i = k + 1
            PROVE  w[i] # InUse
        BY <1>2, <3>1, <4>2
      <4> QED
        BY <3>2, <4>1, <4>2
    <3>5. ASSUME NEW s \in Slot
          PROVE  (\E i \in 1..Len(w) : w[i] = s)
                   <=> (\E i \in 1..Len(list) : list[i] = s) \/ s = element
      <4>1. ASSUME NEW i \in 1..Len(w), w[i] = s
            PROVE  (\E j \in 1..Len(list) : list[j] = s) \/ s = element
        BY <3>1, <3>2, <4>1
      <4>2. ASSUME NEW j \in 1..Len(list), list[j] = s
            PROVE  \E i \in 1..Len(w) : w[i] = s
        <5>1. j + 1 \in 1..Len(w) /\ w[j + 1] = s
          BY <3>1, <4>2
        <5> QED
          BY <5>1
      <4> QED
        BY <3>1, <4>1, <4>2
    <3> QED
      BY <1>1, <1>2, <3>1, <3>3, <3>4, <3>5 DEF w
  <2> QED
    BY <2>1, <2>2
<1>4. DOMAIN Waiting = 1..Len(Waiting)
  BY <1>3
<1>5. Backlog = [k \in 1..Len(Waiting) |-> Command(Waiting[k])]
  BY <1>4 DEF Backlog, Waiting
<1>6. Len(Backlog) = Len(Waiting)
  BY <1>3, <1>5
<1> QED
  BY <1>3, <1>5, <1>6

\* A slot is free only when the abstract outbox may have room, and none is
\* only when it may be full.
LEMMA RoomInOutbox ==
  ASSUME IInv, HoldInv
  PROVE  /\ FreeSlots # {} => Len(Waiting) < TxLen
         /\ FreeSlots = {} /\ Beacon = Out!Silent => Len(Waiting) >= TxLen
         /\ FreeSlots = {} => Len(Waiting) + 1 >= TxLen
<1> DEFINE n == Len(Owners)
<1>1. InUse \in Slot \cup {None} /\ None \notin Slot
  BY DEF IInv, TypeOK, InUse, Slot, None
<1>2. /\ n = Len(Waiting) + (IF InUse = None THEN 0 ELSE 1)
      /\ n \in Nat /\ Len(Waiting) \in Nat
      /\ Owners \in [1..n -> Slot]
      /\ Differ(Owners, n)
      /\ \A s \in Slot : (\E i \in 1..n : Owners[i] = s) <=> items[s].status # "EMPTY"
  <2> DEFINE w == Waiting
  <2>0. /\ w \in Seq(Slot) /\ Len(w) \in Nat
        /\ \A i, j \in 1..Len(w) : w[i] = w[j] => i = j
        /\ \A i \in 1..Len(w) : w[i] # InUse
        /\ \A s \in Slot : items[s].status # "EMPTY" <=>
             (\E i \in 1..Len(w) : w[i] = s) \/ s = InUse
    BY WaitingFacts
  <2> HIDE DEF w
  <2>1. CASE InUse = None
    <3>1. Owners = w
      BY <2>1 DEF Owners, w
    <3> QED
      BY <1>1, <2>0, <2>1, <3>1 DEF Differ, w
  <2>2. CASE InUse # None
    <3>1. Owners = Append(w, InUse) /\ InUse \in Slot
      BY <1>1, <2>2 DEF Owners, w
    <3>2. /\ Owners \in Seq(Slot) /\ n = Len(w) + 1 /\ Owners[Len(w) + 1] = InUse
      BY <2>0, <3>1
    <3>3. \A i \in 1..Len(w) : Owners[i] = w[i] /\ w[i] \in Slot
      BY <2>0, <3>1
    <3>4. n \in Nat /\ Owners \in [1..n -> Slot]
      BY <2>0, <3>2
    <3> HIDE DEF n
    <3>5. /\ \A i \in 1..n : i = Len(w) + 1 \/ i \in 1..Len(w)
          /\ \A i \in 1..Len(w) : i \in 1..n
          /\ Len(w) + 1 \in 1..n
      BY <2>0, <3>2
    <3>6. Differ(Owners, n)
      BY <2>0, <3>2, <3>3, <3>5 DEF Differ
    <3>7. ASSUME NEW s \in Slot
          PROVE  (\E i \in 1..n : Owners[i] = s)
                   <=> (\E i \in 1..Len(w) : w[i] = s) \/ s = InUse
      <4>1. ASSUME NEW i \in 1..n, Owners[i] = s
            PROVE  (\E j \in 1..Len(w) : w[j] = s) \/ s = InUse
        BY <3>2, <3>3, <3>5, <4>1
      <4>2. ASSUME NEW j \in 1..Len(w), w[j] = s
            PROVE  \E i \in 1..n : Owners[i] = s
        BY <3>3, <3>5, <4>2
      <4> QED
        BY <3>2, <3>5, <4>1, <4>2
    <3> QED
      BY <2>0, <2>2, <3>2, <3>4, <3>6, <3>7 DEF w
  <2> QED
    BY <2>1, <2>2
<1> HIDE DEF n
<1>3. n <= TxLen /\ (n = TxLen <=> Cover(Owners, n, TxLen))
  BY <1>2, AllTaken DEF Slot
<1>4. FreeSlots = {} <=> n = TxLen
  BY <1>2, <1>3 DEF FreeSlots, Cover, Slot
<1>5. Beacon = Out!Silent => InUse = None
  <2>1. ASSUME InUse # None
        PROVE  Beacon # Out!Silent
    <3>1. pc = "idle" /\ sendingElement # None
      BY <2>1 DEF InUse, IInv, TypeOK, TaskInv
    <3>2. Beacon.cmd # 0
      BY <3>1 DEF Beacon, HoldInv
    <3> QED
      BY <3>2 DEF Out!Silent
  <2> QED
    BY <2>1
<1> QED
  BY <1>2, <1>3, <1>4, <1>5

\* The commands that wait, for another value of keep_sending.
HeldBy(hold) ==
  [k \in 1..Len(Waiting) |->
     [cmd |-> items[Waiting[k]].id,
      held |-> items[Waiting[k]].qos /\ items[Waiting[k]].id = hold]]

\* bleSendCmd() puts a command behind the others, or drops it.
LEMMA SendToOutbox ==
  ASSUME IInv, HoldInv, NEW qos \in BOOLEAN, bleSendCmd(NextMessageId, qos),
         NEW hold, keepSending' = hold,
         UNCHANGED <<sendingElement, element, pc>>
  PROVE  Backlog' \in Out!AfterSend(HeldBy(hold),
                        [cmd |-> NextMessageId,
                         held |-> qos /\ NextMessageId = hold])
<1> DEFINE e == [cmd |-> NextMessageId, held |-> qos /\ NextMessageId = hold]
           w == Waiting
           q == HeldBy(hold)
<1>1. /\ w \in Seq(Slot) /\ Len(w) \in Nat
      /\ \A s \in Slot : items[s].status # "EMPTY" <=>
           (\E i \in 1..Len(w) : w[i] = s) \/ s = InUse
  BY WaitingFacts
<1> DEFINE S == [cmd : 0..IdMax, held : BOOLEAN]
<1>2. q \in Seq(S) /\ Len(q) = Len(w) /\ DOMAIN q = 1..Len(w) /\ e \in S
  <2>1. \A k \in 1..Len(w) : w[k] \in Slot /\ items[w[k]].id \in 0..IdMax
    BY <1>1 DEF IInv, TypeOK, Item
  <2>2. q \in [1..Len(w) -> S]
    BY <2>1 DEF HeldBy
  <2>3. NextMessageId \in 0..IdMax
    BY DEF NextMessageId, IInv, TypeOK
  <2>4. e \in S
    BY <2>3
  <2> HIDE DEF q, w, e, S
  <2> QED
    BY <1>1, <2>2, <2>4
<1>3. CASE FreeSlots = {}
  <2>1. items' = items /\ list' = list
    BY <1>3 DEF bleSendCmd
  <2>2. Waiting' = w
    BY <2>1 DEF Waiting
  <2>3. Backlog' = [k \in DOMAIN Waiting' |->
                      [cmd |-> items'[Waiting'[k]].id,
                       held |-> items'[Waiting'[k]].qos /\ items'[Waiting'[k]].id = hold]]
    BY DEF Backlog, Waiting, Command
  <2>4. Backlog' = q
    BY <1>1, <2>1, <2>2, <2>3 DEF HeldBy
  <2>5. Out!Taken(q) >= TxLen
    <3>1. Beacon = Out!Silent => Len(w) >= TxLen
      BY <1>3, RoomInOutbox
    <3>2. Len(w) + 1 >= TxLen
      BY <1>3, RoomInOutbox
    <3> QED
      BY <1>1, <1>2, <3>1, <3>2 DEF Out!Taken
  <2> HIDE DEF q, w
  <2> QED
    BY <2>4, <2>5 DEF Out!AfterSend, q
<1>4. CASE FreeSlots # {}
  <2>1. PICK s \in FreeSlots :
          /\ items' = [items EXCEPT ![s] =
                         [status |-> "SEND", qos |-> qos, id |-> NextMessageId]]
          /\ list' = Append(list, s)
    BY <1>4 DEF bleSendCmd
  <2>2. /\ s \in Slot /\ items[s].status = "EMPTY" /\ items \in [Slot -> Item]
        /\ list \in Seq(Slot) /\ element \in Slot \cup {None}
    BY <2>1 DEF FreeSlots, IInv, TypeOK
  <2>3. Waiting' = Append(w, s)
    BY <2>1, <2>2 DEF Waiting, None, Slot
  <2>4. /\ DOMAIN Append(w, s) = 1..Len(w) + 1
        /\ \A k \in 1..Len(w) : Append(w, s)[k] = w[k]
        /\ Append(w, s)[Len(w) + 1] = s
    BY <1>1, <2>2
  <2>5. \A k \in 1..Len(w) : w[k] \in Slot /\ w[k] # s /\ items'[w[k]] = items[w[k]]
    BY <1>1, <2>1, <2>2
  <2>6. Backlog' = [k \in DOMAIN Waiting' |->
                      [cmd |-> items'[Waiting'[k]].id,
                       held |-> items'[Waiting'[k]].qos /\ items'[Waiting'[k]].id = hold]]
    BY DEF Backlog, Waiting, Command
  <2> HIDE DEF w
  <2>7. Backlog' = [k \in 1..Len(w) + 1 |->
                      [cmd |-> items'[Append(w, s)[k]].id,
                       held |-> /\ items'[Append(w, s)[k]].qos
                                /\ items'[Append(w, s)[k]].id = hold]]
    BY <2>3, <2>4, <2>6
  <2>8. \A k \in 1..Len(w) : Backlog'[k] = q[k]
    <3> TAKE k \in 1..Len(w)
    <3>1. k \in 1..Len(w) + 1 /\ Append(w, s)[k] = w[k] /\ items'[w[k]] = items[w[k]]
      BY <1>1, <2>4, <2>5
    <3>2. Backlog'[k] = [cmd |-> items[w[k]].id,
                         held |-> items[w[k]].qos /\ items[w[k]].id = hold]
      BY <2>7, <3>1
    <3> QED
      BY <3>2 DEF HeldBy, w
  <2>9. Backlog'[Len(w) + 1] = e
    <3>1. Len(w) + 1 \in 1..Len(w) + 1 /\ items'[s].id = NextMessageId
          /\ items'[s].qos = qos
      BY <1>1, <2>1, <2>2
    <3> QED
      BY <2>4, <2>7, <3>1
  <2> HIDE DEF q, e, S
  <2>10. Backlog' = Append(q, e)
    <3> DEFINE a == Append(q, e)
               b == Backlog'
    <3>1. /\ DOMAIN a = 1..Len(w) + 1
          /\ \A k \in 1..Len(w) : a[k] = q[k]
          /\ a[Len(w) + 1] = e
          /\ a = [k \in DOMAIN a |-> a[k]]
      <4>1. /\ a \in Seq(S) /\ Len(a) = Len(q) + 1
            /\ \A k \in 1..Len(q) : a[k] = q[k]
            /\ a[Len(q) + 1] = e
        BY <1>1, <1>2
      <4> HIDE DEF a
      <4> QED
        BY <1>2, <4>1
    <3>2. DOMAIN b = 1..Len(w) + 1 /\ b = [k \in DOMAIN b |-> b[k]]
      BY <2>7
    <3>3. (\A k \in 1..Len(w) : b[k] = q[k]) /\ b[Len(w) + 1] = e
      BY <2>8, <2>9
    <3> HIDE DEF a, b
    <3>4. \A k \in 1..Len(w) + 1 : a[k] = b[k]
      <4>1. \A k \in 1..Len(w) + 1 : k \in 1..Len(w) \/ k = Len(w) + 1
        BY <1>1
      <4> QED
        BY <3>1, <3>3, <4>1
    <3>5. a = b
      BY <3>1, <3>2, <3>4
    <3> QED
      BY <3>5 DEF a, b
  <2>11. Append(q, e) # q
    <3>1. Len(Append(q, e)) = Len(q) + 1 /\ Len(q) \in Nat
      BY <1>1, <1>2
    <3> QED
      BY <3>1
  <2>12. Len(q) < TxLen
    BY <1>2, <1>4, RoomInOutbox DEF w
  <2> QED
    BY <2>10, <2>11, <2>12 DEF Out!AfterSend, q, e
<1> QED
  BY <1>3, <1>4

LEMMA NotHeld ==
  \A x, b, f : [[cmd |-> x, held |-> b] EXCEPT !.held = f] = [cmd |-> x, held |-> f]
OBVIOUS

\* When keep_sending names none of them, no command is held any more.
LEMMA ReleasedBacklog ==
  ASSUME IInv, NEW hold,
         \A s \in Slot : items[s].status # "EMPTY" =>
                           ~(items[s].qos /\ items[s].id = hold)
  PROVE  HeldBy(hold) = Out!Release(Backlog)
<1>1. /\ Waiting \in Seq(Slot) /\ Len(Waiting) \in Nat
      /\ Backlog = [k \in 1..Len(Waiting) |-> Command(Waiting[k])]
      /\ \A s \in Slot : items[s].status # "EMPTY" <=>
           (\E i \in 1..Len(Waiting) : Waiting[i] = s) \/ s = InUse
  BY WaitingFacts
<1>2. \A k \in 1..Len(Waiting) :
        (items[Waiting[k]].qos /\ items[Waiting[k]].id = hold) = FALSE
  BY <1>1
<1>3. \A k \in 1..Len(Waiting) :
        [Command(Waiting[k]) EXCEPT !.held = FALSE]
          = [cmd |-> items[Waiting[k]].id, held |-> FALSE]
  BY NotHeld, Zenon DEF Command
<1>4. Out!Release(Backlog) =
        [k \in 1..Len(Waiting) |-> [cmd |-> items[Waiting[k]].id, held |-> FALSE]]
  BY <1>1, <1>3 DEF Out!Release
<1>5. HeldBy(hold) =
        [k \in 1..Len(Waiting) |-> [cmd |-> items[Waiting[k]].id, held |-> FALSE]]
  BY <1>2 DEF HeldBy
<1> QED
  BY <1>4, <1>5

LEMMA ReleasedBeacon ==
  ASSUME IInv, onAir' = onAir, ~(onAir.qos /\ onAir.id = keepSending')
  PROVE  Beacon' = [Beacon EXCEPT !.held = FALSE]
<1>1. (onAir'.qos /\ onAir'.id = keepSending') = FALSE
  OBVIOUS
<1>2. Beacon' = [cmd |-> onAir.id, held |-> FALSE]
  BY <1>1 DEF Beacon
<1>3. [Beacon EXCEPT !.held = FALSE] = [cmd |-> onAir.id, held |-> FALSE]
  <2>1. PICK b : Beacon = [cmd |-> onAir.id, held |-> b]
    BY Zenon DEF Beacon
  <2> QED
    BY <2>1, NotHeld, Zenon
<1> QED
  BY <1>2, <1>3

LEMMA RefineCallback ==
  ASSUME IInv, HoldInv, Callback
  PROVE  Out!Next
<1> DEFINE c == NextMessageId
<1>1. /\ c \in Id /\ c # 0 /\ c # onAir.id /\ IdHorizon
      /\ UNCHANGED <<sendingElement, element, pc, onAir>>
  BY CallbackFacts DEF Callback, SendResponse, SendResendRequest, SendCompletion
<1>2. CASE SendResponse
  <2>1. /\ bleSendCmd(c, FALSE) /\ keepSending' = keepSending
        /\ UNCHANGED <<sendingElement, element, pc>>
    BY <1>1, <1>2 DEF SendResponse
  <2>2. HeldBy(keepSending) = Backlog
    BY WaitingFacts DEF HeldBy, Command
  <2>3. Backlog' \in Out!AfterSend(HeldBy(keepSending),
                       [cmd |-> c, held |-> FALSE /\ c = keepSending])
    <3> HIDE DEF c
    <3> QED
      BY <2>1, SendToOutbox DEF c
  <2>4. (FALSE /\ c = keepSending) = FALSE
    OBVIOUS
  <2>5. Beacon' = Beacon
    BY <1>1, <2>1 DEF Beacon
  <2>6. Out!SendPlain(c)
    BY <2>2, <2>3, <2>4, <2>5 DEF Out!SendPlain
  <2> QED
    BY <1>1, <2>6 DEF Out!Next
<1>3. CASE SendResendRequest
  <2>1. /\ bleSendCmd(c, TRUE) /\ keepSending' = c
        /\ UNCHANGED <<sendingElement, element, pc>>
    BY <1>1, <1>3 DEF SendResendRequest
  <2>2. HeldBy(c) = Out!Release(Backlog)
    <3>1. \A s \in Slot : items[s].status # "EMPTY" => ~(items[s].qos /\ items[s].id = c)
      BY <1>1 DEF IdHorizon
    <3> HIDE DEF c
    <3> QED
      BY <3>1, ReleasedBacklog
  <2>3. Backlog' \in Out!AfterSend(HeldBy(c), [cmd |-> c, held |-> TRUE /\ c = c])
    <3> HIDE DEF c
    <3> QED
      BY <2>1, SendToOutbox DEF c
  <2>4. (TRUE /\ c = c) = TRUE
    OBVIOUS
  <2>5. Beacon' = [Beacon EXCEPT !.held = FALSE]
    BY <1>1, <2>1, ReleasedBeacon
  <2>6. Out!SendHeld(c)
    BY <2>2, <2>3, <2>4, <2>5 DEF Out!SendHeld
  <2> QED
    BY <1>1, <2>6 DEF Out!Next
<1>4. CASE SendCompletion
  <2>1. /\ bleSendCmd(c, FALSE) /\ keepSending' = 0
        /\ UNCHANGED <<sendingElement, element, pc>>
    BY <1>1, <1>4 DEF SendCompletion
  <2>2. HeldBy(0) = Out!Release(Backlog)
    <3>1. \A s \in Slot : items[s].status # "EMPTY" => ~(items[s].qos /\ items[s].id = 0)
      BY DEF HoldInv
    <3> QED
      BY <3>1, ReleasedBacklog
  <2>3. Backlog' \in Out!AfterSend(HeldBy(0), [cmd |-> c, held |-> FALSE /\ c = 0])
    <3> HIDE DEF c
    <3> QED
      BY <2>1, SendToOutbox DEF c
  <2>4. (FALSE /\ c = 0) = FALSE
    OBVIOUS
  <2>5. Beacon' = [Beacon EXCEPT !.held = FALSE]
    BY <1>1, <2>1, ReleasedBeacon DEF HoldInv
  <2>6. Out!SendLast(c)
    BY <2>2, <2>3, <2>4, <2>5 DEF Out!SendLast
  <2> QED
    BY <1>1, <2>6 DEF Out!Next
<1> QED
  BY <1>2, <1>3, <1>4 DEF Callback

\* Steps of the task before and after the beacon changes are not seen.
LEMMA RefineHidden ==
  ASSUME IInv, HoldInv,
         \/ TaskStart \/ TaskForget \/ TaskSize \/ TaskStopFails
         \/ TaskPop \/ TaskRetry \/ UNCHANGED vars
  PROVE  UNCHANGED Out!vars
<1>1. UNCHANGED <<onAir, keepSending>>
  BY DEF TaskStart, TaskForget, TaskSize, TaskStopFails, TaskPop, TaskRetry,
     vars, taskVars
<1>2. Beacon' = Beacon
  BY <1>1 DEF Beacon
<1>3. /\ Waiting \in Seq(Slot)
      /\ list \in Seq(Slot) /\ items \in [Slot -> Item] /\ element \in Slot \cup {None}
      /\ sendingElement \in Slot \cup {None}
      /\ None \notin Slot
  BY WaitingFacts DEF IInv, TypeOK, Slot, None
<1>4. Waiting' = Waiting
  <2>1. CASE TaskPop
    <3>1. list # <<>> /\ element = None /\ element' = Head(list) /\ list' = Tail(list)
          /\ Head(list) \in Slot
      BY <1>3, <2>1 DEF TaskPop, IInv, TaskInv
    <3>2. <<Head(list)>> \o Tail(list) = list
      BY <1>3, <3>1
    <3> QED
      BY <1>3, <3>1, <3>2 DEF Waiting
  <2>2. CASE TaskRetry
    BY <1>3, <2>2 DEF TaskRetry, Waiting, IInv, TaskInv
  <2>3. CASE UNCHANGED <<list, element>>
    BY <2>3 DEF Waiting
  <2> QED
    BY <2>1, <2>2, <2>3 DEF TaskStart, TaskForget, TaskSize, TaskStopFails,
       vars, taskVars
<1>5. \A s \in Slot : items'[s].id = items[s].id /\ items'[s].qos = items[s].qos
  <2>1. CASE TaskStart /\ sendingElement # None
    <3>1. items[sendingElement] \in Item
          /\ items' = [items EXCEPT ![sendingElement].status = "EMPTY"]
          /\ sendingElement \in Slot
      BY <1>3, <2>1 DEF TaskStart
    <3> QED
      BY <1>3, <3>1 DEF Item
  <2>2. CASE items' = items
    BY <2>2
  <2> QED
    BY <2>1, <2>2 DEF TaskStart, TaskForget, TaskSize, TaskStopFails, TaskPop,
       TaskRetry, vars, taskVars
<1>6. Backlog' = Backlog
  <2>1. Backlog = [k \in DOMAIN Waiting |->
                    [cmd |-> items[Waiting[k]].id,
                     held |-> items[Waiting[k]].qos /\ items[Waiting[k]].id = keepSending]]
    BY DEF Backlog, Waiting, Command
  <2>2. Backlog' = [k \in DOMAIN Waiting' |->
                    [cmd |-> items'[Waiting'[k]].id,
                     held |-> items'[Waiting'[k]].qos /\ items'[Waiting'[k]].id = keepSending']]
    BY DEF Backlog, Waiting, Command
  <2>3. \A k \in DOMAIN Waiting : Waiting[k] \in Slot
    BY <1>3
  <2> HIDE DEF Waiting
  <2> QED
    BY <1>1, <1>4, <1>5, <2>1, <2>2, <2>3
<1> QED
  BY <1>2, <1>6 DEF Out!vars

\* The task that stops switches the beacon off.
LEMMA RefineStop ==
  ASSUME IInv, HoldInv, TaskStop
  PROVE  Out!SwitchOff
<1>1. /\ pc # "idle" /\ onAir' = Off
      /\ UNCHANGED <<items, list, element, keepSending>>
  BY DEF TaskStop
<1>2. ~Beacon.held
  BY <1>1 DEF HoldInv, OnAirHeld, Beacon
<1>3. Beacon' = Out!Silent
  <2>1. onAir'.id = 0 /\ (onAir'.qos /\ onAir'.id = keepSending') = FALSE
    BY <1>1 DEF Off
  <2> QED
    BY <2>1 DEF Beacon, Out!Silent
<1>4. Backlog' = Backlog
  BY <1>1 DEF Backlog, Command
<1> QED
  BY <1>2, <1>3, <1>4 DEF Out!SwitchOff

\* The task that transmits puts the oldest command on air.
LEMMA RefineTransmit ==
  ASSUME IInv, HoldInv, TaskTransmit
  PROVE  Out!Advance
<1>1. /\ pc = "tx" /\ element \in Slot /\ element # None
      /\ onAir' = [id |-> items[element].id, qos |-> items[element].qos]
      /\ items' = [items EXCEPT ![element].status = "SENDING"]
      /\ element' = None /\ list' = list /\ keepSending' = keepSending
      /\ list \in Seq(Slot) /\ items \in [Slot -> Item] /\ Len(list) \in Nat
  BY DEF TaskTransmit, IInv, TypeOK, TaskInv, Return
<1>2. ~Beacon.held
  BY <1>1 DEF HoldInv, OnAirHeld, Beacon
<1>3. /\ Len(Waiting) = Len(list) + 1 /\ Waiting[1] = element
      /\ \A k \in 1..Len(list) : Waiting[k + 1] = list[k]
  BY <1>1 DEF Waiting
<1>4. /\ Backlog = [k \in 1..Len(Waiting) |-> Command(Waiting[k])]
      /\ Len(Backlog) = Len(Waiting)
  BY WaitingFacts
<1>5. \A s \in Slot : items'[s].id = items[s].id /\ items'[s].qos = items[s].qos
  BY <1>1 DEF Item
<1>6. Backlog' = [k \in 1..Len(list) |-> Command(list[k])]
  <2>1. Backlog' = [k \in DOMAIN list |->
                      [cmd |-> items'[list[k]].id,
                       held |-> items'[list[k]].qos /\ items'[list[k]].id = keepSending]]
    BY <1>1 DEF Backlog, Command
  <2>2. DOMAIN list = 1..Len(list) /\ \A k \in 1..Len(list) : list[k] \in Slot
    BY <1>1
  <2> QED
    BY <1>5, <2>1, <2>2 DEF Command
<1>7. Backlog \in Seq({Command(s) : s \in Slot})
  <2>1. \A k \in 1..Len(Waiting) : Waiting[k] \in Slot
    BY WaitingFacts
  <2>2. Backlog \in [1..Len(Waiting) -> {Command(s) : s \in Slot}]
    BY <1>4, <2>1
  <2> HIDE DEF Backlog
  <2> QED
    BY <1>1, <1>3, <2>2
<1>8. Backlog # <<>> /\ Head(Backlog) = Command(element)
  BY <1>1, <1>3, <1>4, <1>7
<1>9. Tail(Backlog) = Backlog'
  <2> DEFINE t == Tail(Backlog)
             b == Backlog'
  <2>1. t = [k \in 1..Len(list) |-> Backlog[k + 1]]
    BY <1>1, <1>3, <1>4, <1>7, <1>8
  <2>2. \A k \in 1..Len(list) : Backlog[k + 1] = Command(list[k])
    BY <1>1, <1>3, <1>4
  <2> HIDE DEF t, b
  <2>3. t = [k \in 1..Len(list) |-> Command(list[k])]
    BY <2>1, <2>2
  <2> QED
    BY <1>6, <2>3 DEF t, b
<1>10. Beacon' = Command(element)
  <2>1. onAir'.id = items[element].id /\ onAir'.qos = items[element].qos
    BY <1>1
  <2> QED
    BY <1>1, <2>1 DEF Beacon, Command
<1> QED
  BY <1>2, <1>8, <1>9, <1>10 DEF Out!Advance

\* Slots, list, popped item and beacon behave like a first-in first-out outbox:
\* no command accepted is lost, repeated or overtaken, and one is dropped only
\* when every slot is taken. (ble.c:242-265, 560-655)
THEOREM TxIsOutbox == Spec => Out!Spec
<1>1. Init => Out!Init
  <2> SUFFICES ASSUME Init PROVE Out!Init
    OBVIOUS
  <2>1. Backlog = <<>>
    BY DEF Init, Backlog, None
  <2>2. (onAir.qos /\ onAir.id = keepSending) = FALSE /\ onAir.id = 0
    BY DEF Init, Off
  <2>3. Beacon = Out!Silent
    BY <2>2 DEF Beacon, Out!Silent
  <2> QED
    BY <2>1, <2>3 DEF Out!Init
<1>2. IInv /\ HoldInv /\ [Next]_vars => [Out!Next]_(Out!vars)
  BY RefineCallback, RefineHidden, RefineStop, RefineTransmit
     DEF Next, Task, Out!Next
<1> QED
  BY <1>1, <1>2, HoldInvariance, PTL DEF Spec, Out!Spec

=============================================================================
