------------------------------ MODULE SmProofs ------------------------------
(***************************************************************************)
(* Proofs about the state machine engine of module Sm, for every event     *)
(* matrix, number of slots and interleaving of Sm_fireEvent() with         *)
(* Sm_handleEvents().                                                      *)
(*                                                                         *)
(* No slot is lost or shared because a slot is taken only when it is free  *)
(* and given back only by the handler that popped it; that needs to know   *)
(* that the handler holds a slot exactly between the two.                  *)
(***************************************************************************)
EXTENDS Sm, SlotCount, WellFoundedInduction

\* The handler holds a slot from the pop until it gives it back.
SlotHeld == slot # NoSlot <=> pc \in {"handle", "free"}

\* The task that is about to stop has been asked for again if events arrived.
StopInv == pc = "stop" /\ box.queue # <<>> => scheduled

IInv ==
  /\ TypeOK
  /\ SlotHeld
  /\ EventsAccounted
  /\ StopInv
  /\ AwakeForEvents

LEMMA BoxFields ==
  ASSUME NEW b \in Box
  PROVE  /\ b.slots \in [Slot -> Event \cup {NoEvent}]
         /\ b.queue \in Seq(Slot)
         /\ b = [slots |-> b.slots, queue |-> b.queue]
  BY DEF Box

\* The first free slot is free.
LEMMA FirstFreeIsFree ==
  ASSUME NEW b \in Box, FreeSlots(b) # {}
  PROVE  FirstFree(b) \in FreeSlots(b)
<1> DEFINE R == OpToRel(<, Nat)
<1>1. IsWellFoundedOn(R, Nat)
  BY NatLessThanWellFounded
<1>2. FreeSlots(b) \subseteq Nat
  BY SmAssumption DEF FreeSlots, Slot
<1>3. \A x, y \in Nat : <<y, x>> \in R <=> y < x
  BY DEF OpToRel
<1> HIDE DEF R
<1>4. \E x \in FreeSlots(b) : \A y \in FreeSlots(b) : x <= y
  <2> DEFINE T == FreeSlots(b)
  <2>1. T \subseteq Nat /\ T # {}
    BY <1>2
  <2> HIDE DEF T
  <2>2. PICK x \in T : \A y \in T : ~ (<<y, x>> \in R)
    BY <1>1, <2>1, WFMin
  <2>3. \A y \in T : x <= y
    <3> TAKE y \in T
    <3>1. x \in Nat /\ y \in Nat /\ ~(y < x)
      BY <1>3, <2>1, <2>2
    <3> QED
      BY <3>1
  <2> QED
    BY <2>2, <2>3 DEF T
<1> QED
  BY <1>4 DEF FirstFree

LEMMA PutSpec ==
  ASSUME NEW b \in Box, NEW e \in Event
  PROVE  /\ Put(b, e) \in Box
         /\ \/ Put(b, e) = b
            \/ \E s \in FreeSlots(b) :
                 Put(b, e) = [slots |-> [b.slots EXCEPT ![s] = e],
                              queue |-> Append(b.queue, s)]
<1>1. CASE FreeSlots(b) = {}
  BY <1>1 DEF Put
<1>2. CASE FreeSlots(b) # {}
  <2> DEFINE s == FirstFree(b)
  <2>1. s \in FreeSlots(b) /\ s \in Slot
    BY <1>2, FirstFreeIsFree DEF FreeSlots
  <2>2. Put(b, e) = [slots |-> [b.slots EXCEPT ![s] = e],
                     queue |-> Append(b.queue, s)]
    BY <1>2 DEF Put
  <2> HIDE DEF s
  <2>3. Append(b.queue, s) \in Seq(Slot)
    BY <2>1, BoxFields
  <2>4. [b.slots EXCEPT ![s] = e] \in [Slot -> Event \cup {NoEvent}]
    BY <2>1, BoxFields
  <2>5. Put(b, e) \in Box
    BY <2>2, <2>3, <2>4 DEF Box
  <2> QED
    BY <2>1, <2>2, <2>5
<1> QED
  BY <1>1, <1>2

LEMMA InitIInv == Init => IInv
<1> SUFFICES ASSUME Init PROVE IInv
  OBVIOUS
<1>1. box = [slots |-> [s \in Slot |-> NoEvent], queue |-> <<>>]
  BY DEF Init, EmptyBox
<1>2. box \in Box
  BY <1>1 DEF Box
<1>3. TypeOK
  BY <1>2, SmAssumption DEF Init, TypeOK
<1>4. EventsAccounted
  <2>1. Len(box.queue) = 0 /\ \A s \in Slot : box.slots[s] = NoEvent
    BY <1>1
  <2>2. \A s \in Slot : s # NoSlot
    BY SmAssumption DEF Slot, NoSlot
  <2> QED
    BY <2>1, <2>2 DEF Init, EventsAccounted
<1> QED
  BY <1>1, <1>3, <1>4 DEF Init, IInv, SlotHeld, StopInv, AwakeForEvents

LEMMA FireStep ==
  ASSUME IInv, NEW e \in Event, Sm_fireEvent(e)
  PROVE  IInv'
<1>1. box \in Box /\ box' \in Box
  BY PutSpec DEF IInv, TypeOK, Sm_fireEvent
<1>2. TypeOK' /\ SlotHeld' /\ StopInv' /\ AwakeForEvents'
  BY <1>1 DEF IInv, TypeOK, SlotHeld, StopInv, AwakeForEvents,
     Sm_fireEvent, handler
<1>3. EventsAccounted'
  <2>1. slot' = slot
    BY DEF Sm_fireEvent, handler
  <2>2. CASE box' = box
    BY <2>1, <2>2 DEF IInv, EventsAccounted
  <2>3. ASSUME NEW f \in FreeSlots(box),
               box' = [slots |-> [box.slots EXCEPT ![f] = e],
                       queue |-> Append(box.queue, f)]
        PROVE  EventsAccounted'
    <3> DEFINE q == box.queue
               r == box'.queue
    <3>1. q \in Seq(Slot) /\ f \in Slot /\ box.slots[f] = NoEvent /\ e # NoEvent
      BY <1>1, <2>3, BoxFields, SmAssumption DEF FreeSlots
    <3>2. /\ Len(r) = Len(q) + 1 /\ Len(q) \in Nat
          /\ \A i \in 1..Len(q) : r[i] = q[i]
          /\ r[Len(q) + 1] = f
      BY <2>3, <3>1
    <3>3. \A i \in 1..Len(q) : q[i] # f
      BY <3>1 DEF IInv, EventsAccounted
    <3>4. f # slot
      BY <3>1 DEF IInv, EventsAccounted
    <3>5. \A s \in Slot : box'.slots[s] = IF s = f THEN e ELSE box.slots[s]
      BY <1>1, <2>3, BoxFields
    <3>0. /\ \A i, j \in 1..Len(q) : q[i] = q[j] => i = j
          /\ \A i \in 1..Len(q) : q[i] # slot
      BY DEF IInv, EventsAccounted
    <3> HIDE DEF q, r
    <3>6. \A i \in 1..Len(r) : i \in 1..Len(q) \/ i = Len(q) + 1
      BY <3>2
    <3>7. \A i \in 1..Len(q) : i \in 1..Len(r)
      BY <3>2
    <3>8. Len(q) + 1 \in 1..Len(r)
      BY <3>2
    <3>9. \A i, j \in 1..Len(r) : r[i] = r[j] => i = j
      BY <3>0, <3>2, <3>3, <3>6
    <3>10. \A i \in 1..Len(r) : r[i] # slot
      <4> TAKE i \in 1..Len(r)
      <4>1. CASE i \in 1..Len(q)
        <5>1. r[i] = q[i] /\ q[i] # slot
          BY <3>0, <3>2, <4>1
        <5> QED
          BY <5>1
      <4>2. CASE i = Len(q) + 1
        BY <3>2, <3>4, <4>2
      <4> QED
        BY <3>6, <4>1, <4>2
    <3>11. \A s \in Slot : (\E i \in 1..Len(r) : r[i] = s)
                             <=> (\E i \in 1..Len(q) : q[i] = s) \/ s = f
      <4> TAKE s \in Slot
      <4>1. ASSUME NEW i \in 1..Len(r), r[i] = s
            PROVE  (\E j \in 1..Len(q) : q[j] = s) \/ s = f
        <5>1. CASE i \in 1..Len(q)
          <6>1. q[i] = s
            BY <3>2, <4>1, <5>1
          <6> QED
            BY <5>1, <6>1
        <5>2. CASE i = Len(q) + 1
          BY <3>2, <4>1, <5>2
        <5> QED
          BY <3>6, <5>1, <5>2
      <4>2. ASSUME NEW j \in 1..Len(q), q[j] = s
            PROVE  \E i \in 1..Len(r) : r[i] = s
        <5>1. j \in 1..Len(r) /\ r[j] = s
          BY <3>2, <3>7, <4>2
        <5> QED
          BY <5>1
      <4>3. ASSUME s = f
            PROVE  \E i \in 1..Len(r) : r[i] = s
        BY <3>2, <3>8, <4>3
      <4> QED
        BY <4>1, <4>2, <4>3
    <3>12. \A s \in Slot : box'.slots[s] # NoEvent
             <=> (\E i \in 1..Len(r) : r[i] = s) \/ s = slot
      BY <3>1, <3>5, <3>11 DEF IInv, EventsAccounted, q
    <3> QED
      BY <2>1, <3>9, <3>10, <3>12 DEF EventsAccounted, r
  <2> QED
    BY <1>1, <2>2, <2>3, PutSpec DEF Sm_fireEvent
<1> QED
  BY <1>2, <1>3 DEF IInv

LEMMA StartStep == IInv /\ Start => IInv'
<1> SUFFICES ASSUME IInv, Start PROVE IInv'
  OBVIOUS
<1>1. CASE box.queue = <<>>
  <2>1. UNCHANGED <<box, slot, pc, currentState, exitAction>>
          /\ scheduled' = FALSE
          /\ pc = "idle"
    BY <1>1 DEF Start
  <2>2. TypeOK'
    BY <2>1 DEF IInv, TypeOK
  <2>3. EventsAccounted'
    BY <2>1 DEF IInv, EventsAccounted
  <2>4. SlotHeld' /\ StopInv' /\ AwakeForEvents'
    BY <1>1, <2>1 DEF IInv, SlotHeld, StopInv, AwakeForEvents
  <2> QED
    BY <2>2, <2>3, <2>4 DEF IInv
<1>2. CASE box.queue # <<>>
  <2> DEFINE q == box.queue
             r == box'.queue
  <2>1. /\ box \in Box /\ q \in Seq(Slot) /\ q # <<>>
        /\ box.slots \in [Slot -> Event \cup {NoEvent}]
    BY <1>2, BoxFields DEF IInv, TypeOK
  <2>2. /\ slot' = Head(q) /\ box' = [box EXCEPT !.queue = Tail(@)]
        /\ pc' = "handle" /\ scheduled' = FALSE /\ pc = "idle"
        /\ UNCHANGED <<currentState, exitAction>>
    BY <1>2 DEF Start
  <2>3. r = Tail(q) /\ box'.slots = box.slots /\ box' \in Box
    <3>1. box' = [slots |-> box.slots, queue |-> Tail(q)]
      BY <2>1, <2>2 DEF Box
    <3>2. Tail(q) \in Seq(Slot)
      BY <2>1
    <3> HIDE DEF q
    <3> QED
      BY <2>1, <3>1, <3>2 DEF Box, r
  <2>4. /\ \A i, j \in 1..Len(q) : q[i] = q[j] => i = j
        /\ slot = NoSlot
        /\ \A s \in Slot : box.slots[s] # NoEvent <=>
             (\E i \in 1..Len(q) : q[i] = s) \/ s = slot
    BY <2>2 DEF IInv, EventsAccounted, SlotHeld
  <2>5. \A s \in Slot : s # NoSlot
    BY SmAssumption DEF Slot, NoSlot
  <2> HIDE DEF q, r
  <2>6. /\ Len(r) \in Nat /\ Len(q) = Len(r) + 1
        /\ \A i \in 1..Len(r) : r[i] = q[i + 1] /\ i + 1 \in 1..Len(q)
        /\ 1 \in 1..Len(q) /\ q[1] = slot' /\ slot' \in Slot
    BY <2>1, <2>2, <2>3
  <2>7. \A i \in 1..Len(q) : i = 1 \/ \E j \in 1..Len(r) : i = j + 1
    <3> TAKE i \in 1..Len(q)
    <3>1. i = 1 \/ (i - 1 \in 1..Len(r) /\ i = (i - 1) + 1)
      BY <2>6
    <3> QED
      BY <3>1
  <2>8. \A i, j \in 1..Len(r) : r[i] = r[j] => i = j
    <3> TAKE i, j \in 1..Len(r)
    <3>1. r[i] = r[j] => i + 1 = j + 1
      BY <2>4, <2>6
    <3> QED
      BY <2>6, <3>1
  <2>9. \A i \in 1..Len(r) : r[i] # slot'
    <3> TAKE i \in 1..Len(r)
    <3>1. r[i] = slot' => i + 1 = 1
      BY <2>4, <2>6
    <3> QED
      BY <2>6, <3>1
  <2>10. \A s \in Slot : box'.slots[s] # NoEvent <=>
           (\E i \in 1..Len(r) : r[i] = s) \/ s = slot'
    <3> TAKE s \in Slot
    <3>1. box'.slots[s] # NoEvent <=> \E i \in 1..Len(q) : q[i] = s
      BY <2>3, <2>4, <2>5
    <3>2. ASSUME NEW i \in 1..Len(q), q[i] = s
          PROVE  (\E j \in 1..Len(r) : r[j] = s) \/ s = slot'
      <4>1. CASE i = 1
        BY <2>6, <3>2, <4>1
      <4>2. ASSUME NEW j \in 1..Len(r), i = j + 1
            PROVE  \E k \in 1..Len(r) : r[k] = s
        <5>1. r[j] = s
          BY <2>6, <3>2, <4>2
        <5> QED
          BY <5>1
      <4> QED
        BY <2>7, <4>1, <4>2
    <3>3. ASSUME NEW j \in 1..Len(r), r[j] = s
          PROVE  \E i \in 1..Len(q) : q[i] = s
      <4>1. j + 1 \in 1..Len(q) /\ q[j + 1] = s
        BY <2>6, <3>3
      <4> QED
        BY <4>1
    <3>4. s = slot' => \E i \in 1..Len(q) : q[i] = s
      BY <2>6
    <3> QED
      BY <3>1, <3>2, <3>3, <3>4
  <2>11. EventsAccounted'
    BY <2>8, <2>9, <2>10 DEF EventsAccounted, r
  <2>12. TypeOK'
    <3>1. /\ box' \in Box /\ currentState' \in State /\ slot' \in Slot
          /\ pc' = "handle" /\ scheduled' \in BOOLEAN
      BY <2>2, <2>3, <2>6 DEF IInv, TypeOK
    <3> QED
      BY <3>1 DEF TypeOK
  <2> QED
    BY <2>2, <2>5, <2>6, <2>11, <2>12
       DEF IInv, SlotHeld, StopInv, AwakeForEvents
<1> QED
  BY <1>1, <1>2

LEMMA HandleStep ==
  ASSUME IInv, NEW holds, HandleAlone(holds)
  PROVE  IInv'
<1>1. /\ pc = "handle" /\ pc' = "free"
      /\ UNCHANGED <<box, slot, scheduled>>
  BY DEF HandleAlone, Handle
<1>2. currentState' \in State
  <2>1. CASE Row(holds) = {}
    BY <2>1 DEF HandleAlone, Handle, IInv, TypeOK
  <2>2. ASSUME NEW row \in Row(holds),
               currentState' = IF row.next = "sm_S_NO_NEW_STATE"
                               THEN currentState ELSE row.next
        PROVE  currentState' \in State
    <3>1. row.next \in State \cup {"sm_S_NO_NEW_STATE"}
      BY SmAssumption DEF Row, Matches
    <3> QED
      BY <2>2, <3>1 DEF IInv, TypeOK
  <2> QED
    BY <2>1, <2>2 DEF HandleAlone, Handle
<1> QED
  BY <1>1, <1>2 DEF IInv, TypeOK, SlotHeld, EventsAccounted, StopInv,
     AwakeForEvents

LEMMA FreeStep == IInv /\ Free => IInv'
<1> SUFFICES ASSUME IInv, Free PROVE IInv'
  OBVIOUS
<1>1. /\ pc = "free" /\ pc' = "return" /\ slot' = NoSlot
      /\ box' = [box EXCEPT !.slots[slot] = NoEvent]
      /\ UNCHANGED <<currentState, scheduled>>
  BY DEF Free
<1>2. slot \in Slot /\ box \in Box
  BY <1>1 DEF IInv, TypeOK, SlotHeld
<1>3. /\ box'.queue = box.queue
      /\ box'.slots = [box.slots EXCEPT ![slot] = NoEvent]
      /\ box' \in Box
  BY <1>1, <1>2 DEF Box
<1>4. \A s \in Slot : s # NoSlot
  BY SmAssumption DEF Slot, NoSlot
<1>5. \A s \in Slot : box'.slots[s] = IF s = slot THEN NoEvent ELSE box.slots[s]
  BY <1>2, <1>3, BoxFields
<1>6. \A i \in 1..Len(box.queue) : box.queue[i] \in Slot
  BY <1>2, BoxFields
<1>7. EventsAccounted'
  BY <1>1, <1>3, <1>4, <1>5, <1>6 DEF IInv, EventsAccounted
<1> QED
  BY <1>1, <1>3, <1>7 DEF IInv, TypeOK, SlotHeld, StopInv, AwakeForEvents

LEMMA ReturnStep == IInv /\ (Return \/ Leave) => IInv'
  BY DEF IInv, TypeOK, SlotHeld, EventsAccounted, StopInv, AwakeForEvents,
     Return, Leave

LEMMA Inductive == IInv /\ [Next]_vars => IInv'
<1> SUFFICES ASSUME IInv, [Next]_vars PROVE IInv'
  OBVIOUS
<1>1. CASE UNCHANGED vars
  BY <1>1 DEF vars, handler, IInv, TypeOK, SlotHeld, EventsAccounted, StopInv,
     AwakeForEvents
<1> QED
  BY <1>1, FireStep, StartStep, HandleStep, FreeStep, ReturnStep DEF Next, Task

LEMMA Invariance == Spec => []IInv
  BY InitIInv, Inductive, PTL DEF Spec

\* The state of the engine stays well formed, whatever the matrix says.
THEOREM EngineTypeCorrect == Spec => []TypeOK
BY Invariance, PTL DEF IInv

\* No event is lost once it has a slot, and no slot is used twice: sm.c:99-105
\* against sm.c:127-129 and 173.
THEOREM NoEventLost == Spec => []EventsAccounted
BY Invariance, PTL DEF IInv

\* The task never sleeps while an event waits: sm.c:107-108 against 183.
THEOREM NeverSleepsOnEvents == Spec => []AwakeForEvents
BY Invariance, PTL DEF IInv

-----------------------------------------------------------------------------
(* The abstract queue.                                                     *)

\* The slots that are taken: those in the list, and the one handled.
Owners == IF slot = NoSlot THEN box.queue ELSE Append(box.queue, slot)

\* A slot is free when the abstract queue has room for another event.
LEMMA RoomInQueue ==
  ASSUME IInv
  PROVE  FreeSlots(box) # {} <=> Queue!Taken < QueueLen
<1> DEFINE q == box.queue
           n == Len(Owners)
<1>1. q \in Seq(Slot) /\ Len(q) \in Nat /\ slot \in Slot \cup {NoSlot}
      /\ \A s \in Slot : s # NoSlot
      /\ box.slots \in [Slot -> Event \cup {NoEvent}]
  BY BoxFields, SmAssumption DEF IInv, TypeOK, Slot, NoSlot
<1>2. /\ \A i, j \in 1..Len(q) : q[i] = q[j] => i = j
      /\ \A i \in 1..Len(q) : q[i] # slot
      /\ \A s \in Slot : box.slots[s] # NoEvent <=>
           (\E i \in 1..Len(q) : q[i] = s) \/ s = slot
  BY DEF IInv, EventsAccounted
<1>3. n = Len(Pending) + (IF slot = NoSlot THEN 0 ELSE 1) /\ n \in Nat
  BY <1>1 DEF Owners, Pending
<1>4. Queue!Taken = n
  <2>1. CASE slot = NoSlot
    BY <1>1, <1>3, <2>1 DEF Queue!Taken, Current
  <2>2. CASE slot # NoSlot
    <3>1. slot \in Slot /\ Current # NoEvent
      BY <1>1, <1>2, <2>2 DEF Current
    <3> QED
      BY <1>1, <1>3, <2>2, <3>1 DEF Queue!Taken
  <2> QED
    BY <2>1, <2>2
<1>5. /\ Owners \in [1..n -> Slot]
      /\ \A i, j \in 1..n : Owners[i] = Owners[j] => i = j
      /\ \A s \in Slot : (\E i \in 1..n : Owners[i] = s) <=> box.slots[s] # NoEvent
  <2>1. CASE slot = NoSlot
    BY <1>1, <1>2, <2>1 DEF Owners
  <2>2. CASE slot # NoSlot
    <3>1. Owners = Append(q, slot) /\ slot \in Slot
      BY <1>1, <2>2 DEF Owners
    <3> HIDE DEF q
    <3>2. /\ n = Len(q) + 1 /\ Owners[n] = slot
          /\ \A i \in 1..Len(q) : Owners[i] = q[i] /\ q[i] \in Slot
          /\ Owners \in [1..n -> Slot]
      <4>1. Owners \in Seq(Slot) /\ Len(Owners) = Len(q) + 1
        BY <1>1, <3>1
      <4>2. \A i \in 1..Len(q) : Owners[i] = q[i] /\ q[i] \in Slot
        BY <1>1, <3>1
      <4>3. Owners[Len(q) + 1] = slot
        BY <1>1, <3>1
      <4> QED
        BY <1>3, <4>1, <4>2, <4>3
    <3> HIDE DEF n
    <3>3. \A i \in 1..n : i = n \/ i \in 1..Len(q)
      BY <1>1, <3>2
    <3>4. \A i, j \in 1..n : Owners[i] = Owners[j] => i = j
      BY <1>2, <3>2, <3>3
    <3>5. \A i \in 1..Len(q) : i \in 1..n
      BY <1>1, <3>2
    <3>6. n \in 1..n
      BY <1>1, <3>2
    <3>7. ASSUME NEW s \in Slot
          PROVE  (\E i \in 1..n : Owners[i] = s)
                   <=> (\E i \in 1..Len(q) : q[i] = s) \/ s = slot
      <4>1. ASSUME NEW i \in 1..n, Owners[i] = s
            PROVE  (\E j \in 1..Len(q) : q[j] = s) \/ s = slot
        BY <3>2, <3>3, <4>1
      <4>2. ASSUME NEW j \in 1..Len(q), q[j] = s
            PROVE  \E i \in 1..n : Owners[i] = s
        BY <3>2, <3>5, <4>2
      <4> QED
        BY <3>2, <3>6, <4>1, <4>2
    <3> QED
      BY <1>2, <3>2, <3>4, <3>7
  <2> QED
    BY <2>1, <2>2
<1>6. /\ n <= QueueLen
      /\ n = QueueLen <=> \A s \in Slot : \E i \in 1..n : Owners[i] = s
  <2> HIDE DEF n
  <2>1. QueueLen \in Nat /\ n \in Nat
    BY <1>3, SmAssumption
  <2>2. Owners \in [1..n -> 1..QueueLen]
    BY <1>5 DEF Slot
  <2>3. Differ(Owners, n)
    BY <1>5 DEF Differ
  <2>4. n <= QueueLen /\ (n = QueueLen <=> Cover(Owners, n, QueueLen))
    BY <2>1, <2>2, <2>3, AllTaken
  <2> QED
    BY <2>4 DEF Slot, Cover
<1>7. FreeSlots(box) # {} <=> ~(n = QueueLen)
  <2> HIDE DEF n
  <2> QED
    BY <1>5, <1>6 DEF FreeSlots
<1> HIDE DEF n
<1> QED
  BY <1>3, <1>4, <1>6, <1>7, SmAssumption

LEMMA RefineInit == Init => Queue!Init
<1> SUFFICES ASSUME Init PROVE Queue!Init
  OBVIOUS
<1>1. box.queue = <<>> /\ slot = NoSlot
  BY DEF Init, EmptyBox
<1>2. Pending = <<>>
  BY <1>1 DEF Pending
<1> QED
  BY <1>1, <1>2 DEF Queue!Init, Current

\* The step that fires an event fires it in the abstract queue.
LEMMA RefineFire ==
  ASSUME IInv, NEW e \in Event, Sm_fireEvent(e)
  PROVE  Queue!Fire(e)
<1> DEFINE q == box.queue
<1>1. /\ q \in Seq(Slot) /\ slot' = slot /\ box' = Put(box, e)
      /\ box.slots \in [Slot -> Event \cup {NoEvent}]
  BY BoxFields DEF IInv, TypeOK, Sm_fireEvent, handler
<1>2. CASE FreeSlots(box) = {}
  <2>1. box' = box
    BY <1>1, <1>2 DEF Put
  <2>2. Pending' = Pending /\ Current' = Current
    BY <1>1, <2>1 DEF Pending, Current
  <2>3. ~(Queue!Taken < QueueLen)
    BY <1>2, RoomInQueue
  <2> QED
    BY <2>2, <2>3 DEF Queue!Fire
<1>3. CASE FreeSlots(box) # {}
  <2> DEFINE f == FirstFree(box)
  <2>1. f \in Slot /\ box.slots[f] = NoEvent
    BY <1>3, FirstFreeIsFree DEF FreeSlots, IInv, TypeOK
  <2>2. /\ box'.slots = [box.slots EXCEPT ![f] = e]
        /\ box'.queue = Append(q, f)
    BY <1>1, <1>3 DEF Put
  <2> HIDE DEF f
  <2>3. Queue!Taken < QueueLen
    BY <1>3, RoomInQueue
  <2>4. /\ \A i \in 1..Len(q) : q[i] \in Slot /\ q[i] # f
        /\ f # slot
    BY <1>1, <2>1, SmAssumption DEF IInv, EventsAccounted
  <2>5. Current' = Current
    <3>1. slot # NoSlot => slot \in Slot
      BY DEF IInv, TypeOK
    <3> QED
      BY <1>1, <2>2, <2>4, <3>1 DEF Current
  <2>6. Pending' = Append(Pending, e)
    <3> DEFINE p == Pending
               r == Pending'
    <3>1. p \in Seq(Event \cup {NoEvent}) /\ Len(p) = Len(q) /\ Len(q) \in Nat
          /\ \A i \in 1..Len(q) : p[i] = box.slots[q[i]]
      BY <1>1 DEF Pending
    <3>2. DOMAIN Append(q, f) = 1..Len(q) + 1
      BY <1>1, <2>1
    <3>3. r = [i \in 1..Len(q) + 1 |-> box'.slots[Append(q, f)[i]]]
      BY <2>2, <3>2 DEF Pending
    <3>4. \A i \in 1..Len(q) : r[i] = p[i]
      BY <1>1, <2>1, <2>2, <2>4, <3>1, <3>3
    <3>5. r[Len(q) + 1] = e
      BY <1>1, <2>1, <2>2, <3>1, <3>3
    <3> HIDE DEF p, r, q
    <3> DEFINE a == Append(p, e)
    <3>6. /\ a \in Seq(Event \cup {NoEvent}) /\ Len(a) = Len(q) + 1
          /\ \A i \in 1..Len(q) : a[i] = p[i]
          /\ a[Len(q) + 1] = e
      BY <3>1
    <3> HIDE DEF a
    <3>7. \A i \in 1..Len(q) + 1 : (i \in 1..Len(q) \/ i = Len(q) + 1) /\ a[i] = r[i]
      BY <3>1, <3>4, <3>5, <3>6
    <3>8. a = [i \in 1..Len(q) + 1 |-> a[i]] /\ r = [i \in 1..Len(q) + 1 |-> r[i]]
      BY <3>3, <3>6
    <3>9. r = a
      BY <3>7, <3>8
    <3> QED
      BY <3>9 DEF p, r, a
  <2> QED
    BY <2>3, <2>5, <2>6 DEF Queue!Fire
<1> QED
  BY <1>2, <1>3

\* The handler takes the oldest event.
LEMMA RefineStart ==
  ASSUME IInv, Start
  PROVE  Queue!Take \/ UNCHANGED Queue!vars
<1> DEFINE q == box.queue
<1>1. q \in Seq(Slot) /\ pc = "idle" /\ slot = NoSlot
  BY BoxFields DEF IInv, TypeOK, Start, SlotHeld
<1>2. CASE q = <<>>
  <2>1. UNCHANGED <<box, slot>>
    BY <1>2 DEF Start
  <2> QED
    BY <2>1 DEF Queue!vars, Pending, Current
<1>3. CASE q # <<>>
  <2>1. slot' = Head(q) /\ box'.queue = Tail(q) /\ box'.slots = box.slots
    BY <1>3 DEF Start, IInv, TypeOK, Box
  <2>2. Head(q) \in Slot /\ Head(q) # NoSlot /\ Head(q) = q[1]
        /\ Len(q) \in Nat \ {0} /\ DOMAIN q = 1..Len(q)
    BY <1>1, <1>3, SmAssumption DEF Slot, NoSlot
  <2>3. Tail(q) = [i \in 1..Len(q) - 1 |-> q[i + 1]]
    BY <1>1, <1>3
  <2> HIDE DEF q
  <2>4. Pending = [i \in 1..Len(q) |-> box.slots[q[i]]]
    BY <2>2 DEF Pending, q
  <2>5. Pending' = [i \in 1..Len(q) - 1 |-> box.slots[q[i + 1]]]
    BY <2>1, <2>2, <2>3 DEF Pending
  <2>6. Pending \in Seq(Event \cup {NoEvent}) /\ Len(Pending) = Len(q)
    <3>1. box.slots \in [Slot -> Event \cup {NoEvent}]
      BY BoxFields DEF IInv, TypeOK
    <3>2. \A i \in 1..Len(q) : q[i] \in Slot
      BY <1>1
    <3> QED
      BY <2>2, <2>4, <3>1, <3>2
  <2>7. Pending # <<>> /\ Head(Pending) = box.slots[q[1]]
    BY <2>2, <2>4, <2>6
  <2>8. Tail(Pending) = Pending'
    BY <2>2, <2>4, <2>5, <2>6
  <2>9. Current = NoEvent /\ Current' = box.slots[q[1]]
    BY <1>1, <2>1, <2>2 DEF Current
  <2> QED
    BY <2>7, <2>8, <2>9 DEF Queue!Take
<1> QED
  BY <1>2, <1>3

\* The event is done when its slot is given back.
LEMMA RefineFree ==
  ASSUME IInv, Free
  PROVE  Queue!Done
<1>1. /\ slot \in Slot /\ slot # NoSlot /\ slot' = NoSlot
      /\ box'.queue = box.queue /\ box.queue \in Seq(Slot)
      /\ box'.slots = [box.slots EXCEPT ![slot] = NoEvent]
      /\ box.slots \in [Slot -> Event \cup {NoEvent}]
  BY BoxFields, SmAssumption DEF IInv, TypeOK, Free, SlotHeld, Box, Slot, NoSlot
<1>2. Current # NoEvent /\ Current' = NoEvent
  BY <1>1 DEF Current, IInv, EventsAccounted
<1>3. \A i \in DOMAIN box.queue : box.queue[i] # slot /\ box.queue[i] \in Slot
  BY <1>1 DEF IInv, EventsAccounted
<1>4. Pending' = Pending
  BY <1>1, <1>3 DEF Pending
<1> QED
  BY <1>2, <1>4 DEF Queue!Done

LEMMA RefineNext == IInv /\ [Next]_vars => [Queue!Next]_(Queue!vars)
<1> SUFFICES ASSUME IInv, [Next]_vars PROVE [Queue!Next]_(Queue!vars)
  OBVIOUS
<1>1. UNCHANGED <<box, slot>> => UNCHANGED Queue!vars
  BY DEF Queue!vars, Pending, Current
<1>2. CASE UNCHANGED vars
  BY <1>1, <1>2 DEF vars, handler
<1>3. CASE \E e \in Event : Sm_fireEvent(e)
  BY <1>3, RefineFire DEF Queue!Next
<1>4. CASE Start \/ Free
  BY <1>4, RefineStart, RefineFree DEF Queue!Next
<1>5. CASE Return \/ Leave
  BY <1>1, <1>5 DEF Return, Leave
<1>6. CASE \E holds \in SUBSET {Matrix[i].guard : i \in DOMAIN Matrix} :
             HandleAlone(holds)
  BY <1>1, <1>6 DEF HandleAlone, Handle
<1> QED
  BY <1>2, <1>3, <1>4, <1>5, <1>6 DEF Next, Task

\* Slots, list and handler behave like a first-in first-out queue of QueueLen
\* events, handled one at a time: sm.c:96-185.
THEOREM EngineIsQueue == Spec => Queue!Spec
BY RefineInit, RefineNext, Invariance, PTL DEF Spec, Queue!Spec

=============================================================================
