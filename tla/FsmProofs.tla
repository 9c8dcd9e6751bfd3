----------------------------- MODULE FsmProofs ------------------------------
(***************************************************************************)
(* Proofs about the two state machines of module Fsm, for queues of any    *)
(* length and any number of uploads and resets.                            *)
(*                                                                         *)
(* A queue that overflows drops the reboot.  That does no harm because the *)
(* one event that is not a reboot, the first INIT, has left its slot when  *)
(* the first message is heard: a full queue is full of reboots.  The radio *)
(* scans late enough because no event is waiting for the BLE module before *)
(* initialize() of fsm.c has run.                                          *)
(***************************************************************************)
EXTENDS Fsm, WellFoundedInduction, TLAPS

\* What is known of the engine under fsm.c.
Engine == INSTANCE SmProofs WITH
  Event <- FsmEvent, Matrix <- FsmMatrix, box <- fBox, currentState <- fState,
  exitAction <- fExit, slot <- fSlot, pc <- fPc, scheduled <- fScheduled

Slots == 1..QueueLen
None == "sm_E_NONE"

\* Each handler holds a slot from the pop until it gives it back.
Holding ==
  /\ fSlot # 0 <=> fPc \in {"handle", "free"}
  /\ bSlot # 0 <=> bPc \in {"handle", "free"}

\* The BLE module is started after the other one.
StartOrder ==
  /\ bState # "sm_S_BOOT" => bleInitialized
  /\ bleInitialized => fsmInitialized
  /\ \A s \in Slots : bBox.slots[s] # None => fsmInitialized

\* INIT is fired once, and its slot is free when the BLE module is started.
InitGone ==
  /\ \A s, t \in Slots :
       fBox.slots[s] = "sm_E_INIT" /\ fBox.slots[t] = "sm_E_INIT" => s = t
  /\ fsmInitialized =>
       \A s \in Slots : fBox.slots[s] = "sm_E_INIT" => s = fSlot /\ fPc = "free"
  /\ bleInitialized => \A s \in Slots : fBox.slots[s] # "sm_E_INIT"

\* A reboot that was handled is under way.
RebootHandled ==
  fPc = "free" /\ fBox.slots[fSlot] = "fsm_E_REBOOT" => rebootTask # "none"

IInv ==
  /\ TypeOK
  /\ Holding
  /\ StartOrder
  /\ ScansWhenReady
  /\ InitGone
  /\ RebootHandled
  /\ RebootUnderWay
  /\ Engine!IInv

-----------------------------------------------------------------------------
(* The queues.                                                             *)

Boxes(E) == [slots : [Slots -> E \cup {None}], queue : Seq(Slots)]

LEMMA BoxTypes ==
  /\ FSM!Box = Boxes(FsmEvent)
  /\ BLE!Box = Boxes(BleEvent)
  BY DEF FSM!Box, BLE!Box, FSM!Slot, BLE!Slot, FSM!NoEvent, BLE!NoEvent,
         Boxes, Slots, None

LEMMA BoxParts ==
  ASSUME NEW E, NEW b \in Boxes(E)
  PROVE  /\ b.slots \in [Slots -> E \cup {None}]
         /\ b.queue \in Seq(Slots)
         /\ b = [slots |-> b.slots, queue |-> b.queue]
  BY DEF Boxes

LEMMA Events ==
  /\ None \notin FsmEvent /\ None \notin BleEvent
  /\ "sm_E_INIT" \in FsmEvent /\ "fsm_E_REBOOT" \in FsmEvent
  /\ "sm_E_INIT" \in BleEvent /\ "ble_E_SCANNING_START" \in BleEvent
  /\ "ble_E_CONNECTING_START" \in BleEvent
  BY DEF None, FsmEvent, BleEvent

Free(b) == {s \in Slots : b.slots[s] = None}

\* The first free slot is free.
LEMMA FirstFree ==
  ASSUME NEW b, Free(b) # {}
  PROVE  FSM!FirstFree(b) \in Free(b)
<1> DEFINE R == OpToRel(<, Nat)
           T == Free(b)
<1>1. IsWellFoundedOn(R, Nat)
  BY NatLessThanWellFounded
<1>2. T \subseteq Nat /\ T # {}
  BY FsmAssumption DEF Free, Slots
<1>3. \A x, y \in Nat : <<y, x>> \in R <=> y < x
  BY DEF OpToRel
<1>4. FSM!FreeSlots(b) = T
  BY DEF FSM!FreeSlots, FSM!Slot, FSM!NoEvent, Free, Slots, None
<1> HIDE DEF R, T
<1>5. PICK x \in T : \A y \in T : ~ (<<y, x>> \in R)
  BY <1>1, <1>2, WFMin
<1>6. \A y \in T : x <= y
  <2> TAKE y \in T
  <2>1. x \in Nat /\ y \in Nat /\ ~(y < x)
    BY <1>2, <1>3, <1>5
  <2> QED
    BY <2>1
<1> QED
  BY <1>4, <1>6 DEF FSM!FirstFree, T

LEMMA SamePut == \A b, e : BLE!Put(b, e) = FSM!Put(b, e)
  BY DEF FSM!Put, BLE!Put, FSM!FirstFree, BLE!FirstFree, FSM!FreeSlots,
         BLE!FreeSlots, FSM!Slot, BLE!Slot, FSM!NoEvent, BLE!NoEvent

\* An event takes a free slot, if there is one, and leaves the others alone.
Takes(b, e, c) ==
  /\ \A s \in Slots : \/ c.slots[s] = b.slots[s]
                      \/ b.slots[s] = None /\ c.slots[s] = e
  /\ Free(b) # {} => \E s \in Slots : c.slots[s] = e

LEMMA PutSlots ==
  ASSUME NEW E, NEW b \in Boxes(E), NEW e \in E
  PROVE  /\ FSM!Put(b, e) \in Boxes(E)
         /\ Takes(b, e, FSM!Put(b, e))
         /\ Free(b) # {} => /\ FSM!Put(b, e).slots
                                 = [b.slots EXCEPT ![FSM!FirstFree(b)] = e]
                            /\ FSM!Put(b, e).queue
                                 = Append(b.queue, FSM!FirstFree(b))
<1>0. FSM!FreeSlots(b) = Free(b)
  BY DEF FSM!FreeSlots, FSM!Slot, FSM!NoEvent, Free, Slots, None
<1>1. CASE Free(b) = {}
  BY <1>0, <1>1 DEF FSM!Put, Takes
<1>2. CASE Free(b) # {}
  <2> DEFINE f == FSM!FirstFree(b)
  <2>1. f \in Slots /\ b.slots[f] = None
    BY <1>2, FirstFree DEF Free
  <2>2. FSM!Put(b, e) = [slots |-> [b.slots EXCEPT ![f] = e],
                         queue |-> Append(b.queue, f)]
    BY <1>0, <1>2 DEF FSM!Put
  <2> HIDE DEF f
  <2>3. /\ Append(b.queue, f) \in Seq(Slots)
        /\ [b.slots EXCEPT ![f] = e] \in [Slots -> E \cup {None}]
    BY <2>1, BoxParts
  <2>4. FSM!Put(b, e) \in Boxes(E)
    BY <2>2, <2>3 DEF Boxes
  <2>5. \A s \in Slots : [b.slots EXCEPT ![f] = e][s]
                           = IF s = f THEN e ELSE b.slots[s]
    BY <2>1, BoxParts
  <2>6. \A s \in Slots : \/ FSM!Put(b, e).slots[s] = b.slots[s]
                         \/ b.slots[s] = None /\ FSM!Put(b, e).slots[s] = e
    BY <2>1, <2>2, <2>5
  <2>7. \E s \in Slots : FSM!Put(b, e).slots[s] = e
    BY <2>1, <2>2, <2>5
  <2> QED
    BY <1>2, <2>2, <2>4, <2>6, <2>7 DEF f, Takes
<1> QED
  BY <1>1, <1>2

-----------------------------------------------------------------------------
(* The rows.                                                               *)

LEMMA FsmRows ==
  /\ \A row \in FSM!Row({}) :
       /\ row.next \in State \cup {"sm_S_NO_NEW_STATE"}
       /\ row.exit = "NULL"
       /\ row.entry = "initialize" => fBox.slots[fSlot] = "sm_E_INIT"
  /\ fBox.slots[fSlot] = "fsm_E_REBOOT" => "reboot" \in FSM!Entry({})
<1>1. DOMAIN FsmMatrix = {1, 2}
  BY DEF FsmMatrix
<1>2. /\ FsmMatrix[1].event = "sm_E_INIT" /\ FsmMatrix[2].event = "fsm_E_REBOOT"
      /\ FsmMatrix[1].entry = "initialize" /\ FsmMatrix[2].entry = "reboot"
      /\ FsmMatrix[1].exit = "NULL" /\ FsmMatrix[2].exit = "NULL"
      /\ FsmMatrix[1].next = "sm_S_IDLE"
      /\ FsmMatrix[2].next = "sm_S_NO_NEW_STATE"
      /\ FsmMatrix[2].state = "sm_S_ANY_STATE" /\ FsmMatrix[2].guard = "NULL"
  BY DEF FsmMatrix
<1>3. ASSUME NEW row \in FSM!Row({})
      PROVE  /\ row.next \in State \cup {"sm_S_NO_NEW_STATE"}
             /\ row.exit = "NULL"
             /\ row.entry = "initialize" => fBox.slots[fSlot] = "sm_E_INIT"
  <2>1. PICK i \in {1, 2} : row = FsmMatrix[i]
                              /\ FsmMatrix[i].event = fBox.slots[fSlot]
    BY <1>1, <1>3 DEF FSM!Row, FSM!Matches
  <2> QED
    BY <1>2, <2>1 DEF State
<1>4. ASSUME fBox.slots[fSlot] = "fsm_E_REBOOT"
      PROVE  "reboot" \in FSM!Entry({})
  <2>1. FSM!Matches({}) = {2}
    BY <1>1, <1>2, <1>4 DEF FSM!Matches, FSM!Null
  <2>2. FsmMatrix[2] \in FSM!Row({})
    BY <2>1 DEF FSM!Row
  <2> QED
    BY <1>2, <2>2 DEF FSM!Entry
<1> QED
  BY <1>3, <1>4

LEMMA BleRows ==
  \A row \in BLE!Row(Guards) :
    /\ row.next \in {"sm_S_IDLE", "ble_S_SCANNING"}
    /\ row.exit \in {"NULL", "scanningStop"}
    /\ row.next = "sm_S_IDLE" <=> row.entry = "initialize"
    /\ row.event = bBox.slots[bSlot]
    /\ row.event \in BleEvent
    /\ row.entry # "initialize" =>
         bState = "sm_S_IDLE" /\ isSink
<1>1. DOMAIN BleMatrix = {1, 2}
  BY DEF BleMatrix
<1> SUFFICES ASSUME NEW i \in {1, 2}, i \in BLE!Matches(Guards)
             PROVE  /\ BleMatrix[i].next \in {"sm_S_IDLE", "ble_S_SCANNING"}
                    /\ BleMatrix[i].exit \in {"NULL", "scanningStop"}
                    /\ BleMatrix[i].next = "sm_S_IDLE"
                         <=> BleMatrix[i].entry = "initialize"
                    /\ BleMatrix[i].event = bBox.slots[bSlot]
                    /\ BleMatrix[i].event \in BleEvent
                    /\ BleMatrix[i].entry # "initialize" =>
                         bState = "sm_S_IDLE" /\ isSink
  BY <1>1 DEF BLE!Row, BLE!Matches
<1>2. /\ BleMatrix[i].event = bBox.slots[bSlot]
      /\ BleMatrix[i].state \in {bState, "sm_S_ANY_STATE"}
      /\ BleMatrix[i].guard \in Guards \cup {"NULL"}
  BY DEF BLE!Matches, BLE!Null
<1>3. CASE i = 1
  BY <1>2, <1>3 DEF BleMatrix, BleEvent
<1>4. CASE i = 2
  <2>1. BleMatrix[2].guard = "isSink" /\ BleMatrix[2].state = "sm_S_IDLE"
    BY DEF BleMatrix
  <2>2. isSink /\ bState = "sm_S_IDLE"
    BY <1>2, <1>4, <2>1 DEF Guards
  <2> QED
    BY <1>2, <1>4, <2>2 DEF BleMatrix, BleEvent
<1> QED
  BY <1>3, <1>4

-----------------------------------------------------------------------------
(* The initial state, and the one after a reset.                           *)

\* The state App_init() leaves, whatever the role of the node.
Fresh ==
  /\ doOtap = FALSE /\ fsmInitialized = FALSE /\ bleInitialized = FALSE
  /\ scanner = FALSE /\ refused = FALSE /\ rebootTask = "none"
  /\ fBox = FSM!Put(FSM!EmptyBox, "sm_E_INIT")
  /\ fState = "sm_S_BOOT" /\ fExit = "NULL" /\ fSlot = FSM!NoSlot
  /\ fPc = "idle" /\ fScheduled = TRUE
  /\ bBox = BLE!EmptyBox
  /\ bState = "sm_S_BOOT" /\ bExit = "NULL" /\ bSlot = BLE!NoSlot
  /\ bPc = "idle" /\ bScheduled = FALSE
  /\ commits = 0

LEMMA EngineAssumption ==
  /\ QueueLen \in Nat \ {0}
  /\ Engine!NoEvent \notin FsmEvent
  /\ "sm_S_BOOT" \in State
  /\ \A i \in DOMAIN FsmMatrix :
       FsmMatrix[i].next \in State \cup {"sm_S_NO_NEW_STATE"}
  BY FsmAssumption DEF Engine!NoEvent, FsmEvent, State, FsmMatrix

\* One slot holds INIT and waits in the list.
LEMMA EngineFresh ==
  ASSUME Fresh, FSM!TypeOK, NEW f \in Slots, fBox.queue = <<f>>,
         \A s \in Slots : fBox.slots[s] = IF s = f THEN "sm_E_INIT" ELSE None
  PROVE  Engine!IInv
<1>1. Engine!TypeOK
  BY DEF FSM!TypeOK, Engine!TypeOK, FSM!Box, Engine!Box, FSM!Slot, Engine!Slot,
         FSM!NoEvent, Engine!NoEvent, FSM!NoSlot, Engine!NoSlot
<1>2. fSlot = 0 /\ fPc = "idle" /\ fScheduled
  BY DEF Fresh, FSM!NoSlot
<1>3. 0 \notin Slots
  BY FsmAssumption DEF Slots
<1>4. Len(fBox.queue) = 1 /\ fBox.queue[1] = f
  OBVIOUS
<1>5. \A i : i \in 1..Len(fBox.queue) <=> i = 1
  BY <1>4
<1>6. None # "sm_E_INIT"
  BY DEF None
<1>7. Engine!EventsAccounted
  <2>1. \A i \in 1..Len(fBox.queue) : fBox.queue[i] = f /\ i = 1
    BY <1>4, <1>5
  <2>2. f # fSlot /\ \A s \in Slots : s # fSlot
    BY <1>2, <1>3
  <2>3. \A s \in Slots : fBox.slots[s] # None <=>
          \/ \E i \in 1..Len(fBox.queue) : fBox.queue[i] = s
          \/ s = fSlot
    BY <1>4, <1>5, <1>6, <2>1, <2>2
  <2> QED
    BY <2>1, <2>2, <2>3
       DEF Engine!EventsAccounted, Engine!NoEvent, Engine!Slot, None, Slots
<1> QED
  BY <1>1, <1>2, <1>7
     DEF Engine!IInv, Engine!SlotHeld, Engine!StopInv, Engine!AwakeForEvents,
         Engine!NoSlot

LEMMA EngineStep ==
  ASSUME Engine!IInv, FsmEngine \/ FsmHandle \/ Commit \/ UNCHANGED fsm
  PROVE  Engine!IInv'
<1>1. CASE FsmEngine
  <2>1. FSM!Start => Engine!Start
    BY DEF FSM!Start, Engine!Start
  <2>2. FSM!Free => Engine!Free
    BY DEF FSM!Free, Engine!Free, FSM!NoSlot, Engine!NoSlot, FSM!NoEvent,
           Engine!NoEvent
  <2>3. FSM!Return \/ FSM!Leave => Engine!Return \/ Engine!Leave
    BY DEF FSM!Return, Engine!Return, FSM!Leave, Engine!Leave
  <2> QED
    BY <1>1, <2>1, <2>2, <2>3, EngineAssumption, Engine!StartStep,
       Engine!FreeStep, Engine!ReturnStep DEF FsmEngine
<1>2. CASE FsmHandle
  <2>1. FSM!Handle({}) => Engine!Handle({})
    BY DEF FSM!Handle, Engine!Handle, FSM!Row, Engine!Row, FSM!Matches,
           Engine!Matches, FSM!Null, Engine!Null
  <2>2. Engine!HandleAlone({})
    BY <1>2, <2>1 DEF FsmHandle, Engine!HandleAlone
  <2> QED
    BY <2>2, EngineAssumption, Engine!HandleStep
<1>3. CASE Commit
  <2>1. Engine!Sm_fireEvent("fsm_E_REBOOT")
    BY <1>3 DEF Commit, FSM!Sm_fireEvent, Engine!Sm_fireEvent, FSM!Put,
       Engine!Put, FSM!FirstFree, Engine!FirstFree, FSM!FreeSlots,
       Engine!FreeSlots, FSM!Slot, Engine!Slot, FSM!NoEvent, Engine!NoEvent,
       FSM!handler, Engine!handler
  <2> QED
    BY <2>1, Events, EngineAssumption, Engine!FireStep
<1>4. CASE UNCHANGED fsm
  <2>1. UNCHANGED Engine!vars
    BY <1>4 DEF fsm, Engine!vars, Engine!handler
  <2> QED
    BY <2>1, EngineAssumption, Engine!Inductive
<1> QED
  BY <1>1, <1>2, <1>3, <1>4

LEMMA FreshInv == Fresh /\ isSink \in BOOLEAN /\ resets \in 0..MaxResets => IInv
<1> SUFFICES ASSUME Fresh, isSink \in BOOLEAN, resets \in 0..MaxResets
             PROVE  IInv
  OBVIOUS
<1> DEFINE empty == FSM!EmptyBox
<1>1. /\ empty.slots = [s \in Slots |-> None] /\ empty \in Boxes(FsmEvent)
      /\ empty.queue = <<>>
  BY DEF FSM!EmptyBox, FSM!Slot, FSM!NoEvent, Slots, None, Boxes
<1>2. \A s \in Slots : empty.slots[s] = None
  BY <1>1
<1>3. bBox.slots = [s \in Slots |-> None] /\ bBox \in Boxes(BleEvent)
  BY DEF Fresh, BLE!EmptyBox, BLE!Slot, BLE!NoEvent, Slots, None, Boxes
<1> HIDE DEF empty
<1>4. fBox = FSM!Put(empty, "sm_E_INIT")
  BY DEF Fresh, empty
<1>5. 1 \in Slots
  BY FsmAssumption DEF Slots
<1>6. Free(empty) # {}
  BY <1>2, <1>5 DEF Free
<1>7. FSM!FirstFree(empty) \in Slots
  BY <1>6, FirstFree DEF Free
<1>8. /\ fBox \in Boxes(FsmEvent)
      /\ fBox.queue = <<FSM!FirstFree(empty)>>
      /\ fBox.slots = [empty.slots EXCEPT ![FSM!FirstFree(empty)] = "sm_E_INIT"]
  <2>1. Append(<<>>, FSM!FirstFree(empty)) = <<FSM!FirstFree(empty)>>
    OBVIOUS
  <2> QED
    BY <1>1, <1>4, <1>6, <2>1, PutSlots, Events
<1>9. InitGone
  <2>1. \A s \in Slots : fBox.slots[s]
          = IF s = FSM!FirstFree(empty) THEN "sm_E_INIT" ELSE None
    BY <1>1, <1>7, <1>8
  <2>2. None # "sm_E_INIT"
    BY DEF None
  <2> QED
    BY <2>1, <2>2 DEF Fresh, InitGone
<1>10. TypeOK
  <2>1. FSM!TypeOK
    BY <1>8, BoxTypes DEF Fresh, FSM!TypeOK, State
  <2>2. BLE!TypeOK
    BY <1>3, BoxTypes DEF Fresh, BLE!TypeOK, State
  <2>3. commits \in 0..MaxCommits
    BY FsmAssumption DEF Fresh
  <2> QED
    BY <2>1, <2>2, <2>3 DEF Fresh, TypeOK
<1>11. StartOrder
  <2>1. \A s \in Slots : bBox.slots[s] = None
    BY <1>3
  <2> QED
    BY <2>1 DEF Fresh, StartOrder
<1>12. Engine!IInv
  <2>1. \A s \in Slots : fBox.slots[s]
          = IF s = FSM!FirstFree(empty) THEN "sm_E_INIT" ELSE None
    BY <1>1, <1>7, <1>8
  <2> QED
    BY <1>7, <1>8, <1>10, <2>1, EngineFresh DEF TypeOK
<1> QED
  BY <1>9, <1>10, <1>11, <1>12
     DEF Fresh, IInv, Holding, ScansWhenReady, RebootHandled, RebootUnderWay,
         FSM!NoSlot, BLE!NoSlot

LEMMA InitInv == Init => IInv
<1> SUFFICES ASSUME Init PROVE IInv
  OBVIOUS
<1>1. Fresh
  BY DEF Init, Fresh, BLE!Init, BLE!Null
<1>2. isSink \in BOOLEAN /\ resets \in 0..MaxResets
  BY FsmAssumption DEF Init
<1> QED
  BY <1>1, <1>2, FreshInv

LEMMA ResetInv == IInv /\ (RebootTask \/ ButtonPress) => IInv'
<1>1. ASSUME RebootTask \/ ButtonPress PROVE Fresh'
  BY <1>1 DEF RebootTask, ButtonPress, Reset, Fresh
<1>2. ASSUME IInv, RebootTask \/ ButtonPress
      PROVE  isSink' \in BOOLEAN /\ resets' \in 0..MaxResets
  <2>1. isSink \in BOOLEAN /\ resets \in 0..MaxResets
    BY <1>2 DEF IInv, TypeOK
  <2>2. isSink' \in BOOLEAN
    BY <1>2, <2>1 DEF RebootTask, ButtonPress
  <2>3. resets' = resets \/ (resets < MaxResets /\ resets' = resets + 1)
    BY <1>2 DEF RebootTask, ButtonPress
  <2> QED
    BY <2>1, <2>2, <2>3, FsmAssumption
<1>3. (Fresh /\ isSink \in BOOLEAN /\ resets \in 0..MaxResets)' => IInv'
  BY FreshInv, PTL
<1> QED
  BY <1>1, <1>2, <1>3

-----------------------------------------------------------------------------
(* The steps.                                                              *)

LEMMA Types ==
  ASSUME IInv
  PROVE  /\ fBox \in Boxes(FsmEvent) /\ bBox \in Boxes(BleEvent)
         /\ fSlot \in Slots \cup {0} /\ bSlot \in Slots \cup {0}
         /\ 0 \notin Slots
         /\ fPc \in {"idle", "handle", "free", "return", "stop", "again"}
         /\ bPc \in {"idle", "handle", "free", "return", "stop", "again"}
<1>1. FSM!TypeOK /\ BLE!TypeOK
  BY DEF IInv, TypeOK
<1>2. fBox \in FSM!Box /\ bBox \in BLE!Box
  BY <1>1 DEF FSM!TypeOK, BLE!TypeOK
<1>3. 0 \notin Slots
  BY FsmAssumption DEF Slots
<1> QED
  BY <1>1, <1>2, <1>3, BoxTypes
     DEF FSM!TypeOK, BLE!TypeOK, FSM!Slot, BLE!Slot, FSM!NoSlot, BLE!NoSlot, Slots

\* What the steps of the handlers do to their box.
LEMMA Popped ==
  ASSUME NEW E, NEW b \in Boxes(E), b.queue # <<>>
  PROVE  /\ [b EXCEPT !.queue = Tail(@)] \in Boxes(E)
         /\ [b EXCEPT !.queue = Tail(@)].slots = b.slots
         /\ Head(b.queue) \in Slots
<1> DEFINE q == b.queue
<1>1. q \in Seq(Slots) /\ q # <<>> /\ b.slots \in [Slots -> E \cup {None}]
  BY BoxParts
<1>2. [b EXCEPT !.queue = Tail(@)] = [slots |-> b.slots, queue |-> Tail(q)]
  BY BoxParts
<1> HIDE DEF q
<1>3. Tail(q) \in Seq(Slots) /\ Head(q) \in Slots
  BY <1>1
<1> QED
  BY <1>1, <1>2, <1>3 DEF Boxes, q

LEMMA Freed ==
  ASSUME NEW E, NEW b \in Boxes(E), NEW s \in Slots
  PROVE  /\ [b EXCEPT !.slots[s] = None] \in Boxes(E)
         /\ \A t \in Slots : [b EXCEPT !.slots[s] = None].slots[t]
                               = IF t = s THEN None ELSE b.slots[t]
<1> DEFINE f == b.slots
<1>1. f \in [Slots -> E \cup {None}] /\ b.queue \in Seq(Slots)
  BY BoxParts
<1>2. [b EXCEPT !.slots[s] = None]
        = [slots |-> [f EXCEPT ![s] = None], queue |-> b.queue]
  BY BoxParts
<1> HIDE DEF f
<1>3. [f EXCEPT ![s] = None] \in [Slots -> E \cup {None}]
  BY <1>1
<1>4. \A t \in Slots : [f EXCEPT ![s] = None][t] = IF t = s THEN None ELSE f[t]
  BY <1>1
<1> QED
  BY <1>1, <1>2, <1>3, <1>4 DEF Boxes, f

LEMMA FsmEngineInv == IInv /\ FsmEngine => IInv'
<1> SUFFICES ASSUME IInv, FsmEngine PROVE IInv'
  OBVIOUS
<1>1. UNCHANGED <<ble, flags, bounds, fState, fExit>>
  BY DEF FsmEngine, FSM!Start, FSM!Free, FSM!Return, FSM!Leave
<1>2. UNCHANGED <<bBox, bState, bExit, bSlot, bPc, bScheduled, isSink, doOtap,
                  fsmInitialized, bleInitialized, scanner, refused, rebootTask,
                  commits, resets, fState, fExit>>
  BY <1>1 DEF ble, flags, bounds
<1>3. StartOrder' /\ ScansWhenReady' /\ BLE!TypeOK'
  <2>1. StartOrder' /\ ScansWhenReady'
    BY <1>2 DEF IInv, StartOrder, ScansWhenReady
  <2>2. BLE!TypeOK'
    BY <1>2 DEF IInv, TypeOK, BLE!TypeOK
  <2> QED
    BY <2>1, <2>2
<1>4. /\ fBox' \in Boxes(FsmEvent) /\ fSlot' \in Slots \cup {0}
      /\ fPc' \in {"idle", "handle", "free", "return", "stop", "again"}
      /\ fScheduled' \in BOOLEAN
      /\ fPc' = "idle" \/ bPc' = "idle"
      /\ fSlot' # 0 <=> fPc' \in {"handle", "free"}
      /\ InitGone' /\ RebootHandled' /\ RebootUnderWay'
  <2>1. CASE Idle /\ FSM!Start
    <3>1. fSlot = 0 /\ fPc = "idle" /\ bPc = "idle" /\ fScheduled' \in BOOLEAN
      BY <2>1 DEF Idle, FSM!Start, IInv, Holding
    <3>2. CASE fBox.queue = <<>>
      <4>1. UNCHANGED <<fBox, fSlot, fPc>>
        BY <2>1, <3>2 DEF FSM!Start
      <4>2. InitGone' /\ RebootHandled' /\ RebootUnderWay'
        BY <1>2, <4>1
           DEF IInv, InitGone, RebootHandled, RebootUnderWay
      <4> QED
        BY <1>2, <3>1, <4>1, <4>2, Types DEF IInv, Holding
    <3>3. CASE fBox.queue # <<>>
      <4>1. /\ fSlot' = Head(fBox.queue) /\ fPc' = "handle"
            /\ fBox' = [fBox EXCEPT !.queue = Tail(@)]
        BY <2>1, <3>3 DEF FSM!Start
      <4>2. fBox' \in Boxes(FsmEvent) /\ fBox'.slots = fBox.slots /\ fSlot' \in Slots
        BY <3>3, <4>1, Popped, Types
      <4>3. InitGone'
        BY <1>2, <3>1, <4>2, Types DEF IInv, InitGone
      <4>4. RebootHandled' /\ RebootUnderWay'
        BY <1>2, <4>1, <4>2 DEF IInv, RebootHandled, RebootUnderWay
      <4> QED
        BY <1>2, <3>1, <4>1, <4>2, <4>3, <4>4, Types
    <3> QED
      BY <3>2, <3>3
  <2>2. CASE FSM!Free
    <3>1. /\ fPc = "free" /\ fPc' = "return" /\ fSlot' = 0 /\ bPc' = "idle"
          /\ fBox' = [fBox EXCEPT !.slots[fSlot] = None] /\ UNCHANGED fScheduled
      BY <1>2, <2>2 DEF FSM!Free, FSM!NoSlot, FSM!NoEvent, None, IInv, TypeOK
    <3>2. fSlot \in Slots
      BY <3>1, Types DEF IInv, Holding
    <3>3. /\ fBox' \in Boxes(FsmEvent)
          /\ \A t \in Slots : fBox'.slots[t]
                                = IF t = fSlot THEN None ELSE fBox.slots[t]
      BY <3>1, <3>2, Freed, Types
    <3>4. None \notin {"sm_E_INIT", "fsm_E_REBOOT"}
      BY DEF None
    <3>5. InitGone'
      BY <1>2, <3>3, <3>4 DEF IInv, InitGone
    <3>6. RebootUnderWay'
      <4> SUFFICES ASSUME doOtap', rebootTask' = "none"
                   PROVE  \E s \in Slots : fBox'.slots[s] = "fsm_E_REBOOT"
        BY DEF RebootUnderWay, Slots
      <4>1. PICK s \in Slots : fBox.slots[s] = "fsm_E_REBOOT"
        BY <1>2 DEF IInv, RebootUnderWay, Slots
      <4>2. s # fSlot
        BY <1>2, <3>1, <4>1 DEF IInv, RebootHandled
      <4> QED
        BY <3>3, <4>1, <4>2
    <3>7. fScheduled' \in BOOLEAN
      BY <3>1 DEF IInv, TypeOK, FSM!TypeOK
    <3> QED
      BY <3>1, <3>3, <3>5, <3>6, <3>7 DEF RebootHandled
  <2>3. CASE FSM!Return \/ FSM!Leave
    <3>1. /\ UNCHANGED <<fBox, fSlot>>
          /\ fPc \in {"return", "stop", "again"}
          /\ fPc' \in {"stop", "again", "idle"}
          /\ fScheduled' \in BOOLEAN
      BY <2>3 DEF FSM!Return, FSM!Leave, IInv, TypeOK, FSM!TypeOK
    <3>2. InitGone'
      BY <1>2, <3>1 DEF IInv, InitGone
    <3>3. RebootHandled' /\ RebootUnderWay'
      BY <1>2, <3>1 DEF IInv, RebootHandled, RebootUnderWay
    <3>4. bPc' = "idle"
      BY <1>2, <3>1 DEF IInv, TypeOK
    <3> QED
      BY <1>2, <3>1, <3>2, <3>3, <3>4, Types DEF IInv, Holding
  <2> QED
    BY <2>1, <2>2, <2>3 DEF FsmEngine
<1>5. FSM!TypeOK'
  BY <1>2, <1>4, BoxTypes
     DEF IInv, TypeOK, FSM!TypeOK, FSM!Slot, FSM!NoSlot, Slots
<1>6. TypeOK'
  BY <1>2, <1>3, <1>4, <1>5 DEF IInv, TypeOK
<1>7. Engine!IInv'
  BY EngineStep DEF IInv
<1> QED
  BY <1>7, <1>2, <1>3, <1>4, <1>6 DEF IInv, Holding

LEMMA BleEngineInv == IInv /\ BleEngine => IInv'
<1> SUFFICES ASSUME IInv, BleEngine PROVE IInv'
  OBVIOUS
<1>1. UNCHANGED <<fsm, flags, bounds, bState, bExit>>
  BY DEF BleEngine, BLE!Start, BLE!Free, BLE!Return, BLE!Leave
<1>2. UNCHANGED <<fBox, fState, fExit, fSlot, fPc, fScheduled, isSink, doOtap,
                  fsmInitialized, bleInitialized, scanner, refused, rebootTask,
                  commits, resets, bState, bExit>>
  BY <1>1 DEF fsm, flags, bounds
<1>3. /\ InitGone' /\ RebootHandled' /\ RebootUnderWay' /\ ScansWhenReady'
      /\ FSM!TypeOK'
  <2>1. InitGone' /\ ScansWhenReady'
    BY <1>2 DEF IInv, InitGone, ScansWhenReady
  <2>2. RebootHandled' /\ RebootUnderWay'
    BY <1>2 DEF IInv, RebootHandled, RebootUnderWay
  <2>3. FSM!TypeOK'
    BY <1>2 DEF IInv, TypeOK, FSM!TypeOK
  <2> QED
    BY <2>1, <2>2, <2>3
<1>4. /\ bBox' \in Boxes(BleEvent) /\ bSlot' \in Slots \cup {0}
      /\ bPc' \in {"idle", "handle", "free", "return", "stop", "again"}
      /\ bScheduled' \in BOOLEAN
      /\ fPc' = "idle" \/ bPc' = "idle"
      /\ bSlot' # 0 <=> bPc' \in {"handle", "free"}
      /\ \A s \in Slots : bBox'.slots[s] \in {bBox.slots[s], None}
  <2>1. CASE Idle /\ BLE!Start
    <3>1. bSlot = 0 /\ fPc = "idle" /\ bPc = "idle" /\ bScheduled' \in BOOLEAN
      BY <2>1 DEF Idle, BLE!Start, IInv, Holding
    <3>2. CASE bBox.queue = <<>>
      <4>1. UNCHANGED <<bBox, bSlot, bPc>>
        BY <2>1, <3>2 DEF BLE!Start
      <4> QED
        BY <1>2, <3>1, <4>1, Types DEF IInv, Holding
    <3>3. CASE bBox.queue # <<>>
      <4>1. /\ bSlot' = Head(bBox.queue) /\ bPc' = "handle"
            /\ bBox' = [bBox EXCEPT !.queue = Tail(@)]
        BY <2>1, <3>3 DEF BLE!Start
      <4>2. bBox' \in Boxes(BleEvent) /\ bBox'.slots = bBox.slots /\ bSlot' \in Slots
        BY <3>3, <4>1, Popped, Types
      <4> QED
        BY <1>2, <3>1, <4>1, <4>2, Types
    <3> QED
      BY <3>2, <3>3
  <2>2. CASE BLE!Free
    <3>1. /\ bPc = "free" /\ bPc' = "return" /\ bSlot' = 0 /\ fPc' = "idle"
          /\ bBox' = [bBox EXCEPT !.slots[bSlot] = None] /\ UNCHANGED bScheduled
      BY <1>2, <2>2 DEF BLE!Free, BLE!NoSlot, BLE!NoEvent, None, IInv, TypeOK
    <3>2. bSlot \in Slots
      BY <3>1, Types DEF IInv, Holding
    <3>3. /\ bBox' \in Boxes(BleEvent)
          /\ \A t \in Slots : bBox'.slots[t]
                                = IF t = bSlot THEN None ELSE bBox.slots[t]
      BY <3>1, <3>2, Freed, Types
    <3>4. bScheduled' \in BOOLEAN
      BY <3>1 DEF IInv, TypeOK, BLE!TypeOK
    <3> QED
      BY <3>1, <3>3, <3>4
  <2>3. CASE BLE!Return \/ BLE!Leave
    <3>1. /\ UNCHANGED <<bBox, bSlot>>
          /\ bPc \in {"return", "stop", "again"}
          /\ bPc' \in {"stop", "again", "idle"}
          /\ bScheduled' \in BOOLEAN
      BY <2>3 DEF BLE!Return, BLE!Leave, IInv, TypeOK, BLE!TypeOK
    <3>2. fPc' = "idle"
      BY <1>2, <3>1 DEF IInv, TypeOK
    <3> QED
      BY <3>1, <3>2, Types DEF IInv, Holding
  <2> QED
    BY <2>1, <2>2, <2>3 DEF BleEngine
<1>5. BLE!TypeOK'
  BY <1>2, <1>4, BoxTypes
     DEF IInv, TypeOK, BLE!TypeOK, BLE!Slot, BLE!NoSlot, Slots
<1>6. TypeOK'
  BY <1>2, <1>3, <1>4, <1>5 DEF IInv, TypeOK
<1>7. StartOrder'
  BY <1>2, <1>4 DEF IInv, StartOrder
<1>8. Engine!IInv'
  BY <1>1, EngineStep DEF IInv, fsm
<1> QED
  BY <1>8, <1>2, <1>3, <1>4, <1>6, <1>7 DEF IInv, Holding

\* The events initialize() of fsm.c fires.
LEMMA InitialEventsType ==
  ASSUME NEW b \in Boxes(BleEvent)
  PROVE  InitialEvents(b) \in Boxes(BleEvent)
<1>1. FSM!Put(b, "sm_E_INIT") \in Boxes(BleEvent)
  BY PutSlots, Events
<1>2. FSM!Put(FSM!Put(b, "sm_E_INIT"), "ble_E_SCANNING_START") \in Boxes(BleEvent)
  BY <1>1, PutSlots, Events
<1> QED
  BY <1>2, SamePut DEF InitialEvents

LEMMA FsmHandleInv == IInv /\ FsmHandle => IInv'
<1> SUFFICES ASSUME IInv, FsmHandle PROVE IInv'
  OBVIOUS
<1>1. /\ UNCHANGED <<fBox, fScheduled, bState, bExit, bSlot, bPc, isSink, doOtap,
                     bleInitialized, scanner, refused, commits, resets, fSlot>>
      /\ fPc = "handle" /\ fPc' = "free"
  BY DEF FsmHandle, FSM!Handle, bounds
<1>2. fSlot \in Slots /\ bPc = "idle"
  BY <1>1, Types DEF IInv, Holding, TypeOK
<1>3. \/ /\ fsmInitialized' = TRUE /\ bBox' = InitialEvents(bBox)
         /\ bScheduled' = TRUE
         /\ "initialize" \in FSM!Entry({})
      \/ UNCHANGED <<fsmInitialized, bBox, bScheduled>>
  BY DEF FsmHandle
<1>4. fState' \in State /\ fExit' = "NULL"
  <2>1. fState \in State /\ fExit = "NULL"
    BY DEF IInv, TypeOK, FSM!TypeOK
  <2> QED
    BY <2>1, FsmRows DEF FsmHandle, FSM!Handle
<1>5. bBox' \in Boxes(BleEvent) /\ bScheduled' \in BOOLEAN
        /\ fsmInitialized' \in BOOLEAN
  <2>1. bBox' \in Boxes(BleEvent)
    BY <1>3, Types, InitialEventsType
  <2>2. bScheduled' \in BOOLEAN /\ fsmInitialized' \in BOOLEAN
    BY <1>3 DEF IInv, TypeOK, BLE!TypeOK
  <2> QED
    BY <2>1, <2>2
<1>6. /\ rebootTask' \in {rebootTask, "delayed"}
      /\ "reboot" \in FSM!Entry({}) => rebootTask' = "delayed"
  BY DEF FsmHandle
<1>7. TypeOK'
  <2>1. FSM!TypeOK'
    BY <1>1, <1>4 DEF IInv, TypeOK, FSM!TypeOK
  <2>2. BLE!TypeOK'
    BY <1>1, <1>5, BoxTypes DEF IInv, TypeOK, BLE!TypeOK
  <2> QED
    BY <1>1, <1>2, <1>4, <1>5, <1>6, <2>1, <2>2 DEF IInv, TypeOK
<1>8. Holding'
  BY <1>1 DEF IInv, Holding
<1>9. StartOrder' /\ ScansWhenReady'
  BY <1>1, <1>3 DEF IInv, StartOrder, ScansWhenReady
<1>10. InitGone'
  <2>1. ASSUME "initialize" \in FSM!Entry({}) PROVE fBox.slots[fSlot] = "sm_E_INIT"
    BY <2>1, FsmRows DEF FSM!Entry
  <2> QED
    BY <1>1, <1>2, <1>3, <2>1 DEF IInv, InitGone
<1>11. RebootHandled' /\ RebootUnderWay'
  <2>1. RebootHandled'
    BY <1>1, <1>6, FsmRows DEF RebootHandled
  <2>2. RebootUnderWay'
    BY <1>1, <1>6 DEF IInv, RebootUnderWay
  <2> QED
    BY <2>1, <2>2
<1>12. Engine!IInv'
  BY EngineStep DEF IInv
<1> QED
  BY <1>12, <1>7, <1>8, <1>9, <1>10, <1>11 DEF IInv

LEMMA BleHandleInv == IInv /\ BleHandle => IInv'
<1> SUFFICES ASSUME IInv, BleHandle PROVE IInv'
  OBVIOUS
<1>1. /\ UNCHANGED <<bBox, bScheduled, fBox, fState, fExit, fSlot, fPc,
                     fScheduled, isSink, doOtap, fsmInitialized, rebootTask,
                     commits, resets, bSlot>>
      /\ bPc = "handle" /\ bPc' = "free"
  BY DEF BleHandle, BLE!Handle, fsm, bounds
<1>2. bSlot \in Slots /\ fPc = "idle"
  BY <1>1, Types DEF IInv, Holding, TypeOK
<1>3. bleInitialized' = (bleInitialized \/ "initialize" \in BLE!Entry(Guards))
  BY DEF BleHandle
<1>4. /\ scanner' \in BOOLEAN /\ refused' \in BOOLEAN
      /\ scanner' => scanner \/ "scanningStart" \in BLE!Entry(Guards)
  BY DEF BleHandle, IInv, TypeOK
<1>5. /\ bState' \in State /\ bExit' \in {"NULL", "scanningStop"}
      /\ bState' # "sm_S_BOOT" =>
           bState # "sm_S_BOOT" \/ "initialize" \in BLE!Entry(Guards)
  <2>1. CASE BLE!Row(Guards) = {}
    BY <2>1 DEF BleHandle, BLE!Handle, IInv, TypeOK, BLE!TypeOK
  <2>2. ASSUME NEW row \in BLE!Row(Guards),
               bState' = IF row.next = "sm_S_NO_NEW_STATE" THEN bState
                                                           ELSE row.next,
               bExit' = row.exit
        PROVE  /\ bState' \in State /\ bExit' \in {"NULL", "scanningStop"}
               /\ bState' # "sm_S_BOOT" =>
                    bState # "sm_S_BOOT" \/ "initialize" \in BLE!Entry(Guards)
    <3>1. row.entry \in BLE!Entry(Guards)
      BY <2>2 DEF BLE!Entry
    <3> QED
      BY <2>2, <3>1, BleRows DEF State
  <2> QED
    BY <2>1, <2>2 DEF BleHandle, BLE!Handle
<1>6. BLE!Entry(Guards) # {} => fsmInitialized
  <2>1. \A row \in BLE!Row(Guards) : bBox.slots[bSlot] # None
    BY BleRows, Events
  <2> QED
    BY <1>2, <2>1 DEF BLE!Entry, IInv, StartOrder
<1>7. "scanningStart" \in BLE!Entry(Guards) => bState = "sm_S_IDLE" /\ isSink
  BY BleRows DEF BLE!Entry
<1>8. TypeOK'
  <2>1. FSM!TypeOK'
    BY <1>1 DEF IInv, TypeOK, FSM!TypeOK
  <2>2. BLE!TypeOK'
    BY <1>1, <1>5 DEF IInv, TypeOK, BLE!TypeOK
  <2>3. bleInitialized' \in BOOLEAN
    BY <1>3 DEF IInv, TypeOK
  <2> QED
    BY <1>1, <1>2, <1>4, <1>5, <2>1, <2>2, <2>3 DEF IInv, TypeOK
<1>9. Holding'
  BY <1>1 DEF IInv, Holding
<1>10. StartOrder'
  BY <1>1, <1>3, <1>5, <1>6 DEF IInv, StartOrder
<1>11. ScansWhenReady'
  BY <1>1, <1>3, <1>4, <1>6, <1>7 DEF IInv, ScansWhenReady, StartOrder
<1>12. InitGone'
  <2>1. fsmInitialized => \A s \in Slots : fBox.slots[s] # "sm_E_INIT"
    BY <1>2 DEF IInv, InitGone
  <2> QED
    BY <1>1, <1>3, <1>6, <2>1 DEF IInv, InitGone
<1>13. RebootHandled' /\ RebootUnderWay'
  BY <1>1 DEF IInv, RebootHandled, RebootUnderWay
<1>14. Engine!IInv'
  BY <1>1, EngineStep DEF IInv, fsm
<1> QED
  BY <1>14, <1>8, <1>9, <1>10, <1>11, <1>12, <1>13 DEF IInv

LEMMA DelayOverInv == IInv /\ DelayOver => IInv'
<1> SUFFICES ASSUME IInv, DelayOver PROVE IInv'
  OBVIOUS
<1>1. /\ UNCHANGED <<isSink, doOtap, fsmInitialized, bleInitialized, scanner,
                     refused, fBox, fState, fExit, fSlot, fPc, fScheduled,
                     bBox, bState, bExit, bSlot, bPc, bScheduled, commits, resets>>
      /\ rebootTask' = "due"
  BY DEF DelayOver, fsm, ble, bounds
<1>2. FSM!TypeOK' /\ BLE!TypeOK'
  BY <1>1 DEF IInv, TypeOK, FSM!TypeOK, BLE!TypeOK
<1>3. TypeOK'
  BY <1>1, <1>2 DEF IInv, TypeOK
<1>4. Holding' /\ StartOrder' /\ ScansWhenReady' /\ InitGone'
  BY <1>1 DEF IInv, Holding, StartOrder, ScansWhenReady, InitGone
<1>5. Engine!IInv'
  BY <1>1, EngineStep DEF IInv, fsm
<1> QED
  BY <1>5, <1>1, <1>3, <1>4 DEF IInv, RebootHandled, RebootUnderWay

LEMMA ScanRequestInv == IInv /\ ScanRequest => IInv'
<1> SUFFICES ASSUME IInv, ScanRequest PROVE IInv'
  OBVIOUS
<1>1. /\ UNCHANGED <<isSink, doOtap, fsmInitialized, bleInitialized, scanner,
                     refused, rebootTask, fBox, fState, fExit, fSlot, fPc,
                     fScheduled, bState, bExit, bSlot, bPc, commits, resets>>
      /\ bBox' = BLE!Put(bBox, "ble_E_CONNECTING_START")
      /\ bScheduled' = TRUE
      /\ bleInitialized
  BY DEF ScanRequest, Heard, BLE!Sm_fireEvent, BLE!handler, fsm, flags, bounds
<1>2. bBox' \in Boxes(BleEvent)
  BY <1>1, PutSlots, SamePut, Types, Events
<1>3. TypeOK'
  <2>1. FSM!TypeOK'
    BY <1>1 DEF IInv, TypeOK, FSM!TypeOK
  <2>2. BLE!TypeOK'
    BY <1>1, <1>2, BoxTypes DEF IInv, TypeOK, BLE!TypeOK
  <2> QED
    BY <1>1, <2>1, <2>2 DEF IInv, TypeOK
<1>4. Holding' /\ StartOrder' /\ ScansWhenReady' /\ InitGone'
  BY <1>1 DEF IInv, Holding, StartOrder, ScansWhenReady, InitGone
<1>5. Engine!IInv'
  BY <1>1, EngineStep DEF IInv, fsm
<1> QED
  BY <1>5, <1>1, <1>3, <1>4 DEF IInv, RebootHandled, RebootUnderWay

\* A queue that is full is full of reboots.
LEMMA CommitInv == IInv /\ Commit => IInv'
<1> SUFFICES ASSUME IInv, Commit PROVE IInv'
  OBVIOUS
<1>1. /\ UNCHANGED <<isSink, fsmInitialized, bleInitialized, scanner, refused,
                     rebootTask, fState, fExit, fSlot, fPc, bBox, bState, bExit,
                     bSlot, bPc, bScheduled, resets>>
      /\ fBox' = FSM!Put(fBox, "fsm_E_REBOOT")
      /\ fScheduled' = TRUE /\ doOtap' = TRUE
      /\ commits < MaxCommits /\ commits' = commits + 1
      /\ bleInitialized
  BY DEF Commit, Heard, FSM!Sm_fireEvent, FSM!handler, ble
<1>2. /\ fBox' \in Boxes(FsmEvent)
      /\ \A s \in Slots : \/ fBox'.slots[s] = fBox.slots[s]
                          \/ /\ fBox.slots[s] = None
                             /\ fBox'.slots[s] = "fsm_E_REBOOT"
      /\ Free(fBox) # {} => \E s \in Slots : fBox'.slots[s] = "fsm_E_REBOOT"
  <2>1. fBox \in Boxes(FsmEvent) /\ "fsm_E_REBOOT" \in FsmEvent
    BY Types, Events
  <2>2. fBox' \in Boxes(FsmEvent) /\ Takes(fBox, "fsm_E_REBOOT", fBox')
    BY <1>1, <2>1, PutSlots
  <2> QED
    BY <2>2 DEF Takes
<1>3. \E s \in Slots : fBox'.slots[s] = "fsm_E_REBOOT"
  <2>1. CASE Free(fBox) = {}
    <3>1. 1 \in Slots
      BY FsmAssumption DEF Slots
    <3>2. fBox.slots[1] # None /\ fBox.slots[1] # "sm_E_INIT"
      BY <1>1, <2>1, <3>1 DEF IInv, InitGone, Free
    <3>3. fBox.slots[1] \in FsmEvent \cup {None}
      BY <3>1, Types, BoxParts
    <3>4. fBox.slots[1] = "fsm_E_REBOOT"
      BY <3>2, <3>3 DEF FsmEvent
    <3> QED
      BY <1>2, <3>1, <3>2, <3>4
  <2> QED
    BY <1>2, <2>1
<1>4. RebootUnderWay'
  BY <1>3 DEF RebootUnderWay, Slots
<1>5. TypeOK'
  <2>1. FSM!TypeOK'
    BY <1>1, <1>2, BoxTypes DEF IInv, TypeOK, FSM!TypeOK
  <2>2. BLE!TypeOK'
    BY <1>1 DEF IInv, TypeOK, BLE!TypeOK
  <2>3. commits' \in 0..MaxCommits
    BY <1>1, FsmAssumption DEF IInv, TypeOK
  <2> QED
    BY <1>1, <2>1, <2>2, <2>3 DEF IInv, TypeOK
<1>6. Holding' /\ StartOrder' /\ ScansWhenReady'
  BY <1>1 DEF IInv, Holding, StartOrder, ScansWhenReady
<1>7. InitGone'
  BY <1>1, <1>2 DEF IInv, InitGone
<1>8. RebootHandled'
  <2>1. ASSUME fPc = "free" PROVE fSlot \in Slots /\ fBox.slots[fSlot] # None
    <3>1. fSlot \in Slots
      BY <2>1, Types DEF IInv, Holding
    <3>2. \A s \in Slots : s = fSlot => fBox.slots[s] # None
      BY DEF IInv, Engine!IInv, Engine!EventsAccounted, Engine!Slot,
             Engine!NoEvent, Slots, None
    <3> QED
      BY <3>1, <3>2
  <2> QED
    BY <1>1, <1>2, <2>1 DEF IInv, RebootHandled
<1>9. Engine!IInv'
  BY EngineStep DEF IInv
<1> QED
  BY <1>9, <1>4, <1>5, <1>6, <1>7, <1>8 DEF IInv

LEMMA Invariance == Spec => []IInv
<1>1. IInv /\ [Next]_vars => IInv'
  <2> SUFFICES ASSUME IInv, [Next]_vars PROVE IInv'
    OBVIOUS
  <2>1. CASE UNCHANGED vars
    <3>1. UNCHANGED <<isSink, doOtap, fsmInitialized, bleInitialized, scanner,
                      refused, rebootTask, fBox, fState, fExit, fSlot, fPc,
                      fScheduled, bBox, bState, bExit, bSlot, bPc, bScheduled,
                      commits, resets>>
      BY <2>1 DEF vars, flags, fsm, ble, bounds
    <3>2. FSM!TypeOK' /\ BLE!TypeOK'
      BY <3>1 DEF IInv, TypeOK, FSM!TypeOK, BLE!TypeOK
    <3>3. TypeOK'
      BY <3>1, <3>2 DEF IInv, TypeOK
    <3>4. Holding' /\ StartOrder' /\ ScansWhenReady' /\ InitGone'
      BY <3>1 DEF IInv, Holding, StartOrder, ScansWhenReady, InitGone
    <3>5. RebootHandled' /\ RebootUnderWay'
      BY <3>1 DEF IInv, RebootHandled, RebootUnderWay
    <3>6. Engine!IInv'
      BY <3>1, EngineStep DEF IInv, fsm
    <3> QED
      BY <3>3, <3>4, <3>5, <3>6 DEF IInv
  <2> QED
    BY <2>1, FsmEngineInv, BleEngineInv, FsmHandleInv, BleHandleInv,
       DelayOverInv, ResetInv, ScanRequestInv, CommitInv DEF Next, Task
<1> QED
  BY <1>1, InitInv, PTL DEF Spec

\* Both machines stay well formed, and never run at the same time.
THEOREM FsmTypeCorrect == Spec => []TypeOK
BY Invariance, PTL DEF IInv

\* The radio scans only on a sink, with the callback registered and the stack
\* configured. (fsm.c:144-157, ble.c:117-130, 293-325)
THEOREM ScannerReady == Spec => []ScansWhenReady
BY Invariance, PTL DEF IInv

\* Once an upload is complete a reboot is under way, although the queue it is
\* fired into may be full. (ble.c:545-549, sm.c:99-105)
THEOREM RebootNotLost == Spec => []RebootUnderWay
BY Invariance, PTL DEF IInv

-----------------------------------------------------------------------------
(* The life of the node.                                                   *)

\* A reboot is fired by a complete upload only, and a machine with an exit
\* action left to run is in the state that no row leaves.
LifeInv ==
  /\ rebootTask # "none" => doOtap
  /\ \A s \in Slots : fBox.slots[s] = "fsm_E_REBOOT" => doOtap
  /\ bExit # "NULL" => bState = "ble_S_SCANNING"

LEMMA RebootRow == "reboot" \in FSM!Entry({}) => fBox.slots[fSlot] = "fsm_E_REBOOT"
<1>1. DOMAIN FsmMatrix = {1, 2}
  BY DEF FsmMatrix
<1>2. FsmMatrix[1].entry = "initialize" /\ FsmMatrix[2].event = "fsm_E_REBOOT"
  BY DEF FsmMatrix
<1>3. \A row \in FSM!Row({}) :
        row.entry = "reboot" => fBox.slots[fSlot] = "fsm_E_REBOOT"
  <2> TAKE row \in FSM!Row({})
  <2>1. PICK i \in {1, 2} : row = FsmMatrix[i]
                              /\ FsmMatrix[i].event = fBox.slots[fSlot]
    BY <1>1 DEF FSM!Row, FSM!Matches
  <2> QED
    BY <1>2, <2>1
<1> QED
  BY <1>3 DEF FSM!Entry

LEMMA NothingLeavesScanning ==
  ASSUME bState = "ble_S_SCANNING"
  PROVE  BLE!Row(Guards) = {}
<1>1. DOMAIN BleMatrix = {1, 2}
  BY DEF BleMatrix
<1>2. \A i \in {1, 2} :
        BleMatrix[i].state \notin {"ble_S_SCANNING", "sm_S_ANY_STATE"}
  BY DEF BleMatrix
<1>3. BLE!Matches(Guards) = {}
  BY <1>1, <1>2 DEF BLE!Matches
<1> QED
  BY <1>3 DEF BLE!Row

\* The scanner is not stopped, and the callback stays registered.
LEMMA KeepsListening ==
  ASSUME LifeInv, BleHandle
  PROVE  /\ scanner => scanner'
         /\ bleInitialized => bleInitialized'
<1>1. "scanningStop" \notin BLE!Exit(Guards)
  <2>1. CASE bExit = "NULL"
    BY <2>1 DEF BLE!Exit
  <2>2. CASE bExit # "NULL"
    BY <2>2, NothingLeavesScanning DEF LifeInv, BLE!Exit
  <2> QED
    BY <2>1, <2>2
<1> QED
  BY <1>1 DEF BleHandle

LEMMA LifeInit == Init => LifeInv
<1> SUFFICES ASSUME Init PROVE LifeInv
  OBVIOUS
<1>1. \A s \in Slots : FSM!EmptyBox.slots[s] = None
  BY DEF FSM!EmptyBox, FSM!Slot, FSM!NoEvent, Slots, None
<1>2. FSM!EmptyBox \in Boxes(FsmEvent)
  BY DEF FSM!EmptyBox, FSM!Slot, FSM!NoEvent, Slots, None, Boxes
<1>3. Takes(FSM!EmptyBox, "sm_E_INIT", fBox)
  BY <1>2, PutSlots, Events DEF Init
<1>4. \A s \in Slots : fBox.slots[s] \in {None, "sm_E_INIT"}
  BY <1>1, <1>3 DEF Takes
<1> QED
  BY <1>4 DEF Init, LifeInv, BLE!Init, BLE!Null, None

LEMMA ResetLife == Reset => LifeInv'
<1> SUFFICES ASSUME Reset PROVE LifeInv'
  OBVIOUS
<1>1. \A s \in Slots : FSM!EmptyBox.slots[s] = None
  BY DEF FSM!EmptyBox, FSM!Slot, FSM!NoEvent, Slots, None
<1>2. FSM!EmptyBox \in Boxes(FsmEvent)
  BY DEF FSM!EmptyBox, FSM!Slot, FSM!NoEvent, Slots, None, Boxes
<1>3. Takes(FSM!EmptyBox, "sm_E_INIT", fBox')
  BY <1>2, PutSlots, Events DEF Reset
<1>4. \A s \in Slots : fBox'.slots[s] \in {None, "sm_E_INIT"}
  BY <1>1, <1>3 DEF Takes
<1> QED
  BY <1>4 DEF Reset, LifeInv, None

LEMMA LifeInductive == IInv /\ LifeInv /\ [Next]_vars => LifeInv'
<1> SUFFICES ASSUME IInv, LifeInv, [Next]_vars PROVE LifeInv'
  OBVIOUS
<1>1. CASE UNCHANGED <<doOtap, rebootTask, fBox, bExit, bState>>
  BY <1>1 DEF LifeInv
<1>2. CASE FsmEngine
  <2>1. UNCHANGED <<doOtap, rebootTask, bExit, bState>>
    BY <1>2 DEF FsmEngine, flags, ble
  <2>2. fBox' = fBox \/ fBox' = [fBox EXCEPT !.queue = Tail(@)]
          \/ (FSM!Free /\ fBox' = [fBox EXCEPT !.slots[fSlot] = None])
    BY <1>2 DEF FsmEngine, FSM!Start, FSM!Free, FSM!Return, FSM!Leave,
       FSM!NoEvent, None
  <2>3. CASE fBox' = [fBox EXCEPT !.queue = Tail(@)]
    <3>1. fBox'.slots = fBox.slots
      BY <2>3, Types, BoxParts
    <3> QED
      BY <2>1, <3>1 DEF LifeInv
  <2>4. CASE FSM!Free /\ fBox' = [fBox EXCEPT !.slots[fSlot] = None]
    <3>1. fSlot \in Slots
      BY <2>4, Types DEF FSM!Free, IInv, Holding
    <3>2. \A t \in Slots : fBox'.slots[t] \in {None, fBox.slots[t]}
      BY <2>4, <3>1, Freed, Types
    <3> QED
      BY <2>1, <3>2 DEF LifeInv, None
  <2> QED
    BY <1>1, <2>1, <2>2, <2>3, <2>4
<1>3. CASE FsmHandle
  <2>1. UNCHANGED <<doOtap, fBox, bExit, bState>> /\ fPc = "handle"
    BY <1>3 DEF FsmHandle, FSM!Handle
  <2>2. fSlot \in Slots
    BY <2>1, Types DEF IInv, Holding
  <2>3. rebootTask' # "none" => doOtap
    <3>1. CASE "reboot" \in FSM!Entry({})
      BY <2>2, <3>1, RebootRow DEF LifeInv
    <3>2. CASE "reboot" \notin FSM!Entry({})
      BY <1>3, <3>2 DEF FsmHandle, LifeInv
    <3> QED
      BY <3>1, <3>2
  <2> QED
    BY <2>1, <2>3 DEF LifeInv
<1>4. CASE BleHandle
  <2>1. UNCHANGED <<doOtap, rebootTask, fBox>>
    BY <1>4 DEF BleHandle, fsm
  <2>2. bExit' # "NULL" => bState' = "ble_S_SCANNING"
    <3>1. CASE BLE!Row(Guards) = {}
      BY <1>4, <3>1 DEF BleHandle, BLE!Handle, LifeInv
    <3>2. CASE BLE!Row(Guards) # {}
      <4>1. PICK row \in BLE!Row(Guards) :
              /\ bState' = IF row.next = "sm_S_NO_NEW_STATE" THEN bState
                                                             ELSE row.next
              /\ bExit' = row.exit
        BY <1>4, <3>2 DEF BleHandle, BLE!Handle
      <4>2. row \in {BleMatrix[1], BleMatrix[2]}
        <5>1. DOMAIN BleMatrix = {1, 2}
          BY DEF BleMatrix
        <5> QED
          BY <4>1, <5>1 DEF BLE!Row, BLE!Matches
      <4>3. /\ BleMatrix[1].exit = "NULL"
            /\ BleMatrix[2].next = "ble_S_SCANNING"
        BY DEF BleMatrix
      <4> QED
        BY <4>1, <4>2, <4>3
    <3> QED
      BY <3>1, <3>2
  <2> QED
    BY <2>1, <2>2 DEF LifeInv
<1>5. CASE DelayOver
  BY <1>5 DEF DelayOver, fsm, ble, LifeInv
<1>6. CASE RebootTask \/ ButtonPress
  BY <1>6, ResetLife DEF RebootTask, ButtonPress
<1>7. CASE Commit
  <2>1. doOtap' /\ UNCHANGED <<bExit, bState>>
    BY <1>7 DEF Commit, ble
  <2> QED
    BY <2>1 DEF LifeInv
<1>8. CASE BleEngine \/ ScanRequest \/ UNCHANGED vars
  <2>1. UNCHANGED <<doOtap, rebootTask, fBox, bExit, bState>>
    BY <1>8 DEF BleEngine, BLE!Start, BLE!Free, BLE!Return, BLE!Leave,
       ScanRequest, BLE!Sm_fireEvent, BLE!handler, fsm, flags, ble, vars
  <2> QED
    BY <1>1, <2>1
<1> QED
  BY <1>2, <1>3, <1>4, <1>5, <1>6, <1>7, <1>8 DEF Next, Task

\* Every step of the machines is a step of the life of the node, or none.
LEMMA LifeStep ==
  ASSUME IInv, IInv', LifeInv, [Next]_vars
  PROVE  [Life!Next]_(Life!vars)
<1>1. CASE UNCHANGED <<isSink, doOtap, scanner, bleInitialized, resets>>
  BY <1>1 DEF Life!vars, Phase, Heard
<1>2. CASE BleHandle
  <2>1. UNCHANGED <<isSink, doOtap, resets>>
    BY <1>2 DEF BleHandle, bounds
  <2>2. Heard => Heard'
    BY <1>2, KeepsListening DEF Heard
  <2>3. Heard' => isSink
    BY <2>1 DEF Heard, IInv, ScansWhenReady
  <2> QED
    BY <2>1, <2>2, <2>3 DEF Phase, Life!Next, Life!Listen, Life!vars
<1>3. CASE Commit
  BY <1>3 DEF Commit, Phase, Life!Next, Life!Commit, Life!vars, Heard
<1>4. CASE RebootTask
  <2>1. doOtap
    BY <1>4 DEF RebootTask, LifeInv
  <2>2. ~doOtap' /\ ~Heard' /\ UNCHANGED <<isSink, resets>>
    BY <1>4 DEF RebootTask, Reset, Heard
  <2> QED
    BY <2>1, <2>2 DEF Phase, Life!Next, Life!Reboot
<1>5. CASE ButtonPress
  <2>1. ~doOtap' /\ ~Heard' /\ resets' = resets + 1 /\ isSink' \in BOOLEAN
    BY <1>5 DEF ButtonPress, Reset, Heard
  <2> QED
    BY <2>1 DEF Phase, Life!Next, Life!Press
<1>6. CASE FsmEngine \/ FsmHandle \/ BleEngine \/ DelayOver \/ ScanRequest
             \/ UNCHANGED vars
  BY <1>1, <1>6 DEF FsmEngine, FsmHandle, BleEngine, DelayOver, ScanRequest,
     vars, flags, bounds
<1> QED
  BY <1>2, <1>3, <1>4, <1>5, <1>6 DEF Next, Task

\* The machines, their queues and tasks implement the life of the node, however
\* short the queues are and whatever is fired into them: a sink that listens is
\* not stopped, the delayed reboot belongs to a complete upload, and a reset
\* leaves nothing of the old state behind. (fsm.c:99-103, 128-189;
\* ble.c:117-130, 293-335; sm.c:132-169)
THEOREM FsmIsLife == Spec => ImplementsLife
<1>1. Init => Life!Init
  BY DEF Init, Life!Init, Phase, Heard
<1>2. Spec => [](IInv /\ LifeInv)
  BY LifeInit, LifeInductive, Invariance, PTL DEF Spec
<1>3. IInv /\ IInv' /\ LifeInv /\ [Next]_vars => [Life!Next]_(Life!vars)
  BY LifeStep
<1>4. Spec => Life!Spec
  BY <1>1, <1>2, <1>3, PTL DEF Spec, Life!Spec
<1> QED
  BY <1>4 DEF ImplementsLife

=============================================================================
