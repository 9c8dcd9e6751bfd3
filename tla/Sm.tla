--------------------------------- MODULE Sm ---------------------------------
(***************************************************************************)
(* The state machine engine of src/src/sm.c: Sm_fireEvent(), which tasks   *)
(* and callbacks call, and Sm_handleEvents(), a task of the application    *)
(* scheduler that handles one event each time it runs.                     *)
(*                                                                         *)
(* Sm_fireEvent() runs to completion and may come between any two steps of *)
(* the handler, whose actions may call it themselves.  What a transition   *)
(* does is left to the module that instantiates this one.                  *)
(***************************************************************************)
EXTENDS Naturals, Sequences

CONSTANTS
  QueueLen,  \* event_queue_len
  Event,     \* sm_event_e
  State,     \* sm_state_e
  Matrix     \* event_matrix, a sequence of rows

NoEvent == "sm_E_NONE"
NoSlot == 0
Null == "NULL"

\* Each row filters on a state and an event and may have a guard.
ASSUME SmAssumption ==
  /\ QueueLen \in Nat \ {0}
  /\ NoEvent \notin Event
  /\ "sm_S_BOOT" \in State
  /\ \A i \in DOMAIN Matrix :
       Matrix[i].next \in State \cup {"sm_S_NO_NEW_STATE"}

VARIABLES
  box,          \* event_queue[] and the list of the slots that wait in it
  currentState, \* current_state
  exitAction,   \* exit_action
  slot,         \* the slot popped last, while its event is handled
  pc,           \* where Sm_handleEvents() is, "idle" when it does not run
  scheduled     \* the scheduler holds a request to run Sm_handleEvents()

handler == <<currentState, exitAction, slot, pc>>
vars == <<box, handler, scheduled>>

Slot == 1..QueueLen
EmptyBox == [slots |-> [s \in Slot |-> NoEvent], queue |-> <<>>]

\* Sm_createStatic()
Init ==
  /\ box = EmptyBox
  /\ currentState = "sm_S_BOOT"
  /\ exitAction = Null
  /\ slot = NoSlot
  /\ pc = "idle"
  /\ scheduled = FALSE

-----------------------------------------------------------------------------

FreeSlots(b) == {s \in Slot : b.slots[s] = NoEvent}

FirstFree(b) == CHOOSE s \in FreeSlots(b) : \A t \in FreeSlots(b) : s <= t

\* Mutant: the slot in use is taken for the end of the list.
PutAtFront(b, e) ==
  IF FreeSlots(b) = {} THEN b
  ELSE [slots |-> [b.slots EXCEPT ![FirstFree(b)] = e],
        queue |-> <<FirstFree(b)>> \o b.queue]

\* The queue after an event has been fired: it is lost when no slot is free.
Put(b, e) ==
  IF FreeSlots(b) = {} THEN b
  ELSE [slots |-> [b.slots EXCEPT ![FirstFree(b)] = e],
        queue |-> Append(b.queue, FirstFree(b))]

\* Sm_fireEvent()
Sm_fireEvent(e) ==
  /\ box' = Put(box, e)
  /\ scheduled' = TRUE
  /\ UNCHANGED handler

-----------------------------------------------------------------------------
(* Sm_handleEvents(), one step per point where an event may be fired.      *)

\* Mutant: the slot is given back as soon as it is popped.
StartFreesSlot ==
  /\ pc = "idle"
  /\ scheduled
  /\ scheduled' = FALSE
  /\ \/ /\ box.queue = <<>>
        /\ UNCHANGED <<box, slot, pc>>
     \/ /\ box.queue # <<>>
        /\ slot' = Head(box.queue)
        /\ box' = [slots |-> [box.slots EXCEPT ![Head(box.queue)] = NoEvent],
                   queue |-> Tail(box.queue)]
        /\ pc' = "handle"
  /\ UNCHANGED <<currentState, exitAction>>

Start ==
  /\ pc = "idle"
  /\ scheduled
  /\ scheduled' = FALSE
  /\ \/ /\ box.queue = <<>>
        /\ UNCHANGED <<box, slot, pc>>
     \/ /\ box.queue # <<>>
        /\ slot' = Head(box.queue)
        /\ box' = [box EXCEPT !.queue = Tail(@)]
        /\ pc' = "handle"
  /\ UNCHANGED <<currentState, exitAction>>

\* The rows that match the event, given the guards that hold; the first counts.
Matches(holds) ==
  {i \in DOMAIN Matrix :
     /\ Matrix[i].event = box.slots[slot]
     /\ Matrix[i].state \in {currentState, "sm_S_ANY_STATE"}
     /\ Matrix[i].guard \in holds \cup {Null}}

Row(holds) == {Matrix[i] : i \in {i \in Matches(holds) :
                                    \A j \in Matches(holds) : i <= j}}

\* The entry action of the row is run after the exit action left by the row
\* before it.
Entry(holds) == {row.entry : row \in Row(holds)}
Exit(holds) == {exitAction : row \in Row(holds)}

\* Mutant: the marker for "no new state" is taken for a state.
HandleStoresMarker(holds) ==
  /\ pc = "handle"
  /\ \/ /\ Row(holds) = {}
        /\ UNCHANGED <<currentState, exitAction>>
     \/ \E row \in Row(holds) :
          /\ currentState' = row.next
          /\ exitAction' = row.exit
  /\ pc' = "free"
  /\ UNCHANGED slot

Handle(holds) ==
  /\ pc = "handle"
  /\ \/ /\ Row(holds) = {}
        /\ UNCHANGED <<currentState, exitAction>>
     \/ \E row \in Row(holds) :
          /\ currentState' = IF row.next = "sm_S_NO_NEW_STATE"
                             THEN currentState ELSE row.next
          /\ exitAction' = row.exit
  /\ pc' = "free"
  /\ UNCHANGED slot

Free ==
  /\ pc = "free"
  /\ box' = [box EXCEPT !.slots[slot] = NoEvent]
  /\ slot' = NoSlot
  /\ pc' = "return"
  /\ UNCHANGED <<currentState, exitAction, scheduled>>

\* Mutant: the task stops although events wait.
ReturnStop ==
  /\ pc = "return"
  /\ pc' = "stop"
  /\ UNCHANGED <<box, currentState, exitAction, slot, scheduled>>

\* The list is looked at before the scheduler is told.
Return ==
  /\ pc = "return"
  /\ pc' = IF box.queue = <<>> THEN "stop" ELSE "again"
  /\ UNCHANGED <<box, currentState, exitAction, slot, scheduled>>

\* The scheduler keeps a request made meanwhile.
Leave ==
  /\ pc \in {"stop", "again"}
  /\ pc' = "idle"
  /\ scheduled' = (scheduled \/ pc = "again")
  /\ UNCHANGED <<box, currentState, exitAction, slot>>

\* A transition with no effect on the queue, whatever its guards say.
HandleAlone(holds) == Handle(holds) /\ UNCHANGED <<box, scheduled>>

Task ==
  \/ Start \/ Free \/ Return \/ Leave
  \/ \E holds \in SUBSET {Matrix[i].guard : i \in DOMAIN Matrix} :
       HandleAlone(holds)

Next == Task \/ \E e \in Event : Sm_fireEvent(e)

Spec == Init /\ [][Next]_vars

\* The scheduler runs what is scheduled and what runs returns.
FairSpec == Spec /\ WF_vars(Task)

-----------------------------------------------------------------------------

Box == [slots : [Slot -> Event \cup {NoEvent}], queue : Seq(Slot)]

TypeOK ==
  /\ box \in Box
  /\ currentState \in State
  /\ slot \in Slot \cup {NoSlot}
  /\ pc \in {"idle", "handle", "free", "return", "stop", "again"}
  /\ scheduled \in BOOLEAN

\* Every slot with an event has exactly one owner, the list or the handler: an
\* event is neither lost nor handled twice, and its slot is not reused while
\* it is handled. (sm.c:99-105 against sm.c:127-129 and 173)
EventsAccounted ==
  /\ \A i, j \in 1..Len(box.queue) : box.queue[i] = box.queue[j] => i = j
  /\ \A i \in 1..Len(box.queue) : box.queue[i] # slot
  /\ \A s \in Slot :
       box.slots[s] # NoEvent <=> \/ \E i \in 1..Len(box.queue) : box.queue[i] = s
                                  \/ s = slot

\* The task never sleeps while an event waits, wherever it was when the event
\* was fired. (sm.c:107-108 against sm.c:123-125 and 183)
AwakeForEvents == box.queue # <<>> /\ pc = "idle" => scheduled

\* Slots, list and handler implement the abstract queue: events are handled in
\* the order in which they were fired, one at a time, each of them, and one is
\* dropped only when every slot is taken. (sm.c:96-185)
Pending == [i \in DOMAIN box.queue |-> box.slots[box.queue[i]]]
Current == IF slot = NoSlot THEN NoEvent ELSE box.slots[slot]

Queue == INSTANCE EventQueue WITH pending <- Pending, current <- Current

ImplementsQueue == Queue!FairSpec

=============================================================================
