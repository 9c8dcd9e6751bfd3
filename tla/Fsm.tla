-------------------------------- MODULE Fsm ---------------------------------
(***************************************************************************)
(* The two state machines of the firmware, src/src/mod/fsm.c and the one   *)
(* in src/src/mod/ble.c, on the engine of module Sm: start-up of the BLE   *)
(* module, start of the scanner, and the delayed reboot after an upload.   *)
(*                                                                         *)
(* Both machines are tasks of one scheduler, which runs one task at a      *)
(* time; the callbacks of the radio come between any two steps.            *)
(***************************************************************************)
EXTENDS Naturals, Sequences

CONSTANTS
  QueueLen,   \* sm_EVENT_QUEUE_LEN_FSM and _BLE (10)
  MaxCommits, \* bound: uploads completed before a reset
  MaxResets   \* bound: presses of the button

ASSUME FsmAssumption ==
  /\ QueueLen \in Nat \ {0}
  /\ MaxCommits \in Nat
  /\ MaxResets \in Nat

VARIABLES
  isSink,          \* m_app_settings.is_sink
  doOtap,          \* m_app_settings.do_otap
  fsmInitialized,  \* Fsm_context.initialized
  bleInitialized,  \* Ble_context.initialized: bleReceiveCb() is registered
  scanner,         \* the radio scans
  refused,         \* it refused to
  rebootTask,      \* reboot_task(): "none", "delayed" or "due"
  fBox, fState, fExit, fSlot, fPc, fScheduled,  \* Sm_context of fsm.c
  bBox, bState, bExit, bSlot, bPc, bScheduled,  \* Sm_context of ble.c
  commits, resets

fsm == <<fBox, fState, fExit, fSlot, fPc, fScheduled>>
ble == <<bBox, bState, bExit, bSlot, bPc, bScheduled>>
flags == <<isSink, doOtap, fsmInitialized, bleInitialized, scanner, refused,
           rebootTask>>
bounds == <<commits, resets>>
vars == <<flags, fsm, ble, bounds>>

State == {"sm_S_BOOT", "sm_S_IDLE", "ble_S_SCANNING"}

FsmEvent == {"sm_E_INIT", "fsm_E_REBOOT"}

\* Mutant: the reboot is a transition of the state after boot only.
FsmMatrixRebootInBoot == <<
  [state |-> "sm_S_BOOT", event |-> "sm_E_INIT", guard |-> "NULL",
   next |-> "sm_S_IDLE", entry |-> "initialize", exit |-> "NULL"],
  [state |-> "sm_S_BOOT", event |-> "fsm_E_REBOOT", guard |-> "NULL",
   next |-> "sm_S_NO_NEW_STATE", entry |-> "reboot", exit |-> "NULL"]
>>

\* m_event_matrix of fsm.c
FsmMatrix == <<
  [state |-> "sm_S_BOOT", event |-> "sm_E_INIT", guard |-> "NULL",
   next |-> "sm_S_IDLE", entry |-> "initialize", exit |-> "NULL"],
  [state |-> "sm_S_ANY_STATE", event |-> "fsm_E_REBOOT", guard |-> "NULL",
   next |-> "sm_S_NO_NEW_STATE", entry |-> "reboot", exit |-> "NULL"]
>>

BleEvent == {"sm_E_INIT", "ble_E_SCANNING_START", "ble_E_CONNECTING_START"}

\* Mutant: the connection is a transition that keeps the state.
BleMatrixConnecting == <<
  [state |-> "sm_S_BOOT", event |-> "sm_E_INIT", guard |-> "NULL",
   next |-> "sm_S_IDLE", entry |-> "initialize", exit |-> "NULL"],
  [state |-> "sm_S_IDLE", event |-> "ble_E_SCANNING_START", guard |-> "isSink",
   next |-> "ble_S_SCANNING", entry |-> "scanningStart",
   exit |-> "scanningStop"],
  [state |-> "sm_S_ANY_STATE", event |-> "ble_E_CONNECTING_START",
   guard |-> "NULL", next |-> "sm_S_NO_NEW_STATE", entry |-> "NULL",
   exit |-> "NULL"]
>>

\* m_event_matrix of ble.c
BleMatrix == <<
  [state |-> "sm_S_BOOT", event |-> "sm_E_INIT", guard |-> "NULL",
   next |-> "sm_S_IDLE", entry |-> "initialize", exit |-> "NULL"],
  [state |-> "sm_S_IDLE", event |-> "ble_E_SCANNING_START", guard |-> "isSink",
   next |-> "ble_S_SCANNING", entry |-> "scanningStart",
   exit |-> "scanningStop"]
>>

FSM == INSTANCE Sm WITH
  Event <- FsmEvent, Matrix <- FsmMatrix, box <- fBox, currentState <- fState,
  exitAction <- fExit, slot <- fSlot, pc <- fPc, scheduled <- fScheduled

BLE == INSTANCE Sm WITH
  Event <- BleEvent, Matrix <- BleMatrix, box <- bBox, currentState <- bState,
  exitAction <- bExit, slot <- bSlot, pc <- bPc, scheduled <- bScheduled

\* After App_init(): both machines are set up, INIT is fired at fsm.c.
Init ==
  /\ isSink \in BOOLEAN
  /\ doOtap = FALSE
  /\ fsmInitialized = FALSE
  /\ bleInitialized = FALSE
  /\ scanner = FALSE
  /\ refused = FALSE
  /\ rebootTask = "none"
  /\ fBox = FSM!Put(FSM!EmptyBox, "sm_E_INIT")
  /\ fState = "sm_S_BOOT"
  /\ fExit = "NULL"
  /\ fSlot = FSM!NoSlot
  /\ fPc = "idle"
  /\ fScheduled = TRUE
  /\ BLE!Init
  /\ commits = 0
  /\ resets = 0

-----------------------------------------------------------------------------
(* The tasks.                                                              *)

\* No task is running.
Idle == fPc = "idle" /\ bPc = "idle"

\* The steps of Sm_handleEvents() that run none of the module's functions.
FsmEngine ==
  /\ (Idle /\ FSM!Start) \/ FSM!Free \/ FSM!Return \/ FSM!Leave
  /\ UNCHANGED <<ble, flags, bounds>>

BleEngine ==
  /\ (Idle /\ BLE!Start) \/ BLE!Free \/ BLE!Return \/ BLE!Leave
  /\ UNCHANGED <<fsm, flags, bounds>>

\* Mutant: the scanner is started before the BLE module is initialised.
InitialEventsSwapped(b) ==
  BLE!Put(BLE!Put(b, "ble_E_SCANNING_START"), "sm_E_INIT")

\* Events that initialize() of fsm.c fires at the BLE module.
InitialEvents(b) ==
  BLE!Put(BLE!Put(b, "sm_E_INIT"), "ble_E_SCANNING_START")

\* initialize() and reboot() of fsm.c; to add reboot_task() again starts its
\* delay over.
FsmHandle ==
  /\ FSM!Handle({})
  /\ IF "initialize" \in FSM!Entry({}) /\ ~fsmInitialized
     THEN /\ fsmInitialized' = TRUE
          /\ bBox' = InitialEvents(bBox)
          /\ bScheduled' = TRUE
     ELSE UNCHANGED <<fsmInitialized, bBox, bScheduled>>
  /\ rebootTask' = IF "reboot" \in FSM!Entry({}) THEN "delayed" ELSE rebootTask
  /\ UNCHANGED <<fBox, fScheduled, bState, bExit, bSlot, bPc, isSink, doOtap,
                 bleInitialized, scanner, refused, bounds>>

\* Mutant: the guard is not evaluated.
GuardsUnchecked == {"isSink"}

Guards == IF isSink THEN {"isSink"} ELSE {}

\* initialize(), scanningStart() and scanningStop() of ble.c; the radio may
\* refuse to scan, which is only logged.
BleHandle ==
  /\ BLE!Handle(Guards)
  /\ bleInitialized' = (bleInitialized \/ "initialize" \in BLE!Entry(Guards))
  /\ LET stillOn == scanner /\ "scanningStop" \notin BLE!Exit(Guards)
     IN  IF "scanningStart" \in BLE!Entry(Guards)
         THEN \E ok \in BOOLEAN : scanner' = (stillOn \/ ok) /\ refused' = ~ok
         ELSE scanner' = stillOn /\ UNCHANGED refused
  /\ UNCHANGED <<bBox, bScheduled, fsm, isSink, doOtap, fsmInitialized,
                 rebootTask, bounds>>

-----------------------------------------------------------------------------
(* Callbacks and resets.                                                   *)

\* bleReceiveCb() is called.
Heard == scanner /\ bleInitialized

\* A scan request fires an event that no row of the matrix takes.
ScanRequest ==
  /\ Heard
  /\ BLE!Sm_fireEvent("ble_E_CONNECTING_START")
  /\ UNCHANGED <<fsm, flags, bounds>>

\* The last package of an upload, each time one is received.
Commit ==
  /\ Heard
  /\ commits < MaxCommits
  /\ commits' = commits + 1
  /\ doOtap' = TRUE
  /\ FSM!Sm_fireEvent("fsm_E_REBOOT")
  /\ UNCHANGED <<ble, isSink, fsmInitialized, bleInitialized, scanner, refused,
                 rebootTask, resets>>

\* A reset, up to the end of the next App_init().  A pending update is carried
\* out there, see Upload.
Reset ==
  /\ doOtap' = FALSE
  /\ fsmInitialized' = FALSE
  /\ bleInitialized' = FALSE
  /\ scanner' = FALSE
  /\ refused' = FALSE
  /\ rebootTask' = "none"
  /\ fBox' = FSM!Put(FSM!EmptyBox, "sm_E_INIT")
  /\ fState' = "sm_S_BOOT"
  /\ fExit' = "NULL"
  /\ fSlot' = FSM!NoSlot
  /\ fPc' = "idle"
  /\ fScheduled' = TRUE
  /\ bBox' = BLE!EmptyBox
  /\ bState' = "sm_S_BOOT"
  /\ bExit' = "NULL"
  /\ bSlot' = BLE!NoSlot
  /\ bPc' = "idle"
  /\ bScheduled' = FALSE
  /\ commits' = 0

\* The five seconds are over.
DelayOver ==
  /\ rebootTask = "delayed"
  /\ rebootTask' = "due"
  /\ UNCHANGED <<isSink, doOtap, fsmInitialized, bleInitialized, scanner,
                 refused, fsm, ble, bounds>>

\* reboot_task()
RebootTask ==
  /\ rebootTask = "due"
  /\ Idle
  /\ Reset
  /\ UNCHANGED <<isSink, resets>>

\* button_press_func(): the new role may fail to be stored.
ButtonPress ==
  /\ resets < MaxResets
  /\ resets' = resets + 1
  /\ isSink' \in BOOLEAN
  /\ Reset

Task == FsmEngine \/ BleEngine \/ FsmHandle \/ BleHandle

Next == Task \/ DelayOver \/ RebootTask \/ ScanRequest \/ Commit \/ ButtonPress

Spec == Init /\ [][Next]_vars

\* A task that runs returns, and the scheduler runs every task that is due,
\* although another one may be due again and again.
FairSpec ==
  /\ Spec
  /\ WF_vars(DelayOver)
  /\ SF_vars(RebootTask)
  /\ SF_vars(FsmEngine \/ FsmHandle)
  /\ SF_vars(BleEngine \/ BleHandle)

-----------------------------------------------------------------------------

TypeOK ==
  /\ isSink \in BOOLEAN /\ doOtap \in BOOLEAN
  /\ fsmInitialized \in BOOLEAN /\ bleInitialized \in BOOLEAN
  /\ scanner \in BOOLEAN /\ refused \in BOOLEAN
  /\ rebootTask \in {"none", "delayed", "due"}
  /\ FSM!TypeOK /\ fExit = "NULL"
  /\ BLE!TypeOK /\ bExit \in {"NULL", "scanningStop"}
  /\ fPc = "idle" \/ bPc = "idle"
  /\ commits \in 0..MaxCommits
  /\ resets \in 0..MaxResets

\* The radio scans only on a sink, with the callback registered and the stack
\* configured, wherever a press of the button or a reboot comes in.
\* (fsm.c:144-157, ble.c:117-130, 293-325)
ScansWhenReady == scanner => isSink /\ bleInitialized /\ fsmInitialized

\* Once an upload is complete a reboot is under way, however many events are
\* fired and even when the queue overflows. (ble.c:545-549, sm.c:99-105)
RebootUnderWay ==
  doOtap =>
    rebootTask # "none" \/ \E s \in 1..QueueLen : fBox.slots[s] = "fsm_E_REBOOT"

\* What the node is about, as module Lifecycle has it.
Phase == IF doOtap THEN "committed" ELSE IF Heard THEN "listening" ELSE "starting"

Life == INSTANCE Lifecycle WITH sink <- isSink, phase <- Phase,
                                presses <- resets

\* Both machines, their queues and tasks implement the life of the node: once a
\* sink listens no event stops it, nothing reboots but an upload that is complete
\* and the button, and no reset leaves a part of the old state behind.
\* (fsm.c:99-103, 128-189; ble.c:117-130, 293-335; sm.c:132-169)
ImplementsLife == Life!Spec

\* ... and it happens. (fsm.c:128-133, 185-189)
RebootHappens == doOtap ~> ~doOtap

\* A sink ends up scanning, unless the radio refuses. (fsm.c:150-157)
SinkScans == isSink ~> (scanner \/ refused \/ ~isSink)

=============================================================================
