------------------------------- MODULE Upload -------------------------------
(***************************************************************************)
(* Uploading a firmware image to the sink: the receive callback of         *)
(* src/src/mod/ble.c, the buffer of src/src/otap.c, the settings record of *)
(* src/src/app_settings.c and the start-up code of src/src/app.c, against  *)
(* the phones they talk to.                                                *)
(*                                                                         *)
(* A phone broadcasts one advertisement at a time, which the node may miss *)
(* or hear any number of times.  The node answers through one beacon, fed  *)
(* by the outbox of module Outbox, which the phones may miss too.          *)
(*                                                                         *)
(* An image is cut into Total[img] packages.  The buffer area is a header  *)
(* followed by one cell per package; a cell holds the image it was last    *)
(* written from.                                                           *)
(*                                                                         *)
(* The firmware waits for a flash operation, but not forever: one that     *)
(* takes longer counts as failed and still goes on (op).  The data of a    *)
(* package is then read from m_ble_rx_buffer while other messages come in. *)
(***************************************************************************)
EXTENDS Naturals, Sequences

CONSTANTS
  Phone,        \* the phones in range of the node
  Img,          \* the images they may upload
  Total,        \* Total[img]: number of packages of img
  Cells,        \* number of packages the buffer area holds
  ErasedCells,  \* how many of them lie in the sectors that are erased
  TxLen,        \* BLE_TX_LIST_LEN
  ScanId,       \* the ids phones give to their scan requests
  MaxRequests,  \* bound: uploads a phone begins
  MaxFaults,    \* bound: flash operations that fail or outlast their time-out
  MaxResets     \* bound: resets not asked for by the firmware itself

Erased == "erased"  \* flash content after an erase
Mixed == "mixed"    \* flash content that is no image's
Spoilt == "spoilt"  \* an image's, with bytes of other messages or blocks in it
None == "none"      \* no image

ASSUME UploadAssumption ==
  /\ Img \cap {Erased, Mixed, Spoilt, None} = {}
  /\ Total \in [Img -> Nat \ {0}]
  /\ Cells \in Nat
  /\ ErasedCells \in 0..Cells
  /\ TxLen \in Nat
  /\ ScanId \subseteq Nat
  /\ MaxRequests \in Nat

VARIABLES
  (* the phones *)
  phone,     \* what each one is doing
  air,       \* what each one advertises
  (* the node, lost at a reset *)
  mode,      \* "boot", "otap", "clear": in App_init(); "run": after it
  settings,  \* m_app_settings
  session,   \* context->otap: image announced, packages flagged as received
  lastPkg,   \* m_lastReceivedPackage
  lastId,    \* last_received_message_id
  reboot,    \* fsm_E_REBOOT was fired: reboot_task() will reset the node
  backlog,   \* the commands to send
  beacon,    \* the one on air
  (* the node, kept over a reset *)
  stored,    \* the settings record in flash
  header,    \* the header of the buffer: the image it announces
  cells,     \* the packages in the buffer
  op,        \* the operation on the buffer that outlasted its time-out
  installed, \* image in the scratchpad, set to be processed
  (* bounds *)
  faults, resets

phones == <<phone, air>>
flash == <<stored, header, cells, op, installed>>
received == <<lastPkg, lastId>>
bounds == <<faults, resets>>
vars == <<phones, mode, settings, session, received, reboot, backlog, beacon,
          flash, bounds>>

FirstId == 32768  \* start_message_id: ids from here on are packages

Quiet == [kind |-> "quiet", id |-> 0]
Scan(k) == [kind |-> "scan", id |-> k]
Begin(k, img) == [kind |-> "begin", id |-> k, img |-> img]
Data(i, img) == [kind |-> "data", id |-> FirstId + i, img |-> img]

\* The indices a package of some image has.
Indices == UNION {0..Total[img] - 1 : img \in Img}

Message == {Quiet} \cup {Scan(k) : k \in ScanId}
             \cup {Begin(k, img) : k \in 1..MaxRequests, img \in Img}
             \cup {Data(i, img) : i \in Indices, img \in Img}

Off == [kind |-> "off"]
ScanRsp(k) == [kind |-> "scanRsp", req |-> k]
BeginRsp(k, ok) == [kind |-> "beginRsp", req |-> k, ok |-> ok]
Status == [kind |-> "status"]
Resend(i) == [kind |-> "resend", index |-> i]
Done == [kind |-> "done"]

Cmd == {Status, Done} \cup {ScanRsp(k) : k \in ScanId}
         \cup {BeginRsp(k, ok) : k \in 1..MaxRequests, ok \in BOOLEAN}
         \cup {Resend(i) : i \in Indices}

TX == INSTANCE Outbox WITH NoCmd <- Off

Plain(c) == [cmd |-> c, held |-> FALSE]
\* Mutant: the request is sent without qos.
HeldWithoutQos(c) == [cmd |-> c, held |-> FALSE]

Held(c) == [cmd |-> c, held |-> TRUE]

Idle == [kind |-> "idle"]
Erasing == [kind |-> "erase"]
Writing(i, img) == [kind |-> "write", index |-> i, img |-> img]
Marking(img) == [kind |-> "mark", img |-> img]

Defaults == [valid |-> TRUE, doOtap |-> FALSE, isSink |-> FALSE]
NoSession == [img |-> None, received |-> {}]

Init ==
  /\ phone = [p \in Phone |->
                [phase |-> "idle", img |-> None, id |-> 0, next |-> 0]]
  /\ air = [p \in Phone |-> Quiet]
  /\ mode = "boot"
  /\ settings = Defaults
  /\ session = NoSession
  /\ lastPkg = Quiet
  /\ lastId = 0
  /\ reboot = FALSE
  /\ TX!Init
  /\ stored \in {[valid |-> FALSE, doOtap |-> FALSE, isSink |-> FALSE],
                 [valid |-> TRUE, doOtap |-> FALSE, isSink |-> TRUE]}
  /\ header = Erased
  /\ cells = [i \in 0..Cells - 1 |-> Erased]
  /\ op = Idle
  /\ installed = None
  /\ faults = 0
  /\ resets = 0

-----------------------------------------------------------------------------
(* The phones.  Not part of the repository: what the protocol of ble.h     *)
(* expects of them.  Each numbers its uploads and never uses a number      *)
(* twice; it numbers its scans as it likes.  It sends packages of the      *)
(* image it announced once the node has said it is ready, in any order and *)
(* as often as it likes.                                                   *)

PhoneScan(p, k) ==
  /\ phone[p].phase # "sending"
  /\ phone' = [phone EXCEPT ![p].phase = "idle"]
  /\ air' = [air EXCEPT ![p] = Scan(k)]

\* At any time: the app may have been started again.
PhoneBegin(p, img) ==
  /\ phone[p].id < MaxRequests
  /\ phone' = [phone EXCEPT ![p] = [phase |-> "waiting", img |-> img,
                                   id |-> phone[p].id + 1, next |-> 0]]
  /\ air' = [air EXCEPT ![p] = Begin(phone[p].id + 1, img)]

PhoneStart(p) ==
  /\ phone[p].phase = "waiting"
  /\ beacon.cmd = BeginRsp(phone[p].id, TRUE)
  /\ phone' = [phone EXCEPT ![p].phase = "sending"]
  /\ air' = [air EXCEPT ![p] = Quiet]

PhoneData(p, i) ==
  /\ phone[p].phase = "sending"
  /\ i < Total[phone[p].img]
  /\ air' = [air EXCEPT ![p] = Data(i, phone[p].img)]
  /\ phone' = [phone EXCEPT ![p].next = IF i = @ THEN @ + 1 ELSE @]

PhoneDone(p) ==
  /\ phone[p].phase = "sending"
  /\ beacon.cmd = Done
  /\ phone' = [phone EXCEPT ![p].phase = "idle"]
  /\ air' = [air EXCEPT ![p] = Quiet]

\* An app that keeps to the protocol: each package once, then what is asked.
PhoneFirst(p) == PhoneData(p, phone[p].next)

PhoneAnswer(p) ==
  /\ phone[p].phase = "sending"
  /\ phone[p].next = Total[phone[p].img]
  /\ \E i \in Indices : beacon.cmd = Resend(i) /\ PhoneData(p, i)

PhoneControl ==
  /\ \E p \in Phone :
       \/ \E k \in ScanId : PhoneScan(p, k)
       \/ \E img \in Img : PhoneBegin(p, img)
       \/ PhoneStart(p)
       \/ PhoneDone(p)
  /\ UNCHANGED <<mode, settings, session, received, reboot, backlog, beacon,
                 flash, bounds>>

-----------------------------------------------------------------------------
(* Flash.                                                                  *)

\* n flash operations of this step fail.
Failing(n) ==
  /\ faults + n <= MaxFaults
  /\ faults' = faults + n

\* Writing clears bits: what is not erased first is mixed up, unless it already
\* has the value written.
Program(old, new) ==
  CASE old \in {Erased, new} -> new
    [] old = Spoilt -> Spoilt
    [] OTHER -> Mixed

\* The same, cut short half-way.
Cut(old, new) == IF old = Erased THEN Mixed ELSE Program(old, new)

\* The same, going on while m_ble_rx_buffer is overwritten: what it had not read
\* yet is of other messages.
Late(old, new) ==
  {Program(old, new)} \cup (IF old \in {Erased, new} THEN {Spoilt} ELSE {})

\* The start of the area is erased first; the header is in front.
EraseUpTo(n) ==
  /\ header' = Erased
  /\ cells' = [i \in 0..Cells - 1 |-> IF i < n THEN Erased ELSE cells[i]]

WriteCell(i, img) == cells' = [cells EXCEPT ![i] = Program(@, img)]

\* A failing operation did not start, or goes on; none starts while another one
\* goes on, and that is not a failure of its own.
GoesOn(before, new) == IF before = Idle THEN {Idle, new} ELSE {before}

Fault(before) == IF before = Idle THEN 1 ELSE 0

\* Otap_bufferBegin()
Otap_bufferBegin(ok) ==
  \/ /\ ok
     /\ op = Idle
     /\ EraseUpTo(ErasedCells)
     /\ UNCHANGED <<op, faults>>
  \/ /\ ~ok
     /\ op' \in GoesOn(op, Erasing)
     /\ Failing(Fault(op))
     /\ UNCHANGED <<header, cells>>

\* Otap_bufferWrite(): done, out of the area, or failed.  after is what goes on
\* when it returns.
Otap_bufferWrite(i, img, ok, after, failures) ==
  \/ /\ ok /\ i < Cells
     /\ op = Idle /\ after = Idle /\ failures = 0
     /\ WriteCell(i, img)
  \/ /\ ~ok /\ i >= Cells
     /\ after = op /\ failures = 0
     /\ UNCHANGED cells
  \/ /\ ~ok /\ i < Cells
     /\ after \in GoesOn(op, Writing(i, img)) /\ failures = Fault(op)
     /\ UNCHANGED cells

\* Otap_bufferEnd(), called with the write before it perhaps going on: nobody
\* looks at its result.
Otap_bufferEnd(img, before, ok, failures) ==
  \/ /\ ok
     /\ before = Idle /\ op' = Idle /\ failures = 0
     /\ header' = Program(header, img)
  \/ /\ ~ok
     /\ op' \in GoesOn(before, Marking(img)) /\ failures = Fault(before)
     /\ UNCHANGED header

\* The operation that went on comes to its end.
LateEnd ==
  /\ op' = Idle
  /\ \/ op.kind = "erase" /\ EraseUpTo(ErasedCells)
     \/ /\ op.kind = "write"
        /\ \E new \in Late(cells[op.index], op.img) :
             cells' = [cells EXCEPT ![op.index] = new]
        /\ UNCHANGED header
     \/ /\ op.kind = "mark"
        /\ header' = Program(header, op.img)
        /\ UNCHANGED cells
  /\ UNCHANGED <<phones, mode, settings, session, received, reboot, backlog,
                 beacon, stored, installed, bounds>>

\* What it leaves behind when the node is reset before.
Interrupted ==
  \/ UNCHANGED <<header, cells>>
  \/ op.kind = "erase" /\ \E n \in 0..ErasedCells : EraseUpTo(n)
  \/ /\ op.kind = "write"
     /\ \E new \in {Cut(cells[op.index], op.img)} \cup Late(cells[op.index], op.img) :
          cells' = [cells EXCEPT ![op.index] = new]
     /\ UNCHANGED header
  \/ /\ op.kind = "mark"
     /\ header' \in {Cut(header, op.img), Program(header, op.img)}
     /\ UNCHANGED cells

\* AppSettings_store(): nobody looks at its result either.
AppSettings_store(s, ok) == stored' = IF ok THEN s ELSE stored

\* The record is neither the old one nor the new one.
StoredTorn == stored' = [stored EXCEPT !.valid = FALSE]

Count(oks) == IF oks THEN 0 ELSE 1

-----------------------------------------------------------------------------
(* bleReceiveCb().                                                         *)

\* ble.c scans in state ble_S_SCANNING only, which isSink() guards.
Audible(m) ==
  /\ mode = "run"
  /\ settings.isSink
  /\ m # Quiet
  /\ m # lastPkg

SameId(m) == m.id = lastId /\ m.id > 1

New(m) == Audible(m) /\ ~SameId(m)

Accepts(m) ==
  /\ New(m)
  /\ lastPkg' = m
  /\ lastId' = m.id

\* A package whose index is in the range of the session.
Index(m) == m.id - FirstId

InSession(m) ==
  /\ m.kind = "data"
  /\ session.img # None
  /\ Index(m) < Total[session.img]

\* A message with the id of the one before it is taken for the same message.
ReceiveDuplicate(p) ==
  /\ Audible(air[p])
  /\ SameId(air[p])
  /\ lastPkg' = air[p]
  /\ UNCHANGED <<phones, mode, settings, session, lastId, reboot, backlog,
                 beacon, flash, bounds>>

\* A package no session waits for still becomes the last message.
ReceiveOutOfSession(p) ==
  /\ air[p].kind = "data"
  /\ ~InSession(air[p])
  /\ Accepts(air[p])
  /\ UNCHANGED <<phones, mode, settings, session, reboot, backlog, beacon,
                 flash, bounds>>

ReceiveScan(p) ==
  /\ air[p].kind = "scan"
  /\ Accepts(air[p])
  /\ backlog' \in TX!AfterSend(backlog, Plain(ScanRsp(air[p].id)))
  /\ UNCHANGED <<phones, mode, settings, session, reboot, beacon, flash,
                 bounds>>

\* Mutants: the flags are not reset; a second request does not replace the
\* session.
NewSessionOldFlags(img) == [img |-> img, received |-> session.received]

NewSessionUnlessOpen(img) ==
  IF session.img = None THEN [img |-> img, received |-> {}] ELSE session

NewSession(img) == [img |-> img, received |-> {}]

\* The session starts over, whatever it was; keep_sending is left alone.
ReceiveBegin(p) ==
  /\ air[p].kind = "begin"
  /\ Accepts(air[p])
  /\ session' = NewSession(air[p].img)
  /\ \E ok \in BOOLEAN :
       /\ Otap_bufferBegin(ok)
       /\ backlog' \in TX!AfterSend(backlog, Plain(BeginRsp(air[p].id, ok)))
  /\ UNCHANGED <<phones, mode, settings, reboot, beacon, stored, installed,
                 resets>>

\* Mutant: the package is flagged whether its write failed or not.
FlaggedAlways(m, ok) == session.received \cup {Index(m)}

\* The packages flagged once the write is done, and what is still missing.
Flagged(m, ok) ==
  IF ok THEN session.received \cup {Index(m)} ELSE session.received

LastFlagged(got) == Total[session.img] - 1 \in got

\* Mutant: the search starts with the second package.
MissingAfterFirst(got) == (1..Total[session.img] - 1) \ got

Missing(got) == (0..Total[session.img] - 1) \ got

\* A status for every tenth id, and for each package after the last one.
StatusDue(m, got) == m.id % 10 = 0 \/ LastFlagged(got)

Replies(m, got) ==
  IF StatusDue(m, got) THEN TX!AfterSend(backlog, Plain(Status))
                       ELSE {backlog}

ReceiveData(p) ==
  /\ InSession(air[p])
  /\ Accepts(air[p])
  /\ \E ok \in BOOLEAN, failures \in 0..1 :
       LET got == Flagged(air[p], ok)
       IN  /\ ~LastFlagged(got)
           /\ Otap_bufferWrite(Index(air[p]), air[p].img, ok, op', failures)
           /\ Failing(failures)
           /\ session' = [session EXCEPT !.received = got]
           /\ backlog' \in Replies(air[p], got)
  /\ UNCHANGED <<phones, mode, settings, reboot, beacon, header, stored,
                 installed, resets>>

\* The last package is there, another one is not: ask for the first of them
\* and keep asking.
ReceiveDataAskResend(p) ==
  /\ InSession(air[p])
  /\ Accepts(air[p])
  /\ \E ok \in BOOLEAN, failures \in 0..1 :
       LET got == Flagged(air[p], ok)
       IN  /\ LastFlagged(got)
           /\ Otap_bufferWrite(Index(air[p]), air[p].img, ok, op', failures)
           /\ Failing(failures)
           /\ session' = [session EXCEPT !.received = got]
           /\ \E i \in Missing(got), q \in Replies(air[p], got) :
                /\ \A j \in Missing(got) : i <= j
                /\ backlog' \in TX!AfterSend(TX!Release(q), Held(Resend(i)))
  /\ beacon' = [beacon EXCEPT !.held = FALSE]
  /\ UNCHANGED <<phones, mode, settings, reboot, header, stored, installed,
                 resets>>

\* Nothing is missing: mark the buffer, report success, remember to process
\* the image after the reboot that is asked for.
ReceiveDataCommit(p) ==
  /\ InSession(air[p])
  /\ Accepts(air[p])
  /\ settings' = [settings EXCEPT !.doOtap = TRUE]
  /\ \E ok, marked, kept \in BOOLEAN, failed, missed \in 0..1,
        after \in {Idle, op, Writing(Index(air[p]), air[p].img)} :
       LET got == Flagged(air[p], ok)
       IN  /\ LastFlagged(got)
           /\ Missing(got) = {}
           /\ Otap_bufferWrite(Index(air[p]), air[p].img, ok, after, failed)
           /\ session' = [session EXCEPT !.received = got]
           /\ Otap_bufferEnd(session.img, after, marked, missed)
           /\ AppSettings_store(settings', kept)
           /\ Failing(failed + missed + Count(kept))
           /\ \E q \in Replies(air[p], got) :
                backlog' \in TX!AfterSend(TX!Release(q), Plain(Done))
  /\ beacon' = [beacon EXCEPT !.held = FALSE]
  /\ reboot' = TRUE
  /\ UNCHANGED <<phones, mode, installed, resets>>

Receive(p) ==
  \/ ReceiveDuplicate(p) \/ ReceiveOutOfSession(p) \/ ReceiveScan(p)
  \/ ReceiveBegin(p)
  \/ ReceiveData(p) \/ ReceiveDataAskResend(p) \/ ReceiveDataCommit(p)

-----------------------------------------------------------------------------
(* Start-up, and the ways back to it.                                      *)

\* What a reset does to RAM, and to what the flash was doing.
Restarted ==
  /\ mode' = "boot"
  /\ settings' = Defaults
  /\ session' = NoSession
  /\ lastPkg' = Quiet
  /\ lastId' = 0
  /\ reboot' = FALSE
  /\ backlog' = <<>>
  /\ beacon' = TX!Silent
  /\ op' = Idle
  /\ UNCHANGED phones

\* AppSettings_settingsGet(): nor at the result of reading it; what was not read
\* is not valid.
AppSettings_settingsGet(read) == IF read /\ stored.valid THEN stored ELSE Defaults

\* Mutant: the request is cleared before it is carried out.
BootClearsFirst ==
  /\ mode = "boot"
  /\ settings' = AppSettings_settingsGet(TRUE)
  /\ mode' = IF settings'.doOtap THEN "otap" ELSE "run"
  /\ stored' = [stored EXCEPT !.doOtap = FALSE]
  /\ UNCHANGED <<phones, session, received, reboot, backlog, beacon, header,
                 cells, op, installed, bounds>>

\* App_init(): the settings decide between an update and normal operation.
Boot ==
  /\ mode = "boot"
  /\ \E read \in BOOLEAN :
       /\ settings' = AppSettings_settingsGet(read)
       /\ Failing(Count(read))
  /\ mode' = IF settings'.doOtap THEN "otap" ELSE "run"
  /\ UNCHANGED <<phones, session, received, reboot, backlog, beacon, flash,
                 resets>>

\* Mutant: the magic number in the header is not looked at.
Otap_processUnchecked ==
  /\ mode = "otap"
  /\ installed' = header
  /\ mode' = "clear"
  /\ UNCHANGED <<phones, settings, session, received, reboot, backlog, beacon,
                 stored, header, cells, op, bounds>>

\* What the cells of the announced image hold; behind the area nothing is read.
Blocks ==
  {IF i < Cells THEN cells[i] ELSE Mixed : i \in 0..Total[header] - 1}

\* What the OTAP library is given.  Nobody looks at the result of read(): what
\* was not read is the block before it, or the header.
Given(read) ==
  CASE Blocks = {header} /\ read -> header
    [] Blocks \subseteq {header, Spoilt} /\ (Spoilt \in Blocks \/ ~read) -> Spoilt
    [] OTHER -> Mixed

\* Otap_process(): a buffer with a header is handed to the OTAP library.
Otap_process ==
  /\ mode = "otap"
  /\ \/ /\ header \in Img
        /\ \E read \in BOOLEAN :
             /\ installed' = Given(read)
             /\ Failing(Count(read))
     \/ /\ header \notin Img
        /\ UNCHANGED <<installed, faults>>
     \/ /\ Failing(1)
        /\ UNCHANGED installed
  /\ mode' = "clear"
  /\ UNCHANGED <<phones, settings, session, received, reboot, backlog, beacon,
                 stored, header, cells, op, resets>>

\* Whether the update worked or not, it is not tried again.
ClearOtap ==
  /\ mode = "clear"
  /\ \E kept \in BOOLEAN :
       /\ AppSettings_store([settings EXCEPT !.doOtap = FALSE], kept)
       /\ Failing(Count(kept))
  /\ Restarted
  /\ UNCHANGED <<header, cells, installed, resets>>

\* reboot_task(), some time after a commit.
Reboot ==
  /\ reboot
  /\ Interrupted
  /\ Restarted
  /\ UNCHANGED <<stored, installed, bounds>>

\* button_press_func() changes the role and resets the node.
ButtonPress ==
  /\ mode = "run"
  /\ resets < MaxResets
  /\ \E kept \in BOOLEAN :
       /\ AppSettings_store([settings EXCEPT !.isSink = ~@], kept)
       /\ Failing(Count(kept))
  /\ Interrupted
  /\ Restarted
  /\ resets' = resets + 1
  /\ UNCHANGED installed

(* Power is lost: between two handlers, or in the middle of one, while the *)
(* flash is being changed.                                                 *)

PowerLoss ==
  /\ Restarted
  /\ resets < MaxResets
  /\ resets' = resets + 1
  /\ UNCHANGED faults

PowerLossIdle ==
  /\ Interrupted
  /\ PowerLoss
  /\ UNCHANGED <<stored, installed>>

PowerLossInErase(p) ==
  /\ air[p].kind = "begin"
  /\ New(air[p])
  /\ op = Idle
  /\ \E n \in 0..ErasedCells : EraseUpTo(n)
  /\ PowerLoss
  /\ UNCHANGED <<stored, installed>>

PowerLossInWrite(p) ==
  /\ InSession(air[p])
  /\ New(air[p])
  /\ op = Idle
  /\ Index(air[p]) < Cells
  /\ cells' = [cells EXCEPT ![Index(air[p])] = Cut(@, air[p].img)]
  /\ PowerLoss
  /\ UNCHANGED <<stored, header, installed>>

\* The header is half written, or complete and the settings are still old, or
\* the settings are half written.
PowerLossInCommit(p) ==
  /\ InSession(air[p])
  /\ New(air[p])
  /\ Missing(Flagged(air[p], TRUE)) = {}
  /\ Otap_bufferWrite(Index(air[p]), air[p].img, TRUE, Idle, 0)
  /\ \/ /\ header' = Cut(header, session.img)
        /\ UNCHANGED stored
     \/ /\ Otap_bufferEnd(session.img, Idle, TRUE, 0)
        /\ StoredTorn \/ UNCHANGED stored
  /\ PowerLoss
  /\ UNCHANGED installed

\* In AppSettings_store(), called by the button or by App_init().
PowerLossInStore ==
  /\ mode \in {"run", "clear"}
  /\ StoredTorn
  /\ Interrupted
  /\ PowerLoss
  /\ UNCHANGED installed

Crash ==
  \/ ButtonPress \/ PowerLossIdle \/ PowerLossInStore
  \/ \E p \in Phone : \/ PowerLossInErase(p)
                      \/ PowerLossInWrite(p)
                      \/ PowerLossInCommit(p)

-----------------------------------------------------------------------------

\* bleSendTask(), see Outbox.
SendTask ==
  /\ TX!Advance \/ TX!SwitchOff
  /\ UNCHANGED <<phones, mode, settings, session, received, reboot, flash,
                 bounds>>

Start == Boot \/ Otap_process \/ ClearOtap

Node == SendTask \/ Start \/ Reboot \/ LateEnd \/ \E p \in Phone : Receive(p)

NodeUnchanged == UNCHANGED <<mode, settings, session, received, reboot,
                             backlog, beacon, flash, bounds>>

AnyData(p, i) == PhoneData(p, i) /\ NodeUnchanged

Next ==
  \/ Node
  \/ Crash
  \/ PhoneControl
  \/ \E p \in Phone, i \in Indices : AnyData(p, i)

Spec == Init /\ [][Next]_vars

\* The phones keep to the protocol.
PoliteData(p) == (PhoneFirst(p) \/ PhoneAnswer(p)) /\ NodeUnchanged

PoliteNext ==
  \/ Node
  \/ Crash
  \/ PhoneControl
  \/ \E p \in Phone : PoliteData(p)

\* The scheduler of the node keeps running its tasks, an app goes on with an
\* upload it has begun, a flash operation ends, and what a phone does not stop
\* sending is heard.
PoliteSpec ==
  /\ Init /\ [][PoliteNext]_vars
  /\ WF_vars(SendTask) /\ WF_vars(Start) /\ WF_vars(Reboot) /\ WF_vars(LateEnd)
  /\ \A p \in Phone : WF_vars(PoliteData(p)) /\ WF_vars(Receive(p))

-----------------------------------------------------------------------------

CellValue == Img \cup {Erased, Mixed, Spoilt}
Settings == [valid : BOOLEAN, doOtap : BOOLEAN, isSink : BOOLEAN]

PhoneType ==
  /\ phone \in [Phone -> [phase : {"idle", "waiting", "sending"},
                          img : Img \cup {None}, id : 0..MaxRequests,
                          next : Nat]]
  /\ air \in [Phone -> Message]

RamType ==
  /\ mode \in {"boot", "otap", "clear", "run"}
  /\ settings \in Settings
  /\ session \in [img : Img \cup {None}, received : SUBSET Nat]
  /\ lastPkg \in Message
  /\ lastId \in Nat
  /\ reboot \in BOOLEAN

TxType == backlog \in Seq(TX!Entry) /\ beacon \in TX!Entry \cup {TX!Silent}

Operation ==
  {Idle, Erasing} \cup {Marking(img) : img \in Img}
    \cup {Writing(i, img) : i \in 0..Cells - 1, img \in Img}

FlashType ==
  /\ stored \in Settings
  /\ header \in CellValue
  /\ cells \in [0..Cells - 1 -> CellValue]
  /\ op \in Operation
  /\ installed \in Img \cup {Mixed, Spoilt, None}

BoundsType == faults \in Nat /\ resets \in Nat

TypeOK == PhoneType /\ RamType /\ TxType /\ FlashType /\ BoundsType

\* Cell i was written from img.  The exception has a failure behind it: a write
\* that outlasted its time-out left bytes of other messages there.
Holds(i, img) ==
  i < Cells /\ (cells[i] = img \/ (cells[i] = Spoilt /\ faults > 0))

\* A buffer whose header announces an image holds every package of that image,
\* whatever was repeated or lost, cut short by a reset, or failed: no package of
\* another image and no gap.  Excepted are the bytes a write still took from the
\* receive buffer after its time-out. (ble.c:508-526, otap.c:71-86, 166-180)
ImageIntegrity ==
  header \in Img => \A i \in 0..Total[header] - 1 : Holds(i, header)

\* A package flagged as received is in the buffer: a failed write is asked
\* for again, and a session never inherits flags.  Excepted is a package of which
\* one write, the first or a repetition, outlasted the time-out and spoilt its place.
\* (ble.c:439, 470-476; otap.c:84-86)
FlagsHonest == \A i \in session.received : Holds(i, session.img)

\* A phone sends packages into no session but its own, after lost answers,
\* repeated requests and resets of the node. (ble.c:455-462, 463-465)
OwnSession ==
  \A p \in Phone :
    phone[p].phase = "sending" => session.img \in {None, phone[p].img}

\* Only a complete image of one upload is handed to the OTAP library, and a
\* spoilt one only after a failure: of a write that was late or of a read whose
\* result nobody looks at. (app.c:86-93, otap.c:214, 252)
NeverGarbage == installed # Mixed /\ (installed = Spoilt => faults > 0)

\* Once the last package is there, what the node insists on is the first package
\* that is missing: no request of an earlier gap or session stays held, and a
\* complete upload leaves nothing held in front of its answer.
\* (ble.c:509-521, 541, against 571-576)
InsistsOnMissing ==
  session.img # None /\ LastFlagged(session.received) =>
    \A e \in {beacon} \cup {backlog[k] : k \in 1..Len(backlog)} :
      e.held => \E i \in Missing(session.received) :
                  /\ e.cmd = Resend(i)
                  /\ \A j \in Missing(session.received) : i <= j

\* "in next reboot, process OTAP Image" (ble.c:544): the request in flash is taken
\* back only by the start-up, and only after the image was installed, unless an
\* operation failed; no press of the button and no other store undoes it.
\* Excepted is a start-up that could not read the settings: it goes on with the
\* defaults, and the next store writes them. (app.c:53-62, 84-100;
\* app_settings.c:59-77, 112)
CommitCarriedOut ==
  [][stored.valid /\ stored.doOtap /\ stored'.valid /\ ~stored'.doOtap
       => \/ /\ mode = "clear"
             /\ header \in Img /\ faults = 0 => installed = header
          \/ faults > 0 /\ ~settings.doOtap]_vars

\* The image the header announces, if it announces one.
Kept == IF header \in Img THEN header ELSE None

\* What becomes of it when the operation that goes on ends.
Pending ==
  CASE op.kind = "mark" -> op.img
    [] op.kind = "erase" -> Erased
    [] OTHER -> None

Promised == INSTANCE Update WITH
  offered <- session.img, kept <- Kept, pending <- Pending,
  failed <- faults > 0, Room <- Erased

\* Packages, flash operations, faults and resets together implement an update:
\* an image is kept only after it was announced, also when its mark comes late,
\* is not replaced before the buffer was given up, and is installed as it was
\* kept, or spoilt after a failure, never while an upload goes on.
\* (ble.c:427-551, otap.c:54-286, app.c:84-100)
ImplementsUpdate == Promised!Spec

\* A commit that has reached the flash is carried out, through any resets:
\* unless the buffer is erased for another upload or the settings record is
\* torn. ("in next reboot, process OTAP Image", ble.c:544)
CommitInstalls ==
  \A img \in Img :
    (stored.valid /\ stored.doOtap /\ header = img)
      ~> (installed = img \/ header # img \/ ~stored.valid)

\* Once a phone sends packages, its upload completes although packages are
\* missed, because the node keeps asking for them; unless the phone starts
\* over or the node is reset. (ble.c:508-522)
UploadCompletes ==
  \A p \in Phone :
    (phone[p].phase = "sending" /\ session.img = phone[p].img)
      ~> \/ settings.doOtap
         \/ phone[p].phase # "sending"
         \/ session.img # phone[p].img

\* "give feedback to the app, that we are ready to receive the data"
\* (ble.c:454): the answer to an accepted request gets on air, as long as the
\* phone waits for it.
BeginAnswered ==
  \A p \in Phone, k \in 1..MaxRequests :
    (/\ phone[p].phase = "waiting"
     /\ phone[p].id = k
     /\ \E i \in 1..Len(backlog), ok \in BOOLEAN :
          backlog[i].cmd = BeginRsp(k, ok))
      ~> \/ \E ok \in BOOLEAN : beacon.cmd = BeginRsp(k, ok)
         \/ phone[p].phase # "waiting"
         \/ phone[p].id # k
         \/ mode # "run"

\* "response code (0-> success)" (ble.h:182): an upload reported as successful
\* has been marked in the buffer with the magic number (otap.h:57).
DoneMeansMarked ==
  [][mode = "run" /\ mode' = "run" /\ ~settings.doOtap /\ settings'.doOtap
       => header' \in Img]_vars

=============================================================================
