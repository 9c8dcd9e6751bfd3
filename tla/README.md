# A verification project for wm-ble-com

The firmware of this repository runs on a Wirepas node (nRF52). A phone talks to
it through Bluetooth LE advertisements and uploads a firmware image; the node
keeps the image in a flash buffer, reboots, and hands it to the Wirepas OTAP
library. This directory models that firmware in TLA+, checks the models with TLC
and proves theorems about them with TLAPS.

Source paths below are relative to `src/src/`.

## 1. The system

| component | source | state | operations |
|---|---|---|---|
| transmit backlog | `mod/ble.c`, `mod/ble.h` | `ble_tx_items[1024]`, list of the waiting ones, `keep_sending`, `message_id`, statics of `bleSendTask` | `bleSendCmd`, `getNextMessageId`, `bleSendTask` |
| receive callback, upload session | `mod/ble.c` | `m_ble_rx_buffer`, last package, last id, `otap` (range of ids, flags), token | `bleReceiveCb`: scan, begin and upload requests |
| flash buffer | `otap.c` | header, package area, `m_buffer_block_write`, target scratchpad | `Otap_init`, `bufferBegin`, `bufferWrite`, `bufferEnd`, `process` |
| settings | `app_settings.c` | the record in RAM and in flash: `do_otap`, `is_sink` | `store`, `settingsGet`, `configureNode` |
| start-up, button | `app.c` | none of its own | `App_init`, `button_press_func` |
| state machine engine | `sm.c` | event slots, list, current state, exit action | `Sm_fireEvent`, `Sm_handleEvents` |
| main and BLE machines | `mod/fsm.c`, `mod/ble.c` | `initialized` flags, the scanner, reboot task | `initialize`, `reboot`, `scanningStart/Stop`, `isSink` |
| heartbeat, names for the log | `mod/fsm.c`, `app_app.c` | none | none |

How they interact. The radio library calls `bleReceiveCb`; it calls the flash
functions, `bleSendCmd`, `AppSettings_store` and `Sm_fireEvent` of either
machine. `bleSendCmd` and `Sm_fireEvent` put something in a list and ask the
application scheduler for a task; the scheduler runs `bleSendTask`,
`Sm_handleEvents` (once per machine) and `reboot_task`. RAM is lost at a reset,
which comes from `reboot_task`, from the button, from `App_init` after an
update, or from a loss of power; the flash buffer and the settings stay.

What is hard.

* Callback and tasks share lists, slots and `keep_sending`. Only the list
  operations are in critical sections, and slots are marked and freed outside of
  them.
* Advertisements get lost, repeated and reordered in both directions; the
  protocol recovers by one held request for a missing package.
* Flash operations fail, time out, or are cut short by a loss of power; the order
  of header and settings decides what a start-up does.
* An operation that times out goes on in the background, while its source, its
  session or the node's RAM is replaced; the results of reads are not looked at.
* An image seldom fills its last package: ids, flags, offsets and padding, computed
  in 16 bits, have to agree.
* Bounded queues drop silently, and counters are narrower than what they count.

What makes each part correct: a command accepted goes on air once and in order,
and a request that waits for its answer stays there; a byte of a package that
counts as received is in its place in flash; a marked buffer holds its whole
image, and only such a buffer is handed to the OTAP library; what is
committed is carried out over resets; an event is handled once, in order; a sink
ends up scanning; a completed upload leads to a reboot. The list of hazards, each
with its line and the properties that cover it, is in `PROJECT.json`.

## 2. The modules

| module | what it is |
|---|---|
| `Outbox` | abstract: a bounded first-in first-out backlog, one beacon, a hold on it |
| `BleTx` | detailed: `bleSendCmd` and `bleSendTask`, cut where the callback may intervene; implements `Outbox` |
| `Update` | abstract: an image is offered, kept as a whole, installed |
| `Upload` | phones, receive callback, session, flash, settings, start-up, resets; uses `Outbox` for the transmit side; implements `Update` |
| `OtapLayout` | the arithmetic of an upload: ids in 16 bits, offsets, flags, percentages, sectors |
| `Transfer` | the bytes of an upload, from the receive buffer through flash to the scratchpad; uses `OtapLayout` |
| `EventQueue` | abstract: a bounded queue of events, handled one at a time |
| `Sm` | detailed: the engine of `sm.c` for any event matrix; implements `EventQueue` |
| `Lifecycle` | abstract: a node starts, listens, commits, starts over |
| `Fsm` | both machines, two instances of `Sm` on one scheduler; implements `Lifecycle` |
| `SlotCount` | a lemma on owners of slots, for `BleTxProofs` and `SmProofs` |
| `BleTxProofs`, `UploadProofs`, `UpdateProofs`, `OtapLayoutProofs`, `TransferProofs`, `SmProofs`, `FsmProofs` | theorems and their proofs |
| `MCBleTx`, `MCUpload`, `MCTransfer`, `MCSm`, `MCFsm` | instances for TLC |

`Upload` stands on `Outbox` and not on `BleTx`: the run `tx` shows that the
detailed backlog implements the abstract one, and the composition stays small
enough for crashes and faults. It checks the operators of `Outbox` in their real
use: `AfterSend` for `bleSendCmd`, `Release` for an assignment to `keep_sending`,
`Advance` and `SwitchOff` for a run of the task.

### BleTx

One variable per variable of the code: `items` (`ble_tx_items`), `list` (the
linked list, as the slots in it), `keepSending`, `messageId`, the statics
`sendingElement` and `beaconSending`, the local `element`, the program counter of
the task, the scheduler's request and what is on air. The callback runs to
completion between two steps of the task; the steps are the statements at which
it could tell the difference: freeing the slot, forgetting the pointer, reading
the size, popping, transmitting or putting back, stopping. A task that finds
itself locked returns at once with a delay, which changes nothing and is no
action. Payload and length of a command are left out; an id stands for the
command. Two error branches are left out because they are unreachable: that of
`generateBleTxHeader`, which cannot fail for the buffer it is given (line 218), and
that of `App_Scheduler_addTask` in `bleSendCmd` (lines 266-271), since the scheduler
has room for six tasks (`APP_SCHEDULER_TASKS`) and the firmware has five.

What is external: the scheduler keeps a request that is made while the task runs,
even if the task then returns `APP_SCHEDULER_STOP_TASK`; a critical section is
not interrupted; `enableBeacons` may fail each time.

### Upload

A phone is one of `Phone`, an image one of `Img`, cut into `Total[img]` packages.
A phone shows one advertisement at a time (`air`), and the node may hear it any
number of times or not at all; the phone may miss an answer, because it only
looks at the beacon when it likes. So loss, repetition and reordering need no
actions of their own. Phones are external: they send packages of the image they
announced, after the answer to their own request, in any order and as often as
they like, and never use the number of a begin request twice.

The node: `settings`, `session` (the image announced and the flags), `lastPkg` and
`lastId` (the two duplicate filters), `reboot`, the outbox, and in flash `stored`,
`header`, `cells`, `op`, `installed`. A cell is the part of the buffer area one package
goes to. Its value is the image it was written from; `erased`; `mixed` when two
things were programmed over each other or a write was cut short; or `spoilt` when
it was written from the image and from other messages. Each branch of
`bleReceiveCb` is one action, with its store, events and sends:
`ReceiveDuplicate`, `ReceiveOutOfSession`, `ReceiveScan`, `ReceiveBegin`,
`ReceiveData`, `ReceiveDataAskResend`, `ReceiveDataCommit`. `Boot`, `Otap_process`
and `ClearOtap` are `App_init`. A reset clears everything that is in RAM. Loss of power
comes between two actions or in the middle of one (`PowerLossInErase`, `InWrite`,
`InCommit`, `InStore`).

What can go wrong in flash; `MaxFaults` bounds how often.

* An operation of the buffer is refused, or it outlasts the time-out: the code
  takes it for failed (`otap.c:54-86`), and it goes on as `op`, an erase, the write of
  a package or that of the header. Until `LateEnd`, the library refuses every other
  operation.
* A package that is late is still read from `m_ble_rx_buffer`, over which the next
  advertisements are copied (`ble.c:364`). Its cell ends up right or spoilt (`Late`).
  When the phone repeats the package it is programmed once more, without an erase,
  which leaves a spoilt cell spoilt, and it is flagged. A header that is late is the
  right one, because its source stays as it is.
* A reset stops `op` before it began, in the middle or at its end (`Interrupted`).
* The results of reading are not looked at. A block that is not read is handed on as
  the block before it, so what is installed is spoilt (`Given`; `otap.c:252`). A
  header that is not read is no header. Settings that are not read are replaced by
  the defaults (`AppSettings_settingsGet`; `app_settings.c:112`).
* A store of the settings fails, and nobody looks at that either.

`Spoilt` comes from nothing else: `Blamed` in `UploadProofs` says that a failure is
behind it. The properties say of the rest that it holds whatever fails.

A header cut short is taken for no header: the words not yet written read as all
ones, which fails the checks of magic number and length in `Otap_process`
(lines 216-226); when only the sequence number is missing it counts as complete.
A settings record cut short is invalid and replaced by the defaults. The check of
the length is assumed to hold for real images.

`Update` says what all of this is for, without packages, messages and flash. The
mapping: `offered` is the image of the session, `kept` the image the header
announces if the header is whole, `pending` what becomes of it when an erase or a
header that is late is done, `failed` whether something failed, `installed` what was
handed to the library. So `Update` says what may be late, and that nothing else is
kept or given up before; that a late header keeps the image its session offered,
although another one may be offered by then; and that a spoilt image is installed
only where something failed.

### OtapLayout and Transfer

`Upload` and `Transfer` model the same callback from two sides. `Upload` has the
conversation, and a package is one cell. `Transfer` has one phone, which knows when
it may send, and a package is its bytes; a byte stands for the image and the
position it comes from. Padding and the bytes of other messages are `Junk`.

* Radio: each advertisement that passes the prefilter overwrites the front of
  `m_ble_rx_buffer` before any check (`Copied`); those of other nodes
  (`ReceiveForeign`) also move `last_received_message_id`. The last package comes
  short or padded (`Sizes`). The comparison of the whole package with the one
  before is in `Upload`; here the ids do it.
* Flash: an operation is done in time, refused, or goes on after the time-out
  (`op`, as in `Upload`). A write goes on byte by byte (`FlashStep`), from the receive buffer as it
  is by then; `Otap_bufferWrite(from, n)` stands for a write of which `n` bytes were
  done in time. While an operation goes on the library refuses every other one,
  which is external; so is the refusal of what lies outside of the area (`InArea`).
  The code itself compares the length of a package with the area and no offset.
* Start-up: `Otap_process` is cut into `ProcessHeader`, one `ProcessBlock` per block
  and `ProcessEnd`, each of which may fail. A read that fails leaves in
  `m_buffer_block_write` what was there. `Reset` may come anywhere, and stops an
  operation in the middle.
* History: `late` has the positions a write touched after its time-out, `lost` the
  blocks whose read did not happen. The properties name them as exceptions,
  because the code does nothing about either.

`Upload` and `Transfer` agree on operations that are late: a spoilt cell of the one is
a package with positions in `late` of the other. `Transfer` says which bytes those
are, `Upload` what becomes of them in the conversation, over a commit and in what is
installed.

### Sm and Fsm

`Sm` has the slots and the list in one variable `box`, the current state, the
pending exit action, the slot being handled and the place of the task. The
callback may fire an event before and after each step. `Matches` and `Row` are
the search through the matrix, the first row that fits counts, and `holds` is the
set of the guards that are true. `Fsm` gives the two matrices and the effects of
the entry and exit functions. Events fired by `initialize` of `fsm.c` go to the
other machine within the same action. A second press on the button or a reboot
starts over; the update branch of `App_init` is in `Upload`. The reboot is
`rebootTask`: "delayed" for five seconds, started over by each further
`fsm_E_REBOOT`, then "due" until no other task runs. The two modules meet
in `Commit`: in `Upload` it sets `reboot`, and `Fsm` shows that the event it fires
leads to a reboot.

`Lifecycle` is what both machines promise together, without events, queues and
tasks: a sink comes to listen, listens until an upload is complete, and goes on
to the reboot; nothing but that reboot and the button starts it over. The
mapping: the phase is `committed` if `doOtap` is set, `listening` if the scanner
hands on messages (`Heard`), `starting` otherwise.

## 3. What is model-checked

| run | instance | shows |
|---|---|---|
| `tx` | 3 slots, `list_size` with 4 values, 5 ids | `SlotsAccounted`, `NoLostWakeup`, `QosHeld`, `Delivered`, and `Implements`: `BleTx` implements `Outbox` with its fairness |
| `upload` | 1 phone, images of 2 and 3 packages, 2 requests, 1 operation that fails or is late, 2 unexpected resets | `ImageIntegrity`, `FlagsHonest`, `OwnSession`, `NeverGarbage`, `InsistsOnMissing`, `CommitCarriedOut`, and `ImplementsUpdate`: `Upload` implements `Update` |
| `transfer` | images of 5, 4 and 7 bytes in packages of 2, 3 and 3, an area of 8 | `BytesInPlace`, `MarkedWhole`, `MarkedFits`, `ScratchIsBuffer` |
| `upload_live` | 1 phone that keeps to the protocol, 3 requests, 2 resets, no fault | `UploadCompletes`, `CommitInstalls` |
| `sm` | 3 slots, a matrix with every kind of row | `EventsAccounted`, `AwakeForEvents`, and `ImplementsQueue`: `Sm` implements `EventQueue` |
| `fsm` | queues of 3, 5 completed uploads before a reset, 2 presses of the button | `ScansWhenReady`, `RebootUnderWay`, `RebootHappens`, `SinkScans`, and `ImplementsLife`: `Fsm` implements `Lifecycle` |

and six runs that show a disagreement between the code and what it says of
itself (section 5).

Bounds, and why they are enough.

* `tx`: with three slots one can be on air, one popped and one waiting, and the
  list gets full. Ids wrap after five. `IdHorizon` is the one restriction on ids:
  an id is not given out while the command that carried it is still there, which
  in the code would take 65535 commands over a list of 1024.
* `upload`: with three packages there is a first one, a last one and one between,
  and the id of the third is a multiple of ten, so the status in the middle of an
  upload occurs. Images of different length share cells. Two entries of the outbox
  let it overflow. One fault is enough to be late, since one operation goes on at a
  time; the run passes with two faults and one reset as well. Two requests give a session that replaces another one.
  Package ids start at 32768 as in the code.
* `upload_live` has no faults, because with one an upload may stop for ever
  (`upload_lost`), and the properties give up when the phone starts over.
* `transfer`: the header takes 1 of the 8 bytes of the area, so 7 are left in
  sectors of 2, of which the code erases three. A (5 bytes, packages of 2) fits
  with a last package that is half full. B (4 bytes, packages of 3) has most of
  its last package padding. C (7 bytes, packages of 3) fits, but its padded last
  package does not. Blocks of 4 bytes give image A two blocks, the second of
  which reaches beyond the area. Foreign ids are one that is no package's and the
  one of package 1. Messages that are no packages have one byte (`OtherSize`),
  shorter than any package. `MaxTimeouts` is 1; since one operation goes on at a
  time, a second one would only add to `late`. The theorems of section 4 have
  none of these bounds.
* `sm`: one slot handled, one waiting, one free, and the full queue.
* `fsm`: five completions fill a queue of three and more; the engine of the code
  has ten slots, and nothing depends on the number.

Fairness. `BleTx`: a task that runs goes on and the scheduler runs what is
scheduled (weak); a radio asked again and again does not refuse for ever (strong,
on `TaskTransmit` and `TaskStop`). `Upload`, in `PoliteSpec` only: the scheduler
runs tasks, the app goes on with an upload it has begun, a flash operation ends, and
an advertisement that is repeated is heard at some time (weak, per phone). `Sm`: the scheduler
runs what is scheduled. `Fsm`: strong, because each task waits until no other one
is running; the scheduler serves them in turn. The five seconds of `reboot_task` pass (weak, on `DelayOver`),
unless the phone repeats the last package and starts them over; `MaxCommits`
stands for a phone that stops repeating it at some time. `Transfer` has no
fairness and no liveness. Nothing is assumed of the button,
of resets or of faults.

`CHECK_DEADLOCK FALSE` is said where the system really rests, or the bounds make
it rest: `fsm` on a node that is no sink; `tx` and `tx_lost` while a request is held
on air whose id is the next to be given out (`IdHorizon`); `upload_begin` and
`upload_sectors` once the phone has used up its requests.

## 4. What is proved

All proofs are for every value of the constants and every length of behaviour.

`BleTxProofs`, for any number of slots, ids, and values of `list_size`:

* `TypeCorrect`: `Spec => []TypeOK`.
* `NoSlotLost`: `Spec => []SlotsAccounted`.
* `SleepsOnlyAtWrap`: the task sleeps on a backlog only if its length is a multiple
  of the number of values of `list_size`.
* `NoWakeupLost`: on a backlog shorter than that number it never does, however many
  slots there are. Of the firmware, with 1024 slots and 256 values, it says that
  fewer than 256 commands are never slept on; `tx_lost` shows what happens then.
* `RequestHeld`: `Spec => []QosHeld`, a request that waits for its answer stays on
  air.
* `TxIsOutbox`: `BleTx` implements the safety part of `Outbox`.

The inductive invariant adds to `SlotsAccounted` where the task is and what it
holds there (`TaskInv`), and that a task that found nothing still has a reason to
stop or has been asked for again (`SleepInv`): without the latter, a command sent
between the look at the list and the return would not be accounted for. `QosHeld`
needs `HoldInv` besides: the lock compares ids, so what is on air and held must be
the item `sending_element` points to. The refinement needs that a command is
dropped by a full outbox only. The code drops it when no slot is free, and by
`SlotsAccounted` the slots that are not free have different owners; `AllTaken` of
`SlotCount` turns that into a number.

`UploadProofs`, for any images, cells, length of the outbox, faults and resets:

* `UploadTypeCorrect`: `Spec => []TypeOK`, with no hypothesis.
* `MarkedMeansWhole` (`ImageIntegrity`), `FlaggedMeansWritten` (`FlagsHonest`),
  `SessionsNotMixed` (`OwnSession`), `OnlyWholeImagesInstalled` (`NeverGarbage`),
  under `OnePhone` and `ImagesFit`. The exceptions are in the properties: a package
  whose write was late may be spoilt, and so may an image installed after a late
  write or a failed read; nothing is ever mixed. Both hypotheses are needed: the runs
  `upload_phones` and `upload_sectors` drop one each and find a marked buffer with a
  mixed image.

`ImageIntegrity` is far from inductive. That nothing but packages of the announced
image reaches an erased buffer depends on the whole conversation, so the
invariant says: what is on air belongs to what the phone is doing (`AirInv`); a
positive answer still in the outbox or on air, to the request the phone waits
for, stands for a buffer just erased for it (`AnswerInv`); and while the phone
sends, the cells of its image hold that image, spoilt or not, or nothing, or the
node has forgotten the session (`SendingInv`). Operations that go on add that they
find the buffer as their session left it (`OpInv`): an erase that goes on belongs to a
session without flags, because the phone was told that it failed; a late package or
header is of the image the phone still sends, or of one whose session was replaced by
one that could not erase. Resets keep it all because they drop session, outbox and
beacon together and stop the operation.

* `RequestsAreCurrent` (`InsistsOnMissing`), for any number of phones and images of
  any size: what the node insists on is the first package the session still
  misses. The code never looks for held requests of an earlier gap; they are gone
  because `keep_sending` is released before each new request, a begin request
  empties the flags, and a reset empties the outbox.
* `RequestSurvives` (`CommitCarriedOut`), under `OnePhone` and `ImagesFit`: the request to
  process the image, once in flash, is taken back only by the start-up after it
  has installed a marked image, if no flash operation failed. Every store writes
  the whole record, so the invariant says that what is requested in flash is
  requested in RAM while the node runs (`CommitInv`), except after a start-up that
  could not read the settings; the property has the same exception.
* `MarkedUnlessFault` (`DoneMeansMarked`), for any number of phones: without a failing
  flash operation an upload that is reported as successful is marked. The run
  `upload_mark` shows it violated with a single fault, so the theorem has exactly the
  hypothesis that is missing in the code. The header is erased or already names
  the image of the session (`MarkInv`).

`UpdateProofs`, under the same hypotheses: `UploadImplementsUpdate`, which is
`ImplementsUpdate` of the run `upload`, late erases and headers and failed reads
included. To the invariant of `UploadProofs` it adds that there is no session and no
operation that goes on during start-up (`NothingAtBoot`), because an image is
installed only while none is offered and none pending.

`OtapLayoutProofs`, for any area and any image:

* `RangeIsImage`: up to 32768 packages, the ids from `start_message_id` to
  `end_message_id` are those of the image, although both are 16 bits wide.
* `ByteInOnePackage`, `FlagsApart` (with 4096 packages as the limit for
  `messageReceived`), `HundredMeansComplete`: 100% is reported exactly when no package
  is missing.
* `AreaBoundsPackages`: an image of up to 65536 bytes has no more packages than ids,
  and with packages of at least 8 bytes in at most 32 KiB the flags stay within
  `messageReceived`. The code checks neither size; the area and the packages of the
  apps meet both.
* `TailNotErased`: exactly the header's length and the part of the area beyond whole
  sectors are not erased, at its end. This is where the images of `upload_sectors`
  go wrong, for every size of area, sector and header.

`TransferProofs`, for any images, packages and area: `TransferTypeCorrect`,
`FlaggedBytesInPlace` (`BytesInPlace`), `MarkedBytesWhole` (`MarkedWhole`),
`MarkedImageFits` (`MarkedFits`), `ScratchpadIsBuffer` (`ScratchIsBuffer`), all under
`RangesFit`: no image has more than 65536 packages. From 32769 packages on the range of
ids wraps and is empty, so that nothing is taken and nothing marked; beyond 65536 a
part of the image would be taken for all of it. The invariant says that while the phone sends and the node listens, the
erased part of the area has nothing in it but bytes of the image in their places
and what a late write left (`AreaInv`); that a header, also one still being
written, belongs to a whole image (`HeaderInv`, `OpInv`); that an erase which goes
on after its time-out is never part of a session the phone sends in (`OpInv`), as
the phone was told that it failed; and that the scratchpad is the buffer up to
the position of the block loop (`BlocksInv`).

* `FlagsStayInArray`: no byte behind `messageReceived` is written, if the area has at
  most 32 KiB and packages at least 8 bytes. It rests on the memory library, which
  refuses what lies outside of the area, and on a flag being set only after a write
  that was done in time.
* `ImageArrives`, from the radio to the scratchpad: if no operation outlives its
  time-out, the area has at most 64 KiB and the image lies in the erased sectors
  and in whole blocks (`ImagesErased`, `BlocksFit`), then what the OTAP library is told
  to process is the announced image, byte by byte, unless a read failed. Each
  hypothesis stands for something the code does not look at: results that come
  late, sectors rounded down, a last block beyond the area.

`SmProofs`, for any matrix and number of slots:

* `EngineTypeCorrect`, `NoEventLost` (`EventsAccounted`), `NeverSleepsOnEvents`
  (`AwakeForEvents`). Their invariant adds that the handler holds a slot exactly
  between pop and release, and that a task about to stop with events waiting has
  been asked for again.
* `EngineIsQueue`: `Sm` implements the safety part of `EventQueue`, by the same count
  of owners as in `TxIsOutbox`.

`FsmProofs`, for queues of any length: `FsmTypeCorrect`, `ScannerReady`
(`ScansWhenReady`), `RebootNotLost` (`RebootUnderWay`). `ScansWhenReady` follows from the
order of the start (`StartOrder`): no event waits for the BLE module before
`initialize` of `fsm.c` has run. For `RebootUnderWay` the question is what a full
queue holds when it drops a reboot. Two events are ever fired at `fsm.c`, and the
only `sm_E_INIT` has left its slot before the first message is heard (`InitGone`), so
a full queue is full of reboots. The invariant of `SmProofs` is used as it is,
through an instance of that module.

`FsmIsLife` (`ImplementsLife`): `Fsm` implements `Lifecycle`. Besides the invariant above it
needs `LifeInv`: a reboot that is fired, delayed or due belongs to a complete upload,
and an exit action, which is what stops the scanner, is pending only in the state
of the BLE machine that no row leaves. So a listening sink is stopped by nothing
but a reset.

The assumptions on the constants are stated in the modules that declare them
(`BleTxAssumption`, `UploadAssumption`, `LayoutAssumption`, `TransferAssumption`,
`SmAssumption`, `FsmAssumption`); TLC evaluates them in every run of those modules.

Only model-checked: what needs fairness (`Delivered`, `UploadCompletes`,
`CommitInstalls`, `RebootHappens`, `SinkScans`, and the fairness that `Outbox` and
`EventQueue` have besides their steps). Liveness and `ENABLED` are out of reach of
the provers.

## 5. Where the code and its comments disagree

| run | what happens |
|---|---|
| `tx_lost` | `list_size` is a `uint8_t` (`mod/ble.c:585`): a backlog of 256 looks empty and the task stops |
| `upload_begin` | a begin request leaves `keep_sending` alone (`mod/ble.c:427`): its answer waits for ever behind a held resend request |
| `upload_lost` | the filter (`mod/ble.c:391`) drops the repetition of a package whose first copy could not be written |
| `upload_mark` | the result of `Otap_bufferEnd` is ignored (`mod/ble.c:530`): success is reported for a buffer that is not marked |
| `upload_sectors` | `Otap_bufferBegin` rounds the number of sectors down (`otap.c:140`): the last one is never erased |
| `upload_phones` | no message is filtered by the token (`mod/ble.h:335`): packages of two phones mix |

Two requests suffice for the mixture of `upload_sectors`: the second image of the
same length is programmed over the first one's last package. The instance has
two images of three packages and erases two of three cells; in the code the last
of eight sectors, which holds the end of images longer than 28660 bytes.

One more depends on a library that is not in the repository. `Otap_process` reads
whole blocks (`otap.c:251-258`). With images of more than 32256 bytes (blocks of 512,
an area of 32764, a header of 12) the last one reaches past the area. If the
memory library refuses that, the block before is handed to the OTAP library in
its place, with no notice taken. `ScratchIsBuffer` excepts such a block by name.

Smaller ones, seen while reading and not worth a run: message ids are said to go
from 1 to 16383 (`mod/ble.c:144`) and go to 65535; `mod/ble.h:37` speaks of 49152
bytes while the area has 32764 and the length is never checked, although a comment
says so (`mod/ble.c:441`); the heartbeat is said to come every 60 seconds
(`mod/fsm.c:181`) and comes every 5; `mod/ble.c:655` says 100 ms and returns 250.

## 6. Not modelled

* Formats: the prefilter on company id and UUID, packing, the MAC address, texts.
  Of a message only the fields that are computed with are modelled, with their
  width.
* Requests that make no sense: a package length of 0, a package with id 0 before
  any begin request. The phones of the models send neither; the hazards list has
  both.
* Time: delays are left out, an action may come at any time its guard allows. The
  delay of the reboot is a state, and has no length.
* Values of the time-outs, alignment of flash accesses, a failing `getAreaInfo`.
* Library internals (scheduler, `sl_list`, memory area, OTAP, radio, persistent
  storage), except for what is listed as external in `PROJECT.json`. The results rest
  on three assumptions about the memory area: it refuses an operation while another
  one goes on, it refuses what lies outside of the area, and a reset stops it.
* `heartbeat_task` (no state), the names for the log, assertions (compiled to
  nothing), `Sm_destroy*` (never called), LED, configuration of the Wirepas stack,
  the build.

## 7. Plan

Done, in this order:

1. `Outbox`, `BleTx`: the part with the finest interleavings, and its theorems.
2. `Upload`: what the firmware is for, and its theorems.
3. `EventQueue`, `Sm`: the engine, and its theorems.
4. `Fsm`: both machines on it.
5. `OtapLayout`: the arithmetic, with theorems in place of bounded checks.
6. `Transfer`: the bytes, late operations and reads that fail, and its theorems.
7. `Update`: the abstract upload, and the proof that `Upload` implements it.
8. The two other refinements, `QosHeld` and the invariants of `Fsm` proved.
9. What becomes of a commit and of held requests, the image from the radio to the
   scratchpad, `Lifecycle` and its refinement: properties and theorems.
10. Late operations and failed reads in `Upload` and `Update` too, and the proofs over
   again.

Left:

11. A composition of `Fsm` and `Upload` with the timer of the reboot: uploads that
   begin in the five seconds after another one are in `Upload`, where the reboot may
   come at any time, and the timer is in `Fsm`; together they would show how long a
   phone can put the reboot off.
