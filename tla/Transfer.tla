------------------------------ MODULE Transfer ------------------------------
(***************************************************************************)
(* The bytes of an image on their way from the radio to the scratchpad:    *)
(* m_ble_rx_buffer and the session of src/src/mod/ble.c, the area in flash *)
(* and m_buffer_block_write of src/src/otap.c.                             *)
(*                                                                         *)
(* Module Upload has the conversation with the phones; here there is one   *)
(* phone, which knows when it may send, and each package is its bytes.  A  *)
(* byte stands for its origin: <<img, k>> is the byte at position k of     *)
(* image img.  What a flash operation does after its time-out, and what a  *)
(* read leaves behind that did not happen, shows in the bytes.             *)
(***************************************************************************)
EXTENDS OtapLayout

CONSTANTS
  Img,       \* the images
  Length,    \* Length[img]: bytes in an image, scratchpad_length
  Package,   \* Package[img]: bytes in each of its packages, package_length
  ForeignId, \* ids in the advertisements of other nodes
  OtherSize, \* bytes of payload in messages that are no packages
  MaxTimeouts \* bound: flash operations that go on after their time-out

None == "none"
Byte(img, k) == <<img, k>>
Zero == <<"zero">>      \* RAM after a reset
Junk == <<"junk">>      \* padding, other messages
Erased == <<"erased">>
Spoilt == <<"spoilt">>  \* programmed twice with different bytes

ASSUME TransferAssumption ==
  /\ None \notin Img /\ Erased \notin Img /\ Spoilt \notin Img
  /\ Length \in [Img -> Nat \ {0}]
  /\ Package \in [Img -> Nat \ {0}]
  /\ ForeignId \subseteq Nat
  /\ OtherSize \subseteq Nat
  /\ MaxTimeouts \in Nat

VARIABLES
  offer,    \* the image the phone sends
  (* RAM *)
  rx,       \* m_ble_rx_buffer behind the header of the message
  lastId,   \* last_received_message_id
  session,  \* context->otap without the flags
  flags,    \* the bits set in messageReceived[]
  mode,     \* "run", or the place in Otap_process(): "header", "blocks"; "set"
            \* when it is done, "end" when it has given up
  block,    \* m_buffer_block_write, as Otap_process() uses it
  next,     \* i in Otap_process()
  (* flash *)
  header,   \* the image announced by length and sequence number
  area,     \* the bytes behind the header
  doOtap,   \* do_otap in the settings record
  op,       \* the operation that goes on after its time-out
  scratch,  \* what lib_otap was given
  (* history *)
  late,     \* positions a write touched after its time-out, until erased
  lost,     \* blocks whose read did not happen
  (* bounds *)
  timeouts

radio == <<offer, rx, lastId>>
upload == <<session, flags>>
flash == <<header, area, op, late>>
process == <<block, next, scratch, lost>>
vars == <<radio, upload, flash, mode, doOtap, process, timeouts>>

\* The bytes of the receive buffer, and of the images.
RxPositions == UNION {0..Package[img] - 1 : img \in Img}
ImgPositions == UNION {0..Length[img] - 1 : img \in Img}

NoSession == [seq |-> None, len |-> 0, pkg |-> 0, start |-> 0, end |-> 0,
              total |-> 0]
Idle == [kind |-> "idle"]
Writing(from, done, amount) ==
  [kind |-> "write", from |-> from, done |-> done, amount |-> amount]
Marking(img) == [kind |-> "mark", img |-> img]
Erasing == [kind |-> "erase"]

ZeroRx == [k \in RxPositions |-> Zero]
ZeroBlock == [k \in 0..Block - 1 |-> Zero]
Blank == [k \in ImgPositions |-> Erased]

Init ==
  /\ offer = None
  /\ rx = ZeroRx
  /\ lastId = 0
  /\ session = NoSession
  /\ flags = {}
  /\ mode = "run"
  /\ block = ZeroBlock
  /\ next = 0
  /\ header = Erased
  /\ area = [k \in Positions |-> Erased]
  /\ doOtap = FALSE
  /\ op = Idle
  /\ scratch = Blank
  /\ late = {}
  /\ lost = {}
  /\ timeouts = 0

-----------------------------------------------------------------------------
(* Flash.  An operation is done in time; or refused, by the library or     *)
(* because another one still goes on; or goes on after the time-out.       *)

\* Writing clears bits.
Program(old, new) ==
  CASE old = Erased -> new
    [] old = new -> new
    [] OTHER -> Spoilt

\* The first n bytes of the receive buffer b are written to position from.
Programmed(from, n, b) ==
  [k \in Positions |->
     IF k \in from..from + n - 1 THEN Program(area[k], b[k - from])
                                 ELSE area[k]]

\* The first bytes of the area, a number of sectors; the header is in front.
Erase(size) ==
  LET In(k) == HeaderSize + k < size
  IN  /\ header' = IF size > 0 THEN Erased ELSE header
      /\ area' = [k \in Positions |-> IF In(k) THEN Erased ELSE area[k]]
      /\ late' = {k \in late : ~In(k)}

\* Mutant: a second erase is believed while the first still goes on.
BufferBeginWhenBusy(ok) ==
  \/ ok /\ Erase(ErasedSize) /\ op' = op
  \/ ~ok /\ UNCHANGED flash
  \/ ~ok /\ op = Idle /\ op' = Erasing /\ UNCHANGED <<header, area, late>>

Otap_bufferBegin(ok) ==
  \/ ok /\ op = Idle /\ Erase(ErasedSize) /\ op' = op
  \/ ~ok /\ UNCHANGED flash
  \/ ~ok /\ op = Idle /\ op' = Erasing /\ UNCHANGED <<header, area, late>>

\* Mutant: the check of the code alone, which compares a length and no offset.
BufferWriteAnywhere(from, n) ==
  /\ op = Idle
  /\ session.pkg <= UsableSize
  /\ area' = Programmed(from, n, rx')
  /\ late' = IF n = session.pkg THEN late
                               ELSE late \cup from..from + session.pkg - 1

\* Otap_bufferWrite(): n bytes of the package are written when the wait ends;
\* the others will be read from the receive buffer later.
Otap_bufferWrite(from, n) ==
  /\ op = Idle
  /\ InArea(from, session.pkg)
  /\ area' = Programmed(from, n, rx')
  /\ late' = IF n = session.pkg THEN late
                               ELSE late \cup from..from + session.pkg - 1

\* Operations that time out are counted.
Counted ==
  /\ timeouts' = IF op = Idle /\ op' # Idle THEN timeouts + 1 ELSE timeouts
  /\ timeouts' <= MaxTimeouts

WriteRefused == UNCHANGED <<area, late>>

\* Otap_bufferEnd(), while the operation busy goes on: refused then.  Its
\* source, unlike that of a package, stays as it is.
Otap_bufferEnd(busy) ==
  \/ busy = Idle /\ header' = Program(header, session.seq) /\ op' = Idle
  \/ header' = header /\ op' = busy
  \/ busy = Idle /\ header' = header /\ op' = Marking(session.seq)

-----------------------------------------------------------------------------
(* bleReceiveCb().  The bytes of an advertisement are copied before any of *)
(* them is looked at; they replace the front of the receive buffer.        *)

Copied(msg) == [k \in RxPositions |-> IF k \in DOMAIN msg THEN msg[k] ELSE rx[k]]

JunkOf(n) == [k \in 0..n - 1 |-> Junk]

\* Package i of an image, n bytes of it: the last one is padded or short.
PackageBytes(img, i, n) ==
  [k \in 0..n - 1 |->
     LET at == Offset(i, Package[img]) + k
     IN  IF at < Length[img] THEN Byte(img, at) ELSE Junk]

Sizes(img, i) ==
  LET p == Package[img]
      rest == Length[img] - Offset(i, p)
  IN  IF rest < p THEN {rest, p} ELSE {p}

\* A message of another node, of a scanning phone, or too short to be one:
\* its id may become the last one.
ReceiveForeign ==
  /\ mode = "run"
  /\ \E n \in OtherSize : rx' = Copied(JunkOf(n))
  /\ lastId' \in ForeignId \cup {lastId}
  /\ UNCHANGED <<offer, upload, flash, mode, doOtap, process, timeouts>>

NewSession(img) ==
  [seq |-> img, len |-> Length[img], pkg |-> Package[img], start |-> FirstId,
   end |-> EndMessageId(Length[img], Package[img]),
   total |-> TotalMessages(Length[img], Package[img])]

\* The phone sends once it has seen that it may; it may miss the answer.  The id
\* of the request, 0 here, is new and no package's.
ReceiveBegin(img) ==
  /\ mode = "run"
  /\ \E n \in OtherSize : rx' = Copied(JunkOf(n))
  /\ lastId' = 0
  /\ session' = NewSession(img)
  /\ flags' = {}
  /\ \E ok \in BOOLEAN :
       Otap_bufferBegin(ok) /\ offer' \in {None} \cup {i \in {img} : ok}
  /\ Counted
  /\ UNCHANGED <<mode, doOtap, process>>

InRange(id) == session.start <= id /\ id <= session.end

\* The phone sends package i, and the node has it for a new message or not.
Hears(i) ==
  /\ mode = "run"
  /\ offer # None
  /\ i < TotalMessages(Length[offer], Package[offer])
  /\ \E n \in Sizes(offer, i) : rx' = Copied(PackageBytes(offer, i, n))

ReceiveIgnored(i) ==
  /\ Hears(i)
  /\ FirstId + i = lastId \/ ~InRange(FirstId + i)
  /\ lastId' = FirstId + i
  /\ UNCHANGED <<offer, upload, flash, mode, doOtap, process, timeouts>>

\* Mutant: the flag is taken from the id instead of the index.
FlaggedById(i, ok) == IF ok THEN flags \cup {Flag(FirstId + i)} ELSE flags

Flagged(i, ok) == IF ok THEN flags \cup {Flag(i)} ELSE flags

AllThere(got) == \A i \in 0..session.total - 1 : Flag(i) \in got

\* Nothing is missing: the buffer is marked and do_otap stored, whatever becomes
\* of either, and the node will reboot.
Conclude(got, busy) ==
  IF Flag(session.total - 1) \in got /\ AllThere(got)
    THEN Otap_bufferEnd(busy) /\ doOtap' \in {doOtap, TRUE}
    ELSE op' = busy /\ UNCHANGED <<header, doOtap>>

\* The write, then what follows from it.
ReceivePackage(i) ==
  LET from == Offset(i, session.pkg)
      Busy(n) == IF n = session.pkg THEN Idle ELSE Writing(from, n, session.pkg)
  IN  /\ Hears(i)
      /\ FirstId + i # lastId
      /\ InRange(FirstId + i)
      /\ lastId' = FirstId + i
      /\ \/ \E n \in 0..session.pkg :
              /\ Otap_bufferWrite(from, n)
              /\ flags' = Flagged(i, n = session.pkg)
              /\ Conclude(flags', Busy(n))
         \/ /\ WriteRefused
            /\ flags' = Flagged(i, FALSE)
            /\ Conclude(flags', op)
      /\ Counted
      /\ UNCHANGED <<offer, session, mode, process>>

\* The operation that goes on takes a step: the next byte of the package, from
\* the receive buffer as it is by now; or all that is left of another one.
FlashStep ==
  /\ \/ /\ op.kind = "write"
        /\ area' = [area EXCEPT ![op.from + op.done] = Program(@, rx[op.done])]
        /\ op' = IF op.done + 1 < op.amount THEN [op EXCEPT !.done = @ + 1]
                                            ELSE Idle
        /\ UNCHANGED <<header, late>>
     \/ /\ op.kind = "mark"
        /\ header' = Program(header, op.img)
        /\ op' = Idle
        /\ UNCHANGED <<area, late>>
     \/ /\ op.kind = "erase"
        /\ Erase(ErasedSize)
        /\ op' = Idle
  /\ UNCHANGED <<radio, upload, mode, doOtap, process, timeouts>>

-----------------------------------------------------------------------------
(* Start-up.                                                               *)

\* RAM is cleared, and App_init() looks at the settings.
Restarted ==
  /\ mode' = IF doOtap' THEN "header" ELSE "run"
  /\ rx' = ZeroRx
  /\ lastId' = 0
  /\ session' = NoSession
  /\ flags' = {}
  /\ block' = ZeroBlock
  /\ next' = 0
  /\ lost' = {}
  /\ scratch' = Blank
  /\ op' = Idle
  /\ UNCHANGED <<offer, timeouts>>

\* What was going on in flash stops in the middle.
Reset ==
  /\ UNCHANGED doOtap
  /\ Restarted
  /\ \/ op.kind \in {"idle", "write"} /\ UNCHANGED <<header, area, late>>
     \/ op.kind = "mark" /\ header' \in {header, Spoilt} /\ UNCHANGED <<area, late>>
     \/ op.kind = "erase" /\ \E s \in 0..ErasedSize \div SectorSize :
                               Erase(s * SectorSize)

\* Otap_process(): the checks of the header, and lib_otap->begin().  When the
\* header cannot be read the magic number is not found.
ProcessHeader ==
  /\ mode = "header"
  /\ \/ /\ header \in Img
        /\ mode' = "blocks"
        /\ block' = [k \in 0..Block - 1 |-> Junk]
        /\ scratch' = Blank
     \/ mode' = "end" /\ UNCHANGED <<block, scratch>>
  /\ UNCHANGED <<radio, upload, flash, doOtap, next, lost, timeouts>>

\* What lib_otap->write() is given at position next.
Given(b) ==
  [k \in ImgPositions |->
     IF k \in next..next + Block - 1 /\ k < Length[header] THEN b[k - next]
                                                          ELSE scratch[k]]

\* Mutant: the block is handed on before it has been read.
HandedOnFirst == scratch' = Given(block)

HandedOn == scratch' = Given(block')

\* A whole block is read, whether there is that much left or not.  Nobody looks
\* at the result: a block that was not read is the one before.
ReadBlock ==
  \/ /\ InArea(next, Block)
     /\ block' = [k \in 0..Block - 1 |-> area[next + k]]
     /\ UNCHANGED lost
  \/ /\ InArea(next, Block)
     /\ lost' = lost \cup {next \div Block}
     /\ UNCHANGED block
  \/ ~InArea(next, Block) /\ UNCHANGED <<block, lost>>

ProcessBlock ==
  /\ mode = "blocks"
  /\ next < Length[header]
  /\ ReadBlock
  /\ \/ HandedOn /\ next' = next + Block /\ UNCHANGED mode
     \/ mode' = "end" /\ UNCHANGED <<next, scratch>>
  /\ UNCHANGED <<radio, upload, flash, doOtap, timeouts>>

\* The target is set and the image is to be processed; either may fail.
ProcessEnd ==
  /\ mode = "blocks"
  /\ next >= Length[header]
  /\ mode' \in {"set", "end"}
  /\ UNCHANGED <<radio, upload, flash, doOtap, process, timeouts>>

\* do_otap is cleared, if it can be, and the node is reset.
ClearOtap ==
  /\ mode \in {"set", "end"}
  /\ doOtap' \in BOOLEAN
  /\ Restarted
  /\ UNCHANGED <<header, area, late>>

-----------------------------------------------------------------------------

Indices ==
  UNION {0..TotalMessages(Length[img], Package[img]) - 1 : img \in Img}

Next ==
  \/ ReceiveForeign
  \/ \E img \in Img : ReceiveBegin(img)
  \/ \E i \in Indices : ReceiveIgnored(i) \/ ReceivePackage(i)
  \/ FlashStep
  \/ Reset
  \/ ProcessHeader \/ ProcessBlock \/ ProcessEnd \/ ClearOtap

Spec == Init /\ [][Next]_vars

-----------------------------------------------------------------------------

AnyByte == (Img \X ImgPositions) \cup {Zero, Junk, Erased, Spoilt}

TypeOK ==
  /\ offer \in Img \cup {None}
  /\ rx \in [RxPositions -> AnyByte]
  /\ lastId \in Nat
  /\ session \in {NoSession} \cup {NewSession(img) : img \in Img}
  /\ flags \subseteq {Flag(i) : i \in Indices}
  /\ mode \in {"run", "header", "blocks", "set", "end"}
  /\ block \in [0..Block - 1 -> AnyByte]
  /\ next \in Nat
  /\ header \in Img \cup {Erased, Spoilt}
  /\ area \in [Positions -> AnyByte]
  /\ doOtap \in BOOLEAN
  /\ op = Idle \/ op = Erasing \/ (\E img \in Img : op = Marking(img))
       \/ (op.kind = "write" /\ op.from + op.amount - 1 \in Positions
             /\ op.done \in 0..op.amount - 1 /\ op.amount - 1 \in RxPositions)
  /\ scratch \in [ImgPositions -> AnyByte]
  /\ late \subseteq Positions
  /\ lost \subseteq Nat
  /\ timeouts \in Nat

\* The byte at position k of the area is the image's, unless its sector is not
\* erased or a write went on there after its time-out.
Holds(img, k) == IsErased(k) => area[k] = Byte(img, k) \/ k \in late

\* Every byte of a package flagged as received is in its place in flash: short
\* packages, padding, other messages in the receive buffer, refused writes and
\* operations that outlive their time-out or their session do no harm beyond
\* the package that timed out. (ble.c:351-378, 466-477; otap.c:71-86)
BytesInPlace ==
  \A i \in 0..session.total - 1 :
    Flag(i) \in flags =>
      \A k \in 0..session.len - 1 :
        k \div session.pkg = i => Holds(session.seq, k)

\* The buffer is marked only when every byte of the image is there: the range of
\* ids, the offsets and the missing packages fit together for images that do
\* not fill their last package. (ble.c:432-437, 463-469, 507-526)
MarkedWhole ==
  header \in Img =>
    \A k \in 0..Length[header] - 1 : k \in Positions /\ Holds(header, k)

\* A buffer is marked only for an image that fits with the padding of its last
\* package: the memory library refuses to write any other last package, although
\* the code compares no offset with the size of the area, and the refusal is
\* taken for a package to ask for again. (otap.c:187-193, ble.c:468-476)
MarkedFits ==
  header \in Img =>
    InArea(0, Package[header] * TotalMessages(Length[header], Package[header]))

\* When the OTAP library is told to process what it was given, that is the
\* buffer; except for blocks whose read failed, and for a last block that
\* reaches beyond the area, which cannot be read. (otap.c:246-263)
ScratchIsBuffer ==
  mode = "set" =>
    \A k \in 0..Length[header] - 1 :
      \/ scratch[k] = area[k]
      \/ k \div Block \in lost
      \/ ~InArea(Block * (k \div Block), Block)

=============================================================================
