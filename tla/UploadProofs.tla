---------------------------- MODULE UploadProofs ----------------------------
(***************************************************************************)
(* Proofs about module Upload, whatever the number and size of images, the *)
(* length of the backlog and the number of faults and resets.  What is     *)
(* said of the buffer is for one phone and images that lie in the erased   *)
(* sectors; what is said of types, held requests and answers needs neither.*)
(*                                                                         *)
(* The image in the buffer is whole because nothing but the packages of    *)
(* the announced image is ever written over an erased buffer.  That takes  *)
(* the whole conversation: the phone sends packages only after the answer  *)
(* to its own request, that answer is in flight only while the buffer is   *)
(* as the erase left it, and a reset drops answer and session together.    *)
(* A flash operation that outlasts its time-out goes on into all this: it  *)
(* finds the buffer as its session left it, because nothing else is        *)
(* started before it has ended.                                            *)
(***************************************************************************)
EXTENDS Upload, TLAPS

\* The hypotheses of the theorems; runs show what happens without them.
OnePhone == \A p, q \in Phone : p = q
ImagesFit == \A img \in Img : Total[img] <= ErasedCells

InFlight(c) ==
  \/ beacon.cmd = c
  \/ \E i \in 1..Len(backlog) : backlog[i].cmd = c

\* What is on air belongs to what the phone is doing.
AirInv(p) ==
  /\ phone[p].phase # "idle" => phone[p].img \in Img
  /\ air[p].kind = "begin" =>
       phone[p].phase = "waiting" /\ air[p] = Begin(phone[p].id, phone[p].img)
  /\ air[p].kind = "data" =>
       /\ phone[p].phase = "sending"
       /\ \E i \in Indices : air[p] = Data(i, phone[p].img)

\* The buffer is erased for the image the phone wants to upload, and at most
\* erased again.
Ready(p) ==
  /\ op.kind \in {"idle", "erase"}
  /\ session = [img |-> phone[p].img, received |-> {}]
  /\ header = Erased
  /\ \A i \in 0..ErasedCells - 1 : cells[i] = Erased

\* An answer in flight is to a request made before, and one to the request the
\* phone waits for says the truth.
AnswerInv(p) ==
  \A k \in 0..MaxRequests :
    InFlight(BeginRsp(k, TRUE)) =>
      /\ k <= phone[p].id
      /\ phone[p].phase = "waiting" /\ phone[p].id = k => Ready(p)

\* Nothing but the image itself is in its cells, spoilt or not.
Fresh(img) ==
  /\ header \in {Erased, img}
  /\ \A i \in 0..Total[img] - 1 : cells[i] \in {Erased, img, Spoilt}

SendingInv(p) ==
  phone[p].phase = "sending" /\ session.img # None =>
    /\ session.img = phone[p].img
    /\ Fresh(phone[p].img)
    /\ op.kind \in {"write", "mark"} => op.img = session.img

\* What goes on finds the buffer as its session left it.
OpInv ==
  /\ op.kind = "erase" => session.received = {}
  /\ op.kind \in {"write", "mark"} =>
       /\ Fresh(op.img)
       /\ session.img # op.img => session.received = {}
  /\ op.kind = "write" => op.index \in 0..Total[op.img] - 1
  /\ op.kind = "mark" => \A i \in 0..Total[op.img] - 1 : Holds(i, op.img)

\* What goes on, and what is spoilt, has a failure behind it.
Blamed ==
  /\ op # Idle => faults > 0
  /\ \A i \in 0..Cells - 1 : cells[i] = Spoilt => faults > 0
  /\ installed = Spoilt => faults > 0

OnAir == \A p \in Phone : AirInv(p)
PhoneInv == \A p \in Phone : AnswerInv(p) /\ SendingInv(p)

IInv ==
  /\ TypeOK
  /\ OnAir
  /\ Blamed
  /\ PhoneInv
  /\ OpInv
  /\ FlagsHonest
  /\ ImageIntegrity
  /\ NeverGarbage

-----------------------------------------------------------------------------
(* What messages and commands are made of.                                 *)

LEMMA IndicesNat == Indices \subseteq Nat
  BY UploadAssumption DEF Indices

LEMMA FitsCells == ImagesFit =>
  \A img \in Img : \A i \in 0..Total[img] - 1 :
    i \in 0..Cells - 1 /\ i \in 0..ErasedCells - 1
  BY UploadAssumption DEF ImagesFit

LEMMA MessageFields ==
  ASSUME NEW m \in Message
  PROVE  /\ m.id \in Nat
         /\ m.kind = "scan" => m.id \in ScanId
         /\ m.kind = "begin" => m.id \in 1..MaxRequests /\ m.img \in Img
         /\ m.kind = "data" =>
              /\ Index(m) \in Indices
              /\ Index(m) \in Nat
              /\ m.img \in Img
  BY IndicesNat, UploadAssumption
     DEF Message, Quiet, Scan, Begin, Data, FirstId, Index

LEMMA CmdMember ==
  /\ Status \in Cmd /\ Done \in Cmd
  /\ \A k \in ScanId : ScanRsp(k) \in Cmd
  /\ \A k \in 1..MaxRequests : \A ok \in BOOLEAN : BeginRsp(k, ok) \in Cmd
  /\ \A i \in Indices : Resend(i) \in Cmd
  BY DEF Cmd

\* Only the answer to an upload request is one.
LEMMA OtherAnswers ==
  \A k :
    /\ BeginRsp(k, TRUE) \notin {Off, Status, Done}
    /\ \A n : BeginRsp(k, TRUE) \notin {ScanRsp(n), Resend(n)}
    /\ \A n : BeginRsp(k, TRUE) # BeginRsp(n, FALSE)
    /\ \A n : BeginRsp(k, TRUE) = BeginRsp(n, TRUE) => k = n
  BY DEF BeginRsp, Off, Status, Done, ScanRsp, Resend

LEMMA EntryMember ==
  \A c \in Cmd : Plain(c) \in TX!Entry /\ Held(c) \in TX!Entry
  BY DEF Plain, Held, TX!Entry

-----------------------------------------------------------------------------
(* The backlog.                                                            *)

\* Every command of r is one of q or the one of e.
OnlyAdds(r, q, c) ==
  \A i \in 1..Len(r) : r[i].cmd = c \/ \E j \in 1..Len(q) : r[i].cmd = q[j].cmd

LEMMA SendAdds ==
  ASSUME NEW q \in Seq(TX!Entry), NEW e \in TX!Entry,
         NEW r \in TX!AfterSend(q, e)
  PROVE  r \in Seq(TX!Entry) /\ OnlyAdds(r, q, e.cmd)
<1>1. CASE r = q
  BY <1>1 DEF OnlyAdds
<1>2. CASE r = Append(q, e)
  <2>1. Append(q, e) \in Seq(TX!Entry) /\ Len(Append(q, e)) = Len(q) + 1
          /\ \A i \in 1..Len(q) + 1 :
               Append(q, e)[i] = IF i <= Len(q) THEN q[i] ELSE e
    OBVIOUS
  <2> QED
    BY <1>2, <2>1 DEF OnlyAdds
<1> QED
  BY <1>1, <1>2 DEF TX!AfterSend

LEMMA ReleaseKeeps ==
  ASSUME NEW q \in Seq(TX!Entry)
  PROVE  TX!Release(q) \in Seq(TX!Entry) /\ OnlyAdds(TX!Release(q), q, Off)
<1> DEFINE r == TX!Release(q)
<1>1. DOMAIN q = 1..Len(q) /\ Len(q) \in Nat
  OBVIOUS
<1>2. \A i \in 1..Len(q) :
        /\ [q[i] EXCEPT !.held = FALSE] \in TX!Entry
        /\ [q[i] EXCEPT !.held = FALSE].cmd = q[i].cmd
  <2> TAKE i \in 1..Len(q)
  <2>1. q[i] \in TX!Entry
    OBVIOUS
  <2> QED
    BY <2>1 DEF TX!Entry
<1>3. r = [i \in 1..Len(q) |-> [q[i] EXCEPT !.held = FALSE]]
  BY <1>1 DEF TX!Release
<1>4. r \in [1..Len(q) -> TX!Entry]
  BY <1>2, <1>3
<1>5. r \in Seq(TX!Entry) /\ Len(r) = Len(q)
  BY <1>1, <1>3, <1>4
<1>6. \A i \in 1..Len(r) : r[i].cmd = q[i].cmd
  BY <1>2, <1>3, <1>5
<1> QED
  BY <1>5, <1>6 DEF OnlyAdds

LEMMA RepliesAdd ==
  ASSUME backlog \in Seq(TX!Entry), NEW m, NEW got, NEW q \in Replies(m, got)
  PROVE  q \in Seq(TX!Entry) /\ OnlyAdds(q, backlog, Status)
<1>1. CASE q = backlog
  BY <1>1 DEF OnlyAdds
<1>2. CASE q \in TX!AfterSend(backlog, Plain(Status))
  <2>1. Plain(Status) \in TX!Entry /\ Plain(Status).cmd = Status
    BY CmdMember, EntryMember DEF Plain
  <2> QED
    BY <1>2, <2>1, SendAdds
<1> QED
  BY <1>1, <1>2 DEF Replies

-----------------------------------------------------------------------------
(* Type correctness.                                                       *)

LEMMA InitType == Init => TypeOK
<1> SUFFICES ASSUME Init PROVE TypeOK
  OBVIOUS
<1>1. Quiet \in Message
  BY DEF Message
<1>2. TxType
  BY DEF Init, TX!Init, TxType
<1>3. PhoneType
  BY <1>1, UploadAssumption DEF Init, PhoneType
<1>4. RamType
  BY <1>1 DEF Init, RamType, Settings, Defaults, NoSession
<1>5. FlashType
  <2>1. \E v, s \in BOOLEAN :
          stored = [valid |-> v, doOtap |-> FALSE, isSink |-> s]
    BY DEF Init
  <2>2. stored \in Settings
    BY <2>1 DEF Settings
  <2> QED
    BY <2>2 DEF Init, FlashType, CellValue, Operation
<1>6. BoundsType
  BY DEF Init, BoundsType
<1> QED
  BY <1>2, <1>3, <1>4, <1>5, <1>6 DEF TypeOK

LEMMA PhoneControlType == TypeOK /\ PhoneControl => TypeOK'
<1> SUFFICES ASSUME TypeOK, PhoneControl PROVE TypeOK'
  OBVIOUS
<1> USE DEF TypeOK
<1>1. TxType' /\ RamType' /\ FlashType' /\ BoundsType'
  BY DEF PhoneControl, received, flash, bounds,
         TxType, RamType, FlashType, BoundsType
<1>2. PhoneType'
  <2> PICK p \in Phone :
        \/ \E k \in ScanId : PhoneScan(p, k)
        \/ \E img \in Img : PhoneBegin(p, img)
        \/ PhoneStart(p)
        \/ PhoneDone(p)
    BY DEF PhoneControl
  <2> USE DEF PhoneType
  <2>1. Quiet \in Message
    BY DEF Message
  <2>2. CASE \E k \in ScanId : PhoneScan(p, k)
    BY <2>2 DEF PhoneScan, Message
  <2>3. ASSUME NEW img \in Img, PhoneBegin(p, img) PROVE PhoneType'
    <3>1. phone[p].id + 1 \in 1..MaxRequests
      BY <2>3, UploadAssumption DEF PhoneBegin
    <3>2. phone' \in [Phone -> [phase : {"idle", "waiting", "sending"},
                               img : Img \cup {None}, id : 0..MaxRequests,
                               next : Nat]]
      BY <2>3, <3>1 DEF PhoneBegin
    <3>3. Begin(phone[p].id + 1, img) \in Message
      BY <3>1 DEF Message
    <3> QED
      BY <2>3, <3>2, <3>3 DEF PhoneBegin
  <2>4. CASE PhoneStart(p)
    BY <2>1, <2>4 DEF PhoneStart
  <2>5. CASE PhoneDone(p)
    BY <2>1, <2>5 DEF PhoneDone
  <2> QED
    BY <2>2, <2>3, <2>4, <2>5
<1> QED
  BY <1>1, <1>2

LEMMA PhoneDataType ==
  ASSUME TypeOK, NEW p \in Phone, NEW i \in Indices, AnyData(p, i),
         phone[p].img \in Img
  PROVE  TypeOK'
<1> USE DEF TypeOK
<1>1. TxType' /\ RamType' /\ FlashType' /\ BoundsType'
  BY DEF AnyData, NodeUnchanged, received, flash, bounds,
         TxType, RamType, FlashType, BoundsType
<1>2. Data(i, phone[p].img) \in Message
  BY DEF Message
<1>3. PhoneType'
  BY <1>2 DEF AnyData, PhoneData, PhoneType
<1> QED
  BY <1>1, <1>3

LEMMA RestartedType ==
  TypeOK /\ Restarted => PhoneType' /\ TxType' /\ RamType'
<1> SUFFICES ASSUME TypeOK, Restarted
             PROVE  PhoneType' /\ TxType' /\ RamType'
  OBVIOUS
<1>1. PhoneType'
  BY DEF TypeOK, Restarted, phones, PhoneType
<1>2. TxType'
  BY DEF Restarted, TxType
<1>3. RamType'
  <2>1. Quiet \in Message
    BY DEF Message
  <2> QED
    BY <2>1 DEF Restarted, RamType, Defaults, NoSession, Settings
<1> QED
  BY <1>1, <1>2, <1>3

\* Flash operations keep the types of the flash.
LEMMA ProgramType ==
  ASSUME NEW old \in CellValue, NEW new \in CellValue
  PROVE  /\ Program(old, new) \in CellValue
         /\ Cut(old, new) \in CellValue
         /\ Late(old, new) \subseteq CellValue
  BY DEF Program, Cut, Late, CellValue

LEMMA EraseType ==
  ASSUME FlashType, NEW n \in Nat, EraseUpTo(n)
  PROVE  /\ header' \in CellValue
         /\ cells' \in [0..Cells - 1 -> CellValue]
  BY DEF FlashType, EraseUpTo, CellValue

LEMMA WriteType ==
  ASSUME FlashType, NEW i \in Nat, NEW img \in Img, NEW ok, NEW after,
         NEW failures, Otap_bufferWrite(i, img, ok, after, failures)
  PROVE  /\ cells' \in [0..Cells - 1 -> CellValue]
         /\ after \in Operation
<1>1. i < Cells => i \in 0..Cells - 1
  BY UploadAssumption
<1>2. cells' \in [0..Cells - 1 -> CellValue]
  <2>1. CASE UNCHANGED cells
    BY <2>1 DEF FlashType
  <2>2. CASE i < Cells /\ WriteCell(i, img)
    <3>1. Program(cells[i], img) \in CellValue
      BY <1>1, <2>2, ProgramType DEF FlashType, CellValue
    <3> QED
      BY <1>1, <2>2, <3>1 DEF WriteCell, FlashType
  <2> QED
    BY <2>1, <2>2 DEF Otap_bufferWrite
<1>3. after \in Operation
  BY <1>1 DEF Otap_bufferWrite, GoesOn, FlashType, Operation
<1> QED
  BY <1>2, <1>3

LEMMA MarkType ==
  ASSUME FlashType, NEW img \in Img, NEW before \in Operation, NEW ok,
         NEW failures, Otap_bufferEnd(img, before, ok, failures)
  PROVE  header' \in CellValue /\ op' \in Operation
<1>1. header' \in CellValue
  BY ProgramType DEF Otap_bufferEnd, FlashType, CellValue
<1>2. op' \in Operation
  BY DEF Otap_bufferEnd, GoesOn, Operation
<1> QED
  BY <1>1, <1>2

\* What an operation that goes on leaves behind is well formed too.
LEMMA OperationFields ==
  ASSUME NEW o \in Operation
  PROVE  /\ o.kind \in {"idle", "erase", "write", "mark"}
         /\ o.kind = "idle" <=> o = Idle
         /\ o.kind \in {"write", "mark"} => o.img \in Img
         /\ o.kind = "write" => o.index \in 0..Cells - 1
  BY DEF Operation, Idle, Erasing, Writing, Marking

\* It has written its cell, or ended otherwise.
LEMMA CellType ==
  ASSUME FlashType, op.kind = "write",
         NEW new \in {Cut(cells[op.index], op.img)} \cup Late(cells[op.index], op.img),
         cells' = [cells EXCEPT ![op.index] = new]
  PROVE  cells' \in [0..Cells - 1 -> CellValue]
<1>1. op.index \in 0..Cells - 1 /\ op.img \in Img
  BY OperationFields DEF FlashType
<1>2. new \in CellValue
  <2>1. cells[op.index] \in CellValue /\ op.img \in CellValue
    BY <1>1 DEF FlashType, CellValue
  <2>2. /\ Cut(cells[op.index], op.img) \in CellValue
        /\ Late(cells[op.index], op.img) \subseteq CellValue
    BY <2>1, ProgramType
  <2> QED
    BY <2>2
<1> QED
  BY <1>2 DEF FlashType

LEMMA LateEndType == TypeOK /\ LateEnd => TypeOK'
<1> SUFFICES ASSUME TypeOK, LateEnd PROVE TypeOK'
  OBVIOUS
<1> USE DEF TypeOK
<1>1. PhoneType' /\ TxType' /\ RamType' /\ BoundsType'
  BY DEF LateEnd, phones, received, bounds, PhoneType, TxType, RamType,
     BoundsType
<1>2. header' \in CellValue /\ cells' \in [0..Cells - 1 -> CellValue]
  <2>1. CASE op.kind = "erase" /\ EraseUpTo(ErasedCells)
    BY <2>1, EraseType, UploadAssumption
  <2>2. CASE op.kind = "mark" /\ header' = Program(header, op.img)
               /\ UNCHANGED cells
    BY <2>2, OperationFields, ProgramType DEF FlashType, CellValue
  <2>3. CASE op.kind = "write" /\ UNCHANGED header /\
               \E new \in Late(cells[op.index], op.img) :
                 cells' = [cells EXCEPT ![op.index] = new]
    BY <2>3, CellType DEF FlashType
  <2> QED
    BY <2>1, <2>2, <2>3 DEF LateEnd
<1>3. FlashType'
  BY <1>2 DEF LateEnd, FlashType, Operation
<1> QED
  BY <1>1, <1>3

LEMMA InterruptedType ==
  FlashType /\ Interrupted =>
    header' \in CellValue /\ cells' \in [0..Cells - 1 -> CellValue]
<1> SUFFICES ASSUME FlashType, Interrupted
             PROVE  header' \in CellValue /\ cells' \in [0..Cells - 1 -> CellValue]
  OBVIOUS
<1>1. CASE UNCHANGED <<header, cells>>
  BY <1>1 DEF FlashType
<1>2. ASSUME NEW n \in 0..ErasedCells, EraseUpTo(n)
      PROVE  header' \in CellValue /\ cells' \in [0..Cells - 1 -> CellValue]
  BY <1>2, EraseType, UploadAssumption
<1>3. CASE /\ op.kind = "write" /\ UNCHANGED header
           /\ \E new \in {Cut(cells[op.index], op.img)}
                           \cup Late(cells[op.index], op.img) :
                cells' = [cells EXCEPT ![op.index] = new]
  BY <1>3, CellType DEF FlashType
<1>4. CASE /\ op.kind = "mark" /\ UNCHANGED cells
           /\ header' \in {Cut(header, op.img), Program(header, op.img)}
  <2>1. header \in CellValue /\ op.img \in CellValue
    BY <1>4, OperationFields DEF FlashType, CellValue
  <2>2. Cut(header, op.img) \in CellValue /\ Program(header, op.img) \in CellValue
    BY <2>1, ProgramType
  <2> QED
    BY <1>4, <2>2 DEF FlashType
<1> QED
  BY <1>1, <1>2, <1>3, <1>4 DEF Interrupted

LEMMA FailingType ==
  ASSUME BoundsType, NEW n \in Nat, Failing(n)
  PROVE  faults' \in Nat
  BY DEF BoundsType, Failing

LEMMA CountNat ==
  /\ \A oks \in BOOLEAN : Count(oks) \in Nat
  /\ \A before : Fault(before) \in Nat
  BY DEF Count, Fault

LEMMA StoreType ==
  ASSUME FlashType, NEW r \in Settings, NEW ok, AppSettings_store(r, ok)
  PROVE  stored' \in Settings
  BY DEF FlashType, AppSettings_store

LEMMA TornType == FlashType /\ StoredTorn => stored' \in Settings
  BY DEF FlashType, StoredTorn, Settings

LEMMA StartType == TypeOK /\ Start => TypeOK'
<1> SUFFICES ASSUME TypeOK, Start PROVE TypeOK'
  OBVIOUS
<1> USE DEF TypeOK
<1>1. CASE Boot
  <2>1. Defaults \in Settings
    BY DEF Defaults, Settings
  <2>2. settings' \in Settings /\ mode' \in {"otap", "run"}
    BY <1>1, <2>1 DEF Boot, AppSettings_settingsGet, FlashType
  <2>3. BoundsType'
    BY <1>1, CountNat, FailingType DEF Boot, BoundsType
  <2> QED
    BY <1>1, <2>2, <2>3 DEF Boot, phones, received, flash,
       PhoneType, TxType, RamType, FlashType
<1>2. CASE Otap_process
  <2>1. PhoneType' /\ TxType' /\ RamType'
    BY <1>2 DEF Otap_process, phones, received, PhoneType, TxType, RamType
  <2>2. FlashType'
    BY <1>2 DEF Otap_process, Given, FlashType
  <2>3. BoundsType'
    BY <1>2, CountNat, FailingType DEF Otap_process, BoundsType
  <2> QED
    BY <2>1, <2>2, <2>3
<1>3. CASE ClearOtap
  <2>1. [settings EXCEPT !.doOtap = FALSE] \in Settings
    BY DEF RamType, Settings
  <2>2. FlashType'
    BY <1>3, <2>1, StoreType DEF ClearOtap, Restarted, FlashType, Operation
  <2>3. BoundsType'
    BY <1>3, CountNat, FailingType DEF ClearOtap, BoundsType
  <2> QED
    BY <1>3, <2>2, <2>3, RestartedType DEF ClearOtap
<1> QED
  BY <1>1, <1>2, <1>3 DEF Start

LEMMA SendTaskType == TypeOK /\ SendTask => TypeOK'
<1> SUFFICES ASSUME TypeOK, SendTask PROVE TypeOK'
  OBVIOUS
<1> USE DEF TypeOK
<1>1. TxType'
  BY DEF SendTask, TX!Advance, TX!SwitchOff, TxType
<1>2. PhoneType' /\ RamType' /\ FlashType' /\ BoundsType'
  BY DEF SendTask, phones, received, flash, bounds,
     PhoneType, RamType, FlashType, BoundsType
<1> QED
  BY <1>1, <1>2

\* A reset that leaves the flash well formed.
LEMMA PowerLossType ==
  ASSUME TypeOK, PowerLoss, stored' \in Settings, header' \in CellValue,
         cells' \in [0..Cells - 1 -> CellValue], UNCHANGED installed
  PROVE  TypeOK'
<1>1. PhoneType' /\ TxType' /\ RamType'
  BY RestartedType DEF PowerLoss
<1>2. FlashType'
  BY DEF PowerLoss, Restarted, TypeOK, FlashType, Operation
<1>3. BoundsType'
  BY DEF PowerLoss, TypeOK, BoundsType
<1> QED
  BY <1>1, <1>2, <1>3 DEF TypeOK

LEMMA InSessionFields ==
  ASSUME TypeOK, NEW p \in Phone, InSession(air[p])
  PROVE  /\ air[p].img \in Img
         /\ Index(air[p]) \in Indices
         /\ Index(air[p]) \in 0..Total[session.img] - 1
         /\ session.img \in Img
         /\ Total[session.img] \in Nat \ {0}
<1>1. air[p] \in Message
  BY DEF TypeOK, PhoneType
<1>2. session.img \in Img /\ Total[session.img] \in Nat \ {0}
  BY UploadAssumption DEF TypeOK, RamType, InSession
<1>3. Index(air[p]) \in Nat /\ Index(air[p]) \in Indices /\ air[p].img \in Img
  BY <1>1, MessageFields DEF InSession
<1> QED
  BY <1>2, <1>3 DEF InSession

LEMMA CrashType == TypeOK /\ Crash => TypeOK'
<1> SUFFICES ASSUME TypeOK, Crash PROVE TypeOK'
  OBVIOUS
<1> USE DEF TypeOK
<1>1. CASE ButtonPress
  <2>1. [settings EXCEPT !.isSink = ~@] \in Settings
    BY DEF RamType, Settings
  <2>2. FlashType'
    BY <1>1, <2>1, StoreType, InterruptedType
       DEF ButtonPress, Restarted, FlashType, Operation
  <2>3. BoundsType'
    BY <1>1, CountNat, FailingType DEF ButtonPress, BoundsType
  <2> QED
    BY <1>1, <2>2, <2>3, RestartedType DEF ButtonPress
<1>2. CASE PowerLossIdle
  BY <1>2, InterruptedType, PowerLossType DEF PowerLossIdle, FlashType
<1>3. CASE PowerLossInStore
  BY <1>3, TornType, InterruptedType, PowerLossType
     DEF PowerLossInStore, FlashType
<1>4. ASSUME NEW p \in Phone, PowerLossInErase(p) PROVE TypeOK'
  <2>1. header' \in CellValue /\ cells' \in [0..Cells - 1 -> CellValue]
    BY <1>4, EraseType DEF PowerLossInErase
  <2> QED
    BY <1>4, <2>1, PowerLossType DEF PowerLossInErase, FlashType
<1>5. ASSUME NEW p \in Phone, PowerLossInWrite(p) PROVE TypeOK'
  <2>1. InSession(air[p]) /\ Index(air[p]) < Cells
    BY <1>5 DEF PowerLossInWrite
  <2>2. Index(air[p]) \in 0..Cells - 1 /\ air[p].img \in Img
    BY <2>1, InSessionFields, IndicesNat, UploadAssumption
  <2>3. Cut(cells[Index(air[p])], air[p].img) \in CellValue
    BY <2>2, ProgramType DEF FlashType, CellValue
  <2>4. cells' \in [0..Cells - 1 -> CellValue]
    BY <1>5, <2>3 DEF PowerLossInWrite, FlashType
  <2> QED
    BY <1>5, <2>4, PowerLossType DEF PowerLossInWrite, FlashType
<1>6. ASSUME NEW p \in Phone, PowerLossInCommit(p) PROVE TypeOK'
  <2>1. InSession(air[p])
    BY <1>6 DEF PowerLossInCommit
  <2>2. Index(air[p]) \in Nat /\ air[p].img \in Img /\ session.img \in Img
    BY <2>1, InSessionFields, IndicesNat
  <2>3. cells' \in [0..Cells - 1 -> CellValue]
    <3>1. Otap_bufferWrite(Index(air[p]), air[p].img, TRUE, Idle, 0)
      BY <1>6 DEF PowerLossInCommit
    <3> QED
      BY <2>2, <3>1, WriteType
  <2>4. header' \in CellValue
    <3>1. header \in CellValue /\ session.img \in CellValue
      BY <2>2 DEF FlashType, CellValue
    <3>2. /\ Cut(header, session.img) \in CellValue
          /\ Program(header, session.img) \in CellValue
      BY <3>1, ProgramType
    <3> QED
      BY <1>6, <3>2 DEF PowerLossInCommit, Otap_bufferEnd
  <2>5. stored' \in Settings
    BY <1>6, TornType DEF PowerLossInCommit, FlashType
  <2> QED
    BY <1>6, <2>3, <2>4, <2>5, PowerLossType DEF PowerLossInCommit
<1> QED
  BY <1>1, <1>2, <1>3, <1>4, <1>5, <1>6 DEF Crash

LEMMA RebootType == TypeOK /\ Reboot => TypeOK'
<1> SUFFICES ASSUME TypeOK, Reboot PROVE TypeOK'
  OBVIOUS
<1>1. FlashType'
  BY InterruptedType DEF TypeOK, Reboot, Restarted, FlashType, Operation
<1> QED
  BY <1>1, RestartedType DEF TypeOK, Reboot, bounds, BoundsType

\* What a data message does to the backlog.
LEMMA ReleasedSend ==
  ASSUME TxType, NEW m, NEW got, NEW q \in Replies(m, got), NEW c \in Cmd,
         NEW e \in {Plain(c), Held(c)}, NEW r \in TX!AfterSend(TX!Release(q), e)
  PROVE  /\ r \in Seq(TX!Entry)
         /\ \A i \in 1..Len(r) :
              r[i].cmd \in {c, Off, Status}
                \/ \E j \in 1..Len(backlog) : r[i].cmd = backlog[j].cmd
<1>1. q \in Seq(TX!Entry) /\ OnlyAdds(q, backlog, Status)
  BY RepliesAdd DEF TxType
<1>2. TX!Release(q) \in Seq(TX!Entry) /\ OnlyAdds(TX!Release(q), q, Off)
  BY <1>1, ReleaseKeeps
<1>3. e \in TX!Entry /\ e.cmd = c
  <2>1. e \in TX!Entry
    BY EntryMember
  <2>2. Plain(c).cmd = c /\ Held(c).cmd = c
    BY DEF Plain, Held
  <2> QED
    BY <2>1, <2>2
<1>4. r \in Seq(TX!Entry) /\ OnlyAdds(r, TX!Release(q), c)
  BY <1>2, <1>3, SendAdds
<1>5. \A i \in 1..Len(r) :
        r[i].cmd \in {c, Off, Status}
          \/ \E j \in 1..Len(backlog) : r[i].cmd = backlog[j].cmd
  <2> DEFINE w == TX!Release(q)
  <2> TAKE i \in 1..Len(r)
  <2>1. r[i].cmd = c \/ \E j \in 1..Len(w) : r[i].cmd = w[j].cmd
    BY <1>4 DEF OnlyAdds
  <2>2. \A j \in 1..Len(w) :
          w[j].cmd = Off \/ \E n \in 1..Len(q) : w[j].cmd = q[n].cmd
    BY <1>2 DEF OnlyAdds
  <2>3. \A j \in 1..Len(q) :
          q[j].cmd = Status \/ \E n \in 1..Len(backlog) : q[j].cmd = backlog[n].cmd
    BY <1>1 DEF OnlyAdds
  <2> HIDE DEF w
  <2> QED
    BY <2>1, <2>2, <2>3
<1> QED
  BY <1>4, <1>5

LEMMA ReleasedBeacon ==
  ASSUME TxType, beacon' = [beacon EXCEPT !.held = FALSE]
  PROVE  beacon' \in TX!Entry \cup {TX!Silent} /\ beacon'.cmd = beacon.cmd
<1>1. CASE beacon \in TX!Entry
  BY <1>1 DEF TX!Entry
<1>2. CASE beacon = TX!Silent
  BY <1>2 DEF TX!Silent
<1> QED
  BY <1>1, <1>2 DEF TxType

LEMMA FlaggedType ==
  ASSUME TypeOK, NEW p \in Phone, InSession(air[p]), NEW ok
  PROVE  Flagged(air[p], ok) \in SUBSET Nat
  BY InSessionFields, IndicesNat DEF Flagged, TypeOK, RamType

LEMMA ReceiveType ==
  ASSUME TypeOK, NEW p \in Phone, Receive(p)
  PROVE  TypeOK'
<1> USE DEF TypeOK
<1>1. air[p] \in Message /\ air[p].id \in Nat
  BY MessageFields DEF PhoneType
<1>2. CASE ReceiveDuplicate(p) \/ ReceiveOutOfSession(p)
  <2>1. PhoneType' /\ TxType' /\ FlashType' /\ BoundsType'
    BY <1>2 DEF ReceiveDuplicate, ReceiveOutOfSession, phones, flash, bounds,
       PhoneType, TxType, FlashType, BoundsType
  <2>2. RamType'
    BY <1>1, <1>2 DEF ReceiveDuplicate, ReceiveOutOfSession, Accepts, RamType
  <2> QED
    BY <2>1, <2>2
<1>3. CASE ReceiveScan(p)
  <2>1. Plain(ScanRsp(air[p].id)) \in TX!Entry
    BY <1>1, <1>3, MessageFields, CmdMember, EntryMember DEF ReceiveScan
  <2>2. TxType'
    BY <1>3, <2>1, SendAdds DEF ReceiveScan, TxType
  <2>3. PhoneType' /\ FlashType' /\ BoundsType'
    BY <1>3 DEF ReceiveScan, phones, flash, bounds,
       PhoneType, FlashType, BoundsType
  <2>4. RamType'
    BY <1>1, <1>3 DEF ReceiveScan, Accepts, RamType
  <2> QED
    BY <2>2, <2>3, <2>4
<1>4. CASE ReceiveBegin(p)
  <2>1. air[p].id \in 1..MaxRequests /\ air[p].img \in Img
    BY <1>1, <1>4, MessageFields DEF ReceiveBegin
  <2> PICK ok \in BOOLEAN :
        /\ Otap_bufferBegin(ok)
        /\ backlog' \in TX!AfterSend(backlog, Plain(BeginRsp(air[p].id, ok)))
    BY <1>4 DEF ReceiveBegin
  <2>2. TxType'
    <3>1. Plain(BeginRsp(air[p].id, ok)) \in TX!Entry
      BY <2>1, CmdMember, EntryMember
    <3> QED
      BY <1>4, <3>1, SendAdds DEF ReceiveBegin, TxType
  <2>3. PhoneType'
    BY <1>4 DEF ReceiveBegin, phones, PhoneType
  <2>4. RamType'
    BY <1>1, <1>4, <2>1 DEF ReceiveBegin, Accepts, NewSession, RamType
  <2>5. /\ header' \in CellValue /\ cells' \in [0..Cells - 1 -> CellValue]
        /\ op' \in Operation
    BY EraseType, UploadAssumption
       DEF Otap_bufferBegin, GoesOn, FlashType, Operation
  <2>6. FlashType'
    BY <1>4, <2>5 DEF ReceiveBegin, FlashType
  <2>7. BoundsType'
    BY <1>4, CountNat DEF ReceiveBegin, Otap_bufferBegin, Failing, BoundsType
  <2> QED
    BY <2>2, <2>3, <2>4, <2>6, <2>7
<1>5. CASE ReceiveData(p)
  <2>1. InSession(air[p])
    BY <1>5 DEF ReceiveData
  <2> PICK ok \in BOOLEAN, failures \in 0..1 :
        LET got == Flagged(air[p], ok)
        IN  /\ Otap_bufferWrite(Index(air[p]), air[p].img, ok, op', failures)
            /\ Failing(failures)
            /\ session' = [session EXCEPT !.received = got]
            /\ backlog' \in Replies(air[p], got)
    BY <1>5 DEF ReceiveData
  <2>2. TxType'
    BY <1>5, RepliesAdd DEF ReceiveData, TxType
  <2>3. PhoneType'
    BY <1>5 DEF ReceiveData, phones, PhoneType
  <2>4. RamType'
    <3>1. session' \in [img : Img \cup {None}, received : SUBSET Nat]
      BY <2>1, FlaggedType DEF RamType
    <3> QED
      BY <1>1, <1>5, <3>1 DEF ReceiveData, Accepts, RamType
  <2>5. cells' \in [0..Cells - 1 -> CellValue] /\ op' \in Operation
    BY <2>1, InSessionFields, IndicesNat, WriteType
  <2>6. FlashType'
    BY <1>5, <2>5 DEF ReceiveData, FlashType
  <2>7. BoundsType'
    BY <1>5 DEF ReceiveData, Failing, BoundsType
  <2> QED
    BY <2>2, <2>3, <2>4, <2>6, <2>7
<1>6. CASE ReceiveDataAskResend(p)
  <2>1. InSession(air[p])
    BY <1>6 DEF ReceiveDataAskResend
  <2> PICK ok \in BOOLEAN, failures \in 0..1 :
        LET got == Flagged(air[p], ok)
        IN  /\ Otap_bufferWrite(Index(air[p]), air[p].img, ok, op', failures)
            /\ Failing(failures)
            /\ session' = [session EXCEPT !.received = got]
            /\ \E i \in Missing(got), q \in Replies(air[p], got) :
                 backlog' \in TX!AfterSend(TX!Release(q), Held(Resend(i)))
    BY <1>6 DEF ReceiveDataAskResend
  <2>2. TxType'
    <3> DEFINE got == Flagged(air[p], ok)
    <3>1. PICK i \in Missing(got), q \in Replies(air[p], got) :
            backlog' \in TX!AfterSend(TX!Release(q), Held(Resend(i)))
      OBVIOUS
    <3>2. i \in Indices
      BY <2>1, InSessionFields DEF Missing, Indices
    <3>3. Resend(i) \in Cmd
      BY <3>2, CmdMember
    <3>4. backlog' \in Seq(TX!Entry)
      BY <3>1, <3>3, ReleasedSend
    <3> QED
      BY <1>6, <3>4, ReleasedBeacon DEF ReceiveDataAskResend, TxType
  <2>3. PhoneType'
    BY <1>6 DEF ReceiveDataAskResend, phones, PhoneType
  <2>4. RamType'
    <3>1. session' \in [img : Img \cup {None}, received : SUBSET Nat]
      BY <2>1, FlaggedType DEF RamType
    <3> QED
      BY <1>1, <1>6, <3>1 DEF ReceiveDataAskResend, Accepts, RamType
  <2>5. cells' \in [0..Cells - 1 -> CellValue] /\ op' \in Operation
    BY <2>1, InSessionFields, IndicesNat, WriteType
  <2>6. FlashType'
    BY <1>6, <2>5 DEF ReceiveDataAskResend, FlashType
  <2>7. BoundsType'
    BY <1>6 DEF ReceiveDataAskResend, Failing, BoundsType
  <2> QED
    BY <2>2, <2>3, <2>4, <2>6, <2>7
<1>7. CASE ReceiveDataCommit(p)
  <2>1. InSession(air[p]) /\ settings' = [settings EXCEPT !.doOtap = TRUE]
    BY <1>7 DEF ReceiveDataCommit
  <2> PICK ok, marked, kept \in BOOLEAN, failed, missed \in 0..1,
           after \in {Idle, op, Writing(Index(air[p]), air[p].img)} :
        LET got == Flagged(air[p], ok)
        IN  /\ Otap_bufferWrite(Index(air[p]), air[p].img, ok, after, failed)
            /\ session' = [session EXCEPT !.received = got]
            /\ Otap_bufferEnd(session.img, after, marked, missed)
            /\ AppSettings_store(settings', kept)
            /\ Failing(failed + missed + Count(kept))
            /\ \E q \in Replies(air[p], got) :
                 backlog' \in TX!AfterSend(TX!Release(q), Plain(Done))
    BY <1>7 DEF ReceiveDataCommit
  <2>2. TxType'
    <3>1. backlog' \in Seq(TX!Entry)
      BY CmdMember, ReleasedSend
    <3> QED
      BY <1>7, <3>1, ReleasedBeacon DEF ReceiveDataCommit, TxType
  <2>3. PhoneType'
    BY <1>7 DEF ReceiveDataCommit, phones, PhoneType
  <2>4. RamType'
    <3>1. session' \in [img : Img \cup {None}, received : SUBSET Nat]
      BY <2>1, FlaggedType DEF RamType
    <3>2. settings' \in Settings
      BY <2>1 DEF RamType, Settings
    <3> QED
      BY <1>1, <1>7, <3>1, <3>2 DEF ReceiveDataCommit, Accepts, RamType
  <2>5. cells' \in [0..Cells - 1 -> CellValue] /\ after \in Operation
    BY <2>1, InSessionFields, IndicesNat, WriteType
  <2>6. header' \in CellValue /\ op' \in Operation
    BY <2>1, <2>5, InSessionFields, MarkType
  <2>7. stored' \in Settings
    BY <2>1, StoreType DEF RamType, Settings
  <2>8. FlashType'
    BY <1>7, <2>5, <2>6, <2>7 DEF ReceiveDataCommit, FlashType
  <2>9. BoundsType'
    BY <1>7, CountNat DEF ReceiveDataCommit, Failing, BoundsType
  <2> QED
    BY <2>2, <2>3, <2>4, <2>8, <2>9
<1> QED
  BY <1>2, <1>3, <1>4, <1>5, <1>6, <1>7 DEF Receive

-----------------------------------------------------------------------------
(* What is on air.  This holds for any number of phones.                   *)

LEMMA NodeKeepsPhones == Node \/ Crash => UNCHANGED phones
<1>1. Node => UNCHANGED phones
  BY DEF Node, SendTask, Start, Boot, Otap_process, ClearOtap, Reboot,
     LateEnd, Restarted, Receive, ReceiveDuplicate, ReceiveOutOfSession, ReceiveScan,
     ReceiveBegin, ReceiveData, ReceiveDataAskResend, ReceiveDataCommit
<1>2. Crash => UNCHANGED phones
  BY DEF Crash, ButtonPress, PowerLossIdle, PowerLossInStore,
     PowerLossInErase, PowerLossInWrite, PowerLossInCommit, PowerLoss, Restarted
<1> QED
  BY <1>1, <1>2

LEMMA PhoneControlAir ==
  TypeOK /\ OnAir /\ PhoneControl => OnAir'
<1> SUFFICES ASSUME TypeOK, OnAir, PhoneControl, NEW q \in Phone
             PROVE  AirInv(q)'
  BY DEF OnAir
<1>1. AirInv(q)
  BY DEF OnAir
<1>2. phone \in [Phone -> [phase : {"idle", "waiting", "sending"},
                          img : Img \cup {None}, id : 0..MaxRequests,
                          next : Nat]]
        /\ air \in [Phone -> Message]
  BY DEF TypeOK, PhoneType
<1> PICK p \in Phone :
      \/ \E k \in ScanId : PhoneScan(p, k)
      \/ \E img \in Img : PhoneBegin(p, img)
      \/ PhoneStart(p)
      \/ PhoneDone(p)
  BY DEF PhoneControl
<1>3. CASE q # p
  <2>1. phone'[q] = phone[q] /\ air'[q] = air[q]
    BY <1>2, <1>3 DEF PhoneScan, PhoneBegin, PhoneStart, PhoneDone
  <2> QED
    BY <1>1, <2>1 DEF AirInv
<1>4. CASE q = p /\ \E k \in ScanId : PhoneScan(p, k)
  <2>1. air'[q].kind = "scan" /\ phone'[q].phase = "idle"
    BY <1>2, <1>4 DEF PhoneScan, Scan
  <2> QED
    BY <2>1 DEF AirInv
<1>5. ASSUME q = p, NEW img \in Img, PhoneBegin(p, img) PROVE AirInv(q)'
  <2>1. phone'[q] = [phase |-> "waiting", img |-> img,
                     id |-> phone[p].id + 1, next |-> 0]
          /\ air'[q] = Begin(phone[p].id + 1, img)
    BY <1>2, <1>5 DEF PhoneBegin
  <2> QED
    BY <2>1 DEF AirInv, Begin
<1>6. CASE q = p /\ (PhoneStart(p) \/ PhoneDone(p))
  <2>1. air'[q] = Quiet /\ phone[q].phase # "idle"
    BY <1>2, <1>6 DEF PhoneStart, PhoneDone
  <2>2. phone'[q].img = phone[q].img
    BY <1>2, <1>6 DEF PhoneStart, PhoneDone
  <2>3. air'[q].kind = "quiet"
    BY <2>1 DEF Quiet
  <2> QED
    BY <1>1, <2>1, <2>2, <2>3 DEF AirInv
<1> QED
  BY <1>3, <1>4, <1>5, <1>6

LEMMA PhoneDataAir ==
  ASSUME TypeOK, OnAir, NEW p \in Phone, NEW i \in Indices, AnyData(p, i)
  PROVE  OnAir'
<1> SUFFICES ASSUME NEW q \in Phone PROVE AirInv(q)'
  BY DEF OnAir
<1>1. AirInv(q)
  BY DEF OnAir
<1>2. phone \in [Phone -> [phase : {"idle", "waiting", "sending"},
                          img : Img \cup {None}, id : 0..MaxRequests,
                          next : Nat]]
        /\ air \in [Phone -> Message]
  BY DEF TypeOK, PhoneType
<1>3. air' = [air EXCEPT ![p] = Data(i, phone[p].img)]
        /\ phone' = [phone EXCEPT ![p].next = IF i = @ THEN @ + 1 ELSE @]
        /\ phone[p].phase = "sending"
  BY DEF AnyData, PhoneData
<1>4. phone'[q].phase = phone[q].phase /\ phone'[q].img = phone[q].img
        /\ phone'[q].id = phone[q].id
  BY <1>2, <1>3
<1>5. CASE q = p
  <2>1. air'[q] = Data(i, phone[p].img)
    BY <1>2, <1>3, <1>5
  <2>2. air'[q].kind = "data"
    BY <2>1 DEF Data
  <2> QED
    BY <1>1, <1>3, <1>4, <1>5, <2>1, <2>2 DEF AirInv
<1>6. CASE q # p
  <2>1. air'[q] = air[q]
    BY <1>2, <1>3, <1>6
  <2> QED
    BY <1>1, <1>4, <2>1 DEF AirInv
<1> QED
  BY <1>5, <1>6

LEMMA TypeInductive == TypeOK /\ OnAir /\ [Next]_vars => TypeOK' /\ OnAir'
<1> SUFFICES ASSUME TypeOK, OnAir, [Next]_vars PROVE TypeOK' /\ OnAir'
  OBVIOUS
<1>1. UNCHANGED phones => OnAir'
  BY DEF phones, OnAir, AirInv
<1>2. CASE Node
  BY <1>1, <1>2, NodeKeepsPhones, SendTaskType, StartType, RebootType,
     LateEndType, ReceiveType DEF Node
<1>3. CASE Crash
  BY <1>1, <1>3, NodeKeepsPhones, CrashType
<1>4. CASE PhoneControl
  BY <1>4, PhoneControlType, PhoneControlAir
<1>5. ASSUME NEW p \in Phone, NEW i \in Indices, AnyData(p, i)
      PROVE  TypeOK' /\ OnAir'
  <2>1. phone[p].img \in Img
    BY <1>5 DEF OnAir, AirInv, AnyData, PhoneData
  <2> QED
    BY <1>5, <2>1, PhoneDataType, PhoneDataAir
<1>6. CASE UNCHANGED vars
  <2>1. PhoneType' /\ RamType'
    BY <1>6 DEF vars, phones, received, TypeOK, PhoneType, RamType
  <2>2. TxType' /\ FlashType' /\ BoundsType'
    BY <1>6 DEF vars, flash, bounds, TypeOK, TxType, FlashType, BoundsType
  <2> QED
    BY <1>1, <1>6, <2>1, <2>2 DEF vars, TypeOK
<1> QED
  BY <1>2, <1>3, <1>4, <1>5, <1>6 DEF Next

LEMMA InitOnAir == Init => OnAir
<1> SUFFICES ASSUME Init, NEW p \in Phone PROVE AirInv(p)
  BY DEF OnAir
<1>1. phone[p].phase = "idle" /\ air[p].kind = "quiet"
  BY DEF Init, Quiet
<1> QED
  BY <1>1 DEF AirInv

\* The state stays well formed: cells are only written inside the buffer, and
\* what is marked and handed to the OTAP library is an image or recognisably
\* spoilt, for any number of phones and images. (otap.c:135-286)
THEOREM UploadTypeCorrect == Spec => []TypeOK
<1>1. Init => TypeOK /\ OnAir
  BY InitType, InitOnAir
<1> QED
  BY <1>1, TypeInductive, PTL DEF Spec

-----------------------------------------------------------------------------
(* What has a failure behind it.  This holds for any number of phones.     *)

LEMMA Grows ==
  ASSUME TypeOK, NEW n \in Nat, Failing(n)
  PROVE  faults' \in Nat /\ faults' >= faults /\ faults' = faults + n
  BY DEF TypeOK, BoundsType, Failing

\* No cell is newly spoilt, unless by what went on.
NoNewSpoilt ==
  \A i \in 0..Cells - 1 : cells'[i] = Spoilt => cells[i] = Spoilt \/ op # Idle

LEMMA BlamedIf ==
  ASSUME TypeOK, Blamed, faults' \in Nat, faults' >= faults, NoNewSpoilt,
         op' # Idle => op # Idle \/ faults' > faults,
         UNCHANGED installed
  PROVE  Blamed'
  BY DEF TypeOK, BoundsType, Blamed, NoNewSpoilt

LEMMA EraseSpoilsNone == \A n : EraseUpTo(n) => NoNewSpoilt
  BY DEF EraseUpTo, NoNewSpoilt, Erased, Spoilt

LEMMA ProgramSpoils ==
  ASSUME NEW img \in Img, NEW old, old # Spoilt
  PROVE  Program(old, img) # Spoilt /\ Cut(old, img) # Spoilt
<1>1. img # Spoilt
  BY UploadAssumption
<1> QED
  BY <1>1 DEF Program, Cut, Mixed, Spoilt

LEMMA WriteSpoilsNone ==
  ASSUME TypeOK, NEW i, NEW img \in Img, NEW ok, NEW after, NEW failures \in Nat,
         Otap_bufferWrite(i, img, ok, after, failures)
  PROVE  /\ NoNewSpoilt
         /\ after # Idle => op # Idle \/ failures > 0
<1>1. cells \in [0..Cells - 1 -> CellValue]
  BY DEF TypeOK, FlashType
<1>2. NoNewSpoilt
  <2>1. CASE UNCHANGED cells
    BY <2>1 DEF NoNewSpoilt
  <2>2. CASE WriteCell(i, img)
    <3>1. \A k \in 0..Cells - 1 :
            cells'[k] = IF k = i THEN Program(cells[k], img) ELSE cells[k]
      BY <1>1, <2>2 DEF WriteCell
    <3> QED
      BY <3>1, ProgramSpoils DEF NoNewSpoilt
  <2> QED
    BY <2>1, <2>2 DEF Otap_bufferWrite
<1>3. after # Idle => op # Idle \/ failures > 0
  BY DEF Otap_bufferWrite, Fault
<1> QED
  BY <1>2, <1>3

LEMMA InterruptedSpoils == Interrupted \/ LateEnd => NoNewSpoilt
<1>1. op = Idle => op.kind = "idle"
  BY DEF Idle
<1> QED
  BY <1>1 DEF Interrupted, LateEnd, NoNewSpoilt

LEMMA StartBlames == ASSUME TypeOK, Blamed, Start PROVE Blamed'
<1>1. CASE Boot
  <2>1. PICK read \in BOOLEAN : Failing(Count(read))
    BY <1>1 DEF Boot
  <2>2. faults' \in Nat /\ faults' >= faults
    BY <2>1, CountNat, Grows
  <2> QED
    BY <1>1, <2>2, BlamedIf DEF Boot, flash, NoNewSpoilt
<1>2. CASE Otap_process
  <2>1. faults' \in Nat /\ faults' >= faults
    <3>1. CASE UNCHANGED faults
      BY <3>1 DEF TypeOK, BoundsType
    <3>2. ASSUME NEW n \in Nat, Failing(n)
          PROVE  faults' \in Nat /\ faults' >= faults
      BY <3>2, Grows
    <3> QED
      BY <1>2, <3>1, <3>2, CountNat DEF Otap_process
  <2>2. UNCHANGED <<op, cells>>
    BY <1>2 DEF Otap_process
  <2>3. UNCHANGED installed => Blamed'
    BY <2>1, <2>2, BlamedIf DEF NoNewSpoilt
  <2>4. ASSUME NEW read \in BOOLEAN, header \in Img, installed' = Given(read),
               Failing(Count(read))
        PROVE  Blamed'
    <3>1. installed' = Spoilt => faults' > 0
      <4>1. CASE read
        <5>1. installed' = Spoilt => Spoilt \in Blocks
          BY <2>4, <4>1, UploadAssumption DEF Given, Mixed, Spoilt
        <5>2. Spoilt \in Blocks => \E i \in 0..Cells - 1 : cells[i] = Spoilt
          BY <2>4, UploadAssumption DEF Blocks, Mixed, Spoilt
        <5> QED
          BY <2>1, <5>1, <5>2 DEF Blamed, TypeOK, BoundsType
      <4>2. CASE ~read
        BY <2>4, <4>2, Grows DEF Count, TypeOK, BoundsType
      <4> QED
        BY <4>1, <4>2
    <3> QED
      BY <2>1, <2>2, <3>1 DEF Blamed, TypeOK, BoundsType
  <2> QED
    BY <1>2, <2>3, <2>4 DEF Otap_process
<1>3. CASE ClearOtap
  <2>1. PICK kept \in BOOLEAN : Failing(Count(kept))
    BY <1>3 DEF ClearOtap
  <2>2. faults' \in Nat /\ faults' >= faults
    BY <2>1, CountNat, Grows
  <2> QED
    BY <1>3, <2>2, BlamedIf DEF ClearOtap, Restarted, NoNewSpoilt
<1> QED
  BY <1>1, <1>2, <1>3 DEF Start

LEMMA CrashBlames ==
  ASSUME TypeOK, Blamed, Reboot \/ Crash
  PROVE  Blamed'
<1>1. op' = Idle /\ UNCHANGED installed
  BY DEF Reboot, Crash, ButtonPress, PowerLossIdle, PowerLossInStore,
     PowerLossInErase, PowerLossInWrite, PowerLossInCommit, PowerLoss, Restarted
<1>2. faults' \in Nat /\ faults' >= faults
  <2>1. CASE ButtonPress
    BY <2>1, CountNat, Grows DEF ButtonPress
  <2>2. CASE UNCHANGED faults
    BY <2>2 DEF TypeOK, BoundsType
  <2> QED
    BY <2>1, <2>2 DEF Reboot, Crash, PowerLossIdle, PowerLossInStore, bounds,
       PowerLossInErase, PowerLossInWrite, PowerLossInCommit, PowerLoss
<1>3. NoNewSpoilt
  <2>1. CASE Interrupted
    BY <2>1, InterruptedSpoils
  <2>2. ASSUME NEW p \in Phone, PowerLossInErase(p) PROVE NoNewSpoilt
    BY <2>2, EraseSpoilsNone DEF PowerLossInErase
  <2>3. ASSUME NEW p \in Phone, PowerLossInWrite(p) PROVE NoNewSpoilt
    <3>1. InSession(air[p])
            /\ cells' = [cells EXCEPT ![Index(air[p])] = Cut(@, air[p].img)]
      BY <2>3 DEF PowerLossInWrite
    <3>2. cells \in [0..Cells - 1 -> CellValue] /\ air[p].img \in Img
      BY <3>1, InSessionFields DEF TypeOK, FlashType
    <3>3. \A k \in 0..Cells - 1 :
            cells'[k] = IF k = Index(air[p]) THEN Cut(cells[k], air[p].img)
                                             ELSE cells[k]
      BY <3>1, <3>2
    <3> QED
      BY <3>2, <3>3, ProgramSpoils DEF NoNewSpoilt
  <2>4. ASSUME NEW p \in Phone, PowerLossInCommit(p) PROVE NoNewSpoilt
    <3>1. InSession(air[p])
            /\ Otap_bufferWrite(Index(air[p]), air[p].img, TRUE, Idle, 0)
      BY <2>4 DEF PowerLossInCommit
    <3> QED
      BY <3>1, InSessionFields, WriteSpoilsNone
  <2> QED
    BY <2>1, <2>2, <2>3, <2>4 DEF Reboot, Crash, ButtonPress, PowerLossIdle,
       PowerLossInStore
<1> QED
  BY <1>1, <1>2, <1>3, BlamedIf

LEMMA ReceiveBlames ==
  ASSUME TypeOK, Blamed, NEW p \in Phone, Receive(p)
  PROVE  Blamed'
<1>1. CASE ReceiveDuplicate(p) \/ ReceiveOutOfSession(p) \/ ReceiveScan(p)
  BY <1>1 DEF ReceiveDuplicate, ReceiveOutOfSession, ReceiveScan, flash, bounds,
     Blamed
<1>2. CASE ReceiveBegin(p)
  <2>1. UNCHANGED installed
    BY <1>2 DEF ReceiveBegin
  <2>2. PICK ok \in BOOLEAN : Otap_bufferBegin(ok)
    BY <1>2 DEF ReceiveBegin
  <2>3. CASE ok
    BY <2>1, <2>2, <2>3, EraseSpoilsNone, BlamedIf
       DEF Otap_bufferBegin, TypeOK, BoundsType
  <2>4. CASE ~ok
    <3>1. op' \in GoesOn(op, Erasing) /\ Failing(Fault(op)) /\ UNCHANGED cells
      BY <2>2, <2>4 DEF Otap_bufferBegin
    <3>2. /\ faults' \in Nat /\ faults' >= faults
          /\ op' # Idle => op # Idle \/ faults' > faults
      BY <3>1, CountNat, Grows DEF GoesOn, Fault, TypeOK, BoundsType
    <3> QED
      BY <2>1, <3>1, <3>2, BlamedIf DEF NoNewSpoilt
  <2> QED
    BY <2>3, <2>4
<1>3. CASE ReceiveData(p) \/ ReceiveDataAskResend(p)
  <2>1. UNCHANGED installed /\ InSession(air[p])
    BY <1>3 DEF ReceiveData, ReceiveDataAskResend
  <2>2. PICK ok \in BOOLEAN, failures \in 0..1 :
          /\ Otap_bufferWrite(Index(air[p]), air[p].img, ok, op', failures)
          /\ Failing(failures)
    BY <1>3 DEF ReceiveData, ReceiveDataAskResend
  <2>3. NoNewSpoilt /\ (op' # Idle => op # Idle \/ failures > 0)
    BY <2>1, <2>2, InSessionFields, WriteSpoilsNone
  <2>4. faults' \in Nat /\ faults' = faults + failures /\ faults \in Nat
    BY <2>2, Grows DEF TypeOK, BoundsType
  <2> QED
    BY <2>1, <2>3, <2>4, BlamedIf
<1>4. CASE ReceiveDataCommit(p)
  <2>1. UNCHANGED installed /\ InSession(air[p])
    BY <1>4 DEF ReceiveDataCommit
  <2>2. PICK ok, marked, kept \in BOOLEAN, failed, missed \in 0..1,
             after \in {Idle, op, Writing(Index(air[p]), air[p].img)} :
          /\ Otap_bufferWrite(Index(air[p]), air[p].img, ok, after, failed)
          /\ Otap_bufferEnd(session.img, after, marked, missed)
          /\ Failing(failed + missed + Count(kept))
    BY <1>4 DEF ReceiveDataCommit
  <2>3. NoNewSpoilt /\ (after # Idle => op # Idle \/ failed > 0)
    BY <2>1, <2>2, InSessionFields, WriteSpoilsNone
  <2>4. op' # Idle => after # Idle \/ missed > 0
    BY <2>2 DEF Otap_bufferEnd, Fault
  <2>5. /\ faults' \in Nat /\ faults \in Nat /\ Count(kept) \in Nat
        /\ faults' = faults + (failed + missed + Count(kept))
    BY <2>2, CountNat, Grows DEF TypeOK, BoundsType
  <2> QED
    BY <2>1, <2>3, <2>4, <2>5, BlamedIf
<1> QED
  BY <1>1, <1>2, <1>3, <1>4 DEF Receive

LEMMA BlamedInductive == TypeOK /\ Blamed /\ [Next]_vars => Blamed'
<1> SUFFICES ASSUME TypeOK, Blamed, [Next]_vars PROVE Blamed'
  OBVIOUS
<1>1. CASE LateEnd
  BY <1>1, InterruptedSpoils, BlamedIf
     DEF LateEnd, bounds, TypeOK, BoundsType
<1>2. CASE SendTask \/ PhoneControl \/ UNCHANGED vars
             \/ \E p \in Phone, i \in Indices : AnyData(p, i)
  BY <1>2 DEF SendTask, PhoneControl, AnyData, NodeUnchanged, vars, flash,
     bounds, Blamed
<1> QED
  BY <1>1, <1>2, StartBlames, CrashBlames, ReceiveBlames DEF Next, Node

-----------------------------------------------------------------------------
(* The buffer.                                                             *)

\* No answer to an upload request is added.
NoNewAnswer ==
  \A k : InFlight(BeginRsp(k, TRUE))' => InFlight(BeginRsp(k, TRUE))

Untouched == UNCHANGED <<session, header, cells, op>>

LEMMA HoldsMeans ==
  ASSUME NEW i \in Nat, NEW img, Holds(i, img)
  PROVE  i \in 0..Cells - 1 /\ cells[i] \in {img, Spoilt}
  BY UploadAssumption DEF Holds

LEMMA HoldsIf ==
  ASSUME Blamed', NEW i \in 0..Cells - 1, NEW img, cells'[i] \in {img, Spoilt}
  PROVE  Holds(i, img)'
  BY UploadAssumption DEF Blamed, Holds

LEMMA StillHolds ==
  ASSUME Blamed', NEW i \in Nat, NEW img, Holds(i, img), UNCHANGED cells
  PROVE  Holds(i, img)'
  BY HoldsMeans, HoldsIf

LEMMA ProgramValues ==
  ASSUME NEW img \in Img, NEW old \in {Erased, img, Spoilt}
  PROVE  /\ old # Spoilt => Program(old, img) = img
         /\ old = Spoilt => Program(old, img) = Spoilt
         /\ old = Erased => Cut(old, img) = Mixed
         /\ old # Erased => Cut(old, img) = old
         /\ Late(old, img) \subseteq {img, Spoilt}
  BY UploadAssumption DEF Program, Cut, Late, Erased, Spoilt

LEMMA HeaderValues ==
  ASSUME NEW img \in Img, NEW old \in {Erased, img}
  PROVE  Program(old, img) = img /\ Cut(old, img) \in {Mixed, img}
  BY UploadAssumption DEF Program, Cut, Erased, Spoilt

LEMMA ImageStays ==
  ASSUME TypeOK, ImageIntegrity, Blamed', UNCHANGED <<header, cells>>
  PROVE  ImageIntegrity'
<1> SUFFICES ASSUME header \in Img, NEW i \in 0..Total[header] - 1
             PROVE  Holds(i, header)'
  BY DEF ImageIntegrity
<1>1. i \in Nat /\ Holds(i, header)
  BY UploadAssumption DEF ImageIntegrity
<1>2. ASSUME NEW img, img = header, Holds(i, img) PROVE Holds(i, img)'
  BY <1>1, <1>2, StillHolds
<1> QED
  BY <1>1, <1>2 DEF Holds

LEMMA FlagsStay ==
  ASSUME TypeOK, FlagsHonest, Blamed', UNCHANGED <<session, cells>>
  PROVE  FlagsHonest'
<1> SUFFICES ASSUME NEW i \in session.received PROVE Holds(i, session.img)'
  BY DEF FlagsHonest
<1>1. i \in Nat /\ Holds(i, session.img)
  BY DEF FlagsHonest, TypeOK, RamType
<1>2. ASSUME NEW img, img = session.img, Holds(i, img) PROVE Holds(i, img)'
  BY <1>1, <1>2, StillHolds
<1> QED
  BY <1>1, <1>2 DEF Holds

\* What goes on keeps finding the buffer as it was.
LEMMA OpStays ==
  ASSUME TypeOK, OpInv, Blamed', UNCHANGED <<header, cells, op>>,
         UNCHANGED session \/ session'.received = {}
  PROVE  OpInv'
<1>1. op.kind = "mark" => \A i \in 0..Total[op.img] - 1 : Holds(i, op.img)'
  <2> SUFFICES ASSUME op.kind = "mark", NEW i \in 0..Total[op.img] - 1
               PROVE  Holds(i, op.img)'
    OBVIOUS
  <2>1. op.img \in Img
    BY OperationFields DEF TypeOK, FlashType
  <2>2. i \in Nat /\ Holds(i, op.img)
    BY <2>1, UploadAssumption DEF OpInv
  <2>3. ASSUME NEW img, img = op.img, Holds(i, img) PROVE Holds(i, img)'
    BY <2>2, <2>3, StillHolds
  <2> QED
    BY <2>2, <2>3 DEF Holds
<1>2. op.kind \in {"write", "mark"} => Fresh(op.img)'
  BY DEF OpInv, Fresh
<1> QED
  BY <1>1, <1>2 DEF OpInv

\* Steps that touch neither the phones nor the buffer and its session.
LEMMA QuietStep ==
  ASSUME IInv, Blamed', UNCHANGED phones, Untouched, NoNewAnswer
  PROVE  PhoneInv' /\ OpInv' /\ FlagsHonest' /\ ImageIntegrity'
<1>1. OpInv' /\ FlagsHonest' /\ ImageIntegrity'
  BY ImageStays, FlagsStay, OpStays DEF IInv, Untouched
<1>2. ASSUME NEW p \in Phone PROVE AnswerInv(p)' /\ SendingInv(p)'
  <2>1. AnswerInv(p) /\ SendingInv(p)
    BY DEF IInv, PhoneInv
  <2>2. AnswerInv(p)'
    BY <2>1 DEF phones, Untouched, NoNewAnswer, AnswerInv, Ready
  <2>3. SendingInv(p)'
    BY <2>1 DEF phones, Untouched, SendingInv, Fresh
  <2> QED
    BY <2>2, <2>3
<1> QED
  BY <1>1, <1>2 DEF PhoneInv

\* A reset ends the session and what went on, and takes back every answer.
LEMMA ResetStep ==
  ASSUME IInv, Restarted
  PROVE  PhoneInv' /\ OpInv' /\ FlagsHonest'
<1>1. FlagsHonest' /\ OpInv'
  BY DEF Restarted, NoSession, FlagsHonest, OpInv, Idle
<1>2. ASSUME NEW p \in Phone PROVE AnswerInv(p)' /\ SendingInv(p)'
  <2>1. \A k : ~InFlight(BeginRsp(k, TRUE))'
    <3> TAKE k
    <3>1. beacon'.cmd # BeginRsp(k, TRUE)
      BY OtherAnswers DEF Restarted, TX!Silent
    <3>2. 1..Len(backlog') = {}
      BY DEF Restarted
    <3> QED
      BY <3>1, <3>2 DEF InFlight
  <2>2. session'.img = None
    BY DEF Restarted, NoSession
  <2> QED
    BY <2>1, <2>2 DEF AnswerInv, SendingInv
<1> QED
  BY <1>1, <1>2 DEF PhoneInv

\* Only a start-up hands an image over.
LEMMA InstalledStays ==
  ASSUME IInv, Blamed', UNCHANGED installed
  PROVE  NeverGarbage'
  BY DEF IInv, Blamed, NeverGarbage

LEMMA SendTaskStep == ASSUME IInv, Blamed', SendTask PROVE IInv'
<1>1. backlog \in Seq(TX!Entry)
  BY DEF IInv, TypeOK, TxType
<1>2. NoNewAnswer
  <2>1. CASE TX!Advance
    <3>1. backlog # <<>> /\ beacon' = Head(backlog) /\ backlog' = Tail(backlog)
      BY <2>1 DEF TX!Advance
    <3>2. beacon' = backlog[1] /\ 1 \in 1..Len(backlog)
      BY <1>1, <3>1
    <3>3. \A i \in 1..Len(backlog') :
            i + 1 \in 1..Len(backlog) /\ backlog'[i] = backlog[i + 1]
      BY <1>1, <3>1
    <3> QED
      BY <3>2, <3>3 DEF NoNewAnswer, InFlight
  <2>2. CASE TX!SwitchOff
    <3>1. beacon'.cmd = Off /\ backlog' = backlog
      BY <2>2 DEF TX!SwitchOff, TX!Silent
    <3> QED
      BY <3>1, OtherAnswers DEF NoNewAnswer, InFlight
  <2> QED
    BY <2>1, <2>2 DEF SendTask
<1>3. UNCHANGED phones /\ Untouched /\ UNCHANGED installed
  BY DEF SendTask, flash, Untouched
<1>4. TypeOK' /\ OnAir'
  BY <1>3, SendTaskType DEF IInv, OnAir, AirInv, phones
<1> QED
  BY <1>2, <1>3, <1>4, QuietStep, InstalledStays DEF IInv

\* What the library is given of a whole buffer: the image, or a spoilt one.
LEMMA WholeGiven ==
  ASSUME IInv, header \in Img, NEW read \in BOOLEAN
  PROVE  Given(read) \in {header, Spoilt}
<1>1. Blocks \subseteq {header, Spoilt}
  <2> SUFFICES ASSUME NEW i \in 0..Total[header] - 1
               PROVE  i < Cells /\ cells[i] \in {header, Spoilt}
    BY DEF Blocks
  <2> QED
    BY DEF IInv, ImageIntegrity, Holds
<1>2. Blocks # {}
  <2>1. 0 \in 0..Total[header] - 1
    BY UploadAssumption
  <2> QED
    BY <2>1 DEF Blocks
<1>3. Blocks = {header} \/ Spoilt \in Blocks
  BY <1>1, <1>2
<1> QED
  BY <1>1, <1>3 DEF Given

LEMMA StartStep == ASSUME IInv, Blamed', Start PROVE IInv'
<1>1. UNCHANGED phones /\ TypeOK' /\ OnAir'
  BY StartType, NodeKeepsPhones DEF IInv, Node, phones, OnAir, AirInv
<1>2. CASE Boot \/ Otap_process
  <2>1. Untouched /\ NoNewAnswer
    BY <1>2 DEF Boot, Otap_process, flash, Untouched, NoNewAnswer, InFlight
  <2>2. NeverGarbage'
    <3>1. CASE UNCHANGED installed
      BY <3>1, InstalledStays
    <3>2. ASSUME NEW read \in BOOLEAN, header \in Img, installed' = Given(read)
          PROVE  NeverGarbage'
      <4>1. installed' # Mixed
        BY <3>2, WholeGiven, UploadAssumption DEF Mixed, Spoilt
      <4> QED
        BY <4>1 DEF Blamed, NeverGarbage
    <3> QED
      BY <1>2, <3>1, <3>2 DEF Boot, Otap_process, flash
  <2> QED
    BY <1>1, <2>1, <2>2, QuietStep DEF IInv
<1>3. CASE ClearOtap
  <2>1. Restarted /\ UNCHANGED <<header, cells, installed>>
    BY <1>3 DEF ClearOtap
  <2> QED
    BY <1>1, <2>1, ResetStep, ImageStays, InstalledStays DEF IInv
<1> QED
  BY <1>2, <1>3 DEF Start

\* A write that went on over a package of the image leaves that or spoils it.
LEMMA GoneOn ==
  ASSUME IInv, ImagesFit, Blamed', op.kind = "write", NEW img, img = op.img,
         NEW new \in {Cut(cells[op.index], img)} \cup Late(cells[op.index], img),
         cells' = [cells EXCEPT ![op.index] = new]
  PROVE  /\ img \in Img
         /\ \A i \in 0..Total[img] - 1 : Holds(i, img) => Holds(i, img)'
         /\ new \in Late(cells[op.index], img) =>
              \A i \in 0..Total[img] - 1 : cells'[i] \in {Erased, img, Spoilt}
<1>1. img \in Img
  BY OperationFields DEF IInv, TypeOK, FlashType
<1>2. cells \in [0..Cells - 1 -> CellValue] /\ op.index \in 0..Cells - 1
  BY OperationFields DEF IInv, TypeOK, FlashType
<1>3. \A i \in 0..Total[img] - 1 :
        i \in 0..Cells - 1 /\ cells[i] \in {Erased, img, Spoilt}
  BY <1>1, FitsCells DEF IInv, OpInv, Fresh
<1>4. \A i \in 0..Cells - 1 : cells'[i] = IF i = op.index THEN new ELSE cells[i]
  BY <1>2
<1>5. cells[op.index] \in {Erased, img, Spoilt}
  BY <1>1, <1>3 DEF IInv, OpInv
<1>6. /\ cells[op.index] \in {img, Spoilt} => new \in {img, Spoilt}
      /\ new \in Late(cells[op.index], img) => new \in {img, Spoilt}
  BY <1>1, <1>5, ProgramValues, UploadAssumption DEF Erased, Spoilt
<1>7. ASSUME NEW i \in 0..Total[img] - 1, Holds(i, img)
      PROVE  Holds(i, img)'
  <2>1. cells'[i] \in {img, Spoilt}
    BY <1>3, <1>4, <1>6, <1>7, HoldsMeans
  <2> QED
    BY <1>3, <2>1, HoldsIf
<1>8. new \in Late(cells[op.index], img) =>
        \A i \in 0..Total[img] - 1 : cells'[i] \in {Erased, img, Spoilt}
  BY <1>3, <1>4, <1>6
<1> QED
  BY <1>1, <1>7, <1>8

\* So does what a reset cuts short.
LEMMA InterruptedKeeps ==
  ASSUME IInv, ImagesFit, Blamed', Interrupted
  PROVE  ImageIntegrity'
<1> SUFFICES ASSUME header' \in Img, NEW img, img = header'
             PROVE  \A i \in 0..Total[img] - 1 : Holds(i, img)'
  BY DEF ImageIntegrity, Holds
<1>1. Erased \notin Img /\ Mixed \notin Img
  BY UploadAssumption
<1>2. CASE UNCHANGED <<header, cells>>
  <2>1. \A i \in 0..Total[img] - 1 : i \in Nat /\ Holds(i, img)
    BY <1>2, UploadAssumption DEF IInv, ImageIntegrity
  <2> QED
    BY <1>2, <2>1, StillHolds
<1>3. CASE op.kind = "erase" /\ \E n \in 0..ErasedCells : EraseUpTo(n)
  BY <1>1, <1>3 DEF EraseUpTo
<1>4. CASE /\ op.kind = "write" /\ UNCHANGED header
           /\ \E new \in {Cut(cells[op.index], op.img)}
                           \cup Late(cells[op.index], op.img) :
                cells' = [cells EXCEPT ![op.index] = new]
  <2>1. img = op.img
    BY <1>1, <1>4 DEF IInv, OpInv, Fresh
  <2>2. \A i \in 0..Total[img] - 1 : Holds(i, img)
    BY <1>4 DEF IInv, ImageIntegrity
  <2> QED
    BY <1>4, <2>1, <2>2, GoneOn
<1>5. CASE /\ op.kind = "mark" /\ UNCHANGED cells
           /\ header' \in {Cut(header, op.img), Program(header, op.img)}
  <2>1. op.img \in Img /\ header \in {Erased, op.img}
    BY <1>5, OperationFields DEF IInv, TypeOK, FlashType, OpInv, Fresh
  <2>2. header' \in {Mixed, op.img}
    <3>1. Program(header, op.img) = op.img
      BY <2>1, HeaderValues
    <3>2. Cut(header, op.img) \in {Mixed, op.img}
      BY <2>1, HeaderValues
    <3> QED
      BY <1>5, <3>1, <3>2
  <2>3. img = op.img
    BY <1>1, <2>2
  <2>4. \A i \in 0..Total[img] - 1 : i \in Nat /\ Holds(i, img)
    BY <1>5, <2>1, <2>3, UploadAssumption DEF IInv, OpInv
  <2> QED
    BY <1>5, <2>4, StillHolds
<1> QED
  BY <1>2, <1>3, <1>4, <1>5 DEF Interrupted

LEMMA RebootStep == ASSUME IInv, ImagesFit, Blamed', Reboot PROVE IInv'
<1>1. UNCHANGED phones /\ TypeOK' /\ OnAir'
  BY RebootType, NodeKeepsPhones DEF IInv, Node, phones, OnAir, AirInv
<1>2. Restarted /\ Interrupted /\ UNCHANGED installed
  BY DEF Reboot
<1> QED
  BY <1>1, <1>2, ResetStep, InterruptedKeeps, InstalledStays DEF IInv

\* The late end of an erase, of a write and of a mark.
LEMMA LateEndStep == ASSUME IInv, ImagesFit, Blamed', LateEnd PROVE IInv'
<1>1. /\ UNCHANGED <<phone, air, session, backlog, beacon, installed>>
      /\ op' = Idle
  BY DEF LateEnd, phones
<1>2. TypeOK' /\ OnAir'
  BY <1>1, LateEndType DEF IInv, OnAir, AirInv
<1>3. NeverGarbage' /\ OpInv'
  BY <1>1, InstalledStays DEF OpInv, Idle
<1>4. \A k : InFlight(BeginRsp(k, TRUE))' <=> InFlight(BeginRsp(k, TRUE))
  BY <1>1 DEF InFlight
<1>5. Erased \notin Img
  BY UploadAssumption
<1>6. CASE op.kind = "erase" /\ EraseUpTo(ErasedCells)
  <2>1. header' = Erased
          /\ \A i \in 0..Cells - 1 :
               cells'[i] = IF i < ErasedCells THEN Erased ELSE cells[i]
    BY <1>6 DEF EraseUpTo
  <2>2. FlagsHonest' /\ ImageIntegrity'
    BY <1>1, <1>5, <1>6, <2>1 DEF IInv, OpInv, FlagsHonest, ImageIntegrity
  <2>3. ASSUME NEW p \in Phone PROVE AnswerInv(p)' /\ SendingInv(p)'
    <3>1. AnswerInv(p) /\ SendingInv(p) /\ AirInv(p)
      BY DEF IInv, PhoneInv, OnAir
    <3>2. Ready(p) => Ready(p)'
      <4>1. \A i \in 0..ErasedCells - 1 : i \in 0..Cells - 1
        BY UploadAssumption
      <4> QED
        BY <1>1, <2>1, <4>1, UploadAssumption DEF Ready, Idle
    <3>3. AnswerInv(p)'
      BY <1>1, <1>4, <3>1, <3>2 DEF AnswerInv
    <3>4. phone[p].img \in Img /\ Fresh(phone[p].img) => Fresh(phone[p].img)'
      BY <1>1, <2>1, FitsCells DEF Fresh
    <3>5. SendingInv(p)'
      BY <1>1, <3>1, <3>4 DEF SendingInv, Idle, AirInv
    <3> QED
      BY <3>3, <3>5
  <2> QED
    BY <1>2, <1>3, <2>2, <2>3 DEF IInv, PhoneInv
<1>7. CASE op.kind \in {"write", "mark"}
  <2>1. PICK img : img = op.img
    OBVIOUS
  <2>2. /\ img \in Img /\ Fresh(img)
        /\ session.img # img => session.received = {}
    BY <1>7, <2>1, OperationFields DEF IInv, TypeOK, FlashType, OpInv
  <2>3. /\ header' \in {Erased, img}
        /\ header' = img => \A i \in 0..Total[img] - 1 : Holds(i, img)'
        /\ \A i \in Nat : Holds(i, img) => Holds(i, img)'
        /\ \A i \in 0..Total[img] - 1 : cells'[i] \in {Erased, img, Spoilt}
    <3>1. CASE op.kind = "write"
      <4>1. PICK new \in Late(cells[op.index], img) :
              cells' = [cells EXCEPT ![op.index] = new]
        BY <2>1, <3>1 DEF LateEnd
      <4>2. /\ \A i \in 0..Total[img] - 1 : Holds(i, img) => Holds(i, img)'
            /\ \A i \in 0..Total[img] - 1 : cells'[i] \in {Erased, img, Spoilt}
        BY <2>1, <3>1, <4>1, GoneOn
      <4>3. header' = header
        BY <3>1 DEF LateEnd
      <4>4. \A i \in Nat : Holds(i, img) => Holds(i, img)'
        <5> SUFFICES ASSUME NEW i \in Nat, Holds(i, img) PROVE Holds(i, img)'
          OBVIOUS
        <5>1. i \in 0..Cells - 1 /\ cells[i] \in {img, Spoilt}
          BY HoldsMeans
        <5>2. CASE i = op.index
          BY <3>1, <4>2, <5>2, <2>1 DEF IInv, OpInv
        <5>3. CASE i # op.index
          <6>1. cells'[i] = cells[i]
            BY <4>1, <5>1, <5>3 DEF IInv, TypeOK, FlashType
          <6> QED
            BY <5>1, <6>1, HoldsIf
        <5> QED
          BY <5>2, <5>3
      <4>5. header' = img => \A i \in 0..Total[img] - 1 : Holds(i, img)
        BY <2>2, <4>3 DEF IInv, ImageIntegrity
      <4> QED
        BY <2>2, <4>2, <4>3, <4>4, <4>5 DEF Fresh
    <3>2. CASE op.kind = "mark"
      <4>1. header' = Program(header, img) /\ UNCHANGED cells
        BY <2>1, <3>2 DEF LateEnd
      <4>2. header' = img
        BY <2>2, <4>1, HeaderValues DEF Fresh
      <4>3. \A i \in Nat : Holds(i, img) => Holds(i, img)'
        BY <4>1, StillHolds
      <4>4. \A i \in 0..Total[img] - 1 : i \in Nat /\ Holds(i, img)
        BY <2>1, <2>2, <3>2, UploadAssumption DEF IInv, OpInv
      <4> QED
        BY <2>2, <4>1, <4>2, <4>3, <4>4 DEF Fresh
    <3> QED
      BY <1>7, <3>1, <3>2
  <2>4. ImageIntegrity'
    BY <1>5, <2>3 DEF ImageIntegrity, Holds
  <2>5. FlagsHonest'
    <3> SUFFICES ASSUME NEW i \in session.received PROVE Holds(i, session.img)'
      BY <1>1 DEF FlagsHonest, Holds
    <3>1. session.img = img /\ i \in Nat /\ Holds(i, img)
      BY <2>2 DEF IInv, FlagsHonest, TypeOK, RamType
    <3> QED
      BY <1>1, <2>3, <3>1 DEF Holds
  <2>6. ASSUME NEW p \in Phone PROVE AnswerInv(p)' /\ SendingInv(p)'
    <3>1. AnswerInv(p) /\ SendingInv(p)
      BY DEF IInv, PhoneInv
    <3>2. ~Ready(p)
      BY <1>7 DEF Ready
    <3>3. AnswerInv(p)'
      BY <1>1, <1>4, <3>1, <3>2 DEF AnswerInv
    <3>4. SendingInv(p)'
      BY <1>1, <1>7, <2>1, <2>3, <3>1 DEF SendingInv, Fresh, Idle
    <3> QED
      BY <3>3, <3>4
  <2> QED
    BY <1>2, <1>3, <2>4, <2>5, <2>6 DEF IInv, PhoneInv
<1> QED
  BY <1>6, <1>7 DEF LateEnd

\* A package that reaches its session is the phone's, and so is the session.
LEMMA SendersOwn ==
  ASSUME IInv, ImagesFit, NEW p \in Phone, InSession(air[p])
  PROVE  /\ phone[p].phase = "sending"
         /\ session.img \in Img
         /\ session.img = phone[p].img /\ air[p].img = session.img
         /\ Fresh(session.img)
         /\ op.kind \in {"write", "mark"} => op.img = session.img
         /\ Index(air[p]) \in 0..Total[session.img] - 1
         /\ Index(air[p]) \in 0..Cells - 1
<1>1. AirInv(p) /\ SendingInv(p) /\ TypeOK
  BY DEF IInv, OnAir, PhoneInv
<1>2. session.img \in Img /\ Index(air[p]) \in 0..Total[session.img] - 1
  BY <1>1, InSessionFields
<1>3. session.img # None /\ air[p].kind = "data"
  BY DEF InSession
<1>4. phone[p].phase = "sending" /\ air[p].img = phone[p].img
  <2>1. phone[p].phase = "sending" /\ \E i : air[p] = Data(i, phone[p].img)
    BY <1>1, <1>3 DEF AirInv
  <2>2. \A i : Data(i, phone[p].img).img = phone[p].img
    BY DEF Data
  <2> QED
    BY <2>1, <2>2
<1>5. /\ session.img = phone[p].img /\ Fresh(phone[p].img)
      /\ op.kind \in {"write", "mark"} => op.img = session.img
  BY <1>1, <1>3, <1>4 DEF SendingInv
<1> QED
  BY <1>2, <1>4, <1>5, FitsCells

\* What a write leaves in the cells of the image, and what goes on after it.
LEMMA WriteStep ==
  ASSUME IInv, ImagesFit, Blamed', NEW p \in Phone, InSession(air[p]),
         NEW ok \in BOOLEAN, NEW after, NEW failures,
         Otap_bufferWrite(Index(air[p]), air[p].img, ok, after, failures),
         NEW img, img = session.img
  PROVE  /\ \A i \in 0..Total[img] - 1 : cells'[i] \in {Erased, img, Spoilt}
         /\ \A i \in 0..Total[img] - 1 : Holds(i, img) => Holds(i, img)'
         /\ \A i \in Flagged(air[p], ok) : Holds(i, img)'
         /\ after \in {Idle, op, Writing(Index(air[p]), img)}
         /\ ok => op = Idle
<1> DEFINE n == Index(air[p])
<1>1. /\ img \in Img /\ air[p].img = img /\ Fresh(img)
      /\ n \in 0..Total[img] - 1 /\ n \in 0..Cells - 1
  BY SendersOwn
<1>2. cells \in [0..Cells - 1 -> CellValue]
  BY DEF IInv, TypeOK, FlashType
<1>3. \A i \in 0..Total[img] - 1 : i \in 0..Cells - 1
  BY <1>1, FitsCells
<1>4. \A i \in session.received : Holds(i, img) /\ i \in Nat
  BY DEF IInv, FlagsHonest, TypeOK, RamType
<1>5. after \in {Idle, op, Writing(n, img)} /\ (ok => op = Idle)
  BY <1>1 DEF Otap_bufferWrite, GoesOn
<1>6. CASE WriteCell(n, img)
  <2>1. cells[n] \in {Erased, img, Spoilt}
    BY <1>1 DEF Fresh
  <2>2. Program(cells[n], img) \in {img, Spoilt}
    BY <1>1, <2>1, ProgramValues
  <2>3. \A i \in 0..Cells - 1 :
          cells'[i] = IF i = n THEN Program(cells[n], img) ELSE cells[i]
    BY <1>2, <1>6 DEF WriteCell
  <2>4. \A i \in 0..Total[img] - 1 : cells'[i] \in {Erased, img, Spoilt}
    BY <1>1, <1>3, <2>2, <2>3 DEF Fresh
  <2>5. ASSUME NEW i \in Nat, Holds(i, img) \/ i = n PROVE Holds(i, img)'
    <3>1. i \in 0..Cells - 1 /\ (i = n \/ cells[i] \in {img, Spoilt})
      BY <1>1, <2>5, HoldsMeans
    <3>2. cells'[i] \in {img, Spoilt}
      BY <2>2, <2>3, <3>1
    <3> QED
      BY <3>1, <3>2, HoldsIf
  <2>6. \A i \in Flagged(air[p], ok) : i \in Nat /\ (Holds(i, img) \/ i = n)
    BY <1>1, <1>4 DEF Flagged
  <2>7. \A i \in 0..Total[img] - 1 : i \in Nat
    BY <1>1, UploadAssumption
  <2> QED
    BY <1>5, <2>4, <2>5, <2>6, <2>7
<1>7. CASE ~ok /\ UNCHANGED cells
  <2>1. \A i \in 0..Total[img] - 1 : cells'[i] \in {Erased, img, Spoilt}
    BY <1>1, <1>7 DEF Fresh
  <2>2. \A i \in Nat : Holds(i, img) => Holds(i, img)'
    BY <1>7, StillHolds
  <2>3. \A i \in Flagged(air[p], ok) : i \in Nat /\ Holds(i, img)
    BY <1>4, <1>7 DEF Flagged
  <2>4. \A i \in 0..Total[img] - 1 : i \in Nat
    BY <1>1, UploadAssumption
  <2> QED
    BY <1>5, <2>1, <2>2, <2>3, <2>4
<1> QED
  BY <1>1, <1>6, <1>7 DEF Otap_bufferWrite

\* A package written, flagged and perhaps followed by the mark of the buffer.
LEMMA DataStep ==
  ASSUME IInv, OnePhone, ImagesFit, Blamed', NEW p \in Phone, InSession(air[p]),
         NEW ok \in BOOLEAN, NEW marked \in BOOLEAN, NEW after,
         NEW failed, NEW missed,
         Otap_bufferWrite(Index(air[p]), air[p].img, ok, after, failed),
         UNCHANGED phones, NoNewAnswer,
         session' = [session EXCEPT !.received = Flagged(air[p], ok)],
         \/ header' = header /\ op' = after
         \/ /\ Missing(Flagged(air[p], ok)) = {}
            /\ Otap_bufferEnd(session.img, after, marked, missed)
  PROVE  PhoneInv' /\ OpInv' /\ FlagsHonest' /\ ImageIntegrity'
<1> DEFINE got == Flagged(air[p], ok)
           n == Index(air[p])
<1> PICK img : img = session.img
  OBVIOUS
<1>1. /\ phone[p].phase = "sending" /\ img \in Img /\ img = phone[p].img
      /\ Fresh(img)
      /\ op.kind \in {"write", "mark"} => op.img = img
      /\ n \in 0..Total[img] - 1
  BY SendersOwn
<1>2. session'.img = img /\ session'.received = got
  BY DEF IInv, TypeOK, RamType
<1>3. /\ \A i \in 0..Total[img] - 1 : cells'[i] \in {Erased, img, Spoilt}
      /\ \A i \in 0..Total[img] - 1 : Holds(i, img) => Holds(i, img)'
      /\ \A i \in got : Holds(i, img)'
      /\ after \in {Idle, op, Writing(n, img)}
      /\ ok => op = Idle
  BY WriteStep
<1>4. header \in {Erased, img} /\ header' \in {Erased, img}
  <2>1. header \in {Erased, img}
    BY <1>1 DEF Fresh
  <2>2. Program(header, img) = img
    BY <1>1, <2>1, HeaderValues
  <2> QED
    BY <2>1, <2>2 DEF Otap_bufferEnd
<1>5. FlagsHonest'
  BY <1>2, <1>3 DEF FlagsHonest, Holds
<1>6. Missing(got) = {} => \A i \in 0..Total[img] - 1 : Holds(i, img)'
  BY <1>3 DEF Missing
<1>7. ImageIntegrity'
  <2> SUFFICES ASSUME header' \in Img
               PROVE  \A i \in 0..Total[img] - 1 : Holds(i, img)'
    BY <1>4, UploadAssumption DEF ImageIntegrity, Holds
  <2>1. CASE header' = header
    <3>1. header = img
      BY <1>4, <2>1, UploadAssumption
    <3>2. \A i \in 0..Total[img] - 1 : Holds(i, img)
      BY <1>1, <3>1 DEF IInv, ImageIntegrity
    <3> QED
      BY <1>3, <3>2
  <2> QED
    BY <1>6, <2>1
<1>8. Fresh(img)'
  BY <1>3, <1>4 DEF Fresh
<1>9. \/ op' = Idle
      \/ op' = op /\ ~ok
      \/ op' = Writing(n, img)
      \/ op' = Marking(img) /\ Missing(got) = {}
  BY <1>3 DEF Otap_bufferEnd, GoesOn
<1>10. OpInv' /\ (op'.kind \in {"write", "mark"} => op'.img = img)
  <2>1. CASE op' = Idle
    BY <2>1 DEF OpInv, Idle
  <2>2. CASE op' = op /\ ~ok
    <3>1. op.kind = "erase" => session'.received = {}
      BY <1>2, <2>2 DEF IInv, OpInv, Flagged
    <3>2. op.kind \in {"write", "mark"} => op'.img = img
      BY <1>1, <2>2
    <3>3. op.kind = "write" => op.index \in 0..Total[img] - 1
      BY <1>1 DEF IInv, OpInv
    <3>4. op.kind = "mark" => \A i \in 0..Total[img] - 1 : Holds(i, img)'
      BY <1>1, <1>3 DEF IInv, OpInv
    <3> QED
      BY <1>1, <1>2, <1>8, <2>2, <3>1, <3>2, <3>3, <3>4 DEF OpInv, Fresh, Holds
  <2>3. CASE op' = Writing(n, img)
    <3>1. op'.kind = "write" /\ op'.img = img /\ op'.index = n
      BY <2>3 DEF Writing
    <3> QED
      BY <1>1, <1>2, <1>8, <3>1 DEF OpInv, Fresh, Holds
  <2>4. CASE op' = Marking(img) /\ Missing(got) = {}
    <3>1. op'.kind = "mark" /\ op'.img = img
      BY <2>4 DEF Marking
    <3> QED
      BY <1>2, <1>6, <1>8, <2>4, <3>1 DEF OpInv, Fresh, Holds
  <2> QED
    BY <1>9, <2>1, <2>2, <2>3, <2>4
<1>11. ASSUME NEW q \in Phone PROVE AnswerInv(q)' /\ SendingInv(q)'
  <2>1. q = p
    BY DEF OnePhone
  <2>2. phone' = phone
    BY DEF phones
  <2>3. AnswerInv(q)'
    BY <1>1, <2>1, <2>2 DEF NoNewAnswer, IInv, PhoneInv, AnswerInv
  <2>4. SendingInv(q)'
    BY <1>1, <1>2, <1>8, <1>10, <2>1, <2>2 DEF SendingInv, Fresh
  <2> QED
    BY <2>3, <2>4
<1> QED
  BY <1>5, <1>7, <1>10, <1>11 DEF PhoneInv

LEMMA CrashStep == ASSUME IInv, ImagesFit, Blamed', Crash PROVE IInv'
<1>1. TypeOK' /\ OnAir'
  BY CrashType, NodeKeepsPhones DEF IInv, phones, OnAir, AirInv
<1>2. Restarted
  BY DEF Crash, ButtonPress, PowerLossIdle, PowerLossInStore,
     PowerLossInErase, PowerLossInWrite, PowerLossInCommit, PowerLoss
<1>3. installed' = installed
  BY DEF Crash, ButtonPress, PowerLossIdle, PowerLossInStore,
     PowerLossInErase, PowerLossInWrite, PowerLossInCommit
<1>4. Erased \notin Img /\ Mixed \notin Img
  BY UploadAssumption
<1>5. ImageIntegrity'
  <2>1. CASE Interrupted
    BY <2>1, InterruptedKeeps
  <2>2. ASSUME NEW p \in Phone, PowerLossInErase(p) PROVE ImageIntegrity'
    BY <1>4, <2>2 DEF PowerLossInErase, EraseUpTo, ImageIntegrity
  <2>3. ASSUME NEW p \in Phone, PowerLossInWrite(p) PROVE ImageIntegrity'
    <3> DEFINE n == Index(air[p])
    <3>1. /\ InSession(air[p]) /\ header' = header
          /\ cells' = [cells EXCEPT ![n] = Cut(@, air[p].img)]
      BY <2>3 DEF PowerLossInWrite
    <3> PICK img : img = session.img
      OBVIOUS
    <3>2. /\ img \in Img /\ air[p].img = img /\ header \in {Erased, img}
          /\ n \in 0..Total[img] - 1
      BY <3>1, SendersOwn DEF Fresh
    <3> SUFFICES ASSUME header = img, NEW i \in 0..Total[img] - 1
                 PROVE  Holds(i, img)'
      BY <1>4, <3>1, <3>2 DEF ImageIntegrity, Holds
    <3>3. \A k \in 0..Total[img] - 1 :
            k \in 0..Cells - 1 /\ cells[k] \in {img, Spoilt}
      BY <3>2, HoldsMeans DEF IInv, ImageIntegrity, Holds
    <3>4. Cut(cells[n], img) \in {img, Spoilt}
      BY <3>2, <3>3, ProgramValues, UploadAssumption DEF Erased, Spoilt
    <3>5. cells'[i] = IF i = n THEN Cut(cells[n], img) ELSE cells[i]
      BY <3>1, <3>2, <3>3 DEF IInv, TypeOK, FlashType
    <3>6. i \in 0..Cells - 1 /\ cells'[i] \in {img, Spoilt}
      BY <3>3, <3>4, <3>5
    <3> QED
      BY <3>6, HoldsIf
  <2>4. ASSUME NEW p \in Phone, PowerLossInCommit(p) PROVE ImageIntegrity'
    <3>1. /\ InSession(air[p])
          /\ Missing(Flagged(air[p], TRUE)) = {}
          /\ Otap_bufferWrite(Index(air[p]), air[p].img, TRUE, Idle, 0)
          /\ \/ header' = Cut(header, session.img)
             \/ header' = Program(header, session.img)
      BY <2>4 DEF PowerLossInCommit, Otap_bufferEnd
    <3> PICK img : img = session.img
      OBVIOUS
    <3>2. img \in Img /\ header \in {Erased, img}
      BY <3>1, SendersOwn DEF Fresh
    <3>3. header' \in {Mixed, img}
      BY <3>1, <3>2, HeaderValues
    <3>4. \A i \in 0..Total[img] - 1 : Holds(i, img)'
      <4>1. \A i \in 0..Total[img] - 1 : i \in Flagged(air[p], TRUE)
        BY <3>1 DEF Missing
      <4>2. \A i \in Flagged(air[p], TRUE) : Holds(i, img)'
        BY <3>1, WriteStep
      <4> QED
        BY <4>1, <4>2
    <3> QED
      BY <1>4, <3>3, <3>4 DEF ImageIntegrity, Holds
  <2> QED
    BY <2>1, <2>2, <2>3, <2>4 DEF Crash, ButtonPress, PowerLossIdle,
       PowerLossInStore
<1> QED
  BY <1>1, <1>2, <1>3, <1>5, ResetStep, InstalledStays DEF IInv

LEMMA BeginStep ==
  ASSUME IInv, OnePhone, Blamed', NEW p \in Phone, ReceiveBegin(p)
  PROVE  PhoneInv' /\ OpInv' /\ FlagsHonest' /\ ImageIntegrity'
<1>1. /\ phone[p].phase = "waiting"
      /\ air[p] = Begin(phone[p].id, phone[p].img)
  BY DEF ReceiveBegin, IInv, OnAir, AirInv
<1>2. air[p].id = phone[p].id /\ air[p].img = phone[p].img
  BY <1>1 DEF Begin
<1>3. session' = [img |-> phone[p].img, received |-> {}] /\ phone' = phone
        /\ UNCHANGED beacon
  BY <1>2 DEF ReceiveBegin, NewSession, phones
<1> PICK ok \in BOOLEAN :
      /\ Otap_bufferBegin(ok)
      /\ backlog' \in TX!AfterSend(backlog, Plain(BeginRsp(phone[p].id, ok)))
  BY <1>2 DEF ReceiveBegin
<1>4. \/ UNCHANGED <<header, cells>> /\ op' \in {op, Idle, Erasing}
         /\ (op' = op \/ op = Idle) /\ ~ok
      \/ header' = Erased /\ (\A i \in 0..ErasedCells - 1 : cells'[i] = Erased)
         /\ op' = Idle
  BY UploadAssumption DEF Otap_bufferBegin, EraseUpTo, GoesOn
<1>5. FlagsHonest'
  BY <1>3 DEF FlagsHonest
<1>6. ImageIntegrity'
  BY <1>4, ImageStays, UploadAssumption DEF IInv, ImageIntegrity
<1>9. OpInv'
  <2>1. session'.received = {}
    BY <1>3
  <2>2. CASE op' \in {Idle, Erasing}
    BY <2>1, <2>2 DEF OpInv, Idle, Erasing
  <2> QED
    BY <1>4, <2>1, <2>2, OpStays DEF IInv
<1>7. \A k \in 0..MaxRequests : InFlight(BeginRsp(k, TRUE))' =>
        InFlight(BeginRsp(k, TRUE)) \/ (ok /\ k = phone[p].id)
  <2>1. phone[p].id \in 1..MaxRequests
    BY <1>2, MessageFields DEF ReceiveBegin, IInv, TypeOK, PhoneType
  <2>2. /\ Plain(BeginRsp(phone[p].id, ok)) \in TX!Entry
        /\ Plain(BeginRsp(phone[p].id, ok)).cmd = BeginRsp(phone[p].id, ok)
    BY <2>1, CmdMember, EntryMember DEF Plain
  <2>3. OnlyAdds(backlog', backlog, BeginRsp(phone[p].id, ok))
    BY <2>2, SendAdds DEF IInv, TypeOK, TxType
  <2>4. \A k : BeginRsp(k, TRUE) = BeginRsp(phone[p].id, ok)
                 => ok /\ k = phone[p].id
    BY OtherAnswers
  <2> QED
    BY <1>3, <2>3, <2>4 DEF OnlyAdds, InFlight
<1>8. ASSUME NEW q \in Phone PROVE AnswerInv(q)' /\ SendingInv(q)'
  <2>1. q = p /\ AnswerInv(p)
    BY DEF OnePhone, IInv, PhoneInv
  <2>2. SendingInv(q)'
    BY <1>1, <1>3, <2>1 DEF SendingInv
  <2>3. ASSUME NEW k \in 0..MaxRequests, InFlight(BeginRsp(k, TRUE))'
        PROVE  /\ k <= phone[p].id
               /\ k = phone[p].id => Ready(p)'
    <3>1. CASE InFlight(BeginRsp(k, TRUE))
      <4>1. k <= phone[p].id /\ (k = phone[p].id => Ready(p))
        BY <1>1, <2>1, <3>1 DEF AnswerInv
      <4> QED
        BY <1>3, <1>4, <4>1 DEF Ready, Idle, Erasing
    <3>2. CASE ok /\ k = phone[p].id
      BY <1>3, <1>4, <3>2 DEF Ready, Idle
    <3> QED
      BY <1>7, <2>3, <3>1, <3>2
  <2>4. AnswerInv(q)'
    BY <1>3, <2>1, <2>3 DEF AnswerInv
  <2> QED
    BY <2>2, <2>4
<1> QED
  BY <1>5, <1>6, <1>8, <1>9 DEF PhoneInv

\* A released beacon and a backlog with nothing new but other answers.
LEMMA OtherCommand ==
  ASSUME UNCHANGED beacon \/ beacon'.cmd = beacon.cmd,
         \A i \in 1..Len(backlog') :
           \/ \E j \in 1..Len(backlog) : backlog'[i].cmd = backlog[j].cmd
           \/ \A k : backlog'[i].cmd # BeginRsp(k, TRUE)
  PROVE  NoNewAnswer
  BY DEF NoNewAnswer, InFlight

LEMMA ReceiveStep ==
  ASSUME IInv, OnePhone, ImagesFit, Blamed', NEW p \in Phone, Receive(p)
  PROVE  IInv'
<1>1. UNCHANGED phones /\ TypeOK' /\ OnAir'
  BY ReceiveType, NodeKeepsPhones DEF IInv, Node, phones, OnAir, AirInv
<1>2. NeverGarbage'
  <2>1. UNCHANGED installed
    BY DEF Receive, ReceiveDuplicate, ReceiveOutOfSession, ReceiveScan,
       ReceiveBegin, ReceiveData, ReceiveDataAskResend, ReceiveDataCommit, flash
  <2> QED
    BY <2>1, InstalledStays
<1>3. TxType /\ TypeOK
  BY DEF IInv, TypeOK
<1>4. CASE ReceiveDuplicate(p) \/ ReceiveOutOfSession(p)
  <2>1. Untouched /\ NoNewAnswer
    BY <1>4 DEF ReceiveDuplicate, ReceiveOutOfSession, flash, Untouched, NoNewAnswer, InFlight
  <2> QED
    BY <1>1, <1>2, <2>1, QuietStep DEF IInv
<1>5. CASE ReceiveScan(p)
  <2>1. Untouched /\ UNCHANGED beacon
    BY <1>5 DEF ReceiveScan, flash, Untouched
  <2>2. ScanRsp(air[p].id) \in Cmd
    BY <1>3, <1>5, MessageFields, CmdMember DEF ReceiveScan, TypeOK, PhoneType
  <2>3. OnlyAdds(backlog', backlog, ScanRsp(air[p].id))
    <3>1. /\ Plain(ScanRsp(air[p].id)) \in TX!Entry
          /\ Plain(ScanRsp(air[p].id)).cmd = ScanRsp(air[p].id)
      BY <2>2, EntryMember DEF Plain
    <3> QED
      BY <1>3, <1>5, <3>1, SendAdds DEF ReceiveScan, TxType
  <2>4. NoNewAnswer
    BY <2>1, <2>3, OtherAnswers, OtherCommand DEF OnlyAdds
  <2> QED
    BY <1>1, <1>2, <2>1, <2>4, QuietStep DEF IInv
<1>6. CASE ReceiveBegin(p)
  BY <1>1, <1>2, <1>6, BeginStep DEF IInv
<1>7. CASE ReceiveData(p)
  <2>1. InSession(air[p]) /\ UNCHANGED <<beacon, header>>
    BY <1>7 DEF ReceiveData
  <2>2. PICK ok \in BOOLEAN, failures \in 0..1 :
          LET got == Flagged(air[p], ok)
          IN  /\ Otap_bufferWrite(Index(air[p]), air[p].img, ok, op', failures)
              /\ session' = [session EXCEPT !.received = got]
              /\ backlog' \in Replies(air[p], got)
    BY <1>7 DEF ReceiveData
  <2>3. NoNewAnswer
    <3>1. OnlyAdds(backlog', backlog, Status)
      BY <1>3, <2>2, RepliesAdd DEF TxType
    <3> QED
      BY <2>1, <3>1, OtherAnswers, OtherCommand DEF OnlyAdds
  <2> QED
    BY <1>1, <1>2, <2>1, <2>2, <2>3, DataStep DEF IInv
<1>8. CASE ReceiveDataAskResend(p)
  <2>1. InSession(air[p]) /\ UNCHANGED header
          /\ beacon' = [beacon EXCEPT !.held = FALSE]
    BY <1>8 DEF ReceiveDataAskResend
  <2>2. PICK ok \in BOOLEAN, failures \in 0..1 :
          LET got == Flagged(air[p], ok)
          IN  /\ Otap_bufferWrite(Index(air[p]), air[p].img, ok, op', failures)
              /\ session' = [session EXCEPT !.received = got]
              /\ \E i \in Missing(got), q \in Replies(air[p], got) :
                   backlog' \in TX!AfterSend(TX!Release(q), Held(Resend(i)))
    BY <1>8 DEF ReceiveDataAskResend
  <2>3. NoNewAnswer
    <3>1. PICK i \in Missing(Flagged(air[p], ok)),
               q \in Replies(air[p], Flagged(air[p], ok)) :
            backlog' \in TX!AfterSend(TX!Release(q), Held(Resend(i)))
      BY <2>2
    <3>2. Resend(i) \in Cmd
      <4>1. i \in Indices
        BY <1>3, <2>1, InSessionFields DEF Missing, Indices
      <4> QED
        BY <4>1, CmdMember
    <3>3. \A n \in 1..Len(backlog') :
            backlog'[n].cmd \in {Resend(i), Off, Status}
              \/ \E j \in 1..Len(backlog) : backlog'[n].cmd = backlog[j].cmd
      BY <1>3, <3>1, <3>2, ReleasedSend
    <3>4. beacon'.cmd = beacon.cmd
      BY <1>3, <2>1, ReleasedBeacon
    <3> QED
      BY <3>3, <3>4, OtherAnswers, OtherCommand
  <2> QED
    BY <1>1, <1>2, <2>1, <2>2, <2>3, DataStep DEF IInv
<1>9. CASE ReceiveDataCommit(p)
  <2>1. InSession(air[p]) /\ beacon' = [beacon EXCEPT !.held = FALSE]
    BY <1>9 DEF ReceiveDataCommit
  <2>2. PICK ok, marked \in BOOLEAN, failed, missed \in 0..1,
             after \in {Idle, op, Writing(Index(air[p]), air[p].img)} :
          LET got == Flagged(air[p], ok)
          IN  /\ Missing(got) = {}
              /\ Otap_bufferWrite(Index(air[p]), air[p].img, ok, after, failed)
              /\ session' = [session EXCEPT !.received = got]
              /\ Otap_bufferEnd(session.img, after, marked, missed)
              /\ \E q \in Replies(air[p], got) :
                   backlog' \in TX!AfterSend(TX!Release(q), Plain(Done))
    BY <1>9 DEF ReceiveDataCommit
  <2>3. NoNewAnswer
    <3>1. \A n \in 1..Len(backlog') :
            backlog'[n].cmd \in {Done, Off, Status}
              \/ \E j \in 1..Len(backlog) : backlog'[n].cmd = backlog[j].cmd
      BY <1>3, <2>2, CmdMember, ReleasedSend
    <3>2. beacon'.cmd = beacon.cmd
      BY <1>3, <2>1, ReleasedBeacon
    <3> QED
      BY <3>1, <3>2, OtherAnswers, OtherCommand
  <2> QED
    BY <1>1, <1>2, <2>1, <2>2, <2>3, DataStep DEF IInv
<1> QED
  BY <1>4, <1>5, <1>6, <1>7, <1>8, <1>9 DEF Receive

\* The node does not move: what was in flight still is.
LEMMA NodeStill ==
  ASSUME IInv, Blamed', NodeUnchanged
  PROVE  /\ FlagsHonest' /\ ImageIntegrity' /\ NeverGarbage' /\ OpInv'
         /\ session' = session /\ header' = header /\ cells' = cells /\ op' = op
         /\ \A k : InFlight(BeginRsp(k, TRUE))' <=> InFlight(BeginRsp(k, TRUE))
<1>1. UNCHANGED <<session, header, cells, op, installed, backlog, beacon>>
  BY DEF NodeUnchanged, flash
<1> QED
  BY <1>1, ImageStays, FlagsStay, OpStays, InstalledStays DEF IInv, InFlight

LEMMA PhoneControlStep ==
  ASSUME IInv, OnePhone, ImagesFit, Blamed', PhoneControl
  PROVE  IInv'
<1>1. TypeOK' /\ OnAir'
  BY PhoneControlType, PhoneControlAir DEF IInv
<1>2. NodeUnchanged
  BY DEF PhoneControl, NodeUnchanged
<1>3. ASSUME NEW q \in Phone PROVE AnswerInv(q)' /\ SendingInv(q)'
  <2>1. AirInv(q) /\ AnswerInv(q) /\ SendingInv(q)
    BY DEF IInv, OnAir, PhoneInv
  <2>2. phone \in [Phone -> [phase : {"idle", "waiting", "sending"},
                            img : Img \cup {None}, id : 0..MaxRequests,
                            next : Nat]]
    BY DEF IInv, TypeOK, PhoneType
  <2>3. phone[q].id \in 0..MaxRequests
    BY <2>2
  <2>4. \/ \E k \in ScanId : PhoneScan(q, k)
        \/ \E img \in Img : PhoneBegin(q, img)
        \/ PhoneStart(q)
        \/ PhoneDone(q)
    BY DEF PhoneControl, OnePhone
  <2>5. ASSUME phone'[q].phase = "idle", phone'[q].id = phone[q].id
        PROVE  AnswerInv(q)' /\ SendingInv(q)'
    BY <1>2, <2>1, <2>5, NodeStill DEF AnswerInv, SendingInv
  <2>6. CASE PhoneDone(q) \/ \E k \in ScanId : PhoneScan(q, k)
    <3>1. phone'[q].phase = "idle" /\ phone'[q].id = phone[q].id
      BY <2>2, <2>6 DEF PhoneDone, PhoneScan
    <3> QED
      BY <2>5, <3>1
  <2>7. CASE \E img \in Img : PhoneBegin(q, img)
    <3>1. phone'[q].phase = "waiting" /\ phone'[q].id = phone[q].id + 1
      BY <2>2, <2>7 DEF PhoneBegin
    <3>2. SendingInv(q)'
      BY <3>1 DEF SendingInv
    <3>3. \A k \in 0..MaxRequests :
            InFlight(BeginRsp(k, TRUE))' => k <= phone[q].id
      BY <1>2, <2>1, NodeStill DEF AnswerInv
    <3>4. \A k \in 0..MaxRequests :
            k <= phone[q].id => k <= phone[q].id + 1 /\ k # phone[q].id + 1
      BY <2>3, UploadAssumption
    <3> QED
      BY <3>1, <3>2, <3>3, <3>4 DEF AnswerInv
  <2>8. CASE PhoneStart(q)
    <3>1. /\ phone'[q].phase = "sending" /\ phone'[q].id = phone[q].id
          /\ phone'[q].img = phone[q].img
          /\ phone[q].phase = "waiting"
          /\ beacon.cmd = BeginRsp(phone[q].id, TRUE)
      BY <2>2, <2>8 DEF PhoneStart
    <3>2. AnswerInv(q)'
      BY <1>2, <2>1, <3>1, NodeStill DEF AnswerInv
    <3>3. Ready(q)
      BY <2>1, <2>3, <3>1 DEF AnswerInv, InFlight
    <3>4. /\ session.img = phone[q].img /\ Fresh(phone[q].img)
          /\ op.kind \notin {"write", "mark"}
      <4>1. phone[q].img \in Img
        BY <2>1, <3>1 DEF AirInv
      <4>2. \A i \in 0..Total[phone[q].img] - 1 : i \in 0..ErasedCells - 1
        BY <4>1, FitsCells
      <4> QED
        BY <3>3, <4>2 DEF Ready, Fresh
    <3>5. SendingInv(q)'
      BY <1>2, <3>1, <3>4, NodeStill DEF SendingInv, Fresh
    <3> QED
      BY <3>2, <3>5
  <2> QED
    BY <2>4, <2>6, <2>7, <2>8
<1> QED
  BY <1>1, <1>2, <1>3, NodeStill DEF IInv, PhoneInv

LEMMA PhoneDataStep ==
  ASSUME IInv, Blamed', NEW p \in Phone, NEW i \in Indices, AnyData(p, i)
  PROVE  IInv'
<1>1. phone[p].img \in Img
  BY DEF IInv, OnAir, AirInv, AnyData, PhoneData
<1>2. TypeOK' /\ OnAir' /\ NodeUnchanged
  BY <1>1, PhoneDataType, PhoneDataAir DEF IInv, AnyData
<1>3. ASSUME NEW q \in Phone PROVE AnswerInv(q)' /\ SendingInv(q)'
  <2>1. AnswerInv(q) /\ SendingInv(q)
    BY DEF IInv, PhoneInv
  <2>2. phone'[q].phase = phone[q].phase /\ phone'[q].img = phone[q].img
          /\ phone'[q].id = phone[q].id
    BY DEF IInv, TypeOK, PhoneType, AnyData, PhoneData
  <2>3. AnswerInv(q)'
    BY <1>2, <2>1, <2>2, NodeStill DEF AnswerInv, Ready
  <2>4. SendingInv(q)'
    BY <1>2, <2>1, <2>2, NodeStill DEF SendingInv, Fresh
  <2> QED
    BY <2>3, <2>4
<1> QED
  BY <1>2, <1>3, NodeStill DEF IInv, PhoneInv

LEMMA InitIInv == Init => IInv
<1> SUFFICES ASSUME Init PROVE IInv
  OBVIOUS
<1>1. FlagsHonest /\ ImageIntegrity /\ NeverGarbage /\ OpInv /\ Blamed
  <2>1. /\ header = Erased /\ installed = None /\ session.received = {}
        /\ op = Idle /\ \A i \in 0..Cells - 1 : cells[i] = Erased
    BY DEF Init, NoSession
  <2>2. Erased \notin Img /\ None \notin {Mixed, Spoilt} /\ Erased # Spoilt
    BY UploadAssumption DEF None, Mixed, Spoilt, Erased
  <2> QED
    BY <2>1, <2>2
       DEF FlagsHonest, ImageIntegrity, NeverGarbage, OpInv, Idle, Blamed
<1>2. ASSUME NEW p \in Phone PROVE AnswerInv(p) /\ SendingInv(p)
  <2>1. \A k : ~InFlight(BeginRsp(k, TRUE))
    <3> TAKE k
    <3>1. beacon.cmd # BeginRsp(k, TRUE)
      BY OtherAnswers DEF Init, TX!Init, TX!Silent
    <3>2. 1..Len(backlog) = {}
      BY DEF Init, TX!Init
    <3> QED
      BY <3>1, <3>2 DEF InFlight
  <2>2. phone[p].phase = "idle"
    BY DEF Init
  <2> QED
    BY <2>1, <2>2 DEF AnswerInv, SendingInv
<1> QED
  BY <1>1, <1>2, InitType, InitOnAir DEF IInv, PhoneInv

LEMMA Inductive ==
  ASSUME IInv, OnePhone, ImagesFit, [Next]_vars
  PROVE  IInv'
<1>0. Blamed'
  BY BlamedInductive DEF IInv
<1>1. CASE Node
  BY <1>0, <1>1, SendTaskStep, StartStep, RebootStep, LateEndStep, ReceiveStep
     DEF Node
<1>2. CASE Crash
  BY <1>0, <1>2, CrashStep
<1>3. CASE PhoneControl
  BY <1>0, <1>3, PhoneControlStep
<1>4. CASE \E p \in Phone, i \in Indices : AnyData(p, i)
  BY <1>0, <1>4, PhoneDataStep
<1>5. CASE UNCHANGED vars
  <2>1. TypeOK' /\ OnAir'
    BY TypeInductive DEF IInv
  <2>2. UNCHANGED phones /\ Untouched /\ NoNewAnswer /\ UNCHANGED installed
    BY <1>5 DEF vars, flash, Untouched, NoNewAnswer, InFlight
  <2> QED
    BY <1>0, <2>1, <2>2, QuietStep, InstalledStays DEF IInv
<1> QED
  BY <1>1, <1>2, <1>3, <1>4, <1>5 DEF Next

LEMMA Invariance == ASSUME OnePhone, ImagesFit PROVE Spec => []IInv
<1>1. IInv /\ [Next]_vars => IInv'
  BY Inductive
<1> QED
  BY <1>1, InitIInv, PTL DEF Spec

\* A marked buffer holds every package of the image it announces, whatever
\* is lost, repeated, reordered, refused or cut short by a reset, for images
\* of any size that lie in the erased sectors; also when a flash operation
\* outlasts its time-out, except that a late write may have spoilt packages of
\* that image with bytes of other messages. (ble.c:508-526, otap.c:54-86, 135-198)
THEOREM MarkedMeansWhole ==
  ASSUME OnePhone, ImagesFit
  PROVE  Spec => []ImageIntegrity
BY Invariance, PTL DEF IInv

\* A package flagged as received is in the buffer; the one exception is a package
\* of which one write, the first or a repetition, was late and spoilt its place.
\* (ble.c:439, 470-476; otap.c:84-86)
THEOREM FlaggedMeansWritten ==
  ASSUME OnePhone, ImagesFit
  PROVE  Spec => []FlagsHonest
BY Invariance, PTL DEF IInv

\* The phone sends packages into no session but its own. (ble.c:455-465)
THEOREM SessionsNotMixed ==
  ASSUME OnePhone, ImagesFit
  PROVE  Spec => []OwnSession
<1>1. IInv => OwnSession
  BY DEF IInv, PhoneInv, SendingInv, OwnSession
<1> QED
  BY <1>1, Invariance, PTL

\* Only a complete image of one upload is handed to the OTAP library, and a spoilt
\* one only after a failure: of a write that was late, or of a read whose result
\* nobody looks at. (app.c:86-93, otap.c:84-86, 252)
THEOREM OnlyWholeImagesInstalled ==
  ASSUME OnePhone, ImagesFit
  PROVE  Spec => []NeverGarbage
BY Invariance, PTL DEF IInv

-----------------------------------------------------------------------------
(* What the node insists on.  This holds for any number of phones.         *)

Outgoing == {beacon} \cup {backlog[k] : k \in 1..Len(backlog)}

NoNewHold == \A e \in Outgoing' : e.held => e \in Outgoing

LEMMA SendHolds ==
  ASSUME NEW q \in Seq(TX!Entry), NEW e \in TX!Entry,
         NEW r \in TX!AfterSend(q, e), NEW k \in 1..Len(r)
  PROVE  r[k] = e \/ \E j \in 1..Len(q) : r[k] = q[j]
<1>1. CASE r = q
  BY <1>1
<1>2. CASE r = Append(q, e)
  <2>1. Len(r) = Len(q) + 1
          /\ \A i \in 1..Len(q) + 1 : r[i] = IF i <= Len(q) THEN q[i] ELSE e
    BY <1>2
  <2> QED
    BY <2>1
<1> QED
  BY <1>1, <1>2 DEF TX!AfterSend

LEMMA ReleasedAll ==
  ASSUME NEW q \in Seq(TX!Entry), NEW k \in 1..Len(TX!Release(q))
  PROVE  TX!Release(q)[k].held = FALSE
<1> DEFINE r == TX!Release(q)
<1>1. DOMAIN q = 1..Len(q) /\ Len(q) \in Nat
  OBVIOUS
<1>2. r = [i \in 1..Len(q) |-> [q[i] EXCEPT !.held = FALSE]]
  BY <1>1 DEF TX!Release
<1>3. \A i \in 1..Len(q) : [q[i] EXCEPT !.held = FALSE] \in TX!Entry
                           /\ [q[i] EXCEPT !.held = FALSE].held = FALSE
  <2> TAKE i \in 1..Len(q)
  <2>1. q[i] \in TX!Entry
    OBVIOUS
  <2> QED
    BY <2>1 DEF TX!Entry
<1>4. Len(r) = Len(q)
  <2>1. r \in [1..Len(q) -> TX!Entry]
    BY <1>2, <1>3
  <2> QED
    BY <1>1, <1>2, <2>1
<1> QED
  BY <1>2, <1>3, <1>4

LEMMA ReleasedOnAir ==
  ASSUME TxType, beacon' = [beacon EXCEPT !.held = FALSE]
  PROVE  beacon'.held = FALSE
<1>1. CASE beacon \in TX!Entry
  BY <1>1 DEF TX!Entry
<1>2. CASE beacon = TX!Silent
  BY <1>2 DEF TX!Silent
<1> QED
  BY <1>1, <1>2 DEF TxType

\* After everything was released, only the command just sent can be held.
LEMMA OnlyLastHeld ==
  ASSUME TxType, NEW m, NEW got, NEW q \in Replies(m, got), NEW c \in Cmd,
         NEW e \in {Plain(c), Held(c)},
         backlog' \in TX!AfterSend(TX!Release(q), e),
         beacon' = [beacon EXCEPT !.held = FALSE]
  PROVE  \A x \in Outgoing' : x.held => x = e
<1>1. q \in Seq(TX!Entry) /\ TX!Release(q) \in Seq(TX!Entry) /\ e \in TX!Entry
  BY RepliesAdd, ReleaseKeeps, EntryMember DEF TxType
<1>2. ASSUME NEW k \in 1..Len(backlog'), backlog'[k].held
      PROVE  backlog'[k] = e
  <2>1. backlog'[k] = e
          \/ \E j \in 1..Len(TX!Release(q)) : backlog'[k] = TX!Release(q)[j]
    BY <1>1, <1>2, SendHolds
  <2>2. \A j \in 1..Len(TX!Release(q)) : TX!Release(q)[j].held = FALSE
    BY <1>1, ReleasedAll
  <2> QED
    BY <1>2, <2>1, <2>2
<1> QED
  BY <1>2, ReleasedOnAir DEF Outgoing

\* A plain answer adds nothing that is held.
LEMMA PlainHoldsNothing ==
  ASSUME TxType, NEW c \in Cmd, backlog' \in TX!AfterSend(backlog, Plain(c)),
         UNCHANGED beacon
  PROVE  NoNewHold
<1>1. Plain(c) \in TX!Entry /\ Plain(c).held = FALSE
  BY EntryMember DEF Plain
<1>2. \A k \in 1..Len(backlog') :
        backlog'[k].held => \E j \in 1..Len(backlog) : backlog'[k] = backlog[j]
  BY <1>1, SendHolds DEF TxType
<1> QED
  BY <1>2 DEF NoNewHold, Outgoing

LEMMA HoldsKept ==
  ASSUME InsistsOnMissing, UNCHANGED session, NoNewHold
  PROVE  InsistsOnMissing'
  BY DEF InsistsOnMissing, NoNewHold, Outgoing, LastFlagged, Missing

LEMMA SendTaskHolds == TypeOK /\ SendTask => NoNewHold /\ UNCHANGED session
<1> SUFFICES ASSUME TypeOK, SendTask PROVE NoNewHold /\ UNCHANGED session
  OBVIOUS
<1>1. backlog \in Seq(TX!Entry)
  BY DEF TypeOK, TxType
<1>2. CASE TX!Advance
  <2>1. backlog # <<>> /\ beacon' = Head(backlog) /\ backlog' = Tail(backlog)
    BY <1>2 DEF TX!Advance
  <2>2. beacon' = backlog[1] /\ 1 \in 1..Len(backlog)
    BY <1>1, <2>1
  <2>3. \A k \in 1..Len(backlog') :
          k + 1 \in 1..Len(backlog) /\ backlog'[k] = backlog[k + 1]
    BY <1>1, <2>1
  <2> QED
    BY <2>2, <2>3 DEF NoNewHold, Outgoing, SendTask
<1>3. CASE TX!SwitchOff
  <2>1. beacon'.held = FALSE /\ backlog' = backlog
    BY <1>3 DEF TX!SwitchOff, TX!Silent
  <2> QED
    BY <2>1 DEF NoNewHold, Outgoing, SendTask
<1> QED
  BY <1>2, <1>3 DEF SendTask

LEMMA ReceiveHolds ==
  ASSUME TypeOK, InsistsOnMissing, NEW p \in Phone, Receive(p)
  PROVE  InsistsOnMissing'
<1>1. TxType /\ air[p] \in Message
  BY DEF TypeOK, PhoneType
<1>2. session \in [img : Img \cup {None}, received : SUBSET Nat]
  BY DEF TypeOK, RamType
<1>3. CASE ReceiveDuplicate(p) \/ ReceiveOutOfSession(p)
  <2>1. NoNewHold /\ UNCHANGED session
    BY <1>3 DEF ReceiveDuplicate, ReceiveOutOfSession, NoNewHold, Outgoing
  <2> QED
    BY <2>1, HoldsKept
<1>4. CASE ReceiveScan(p)
  <2>1. ScanRsp(air[p].id) \in Cmd
    BY <1>1, <1>4, MessageFields, CmdMember DEF ReceiveScan
  <2>2. NoNewHold /\ UNCHANGED session
    BY <1>1, <1>4, <2>1, PlainHoldsNothing DEF ReceiveScan
  <2> QED
    BY <2>2, HoldsKept
<1>5. CASE ReceiveBegin(p)
  <2>1. session' = [img |-> air[p].img, received |-> {}]
    BY <1>5 DEF ReceiveBegin, NewSession
  <2> QED
    BY <2>1 DEF InsistsOnMissing, LastFlagged
<1>6. CASE ReceiveData(p)
  <2>1. PICK ok \in BOOLEAN :
          /\ ~LastFlagged(Flagged(air[p], ok))
          /\ session' = [session EXCEPT !.received = Flagged(air[p], ok)]
    BY <1>6 DEF ReceiveData
  <2>2. session'.img = session.img /\ session'.received = Flagged(air[p], ok)
    BY <1>2, <2>1
  <2> QED
    BY <2>1, <2>2 DEF InsistsOnMissing, LastFlagged
<1>7. CASE ReceiveDataAskResend(p)
  <2>1. InSession(air[p]) /\ beacon' = [beacon EXCEPT !.held = FALSE]
    BY <1>7 DEF ReceiveDataAskResend
  <2>2. PICK ok \in BOOLEAN :
          LET got == Flagged(air[p], ok)
          IN  /\ session' = [session EXCEPT !.received = got]
              /\ \E i \in Missing(got), q \in Replies(air[p], got) :
                   /\ \A j \in Missing(got) : i <= j
                   /\ backlog' \in TX!AfterSend(TX!Release(q), Held(Resend(i)))
    BY <1>7 DEF ReceiveDataAskResend
  <2> DEFINE got == Flagged(air[p], ok)
  <2>3. session'.img = session.img /\ session'.received = got
    BY <1>2, <2>2
  <2>4. PICK i \in Missing(got), q \in Replies(air[p], got) :
          /\ \A j \in Missing(got) : i <= j
          /\ backlog' \in TX!AfterSend(TX!Release(q), Held(Resend(i)))
    BY <2>2
  <2>5. Resend(i) \in Cmd
    <3>1. i \in Indices
      BY <2>1, InSessionFields DEF Missing, Indices
    <3> QED
      BY <3>1, CmdMember
  <2>6. \A e \in Outgoing' : e.held => e = Held(Resend(i))
    BY <1>1, <2>1, <2>4, <2>5, OnlyLastHeld
  <2>7. Held(Resend(i)).cmd = Resend(i)
    BY DEF Held
  <2>8. (0..Total[session'.img] - 1) \ session'.received = Missing(got)
    BY <2>3 DEF Missing
  <2> HIDE DEF got
  <2> QED
    BY <2>3, <2>4, <2>6, <2>7, <2>8 DEF InsistsOnMissing, Outgoing, Missing
<1>8. CASE ReceiveDataCommit(p)
  <2>1. beacon' = [beacon EXCEPT !.held = FALSE]
    BY <1>8 DEF ReceiveDataCommit
  <2>2. PICK ok \in BOOLEAN :
          \E q \in Replies(air[p], Flagged(air[p], ok)) :
            backlog' \in TX!AfterSend(TX!Release(q), Plain(Done))
    BY <1>8 DEF ReceiveDataCommit
  <2>3. \A e \in Outgoing' : e.held => e = Plain(Done)
    BY <1>1, <2>1, <2>2, CmdMember, OnlyLastHeld
  <2>4. \A e \in Outgoing' : ~e.held
    BY <2>3 DEF Plain
  <2> QED
    BY <2>4 DEF InsistsOnMissing, Outgoing
<1> QED
  BY <1>3, <1>4, <1>5, <1>6, <1>7, <1>8 DEF Receive

\* A reset ends the session.
LEMMA ResetHolds == Restarted => InsistsOnMissing'
  BY DEF Restarted, NoSession, InsistsOnMissing

LEMMA HoldsInductive ==
  TypeOK /\ InsistsOnMissing /\ [Next]_vars => InsistsOnMissing'
<1> SUFFICES ASSUME TypeOK, InsistsOnMissing, [Next]_vars
             PROVE  InsistsOnMissing'
  OBVIOUS
<1>1. UNCHANGED <<session, backlog, beacon>> => InsistsOnMissing'
  BY HoldsKept DEF NoNewHold, Outgoing
<1>2. CASE SendTask
  BY <1>2, SendTaskHolds, HoldsKept
<1>3. CASE Start
  BY <1>1, <1>3, ResetHolds DEF Start, Boot, Otap_process, ClearOtap
<1>4. CASE Reboot \/ Crash
  <2>1. Restarted
    BY <1>4 DEF Reboot, Crash, ButtonPress, PowerLossIdle, PowerLossInStore,
       PowerLossInErase, PowerLossInWrite, PowerLossInCommit, PowerLoss
  <2> QED
    BY <2>1, ResetHolds
<1>5. ASSUME NEW p \in Phone, Receive(p) PROVE InsistsOnMissing'
  BY <1>5, ReceiveHolds
<1>6. CASE PhoneControl \/ LateEnd \/ UNCHANGED vars
  BY <1>1, <1>6 DEF PhoneControl, LateEnd, vars
<1>7. CASE \E p \in Phone, i \in Indices : AnyData(p, i)
  BY <1>1, <1>7 DEF AnyData, NodeUnchanged
<1> QED
  BY <1>2, <1>3, <1>4, <1>5, <1>6, <1>7 DEF Next, Node

\* Whatever phones send, and however often it is missed or repeated, the node
\* insists on the first package the session still misses and on nothing else:
\* not on a gap already filled, nor on one of an earlier session.
\* (ble.c:509-521, 541, 571-576)
THEOREM RequestsAreCurrent == Spec => []InsistsOnMissing
<1>1. Init => TypeOK /\ OnAir /\ InsistsOnMissing
  BY InitType, InitOnAir DEF Init, NoSession, InsistsOnMissing
<1> QED
  BY <1>1, TypeInductive, HoldsInductive, PTL DEF Spec

-----------------------------------------------------------------------------
(* A commit is carried out.                                                *)

\* What is in flash is in RAM too, unless reading it failed: no store of another
\* setting takes the request back.  What was processed is what is in the buffer.
CommitInv ==
  /\ mode = "run" /\ stored.valid /\ stored.doOtap => settings.doOtap \/ faults > 0
  /\ mode = "clear" /\ header \in Img /\ faults = 0 => installed = header

LEMMA FaultsGrow ==
  ASSUME TypeOK, NEW p \in Phone, Receive(p)
  PROVE  faults > 0 => faults' > 0
<1>1. CASE UNCHANGED faults
  BY <1>1
<1>2. ASSUME NEW n \in Nat, Failing(n) PROVE faults > 0 => faults' > 0
  BY <1>2 DEF TypeOK, BoundsType, Failing
<1>3. CASE ReceiveBegin(p)
  <2>1. UNCHANGED faults \/ Failing(Fault(op))
    BY <1>3 DEF ReceiveBegin, Otap_bufferBegin
  <2> QED
    BY <1>1, <1>2, <2>1, CountNat
<1>4. CASE ReceiveData(p) \/ ReceiveDataAskResend(p)
  <2>1. \E failures \in 0..1 : Failing(failures)
    BY <1>4 DEF ReceiveData, ReceiveDataAskResend
  <2> QED
    BY <1>2, <2>1
<1>5. CASE ReceiveDataCommit(p)
  <2>1. PICK kept \in BOOLEAN, failed, missed \in 0..1 :
          Failing(failed + missed + Count(kept))
    BY <1>5 DEF ReceiveDataCommit
  <2>2. failed + missed + Count(kept) \in Nat
    BY CountNat
  <2> QED
    BY <1>2, <2>1, <2>2
<1> QED
  BY <1>1, <1>3, <1>4, <1>5 DEF Receive, ReceiveDuplicate, ReceiveOutOfSession,
     ReceiveScan, bounds

LEMMA ReceiveCommits ==
  ASSUME TypeOK, CommitInv, NEW p \in Phone, Receive(p)
  PROVE  /\ CommitInv' /\ mode' = mode
         /\ stored.doOtap => stored'.doOtap \/ stored' = stored
<1>1. mode = "run" /\ mode' = "run"
  BY DEF Receive, ReceiveDuplicate, ReceiveOutOfSession, ReceiveScan,
     ReceiveBegin, ReceiveData, ReceiveDataAskResend, ReceiveDataCommit,
     Accepts, New, Audible
<1>2. CASE UNCHANGED <<settings, stored>>
  BY <1>1, <1>2, FaultsGrow DEF CommitInv
<1>3. CASE ReceiveDataCommit(p)
  <2>1. settings' = [settings EXCEPT !.doOtap = TRUE]
          /\ (stored' = settings' \/ stored' = stored)
    BY <1>3 DEF ReceiveDataCommit, AppSettings_store
  <2>2. settings'.doOtap
    BY <2>1 DEF TypeOK, RamType, Settings
  <2> QED
    BY <1>1, <2>1, <2>2 DEF CommitInv
<1> QED
  BY <1>2, <1>3 DEF Receive, ReceiveDuplicate, ReceiveOutOfSession,
     ReceiveScan, ReceiveBegin, ReceiveData, ReceiveDataAskResend, flash

LEMMA StartCommits ==
  ASSUME IInv, Blamed', CommitInv, Start
  PROVE  /\ CommitInv'
         /\ UNCHANGED stored \/ mode = "clear"
<1>1. CASE Boot
  <2>1. PICK read \in BOOLEAN :
          /\ settings' = IF read /\ stored.valid THEN stored ELSE Defaults
          /\ Failing(Count(read))
    BY <1>1 DEF Boot, AppSettings_settingsGet
  <2>2. mode' = (IF settings'.doOtap THEN "otap" ELSE "run") /\ stored' = stored
    BY <1>1 DEF Boot, flash
  <2>3. ~read => faults' > 0
    BY <2>1, Grows DEF IInv, TypeOK, BoundsType, Count
  <2> QED
    BY <2>1, <2>2, <2>3 DEF CommitInv
<1>2. CASE Otap_process
  <2>1. mode' = "clear" /\ UNCHANGED <<stored, header>>
    BY <1>2 DEF Otap_process
  <2>2. header \in Img /\ faults' = 0 => installed' = header
    <3>1. Failing(1) => faults' # 0
      BY DEF Failing, IInv, TypeOK, BoundsType
    <3>2. \A read \in BOOLEAN : header \in Img => Given(read) \in {header, Spoilt}
      BY WholeGiven
    <3>3. installed' = Spoilt => faults' > 0
      BY DEF Blamed
    <3> QED
      BY <1>2, <3>1, <3>2, <3>3 DEF Otap_process
  <2> QED
    BY <2>1, <2>2 DEF CommitInv
<1>3. CASE ClearOtap
  BY <1>3 DEF ClearOtap, Restarted, CommitInv
<1> QED
  BY <1>1, <1>2, <1>3 DEF Start

LEMMA CrashCommits ==
  ASSUME TypeOK, CommitInv, Reboot \/ Crash
  PROVE  /\ CommitInv'
         /\ stored.valid /\ stored.doOtap /\ stored'.valid
              => stored'.doOtap \/ (faults > 0 /\ ~settings.doOtap)
<1>1. Restarted
  BY DEF Reboot, Crash, ButtonPress, PowerLossIdle, PowerLossInStore,
     PowerLossInErase, PowerLossInWrite, PowerLossInCommit, PowerLoss
<1>2. CASE ButtonPress
  <2>1. /\ mode = "run"
        /\ stored' = [settings EXCEPT !.isSink = ~@] \/ stored' = stored
    BY <1>2 DEF ButtonPress, AppSettings_store
  <2>2. [settings EXCEPT !.isSink = ~@].doOtap = settings.doOtap
    BY DEF TypeOK, RamType, Settings
  <2> QED
    BY <1>1, <2>1, <2>2 DEF CommitInv, Restarted
<1>3. CASE StoredTorn
  <2>1. stored'.valid = FALSE
    BY <1>3 DEF StoredTorn, TypeOK, FlashType, Settings
  <2> QED
    BY <1>1, <2>1 DEF CommitInv, Restarted
<1>4. CASE UNCHANGED stored
  BY <1>1, <1>4 DEF CommitInv, Restarted
<1> QED
  BY <1>2, <1>3, <1>4 DEF Reboot, Crash, PowerLossIdle, PowerLossInStore,
     PowerLossInErase, PowerLossInWrite, PowerLossInCommit, flash

LEMMA CommitInductive ==
  ASSUME IInv, Blamed', CommitInv, [Next]_vars
  PROVE  /\ CommitInv'
         /\ stored.valid /\ stored.doOtap /\ stored'.valid /\ ~stored'.doOtap
              => mode = "clear" \/ (faults > 0 /\ ~settings.doOtap)
<1>1. UNCHANGED <<mode, settings, stored, faults>>
        /\ (UNCHANGED <<header, installed>> \/ mode # "clear") => CommitInv'
  BY DEF CommitInv
<1>2. CASE Start
  BY <1>2, StartCommits
<1>3. CASE Reboot \/ Crash
  BY <1>3, CrashCommits DEF IInv
<1>4. ASSUME NEW p \in Phone, Receive(p)
      PROVE  /\ CommitInv'
             /\ stored.doOtap => stored'.doOtap \/ stored' = stored
  BY <1>4, ReceiveCommits DEF IInv
<1>5. CASE SendTask \/ PhoneControl \/ UNCHANGED vars
             \/ \E p \in Phone, i \in Indices : AnyData(p, i)
  <2>1. UNCHANGED <<mode, settings, stored, header, installed, faults>>
    BY <1>5 DEF SendTask, PhoneControl, AnyData, NodeUnchanged, vars, flash,
       bounds
  <2> QED
    BY <1>1, <2>1
<1>6. CASE LateEnd
  <2>1. UNCHANGED <<mode, settings, stored, installed, faults>>
    BY <1>6 DEF LateEnd, bounds
  <2>2. faults > 0
    <3>1. op # Idle
      BY <1>6 DEF LateEnd, Idle
    <3> QED
      BY <3>1 DEF IInv, Blamed
  <2> QED
    BY <2>1, <2>2 DEF CommitInv, IInv, TypeOK, BoundsType
<1> QED
  BY <1>2, <1>3, <1>4, <1>5, <1>6 DEF Next, Node

\* Once the request to process the image is in flash it stays there, through
\* presses of the button, losses of power and other uploads, until the start-up
\* has processed the buffer, and that has installed a marked image unless a
\* flash operation failed.  The one exception is a start-up that could not read
\* the request: the next store writes the defaults it went on with.
\* (app.c:53-62, 84-100; app_settings.c:59-77, 112)
THEOREM RequestSurvives ==
  ASSUME OnePhone, ImagesFit
  PROVE  Spec => CommitCarriedOut
<1> DEFINE Carried ==
      stored.valid /\ stored.doOtap /\ stored'.valid /\ ~stored'.doOtap
        => \/ /\ mode = "clear"
              /\ header \in Img /\ faults = 0 => installed = header
           \/ faults > 0 /\ ~settings.doOtap
<1>1. Init => CommitInv
  BY DEF Init, CommitInv
<1>2. IInv /\ CommitInv /\ [Next]_vars => CommitInv' /\ Carried
  <2> SUFFICES ASSUME IInv, CommitInv, [Next]_vars PROVE CommitInv' /\ Carried
    OBVIOUS
  <2>1. Blamed'
    BY BlamedInductive DEF IInv
  <2> QED
    BY <2>1, CommitInductive DEF CommitInv
<1>3. Spec => [][Carried]_vars
  BY <1>1, <1>2, Invariance, PTL DEF Spec
<1> QED
  BY <1>3 DEF CommitCarriedOut

-----------------------------------------------------------------------------
(* A successful upload is marked, if no flash operation fails.             *)

\* The header is erased or already names the image of the session.
MarkInv ==
  /\ faults = 0
  /\ session.img # None => header \in {Erased, session.img}

NoFaults == MaxFaults = 0

LEMMA NothingFails ==
  ASSUME NoFaults, TypeOK, NEW n \in Nat, Failing(n)
  PROVE  n = 0 /\ faults' = faults
  BY DEF NoFaults, TypeOK, BoundsType, Failing

LEMMA CommitMarks ==
  ASSUME NoFaults, TypeOK, Blamed, MarkInv, NEW p \in Phone, ReceiveDataCommit(p)
  PROVE  MarkInv' /\ header' \in Img
<1>1. InSession(air[p])
  BY DEF ReceiveDataCommit
<1>2. session.img \in Img /\ session.img # None
  BY <1>1, InSessionFields DEF InSession
<1>3. PICK ok, marked, kept \in BOOLEAN, failed, missed \in 0..1,
           after \in {Idle, op, Writing(Index(air[p]), air[p].img)} :
        /\ Otap_bufferWrite(Index(air[p]), air[p].img, ok, after, failed)
        /\ session' = [session EXCEPT !.received = Flagged(air[p], ok)]
        /\ Otap_bufferEnd(session.img, after, marked, missed)
        /\ Failing(failed + missed + Count(kept))
  BY DEF ReceiveDataCommit
<1>4. failed = 0 /\ missed = 0 /\ faults' = faults
  <2>1. Count(kept) \in Nat
    BY CountNat
  <2>2. failed + missed + Count(kept) = 0 /\ faults' = faults
    BY <1>3, <2>1, NothingFails
  <2> QED
    BY <2>1, <2>2
<1>5. after = Idle
  <2>1. op = Idle
    BY DEF Blamed, MarkInv
  <2> QED
    BY <1>3, <1>4, <2>1 DEF Otap_bufferWrite, Fault
<1>6. header' = Program(header, session.img)
  BY <1>3, <1>4, <1>5 DEF Otap_bufferEnd, Fault
<1>7. header' = session.img
  BY <1>2, <1>6, HeaderValues DEF MarkInv
<1>8. session'.img = session.img
  BY <1>3 DEF TypeOK, RamType
<1> QED
  BY <1>2, <1>4, <1>7, <1>8 DEF MarkInv

LEMMA ReceiveMarks ==
  ASSUME NoFaults, TypeOK, Blamed, MarkInv, NEW p \in Phone, Receive(p)
  PROVE  /\ MarkInv'
         /\ UNCHANGED settings \/ header' \in Img
<1>1. CASE ReceiveDuplicate(p) \/ ReceiveOutOfSession(p) \/ ReceiveScan(p)
  BY <1>1 DEF ReceiveDuplicate, ReceiveOutOfSession, ReceiveScan, flash,
     bounds, MarkInv
<1>2. CASE ReceiveBegin(p)
  <2>1. PICK ok \in BOOLEAN : Otap_bufferBegin(ok)
    BY <1>2 DEF ReceiveBegin
  <2>2. ~Failing(Fault(op))
    <3>1. Fault(op) = 1
      BY DEF Blamed, MarkInv, Fault
    <3> QED
      BY <3>1, NothingFails
  <2>3. header' = Erased /\ faults' = faults
    BY <2>1, <2>2 DEF Otap_bufferBegin, EraseUpTo
  <2> QED
    BY <1>2, <2>3 DEF ReceiveBegin, MarkInv
<1>3. CASE ReceiveData(p) \/ ReceiveDataAskResend(p)
  <2>1. PICK ok \in BOOLEAN, failures \in 0..1 :
          /\ Failing(failures)
          /\ session' = [session EXCEPT !.received = Flagged(air[p], ok)]
    BY <1>3 DEF ReceiveData, ReceiveDataAskResend
  <2>2. faults' = faults /\ session'.img = session.img
    BY <2>1, NothingFails DEF TypeOK, RamType
  <2> QED
    BY <1>3, <2>2 DEF ReceiveData, ReceiveDataAskResend, MarkInv
<1>4. CASE ReceiveDataCommit(p)
  BY <1>4, CommitMarks
<1> QED
  BY <1>1, <1>2, <1>3, <1>4 DEF Receive

LEMMA ResetMarks ==
  ASSUME NoFaults, TypeOK, MarkInv, ClearOtap \/ Reboot \/ Crash
  PROVE  MarkInv' /\ mode' = "boot"
<1>1. Restarted
  BY DEF ClearOtap, Reboot, Crash, ButtonPress, PowerLossIdle,
     PowerLossInStore, PowerLossInErase, PowerLossInWrite, PowerLossInCommit,
     PowerLoss
<1>2. faults' = faults
  <2>1. CASE \E kept \in BOOLEAN : Failing(Count(kept))
    BY <2>1, CountNat, NothingFails
  <2> QED
    BY <2>1 DEF ClearOtap, Reboot, Crash, ButtonPress, PowerLossIdle,
       PowerLossInStore, PowerLossInErase, PowerLossInWrite,
       PowerLossInCommit, PowerLoss, bounds
<1> QED
  BY <1>1, <1>2 DEF Restarted, NoSession, MarkInv

\* Without a failing flash operation an upload reported as successful is marked
\* in the buffer, however many phones there are and whatever was lost: only a
\* failure of Otap_bufferEnd() or of the erase, whose results nobody looks at or
\* which leaves the session open, makes the answer untrue. (ble.c:455-462, 526-541)
THEOREM MarkedUnlessFault ==
  ASSUME NoFaults
  PROVE  Spec => DoneMeansMarked
<1> DEFINE Marked ==
      mode = "run" /\ mode' = "run" /\ ~settings.doOtap /\ settings'.doOtap
        => header' \in Img
<1>1. Init => TypeOK /\ OnAir /\ Blamed /\ MarkInv
  BY InitType, InitOnAir, InitIInv DEF Init, NoSession, MarkInv, IInv
<1>2. TypeOK /\ Blamed /\ MarkInv /\ [Next]_vars => MarkInv' /\ Marked
  <2> SUFFICES ASSUME TypeOK, Blamed, MarkInv, [Next]_vars
               PROVE  MarkInv' /\ Marked
    OBVIOUS
  <2>1. CASE UNCHANGED <<session, settings, header, faults>>
    BY <2>1 DEF MarkInv
  <2>2. CASE Boot
    <3>1. faults' = faults
      BY <2>2, CountNat, NothingFails DEF Boot
    <3> QED
      BY <2>2, <3>1 DEF Boot, flash, MarkInv
  <2>3. CASE Otap_process
    <3>1. faults' = faults
      BY <2>3, CountNat, NothingFails DEF Otap_process
    <3> QED
      BY <2>3, <3>1 DEF Otap_process, MarkInv
  <2>4. CASE ClearOtap \/ Reboot \/ Crash
    BY <2>4, ResetMarks
  <2>5. ASSUME NEW p \in Phone, Receive(p) PROVE MarkInv' /\ Marked
    BY <2>5, ReceiveMarks
  <2>6. CASE SendTask \/ PhoneControl \/ UNCHANGED vars
               \/ \E p \in Phone, i \in Indices : AnyData(p, i)
    BY <2>1, <2>6 DEF SendTask, PhoneControl, AnyData, NodeUnchanged, vars,
       flash, bounds
  <2>7. CASE LateEnd
    <3>1. op # Idle
      BY <2>7 DEF LateEnd, Idle
    <3> QED
      BY <3>1 DEF Blamed, MarkInv
  <2> QED
    BY <2>2, <2>3, <2>4, <2>5, <2>6, <2>7 DEF Next, Node, Start
<1>3. Spec => [][Marked]_vars
  BY <1>1, <1>2, TypeInductive, BlamedInductive, PTL DEF Spec
<1> QED
  BY <1>3 DEF DoneMeansMarked

=============================================================================
