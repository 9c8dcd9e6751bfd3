---------------------------- MODULE UpdateProofs ----------------------------
(***************************************************************************)
(* Proof that module Upload implements module Update, for one phone and    *)
(* images that lie in the erased sectors.                                  *)
(*                                                                         *)
(* The invariant of UploadProofs says that the header is erased, or        *)
(* already announces the image of the session, while a package can arrive, *)
(* and that a mark that comes late finds it so: no mark replaces an image. *)
(* One fact is added: there is no session until start-up is over, and no   *)
(* flash operation goes on, so nothing is offered or pending while an      *)
(* image is installed.                                                     *)
(***************************************************************************)
EXTENDS UploadProofs

NothingAtBoot == mode # "run" => session.img = None /\ op = Idle

UInv == IInv /\ NothingAtBoot

Failed == faults > 0

Stutters == UNCHANGED <<session.img, Kept, Pending, Failed, installed>>

-----------------------------------------------------------------------------

LEMMA SpecialValues ==
  /\ \A v \in {None, Erased, Mixed, Spoilt} : v \notin Img
  /\ Erased # Mixed /\ Erased # None
  BY UploadAssumption DEF None, Erased, Mixed, Spoilt

LEMMA SameHeaderKeeps == UNCHANGED header => UNCHANGED Kept
  BY DEF Kept

\* An erase and a mark that go on are pending, an operation on a cell is not.
LEMMA PendingValues ==
  /\ op.kind \in {"idle", "write"} => Pending = None
  /\ op.kind = "erase" => Pending = Erased
  /\ op.kind = "mark" => Pending = op.img
  BY DEF Pending

LEMMA IdlePending ==
  /\ op = Idle => Pending = None
  /\ op' = Idle => Pending' = None
  /\ UNCHANGED op => UNCHANGED Pending
  BY DEF Idle, Pending

LEMMA FailedIf ==
  ASSUME faults \in Nat, faults' \in Nat, faults > 0 => faults' > 0
  PROVE  Failed' \in {Failed, TRUE}
<1>1. CASE faults > 0
  <2>1. Failed' = TRUE
    BY <1>1 DEF Failed
  <2> QED
    BY <2>1
<1>2. CASE ~(faults > 0)
  <2>1. Failed = FALSE
    BY <1>2 DEF Failed
  <2>2. Failed' \in BOOLEAN
    BY DEF Failed
  <2> QED
    BY <2>1, <2>2
<1> QED
  BY <1>1, <1>2

\* What has failed has failed for good.
LEMMA FailedStays ==
  ASSUME IInv, [Next]_vars
  PROVE  Failed' \in {Failed, TRUE}
<1>0. TypeOK /\ faults \in Nat /\ faults' \in Nat
  BY TypeInductive DEF IInv, TypeOK, BoundsType
<1>1. ASSUME UNCHANGED faults PROVE Failed' \in {Failed, TRUE}
  BY <1>1 DEF Failed
<1>2. ASSUME NEW n \in Nat, Failing(n) PROVE Failed' \in {Failed, TRUE}
  <2>1. faults > 0 => faults' > 0
    BY <1>0, <1>2, Grows
  <2> QED
    BY <1>0, <2>1, FailedIf
<1>3. Start => Failed' \in {Failed, TRUE}
  BY <1>1, <1>2, CountNat DEF Start, Boot, Otap_process, ClearOtap
<1>4. Crash => Failed' \in {Failed, TRUE}
  BY <1>1, <1>2, CountNat
     DEF Crash, ButtonPress, PowerLossIdle, PowerLossInStore, PowerLossInErase,
         PowerLossInWrite, PowerLossInCommit, PowerLoss
<1>5. ASSUME NEW p \in Phone, Receive(p) PROVE Failed' \in {Failed, TRUE}
  BY <1>0, <1>5, FaultsGrow, FailedIf
<1> QED
  BY <1>1, <1>3, <1>4, <1>5
     DEF Next, Node, SendTask, Reboot, LateEnd, PhoneControl, AnyData,
         NodeUnchanged, vars, bounds

\* A step of which nothing but a failure can be seen.
LEMMA NothingShows ==
  ASSUME IInv, [Next]_vars,
         UNCHANGED <<session.img, Kept, Pending, installed>>
  PROVE  Promised!Next \/ Stutters
<1>1. CASE UNCHANGED Failed
  BY <1>1 DEF Stutters
<1>2. CASE Failed' = TRUE
  BY <1>2 DEF Failed, Promised!Fail, Promised!Next
<1> QED
  BY <1>1, <1>2, FailedStays

\* A mark that goes on finds the header erased, or announcing its image.
LEMMA MarkPending ==
  ASSUME IInv, op.kind = "mark"
  PROVE  /\ op.img \in Img /\ header \in {Erased, op.img}
         /\ Pending = op.img /\ Kept \in {None, op.img}
<1>1. op.img \in Img /\ header \in {Erased, op.img}
  BY OperationFields DEF IInv, TypeOK, FlashType, OpInv, Fresh
<1> QED
  BY <1>1, PendingValues, SpecialValues DEF Kept

\* A reset breaks the upload off, whatever the flash was doing.
LEMMA ResetBreaksOff ==
  ASSUME UInv, [Next]_vars, Restarted, UNCHANGED installed,
         Interrupted \/ header' \in {header, Erased, Mixed}
  PROVE  Promised!Next
<1>1. session'.img = None /\ Pending' = None
  BY IdlePending DEF Restarted, NoSession
<1>2. Failed' \in {Failed, TRUE}
  BY FailedStays DEF UInv
<1>3. ASSUME Kept' \in {Kept, None} \/ (Pending # None /\ Promised!Settled(Kept'))
      PROVE  Promised!Next
  BY <1>1, <1>2, <1>3
     DEF Failed, Promised!BreakOff, Promised!MayFail, Promised!Next
<1>4. CASE header' \in {header, Erased, Mixed}
  <2>1. Kept' \in {Kept, None}
    BY <1>4, SpecialValues DEF Kept
  <2> QED
    BY <1>3, <2>1
<1>5. CASE op.kind = "mark" /\ header' \in {Cut(header, op.img), Program(header, op.img)}
  <2>1. /\ op.img \in Img /\ header \in {Erased, op.img}
        /\ Pending = op.img /\ Kept \in {None, op.img}
    BY <1>5, MarkPending DEF UInv
  <2>2. header' \in {Mixed, op.img}
    <3>1. Program(header, op.img) = op.img
      BY <2>1, HeaderValues
    <3>2. Cut(header, op.img) \in {Mixed, op.img}
      BY <2>1, HeaderValues
    <3> QED
      BY <1>5, <3>1, <3>2
  <2>3. Kept' \in {None, op.img}
    BY <2>2, SpecialValues DEF Kept
  <2>4. Pending # None /\ Pending # Erased
    BY <2>1, SpecialValues
  <2> QED
    BY <1>3, <2>1, <2>3, <2>4 DEF Promised!Settled
<1> QED
  BY <1>4, <1>5 DEF Interrupted, EraseUpTo

\* A package of the session finds nothing kept, or the image offered.
LEMMA SessionKeeps ==
  ASSUME UInv, ImagesFit, NEW p \in Phone, InSession(air[p])
  PROVE  /\ session.img \in Img /\ session.img # None
         /\ header \in {Erased, session.img}
         /\ Kept \in {None, session.img}
<1>1. session.img \in Img /\ header \in {Erased, session.img}
  BY SendersOwn DEF UInv, Fresh
<1> QED
  BY <1>1, SpecialValues DEF Kept

LEMMA NothingAtBootStep ==
  ASSUME NothingAtBoot, [Next]_vars
  PROVE  NothingAtBoot'
<1>1. CASE Restarted
  BY <1>1 DEF NothingAtBoot, Restarted, NoSession
<1>2. CASE UNCHANGED <<mode, session, op>>
  BY <1>2 DEF NothingAtBoot
<1>3. CASE Start
  <2>1. CASE Boot
    BY <2>1 DEF NothingAtBoot, Boot, flash
  <2>2. CASE Otap_process
    BY <2>2 DEF NothingAtBoot, Otap_process
  <2> QED
    BY <1>1, <1>3, <2>1, <2>2 DEF Start, ClearOtap
<1>4. ASSUME NEW p \in Phone, Receive(p)
      PROVE  NothingAtBoot'
  <2>1. mode' = mode /\ mode = "run"
    BY <1>4 DEF Receive, ReceiveDuplicate, ReceiveOutOfSession, ReceiveScan,
                ReceiveBegin, ReceiveData, ReceiveDataAskResend,
                ReceiveDataCommit, Accepts, New, Audible
  <2> QED
    BY <2>1 DEF NothingAtBoot
<1>5. Crash => Restarted
  BY DEF Crash, ButtonPress, PowerLossIdle, PowerLossInStore, PowerLossInErase,
         PowerLossInWrite, PowerLossInCommit, PowerLoss
<1>6. SendTask \/ PhoneControl \/ (\E p \in Phone, i \in Indices : AnyData(p, i))
        \/ UNCHANGED vars => UNCHANGED <<mode, session, op>>
  BY DEF SendTask, PhoneControl, AnyData, NodeUnchanged, vars, flash
<1>7. Reboot => Restarted
  BY DEF Reboot
<1>8. LateEnd => NothingAtBoot'
  BY DEF LateEnd, NothingAtBoot
<1> QED
  BY <1>1, <1>2, <1>3, <1>4, <1>5, <1>6, <1>7, <1>8 DEF Next, Node

-----------------------------------------------------------------------------
(* Every step is one of module Update or none.                             *)

LEMMA InstallPromised ==
  ASSUME UInv, Blamed', [Next]_vars, Otap_process
  PROVE  Promised!Next \/ Stutters
<1>1. /\ UNCHANGED <<session.img, Kept, Pending>>
      /\ session.img = None /\ Pending = None
  BY SameHeaderKeeps, IdlePending DEF Otap_process, UInv, NothingAtBoot
<1>2. CASE UNCHANGED installed
  BY <1>1, <1>2, NothingShows DEF UInv
<1>3. ASSUME header \in Img, NEW read \in BOOLEAN, installed' = Given(read),
             Failing(Count(read))
      PROVE  Promised!Next
  <2>1. Kept = header /\ Kept # None
    BY <1>3, SpecialValues DEF Kept
  <2>2. CASE installed' = Spoilt
    <3>1. Failed' = TRUE
      BY <2>2 DEF Failed, Blamed
    <3> QED
      BY <1>1, <2>1, <2>2, <3>1 DEF Failed, Promised!Install, Promised!Next
  <2>3. CASE installed' # Spoilt
    <3>1. installed' = header
      BY <1>3, <2>3, WholeGiven DEF UInv
    <3>2. read
      <4> SUFFICES ASSUME ~read PROVE FALSE
        OBVIOUS
      <4>1. Given(read) \in {Spoilt, Mixed}
        BY DEF Given
      <4> QED
        BY <1>3, <3>1, <4>1, SpecialValues
    <3>3. UNCHANGED Failed
      <4>1. faults \in Nat /\ faults' = faults + 0
        BY <1>3, <3>2 DEF UInv, IInv, TypeOK, BoundsType, Failing, Count
      <4> QED
        BY <4>1 DEF Failed
    <3> QED
      BY <1>1, <2>1, <3>1, <3>3 DEF Failed, Promised!Install, Promised!Next
  <2> QED
    BY <2>2, <2>3
<1> QED
  BY <1>2, <1>3 DEF Otap_process

LEMMA StartPromised ==
  ASSUME UInv, Blamed', [Next]_vars, Start
  PROVE  Promised!Next \/ Stutters
<1>1. CASE Boot
  <2>1. UNCHANGED <<session.img, Kept, Pending, installed>>
    BY <1>1, SameHeaderKeeps, IdlePending DEF Boot, flash
  <2> QED
    BY <2>1, NothingShows DEF UInv
<1>2. CASE ClearOtap
  BY <1>2, ResetBreaksOff DEF ClearOtap
<1> QED
  BY <1>1, <1>2, InstallPromised DEF Start

LEMMA CrashPromised ==
  ASSUME UInv, ImagesFit, [Next]_vars, Crash
  PROVE  Promised!Next \/ Stutters
<1>1. CASE ButtonPress \/ PowerLossIdle \/ PowerLossInStore
  BY <1>1, ResetBreaksOff
     DEF ButtonPress, PowerLossIdle, PowerLossInStore, PowerLoss
<1>2. ASSUME NEW p \in Phone, PowerLossInErase(p) \/ PowerLossInWrite(p)
      PROVE  Promised!Next
  BY <1>2, ResetBreaksOff
     DEF PowerLossInErase, PowerLossInWrite, PowerLoss, EraseUpTo
<1>3. ASSUME NEW p \in Phone, PowerLossInCommit(p) PROVE Promised!Next
  <2>1. Restarted /\ UNCHANGED <<installed, faults>> /\ op = Idle
    BY <1>3 DEF PowerLossInCommit, PowerLoss, Otap_bufferWrite
  <2>2. /\ session.img \in Img /\ session.img # None
        /\ header \in {Erased, session.img}
        /\ Kept \in {None, session.img}
    BY <1>3, SessionKeeps DEF PowerLossInCommit
  <2>3. CASE header' = Cut(header, session.img)
    <3>1. header' \in {Mixed, header}
      BY <2>2, <2>3, SpecialValues, UploadAssumption DEF Cut, Program
    <3> QED
      BY <2>1, <3>1, ResetBreaksOff
  <2>4. CASE Otap_bufferEnd(session.img, Idle, TRUE, 0)
    <3>1. header' = session.img
      BY <2>2, <2>4, HeaderValues DEF Otap_bufferEnd
    <3>2. Kept' = session.img
      BY <2>2, <3>1 DEF Kept
    <3>3. session'.img = None /\ Pending = None /\ Pending' = None
      BY <2>1, IdlePending DEF Restarted, NoSession
    <3> QED
      BY <2>1, <2>2, <3>2, <3>3
         DEF Promised!Keep, Promised!MayFail, Promised!Next
  <2> QED
    BY <1>3, <2>3, <2>4 DEF PowerLossInCommit
<1> QED
  BY <1>1, <1>2, <1>3 DEF Crash

\* What went on comes to its end.
LEMMA LateEndPromised ==
  ASSUME UInv, LateEnd, [Next]_vars
  PROVE  Promised!Next \/ Stutters
<1>1. UNCHANGED <<session.img, Failed, installed>> /\ Pending' = None
  BY IdlePending DEF LateEnd, bounds, Failed
<1>2. ASSUME Pending # None, Promised!Settled(Kept') PROVE Promised!Next
  BY <1>1, <1>2 DEF Failed, Promised!Settle, Promised!Next
<1>3. CASE op.kind = "erase" /\ EraseUpTo(ErasedCells)
  <2>1. Kept' = None /\ Pending = Erased
    BY <1>3, PendingValues, SpecialValues DEF EraseUpTo, Kept
  <2>2. Pending # None /\ Promised!Settled(Kept')
    BY <2>1, SpecialValues DEF Promised!Settled
  <2> QED
    BY <1>2, <2>2
<1>4. CASE op.kind = "write" /\ UNCHANGED header
  <2>1. UNCHANGED Kept /\ Pending = None
    BY <1>4, PendingValues, SameHeaderKeeps
  <2> QED
    BY <1>1, <2>1 DEF Stutters
<1>5. CASE op.kind = "mark" /\ header' = Program(header, op.img)
  <2>1. /\ op.img \in Img /\ header \in {Erased, op.img}
        /\ Pending = op.img /\ Kept \in {None, op.img}
    BY <1>5, MarkPending DEF UInv
  <2>2. header' = op.img
    BY <1>5, <2>1, HeaderValues
  <2>3. Kept' = op.img
    BY <2>1, <2>2 DEF Kept
  <2> QED
    BY <1>2, <2>1, <2>3, SpecialValues DEF Promised!Settled
<1> QED
  BY <1>3, <1>4, <1>5 DEF LateEnd

LEMMA BeginPromised ==
  ASSUME UInv, Blamed', [Next]_vars, NEW p \in Phone, ReceiveBegin(p)
  PROVE  Promised!Next
<1>1. air[p].img \in Img
  BY MessageFields DEF ReceiveBegin, UInv, IInv, TypeOK, PhoneType
<1>2. session'.img = air[p].img /\ UNCHANGED installed
  BY DEF ReceiveBegin, NewSession
<1>3. Failed' \in {Failed, TRUE}
  BY FailedStays DEF UInv
<1>4. ASSUME Promised!Offer(air[p].img) PROVE Promised!Next
  BY <1>1, <1>4 DEF Promised!Next
<1>5. CASE Otap_bufferBegin(TRUE)
  <2>1. /\ op = Idle /\ op' = Idle /\ header' = Erased /\ UNCHANGED faults
    BY <1>5 DEF Otap_bufferBegin, EraseUpTo
  <2>2. Pending = None /\ Pending' = None /\ Kept' = None
    BY <2>1, IdlePending, SpecialValues DEF Kept
  <2> QED
    BY <1>2, <1>4, <2>1, <2>2 DEF Promised!Offer
<1>6. CASE Otap_bufferBegin(FALSE)
  <2>1. op' \in GoesOn(op, Erasing) /\ UNCHANGED Kept
    BY <1>6, SameHeaderKeeps DEF Otap_bufferBegin
  <2>2. CASE op' = op
    <3>1. UNCHANGED Pending
      BY <2>2, IdlePending
    <3> QED
      BY <1>2, <1>3, <1>4, <2>1, <3>1
         DEF Failed, Promised!Offer, Promised!MayFail
  <2>3. CASE op = Idle /\ op' = Erasing
    <3>1. Pending = None /\ Pending' = Erased
      BY <2>3, IdlePending DEF Pending, Erasing
    <3>2. faults' > 0
      BY <2>3 DEF Blamed, Erasing, Idle
    <3> QED
      BY <1>2, <1>4, <2>1, <3>1, <3>2 DEF Promised!Offer
  <2> QED
    BY <2>1, <2>2, <2>3 DEF GoesOn
<1> QED
  BY <1>5, <1>6 DEF ReceiveBegin

LEMMA CommitPromised ==
  ASSUME UInv, ImagesFit, Blamed', [Next]_vars, NEW p \in Phone,
         ReceiveDataCommit(p), UNCHANGED session.img
  PROVE  Promised!Next \/ Stutters
<1>1. /\ session.img \in Img /\ session.img # None
      /\ header \in {Erased, session.img}
      /\ Kept \in {None, session.img}
  BY SessionKeeps DEF ReceiveDataCommit
<1>2. Failed' \in {Failed, TRUE} /\ UNCHANGED installed
  BY FailedStays DEF UInv, ReceiveDataCommit
<1>3. PICK ok, marked \in BOOLEAN, failed, missed \in 0..1,
           after \in {Idle, op, Writing(Index(air[p]), air[p].img)} :
        /\ Otap_bufferWrite(Index(air[p]), air[p].img, ok, after, failed)
        /\ Otap_bufferEnd(session.img, after, marked, missed)
  BY DEF ReceiveDataCommit
<1>4. Writing(Index(air[p]), air[p].img).kind = "write"
  BY DEF Writing
<1>5. op # Idle => after = op
  BY <1>3 DEF Otap_bufferWrite, GoesOn
<1>6. op = Idle => after \in {Idle, Writing(Index(air[p]), air[p].img)}
  BY <1>3
<1>7. CASE marked
  <2>1. op = Idle /\ op' = Idle /\ header' = session.img
    BY <1>1, <1>3, <1>5, <1>7, HeaderValues DEF Otap_bufferEnd
  <2>2. Pending = None /\ Pending' = None /\ Kept' = session.img
    BY <1>1, <2>1, IdlePending DEF Kept
  <2> QED
    BY <1>1, <1>2, <2>2
       DEF Failed, Promised!Keep, Promised!MayFail, Promised!Next
<1>8. CASE ~marked
  <2>1. op' \in GoesOn(after, Marking(session.img)) /\ UNCHANGED Kept
    BY <1>3, <1>8, SameHeaderKeeps DEF Otap_bufferEnd
  <2>2. CASE UNCHANGED Pending
    BY <1>2, <2>1, <2>2, NothingShows DEF UInv
  <2>3. CASE after = Idle
    <3>1. op = Idle /\ op' \in {Idle, Marking(session.img)}
      BY <1>5, <2>1, <2>3 DEF GoesOn
    <3>2. CASE op' = Marking(session.img)
      <4>1. Pending = None /\ Pending' = session.img
        BY <3>1, <3>2, IdlePending DEF Pending, Marking
      <4>2. faults' > 0
        BY <3>2 DEF Blamed, Marking, Idle
      <4>3. Failed' = TRUE
        BY <4>2 DEF Failed
      <4> QED
        BY <1>1, <1>2, <2>1, <4>1, <4>3
           DEF Failed, Promised!Keep, Promised!MayFail, Promised!Next
    <3> QED
      BY <2>2, <3>1, <3>2, IdlePending
  <2>4. CASE after # Idle
    <3>1. op' = after
      BY <2>1, <2>4 DEF GoesOn
    <3>2. CASE op # Idle
      BY <1>5, <2>2, <3>1, <3>2, IdlePending
    <3>3. CASE op = Idle
      <4>1. op'.kind = "write" /\ Pending = None
        BY <1>4, <1>6, <2>4, <3>1, <3>3, IdlePending
      <4>2. Pending' = None
        BY <4>1 DEF Pending
      <4> QED
        BY <2>2, <4>1, <4>2
    <3> QED
      BY <3>2, <3>3
  <2> QED
    BY <2>3, <2>4
<1> QED
  BY <1>7, <1>8

LEMMA ReceivePromised ==
  ASSUME UInv, ImagesFit, Blamed', [Next]_vars, NEW p \in Phone, Receive(p)
  PROVE  Promised!Next \/ Stutters
<1>1. CASE ReceiveDuplicate(p) \/ ReceiveOutOfSession(p) \/ ReceiveScan(p)
  <2>1. UNCHANGED <<session.img, Kept, Pending, installed>>
    BY <1>1, SameHeaderKeeps, IdlePending
       DEF ReceiveDuplicate, ReceiveOutOfSession, ReceiveScan, flash
  <2> QED
    BY <2>1, NothingShows DEF UInv
<1>2. ASSUME NEW got, session' = [session EXCEPT !.received = got]
      PROVE  UNCHANGED session.img
  <2>1. session \in [img : Img \cup {None}, received : SUBSET Nat]
    BY DEF UInv, IInv, TypeOK, RamType
  <2> QED
    BY <1>2, <2>1
<1>3. CASE ReceiveData(p) \/ ReceiveDataAskResend(p)
  <2>1. UNCHANGED <<session.img, Kept, installed>>
    BY <1>2, <1>3, SameHeaderKeeps DEF ReceiveData, ReceiveDataAskResend
  <2>2. PICK ok \in BOOLEAN, failures \in 0..1 :
          Otap_bufferWrite(Index(air[p]), air[p].img, ok, op', failures)
    BY <1>3 DEF ReceiveData, ReceiveDataAskResend
  <2>3. \/ UNCHANGED op
        \/ op = Idle /\ op' \in {Idle, Writing(Index(air[p]), air[p].img)}
    BY <2>2 DEF Otap_bufferWrite, GoesOn
  <2>4. UNCHANGED Pending
    <3>1. op' = Writing(Index(air[p]), air[p].img) => Pending' = None
      BY DEF Pending, Writing
    <3> QED
      BY <2>3, <3>1, IdlePending
  <2> QED
    BY <2>1, <2>4, NothingShows DEF UInv
<1>4. CASE ReceiveDataCommit(p)
  BY <1>2, <1>4, CommitPromised DEF ReceiveDataCommit
<1> QED
  BY <1>1, <1>3, <1>4, BeginPromised DEF Receive

LEMMA StepPromised ==
  ASSUME UInv, ImagesFit, [Next]_vars
  PROVE  Promised!Next \/ Stutters
<1>1. Blamed'
  BY BlamedInductive DEF UInv, IInv
<1>2. CASE \/ SendTask \/ PhoneControl \/ UNCHANGED vars
           \/ \E p \in Phone, i \in Indices : AnyData(p, i)
  <2>1. UNCHANGED <<session.img, Kept, Pending, Failed, installed>>
    BY <1>2, SameHeaderKeeps, IdlePending
       DEF SendTask, PhoneControl, AnyData, NodeUnchanged, vars, flash, bounds,
           Failed
  <2> QED
    BY <2>1 DEF Stutters
<1>3. CASE Reboot
  BY <1>3, ResetBreaksOff DEF Reboot
<1> QED
  BY <1>1, <1>2, <1>3, StartPromised, CrashPromised, LateEndPromised,
     ReceivePromised DEF Next, Node

LEMMA InitPromised == Init => Promised!Init /\ UInv
<1> SUFFICES ASSUME Init PROVE Promised!Init /\ UInv
  OBVIOUS
<1>1. /\ session.img = None /\ header = Erased /\ op = Idle
      /\ faults = 0 /\ installed = None
  BY DEF Init, NoSession
<1>2. Kept = None /\ Pending = None
  BY <1>1, IdlePending, SpecialValues DEF Kept
<1>3. (faults > 0) = FALSE
  BY <1>1
<1>4. Promised!Init
  BY <1>1, <1>2, <1>3 DEF Promised!Init
<1>5. NothingAtBoot
  BY <1>1 DEF NothingAtBoot
<1> QED
  BY <1>4, <1>5, InitIInv DEF UInv

\* Packages, flash operations, faults, resets and the answers to the phone
\* implement an update: an image is kept only as a whole and after it was
\* announced, also when its mark outlasts the time-out, is not replaced before
\* the buffer was given up, and is installed as it was kept, never while an
\* upload goes on.  Excepted is a failure of a write or a read, after which what
\* is installed may be spoilt. (ble.c:427-551, otap.c:54-286, app.c:84-100)
THEOREM UploadImplementsUpdate ==
  ASSUME OnePhone, ImagesFit
  PROVE  Spec => ImplementsUpdate
<1>1. UInv /\ [Next]_vars => UInv'
  BY Inductive, NothingAtBootStep DEF UInv
<1>2. UInv /\ [Next]_vars => [Promised!Next]_(Promised!vars)
  BY StepPromised DEF Stutters, Failed, Promised!vars
<1>3. Init => Promised!Init /\ UInv
  BY InitPromised
<1> QED
  BY <1>1, <1>2, <1>3, PTL DEF Spec, ImplementsUpdate, Promised!Spec

=============================================================================
