--------------------------- MODULE TransferProofs ---------------------------
(***************************************************************************)
(* Proofs about module Transfer, for images, packages and areas of any     *)
(* size, as long as the ids of the packages do not wrap.                   *)
(*                                                                         *)
(* While the phone sends, the erased part of the area holds nothing but    *)
(* bytes of its image, each in its place, except where a write has gone on *)
(* after its time-out.  That is so because the phone is heard only when    *)
(* the erase was done in time, which also means that no operation of the   *)
(* session before is still going on.                                       *)
(***************************************************************************)
EXTENDS Transfer, OtapLayoutProofs

\* The hypothesis of the theorems.  From 32769 packages on the range of ids is
\* empty; from 65537 on it is a part of the image that is taken for all of it.
RangesFit == \A img \in Img : Packages(Length[img], Package[img]) <= 65536

Total(img) == TotalMessages(Length[img], Package[img])

\* The phone sends, and the node listens.
Open == session # NoSession /\ offer # None

\* The session is the phone's, and without a phone nothing is received.
SessionInv ==
  /\ Open => session = NewSession(offer)
  /\ ~Open => flags = {}

\* What a package leaves behind that was written in time.
Placed(img, i) ==
  /\ InArea(Offset(i, Package[img]), Package[img])
  /\ \A k \in 0..Length[img] - 1 : k \div Package[img] = i => Holds(img, k)

FlagsInv == Open => \A i \in Indices : Flag(i) \in flags => Placed(offer, i)

\* Nothing else is in the erased part of the area.
Clean(img) ==
  \A k \in Positions :
    k < Length[img] /\ IsErased(k) =>
      area[k] \in {Erased, Byte(img, k)} \/ k \in late

AreaInv == Open => Clean(offer)

\* The whole image is there, with the padding of its last package.
Whole(img) ==
  /\ \A k \in 0..Length[img] - 1 : k \in Positions /\ Holds(img, k)
  /\ InArea(0, Package[img] * Total(img))

HeaderInv ==
  header \in Img => /\ Whole(header)
                    /\ Open /\ ErasedSize > 0 => header = offer

\* Operations that go on after their time-out.
OpInv ==
  /\ op.kind = "write" =>
       /\ op = Writing(op.from, op.done, op.amount)
       /\ op.from \in Nat /\ op.amount \in Nat /\ op.done \in Nat
       /\ op.from..op.from + op.amount - 1 \subseteq late
  /\ op.kind = "erase" => offer = None
  /\ op.kind = "mark" => Whole(op.img) /\ (Open => op.img = offer)
  /\ mode # "run" => op = Idle

\* What has been handed on is the buffer, up to position next.
BlocksInv ==
  /\ mode = "header" => next = 0
  /\ mode \in {"blocks", "set"} =>
       /\ header \in Img
       /\ next = Block * (next \div Block)
       /\ \A k \in 0..Length[header] - 1 :
            k < next => \/ scratch[k] = area[k]
                        \/ k \div Block \in lost
                        \/ ~InArea(Block * (k \div Block), Block)
       /\ mode = "set" => next >= Length[header]

IInv ==
  /\ TypeOK
  /\ SessionInv
  /\ FlagsInv
  /\ AreaInv
  /\ HeaderInv
  /\ OpInv
  /\ BlocksInv

-----------------------------------------------------------------------------
(* Sizes and packages.                                                     *)

LEMMA Sizes0 ==
  /\ UsableSize \in Nat /\ ErasedSize \in Nat /\ HeaderSize \in Nat
  /\ Positions = 0..UsableSize - 1
  /\ \A k \in Int : k \in Positions <=> 0 <= k /\ HeaderSize + k + 1 <= AreaSize
<1>1. UsableSize \in Nat /\ HeaderSize \in Nat /\ AreaSize \in Nat
  BY LayoutAssumption DEF UsableSize
<1>2. UsableSize \div SectorSize \in Nat
  BY <1>1, LayoutAssumption, DivMod
<1>3. ErasedSize \in Nat
  BY <1>2, LayoutAssumption DEF ErasedSize
<1> QED
  BY <1>1, <1>3 DEF Positions, UsableSize

LEMMA ImgSizes ==
  ASSUME NEW img \in Img
  PROVE  /\ Length[img] \in Nat \ {0} /\ Package[img] \in Nat \ {0}
         /\ 0..Package[img] - 1 \subseteq RxPositions
         /\ 0..Length[img] - 1 \subseteq ImgPositions
  BY TransferAssumption DEF RxPositions, ImgPositions

LEMMA Specials ==
  /\ None \notin Img /\ Erased \notin Img /\ Spoilt \notin Img
  /\ NoSession.seq = None
  /\ \A img \in Img : NewSession(img) # NoSession
<1>1. \A img : NewSession(img).seq = img
  BY DEF NewSession
<1> QED
  BY <1>1, TransferAssumption DEF NoSession

LEMMA SessionFields ==
  ASSUME NEW img \in Img
  PROVE  /\ NewSession(img).seq = img
         /\ NewSession(img).len = Length[img]
         /\ NewSession(img).pkg = Package[img]
         /\ NewSession(img).start = FirstId
         /\ NewSession(img).total = Total(img)
  BY DEF NewSession, Total

LEMMA FlagInjective ==
  ASSUME NEW i \in Nat, NEW j \in Nat, Flag(i) = Flag(j)
  PROVE  i = j
<1>1. i \div 8 = j \div 8 /\ i % 8 = j % 8
  BY DEF Flag
<1>2. i = 8 * (i \div 8) + (i % 8) /\ j = 8 * (j \div 8) + (j % 8)
  BY DivMod
<1> QED
  BY <1>1, <1>2

LEMMA TotalFacts ==
  ASSUME NEW img \in Img, Packages(Length[img], Package[img]) <= 32768
  PROVE  /\ Total(img) \in Nat \ {0}
         /\ \A k \in 0..Length[img] - 1 :
              /\ k \div Package[img] \in 0..Total(img) - 1
              /\ \A i \in Nat :
                   /\ Offset(i, Package[img]) <= k
                   /\ k < Offset(i, Package[img]) + Package[img]
                   <=> i = k \div Package[img]
  BY ImgSizes, RangeIsImage, ByteInOnePackage DEF Total

\* In a session for more packages no id is in range.
LEMMA RangeEmpty ==
  ASSUME RangesFit, NEW img \in Img, NEW id \in Nat, session = NewSession(img),
         InRange(id)
  PROVE  Packages(Length[img], Package[img]) <= 32768
<1> DEFINE n == Packages(Length[img], Package[img])
<1>1. n \in Nat /\ n <= 65536
  BY ImgSizes, PackagesCeil DEF RangesFit
<1>2. FirstId <= id /\ id <= U16(FirstId + n - 1)
  <2>1. session.start = FirstId
        /\ session.end = EndMessageId(Length[img], Package[img])
    BY DEF NewSession
  <2>2. FirstId + Length[img] \div Package[img]
          + (IF Length[img] % Package[img] = 0 THEN 0 ELSE 1) - 1
        = FirstId + n - 1
    <3>1. Length[img] \div Package[img] \in Nat
      BY ImgSizes, DivMod
    <3> QED
      BY <3>1 DEF Packages, FirstId
  <2>3. EndMessageId(Length[img], Package[img]) = U16(FirstId + n - 1)
    BY <2>2 DEF EndMessageId
  <2> QED
    BY <2>1, <2>3 DEF InRange
<1> HIDE DEF n
<1>3. ASSUME n > 32768
      PROVE  FALSE
  <2>1. FirstId + n - 1 = 65536 + (n - 32769)
    BY <1>1 DEF FirstId
  <2>2. (65536 + (n - 32769)) % 65536 = n - 32769
    BY <1>1, <1>3
  <2> QED
    BY <1>1, <1>2, <2>1, <2>2 DEF U16, FirstId
<1> QED
  BY <1>1, <1>3 DEF n

LEMMA OffsetNat ==
  ASSUME NEW img \in Img, NEW i \in Nat
  PROVE  Offset(i, Package[img]) \in Nat
  BY ImgSizes DEF Offset

LEMMA IndicesNat == Indices \subseteq Nat
<1>1. \A n \in Int : U16(n) \in Nat
  BY DEF U16
<1>2. \A img \in Img : TotalMessages(Length[img], Package[img]) \in Nat
  <2>1. TAKE img \in Img
  <2>2. Length[img] \in Nat /\ Package[img] \in Nat \ {0}
    BY <2>1, ImgSizes
  <2>3. Length[img] \div Package[img] \in Nat
    BY <2>2, DivMod
  <2>4. EndMessageId(Length[img], Package[img]) \in Nat
    BY <2>2, <2>3, <1>1 DEF EndMessageId, FirstId
  <2> QED
    BY <2>4, <1>1 DEF TotalMessages, FirstId
<1> QED
  BY <1>2 DEF Indices

\* Short, padded or full: the bytes of the image are in their places.
LEMMA PackageContent ==
  ASSUME NEW img \in Img, NEW i \in Nat, NEW n \in Sizes(img, i),
         NEW k \in Nat, k < Length[img],
         Offset(i, Package[img]) <= k,
         k < Offset(i, Package[img]) + Package[img]
  PROVE  Copied(PackageBytes(img, i, n))[k - Offset(i, Package[img])]
           = Byte(img, k)
<1> DEFINE at == Offset(i, Package[img])
           j == k - at
<1>1. at \in Nat /\ Package[img] \in Nat \ {0} /\ Length[img] \in Nat \ {0}
  BY ImgSizes, OffsetNat
<1>2. n \in {Package[img], Length[img] - at}
  BY DEF Sizes
<1>3. j \in 0..n - 1 /\ j \in 0..Package[img] - 1 /\ at + j = k
  BY <1>1, <1>2
<1>4. j \in RxPositions
  BY <1>3, ImgSizes
<1>5. PackageBytes(img, i, n)[j] = Byte(img, k) /\ j \in DOMAIN PackageBytes(img, i, n)
  BY <1>3 DEF PackageBytes
<1> QED
  BY <1>4, <1>5 DEF Copied

-----------------------------------------------------------------------------
(* What a step of the flash leaves of an image.                            *)

LEMMA ErasedInArea ==
  /\ \A k \in Nat : IsErased(k) => k \in Positions /\ ErasedSize > 0
  /\ \A k \in Positions : k \in Nat
<1>1. UsableSize \div SectorSize \in Nat
      /\ UsableSize = SectorSize * (UsableSize \div SectorSize) + (UsableSize % SectorSize)
      /\ (UsableSize % SectorSize) \in Nat
  <2>1. UsableSize \in Nat /\ SectorSize \in Nat \ {0}
    BY Sizes0, LayoutAssumption
  <2> QED
    BY <2>1, DivMod
<1>2. ErasedSize <= UsableSize
  <2> DEFINE q == UsableSize \div SectorSize
             r == UsableSize % SectorSize
  <2>1. ErasedSize = q * SectorSize
    BY DEF ErasedSize
  <2>2. SectorSize * q = q * SectorSize
    BY <1>1, LayoutAssumption
  <2> HIDE DEF q, r
  <2>3. UsableSize = SectorSize * q + r /\ r \in Nat /\ q \in Nat
    BY <1>1 DEF q, r
  <2> QED
    BY <2>1, <2>2, <2>3, Sizes0
<1> QED
  BY <1>2, Sizes0 DEF IsErased

\* The step puts nothing but bytes of the image in its place.
Kept(img) ==
  /\ late \subseteq late'
  /\ \A k \in 0..Length[img] - 1 :
       IsErased(k) => \/ area'[k] = area[k]
                      \/ area'[k] = Byte(img, k)
                      \/ k \in late'

LEMMA KeptHolds ==
  ASSUME NEW img \in Img, Kept(img)
  PROVE  /\ \A i : Placed(img, i) => Placed(img, i)'
         /\ Clean(img) => Clean(img)'
         /\ Whole(img) => Whole(img)'
<1>1. \A k \in 0..Length[img] - 1 : Holds(img, k) => Holds(img, k)'
  BY DEF Kept, Holds
<1>2. \A i : Placed(img, i) => Placed(img, i)'
  BY <1>1 DEF Placed
<1>3. Whole(img) => Whole(img)'
  BY <1>1 DEF Whole
<1>4. Clean(img) => Clean(img)'
  BY ImgSizes, ErasedInArea DEF Kept, Clean
<1> QED
  BY <1>2, <1>3, <1>4

LEMMA SameFlash ==
  ASSUME area' = area, late' = late
  PROVE  \A img : /\ \A i : Placed(img, i) <=> Placed(img, i)'
                  /\ Clean(img) <=> Clean(img)'
                  /\ Whole(img) <=> Whole(img)'
  BY DEF Placed, Clean, Whole, Holds

\* An erase removes the header, or there is no sector to erase.
LEMMA EraseFacts ==
  ASSUME TypeOK, NEW size \in Nat, Erase(size)
  PROVE  /\ size > 0 => header' = Erased
         /\ size = 0 => header' = header /\ area' = area /\ late' = late
         /\ size = ErasedSize => \A img \in Img : Clean(img)'
         /\ area' \in [Positions -> AnyByte] /\ late' \subseteq Positions
         /\ header' \in {header, Erased}
<1> USE DEF Erase
<1>1. \A k \in Positions : HeaderSize + k >= 0
  BY Sizes0, ErasedInArea
<1>2. size = 0 => header' = header /\ area' = area /\ late' = late
  <2>1. SUFFICES ASSUME size = 0
                 PROVE  header' = header /\ area' = area /\ late' = late
    OBVIOUS
  <2>2. \A k \in Positions : ~(HeaderSize + k < size)
    BY <1>1, <2>1, Sizes0, ErasedInArea
  <2>3. area \in [Positions -> AnyByte] /\ late \subseteq Positions
    BY DEF TypeOK
  <2>4. area' = area
    BY <2>2, <2>3
  <2>5. late' = late
    BY <2>2, <2>3
  <2> QED
    BY <2>1, <2>4, <2>5
<1>3. size = ErasedSize => \A img \in Img : Clean(img)'
  BY DEF Clean, IsErased
<1>4. area' \in [Positions -> AnyByte] /\ late' \subseteq Positions
  BY DEF TypeOK, AnyByte
<1> QED
  BY <1>2, <1>3, <1>4

\* Without a sector to erase, nothing is claimed of the area.
LEMMA NothingErased ==
  ASSUME ErasedSize = 0, NEW img \in Img
  PROVE  Whole(img) => Whole(img)'
  BY ErasedInArea, ImgSizes DEF Whole, Holds

-----------------------------------------------------------------------------
(* Messages.                                                               *)

LEMMA InitInv == Init => IInv
<1> SUFFICES ASSUME Init PROVE IInv
  OBVIOUS
<1> USE DEF Init
<1>1. TypeOK
  BY TransferAssumption, Specials
     DEF TypeOK, AnyByte, ZeroRx, ZeroBlock, Blank
<1>2. SessionInv /\ FlagsInv /\ AreaInv
  BY DEF SessionInv, FlagsInv, AreaInv, Open
<1>3. HeaderInv /\ OpInv /\ BlocksInv
  BY Specials DEF HeaderInv, OpInv, BlocksInv, Idle
<1> QED
  BY <1>1, <1>2, <1>3 DEF IInv

\* A message that is not taken changes the receive buffer and the last id.
LEMMA OnlyHeard ==
  ASSUME IInv, rx' \in [RxPositions -> AnyByte], lastId' \in Nat,
         UNCHANGED <<offer, upload, flash, mode, doOtap, process, timeouts>>
  PROVE  IInv'
<1> USE DEF IInv, upload, flash, process
<1>1. TypeOK'
  BY DEF TypeOK
<1>2. SessionInv' /\ FlagsInv' /\ AreaInv'
  BY SameFlash DEF SessionInv, FlagsInv, AreaInv, Open
<1>3. HeaderInv' /\ OpInv'
  BY SameFlash DEF HeaderInv, OpInv, Open
<1>4. BlocksInv'
  BY DEF BlocksInv
<1> QED
  BY <1>1, <1>2, <1>3, <1>4

\* Whatever is received, the receive buffer holds bytes.
LEMMA CopiedType ==
  ASSUME TypeOK
  PROVE  /\ \A n \in Int : Copied(JunkOf(n)) \in [RxPositions -> AnyByte]
         /\ \A img \in Img : \A i \in Nat, n \in Int :
              Copied(PackageBytes(img, i, n)) \in [RxPositions -> AnyByte]
<1>1. rx \in [RxPositions -> AnyByte]
  BY DEF TypeOK
<1>2. ASSUME NEW n \in Int
      PROVE  Copied(JunkOf(n)) \in [RxPositions -> AnyByte]
  BY <1>1 DEF JunkOf, AnyByte, Copied
<1>3. ASSUME NEW img \in Img, NEW i \in Nat, NEW n \in Int, NEW k \in 0..n - 1
      PROVE  PackageBytes(img, i, n)[k] \in AnyByte
  <2> DEFINE at == Offset(i, Package[img]) + k
  <2>1. at \in Nat /\ Length[img] \in Nat
    BY OffsetNat, ImgSizes
  <2>2. CASE at < Length[img]
    <3>1. at \in ImgPositions
      BY <2>1, <2>2, ImgSizes
    <3>2. PackageBytes(img, i, n)[k] = Byte(img, at)
      BY <2>2 DEF PackageBytes
    <3> QED
      BY <3>1, <3>2 DEF Byte, AnyByte
  <2>3. CASE ~(at < Length[img])
    <3>1. PackageBytes(img, i, n)[k] = Junk
      BY <2>3 DEF PackageBytes
    <3> QED
      BY <3>1 DEF AnyByte
  <2> QED
    BY <2>2, <2>3
<1>4. ASSUME NEW img \in Img, NEW i \in Nat, NEW n \in Int
      PROVE  Copied(PackageBytes(img, i, n)) \in [RxPositions -> AnyByte]
  <2>1. DOMAIN PackageBytes(img, i, n) = 0..n - 1
    BY DEF PackageBytes
  <2>2. \A k \in 0..n - 1 : PackageBytes(img, i, n)[k] \in AnyByte
    BY <1>3
  <2> HIDE DEF PackageBytes
  <2> QED
    BY <1>1, <2>1, <2>2 DEF Copied
<1> QED
  BY <1>2, <1>4

LEMMA SizesInt ==
  ASSUME NEW img \in Img, NEW i \in Nat, NEW n \in Sizes(img, i)
  PROVE  n \in Int
  BY ImgSizes, OffsetNat DEF Sizes

LEMMA ForeignInv ==
  ASSUME IInv, ReceiveForeign
  PROVE  IInv'
<1>1. rx' \in [RxPositions -> AnyByte]
  BY CopiedType, TransferAssumption DEF ReceiveForeign, IInv
<1>2. lastId' \in Nat
  BY TransferAssumption DEF ReceiveForeign, IInv, TypeOK
<1> QED
  BY <1>1, <1>2, OnlyHeard DEF ReceiveForeign

\* What a package leaves in the receive buffer.
LEMMA HeardType ==
  ASSUME IInv, NEW i \in Indices, Hears(i)
  PROVE  /\ i \in Nat /\ FirstId + i \in Nat
         /\ offer \in Img
         /\ rx' \in [RxPositions -> AnyByte]
<1>1. i \in Nat /\ FirstId + i \in Nat
  BY IndicesNat DEF FirstId
<1>2. offer \in Img
  BY DEF Hears, IInv, TypeOK
<1>3. rx' \in [RxPositions -> AnyByte]
  BY <1>1, <1>2, CopiedType, SizesInt DEF Hears, IInv
<1> QED
  BY <1>1, <1>2, <1>3

LEMMA IgnoredInv ==
  ASSUME IInv, NEW i \in Indices, ReceiveIgnored(i)
  PROVE  IInv'
  BY HeardType, OnlyHeard DEF ReceiveIgnored

\* A begin request.  The phone goes on only if the erase was done in time.
LEMMA BeginInv ==
  ASSUME IInv, NEW img \in Img, ReceiveBegin(img)
  PROVE  IInv'
<1> USE DEF IInv
<1>1. PICK ok \in BOOLEAN :
        Otap_bufferBegin(ok) /\ offer' \in {None} \cup {j \in {img} : ok}
  BY DEF ReceiveBegin
<1>2. /\ mode = "run" /\ mode' = "run" /\ flags' = {} /\ lastId' = 0
      /\ session' = NewSession(img) /\ doOtap' = doOtap
      /\ timeouts' \in Nat
      /\ block' = block /\ next' = next /\ scratch' = scratch /\ lost' = lost
      /\ rx' \in [RxPositions -> AnyByte]
  <2>1. timeouts' \in Nat
    BY DEF ReceiveBegin, Counted, TypeOK
  <2>2. rx' \in [RxPositions -> AnyByte]
    BY CopiedType, TransferAssumption DEF ReceiveBegin
  <2> QED
    BY <2>1, <2>2 DEF ReceiveBegin, process
<1>3. offer' \in Img \cup {None} /\ (offer' # None => ok /\ offer' = img)
  BY <1>1
<1>4. CASE ok
  <2>1. Erase(ErasedSize) /\ op = Idle /\ op' = Idle
    BY <1>1, <1>4 DEF Otap_bufferBegin
  <2>2. /\ ErasedSize > 0 => header' = Erased
        /\ ErasedSize = 0 => header' = header
        /\ Clean(img)'
        /\ area' \in [Positions -> AnyByte] /\ late' \subseteq Positions
        /\ header' \in {header, Erased}
    BY <2>1, EraseFacts, Sizes0
  <2>3. HeaderInv'
    <3>1. ErasedSize = 0 \/ ErasedSize > 0
      BY Sizes0
    <3>2. CASE ErasedSize > 0
      BY <2>2, <3>2, Specials DEF HeaderInv
    <3>3. CASE ErasedSize = 0
      <4>1. ~(ErasedSize > 0) /\ header' = header
        BY <2>2, <3>3
      <4>2. \A j \in Img : Whole(j) => Whole(j)'
        BY <3>3, NothingErased
      <4> QED
        BY <4>1, <4>2, Sizes0 DEF HeaderInv
    <3> QED
      BY <3>1, <3>2, <3>3
  <2>4. SessionInv' /\ FlagsInv' /\ AreaInv'
    BY <1>2, <1>3, <2>2 DEF SessionInv, FlagsInv, AreaInv, Open, Clean
  <2>5. OpInv' /\ BlocksInv'
    BY <1>2, <2>1 DEF OpInv, BlocksInv, Idle
  <2>6. TypeOK'
    BY <1>2, <1>3, <2>1, <2>2 DEF TypeOK
  <2> QED
    BY <2>3, <2>4, <2>5, <2>6
<1>5. CASE ~ok
  <2>1. offer' = None
    BY <1>3, <1>5
  <2>2. header' = header /\ area' = area /\ late' = late /\ op' \in {op, Erasing}
    BY <1>1, <1>5 DEF Otap_bufferBegin, flash
  <2>3. HeaderInv'
    BY <2>1, <2>2, SameFlash DEF HeaderInv, Open
  <2>4. SessionInv' /\ FlagsInv' /\ AreaInv'
    BY <1>2, <2>1 DEF SessionInv, FlagsInv, AreaInv, Open
  <2>5. OpInv'
    BY <1>2, <2>1, <2>2, SameFlash DEF OpInv, Open, Erasing
  <2>6. BlocksInv'
    BY <1>2 DEF BlocksInv
  <2>7. TypeOK'
    BY <1>2, <1>3, <2>2 DEF TypeOK
  <2> QED
    BY <2>3, <2>4, <2>5, <2>6, <2>7
<1> QED
  BY <1>4, <1>5

-----------------------------------------------------------------------------
(* Packages.                                                               *)

\* A package is looked at only in the session of the phone that sends it.
LEMMA PackageFacts ==
  ASSUME RangesFit, IInv, NEW i \in Indices, ReceivePackage(i)
  PROVE  /\ mode = "run" /\ i \in Nat /\ offer \in Img /\ offer # None
         /\ session = NewSession(offer) /\ Open
         /\ session.pkg = Package[offer] /\ session.total = Total(offer)
         /\ session.seq = offer /\ session.len = Length[offer]
         /\ Packages(Length[offer], Package[offer]) <= 32768
         /\ \E n \in Sizes(offer, i) : rx' = Copied(PackageBytes(offer, i, n))
         /\ offer' = offer /\ session' = session /\ mode' = mode
         /\ rx' \in [RxPositions -> AnyByte] /\ lastId' \in Nat
         /\ UNCHANGED process
<1>1. Hears(i) /\ InRange(FirstId + i) /\ lastId' = FirstId + i
      /\ offer' = offer /\ session' = session /\ mode' = mode
      /\ UNCHANGED process
  BY DEF ReceivePackage
<1>2. i \in Nat /\ offer \in Img /\ lastId' \in Nat
      /\ rx' \in [RxPositions -> AnyByte]
  BY <1>1, HeardType
<1>3. session # NoSession
  BY <1>1, <1>2 DEF InRange, NoSession, FirstId
<1>4. mode = "run" /\ offer # None
      /\ \E n \in Sizes(offer, i) : rx' = Copied(PackageBytes(offer, i, n))
  BY <1>1 DEF Hears
<1>5. session = NewSession(offer) /\ Open
  BY <1>3, <1>4 DEF IInv, SessionInv, Open
<1>6. session.pkg = Package[offer] /\ session.total = Total(offer)
      /\ session.seq = offer /\ session.len = Length[offer]
  BY <1>2, <1>5, SessionFields
<1>7. Packages(Length[offer], Package[offer]) <= 32768
  BY <1>1, <1>2, <1>5, RangeEmpty DEF FirstId
<1> QED
  BY <1>1, <1>2, <1>4, <1>5, <1>6, <1>7

\* What was written by the end of the wait, all of it or less.
LEMMA WrittenKept ==
  ASSUME RangesFit, IInv, NEW i \in Indices, ReceivePackage(i),
         NEW n \in 0..session.pkg,
         Otap_bufferWrite(Offset(i, session.pkg), n)
  PROVE  /\ Kept(offer)
         /\ area' \in [Positions -> AnyByte] /\ late' \subseteq Positions
         /\ n = session.pkg => Placed(offer, i)'
         /\ n # session.pkg =>
              Offset(i, session.pkg)..Offset(i, session.pkg) + session.pkg - 1
                \subseteq late'
<1> DEFINE from == Offset(i, Package[offer])
           pkg == Package[offer]
<1>1. /\ i \in Nat /\ offer \in Img /\ session.pkg = pkg /\ Open
      /\ Packages(Length[offer], Package[offer]) <= 32768
      /\ rx' \in [RxPositions -> AnyByte]
  BY PackageFacts
<1>2. /\ from \in Nat /\ pkg \in Nat \ {0} /\ Length[offer] \in Nat \ {0}
      /\ n \in 0..pkg
      /\ 0..pkg - 1 \subseteq RxPositions
  BY <1>1, OffsetNat, ImgSizes
<1>3. /\ InArea(from, pkg)
      /\ area' = Programmed(from, n, rx')
      /\ late' = IF n = pkg THEN late ELSE late \cup from..from + pkg - 1
  BY <1>1 DEF Otap_bufferWrite
<1>4. area \in [Positions -> AnyByte] /\ late \subseteq Positions
  BY DEF IInv, TypeOK
<1>5. from..from + pkg - 1 \subseteq Positions
  <2>1. \A k \in from..from + pkg - 1 : k \in Int /\ 0 <= k /\ k <= from + pkg - 1
    BY <1>2
  <2>2. HeaderSize + from + pkg <= AreaSize
    BY <1>3 DEF InArea
  <2> HIDE DEF from, pkg
  <2> QED
    BY <2>1, <2>2, <1>2, Sizes0, LayoutAssumption
<1>6. late' \subseteq Positions /\ late \subseteq late'
  BY <1>3, <1>4, <1>5
<1>7. area' \in [Positions -> AnyByte]
  <2>1. ASSUME NEW k \in Positions, k \in from..from + n - 1
        PROVE  rx'[k - from] \in AnyByte
    <3>1. k - from \in RxPositions
      BY <2>1, <1>2
    <3> QED
      BY <3>1, <1>1
  <2>2. \A old, new : old \in AnyByte /\ new \in AnyByte => Program(old, new) \in AnyByte
    BY DEF Program, AnyByte
  <2> HIDE DEF from
  <2> QED
    BY <2>1, <2>2, <1>3, <1>4 DEF Programmed
<1>8. ASSUME NEW k \in 0..Length[offer] - 1, k \in from..from + pkg - 1
      PROVE  rx'[k - from] = Byte(offer, k)
  <2>1. PICK m \in Sizes(offer, i) : rx' = Copied(PackageBytes(offer, i, m))
    BY PackageFacts
  <2>2. k \in Nat /\ k < Length[offer] /\ from <= k /\ k < from + pkg
    BY <1>2, <1>8
  <2>3. Copied(PackageBytes(offer, i, m))[k - from] = Byte(offer, k)
    BY <1>1, <2>2, PackageContent
  <2> QED
    BY <2>1, <2>3
<1> HIDE DEF from, pkg
<1>9. ASSUME NEW k \in 0..Length[offer] - 1, IsErased(k)
      PROVE  /\ k \in Positions
             /\ k \in from..from + n - 1 => area'[k] = Byte(offer, k) \/ k \in late'
             /\ k \notin from..from + n - 1 => area'[k] = area[k]
  <2>1. k \in Positions
    BY <1>9, <1>2, ErasedInArea
  <2>2. area'[k] = IF k \in from..from + n - 1 THEN Program(area[k], rx'[k - from])
                                               ELSE area[k]
    BY <2>1, <1>3 DEF Programmed
  <2>3. CASE k \in from..from + n - 1
    <3>1. k \in from..from + pkg - 1
      BY <2>3, <1>2
    <3>2. area'[k] = Program(area[k], Byte(offer, k))
      BY <3>1, <2>2, <2>3, <1>8
    <3>3. area[k] \in {Erased, Byte(offer, k)} \/ k \in late
      BY <2>1, <1>1, <1>2, <1>9 DEF IInv, AreaInv, Clean
    <3> QED
      BY <2>1, <2>3, <3>2, <3>3, <1>6 DEF Program
  <2> QED
    BY <2>1, <2>2, <2>3
<1>10. Kept(offer)
  BY <1>6, <1>9 DEF Kept
<1>11. n = pkg => Placed(offer, i)'
  <2>1. SUFFICES ASSUME n = pkg
                 PROVE  Placed(offer, i)'
    OBVIOUS
  <2>2. offer' = offer
    BY PackageFacts
  <2>3. ASSUME NEW k \in 0..Length[offer] - 1, k \div pkg = i, IsErased(k)
        PROVE  area'[k] = Byte(offer, k) \/ k \in late'
    <3>1. from <= k /\ k < from + pkg
      BY <1>1, <2>3, TotalFacts DEF from, pkg
    <3>2. k \in from..from + n - 1
      BY <3>1, <2>1, <1>2
    <3> QED
      BY <3>2, <2>3, <1>9
  <2> QED
    BY <2>2, <2>3, <1>3 DEF Placed, Holds, from, pkg
<1>12. n # pkg => from..from + pkg - 1 \subseteq late'
  BY <1>3
<1> QED
  BY <1>1, <1>6, <1>7, <1>10, <1>11, <1>12 DEF from, pkg

\* The type of op, and OpInv for the phone's session after the write.
OpFits(o) ==
  /\ o = Idle \/ o = Erasing \/ (\E img \in Img : o = Marking(img))
       \/ (o.kind = "write" /\ o.from + o.amount - 1 \in Positions
             /\ o.done \in 0..o.amount - 1 /\ o.amount - 1 \in RxPositions)
  /\ o.kind = "write" =>
       /\ o = Writing(o.from, o.done, o.amount)
       /\ o.from \in Nat /\ o.amount \in Nat /\ o.done \in Nat
       /\ o.from..o.from + o.amount - 1 \subseteq late'
  /\ o.kind # "erase"
  /\ o.kind = "mark" => o.img = offer /\ Whole(offer)'

\* When no package is missing, the image is there.
LEMMA AllThereWhole ==
  ASSUME RangesFit, IInv, NEW i \in Indices, ReceivePackage(i), AllThere(flags'),
         FlagsInv', Open'
  PROVE  Whole(offer)'
<1> DEFINE pkg == Package[offer]
           total == Total(offer)
<1>1. offer \in Img /\ offer' = offer /\ session.total = total
      /\ Packages(Length[offer], Package[offer]) <= 32768
  BY PackageFacts
<1>2. \A j \in 0..total - 1 : Flag(j) \in flags' /\ j \in Indices
  BY <1>1 DEF AllThere, Indices, Total
<1>3. \A j \in 0..total - 1 : Placed(offer, j)'
  BY <1>1, <1>2 DEF FlagsInv
<1>4. total \in Nat \ {0} /\ pkg \in Nat \ {0} /\ Length[offer] \in Nat \ {0}
  BY <1>1, TotalFacts, ImgSizes
<1>5. InArea(0, pkg * total)
  <2>1. InArea(Offset(total - 1, pkg), pkg)
    BY <1>1, <1>3, <1>4 DEF Placed
  <2>2. Offset(total - 1, pkg) + pkg = pkg * total
    BY <1>4 DEF Offset
  <2>3. Offset(total - 1, pkg) \in Nat
    BY <1>4 DEF Offset
  <2> HIDE DEF pkg, total
  <2> QED
    BY <2>1, <2>2, <2>3, <1>4, Sizes0, LayoutAssumption DEF InArea
<1>6. ASSUME NEW k \in 0..Length[offer] - 1
      PROVE  k \in Positions /\ Holds(offer, k)'
  <2>1. PICK q \in 0..total - 1 : q = k \div pkg
    BY <1>1, TotalFacts
  <2>2. Placed(offer, q)' /\ k \in Nat /\ q \in Nat
    BY <1>3, <1>4
  <2>3. Holds(offer, k)'
    <3>1. k \div Package[offer]' = q
      BY <1>1, <2>1
    <3> QED
      BY <1>1, <2>2, <3>1 DEF Placed
  <2>4. Offset(q, pkg) <= k /\ k < Offset(q, pkg) + pkg
    BY <1>1, <2>1, <2>2, TotalFacts
  <2>5. InArea(Offset(q, pkg), pkg)
    BY <1>1, <2>2 DEF Placed
  <2>6. Offset(q, pkg) \in Nat
    BY <1>1, <2>2, OffsetNat
  <2> HIDE DEF pkg
  <2>7. k \in Positions
    BY <2>2, <2>4, <2>5, <2>6, <1>4, Sizes0, LayoutAssumption DEF InArea
  <2> QED
    BY <2>3, <2>7
<1> HIDE DEF pkg, total
<1>7. Length[offer]' = Length[offer] /\ Package[offer]' = pkg /\ Total(offer)' = total
  BY <1>1 DEF pkg, total, Total
<1> QED
  BY <1>1, <1>5, <1>6, <1>7 DEF Whole, pkg, total, Total, Holds

LEMMA ConcludedInv ==
  ASSUME RangesFit, IInv, NEW i \in Indices, ReceivePackage(i),
         NEW busy, Conclude(flags', busy), OpFits(busy),
         Kept(offer),
         area' \in [Positions -> AnyByte], late' \subseteq Positions,
         flags' = flags \/ (flags' = flags \cup {Flag(i)} /\ Placed(offer, i)')
  PROVE  IInv'
<1>1. /\ mode = "run" /\ mode' = "run" /\ i \in Nat /\ offer \in Img /\ offer # None
      /\ offer' = offer /\ session = NewSession(offer) /\ session' = session
      /\ session.seq = offer
      /\ Open /\ Open'
      /\ rx' \in [RxPositions -> AnyByte] /\ lastId' \in Nat
      /\ block' = block /\ next' = next /\ scratch' = scratch /\ lost' = lost
      /\ timeouts' \in Nat
  <2>1. timeouts' \in Nat
    BY DEF ReceivePackage, Counted, IInv, TypeOK
  <2>2. UNCHANGED process
    BY PackageFacts
  <2> QED
    BY <2>1, <2>2, PackageFacts DEF process, Open
<1>2. \A img \in Img : img = offer =>
        /\ \A j : Placed(img, j) => Placed(img, j)'
        /\ Clean(img) => Clean(img)'
        /\ Whole(img) => Whole(img)'
  BY KeptHolds
<1>3. SessionInv'
  BY <1>1 DEF SessionInv, IInv
<1>4. AreaInv'
  BY <1>1, <1>2 DEF AreaInv, IInv
<1>5. FlagsInv'
  <2>1. ASSUME NEW j \in Indices, Flag(j) \in flags'
        PROVE  Placed(offer, j)'
    <3>1. CASE Flag(j) \in flags
      BY <3>1, <1>1, <1>2 DEF FlagsInv, IInv
    <3>2. CASE Flag(j) \notin flags
      <4>1. Flag(j) = Flag(i) /\ Placed(offer, i)'
        BY <3>2, <2>1
      <4>2. j = i
        BY <4>1, <1>1, FlagInjective, IndicesNat
      <4> QED
        BY <4>1, <4>2
    <3> QED
      BY <3>1, <3>2
  <2> QED
    BY <2>1 DEF FlagsInv
<1>6. AllThere(flags') => Whole(offer)'
  BY <1>1, <1>5, AllThereWhole
<1>7. \/ AllThere(flags') /\ Otap_bufferEnd(busy) /\ doOtap' \in {doOtap, TRUE}
      \/ op' = busy /\ header' = header /\ doOtap' = doOtap
  BY DEF Conclude
<1>8. \/ header' = header
      \/ header' \in {offer, Spoilt} /\ AllThere(flags')
  BY <1>1, <1>7 DEF Otap_bufferEnd, Program
<1>9. \/ op' = busy \/ op' = Idle
      \/ op' = Marking(offer) /\ AllThere(flags')
  BY <1>1, <1>7 DEF Otap_bufferEnd
<1>10. HeaderInv'
  <2>1. CASE header' = header
    <3>1. CASE header = offer
      BY <2>1, <3>1, <1>1, <1>2 DEF HeaderInv, IInv
    <3>2. CASE header # offer /\ header \in Img
      <4>1. ~(ErasedSize > 0)
        BY <3>2, <1>1 DEF HeaderInv, IInv
      <4>2. ErasedSize = 0
        BY <4>1, Sizes0
      <4>3. \A j \in Img : Whole(j) => Whole(j)'
        BY <4>2, NothingErased
      <4> QED
        BY <4>1, <4>3, <2>1, <3>2 DEF HeaderInv, IInv
    <3>3. CASE header \notin Img
      BY <2>1, <3>3 DEF HeaderInv
    <3> QED
      BY <3>1, <3>2, <3>3
  <2>2. CASE header' \in {offer, Spoilt} /\ AllThere(flags')
    <3>1. CASE header' = offer
      <4>1. header' = offer'
        BY <3>1, <1>1
      <4>2. Whole(offer)'
        BY <2>2, <1>6
      <4>3. Whole(header)'
        BY <4>1, <4>2 DEF Whole, Holds, Total
      <4> QED
        BY <4>1, <4>3 DEF HeaderInv
    <3>2. CASE header' = Spoilt
      BY <3>2, Specials DEF HeaderInv
    <3> QED
      BY <3>1, <3>2, <2>2
  <2> QED
    BY <2>1, <2>2, <1>8
<1>11. OpInv'
  <2>1. CASE op' = busy /\ op'.kind # "mark"
    BY <2>1, <1>1 DEF OpFits, OpInv
  <2>2. CASE op' = busy /\ op'.kind = "mark"
    <3>1. op'.img = offer' /\ Whole(offer)'
      BY <2>2, <1>1 DEF OpFits
    <3>2. Whole(op.img)'
      BY <3>1 DEF Whole, Holds, Total
    <3> QED
      BY <2>2, <3>1, <3>2, <1>1 DEF OpInv
  <2>3. CASE op' = Idle
    BY <2>3 DEF OpInv, Idle
  <2>4. CASE op' = Marking(offer) /\ AllThere(flags')
    <3>1. op'.kind = "mark" /\ op'.img = offer /\ op'.img = offer'
      BY <2>4, <1>1 DEF Marking
    <3>2. Whole(offer)'
      BY <2>4, <1>6
    <3>3. Whole(op.img)'
      BY <3>1, <3>2 DEF Whole, Holds, Total
    <3> QED
      BY <3>1, <3>3, <1>1 DEF OpInv
  <2> QED
    BY <2>1, <2>2, <2>3, <2>4, <1>9
<1>12. BlocksInv'
  BY <1>1 DEF BlocksInv
<1>13. TypeOK'
  <2>1. op' = Idle \/ op' = Erasing \/ (\E img \in Img : op' = Marking(img))
          \/ (op'.kind = "write" /\ op'.from + op'.amount - 1 \in Positions
                /\ op'.done \in 0..op'.amount - 1 /\ op'.amount - 1 \in RxPositions)
    BY <1>1, <1>9 DEF OpFits
  <2>2. header' \in Img \cup {Erased, Spoilt} /\ doOtap' \in BOOLEAN
    BY <1>1, <1>7, <1>8 DEF IInv, TypeOK
  <2>3. flags' \subseteq {Flag(j) : j \in Indices}
    BY DEF IInv, TypeOK
  <2>4. /\ offer' \in Img \cup {None}
        /\ session' \in {NoSession} \cup {NewSession(img) : img \in Img}
        /\ mode' \in {"run", "header", "blocks", "set", "end"}
        /\ block' \in [0..Block - 1 -> AnyByte]
        /\ next' \in Nat
        /\ scratch' \in [ImgPositions -> AnyByte]
        /\ lost' \subseteq Nat
    BY <1>1 DEF IInv, TypeOK
  <2> QED
    BY <1>1, <2>1, <2>2, <2>3, <2>4 DEF TypeOK
<1> QED
  BY <1>3, <1>4, <1>5, <1>10, <1>11, <1>12, <1>13 DEF IInv

LEMMA PackageInv ==
  ASSUME RangesFit, IInv, NEW i \in Indices, ReceivePackage(i)
  PROVE  IInv'
<1> DEFINE from == Offset(i, session.pkg)
           Busy(n) == IF n = session.pkg THEN Idle ELSE Writing(from, n, session.pkg)
<1>1. \/ \E n \in 0..session.pkg :
           /\ Otap_bufferWrite(from, n)
           /\ flags' = Flagged(i, n = session.pkg)
           /\ Conclude(flags', Busy(n))
      \/ /\ WriteRefused
         /\ flags' = Flagged(i, FALSE)
         /\ Conclude(flags', op)
  BY DEF ReceivePackage
<1>2. i \in Nat /\ offer \in Img /\ offer # None /\ Open /\ session.pkg = Package[offer]
      /\ offer' = offer
  BY PackageFacts
<1>3. from \in Nat /\ session.pkg \in Nat \ {0} /\ session.pkg - 1 \in RxPositions
  BY <1>2, OffsetNat, ImgSizes
<1>4. ASSUME NEW n \in 0..session.pkg,
             Otap_bufferWrite(from, n),
             flags' = Flagged(i, n = session.pkg),
             Conclude(flags', Busy(n))
      PROVE  IInv'
  <2>1. /\ Kept(offer)
        /\ area' \in [Positions -> AnyByte] /\ late' \subseteq Positions
        /\ n = session.pkg => Placed(offer, i)'
        /\ n # session.pkg => from..from + session.pkg - 1 \subseteq late'
    BY <1>4, WrittenKept
  <2>2. flags' = flags \/ (flags' = flags \cup {Flag(i)} /\ Placed(offer, i)')
    BY <1>4, <2>1 DEF Flagged
  <2>3. OpFits(Busy(n))
    <3>1. CASE n = session.pkg
      BY <3>1 DEF OpFits, Idle
    <3>2. CASE n # session.pkg
      <4> DEFINE w == Writing(from, n, session.pkg)
      <4>1. w.kind = "write" /\ w.from = from /\ w.done = n /\ w.amount = session.pkg
        BY DEF Writing
      <4> HIDE DEF w, from
      <4>2. from + session.pkg - 1 \in Positions
        <5>1. from + session.pkg - 1 \in from..from + session.pkg - 1
          BY <1>3
        <5> QED
          BY <2>1, <3>2, <5>1
      <4>3. OpFits(w)
        BY <1>3, <2>1, <3>2, <4>1, <4>2 DEF OpFits, w
      <4> QED
        BY <3>2, <4>3 DEF w
    <3> QED
      BY <3>1, <3>2
  <2> HIDE DEF Busy, from
  <2> QED
    BY <1>4, <2>1, <2>2, <2>3, ConcludedInv
<1>5. ASSUME WriteRefused,
             flags' = Flagged(i, FALSE),
             Conclude(flags', op)
      PROVE  IInv'
  <2>1. area' = area /\ late' = late /\ flags' = flags
    BY <1>5 DEF WriteRefused, Flagged
  <2>2. Kept(offer) /\ area' \in [Positions -> AnyByte] /\ late' \subseteq Positions
    BY <2>1 DEF Kept, IInv, TypeOK
  <2>3. OpFits(op)
    <3>1. op.kind # "erase"
      BY <1>2 DEF IInv, OpInv
    <3>2. op.kind = "mark" => op.img = offer /\ Whole(offer)
      BY <1>2 DEF IInv, OpInv, Whole, Holds, Total
    <3>3. Whole(offer) => Whole(offer)'
      BY <1>2, <2>1 DEF Whole, Holds, Total
    <3>4. op.kind = "mark" => op.img = offer /\ Whole(offer)'
      BY <3>2, <3>3
    <3> QED
      BY <2>1, <3>1, <3>4 DEF OpFits, IInv, OpInv, TypeOK
  <2> QED
    BY <1>5, <2>1, <2>2, <2>3, ConcludedInv
<1> HIDE DEF Busy, from
<1> QED
  BY <1>1, <1>4, <1>5

-----------------------------------------------------------------------------
(* Flash operations that go on.                                            *)

LEMMA FlashInv ==
  ASSUME IInv, FlashStep
  PROVE  IInv'
<1> USE DEF IInv
<1>1. /\ offer' = offer /\ rx' = rx /\ lastId' = lastId /\ session' = session
      /\ flags' = flags /\ mode' = mode /\ doOtap' = doOtap /\ block' = block
      /\ next' = next /\ scratch' = scratch /\ lost' = lost /\ timeouts' = timeouts
  BY DEF FlashStep, radio, upload, process
<1>2. op # Idle /\ mode = "run"
  BY DEF FlashStep, Idle, OpInv
<1>3. BlocksInv' /\ SessionInv'
  BY <1>1, <1>2 DEF BlocksInv, SessionInv, Open
<1>4. CASE op.kind = "write"
  <2>1. /\ op = Writing(op.from, op.done, op.amount)
        /\ op.from \in Nat /\ op.amount \in Nat /\ op.done \in Nat
        /\ op.from..op.from + op.amount - 1 \subseteq late
        /\ op.done \in 0..op.amount - 1 /\ op.amount - 1 \in RxPositions
        /\ op.from + op.amount - 1 \in Positions
    BY <1>4 DEF OpInv, TypeOK, Idle, Erasing, Marking
  <2>2. /\ area' = [area EXCEPT ![op.from + op.done] = Program(@, rx[op.done])]
        /\ op' = IF op.done + 1 < op.amount THEN [op EXCEPT !.done = @ + 1] ELSE Idle
        /\ header' = header /\ late' = late
    BY <1>4 DEF FlashStep
  <2>3. op.from + op.done \in late
    BY <2>1
  <2>4. \A img \in Img : Kept(img)
    <3>1. area \in [Positions -> AnyByte] /\ late \subseteq Positions
      BY DEF TypeOK
    <3>2. \A k : k \in Positions => area'[k] = area[k] \/ k \in late'
      BY <2>2, <2>3, <3>1
    <3>3. \A img \in Img : \A k \in 0..Length[img] - 1 : IsErased(k) => k \in Positions
      BY ImgSizes, ErasedInArea
    <3> QED
      BY <2>2, <3>2, <3>3 DEF Kept
  <2>5. \A img \in Img :
          /\ \A i : Placed(img, i) => Placed(img, i)'
          /\ Clean(img) => Clean(img)'
          /\ Whole(img) => Whole(img)'
    BY <2>4, KeptHolds
  <2>6. FlagsInv' /\ AreaInv' /\ HeaderInv'
    <3>1. Open => offer \in Img
      BY DEF Open, TypeOK
    <3> QED
      BY <1>1, <2>2, <2>5, <3>1 DEF FlagsInv, AreaInv, HeaderInv, Open
  <2>7. \/ op' = Idle
        \/ /\ op' = Writing(op.from, op.done + 1, op.amount)
           /\ op.done + 1 \in 0..op.amount - 1
    BY <2>1, <2>2 DEF Writing
  <2>8. \/ op' = Idle
        \/ /\ op' = Writing(op'.from, op'.done, op'.amount) /\ op'.kind = "write"
           /\ op'.from = op.from /\ op'.amount = op.amount
           /\ op'.done \in Nat /\ op'.done \in 0..op'.amount - 1
    BY <2>1, <2>7 DEF Writing
  <2>9. OpInv'
    BY <1>1, <1>2, <2>1, <2>2, <2>8 DEF OpInv, Idle
  <2>10. TypeOK'
    <3>1. area' \in [Positions -> AnyByte]
      <4>1. \A old, new : old \in AnyByte /\ new \in AnyByte => Program(old, new) \in AnyByte
        BY DEF Program, AnyByte
      <4>2. rx[op.done] \in AnyByte
        <5>1. op.done \in RxPositions
          <6>1. PICK img \in Img : op.amount - 1 \in 0..Package[img] - 1
            BY <2>1 DEF RxPositions
          <6>2. op.done \in 0..Package[img] - 1
            BY <2>1, <6>1, ImgSizes
          <6> QED
            BY <6>2, ImgSizes
        <5> QED
          BY <5>1 DEF TypeOK
      <4> QED
        BY <4>1, <4>2, <2>2 DEF TypeOK
    <3>2. op' = Idle \/ (op'.kind = "write" /\ op'.from + op'.amount - 1 \in Positions
                /\ op'.done \in 0..op'.amount - 1 /\ op'.amount - 1 \in RxPositions)
      BY <2>1, <2>8
    <3> QED
      BY <1>1, <2>2, <3>1, <3>2 DEF TypeOK
  <2> QED
    BY <1>3, <2>6, <2>9, <2>10
<1>5. CASE op.kind = "mark"
  <2>1. header' = Program(header, op.img) /\ op' = Idle /\ area' = area /\ late' = late
    BY <1>5 DEF FlashStep
  <2>2. op.img \in Img /\ Whole(op.img) /\ (Open => op.img = offer)
    <3>1. \E img \in Img : op = Marking(img)
      BY <1>5 DEF TypeOK, Idle, Erasing
    <3> QED
      BY <1>5, <3>1 DEF OpInv, Marking
  <2>3. header' \in {header, op.img, Spoilt}
    BY <2>1 DEF Program
  <2>4. HeaderInv'
    <3>1. \A img : Whole(img) => Whole(img)'
      BY <2>1, SameFlash
    <3>2. header' = op.img => HeaderInv'
      BY <1>1, <2>2, <3>1 DEF HeaderInv, Open
    <3>3. header' = header => HeaderInv'
      BY <1>1, <3>1 DEF HeaderInv, Open
    <3>4. header' = Spoilt => HeaderInv'
      BY Specials DEF HeaderInv
    <3> QED
      BY <2>3, <3>2, <3>3, <3>4
  <2>5. FlagsInv' /\ AreaInv'
    BY <1>1, <2>1, SameFlash DEF FlagsInv, AreaInv, Open
  <2>6. OpInv' /\ TypeOK'
    BY <1>1, <2>1, <2>2, <2>3 DEF OpInv, TypeOK, Idle
  <2> QED
    BY <1>3, <2>4, <2>5, <2>6
<1>6. CASE op.kind = "erase"
  <2>1. Erase(ErasedSize) /\ op' = Idle
    BY <1>6 DEF FlashStep
  <2>2. offer = None
    BY <1>6 DEF OpInv
  <2>3. /\ ErasedSize > 0 => header' = Erased
        /\ ErasedSize = 0 => header' = header
        /\ area' \in [Positions -> AnyByte] /\ late' \subseteq Positions
        /\ header' \in {header, Erased}
    BY <2>1, EraseFacts, Sizes0
  <2>4. HeaderInv'
    <3>1. CASE ErasedSize > 0
      BY <2>3, <3>1, Specials DEF HeaderInv
    <3>2. CASE ErasedSize = 0
      <4>1. \A j \in Img : Whole(j) => Whole(j)'
        BY <3>2, NothingErased
      <4> QED
        BY <1>1, <2>2, <2>3, <3>2, <4>1 DEF HeaderInv, Open
    <3> QED
      BY <3>1, <3>2, Sizes0
  <2>5. FlagsInv' /\ AreaInv'
    BY <1>1, <2>2 DEF FlagsInv, AreaInv, Open
  <2>6. OpInv' /\ TypeOK'
    BY <1>1, <2>1, <2>3 DEF OpInv, TypeOK, Idle
  <2> QED
    BY <1>3, <2>4, <2>5, <2>6
<1> QED
  BY <1>4, <1>5, <1>6 DEF FlashStep

-----------------------------------------------------------------------------
(* Start-up.                                                               *)

\* After a reset nothing is claimed but of the header.
LEMMA RestartedInv ==
  ASSUME IInv, Restarted, doOtap' \in BOOLEAN,
         area' \in [Positions -> AnyByte], late' \subseteq Positions,
         \/ header' = header /\ area' = area /\ late' = late
         \/ header' \in {Erased, Spoilt}
  PROVE  IInv'
<1> USE DEF IInv
<1>1. /\ session' = NoSession /\ flags' = {} /\ op' = Idle /\ next' = 0 /\ lost' = {}
      /\ lastId' = 0 /\ rx' = ZeroRx /\ block' = ZeroBlock /\ scratch' = Blank
      /\ offer' = offer /\ timeouts' = timeouts /\ mode' \in {"header", "run"}
  BY DEF Restarted
<1>2. SessionInv' /\ FlagsInv' /\ AreaInv'
  BY <1>1 DEF SessionInv, FlagsInv, AreaInv, Open
<1>3. HeaderInv'
  <2>1. CASE header' = header /\ area' = area /\ late' = late
    <3>1. \A img : Whole(img) => Whole(img)'
      BY <2>1, SameFlash
    <3> QED
      BY <1>1, <2>1, <3>1 DEF HeaderInv, Open
  <2>2. CASE header' \in {Erased, Spoilt}
    BY <2>2, Specials DEF HeaderInv
  <2> QED
    BY <2>1, <2>2
<1>4. OpInv' /\ BlocksInv'
  BY <1>1 DEF OpInv, BlocksInv, Idle
<1>5. TypeOK'
  <2>1. rx' \in [RxPositions -> AnyByte] /\ block' \in [0..Block - 1 -> AnyByte]
        /\ scratch' \in [ImgPositions -> AnyByte]
    BY <1>1 DEF ZeroRx, ZeroBlock, Blank, AnyByte
  <2>2. header' \in Img \cup {Erased, Spoilt}
    BY DEF TypeOK
  <2> QED
    BY <1>1, <2>1, <2>2 DEF TypeOK
<1> QED
  BY <1>2, <1>3, <1>4, <1>5

LEMMA ResetInv ==
  ASSUME IInv, Reset
  PROVE  IInv'
<1>1. Restarted /\ doOtap' \in BOOLEAN
  BY DEF Reset, IInv, TypeOK
<1>2. area \in [Positions -> AnyByte] /\ late \subseteq Positions
  BY DEF IInv, TypeOK
<1>3. CASE UNCHANGED <<area, late>> /\ header' \in {header, Spoilt}
  BY <1>1, <1>2, <1>3, RestartedInv
<1>4. CASE \E s \in 0..ErasedSize \div SectorSize : Erase(s * SectorSize)
  <2>1. PICK s \in 0..ErasedSize \div SectorSize : Erase(s * SectorSize)
    BY <1>4
  <2> DEFINE size == s * SectorSize
  <2>2. size \in Nat
    BY LayoutAssumption
  <2>3. Erase(size)
    BY <2>1
  <2> HIDE DEF size
  <2>4. /\ size > 0 => header' = Erased
        /\ size = 0 => header' = header /\ area' = area /\ late' = late
        /\ area' \in [Positions -> AnyByte] /\ late' \subseteq Positions
    BY <2>2, <2>3, EraseFacts DEF IInv
  <2>5. size > 0 \/ size = 0
    BY <2>2
  <2> QED
    BY <1>1, <2>4, <2>5, RestartedInv
<1> QED
  BY <1>3, <1>4 DEF Reset

LEMMA ClearInv ==
  ASSUME IInv, ClearOtap
  PROVE  IInv'
  BY RestartedInv DEF ClearOtap, IInv, TypeOK

\* Processing leaves the radio, the upload and the flash alone.
LEMMA ProcessFrame ==
  ASSUME IInv, mode \in {"header", "blocks"},
         mode' \in {"header", "blocks", "set", "end"},
         block' \in [0..Block - 1 -> AnyByte], next' \in Nat,
         scratch' \in [ImgPositions -> AnyByte], lost' \subseteq Nat,
         UNCHANGED <<radio, upload, flash, doOtap, timeouts>>,
         BlocksInv'
  PROVE  IInv'
<1> USE DEF IInv, radio, upload, flash
<1>1. op = Idle
  BY DEF OpInv
<1>2. SessionInv' /\ FlagsInv' /\ AreaInv' /\ HeaderInv'
  BY SameFlash DEF SessionInv, FlagsInv, AreaInv, HeaderInv, Open
<1>3. OpInv'
  BY <1>1 DEF OpInv, Idle
<1>4. TypeOK'
  BY DEF TypeOK
<1> QED
  BY <1>2, <1>3, <1>4

LEMMA HeaderStepInv ==
  ASSUME IInv, ProcessHeader
  PROVE  IInv'
<1>1. /\ mode = "header" /\ next' = next /\ header' = header /\ lost' = lost /\ next = 0
      /\ next \in Nat /\ lost \subseteq Nat
      /\ UNCHANGED <<radio, upload, flash, doOtap, timeouts>>
  BY DEF ProcessHeader, flash, IInv, TypeOK, BlocksInv
<1>2. \/ /\ header \in Img /\ mode' = "blocks"
         /\ block' = [k \in 0..Block - 1 |-> Junk] /\ scratch' = Blank
      \/ mode' = "end" /\ block' = block /\ scratch' = scratch
  BY DEF ProcessHeader
<1>3. block' \in [0..Block - 1 -> AnyByte] /\ scratch' \in [ImgPositions -> AnyByte]
  BY <1>2 DEF IInv, TypeOK, AnyByte, Blank
<1>4. BlocksInv'
  <2>1. CASE mode' = "end"
    BY <2>1 DEF BlocksInv
  <2>2. CASE header \in Img /\ mode' = "blocks"
    <3>1. 0 \div Block = 0 /\ Block * 0 = 0
      BY LayoutAssumption
    <3>2. \A k \in 0..Length[header] - 1 : ~(k < 0)
      BY <2>2, ImgSizes
    <3> QED
      BY <1>1, <2>2, <3>1, <3>2 DEF BlocksInv
  <2> QED
    BY <1>2, <2>1, <2>2
<1> QED
  BY <1>1, <1>2, <1>3, <1>4, ProcessFrame

LEMMA BlockStepInv ==
  ASSUME IInv, ProcessBlock
  PROVE  IInv'
<1>1. /\ mode = "blocks" /\ header \in Img /\ next \in Nat
      /\ next = Block * (next \div Block)
      /\ UNCHANGED <<radio, upload, flash, doOtap, timeouts>>
      /\ header' = header /\ area' = area
      /\ block \in [0..Block - 1 -> AnyByte] /\ area \in [Positions -> AnyByte]
      /\ scratch \in [ImgPositions -> AnyByte] /\ lost \subseteq Nat
  BY DEF ProcessBlock, flash, IInv, TypeOK, BlocksInv
<1>2. Block \in Nat \ {0} /\ next \div Block \in Nat
  <2>1. Block \in Nat \ {0}
    BY LayoutAssumption
  <2> QED
    BY <1>1, <2>1, DivMod
<1>3. ReadBlock
  BY DEF ProcessBlock
<1>4. block' \in [0..Block - 1 -> AnyByte]
  <2>1. ASSUME InArea(next, Block), NEW k \in 0..Block - 1
        PROVE  area[next + k] \in AnyByte
    <3>1. next + k \in Positions
      BY <1>1, <1>2, <2>1, Sizes0, LayoutAssumption DEF InArea
    <3> QED
      BY <1>1, <3>1
  <2> QED
    BY <1>1, <1>3, <2>1 DEF ReadBlock
<1>5. lost' \subseteq Nat /\ lost \subseteq lost'
  BY <1>1, <1>2, <1>3 DEF ReadBlock
<1>6. \/ HandedOn /\ next' = next + Block /\ mode' = "blocks"
      \/ mode' = "end" /\ next' = next /\ scratch' = scratch
  BY <1>1 DEF ProcessBlock
<1>7. CASE mode' = "end" /\ next' = next /\ scratch' = scratch
  <2>1. BlocksInv'
    BY <1>7 DEF BlocksInv
  <2> QED
    BY <1>1, <1>4, <1>5, <1>7, <2>1, ProcessFrame
<1>8. CASE HandedOn /\ next' = next + Block /\ mode' = "blocks"
  <2>1. scratch' = [k \in ImgPositions |->
          IF k \in next..next + Block - 1 /\ k < Length[header] THEN block'[k - next]
                                                                ELSE scratch[k]]
    BY <1>8 DEF HandedOn, Given
  <2>2. scratch' \in [ImgPositions -> AnyByte]
    <3>1. \A k \in next..next + Block - 1 : k - next \in 0..Block - 1
      BY <1>1, <1>2
    <3> QED
      BY <1>1, <1>4, <2>1, <3>1
  <2>3. next' \in Nat /\ next' = Block * (next' \div Block)
    <3> DEFINE q == next \div Block
    <3>1. q \in Nat /\ next = Block * q
      BY <1>1, <1>2
    <3> HIDE DEF q
    <3>2. next' = Block * (q + 1) /\ next' \in Nat
      BY <3>1, <1>2, <1>8
    <3>3. q + 1 \in Nat /\ Block * (q + 1) <= next' /\ next' < Block * (q + 1) + Block
      BY <3>1, <3>2, <1>2
    <3>4. next' \div Block = q + 1
      BY <3>2, <3>3, <1>2, DivUnique
    <3> QED
      BY <3>2, <3>4
  <2>4. ASSUME NEW k \in 0..Length[header] - 1, k < next'
        PROVE  \/ scratch'[k] = area[k]
               \/ k \div Block \in lost'
               \/ ~InArea(Block * (k \div Block), Block)
    <3>1. k \in ImgPositions /\ k \in Nat /\ k < Length[header]
      BY <1>1, <2>4, ImgSizes
    <3>2. CASE k < next
      <4>1. scratch'[k] = scratch[k]
        BY <2>1, <3>1, <3>2, <1>1
      <4> QED
        BY <1>1, <1>5, <3>2, <4>1 DEF IInv, BlocksInv
    <3>3. CASE ~(k < next)
      <4>1. k \in next..next + Block - 1
        BY <1>1, <1>2, <1>8, <2>4, <3>1, <3>3
      <4>2. scratch'[k] = block'[k - next]
        BY <2>1, <3>1, <4>1
      <4>3. k \div Block = next \div Block
        <5> DEFINE q == next \div Block
        <5>1. q \in Nat /\ next = Block * q
          BY <1>1, <1>2
        <5> HIDE DEF q
        <5>2. Block * q <= k /\ k < Block * q + Block
          BY <4>1, <5>1, <1>1, <1>2
        <5>3. k \div Block = q
          BY <3>1, <5>1, <5>2, <1>2, DivUnique
        <5> QED
          BY <5>3 DEF q
      <4>4. CASE InArea(next, Block) /\ block' = [j \in 0..Block - 1 |-> area[next + j]]
        <5>1. k - next \in 0..Block - 1 /\ next + (k - next) = k
          BY <1>1, <1>2, <3>1, <4>1
        <5> QED
          BY <4>2, <4>4, <5>1
      <4>5. CASE lost' = lost \cup {next \div Block}
        BY <4>3, <4>5
      <4>6. CASE ~InArea(next, Block)
        BY <1>1, <4>3, <4>6
      <4> QED
        BY <1>3, <4>4, <4>5, <4>6 DEF ReadBlock
    <3> QED
      BY <3>2, <3>3
  <2>5. BlocksInv'
    BY <1>1, <1>8, <2>3, <2>4 DEF BlocksInv
  <2> QED
    BY <1>1, <1>4, <1>5, <1>8, <2>2, <2>3, <2>5, ProcessFrame
<1> QED
  BY <1>6, <1>7, <1>8

LEMMA EndStepInv ==
  ASSUME IInv, ProcessEnd
  PROVE  IInv'
<1>1. /\ mode = "blocks" /\ next >= Length[header] /\ mode' \in {"set", "end"}
      /\ UNCHANGED <<radio, upload, flash, doOtap, timeouts>>
      /\ block' = block /\ next' = next /\ scratch' = scratch /\ lost' = lost
      /\ header' = header /\ area' = area
  BY DEF ProcessEnd, process, flash
<1>2. BlocksInv'
  BY <1>1 DEF BlocksInv, IInv
<1>3. /\ block \in [0..Block - 1 -> AnyByte] /\ next \in Nat /\ lost \subseteq Nat
      /\ scratch \in [ImgPositions -> AnyByte]
  BY DEF IInv, TypeOK
<1> QED
  BY <1>1, <1>2, <1>3, ProcessFrame

-----------------------------------------------------------------------------
(* The invariant.                                                          *)

LEMMA NextInv ==
  ASSUME RangesFit, IInv, Next
  PROVE  IInv'
  BY ForeignInv, BeginInv, IgnoredInv, PackageInv, FlashInv, ResetInv,
     HeaderStepInv, BlockStepInv, EndStepInv, ClearInv
     DEF Next

LEMMA StutterInv ==
  ASSUME IInv, UNCHANGED vars
  PROVE  IInv'
<1>1. rx' \in [RxPositions -> AnyByte] /\ lastId' \in Nat
  BY DEF vars, radio, IInv, TypeOK
<1>2. UNCHANGED <<offer, upload, flash, mode, doOtap, process, timeouts>>
  BY DEF vars, radio
<1> QED
  BY <1>1, <1>2, OnlyHeard

LEMMA StepInv == RangesFit /\ IInv /\ [Next]_vars => IInv'
  BY NextInv, StutterInv

\* What is said of the flags, the header and the scratchpad follows.
LEMMA InvImplies ==
  ASSUME RangesFit, IInv
  PROVE  TypeOK /\ BytesInPlace /\ MarkedWhole /\ MarkedFits /\ ScratchIsBuffer
<1> USE DEF IInv
<1>1. BytesInPlace
  <2>1. CASE Open
    <3>1. /\ offer \in Img /\ session.seq = offer /\ session.len = Length[offer]
          /\ session.pkg = Package[offer] /\ session.total = Total(offer)
      <4>1. offer \in Img /\ session = NewSession(offer)
        BY <2>1 DEF Open, TypeOK, SessionInv
      <4> QED
        BY <4>1, SessionFields
    <3>2. 0..session.total - 1 \subseteq Indices
      BY <3>1 DEF Indices, Total
    <3>3. \A i \in 0..session.total - 1 : Flag(i) \in flags => Placed(offer, i)
      BY <2>1, <3>2 DEF FlagsInv
    <3> QED
      BY <3>1, <3>3 DEF BytesInPlace, Placed
  <2>2. CASE ~Open
    BY <2>2 DEF SessionInv, BytesInPlace
  <2> QED
    BY <2>1, <2>2
<1>2. MarkedWhole
  BY DEF MarkedWhole, HeaderInv, Whole
<1>3. MarkedFits
  BY DEF MarkedFits, HeaderInv, Whole, Total
<1>4. ScratchIsBuffer
  <2>1. SUFFICES ASSUME mode = "set", NEW k \in 0..Length[header] - 1
                 PROVE  \/ scratch[k] = area[k]
                        \/ k \div Block \in lost
                        \/ ~InArea(Block * (k \div Block), Block)
    BY DEF ScratchIsBuffer
  <2>2. header \in Img /\ next >= Length[header] /\ next \in Nat
    BY <2>1 DEF BlocksInv, TypeOK
  <2>3. k < next
    BY <2>1, <2>2, ImgSizes
  <2> QED
    BY <2>1, <2>3 DEF BlocksInv
<1> QED
  BY <1>1, <1>2, <1>3, <1>4

LEMMA Invariance ==
  ASSUME RangesFit
  PROVE  Spec => [](TypeOK /\ BytesInPlace /\ MarkedWhole /\ MarkedFits
                      /\ ScratchIsBuffer)
<1>1. IInv /\ [Next]_vars => IInv'
  BY StepInv
<1>2. IInv => TypeOK /\ BytesInPlace /\ MarkedWhole /\ MarkedFits /\ ScratchIsBuffer
  BY InvImplies
<1> QED
  BY <1>1, <1>2, InitInv, PTL DEF Spec

-----------------------------------------------------------------------------

\* The state is made of the values the code can give it. (ble.c:347-550,
\* otap.c:71-282)
THEOREM TransferTypeCorrect ==
  ASSUME RangesFit
  PROVE  Spec => []TypeOK
BY Invariance, PTL

\* A package flagged as received is in its place in flash, byte by byte.
\* (ble.c:351-378, 466-477; otap.c:71-86)
THEOREM FlaggedBytesInPlace ==
  ASSUME RangesFit
  PROVE  Spec => []BytesInPlace
BY Invariance, PTL

\* A marked buffer holds every byte of its image. (ble.c:432-437, 507-526)
THEOREM MarkedBytesWhole ==
  ASSUME RangesFit
  PROVE  Spec => []MarkedWhole
BY Invariance, PTL

\* A marked image fits the area with the padding of its last package.
\* (otap.c:187-193)
THEOREM MarkedImageFits ==
  ASSUME RangesFit
  PROVE  Spec => []MarkedFits
BY Invariance, PTL

\* What the OTAP library is told to process is the buffer, but for blocks that
\* were not read. (otap.c:246-263)
THEOREM ScratchpadIsBuffer ==
  ASSUME RangesFit
  PROVE  Spec => []ScratchIsBuffer
BY Invariance, PTL

-----------------------------------------------------------------------------
(* Flags and the area, for images of any number of packages.               *)

FlagInv ==
  /\ session \in {NoSession} \cup {NewSession(img) : img \in Img}
  /\ \A f \in flags : \E img \in Img, i \in Nat :
       /\ session = NewSession(img)
       /\ f = Flag(i)
       /\ InArea(Offset(i, Package[img]), Package[img])

LEMMA FlagInvPackage ==
  ASSUME FlagInv, NEW i \in Indices, ReceivePackage(i)
  PROVE  FlagInv'
<1>1. i \in Nat /\ session' = session /\ InRange(FirstId + i)
      /\ \/ flags' = flags
         \/ /\ flags' = flags \cup {Flag(i)}
            /\ InArea(Offset(i, session.pkg), session.pkg)
  BY IndicesNat DEF ReceivePackage, Flagged, Otap_bufferWrite
<1>2. session # NoSession
  BY <1>1 DEF InRange, NoSession, FirstId
<1>3. PICK img \in Img : session = NewSession(img)
  BY <1>2 DEF FlagInv
<1>4. session.pkg = Package[img]
  BY <1>3, SessionFields
<1>5. ASSUME NEW f \in flags'
      PROVE  \E j \in Img, n \in Nat :
               /\ session = NewSession(j)
               /\ f = Flag(n)
               /\ InArea(Offset(n, Package[j]), Package[j])
  <2>1. CASE f \in flags
    BY <2>1 DEF FlagInv
  <2>2. CASE f \notin flags
    BY <2>2, <1>1, <1>3, <1>4, <1>5
  <2> QED
    BY <2>1, <2>2
<1> QED
  BY <1>1, <1>5 DEF FlagInv

LEMMA FlagInvStep ==
  ASSUME FlagInv, [Next]_vars
  PROVE  FlagInv'
<1>1. CASE UNCHANGED upload
  BY <1>1 DEF FlagInv, upload
<1>2. ASSUME NEW img \in Img, ReceiveBegin(img)
      PROVE  FlagInv'
  BY <1>2 DEF ReceiveBegin, FlagInv
<1>3. CASE \E i \in Indices : ReceivePackage(i)
  BY <1>3, FlagInvPackage
<1>4. CASE Restarted
  BY <1>4 DEF Restarted, FlagInv
<1>5. ASSUME Next
      PROVE  \/ UNCHANGED upload
             \/ \E img \in Img : ReceiveBegin(img)
             \/ \E i \in Indices : ReceivePackage(i)
             \/ Restarted
  BY <1>5 DEF Next, ReceiveForeign, ReceiveIgnored, FlashStep, Reset,
              ProcessHeader, ProcessBlock, ProcessEnd, ClearOtap
<1>6. CASE UNCHANGED vars
  BY <1>1, <1>6 DEF vars
<1> QED
  BY <1>1, <1>2, <1>3, <1>4, <1>5, <1>6

LEMMA FlagInvariance == Spec => []FlagInv
<1>1. Init => FlagInv
  BY DEF Init, FlagInv
<1>2. FlagInv /\ [Next]_vars => FlagInv'
  BY FlagInvStep
<1> QED
  BY <1>1, <1>2, PTL DEF Spec

\* No byte behind messageReceived[], which has 512, is written, if the usable
\* part of the area is at most 32 KiB and packages have at least eight bytes.
\* The code checks neither, nor the offset of a package: that packages outside
\* of the area are not flagged is the memory library's doing, which refuses
\* them. (ble.h:38, 266; ble.c:434-437, 468-476)
FlagsInArray == \A f \in flags : f[1] \in 0..511

THEOREM FlagsStayInArray ==
  ASSUME UsableSize <= 32768, \A img \in Img : Package[img] >= 8
  PROVE  Spec => []FlagsInArray
<1>1. FlagInv => FlagsInArray
  <2>1. SUFFICES ASSUME FlagInv, NEW f \in flags
                 PROVE  f[1] \in 0..511
    BY DEF FlagsInArray
  <2>2. PICK img \in Img, i \in Nat :
          f = Flag(i) /\ InArea(Offset(i, Package[img]), Package[img])
    BY <2>1 DEF FlagInv
  <2>3. i < 4096
    BY <2>2, ImgSizes, AreaBoundsPackages
  <2>4. Flag(i)[1] \in 0..511
    BY <2>2, <2>3 DEF Flag
  <2> QED
    BY <2>2, <2>4
<1> QED
  BY <1>1, FlagInvariance, PTL

-----------------------------------------------------------------------------
(* From the radio to the scratchpad.                                       *)

\* Without an operation that outlives its time-out nothing is written late.
QuietInv == op = Idle /\ late = {} /\ timeouts = 0

LEMMA QuietStep ==
  ASSUME MaxTimeouts = 0, QuietInv, [Next]_vars
  PROVE  QuietInv'
<1>1. Counted => op' = Idle /\ timeouts' = 0
  BY DEF Counted, QuietInv
<1>2. CASE UNCHANGED <<flash, timeouts>>
  BY <1>2 DEF QuietInv, flash
<1>3. ASSUME NEW img \in Img, ReceiveBegin(img)
      PROVE  QuietInv'
  <2>1. late' = {}
    BY <1>3 DEF ReceiveBegin, Otap_bufferBegin, Erase, flash, QuietInv
  <2> QED
    BY <1>1, <1>3, <2>1 DEF ReceiveBegin, QuietInv
<1>4. ASSUME NEW i \in Indices, ReceivePackage(i)
      PROVE  QuietInv'
  <2> DEFINE from == Offset(i, session.pkg)
             Busy(n) == IF n = session.pkg THEN Idle
                                           ELSE Writing(from, n, session.pkg)
  <2>1. op' = Idle /\ timeouts' = 0
    BY <1>1, <1>4 DEF ReceivePackage
  <2>2. ASSUME NEW n \in 0..session.pkg, Otap_bufferWrite(from, n),
               Conclude(flags', Busy(n))
        PROVE  late' = {}
    <3>1. CASE n = session.pkg
      BY <3>1, <2>2 DEF Otap_bufferWrite, QuietInv
    <3>2. CASE n # session.pkg
      <4>1. Busy(n).kind = "write" /\ Busy(n) # Idle
        BY <3>2 DEF Writing, Idle
      <4>2. op' = Busy(n)
        BY <2>2, <4>1 DEF Conclude, Otap_bufferEnd
      <4> QED
        BY <2>1, <4>1, <4>2
    <3> QED
      BY <3>1, <3>2
  <2>3. WriteRefused => late' = {}
    BY DEF WriteRefused, QuietInv
  <2> QED
    BY <1>4, <2>1, <2>2, <2>3 DEF ReceivePackage, QuietInv
<1>5. ASSUME FlashStep
      PROVE  FALSE
  BY <1>5 DEF FlashStep, QuietInv, Idle
<1>6. CASE Reset
  <2>1. late' = {}
    BY <1>6 DEF Reset, Erase, QuietInv
  <2> QED
    BY <1>6, <2>1 DEF Reset, Restarted, QuietInv
<1>7. CASE ClearOtap
  BY <1>7 DEF ClearOtap, Restarted, QuietInv
<1>8. CASE UNCHANGED vars
  BY <1>2, <1>8 DEF vars
<1>9. ASSUME Next
      PROVE  \/ UNCHANGED <<flash, timeouts>>
             \/ \E img \in Img : ReceiveBegin(img)
             \/ \E i \in Indices : ReceivePackage(i)
             \/ FlashStep \/ Reset \/ ClearOtap
  BY <1>9 DEF Next, ReceiveForeign, ReceiveIgnored,
              ProcessHeader, ProcessBlock, ProcessEnd
<1> QED
  BY <1>2, <1>3, <1>4, <1>5, <1>6, <1>7, <1>8, <1>9

\* The image whose header is in the buffer is what the OTAP library was given.
ImageHandedOn ==
  mode = "set" /\ lost = {} =>
    \A k \in 0..Length[header] - 1 : scratch[k] = Byte(header, k)

ImagesErased == \A img \in Img : HeaderSize + Length[img] <= ErasedSize

BlocksFit ==
  \A img \in Img : \A k \in 0..Length[img] - 1 :
    InArea(Block * (k \div Block), Block)

\* From the radio to the scratchpad an image arrives byte by byte, whatever is
\* lost, padded, heard twice, refused or cut short by a reset: if it lies in the
\* erased sectors and in whole blocks of an area of at most 64 KiB, no flash
\* operation outlives its time-out and no block could not be read.
\* (ble.c:347-550; otap.c:71-282)
THEOREM ImageArrives ==
  ASSUME MaxTimeouts = 0, AreaSize <= 65536, ImagesErased, BlocksFit
  PROVE  Spec => []ImageHandedOn
<1>1. RangesFit
  <2>1. SUFFICES ASSUME NEW img \in Img
                 PROVE  Packages(Length[img], Package[img]) <= 65536
    BY DEF RangesFit
  <2>2. Length[img] \in Nat \ {0} /\ Package[img] \in Nat \ {0}
    BY ImgSizes
  <2>3. IsErased(Length[img] - 1)
    BY <2>2, Sizes0 DEF ImagesErased, IsErased
  <2>4. Length[img] - 1 \in Positions
    BY <2>2, <2>3, ErasedInArea
  <2>5. Length[img] <= 65536
    BY <2>2, <2>4, Sizes0, LayoutAssumption
  <2> QED
    BY <2>2, <2>5, AreaBoundsPackages
<1>2. IInv /\ [Next]_vars => IInv'
  BY <1>1, StepInv
<1>3. Init => QuietInv
  BY DEF Init, QuietInv
<1>4. QuietInv /\ [Next]_vars => QuietInv'
  BY QuietStep
<1>5. IInv /\ QuietInv => ImageHandedOn
  <2>1. SUFFICES ASSUME IInv, QuietInv, mode = "set", lost = {},
                        NEW k \in 0..Length[header] - 1
                 PROVE  scratch[k] = Byte(header, k)
    BY DEF ImageHandedOn
  <2>2. MarkedWhole /\ ScratchIsBuffer
    BY <1>1, <2>1, InvImplies
  <2>3. header \in Img
    BY <2>1 DEF IInv, BlocksInv
  <2>4. scratch[k] = area[k]
    BY <2>1, <2>2, <2>3 DEF ScratchIsBuffer, BlocksFit
  <2>5. IsErased(k)
    BY <2>1, <2>3, ImgSizes, Sizes0 DEF ImagesErased, IsErased
  <2>6. area[k] = Byte(header, k)
    BY <2>1, <2>2, <2>3, <2>5 DEF MarkedWhole, Holds, QuietInv
  <2> QED
    BY <2>4, <2>6
<1> QED
  BY <1>2, <1>3, <1>4, <1>5, InitInv, PTL DEF Spec

=============================================================================
