-------------------------- MODULE OtapLayoutProofs --------------------------
(***************************************************************************)
(* What the arithmetic of module OtapLayout computes, for every length of  *)
(* image and package: the packages cut the image into disjoint pieces, ids *)
(* and flags tell them apart, and the percentage says when all are there.  *)
(* The hypotheses are the limits the code does not check.                  *)
(***************************************************************************)
EXTENDS OtapLayout, TLAPS

\* How many packages an image takes.
Packages(len, pkg) == len \div pkg + (IF len % pkg = 0 THEN 0 ELSE 1)

LEMMA DivMod ==
  ASSUME NEW n \in Nat, NEW d \in Nat \ {0}
  PROVE  /\ n \div d \in Nat
         /\ (n % d) \in Nat
         /\ (n % d) < d
         /\ n = d * (n \div d) + (n % d)
  <1>1. n \div d \in Nat
    OBVIOUS
  <1>2. (n % d) \in Nat /\ (n % d) < d
    OBVIOUS
  <1>3. n = d * (n \div d) + (n % d)
    OBVIOUS
  <1>4. QED
    BY <1>1, <1>2, <1>3

LEMMA TenDiv ==
  ASSUME NEW d \in Nat \ {0}
  PROVE  10 \div d \in Nat /\ d * (10 \div d) <= 10 /\ 10 < d * (10 \div d) + d
  OBVIOUS

LEMMA DivUnique ==
  ASSUME NEW n \in Nat, NEW d \in Nat \ {0}, NEW q \in Nat,
         d * q <= n, n < d * q + d
  PROVE  n \div d = q
  <1> DEFINE p == n \div d
  <1>1. p \in Nat /\ d * p <= n /\ n < d * p + d
    BY DivMod
  <1>2. ~ (p < q)
    <2>1. ASSUME p < q
          PROVE  FALSE
      <3>1. d * (p + 1) <= d * q
        BY <2>1, <1>1
      <3>2. d * (p + 1) = d * p + d
        BY <1>1
      <3>3. QED
        BY <3>1, <3>2, <1>1
    <2>2. QED
      BY <2>1
  <1>3. ~ (q < p)
    <2>1. ASSUME q < p
          PROVE  FALSE
      <3>1. d * (q + 1) <= d * p
        BY <2>1, <1>1
      <3>2. d * (q + 1) = d * q + d
        OBVIOUS
      <3>3. QED
        BY <3>1, <3>2, <1>1
    <2>2. QED
      BY <2>1
  <1>4. QED
    BY <1>1, <1>2, <1>3

LEMMA U16Id ==
  ASSUME NEW n \in Nat, n < 65536
  PROVE  U16(n) = n
  BY DEF U16

\* The number of packages is the smallest one that holds the image.
LEMMA PackagesCeil ==
  ASSUME NEW len \in Nat, NEW pkg \in Nat \ {0}
  PROVE  /\ Packages(len, pkg) \in Nat
         /\ len <= pkg * Packages(len, pkg)
         /\ pkg * Packages(len, pkg) < len + pkg
  <1> DEFINE q == len \div pkg
             r == len % pkg
  <1>1. q \in Nat /\ r \in Nat /\ r < pkg /\ len = pkg * q + r
    BY DivMod
  <1>2. CASE r = 0
    <2>1. Packages(len, pkg) = q
      BY <1>1, <1>2 DEF Packages
    <2>2. QED
      BY <2>1, <1>1, <1>2
  <1>3. CASE r # 0
    <2>1. Packages(len, pkg) = q + 1
      BY <1>1, <1>3 DEF Packages
    <2>2. pkg * (q + 1) = pkg * q + pkg
      BY <1>1
    <2>3. QED
      BY <2>1, <2>2, <1>1, <1>3
  <1>4. QED
    BY <1>2, <1>3

\* As long as the ids do not reach the end of the uint16_t, the range of ids
\* has one id for each package of the image. (ble.c:433-437)
THEOREM RangeIsImage ==
  ASSUME NEW len \in Nat \ {0}, NEW pkg \in Nat \ {0},
         Packages(len, pkg) <= 32768
  PROVE  /\ TotalMessages(len, pkg) = Packages(len, pkg)
         /\ EndMessageId(len, pkg) = FirstId + TotalMessages(len, pkg) - 1
         /\ TotalMessages(len, pkg) \in Nat \ {0}
  <1> DEFINE t == Packages(len, pkg)
  <1>1. t \in Nat /\ len <= pkg * t
    BY PackagesCeil
  <1>2. t # 0
    BY <1>1
  <1>3. FirstId + len \div pkg + (IF len % pkg = 0 THEN 0 ELSE 1) - 1
          = FirstId + t - 1
    BY DivMod DEF Packages, FirstId
  <1> HIDE DEF t
  <1>4. FirstId + t - 1 \in Nat /\ FirstId + t - 1 < 65536
    BY <1>1, <1>2 DEF FirstId, t
  <1>5. EndMessageId(len, pkg) = FirstId + t - 1
    BY <1>3, <1>4, U16Id DEF EndMessageId
  <1>6. EndMessageId(len, pkg) - FirstId + 1 = t /\ t < 65536
    BY <1>5, <1>1 DEF FirstId, t
  <1>7. TotalMessages(len, pkg) = t
    BY <1>6, <1>1, U16Id DEF TotalMessages
  <1>8. QED
    BY <1>1, <1>2, <1>5, <1>7 DEF t

\* Every byte of the image is in exactly one package. (ble.c:468-469)
THEOREM ByteInOnePackage ==
  ASSUME NEW len \in Nat \ {0}, NEW pkg \in Nat \ {0},
         Packages(len, pkg) <= 32768,
         NEW k \in 0..len - 1
  PROVE  /\ k \div pkg \in 0..TotalMessages(len, pkg) - 1
         /\ \A i \in Nat :
              Offset(i, pkg) <= k /\ k < Offset(i, pkg) + pkg
                <=> i = k \div pkg
  <1> DEFINE q == k \div pkg
             t == TotalMessages(len, pkg)
  <1>1. q \in Nat /\ pkg * q <= k /\ k < pkg * q + pkg
    BY DivMod
  <1>2. t \in Nat /\ len <= pkg * t
    BY RangeIsImage, PackagesCeil
  <1> HIDE DEF t, q
  <1>3. q < t
    <2>1. ASSUME t <= q
          PROVE  FALSE
      <3>1. pkg * t <= pkg * q
        BY <2>1, <1>1, <1>2
      <3>2. QED
        BY <3>1, <1>1, <1>2
    <2>2. QED
      BY <2>1, <1>1, <1>2
  <1>4. ASSUME NEW i \in Nat, Offset(i, pkg) <= k, k < Offset(i, pkg) + pkg
        PROVE  i = q
    <2>1. pkg * i = i * pkg
      OBVIOUS
    <2>2. pkg * i <= k /\ k < pkg * i + pkg
      BY <1>4, <2>1 DEF Offset
    <2>3. QED
      BY <2>2, DivUnique DEF q
  <1>5. Offset(q, pkg) <= k /\ k < Offset(q, pkg) + pkg
    <2>1. q * pkg = pkg * q
      BY <1>1
    <2>2. QED
      BY <2>1, <1>1 DEF Offset
  <1>6. q \in 0..t - 1
    BY <1>1, <1>2, <1>3
  <1>7. QED
    BY <1>4, <1>5, <1>6 DEF q, t

\* messageReceived[] has room for 4096 packages, and each has a bit of its
\* own. (ble.c:476, ble.h:38)
THEOREM FlagsApart ==
  ASSUME NEW i \in Nat, NEW j \in Nat, i < 4096
  PROVE  /\ Flag(i)[1] \in 0..511
         /\ Flag(i)[2] \in 0..7
         /\ Flag(i) = Flag(j) => i = j
  BY DEF Flag

\* An image of at most 65536 bytes has no more packages than there are ids in
\* 16 bits; and with packages of at least eight bytes in at most
\* 32768 bytes, the flag of a package in the area lies within messageReceived[].
\* (ble.c:434-437, 476; ble.h:37-38)
THEOREM AreaBoundsPackages ==
  ASSUME NEW len \in Nat, NEW pkg \in Nat \ {0}
  PROVE  /\ len <= 65536 => Packages(len, pkg) <= 65536
         /\ \A i \in Nat :
              /\ pkg >= 8 /\ UsableSize <= 32768
              /\ InArea(Offset(i, pkg), pkg)
              => i < 4096
  <1>1. Packages(len, pkg) <= len
    <2> DEFINE p == Packages(len, pkg)
    <2>1. p \in Nat /\ pkg * p < len + pkg
      BY PackagesCeil
    <2>2. CASE p = 0
      BY <2>2
    <2>3. CASE p # 0
      <3> HIDE DEF p
      <3>1. PICK m \in Nat : p = m + 1
        BY <2>1, <2>3, p - 1 \in Nat
      <3>2. pkg * p = pkg * m + pkg
        BY <3>1
      <3>3. pkg * m >= m
        BY <3>1
      <3> QED
        BY <2>1, <3>1, <3>2, <3>3 DEF p
    <2> QED
      BY <2>2, <2>3
  <1>2. ASSUME NEW i \in Nat, pkg >= 8, UsableSize <= 32768,
               InArea(Offset(i, pkg), pkg)
        PROVE  i < 4096
    <2>1. Offset(i, pkg) + pkg <= 32768
      BY <1>2, LayoutAssumption DEF InArea, UsableSize, Offset
    <2>2. Offset(i, pkg) >= 8 * i
      BY <1>2 DEF Offset
    <2> QED
      BY <1>2, <2>1, <2>2 DEF Offset
  <1> QED
    BY <1>1, <1>2, PackagesCeil

\* What Otap_bufferBegin() does not erase: the header is counted twice, once as
\* taken from the area and once as its front, and what is left of a sector is
\* dropped.  An image is safe only up to there. (otap.c:129, 135-151)
THEOREM TailNotErased ==
  /\ AreaSize - ErasedSize = HeaderSize + (UsableSize % SectorSize)
  /\ \A k \in Positions :
       ~IsErased(k) <=> k >= UsableSize - (UsableSize % SectorSize) - HeaderSize
  <1> DEFINE q == UsableSize \div SectorSize
             r == UsableSize % SectorSize
  <1>1. UsableSize \in Nat /\ UsableSize = AreaSize - HeaderSize
        /\ HeaderSize \in Nat /\ AreaSize \in Nat
    BY LayoutAssumption DEF UsableSize
  <1>2. q \in Nat /\ r \in Nat /\ UsableSize = SectorSize * q + r
    BY <1>1, LayoutAssumption, DivMod
  <1>3. ErasedSize = SectorSize * q
    BY <1>2, LayoutAssumption DEF ErasedSize
  <1> HIDE DEF q, r
  <1>4. ErasedSize = UsableSize - r /\ ErasedSize \in Int
    <2>1. SectorSize * q \in Int
      BY <1>2, LayoutAssumption
    <2> QED
      BY <1>1, <1>2, <1>3, <2>1
  <1>5. AreaSize - ErasedSize = HeaderSize + r
    BY <1>1, <1>2, <1>4
  <1>6. ASSUME NEW k \in Positions
        PROVE  ~IsErased(k) <=> k >= UsableSize - r - HeaderSize
    BY <1>1, <1>2, <1>4 DEF IsErased, Positions
  <1>7. r = UsableSize % SectorSize
    BY DEF r
  <1> QED
    BY <1>5, <1>6, <1>7

\* What the app is told is a percentage, and it is 100 when nothing is missing
\* and only then. (ble.c:480, 489)
THEOREM HundredMeansComplete ==
  /\ \A total \in Nat \ {0}, i \in Nat :
       i < total => Percentage(i, total) \in 0..89
  /\ \A missing \in Nat :
       /\ LastPercentage(missing) \in 90..100
       /\ LastPercentage(missing) = 100 <=> missing = 0
  <1>1. ASSUME NEW total \in Nat \ {0}, NEW i \in Nat, i < total
        PROVE  Percentage(i, total) \in 0..89
    <2> DEFINE p == (i * 90) \div total
    <2>1. p \in Nat /\ total * p <= i * 90
      BY <1>1, DivMod
    <2> HIDE DEF p
    <2>2. p < 90
      <3>1. ASSUME 90 <= p
            PROVE  FALSE
        <4>1. total * 90 <= total * p
          BY <3>1, <2>1
        <4>2. QED
          BY <4>1, <2>1, <1>1
      <3>2. QED
        BY <3>1, <2>1
    <2>3. QED
      BY <2>1, <2>2 DEF p, Percentage
  <1>2. ASSUME NEW missing \in Nat
        PROVE  /\ LastPercentage(missing) \in 90..100
               /\ LastPercentage(missing) = 100 <=> missing = 0
    <2> DEFINE p == 10 \div (missing + 1)
    <2>1. p \in Nat /\ (missing + 1) * p <= 10 /\ 10 < (missing + 1) * p + (missing + 1)
      <3>1. missing + 1 \in Nat \ {0}
        OBVIOUS
      <3>2. QED
        BY <3>1, TenDiv
    <2> HIDE DEF p
    <2>2. CASE missing = 0
      BY <2>1, <2>2 DEF LastPercentage, p
    <2>3. CASE missing # 0
      <3>1. 2 * p <= (missing + 1) * p
        BY <2>1, <2>3
      <3>2. p <= 5
        BY <3>1, <2>1
      <3>3. QED
        BY <3>2, <2>1, <2>3 DEF LastPercentage, p
    <2>4. QED
      BY <2>2, <2>3
  <1>3. QED
    BY <1>1, <1>2

=============================================================================
