------------------------------ MODULE SlotCount ------------------------------
(***************************************************************************)
(* Both ble.c and sm.c keep their items in an array of slots, and drop an  *)
(* item when no slot is free.  When each occupied slot has one owner, that *)
(* is when there are as many owners as slots.                              *)
(***************************************************************************)
EXTENDS Integers, FiniteSetTheorems, TLAPS

\* The first n slots of a sequence differ, and they are all there are.
Differ(owner, n) == \A i, j \in 1..n : owner[i] = owner[j] => i = j
Cover(owner, n, len) == \A s \in 1..len : \E i \in 1..n : owner[i] = s

\* All slots are taken when there are as many different owners as slots.
\* (ble.c:246-261, sm.c:96-105)
THEOREM AllTaken ==
  ASSUME NEW len \in Nat, NEW n \in Nat,
         NEW owner \in [1..n -> 1..len], Differ(owner, n)
  PROVE  /\ n <= len
         /\ n = len <=> Cover(owner, n, len)
<1> USE DEF Differ, Cover
<1>1. owner \in Injection(1..n, 1..len)
  BY DEF Injection, IsInjective
<1>2. /\ IsFiniteSet(1..len) /\ Cardinality(1..len) = len
      /\ Cardinality(1..n) = n
  <2>1. IsFiniteSet(1..len) /\ Cardinality(1..len) = IF 1 > len THEN 0 ELSE len - 1 + 1
    BY FS_Interval
  <2>2. Cardinality(1..n) = IF 1 > n THEN 0 ELSE n - 1 + 1
    BY FS_Interval
  <2> QED
    BY <2>1, <2>2
<1>3. /\ Cardinality(1..n) <= Cardinality(1..len)
      /\ Cardinality(1..n) = Cardinality(1..len)
           <=> owner \in Surjection(1..n, 1..len)
  BY <1>1, <1>2, FS_Injection
<1>4. owner \in Surjection(1..n, 1..len)
        <=> \A s \in 1..len : \E i \in 1..n : owner[i] = s
  BY DEF Surjection
<1> QED
  BY <1>2, <1>3, <1>4

=============================================================================
