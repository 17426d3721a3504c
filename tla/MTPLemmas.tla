----------------------------- MODULE MTPLemmas -----------------------------
(***************************************************************************)
(* Facts about numbers, slots and frame numbers that the proofs about the  *)
(* transport rest on: remainders for every modulus, least elements, and    *)
(* what the wrap-around of msocket.c and initmsocket.c computes.           *)
(***************************************************************************)
EXTENDS MTPFrames, FiniteSets, FiniteSetTheorems, WellFoundedInduction, TLAPS

(***************************************************************************)
(* Remainders.                                                             *)
(***************************************************************************)

\* Quotient and remainder rebuild the number.
LEMMA DivMod ==
  ASSUME NEW M \in Nat, M > 0, NEW n \in Nat
  PROVE  /\ n = M * (n \div M) + (n % M)
         /\ n \div M \in Nat
         /\ n % M \in 0..(M - 1)
BY SMTT(30)

\* Multiplication distributes over the difference of two quotients.
LEMMA Distribute ==
  ASSUME NEW M \in Nat, NEW q \in Int, NEW r \in Int
  PROVE  M * (q - r) = M * q - M * r
BY SMTT(30)

\* A positive multiple of M is at least M.
LEMMA PositiveMultiple ==
  ASSUME NEW M \in Nat, M > 0, NEW q \in Int, q > 0
  PROVE  M * q >= M
BY SMTT(30)

\* A negative multiple of M is at most -M.
LEMMA NegativeMultiple ==
  ASSUME NEW M \in Nat, M > 0, NEW q \in Int, q < 0
  PROVE  M * q <= -M
<1>1. M * (-q) >= M
  BY PositiveMultiple
<1>2. M * (0 - (-q)) = M * 0 - M * (-q)
  BY Distribute
<1> QED BY <1>1, <1>2, SMTT(30)

\* Quotient and remainder are unique.
LEMMA DivModUnique ==
  ASSUME NEW M \in Nat, M > 0, NEW q \in Int, NEW r \in Int,
         NEW x \in 0..(M - 1), NEW y \in 0..(M - 1), M * q + x = M * r + y
  PROVE  q = r /\ x = y
<1>1. M * (q - r) = y - x
  BY Distribute, SMTT(30)
<1>2. q - r \in Int /\ y - x < M /\ y - x > -M
  OBVIOUS
<1>3. q - r = 0
  <2>1. ~ (q - r > 0)
    BY <1>1, <1>2, PositiveMultiple
  <2>2. ~ (q - r < 0)
    BY <1>1, <1>2, NegativeMultiple
  <2> QED BY <2>1, <2>2
<1> QED BY <1>3, SMTT(30)

\* A number written as M * q + x, x below M, has remainder x.
LEMMA ModUnique ==
  ASSUME NEW M \in Nat, M > 0, NEW n \in Nat, NEW q \in Int,
         NEW x \in 0..(M - 1), n = M * q + x
  PROVE  n % M = x
<1>1. /\ n = M * (n \div M) + (n % M)
      /\ n \div M \in Nat
      /\ n % M \in 0..(M - 1)
  BY DivMod
<1> QED BY <1>1, DivModUnique

\* Numbers less than M apart have different remainders.
LEMMA ModInjective ==
  ASSUME NEW M \in Nat, M > 0, NEW n \in Nat, NEW m \in Nat, n < m, m - n < M
  PROVE  n % M # m % M
<1> SUFFICES ASSUME n % M = m % M PROVE FALSE
  OBVIOUS
<1> DEFINE q == m \div M
           r == n \div M
<1>1. m = M * q + (m % M) /\ n = M * r + (n % M) /\ q \in Nat /\ r \in Nat
  BY DivMod
<1>2. m % M \in Int
  BY DivMod
<1> HIDE DEF q, r
<1>3. M * (q - r) = m - n
  BY <1>1, <1>2, Distribute, SMTT(30)
<1>4. q - r > 0 => M * (q - r) >= M
  BY PositiveMultiple, <1>1
<1>5. q - r < 0 => M * (q - r) <= -M
  BY NegativeMultiple, <1>1
<1>6. q - r = 0 => M * (q - r) = 0
  BY <1>1, SMTT(30)
<1>7. m - n > 0 /\ m - n < M /\ -M < 0
  OBVIOUS
<1> QED BY <1>1, <1>3, <1>4, <1>5, <1>6, <1>7

\* The remainder of the next number.
LEMMA ModStep ==
  ASSUME NEW M \in Nat, M > 0, NEW n \in Nat
  PROVE  (n + 1) % M = IF n % M = M - 1 THEN 0 ELSE (n % M) + 1
<1> DEFINE q == n \div M
<1>1. n = M * q + (n % M) /\ q \in Nat /\ n % M \in 0..(M - 1)
  BY DivMod
<1> HIDE DEF q
<1>2. CASE n % M = M - 1
  <2>1. n + 1 = M * (q + 1) + 0
    BY <1>1, <1>2, SMTT(30)
  <2> QED BY <2>1, <1>1, <1>2, ModUnique
<1>3. CASE n % M # M - 1
  <2>1. n + 1 = M * q + ((n % M) + 1) /\ (n % M) + 1 \in 0..(M - 1)
    BY <1>1, <1>3, SMTT(30)
  <2> QED BY <2>1, <1>1, <1>3, ModUnique
<1> QED BY <1>2, <1>3

\* A number below M is its own remainder.
LEMMA ModSmall ==
  ASSUME NEW M \in Nat, M > 0, NEW x \in 0..(M - 1)
  PROVE  x % M = x
<1>1. x = M * 0 + x
  BY SMTT(30)
<1> QED BY <1>1, ModUnique

(***************************************************************************)
(* Least elements.                                                         *)
(***************************************************************************)

\* A set of naturals has a least element: "the first slot that ..." exists.
LEMMA LeastNat ==
  ASSUME NEW S \in SUBSET Nat, S # {}
  PROVE  \E j \in S : \A k \in S : j <= k
<1> DEFINE Below(j) == 0..(j - 1)
           C == { Below(j) : j \in S }
<1>1. C \subseteq FiniteSubsetsOf(Nat)
  <2> SUFFICES ASSUME NEW j \in S PROVE Below(j) \in FiniteSubsetsOf(Nat)
    OBVIOUS
  <2>1. IsFiniteSet(Below(j))
    BY FS_Interval
  <2>2. Below(j) \subseteq Nat
    OBVIOUS
  <2> QED BY <2>1, <2>2 DEF FiniteSubsetsOf
<1>2. C # {}
  OBVIOUS
<1>3. IsWellFoundedOn(StrictSubsetOrdering(Nat), FiniteSubsetsOf(Nat))
  BY FS_StrictSubsetOrderingWellFounded
<1>4. PICK x \in C : \A y \in C : ~ (<<y, x>> \in StrictSubsetOrdering(Nat))
  <2> HIDE DEF C
  <2> QED BY <1>1, <1>2, <1>3, WFMin
<1>5. PICK j \in S : x = Below(j)
  OBVIOUS
<1>6. ASSUME NEW k \in S, k < j
      PROVE  FALSE
  <2>1. Below(k) \in C
    OBVIOUS
  <2>2. Below(k) \subseteq Below(j) /\ Below(k) # Below(j)
    <3>1. k \in Below(j) /\ k \notin Below(k)
      BY <1>6
    <3> QED BY <3>1, <1>6
  <2>3. <<Below(k), Below(j)>> \in StrictSubsetOrdering(Nat)
    BY <2>2, <1>6 DEF StrictSubsetOrdering
  <2> QED BY <2>1, <2>3, <1>4, <1>5
<1> QED BY <1>6

(***************************************************************************)
(* Frame numbers.                                                          *)
(***************************************************************************)

\* The wrap-around keeps a frame counter among the frame numbers.
LEMMA NextFrameType ==
  ASSUME NEW f \in Frame
  PROVE  NextFrame(f) \in Frame /\ NextFrame(f) = IF f = MaxSeq - 1 THEN 1 ELSE f + 1
<1>1. MaxSeq \in Nat /\ MaxSeq > 2
  BY FrameAssumption
<1>2. CASE f = MaxSeq - 1
  <2>1. f + 1 = MaxSeq * 1 + 0
    BY <1>1, <1>2, SMTT(30)
  <2>2. (f + 1) % MaxSeq = 0
    BY <2>1, <1>1, ModUnique DEF Frame
  <2> QED BY <2>2, <1>1, <1>2 DEF NextFrame, Wrap, Frame
<1>3. CASE f # MaxSeq - 1
  <2>1. f + 1 \in 0..(MaxSeq - 1)
    BY <1>1, <1>3 DEF Frame
  <2>2. (f + 1) % MaxSeq = f + 1
    BY <2>1, <1>1, ModSmall
  <2> QED BY <2>1, <2>2, <1>1, <1>3 DEF NextFrame, Wrap, Frame
<1> QED BY <1>2, <1>3

\* The n-th message has a frame number, and it is a number other than 0.
LEMMA FrameOfType ==
  ASSUME NEW n \in Nat, n >= 1
  PROVE  FrameOf(n) \in Frame
<1>1. n - 1 \in Nat /\ MaxSeq - 1 \in Nat /\ MaxSeq - 1 > 0
  BY FrameAssumption
<1>2. (n - 1) % (MaxSeq - 1) \in 0..((MaxSeq - 1) - 1)
  BY <1>1, DivMod
<1> QED BY <1>1, <1>2 DEF FrameOf, Frame

\* The counters step through the frame numbers of successive messages.
LEMMA FrameOfNext ==
  ASSUME NEW n \in Nat, n >= 1
  PROVE  NextFrame(FrameOf(n)) = FrameOf(n + 1)
<1> DEFINE M == MaxSeq - 1
           m == n - 1
<1>1. m \in Nat /\ M \in Nat /\ M > 0 /\ (n + 1) - 1 = m + 1
  BY FrameAssumption
<1>2. FrameOf(n) \in Frame
  BY FrameOfType
<1>3. m % M \in 0..(M - 1)
  BY <1>1, DivMod
<1>4. FrameOf(n) = (m % M) + 1
  BY DEF FrameOf
<1>5. FrameOf(n + 1) = ((m + 1) % M) + 1
  BY <1>1 DEF FrameOf
<1> HIDE DEF m
<1>6. (m + 1) % M = IF m % M = M - 1 THEN 0 ELSE (m % M) + 1
  BY <1>1, ModStep
<1>7. NextFrame(FrameOf(n)) = IF FrameOf(n) = MaxSeq - 1 THEN 1 ELSE FrameOf(n) + 1
  BY <1>2, NextFrameType
<1> QED BY <1>1, <1>3, <1>4, <1>5, <1>6, <1>7, FrameAssumption

\* Frame 1 is the first message's.
LEMMA FrameOfFirst == FrameOf(1) = 1
<1>1. MaxSeq - 1 \in Nat /\ MaxSeq - 1 > 0 /\ 0 \in 0..((MaxSeq - 1) - 1)
  BY FrameAssumption
<1>2. 0 % (MaxSeq - 1) = 0
  BY <1>1, ModSmall
<1> QED BY <1>2 DEF FrameOf

\* Messages fewer than MAX_SEQ - 1 apart never share a frame number.
LEMMA FrameOfInjective ==
  ASSUME NEW n \in Nat, n >= 1, NEW m \in Nat, m >= 1,
         n - m < MaxSeq - 1, m - n < MaxSeq - 1, FrameOf(n) = FrameOf(m)
  PROVE  n = m
<1> DEFINE M == MaxSeq - 1
<1>1. n - 1 \in Nat /\ m - 1 \in Nat /\ M \in Nat /\ M > 0
  BY FrameAssumption
<1>2. (n - 1) % M \in Nat /\ (m - 1) % M \in Nat
  BY <1>1, DivMod
<1>3. (n - 1) % M = (m - 1) % M
  BY <1>2 DEF FrameOf
<1>4. (n - 1) - (m - 1) < M /\ (m - 1) - (n - 1) < M
  BY <1>1
<1>5. ~ (n - 1 < m - 1) /\ ~ (m - 1 < n - 1)
  <2> HIDE DEF M
  <2> QED BY <1>1, <1>3, <1>4, ModInjective
<1> QED BY <1>5

(***************************************************************************)
(* Slots, and the slots of successive messages.                            *)
(***************************************************************************)

\* Sets of slots are finite.
LEMMA SlotsFinite ==
  ASSUME NEW S \in SUBSET Slot
  PROVE  IsFiniteSet(S) /\ Cardinality(S) \in Nat
<1>1. IsFiniteSet(Slot)
  BY FS_Interval, FrameAssumption DEF Slot
<1> QED BY <1>1, FS_Subset, FS_CardinalityType

\* There are Buf slots.
LEMMA SlotCount == Cardinality(Slot) = Buf
BY FS_Interval, FrameAssumption DEF Slot

\* Slot 0 exists, and counting modulo Buf stays among the slots.
LEMMA SlotArith ==
  /\ 0 \in Slot
  /\ \A j \in Slot : (j + 1) % Buf \in Slot
<1>1. 0 \in Slot
  BY FrameAssumption DEF Slot
<1>2. ASSUME NEW j \in Slot PROVE (j + 1) % Buf \in Slot
  <2>1. j + 1 \in Nat /\ Buf \in Nat /\ Buf > 0
    BY FrameAssumption DEF Slot
  <2> QED BY <2>1, DivMod DEF Slot
<1> QED BY <1>1, <1>2

\* A message has a slot.
LEMMA SlotOfType ==
  ASSUME NEW n \in Nat, n >= 1
  PROVE  SlotOf(n) \in Slot
<1>1. n - 1 \in Nat /\ Buf \in Nat /\ Buf > 0
  BY FrameAssumption
<1>2. (n - 1) % Buf \in 0..(Buf - 1)
  BY <1>1, DivMod
<1> QED BY <1>2 DEF SlotOf, Slot

\* The cursors step through the slots of successive messages.
LEMMA SlotOfNext ==
  ASSUME NEW n \in Nat, n >= 1
  PROVE  (SlotOf(n) + 1) % Buf = SlotOf(n + 1)
<1> DEFINE m == n - 1
           x == m % Buf
<1>1. m \in Nat /\ Buf \in Nat /\ Buf > 0 /\ (n + 1) - 1 = m + 1
  BY FrameAssumption
<1>2. SlotOf(n) = x /\ SlotOf(n + 1) = (m + 1) % Buf
  BY <1>1 DEF SlotOf
<1> HIDE DEF m
<1>3. x \in 0..(Buf - 1)
  BY <1>1, DivMod
<1>4. (m + 1) % Buf = IF x = Buf - 1 THEN 0 ELSE x + 1
  BY <1>1, ModStep
<1>5. x % Buf = x
  BY <1>1, <1>3, ModSmall
<1>6. (x + 1) % Buf = IF x = Buf - 1 THEN 0 ELSE x + 1
  <2>1. x \in Nat
    BY <1>3, <1>1
  <2> HIDE DEF x
  <2> QED BY <1>1, <1>5, <2>1, ModStep
<1> QED BY <1>2, <1>4, <1>6

\* Messages fewer than Buf apart have different slots.
LEMMA SlotOfInjective ==
  ASSUME NEW n \in Nat, n >= 1, NEW m \in Nat, m >= 1,
         n - m < Buf, m - n < Buf, SlotOf(n) = SlotOf(m)
  PROVE  n = m
<1>1. n - 1 \in Nat /\ m - 1 \in Nat /\ Buf \in Nat /\ Buf > 0
  BY FrameAssumption
<1>2. (n - 1) - (m - 1) < Buf /\ (m - 1) - (n - 1) < Buf
  BY <1>1
<1>3. (n - 1) % Buf = (m - 1) % Buf
  BY DEF SlotOf
<1>4. ~ (n - 1 < m - 1) /\ ~ (m - 1 < n - 1)
  BY <1>1, <1>2, <1>3, ModInjective
<1> QED BY <1>4

\* The message Buf later has the same slot.
LEMMA SlotOfWrap ==
  ASSUME NEW n \in Nat, n >= 1
  PROVE  SlotOf(n + Buf) = SlotOf(n)
<1> DEFINE m == n - 1
           q == m \div Buf
           x == m % Buf
<1>1. m \in Nat /\ Buf \in Nat /\ Buf > 0 /\ (n + Buf) - 1 = m + Buf
  BY FrameAssumption
<1>2. m = Buf * q + x /\ q \in Nat /\ x \in 0..(Buf - 1)
  BY <1>1, DivMod
<1>3. SlotOf(n) = x /\ SlotOf(n + Buf) = (m + Buf) % Buf
  BY <1>1 DEF SlotOf
<1> HIDE DEF m, q, x
<1> DEFINE y == m + Buf
<1>4. y = Buf * (q + 1) + x /\ y \in Nat
  BY <1>1, <1>2, SMTT(30)
<1>5. y % Buf = x
  <2>1. q + 1 \in Int
    BY <1>2
  <2> HIDE DEF y
  <2> QED BY <1>1, <1>2, <1>4, <2>1, ModUnique
<1> QED BY <1>3, <1>5

\* Any Buf successive messages use every slot.
LEMMA SlotOfCovers ==
  ASSUME NEW k \in Nat, NEW j \in Slot
  PROVE  \E n \in (k + 1)..(k + Buf) : SlotOf(n) = j
<1> DEFINE q == k \div Buf
           x == k % Buf
           m == IF j >= x THEN k + (j - x) ELSE k + (j - x) + Buf
<1>1. Buf \in Nat /\ Buf > 0 /\ j \in 0..(Buf - 1)
  BY FrameAssumption DEF Slot
<1>2. k = Buf * q + x /\ q \in Nat /\ x \in 0..(Buf - 1)
  BY <1>1, DivMod
<1> HIDE DEF q, x
<1>3. m \in k..(k + Buf - 1)
  BY <1>1, <1>2
<1>4. m % Buf = j
  <2>1. CASE j >= x
    <3>1. m = Buf * q + j /\ m \in Nat
      BY <2>1, <1>1, <1>2
    <3> HIDE DEF m
    <3> QED BY <3>1, <1>1, <1>2, ModUnique
  <2>2. CASE j < x
    <3>1. m = Buf * (q + 1) + j /\ m \in Nat
      BY <2>2, <1>1, <1>2, SMTT(30)
    <3>2. q + 1 \in Int
      BY <1>2
    <3> HIDE DEF m
    <3> QED BY <3>1, <3>2, <1>1, ModUnique
  <2> QED BY <2>1, <2>2, <1>1, <1>2
<1> HIDE DEF m
<1>5. m + 1 \in (k + 1)..(k + Buf) /\ (m + 1) - 1 = m
  BY <1>1, <1>3
<1> QED BY <1>4, <1>5 DEF SlotOf
=============================================================================
