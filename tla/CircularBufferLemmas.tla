------------------------ MODULE CircularBufferLemmas ------------------------
(***************************************************************************)
(* Facts about the operators of CircularBuffer, for every ring size, and   *)
(* about the bytes of a sequence of commands.                              *)
(***************************************************************************)
EXTENDS CircularBuffer, SequenceTheorems, FiniteSetTheorems, TLAPS

-----------------------------------------------------------------------------
(* The number of elements of a set.                                        *)

Finite(S) == IsFiniteSet(S)

Size(S) == Cardinality(S)

\* A part of a finite set is finite and has no more elements, and an element
\* that is added counts.
LEMMA PartOfFinite ==
  ASSUME NEW S, Finite(S), NEW T \in SUBSET S
  PROVE  /\ Finite(T) /\ Size(T) \in Nat /\ Size(S) \in Nat /\ Size(T) <= Size(S)
         /\ \A x \in S : x \notin T => Size(T) + 1 <= Size(S)
<1>1. IsFiniteSet(S)
  BY DEF Finite
<1>2. IsFiniteSet(T) /\ Cardinality(T) <= Cardinality(S)
  BY <1>1, FS_Subset
<1>3. Cardinality(T) \in Nat /\ Cardinality(S) \in Nat
  BY <1>1, <1>2, FS_CardinalityType
<1>4. ASSUME NEW x \in S, x \notin T
      PROVE  Cardinality(T) + 1 <= Cardinality(S)
  <2>1. T \cup {x} \in SUBSET S
    BY <1>4
  <2>2. Cardinality(T \cup {x}) = Cardinality(T) + 1
    BY <1>2, <1>4, FS_AddElement
  <2>3. Cardinality(T \cup {x}) <= Cardinality(S)
    BY <1>1, <2>1, FS_Subset
  <2> QED
    BY <2>2, <2>3
<1> QED
  BY <1>2, <1>3, <1>4 DEF Finite, Size

-----------------------------------------------------------------------------
(* Offsets in the ring.                                                    *)

\* The modulus of a sum of two offsets: at most one wrap-around.
LEMMA ModWrap ==
  ASSUME NEW n \in Nat \ {0}, NEW a \in 0..(2 * n - 1)
  PROVE  a % n = IF a < n THEN a ELSE a - n
<1>1. CASE a < n
  BY <1>1
<1>2. CASE a >= n
  <2>1. a - n \in 0..(n - 1) /\ a = (a - n) + n
    BY <1>2
  <2> QED
    BY <1>2, <2>1
<1> QED
  BY <1>1, <1>2

\* Advancing an offset with "% AESDCHAR_MAX_WRITE_OPERATIONS_SUPPORTED" is a
\* step to the next slot that wraps at the last one.
LEMMA NextSlotValue ==
  ASSUME NEW i \in Slot
  PROVE  /\ NextSlot(i) = IF i = MaxOps - 1 THEN 0 ELSE i + 1
         /\ NextSlot(i) \in Slot
<1>1. i + 1 \in 0..(2 * MaxOps - 1) /\ i \in 0..(MaxOps - 1) /\ MaxOps \in Nat \ {0}
  BY MaxOpsAssumption DEF Slot
<1>2. PICK t \in 0..(2 * MaxOps - 1) : t = i + 1
  BY <1>1
<1>3. t % MaxOps = IF t < MaxOps THEN t ELSE t - MaxOps
  BY <1>1, ModWrap
<1>4. NextSlot(i) = t % MaxOps
  BY <1>2 DEF NextSlot
<1> QED
  BY <1>1, <1>2, <1>3, <1>4 DEF Slot

\* The slot k steps after the oldest one, without the modulus.
LEMMA SlotAtValue ==
  ASSUME NEW b \in Buffer, NEW k \in Slot
  PROVE  /\ SlotAt(b, k) = IF b.out_offs + k < MaxOps THEN b.out_offs + k
                           ELSE b.out_offs + k - MaxOps
         /\ SlotAt(b, k) \in Slot
<1>1. /\ b.out_offs \in 0..(MaxOps - 1) /\ k \in 0..(MaxOps - 1)
      /\ MaxOps \in Nat \ {0}
  BY MaxOpsAssumption DEF Slot, Buffer
<1>2. b.out_offs + k \in 0..(2 * MaxOps - 1)
  BY <1>1
<1>3. PICK t \in 0..(2 * MaxOps - 1) : t = b.out_offs + k
  BY <1>2
<1>4. t % MaxOps = IF t < MaxOps THEN t ELSE t - MaxOps
  BY <1>1, ModWrap
<1>5. SlotAt(b, k) = t % MaxOps
  BY <1>3 DEF SlotAt
<1> QED
  BY <1>1, <1>3, <1>4, <1>5 DEF Slot

\* The number of stored entries of a well-shaped ring: in_offs until the ring
\* fills up, which is what aesd_unlocked_ioctl takes as total_commands.
LEMMA CountValue ==
  ASSUME NEW b \in Buffer, RingShape(b)
  PROVE  /\ Count(b) = IF b.full THEN MaxOps ELSE b.in_offs
         /\ Count(b) \in 0..MaxOps
<1>1. MaxOps \in Nat \ {0} /\ b.in_offs \in 0..(MaxOps - 1) /\ b.full \in BOOLEAN
  BY MaxOpsAssumption DEF Slot, Buffer
<1>2. Count(b) = IF b.full THEN MaxOps ELSE b.in_offs
  BY <1>1 DEF Count, RingShape
<1> QED
  BY <1>1, <1>2

\* aesd_circular_buffer_init yields a well-shaped, empty ring.
LEMMA EmptyBufferShape ==
  /\ EmptyBuffer \in Buffer
  /\ RingShape(EmptyBuffer)
  /\ Contents(EmptyBuffer) = << >>
<1>1. EmptyBuffer \in Buffer /\ RingShape(EmptyBuffer)
  BY MaxOpsAssumption DEF EmptyBuffer, Buffer, Slot, NoEntry, Entry, RingShape, NULL
<1>2. Count(EmptyBuffer) = 0
  BY <1>1, CountValue DEF EmptyBuffer
<1>3. Contents(EmptyBuffer) = << >>
  BY <1>2 DEF Contents
<1> QED
  BY <1>1, <1>3

\* aesd_circular_buffer_add_entry keeps the struct well typed.
LEMMA AddEntryType ==
  ASSUME NEW b \in Buffer, NEW e \in Entry
  PROVE  AddEntry(b, e) \in Buffer
BY NextSlotValue DEF AddEntry, Buffer

\* aesd_circular_buffer_add_entry keeps the ring well shaped.
LEMMA AddEntryShape ==
  ASSUME NEW b \in Buffer, NEW e \in Entry, RingShape(b)
  PROVE  RingShape(AddEntry(b, e))
<1>1. NextSlot(b.in_offs) = IF b.in_offs = MaxOps - 1 THEN 0 ELSE b.in_offs + 1
  BY NextSlotValue DEF Buffer
<1>2. CASE b.full
  BY <1>2 DEF AddEntry, RingShape
<1>3. CASE ~b.full
  <2> DEFINE c == AddEntry(b, e)
  <2>1. /\ c.entry = [b.entry EXCEPT ![b.in_offs] = e]
        /\ c.in_offs = IF b.in_offs = MaxOps - 1 THEN 0 ELSE b.in_offs + 1
        /\ c.out_offs = 0 /\ c.full = (c.in_offs = 0)
    BY <1>1, <1>3 DEF AddEntry, RingShape
  <2>2. /\ b.in_offs \in 0..(MaxOps - 1) /\ b.entry \in [0..(MaxOps - 1) -> Entry]
        /\ MaxOps \in Nat
        /\ \A i \in 0..(MaxOps - 1) : i >= b.in_offs => b.entry[i] = NoEntry
    BY <1>3, MaxOpsAssumption DEF Buffer, RingShape, Slot
  <2> HIDE DEF c
  <2>3. ASSUME ~c.full, NEW i \in 0..(MaxOps - 1), i >= c.in_offs
        PROVE  c.entry[i] = NoEntry
    <3>1. c.in_offs = b.in_offs + 1
      BY <2>1, <2>3
    <3>2. i >= b.in_offs /\ i # b.in_offs
      BY <2>2, <2>3, <3>1
    <3> QED
      BY <2>1, <2>2, <3>2
  <2> QED
    BY <2>1, <2>3 DEF RingShape, Slot, c
<1> QED
  BY <1>2, <1>3

\* The stored entries form a sequence.
LEMMA ContentsSeq ==
  ASSUME NEW b \in Buffer, RingShape(b)
  PROVE  Contents(b) \in Seq(Entry) /\ Len(Contents(b)) = Count(b)
<1>1. \A i \in 1..Count(b) : SlotAt(b, i - 1) \in Slot
  BY SlotAtValue, CountValue, MaxOpsAssumption DEF Slot
<1>2. Contents(b) \in [1..Count(b) -> Entry]
  BY <1>1 DEF Contents, Buffer
<1> QED
  BY <1>2, CountValue, IsASeq, LenProperties

\* The i-th oldest stored entry, without the modulus.
LEMMA ContentsAt ==
  ASSUME NEW b \in Buffer, RingShape(b), NEW i \in 1..Count(b)
  PROVE  /\ Contents(b)[i] = b.entry[IF b.out_offs + i - 1 < MaxOps THEN b.out_offs + i - 1
                                     ELSE b.out_offs + i - 1 - MaxOps]
         /\ i \in 1..MaxOps
<1>1. i \in 1..MaxOps /\ i - 1 \in Slot
  BY CountValue, MaxOpsAssumption DEF Slot
<1>2. Contents(b)[i] = b.entry[SlotAt(b, i - 1)]
  BY DEF Contents
<1>3. b.out_offs \in Int
  BY MaxOpsAssumption DEF Buffer, Slot
<1> QED
  BY <1>1, <1>2, <1>3, SlotAtValue

\* The heart of the component: adding to the ring is appending to the sequence
\* of stored entries, after dropping the oldest one when MaxOps are stored.
LEMMA AddEntryRemembers ==
  ASSUME NEW b \in Buffer, NEW e \in Entry, RingShape(b)
  PROVE  Contents(AddEntry(b, e)) =
           Append(IF Len(Contents(b)) < MaxOps THEN Contents(b)
                  ELSE Tail(Contents(b)), e)
<1> DEFINE c == AddEntry(b, e)
           old == Contents(b)
           new == Contents(c)
<1>1. c \in Buffer /\ RingShape(c)
  BY AddEntryType, AddEntryShape
<1>2. /\ b.in_offs \in 0..(MaxOps - 1) /\ b.out_offs \in 0..(MaxOps - 1)
      /\ c.in_offs \in 0..(MaxOps - 1) /\ c.out_offs \in 0..(MaxOps - 1)
      /\ b.entry \in [0..(MaxOps - 1) -> Entry] /\ b.full \in BOOLEAN /\ c.full \in BOOLEAN
  BY <1>1 DEF Buffer, Slot
<1>3. /\ old \in Seq(Entry) /\ Len(old) = Count(b)
      /\ new \in Seq(Entry) /\ Len(new) = Count(c)
  BY <1>1, ContentsSeq
<1>4. /\ Count(b) = IF b.full THEN MaxOps ELSE b.in_offs
      /\ Count(c) = IF c.full THEN MaxOps ELSE c.in_offs
  BY <1>1, CountValue
<1>5. /\ c.entry = [b.entry EXCEPT ![b.in_offs] = e]
      /\ c.in_offs = IF b.in_offs = MaxOps - 1 THEN 0 ELSE b.in_offs + 1
      /\ c.out_offs = IF ~b.full THEN b.out_offs
                      ELSE IF b.out_offs = MaxOps - 1 THEN 0 ELSE b.out_offs + 1
      /\ c.full = (b.full \/ c.in_offs = c.out_offs)
  BY NextSlotValue DEF AddEntry, Buffer
<1>6. \A i \in 1..Count(b) :
        old[i] = b.entry[IF b.out_offs + i - 1 < MaxOps THEN b.out_offs + i - 1
                         ELSE b.out_offs + i - 1 - MaxOps]
  BY ContentsAt
<1>7. \A i \in 1..Count(c) :
        new[i] = c.entry[IF c.out_offs + i - 1 < MaxOps THEN c.out_offs + i - 1
                         ELSE c.out_offs + i - 1 - MaxOps]
  BY <1>1, ContentsAt
<1> HIDE DEF c, old, new
<1>8. MaxOps \in Nat /\ MaxOps > 0
  BY MaxOpsAssumption
<1>9. CASE ~b.full
  <2>1. /\ b.out_offs = 0 /\ c.out_offs = 0 /\ Count(b) = b.in_offs
        /\ Count(c) = b.in_offs + 1
    <3>1. b.out_offs = 0
      BY <1>9 DEF RingShape
    <3>2. c.out_offs = 0
      BY <1>5, <1>9, <3>1
    <3>3. CASE b.in_offs = MaxOps - 1
      <4>1. c.in_offs = 0 /\ c.full
        BY <1>5, <3>2, <3>3
      <4>2. Count(c) = MaxOps
        BY <1>4, <4>1
      <4> QED
        BY <1>4, <1>8, <1>9, <3>1, <3>2, <3>3, <4>2
    <3>4. CASE b.in_offs # MaxOps - 1
      <4>1. c.in_offs = b.in_offs + 1 /\ b.in_offs + 1 # 0
        BY <1>2, <1>5, <1>8, <3>4
      <4>2. ~c.full
        BY <1>5, <1>9, <3>2, <4>1
      <4> QED
        BY <1>4, <1>9, <3>1, <3>2, <4>1, <4>2
    <3> QED
      BY <3>3, <3>4
  <2>2. /\ Append(old, e) \in Seq(Entry) /\ Len(Append(old, e)) = Count(c)
        /\ \A i \in 1..Len(old) : Append(old, e)[i] = old[i]
        /\ Append(old, e)[Len(old) + 1] = e
    BY <1>2, <1>3, <1>8, <2>1, AppendProperties
  <2>3. ASSUME NEW i \in 1..Count(c)
        PROVE  new[i] = Append(old, e)[i]
    <3>1. i \in 1..(b.in_offs + 1) /\ new[i] = c.entry[i - 1]
      BY <1>2, <1>7, <1>8, <2>1
    <3>2. CASE i <= b.in_offs
      <4>1. old[i] = b.entry[i - 1] /\ Append(old, e)[i] = old[i]
        BY <1>2, <1>3, <1>6, <1>8, <2>1, <2>2, <3>1, <3>2
      <4> QED
        BY <1>2, <1>5, <1>8, <3>1, <3>2, <4>1
    <3>3. CASE i = b.in_offs + 1
      BY <1>2, <1>3, <1>5, <1>8, <2>1, <2>2, <3>1, <3>3
    <3>4. i <= b.in_offs \/ i = b.in_offs + 1
      BY <1>2, <1>8, <3>1
    <3> QED
      BY <3>2, <3>3, <3>4
  <2>4. new = Append(old, e)
    BY <1>3, <2>2, <2>3, SeqEqual
  <2> QED
    BY <1>2, <1>3, <1>8, <2>1, <2>4 DEF c, old, new
<1>10. CASE b.full
  <2>1. /\ b.in_offs = b.out_offs /\ c.in_offs = c.out_offs
        /\ Count(b) = MaxOps /\ Count(c) = MaxOps
    BY <1>4, <1>5, <1>10 DEF RingShape
  <2> DEFINE kept == Tail(old)
  <2>2. /\ kept \in Seq(Entry) /\ Len(kept) = MaxOps - 1
        /\ \A i \in 1..(MaxOps - 1) : kept[i] = old[i + 1]
    BY <1>3, <1>8, <2>1, HeadTailProperties
  <2> HIDE DEF kept
  <2>3. /\ Append(kept, e) \in Seq(Entry) /\ Len(Append(kept, e)) = MaxOps
        /\ \A i \in 1..(MaxOps - 1) : Append(kept, e)[i] = old[i + 1]
        /\ Append(kept, e)[MaxOps] = e
    <3>1. /\ Append(kept, e) \in Seq(Entry) /\ Len(Append(kept, e)) = Len(kept) + 1
          /\ \A i \in 1..Len(kept) : Append(kept, e)[i] = kept[i]
          /\ Append(kept, e)[Len(kept) + 1] = e
      BY <2>2, AppendProperties
    <3> QED
      BY <1>8, <2>2, <3>1
  <2>4. ASSUME NEW i \in 1..MaxOps
        PROVE  new[i] = Append(kept, e)[i]
    <3>1. new[i] = c.entry[IF c.out_offs + i - 1 < MaxOps THEN c.out_offs + i - 1
                           ELSE c.out_offs + i - 1 - MaxOps]
      BY <1>7, <2>1
    <3>2. CASE i \in 1..(MaxOps - 1)
      <4> DEFINE s == IF b.out_offs + i < MaxOps THEN b.out_offs + i
                      ELSE b.out_offs + i - MaxOps
      <4>1. i + 1 \in 1..MaxOps /\ old[i + 1] = b.entry[s]
        <5>1. i + 1 \in 1..MaxOps /\ b.out_offs + (i + 1) - 1 = b.out_offs + i
          BY <1>2, <1>8, <3>2
        <5> QED
          BY <1>6, <2>1, <5>1
      <4>2. new[i] = c.entry[s]
        <5> DEFINE t == IF c.out_offs + i - 1 < MaxOps THEN c.out_offs + i - 1
                        ELSE c.out_offs + i - 1 - MaxOps
        <5>1. t = s
          <6>1. CASE b.out_offs = MaxOps - 1
            <7>1. c.out_offs = 0
              BY <1>5, <1>10, <6>1
            <7> QED
              BY <1>2, <1>8, <3>2, <6>1, <7>1
          <6>2. CASE b.out_offs # MaxOps - 1
            <7>1. c.out_offs = b.out_offs + 1
              BY <1>5, <1>10, <6>2
            <7> QED
              BY <1>2, <1>8, <3>2, <6>2, <7>1
          <6> QED
            BY <6>1, <6>2
        <5> QED
          BY <3>1, <5>1
      <4>3. s \in 0..(MaxOps - 1) /\ s # b.in_offs
        BY <1>2, <1>8, <2>1, <3>2
      <4>4. c.entry[s] = b.entry[s]
        BY <1>2, <1>5, <4>3
      <4> QED
        BY <2>3, <3>2, <4>1, <4>2, <4>4
    <3>3. CASE i = MaxOps
      <4>1. new[i] = c.entry[b.in_offs]
        BY <1>2, <1>5, <1>8, <1>10, <2>1, <3>1, <3>3
      <4> QED
        BY <1>2, <1>5, <2>3, <3>3, <4>1
    <3>4. i \in 1..(MaxOps - 1) \/ i = MaxOps
      BY <1>8
    <3> QED
      BY <3>2, <3>3, <3>4
  <2>5. new = Append(kept, e)
    BY <1>3, <2>1, <2>3, <2>4, SeqEqual
  <2> QED
    BY <1>3, <1>8, <2>1, <2>5 DEF c, old, new, kept
<1> QED
  BY <1>2, <1>9, <1>10

-----------------------------------------------------------------------------
(* Induction over the slots of a ring.                                     *)

\* Every set of natural numbers that is not empty has a least element.
LEMMA LeastNat ==
  ASSUME NEW T \in SUBSET Nat, T # {}
  PROVE  \E x \in T : \A y \in T : x <= y
<1> DEFINE R == OpToRel(<, Nat)
<1>1. IsWellFoundedOn(R, Nat)
  BY NatLessThanWellFounded, Zenon
<1>2. \A x, y \in Nat : y < x => <<y, x>> \in R
  BY DEF OpToRel
<1> HIDE DEF R
<1>3. PICK x \in T : \A y \in T : ~(<<y, x>> \in R)
  BY <1>1, WFMin
<1>4. ASSUME NEW y \in T
      PROVE  x <= y
  <2>1. x \in Nat /\ y \in Nat
    OBVIOUS
  <2>2. ~(y < x)
    BY <1>2, <1>3, <2>1
  <2> QED
    BY <2>1, <2>2
<1> QED
  BY <1>4

\* A set that contains 0, and every i up to n whose predecessor it contains,
\* contains all of them.
LEMMA SegmentInduction ==
  ASSUME NEW n \in Nat, NEW S, 0 \in S, \A i \in 1..n : i - 1 \in S => i \in S
  PROVE  \A i \in 0..n : i \in S
<1> DEFINE Bad == {i \in 0..n : i \notin S}
<1> SUFFICES ASSUME Bad # {} PROVE FALSE
  OBVIOUS
<1>1. Bad \in SUBSET Nat
  OBVIOUS
<1>2. PICK m \in Bad : \A k \in Bad : m <= k
  BY <1>1, LeastNat
<1>3. m \in 1..n
  BY <1>2
<1>4. m - 1 \in 0..n /\ m - 1 \notin Bad
  BY <1>2, <1>3
<1> QED
  BY <1>2, <1>3, <1>4

\* The recursive definition of a running sum defines a function.
LEMMA SumExists ==
  ASSUME NEW g, NEW n \in Nat, \A i \in 1..n : g[i] \in Nat
  PROVE  \E f : f = [i \in 0..n |-> IF i = 0 THEN 0 ELSE f[i - 1] + g[i]]
<1> DEFINE Sums(f, m) == \A i \in 0..m : f[i] = IF i = 0 THEN 0 ELSE f[i - 1] + g[i]
           S == {m \in 0..n : \E f \in [0..m -> Nat] : Sums(f, m)}
<1>1. 0 \in S
  <2> DEFINE f == [i \in 0..0 |-> 0]
  <2>1. f \in [0..0 -> Nat] /\ Sums(f, 0)
    OBVIOUS
  <2> HIDE DEF f, Sums
  <2> QED
    BY <2>1
<1>2. ASSUME NEW m \in 1..n, m - 1 \in S
      PROVE  m \in S
  <2>1. PICK f \in [0..(m - 1) -> Nat] : Sums(f, m - 1)
    BY <1>2
  <2> DEFINE h == [i \in 0..m |-> IF i = m THEN f[m - 1] + g[m] ELSE f[i]]
  <2>2. h \in [0..m -> Nat]
    BY <2>1
  <2>3. ASSUME NEW i \in 0..m
        PROVE  h[i] = IF i = 0 THEN 0 ELSE h[i - 1] + g[i]
    <3>1. h[m] = f[m - 1] + g[m] /\ \A j \in 0..(m - 1) : h[j] = f[j]
      OBVIOUS
    <3>2. \A j \in 0..(m - 1) : f[j] = IF j = 0 THEN 0 ELSE f[j - 1] + g[j]
      BY <2>1
    <3> HIDE DEF h
    <3>3. CASE i = m
      BY <3>1, <3>3
    <3>4. CASE i \in 1..(m - 1)
      BY <3>1, <3>2, <3>4
    <3>5. CASE i = 0
      BY <3>1, <3>2, <3>5
    <3> QED
      BY <3>3, <3>4, <3>5
  <2>4. m \in 0..n /\ Sums(h, m)
    BY <2>3
  <2> HIDE DEF h, Sums
  <2> QED
    BY <2>2, <2>4
<1>3. n \in S
  <2> HIDE DEF S
  <2> QED
    BY <1>1, <1>2, SegmentInduction
<1>4. PICK f \in [0..n -> Nat] : Sums(f, n)
  BY <1>3
<1>5. f = [i \in 0..n |-> IF i = 0 THEN 0 ELSE f[i - 1] + g[i]]
  BY <1>4
<1> QED
  BY <1>5

\* What follows from such a definition.
LEMMA SumValues ==
  ASSUME NEW g, NEW n \in Nat, \A i \in 1..n : g[i] \in Nat,
         NEW f, f = [i \in 0..n |-> IF i = 0 THEN 0 ELSE f[i - 1] + g[i]]
  PROVE  f[0] = 0 /\ (\A i \in 1..n : f[i] = f[i - 1] + g[i]) /\ (\A i \in 0..n : f[i] \in Nat)
<1>1. \A i \in 0..n : f[i] = IF i = 0 THEN 0 ELSE f[i - 1] + g[i]
  OBVIOUS
<1>2. f[0] = 0 /\ \A i \in 1..n : f[i] = f[i - 1] + g[i]
  BY <1>1
<1> DEFINE S == {i \in 0..n : f[i] \in Nat}
<1>3. 0 \in S
  BY <1>2
<1>4. \A i \in 1..n : i - 1 \in S => i \in S
  BY <1>2
<1>5. \A i \in 0..n : i \in S
  <2> HIDE DEF S
  <2> QED
    BY <1>3, <1>4, SegmentInduction
<1> QED
  BY <1>2, <1>5

-----------------------------------------------------------------------------
(* Sizes.                                                                  *)

\* The size of the i-th entry that the walk from out_offs meets.
SizeAt(b, i) == b.entry[SlotAt(b, i - 1)].size

LEMMA SizeAtType ==
  ASSUME NEW b \in Buffer, NEW i \in 1..MaxOps
  PROVE  SizeAt(b, i) \in Nat
<1>1. i - 1 \in Slot
  BY MaxOpsAssumption DEF Slot
<1>2. SlotAt(b, i - 1) \in Slot
  BY <1>1, SlotAtValue
<1> QED
  BY <1>2 DEF SizeAt, Buffer, Entry

LEMMA BytesBeforeValue ==
  ASSUME NEW b \in Buffer
  PROVE  /\ BytesBefore(b, 0) = 0
         /\ \A k \in 1..MaxOps : BytesBefore(b, k) = BytesBefore(b, k - 1) + SizeAt(b, k)
         /\ \A k \in 0..MaxOps : BytesBefore(b, k) \in Nat
<1> DEFINE g == [i \in 1..MaxOps |-> SizeAt(b, i)]
           acc == CHOOSE f : f = [i \in 0..MaxOps |-> IF i = 0 THEN 0
                                                      ELSE f[i - 1] + SizeAt(b, i)]
<1>1. MaxOps \in Nat /\ \A i \in 1..MaxOps : g[i] = SizeAt(b, i) /\ g[i] \in Nat
  BY MaxOpsAssumption, SizeAtType
<1>2. \A k : BytesBefore(b, k) = acc[k]
  BY DEF BytesBefore, SizeAt
<1> HIDE DEF g
<1>3. ASSUME NEW f
      PROVE  [i \in 0..MaxOps |-> IF i = 0 THEN 0 ELSE f[i - 1] + g[i]]
               = [i \in 0..MaxOps |-> IF i = 0 THEN 0 ELSE f[i - 1] + SizeAt(b, i)]
  <2>1. \A i \in 0..MaxOps : i # 0 => i \in 1..MaxOps
    BY <1>1
  <2> QED
    BY <1>1, <2>1
<1>4. \E f : f = [i \in 0..MaxOps |-> IF i = 0 THEN 0 ELSE f[i - 1] + SizeAt(b, i)]
  <2>1. PICK f : f = [i \in 0..MaxOps |-> IF i = 0 THEN 0 ELSE f[i - 1] + g[i]]
    BY <1>1, SumExists
  <2>2. f = [i \in 0..MaxOps |-> IF i = 0 THEN 0 ELSE f[i - 1] + SizeAt(b, i)]
    BY <1>3, <2>1, Zenon
  <2> QED
    BY <2>2
<1>5. acc = [i \in 0..MaxOps |-> IF i = 0 THEN 0 ELSE acc[i - 1] + SizeAt(b, i)]
  BY <1>4, Zenon
<1> HIDE DEF acc
<1>6. acc = [i \in 0..MaxOps |-> IF i = 0 THEN 0 ELSE acc[i - 1] + g[i]]
  BY <1>3, <1>5, Zenon
<1>7. /\ acc[0] = 0 /\ (\A i \in 1..MaxOps : acc[i] = acc[i - 1] + g[i])
      /\ (\A i \in 0..MaxOps : acc[i] \in Nat)
  BY <1>1, <1>6, SumValues
<1> QED
  BY <1>1, <1>2, <1>7

\* The sum over AESD_CIRCULAR_BUFFER_FOREACH up to slot i.
UpTo(b) ==
  LET sum[i \in 0..MaxOps] == IF i = 0 THEN 0 ELSE sum[i - 1] + b.entry[i - 1].size
  IN  sum

LEMMA UpToValue ==
  ASSUME NEW b \in Buffer
  PROVE  /\ UpTo(b)[0] = 0
         /\ \A i \in 1..MaxOps : UpTo(b)[i] = UpTo(b)[i - 1] + b.entry[i - 1].size
         /\ \A i \in 0..MaxOps : UpTo(b)[i] \in Nat
         /\ TotalSize(b) = UpTo(b)[MaxOps]
<1> DEFINE g == [i \in 1..MaxOps |-> b.entry[i - 1].size]
           acc == CHOOSE f : f = [i \in 0..MaxOps |-> IF i = 0 THEN 0
                                                      ELSE f[i - 1] + b.entry[i - 1].size]
<1>1. MaxOps \in Nat /\ \A i \in 1..MaxOps : g[i] = b.entry[i - 1].size /\ g[i] \in Nat
  <2>1. \A i \in 1..MaxOps : i - 1 \in Slot
    BY MaxOpsAssumption DEF Slot
  <2> QED
    BY MaxOpsAssumption, <2>1 DEF Buffer, Entry
<1>2. UpTo(b) = acc /\ TotalSize(b) = acc[MaxOps]
  BY DEF UpTo, TotalSize
<1> HIDE DEF g
<1>3. ASSUME NEW f
      PROVE  [i \in 0..MaxOps |-> IF i = 0 THEN 0 ELSE f[i - 1] + g[i]]
               = [i \in 0..MaxOps |-> IF i = 0 THEN 0 ELSE f[i - 1] + b.entry[i - 1].size]
  <2>1. \A i \in 0..MaxOps : i # 0 => i \in 1..MaxOps
    BY <1>1
  <2> QED
    BY <1>1, <2>1
<1>4. \E f : f = [i \in 0..MaxOps |-> IF i = 0 THEN 0 ELSE f[i - 1] + b.entry[i - 1].size]
  <2>1. PICK f : f = [i \in 0..MaxOps |-> IF i = 0 THEN 0 ELSE f[i - 1] + g[i]]
    BY <1>1, SumExists
  <2>2. f = [i \in 0..MaxOps |-> IF i = 0 THEN 0 ELSE f[i - 1] + b.entry[i - 1].size]
    BY <1>3, <2>1, Zenon
  <2> QED
    BY <2>2
<1>5. acc = [i \in 0..MaxOps |-> IF i = 0 THEN 0 ELSE acc[i - 1] + b.entry[i - 1].size]
  BY <1>4, Zenon
<1> HIDE DEF acc
<1>6. acc = [i \in 0..MaxOps |-> IF i = 0 THEN 0 ELSE acc[i - 1] + g[i]]
  BY <1>3, <1>5, Zenon
<1>7. /\ acc[0] = 0 /\ (\A i \in 1..MaxOps : acc[i] = acc[i - 1] + g[i])
      /\ (\A i \in 0..MaxOps : acc[i] \in Nat)
  BY <1>1, <1>6, SumValues
<1> QED
  BY <1>1, <1>2, <1>7

\* The entries start one after the other.
LEMMA BytesGrow ==
  ASSUME NEW b \in Buffer, NEW j \in 0..MaxOps
  PROVE  \A k \in 0..MaxOps : j <= k => BytesBefore(b, j) <= BytesBefore(b, k)
<1> DEFINE S == {k \in 0..MaxOps : j <= k => BytesBefore(b, j) <= BytesBefore(b, k)}
<1>1. /\ \A k \in 1..MaxOps : BytesBefore(b, k) = BytesBefore(b, k - 1) + SizeAt(b, k)
      /\ \A k \in 0..MaxOps : BytesBefore(b, k) \in Nat
      /\ \A k \in 1..MaxOps : SizeAt(b, k) \in Nat
      /\ MaxOps \in Nat
  BY BytesBeforeValue, SizeAtType, MaxOpsAssumption
<1>2. 0 \in S
  BY <1>1
<1>3. ASSUME NEW k \in 1..MaxOps, k - 1 \in S
      PROVE  k \in S
  <2>1. BytesBefore(b, k - 1) <= BytesBefore(b, k)
    BY <1>1
  <2>2. k - 1 \in 0..MaxOps /\ k \in 0..MaxOps
    BY <1>1
  <2>3. CASE j = k
    BY <1>1, <2>2, <2>3
  <2>4. CASE j # k
    BY <1>1, <1>3, <2>1, <2>2, <2>4
  <2> QED
    BY <2>3, <2>4
<1>4. \A k \in 0..MaxOps : k \in S
  <2> HIDE DEF S
  <2> QED
    BY <1>1, <1>2, <1>3, SegmentInduction
<1> QED
  BY <1>4

\* The sum that aesd_llseek computes over all slots is what the walk from the
\* oldest entry has passed when it has met every stored one.
LEMMA TotalIsStored ==
  ASSUME NEW b \in Buffer, RingShape(b)
  PROVE  TotalSize(b) = BytesBefore(b, Count(b)) /\ Count(b) \in 0..MaxOps
<1> DEFINE B(i) == BytesBefore(b, i)
           U(i) == UpTo(b)[i]
           size(i) == b.entry[i].size
           o == b.out_offs
<1>1. /\ B(0) = 0 /\ \A i \in 1..MaxOps : B(i) = B(i - 1) + size(SlotAt(b, i - 1))
      /\ \A i \in 0..MaxOps : B(i) \in Nat
  BY BytesBeforeValue DEF SizeAt
<1>2. /\ U(0) = 0 /\ \A i \in 1..MaxOps : U(i) = U(i - 1) + size(i - 1)
      /\ \A i \in 0..MaxOps : U(i) \in Nat
      /\ TotalSize(b) = U(MaxOps)
  BY UpToValue
<1>3. /\ MaxOps \in Nat /\ MaxOps > 0 /\ Slot = 0..(MaxOps - 1)
      /\ o \in Slot /\ b.in_offs \in Slot
      /\ \A i \in Slot : size(i) \in Nat
  BY MaxOpsAssumption DEF Slot, Buffer, Entry
<1>4. \A i \in 1..MaxOps : /\ i - 1 \in Slot
                           /\ SlotAt(b, i - 1) = IF o + (i - 1) < MaxOps THEN o + (i - 1)
                                                 ELSE o + (i - 1) - MaxOps
  <2>1. \A i \in 1..MaxOps : i - 1 \in Slot
    BY <1>3
  <2> QED
    BY <2>1, SlotAtValue
<1>5. Count(b) = IF b.full THEN MaxOps ELSE b.in_offs
  BY CountValue
<1> HIDE DEF B, U, size, o
<1>6. CASE ~b.full
  <2>1. o = 0 /\ \A i \in Slot : i >= b.in_offs => size(i) = 0
    BY <1>6 DEF RingShape, NoEntry, o, size
  <2>2. \A i \in 1..MaxOps : SlotAt(b, i - 1) = i - 1
    BY <1>3, <1>4, <2>1
  <2> DEFINE S == {i \in 0..MaxOps : U(i) = B(i)}
  <2>3. 0 \in S /\ \A i \in 1..MaxOps : i - 1 \in S => i \in S
    BY <1>1, <1>2, <1>3, <2>2
  <2>4. \A i \in 0..MaxOps : i \in S
    <3> HIDE DEF S
    <3> QED
      BY <1>3, <2>3, SegmentInduction
  <2> DEFINE n == b.in_offs
             T == {i \in 0..MaxOps : i >= n => B(i) = B(n)}
  <2>5. 0 \in T
    BY <1>3
  <2>6. ASSUME NEW i \in 1..MaxOps, i - 1 \in T
        PROVE  i \in T
    <3>1. CASE i - 1 >= n
      BY <1>1, <1>3, <1>4, <2>1, <2>2, <2>6, <3>1
    <3>2. CASE i - 1 < n
      BY <1>3, <3>2
    <3> QED
      BY <1>3, <3>1, <3>2
  <2>7. \A i \in 0..MaxOps : i \in T
    <3> HIDE DEF T
    <3> QED
      BY <1>3, <2>5, <2>6, SegmentInduction
  <2>8. MaxOps \in S /\ MaxOps \in T
    BY <1>3, <2>4, <2>7
  <2>9. U(MaxOps) = B(n) /\ n \in 0..MaxOps
    BY <1>3, <2>8
  <2> QED
    BY <1>2, <1>5, <1>6, <2>9 DEF B
<1>7. CASE b.full
  <2> DEFINE rest == MaxOps - o
             S == {i \in 0..MaxOps :
                     B(i) = IF i <= rest THEN U(o + i) - U(o)
                            ELSE U(MaxOps) - U(o) + U(i - rest)}
  <2>1. 0 \in S
    BY <1>1, <1>2, <1>3
  <2>2. ASSUME NEW i \in 1..MaxOps, i - 1 \in S
        PROVE  i \in S
    <3>1. CASE i <= rest
      <4>1. SlotAt(b, i - 1) = o + (i - 1) /\ o + i \in 1..MaxOps /\ o + i - 1 = o + (i - 1)
        BY <1>3, <1>4, <3>1
      <4>2. U(o + i) = U(o + (i - 1)) + size(o + (i - 1))
        <5>1. PICK n \in 1..MaxOps : n = o + i /\ n - 1 = o + (i - 1)
          BY <1>3, <4>1
        <5>2. U(n) = U(n - 1) + size(n - 1)
          BY <1>2
        <5> QED
          BY <5>1, <5>2
      <4>3. B(i - 1) = U(o + (i - 1)) - U(o)
        <5>1. i - 1 <= rest
          BY <1>3, <3>1
        <5> HIDE DEF rest
        <5> QED
          BY <2>2, <5>1
      <4>4. o + (i - 1) \in Slot /\ o \in 0..MaxOps /\ o + (i - 1) \in 0..MaxOps
        BY <1>3, <4>1
      <4>5. /\ U(o) \in Nat /\ U(o + (i - 1)) \in Nat /\ size(o + (i - 1)) \in Nat
            /\ B(i) = B(i - 1) + size(o + (i - 1)) /\ i \in 0..MaxOps
        <5>1. U(o) \in Nat /\ U(o + (i - 1)) \in Nat
          BY <1>2, <4>4
        <5>2. size(o + (i - 1)) \in Nat
          BY <1>3, <4>4
        <5>3. B(i) = B(i - 1) + size(o + (i - 1)) /\ i \in 0..MaxOps
          BY <1>1, <1>3, <4>1
        <5> QED
          BY <5>1, <5>2, <5>3
      <4>6. B(i) = U(o + i) - U(o)
        BY <4>2, <4>3, <4>5
      <4> HIDE DEF rest
      <4> QED
        BY <3>1, <4>5, <4>6
    <3>2. CASE i > rest
      <4> DEFINE m == i - rest
      <4>1. /\ SlotAt(b, i - 1) = m - 1 /\ m \in 1..MaxOps /\ m - 1 \in Slot /\ m - 1 \in 0..MaxOps
            /\ o \in 0..MaxOps /\ i - 1 - rest = m - 1 /\ m <= o
        BY <1>3, <1>4, <3>2
      <4> HIDE DEF m
      <4>2. U(m) = U(m - 1) + size(m - 1)
        BY <1>2, <4>1
      <4>3. U(MaxOps) \in Nat /\ U(o) \in Nat /\ U(m - 1) \in Nat /\ size(m - 1) \in Nat
        <5>1. size(m - 1) \in Nat
          BY <1>3, <4>1
        <5>2. U(MaxOps) \in Nat
          BY <1>2, <1>3
        <5> QED
          BY <1>2, <4>1, <5>1, <5>2
      <4>4. B(i - 1) = U(MaxOps) - U(o) + U(m - 1)
        <5>1. CASE i - 1 > rest
          BY <1>3, <2>2, <4>1, <5>1
        <5>2. CASE i - 1 = rest
          <6>1. o + (i - 1) = MaxOps /\ m - 1 = 0
            BY <1>3, <5>2 DEF m
          <6>2. B(i - 1) = U(MaxOps) - U(o)
            <7>1. i - 1 <= rest /\ B(i - 1) = U(o + (i - 1)) - U(o)
              BY <1>3, <2>2, <5>2
            <7> QED
              BY <6>1, <7>1
          <6>3. U(m - 1) = 0
            BY <1>2, <6>1
          <6> QED
            BY <4>3, <6>2, <6>3
        <5> QED
          BY <1>3, <3>2, <5>1, <5>2
      <4>5. B(i) = B(i - 1) + size(m - 1)
        BY <1>1, <4>1
      <4>6. B(i) = U(MaxOps) - U(o) + U(m)
        BY <4>2, <4>3, <4>4, <4>5
      <4>7. i \in 0..MaxOps /\ ~(i <= rest)
        BY <1>3, <3>2
      <4>8. B(i) = U(MaxOps) - U(o) + U(i - rest)
        BY <4>6 DEF m
      <4> HIDE DEF rest
      <4> QED
        BY <4>7, <4>8
    <3> QED
      BY <1>3, <3>1, <3>2
  <2>3. MaxOps \in S
    <3> HIDE DEF S
    <3>1. \A i \in 0..MaxOps : i \in S
      BY <1>3, <2>1, <2>2, SegmentInduction
    <3> QED
      BY <1>3, <3>1
  <2>4. B(MaxOps) = U(MaxOps)
    <3>1. CASE o = 0
      <4>1. MaxOps <= rest /\ o + MaxOps = MaxOps
        BY <1>3, <3>1
      <4>2. B(MaxOps) = U(o + MaxOps) - U(o)
        BY <2>3, <4>1
      <4>3. U(o) = 0 /\ U(MaxOps) \in Nat
        BY <1>2, <1>3, <3>1
      <4> QED
        BY <4>1, <4>2, <4>3
    <3>2. CASE o > 0
      <4>1. ~(MaxOps <= rest) /\ MaxOps - rest = o /\ o \in 0..MaxOps
        BY <1>3, <3>2
      <4>2. B(MaxOps) = U(MaxOps) - U(o) + U(o)
        BY <2>3, <4>1
      <4>3. U(MaxOps) \in Nat /\ U(o) \in Nat
        BY <1>2, <1>3, <4>1
      <4> QED
        BY <4>2, <4>3
    <3> QED
      BY <1>3, <3>1, <3>2
  <2> QED
    BY <1>2, <1>3, <1>5, <1>7, <2>4 DEF B
<1> QED
  BY <1>6, <1>7

-----------------------------------------------------------------------------
(* The search for a position.                                              *)

\* A walk that goes on until it meets an element of T defines a function,
LEMMA WalkExists ==
  ASSUME NEW n \in Nat, NEW T \in SUBSET (0..n), n \in T, NEW v
  PROVE  \E f : f = [k \in 0..n |-> IF k \in T THEN v[k] ELSE f[k + 1]]
<1> DEFINE First(k, m) == m \in T /\ k <= m /\ \A j \in T : k <= j => m <= j
           f == [k \in 0..n |-> v[CHOOSE m : First(k, m)]]
<1>1. ASSUME NEW k \in 0..n
      PROVE  \E m : First(k, m)
  <2> DEFINE U == {j \in T : k <= j}
  <2>1. U \in SUBSET Nat /\ n \in U
    <3>1. \A j \in T : j \in Nat
      OBVIOUS
    <3>2. n \in T /\ k <= n
      OBVIOUS
    <3> QED
      BY <3>1, <3>2
  <2>2. PICK m \in U : \A j \in U : m <= j
    BY <2>1, LeastNat
  <2> QED
    BY <2>2
<1>2. ASSUME NEW k \in 0..n, NEW m, First(k, m)
      PROVE  f[k] = v[m]
  <2>1. ASSUME NEW j, First(k, j) PROVE j = m
    <3>1. j \in 0..n /\ m \in 0..n /\ j <= m /\ m <= j
      BY <1>2, <2>1
    <3> QED
      BY <3>1
  <2> DEFINE c == CHOOSE j : First(k, j)
  <2>2. First(k, c)
    BY <1>1, Zenon
  <2>3. c = m
    BY <2>1, <2>2
  <2> HIDE DEF First
  <2> QED
    BY <2>3
<1> HIDE DEF f
<1>3. ASSUME NEW k \in 0..n
      PROVE  f[k] = IF k \in T THEN v[k] ELSE f[k + 1]
  <2>1. CASE k \in T
    BY <1>2, <2>1
  <2>2. CASE k \notin T
    <3>1. PICK m : First(k, m)
      BY <1>1
    <3>2. m \in 0..n /\ k # m /\ k + 1 \in 0..n
      BY <2>2, <3>1
    <3>3. First(k + 1, m)
      BY <3>1, <3>2
    <3>4. f[k] = v[m] /\ f[k + 1] = v[m]
      BY <1>2, <3>1, <3>2, <3>3
    <3> QED
      BY <2>2, <3>4
  <2> QED
    BY <2>1, <2>2
<1>4. f = [k \in 0..n |-> IF k \in T THEN v[k] ELSE f[k + 1]]
  <2>1. f = [k \in 0..n |-> f[k]]
    BY DEF f
  <2> QED
    BY <1>3, <2>1
<1> QED
  BY <1>4

\* and its value is decided by the first element of T.
LEMMA WalkValue ==
  ASSUME NEW n \in Nat, NEW T \in SUBSET (0..n), NEW v,
         NEW f, f = [k \in 0..n |-> IF k \in T THEN v[k] ELSE f[k + 1]],
         NEW m \in T, \A j \in T : m <= j
  PROVE  f[0] = v[m]
<1>1. \A k \in 0..n : f[k] = IF k \in T THEN v[k] ELSE f[k + 1]
  OBVIOUS
<1> DEFINE S == {i \in 0..m : f[m - i] = v[m]}
<1>2. m \in Nat /\ m <= n
  OBVIOUS
<1>3. 0 \in S
  <2>1. m - 0 = m /\ m \in 0..n
    BY <1>2
  <2> QED
    BY <1>1, <1>2, <2>1
<1>4. ASSUME NEW i \in 1..m, i - 1 \in S
      PROVE  i \in S
  <2>1. PICK k \in 0..n : k = m - i /\ k + 1 = m - (i - 1) /\ k < m
    BY <1>2
  <2>2. k \notin T
    BY <1>2, <2>1
  <2>3. f[k] = f[k + 1]
    BY <1>1, <2>2
  <2>4. f[k + 1] = v[m]
    BY <1>4, <2>1
  <2>5. f[m - i] = v[m] /\ i \in 0..m
    BY <1>2, <2>1, <2>3, <2>4
  <2> QED
    BY <2>5
<1>5. m \in S
  <2> HIDE DEF S
  <2>1. \A i \in 0..m : i \in S
    BY <1>2, <1>3, <1>4, SegmentInduction
  <2> QED
    BY <1>2, <2>1
<1>6. m - m = 0
  BY <1>2
<1> QED
  BY <1>5, <1>6

\* The loop of aesd_circular_buffer_find_entry_offset_for_fpos breaks off after
\* k entries.
Stops(b, k) == k = MaxOps \/ (k > 0 /\ ~b.full /\ SlotAt(b, k) = b.in_offs)

Hit(b, p, k) == [found |-> TRUE, slot |-> SlotAt(b, k), offset |-> p - BytesBefore(b, k)]

LEMMA FindEntryValue ==
  ASSUME NEW b \in Buffer, NEW p, b.full \/ b.in_offs # b.out_offs,
         NEW m \in 0..MaxOps, Stops(b, m) \/ p < BytesBefore(b, m + 1),
         \A j \in 0..(m - 1) : ~Stops(b, j) /\ ~(p < BytesBefore(b, j + 1))
  PROVE  FindEntry(b, p) = IF Stops(b, m) THEN NotFound ELSE Hit(b, p, m)
<1> DEFINE T == {k \in 0..MaxOps : Stops(b, k) \/ p < BytesBefore(b, k + 1)}
           v == [k \in 0..MaxOps |-> IF Stops(b, k) THEN NotFound ELSE Hit(b, p, k)]
           walk == CHOOSE f : f = [k \in 0..MaxOps |->
                                     IF Stops(b, k) THEN NotFound
                                     ELSE IF p < BytesBefore(b, k + 1) THEN Hit(b, p, k)
                                     ELSE f[k + 1]]
<1>1. MaxOps \in Nat /\ T \in SUBSET (0..MaxOps) /\ MaxOps \in T
  BY MaxOpsAssumption DEF Stops
<1>2. FindEntry(b, p) = walk[0]
  BY DEF FindEntry, Stops, Hit
<1>3. /\ \A k \in 0..MaxOps : k \in T <=> Stops(b, k) \/ p < BytesBefore(b, k + 1)
      /\ \A k \in 0..MaxOps : v[k] = IF Stops(b, k) THEN NotFound ELSE Hit(b, p, k)
  OBVIOUS
<1>4. m \in T /\ \A j \in T : m <= j
  <2>1. \A j \in T : j \in 0..MaxOps /\ j \notin 0..(m - 1)
    OBVIOUS
  <2> QED
    BY <1>1, <2>1
<1> HIDE DEF T, v
<1>5. ASSUME NEW f
      PROVE  [k \in 0..MaxOps |-> IF k \in T THEN v[k] ELSE f[k + 1]]
               = [k \in 0..MaxOps |->
                    IF Stops(b, k) THEN NotFound
                    ELSE IF p < BytesBefore(b, k + 1) THEN Hit(b, p, k)
                    ELSE f[k + 1]]
  BY <1>3
<1>6. \E f : f = [k \in 0..MaxOps |->
                    IF Stops(b, k) THEN NotFound
                    ELSE IF p < BytesBefore(b, k + 1) THEN Hit(b, p, k)
                    ELSE f[k + 1]]
  <2>1. PICK f : f = [k \in 0..MaxOps |-> IF k \in T THEN v[k] ELSE f[k + 1]]
    BY <1>1, WalkExists
  <2>2. f = [k \in 0..MaxOps |->
               IF Stops(b, k) THEN NotFound
               ELSE IF p < BytesBefore(b, k + 1) THEN Hit(b, p, k)
               ELSE f[k + 1]]
    BY <1>5, <2>1, Zenon
  <2> QED
    BY <2>2
<1>7. walk = [k \in 0..MaxOps |->
                IF Stops(b, k) THEN NotFound
                ELSE IF p < BytesBefore(b, k + 1) THEN Hit(b, p, k)
                ELSE walk[k + 1]]
  BY <1>6, Zenon
<1> HIDE DEF walk
<1>8. walk = [k \in 0..MaxOps |-> IF k \in T THEN v[k] ELSE walk[k + 1]]
  BY <1>5, <1>7, Zenon
<1>9. walk[0] = v[m]
  BY <1>1, <1>4, <1>8, WalkValue
<1> QED
  BY <1>2, <1>3, <1>9

\* The walk breaks off when it has met all stored entries, and not before.
LEMMA StopsAtEnd ==
  ASSUME NEW b \in Buffer, RingShape(b)
  PROVE  /\ \A j \in 0..(Count(b) - 1) : ~Stops(b, j)
         /\ b.full \/ b.in_offs # b.out_offs => Stops(b, Count(b))
         /\ ~(b.full \/ b.in_offs # b.out_offs) => Count(b) = 0
<1>1. /\ MaxOps \in Nat /\ MaxOps > 0 /\ Slot = 0..(MaxOps - 1)
      /\ b.in_offs \in Slot /\ b.out_offs \in Slot
      /\ Count(b) = IF b.full THEN MaxOps ELSE b.in_offs
      /\ ~b.full => b.out_offs = 0
  <2>1. Count(b) = IF b.full THEN MaxOps ELSE b.in_offs
    BY CountValue
  <2>2. MaxOps \in Nat /\ MaxOps > 0 /\ Slot = 0..(MaxOps - 1)
    BY MaxOpsAssumption DEF Slot
  <2>3. b.in_offs \in Slot /\ b.out_offs \in Slot
    BY DEF Buffer
  <2>4. ~b.full => b.out_offs = 0
    BY DEF RingShape
  <2> QED
    BY <2>1, <2>2, <2>3, <2>4, Zenon
<1>2. \A j \in Slot : ~b.full => SlotAt(b, j) = j
  BY <1>1, SlotAtValue
<1>3. \A j \in 0..(Count(b) - 1) : j \in Slot /\ j < Count(b)
  BY <1>1
<1> QED
  BY <1>1, <1>2, <1>3 DEF Stops

\* aesd_circular_buffer_find_entry_offset_for_fpos finds the entry that holds
\* byte p of the data, and nothing beyond the data.
LEMMA FindEntryExact ==
  ASSUME NEW b \in Buffer, RingShape(b), NEW p \in Nat
  PROVE  /\ p >= TotalSize(b) => FindEntry(b, p) = NotFound
         /\ p < TotalSize(b) =>
              \E i \in 0..(Count(b) - 1) :
                /\ BytesBefore(b, i) <= p /\ p < BytesBefore(b, i + 1)
                /\ FindEntry(b, p) = Hit(b, p, i)
<1> DEFINE n == Count(b)
           B(i) == BytesBefore(b, i)
<1>1. n \in 0..MaxOps /\ TotalSize(b) = B(n) /\ MaxOps \in Nat
  BY TotalIsStored, MaxOpsAssumption
<1>2. B(0) = 0 /\ \A i \in 0..MaxOps : B(i) \in Nat
  BY BytesBeforeValue
<1>3. ASSUME NEW i \in 0..MaxOps, NEW j \in 0..MaxOps, i <= j
      PROVE  B(i) <= B(j)
  BY <1>3, BytesGrow
<1>4. /\ \A j \in 0..(n - 1) : ~Stops(b, j)
      /\ b.full \/ b.in_offs # b.out_offs => Stops(b, n)
      /\ ~(b.full \/ b.in_offs # b.out_offs) => n = 0
  BY StopsAtEnd
<1> HIDE DEF n, B
<1>5. CASE ~(b.full \/ b.in_offs # b.out_offs)
  <2>1. FindEntry(b, p) = NotFound
    BY <1>5 DEF FindEntry
  <2> QED
    BY <1>1, <1>2, <1>4, <1>5, <2>1
<1>6. CASE (b.full \/ b.in_offs # b.out_offs) /\ p >= TotalSize(b)
  <2>1. ASSUME NEW j \in 0..(n - 1)
        PROVE  ~Stops(b, j) /\ ~(p < B(j + 1))
    <3>1. j + 1 \in 0..MaxOps /\ j + 1 <= n
      BY <1>1
    <3>2. B(j + 1) <= B(n) /\ B(j + 1) \in Nat /\ B(n) \in Nat
      BY <1>1, <1>2, <1>3, <3>1
    <3> QED
      BY <1>1, <1>4, <1>6, <3>2
  <2>2. FindEntry(b, p) = IF Stops(b, n) THEN NotFound ELSE Hit(b, p, n)
    BY <1>1, <1>4, <1>6, <2>1, FindEntryValue DEF B
  <2> QED
    BY <1>1, <1>2, <1>4, <1>6, <2>2
<1>7. CASE (b.full \/ b.in_offs # b.out_offs) /\ p < TotalSize(b)
  <2> DEFINE U == {i \in 0..(n - 1) : p < B(i + 1)}
  <2>1. n - 1 \in U /\ U \in SUBSET Nat
    <3>1. B(n) \in Nat /\ n # 0
      BY <1>1, <1>2, <1>7
    <3>2. n - 1 \in 0..(n - 1) /\ (n - 1) + 1 = n
      BY <1>1, <3>1
    <3>3. p < B((n - 1) + 1)
      BY <1>1, <1>7, <3>2
    <3> QED
      BY <1>1, <3>2, <3>3
  <2>2. PICK m \in U : \A j \in U : m <= j
    BY <2>1, LeastNat
  <2>3. m \in 0..(n - 1) /\ p < B(m + 1) /\ m \in 0..MaxOps /\ ~Stops(b, m)
    BY <1>1, <1>4, <2>2
  <2>4. ASSUME NEW j \in 0..(m - 1)
        PROVE  ~Stops(b, j) /\ ~(p < B(j + 1)) /\ j \in 0..(n - 1)
    <3>1. j \in 0..(n - 1) /\ ~(m <= j)
      BY <1>1, <2>3
    <3>2. j \notin U
      BY <2>2, <3>1
    <3> QED
      BY <1>4, <3>1, <3>2
  <2>5. FindEntry(b, p) = Hit(b, p, m)
    <3>1. FindEntry(b, p) = IF Stops(b, m) THEN NotFound ELSE Hit(b, p, m)
      BY <1>7, <2>3, <2>4, FindEntryValue DEF B
    <3> QED
      BY <2>3, <3>1
  <2>6. B(m) <= p
    <3>1. CASE m = 0
      BY <1>2, <3>1
    <3>2. CASE m > 0
      <4>1. PICK j \in 0..(m - 1) : j + 1 = m
        BY <2>3, <3>2
      <4>2. ~(p < B(m))
        BY <2>4, <4>1
      <4> QED
        BY <1>2, <2>3, <4>2
    <3> QED
      BY <2>3, <3>1, <3>2
  <2>7. ~(p >= TotalSize(b))
    BY <1>1, <1>2, <1>7
  <2> QED
    BY <2>3, <2>5, <2>6, <2>7 DEF B, n
<1>8. p >= TotalSize(b) \/ p < TotalSize(b)
  BY <1>1, <1>2
<1> QED
  BY <1>5, <1>6, <1>7, <1>8

-----------------------------------------------------------------------------
(* Sequences end to end (FlattenSeq).                                      *)

LOCAL INSTANCE SequencesExt

\* f is the recursive function by which FlattenSeq(s) is defined.
Flattens(f, s) == f = [i \in 1..Len(s) |-> IF i = 1 THEN s[i] ELSE f[i - 1] \o s[i]]

\* There is one.
LEMMA FlattenExists ==
  ASSUME NEW s \in Seq(Seq(Nat))
  PROVE  \E f : Flattens(f, s)
<1> DEFINE n == Len(s)
           Part(f, m) == \A i \in 1..m : f[i] = IF i = 1 THEN s[i] ELSE f[i - 1] \o s[i]
           S == {m \in 0..n : \E f : f = [i \in 1..m |-> f[i]] /\ Part(f, m)}
<1>1. n \in Nat
  OBVIOUS
<1>2. 0 \in S
  <2> DEFINE f == [i \in 1..0 |-> 0]
  <2>1. f = [i \in 1..0 |-> f[i]] /\ Part(f, 0)
    OBVIOUS
  <2>2. 0 \in 0..n
    BY <1>1
  <2> HIDE DEF f, Part
  <2> QED
    BY <2>1, <2>2, Zenon
<1>3. ASSUME NEW m \in 1..n, m - 1 \in S
      PROVE  m \in S
  <2>1. PICK f : Part(f, m - 1)
    BY <1>3
  <2> DEFINE last == IF m = 1 THEN s[m] ELSE f[m - 1] \o s[m]
             h == [i \in 1..m |-> IF i = m THEN last ELSE f[i]]
  <2>2. ASSUME NEW i \in 1..m
        PROVE  h[i] = IF i = 1 THEN s[i] ELSE h[i - 1] \o s[i]
    <3>1. /\ \A j \in 1..(m - 1) : h[j] = f[j]
          /\ h[m] = IF m = 1 THEN s[m] ELSE f[m - 1] \o s[m]
      <4>1. m \in 1..m /\ \A j \in 1..(m - 1) : j \in 1..m /\ j # m
        OBVIOUS
      <4>2. h[m] = last
        BY <4>1
      <4> HIDE DEF last
      <4>3. \A j \in 1..(m - 1) : h[j] = f[j]
        BY <4>1
      <4> QED
        BY <4>2, <4>3 DEF last
    <3>2. \A j \in 1..(m - 1) : f[j] = IF j = 1 THEN s[j] ELSE f[j - 1] \o s[j]
      BY <2>1
    <3> HIDE DEF h
    <3>3. CASE i = m
      <4>1. CASE m = 1
        BY <3>1, <3>3, <4>1
      <4>2. CASE m # 1
        <5>1. m - 1 \in 1..(m - 1)
          BY <4>2
        <5> QED
          BY <3>1, <3>3, <4>2, <5>1
      <4> QED
        BY <4>1, <4>2
    <3>4. CASE i # m
      <4>1. i \in 1..(m - 1) /\ (i # 1 => i - 1 \in 1..(m - 1))
        BY <3>4
      <4> QED
        BY <3>1, <3>2, <4>1
    <3> QED
      BY <3>3, <3>4
  <2>3. m \in 0..n
    BY <1>1
  <2>4. h = [i \in 1..m |-> h[i]]
    <3> HIDE DEF last
    <3> QED
      OBVIOUS
  <2> HIDE DEF h
  <2>5. Part(h, m)
    BY <2>2
  <2> HIDE DEF Part
  <2> QED
    BY <2>3, <2>4, <2>5, Zenon
<1>4. n \in S
  <2> HIDE DEF S, n
  <2>1. \A i \in 0..n : i \in S
    BY <1>1, <1>2, <1>3, SegmentInduction
  <2> QED
    BY <1>1, <2>1
<1>5. PICK f : f = [i \in 1..n |-> f[i]] /\ Part(f, n)
  BY <1>4
<1>6. f = [i \in 1..n |-> IF i = 1 THEN s[i] ELSE f[i - 1] \o s[i]]
  BY <1>5
<1> QED
  BY <1>6 DEF Flattens

\* f and g agree on 1..n.
Alike(f, g, n) == \A i \in 1..n : f[i] = g[i]

\* Its values depend on the first sequences only.
LEMMA FlattenUnique ==
  ASSUME NEW f, NEW s, NEW g, NEW t, Flattens(f, s), Flattens(g, t),
         Len(s) \in Nat, Len(t) \in Nat, Len(t) <= Len(s), Alike(s, t, Len(t))
  PROVE  Alike(f, g, Len(t))
<1> DEFINE m == Len(t)
           S == {i \in 0..m : i > 0 => f[i] = g[i]}
<1>1. \A i \in 1..m : /\ f[i] = IF i = 1 THEN s[i] ELSE f[i - 1] \o s[i]
                      /\ g[i] = IF i = 1 THEN s[i] ELSE g[i - 1] \o s[i]
  <2>1. \A i \in 1..Len(s) : f[i] = IF i = 1 THEN s[i] ELSE f[i - 1] \o s[i]
    BY DEF Flattens
  <2>2. \A i \in 1..Len(t) : g[i] = IF i = 1 THEN t[i] ELSE g[i - 1] \o t[i]
    BY DEF Flattens
  <2>3. \A i \in 1..m : i \in 1..Len(s) /\ i \in 1..Len(t)
    OBVIOUS
  <2> QED
    BY <2>1, <2>2, <2>3 DEF Alike
<1>2. 0 \in S
  OBVIOUS
<1>3. ASSUME NEW i \in 1..m, i - 1 \in S
      PROVE  i \in S
  BY <1>1, <1>3
<1>4. \A i \in 0..m : i \in S
  <2> HIDE DEF S, m
  <2>1. m \in Nat
    BY DEF m
  <2> QED
    BY <1>2, <1>3, <2>1, SegmentInduction
<1> QED
  BY <1>4 DEF Alike

\* What FlattenSeq makes of the first sequences of s, step by step.
LEMMA FlattenSteps ==
  ASSUME NEW s \in Seq(Seq(Nat))
  PROVE  \E F \in [0..Len(s) -> Seq(Nat)] :
           /\ F[0] = << >> /\ \A i \in 1..Len(s) : F[i] = F[i - 1] \o s[i]
           /\ \A i \in 0..Len(s) : FlattenSeq(SubSeq(s, 1, i)) = F[i]
           /\ FlattenSeq(s) = F[Len(s)]
<1> DEFINE n == Len(s)
<1>1. n \in Nat /\ \A i \in 1..n : s[i] \in Seq(Nat)
  OBVIOUS
<1>2. ASSUME NEW t \in Seq(Seq(Nat)), Len(t) # 0
      PROVE  \E g : Flattens(g, t) /\ FlattenSeq(t) = g[Len(t)]
  <2> DEFINE c == CHOOSE f : f = [i \in 1..Len(t) |-> IF i = 1 THEN t[i] ELSE f[i - 1] \o t[i]]
  <2>1. FlattenSeq(t) = c[Len(t)]
    BY <1>2 DEF FlattenSeq
  <2>2. \E f : f = [i \in 1..Len(t) |-> IF i = 1 THEN t[i] ELSE f[i - 1] \o t[i]]
    BY FlattenExists DEF Flattens
  <2>3. c = [i \in 1..Len(t) |-> IF i = 1 THEN t[i] ELSE c[i - 1] \o t[i]]
    BY <2>2, Zenon
  <2> HIDE DEF c
  <2> QED
    BY <2>1, <2>3 DEF Flattens
<1>3. PICK f : Flattens(f, s)
  BY FlattenExists
<1>4. \A i \in 1..n : f[i] = IF i = 1 THEN s[i] ELSE f[i - 1] \o s[i]
  BY <1>3 DEF Flattens
<1> DEFINE F == [i \in 0..n |-> IF i = 0 THEN << >> ELSE f[i]]
<1>5. F[0] = << >> /\ \A i \in 1..n : F[i] = f[i]
  BY <1>1
<1>6. F = [i \in 0..n |-> F[i]]
  OBVIOUS
<1> HIDE DEF F, n
<1>7. ASSUME NEW i \in 1..n
      PROVE  F[i] = F[i - 1] \o s[i]
  <2>1. CASE i = 1
    <3>1. F[i] = s[i] /\ F[i - 1] = << >>
      BY <1>4, <1>5, <2>1
    <3>2. << >> \o s[i] = s[i]
      BY <1>1, ConcatEmptySeq
    <3> QED
      BY <3>1, <3>2
  <2>2. CASE i # 1
    <3>1. i - 1 \in 1..n
      BY <1>1, <2>2
    <3> QED
      BY <1>4, <1>5, <2>2, <3>1
  <2> QED
    BY <2>1, <2>2
<1>8. \A i \in 0..n : F[i] \in Seq(Nat)
  <2> DEFINE S == {i \in 0..n : F[i] \in Seq(Nat)}
  <2>1. 0 \in S
    <3>1. 0 \in 0..n
      BY <1>1
    <3>2. F[0] \in Seq(Nat)
      BY <1>5
    <3> QED
      BY <3>1, <3>2
  <2>2. ASSUME NEW i \in 1..n, i - 1 \in S
        PROVE  i \in S
    <3>1. F[i - 1] \in Seq(Nat) /\ s[i] \in Seq(Nat)
      BY <1>1, <2>2
    <3>2. F[i - 1] \o s[i] \in Seq(Nat)
      BY <3>1, ConcatProperties
    <3>3. i \in 0..n
      BY <1>1
    <3>4. F[i] = F[i - 1] \o s[i]
      BY <1>7
    <3> QED
      BY <3>2, <3>3, <3>4
  <2>3. \A i \in 0..n : i \in S
    <3> HIDE DEF S
    <3> QED
      BY <1>1, <2>1, <2>2, SegmentInduction
  <2> QED
    BY <2>3
<1>9. ASSUME NEW i \in 0..n
      PROVE  FlattenSeq(SubSeq(s, 1, i)) = F[i]
  <2> DEFINE t == SubSeq(s, 1, i)
  <2>1. t \in Seq(Seq(Nat)) /\ Len(t) = i /\ \A j \in 1..i : t[j] = s[j]
    BY <1>1 DEF n
  <2> HIDE DEF t
  <2>2. CASE i = 0
    <3>1. t = << >>
      BY <2>1, <2>2
    <3>2. FlattenSeq(t) = t
      BY <2>1, <2>2 DEF FlattenSeq
    <3> QED
      BY <1>5, <2>2, <3>1, <3>2 DEF t
  <2>3. CASE i # 0
    <3>1. PICK g : Flattens(g, t) /\ FlattenSeq(t) = g[i]
      BY <1>2, <2>1, <2>3
    <3>2. /\ Len(s) \in Nat /\ Len(t) \in Nat /\ Len(t) <= Len(s)
          /\ i \in 1..i /\ i \in 1..n
      BY <1>1, <2>1, <2>3 DEF n
    <3>3. \A j \in 1..i : f[j] = g[j]
      <4>1. Alike(s, t, Len(t))
        BY <2>1 DEF Alike
      <4>2. Alike(f, g, Len(t))
        BY <1>3, <3>1, <3>2, <4>1, FlattenUnique
      <4> QED
        BY <2>1, <4>2 DEF Alike
    <3> QED
      BY <1>5, <3>1, <3>2, <3>3 DEF t
  <2> QED
    BY <2>2, <2>3
<1>10. SubSeq(s, 1, n) = s /\ n \in 0..n
  BY <1>1, SubSeqFull DEF n
<1>11. FlattenSeq(s) = F[n]
  BY <1>9, <1>10
<1>12. F \in [0..n -> Seq(Nat)]
  BY <1>6, <1>8
<1> QED
  BY <1>5, <1>7, <1>9, <1>11, <1>12 DEF n

\* The first sequences of s, end to end, begin all that follow.
LEMMA FlattenGrows ==
  ASSUME NEW n \in Nat, NEW s \in [1..n -> Seq(Nat)], NEW F \in [0..n -> Seq(Nat)],
         \A i \in 1..n : F[i] = F[i - 1] \o s[i], NEW i \in 0..n
  PROVE  \A k \in i..n : /\ Len(F[i]) <= Len(F[k])
                         /\ \A j \in 1..Len(F[i]) : F[k][j] = F[i][j]
<1> DEFINE S == {k \in 0..n : i <= k => /\ Len(F[i]) <= Len(F[k])
                                        /\ \A j \in 1..Len(F[i]) : F[k][j] = F[i][j]}
<1>1. \A k \in 0..n : Len(F[k]) \in Nat
  OBVIOUS
<1>2. 0 \in S
  BY <1>1
<1>3. ASSUME NEW k \in 1..n, k - 1 \in S
      PROVE  k \in S
  <2>1. CASE i = k
    BY <1>1, <2>1
  <2>2. CASE k < i
    BY <2>2
  <2>3. CASE i < k
    <3>1. /\ Len(F[i]) <= Len(F[k - 1])
          /\ \A j \in 1..Len(F[i]) : F[k - 1][j] = F[i][j]
      BY <1>3, <2>3
    <3>2. k - 1 \in 0..n /\ F[k - 1] \in Seq(Nat) /\ s[k] \in Seq(Nat) /\ F[k] = F[k - 1] \o s[k]
      OBVIOUS
    <3>3. /\ Len(F[k]) = Len(F[k - 1]) + Len(s[k])
          /\ \A j \in 1..Len(F[k - 1]) + Len(s[k]) :
               F[k][j] = IF j <= Len(F[k - 1]) THEN F[k - 1][j] ELSE s[k][j - Len(F[k - 1])]
      BY <3>2, ConcatProperties
    <3>4. Len(s[k]) \in Nat /\ Len(F[k - 1]) \in Nat /\ Len(F[i]) \in Nat
      BY <1>1, <3>2
    <3>5. ASSUME NEW j \in 1..Len(F[i])
          PROVE  F[k][j] = F[i][j]
      <4>1. j \in 1..Len(F[k - 1]) + Len(s[k]) /\ j <= Len(F[k - 1])
        <5>1. PICK a, b, c : a = Len(F[i]) /\ b = Len(F[k - 1]) /\ c = Len(s[k])
          OBVIOUS
        <5>2. a \in Nat /\ b \in Nat /\ c \in Nat /\ a <= b /\ j \in 1..a
          BY <3>1, <3>4, <5>1
        <5>3. j \in 1..(b + c) /\ j <= b
          BY <5>2
        <5> QED
          BY <5>1, <5>3
      <4>2. F[k][j] = F[k - 1][j]
        BY <3>3, <4>1
      <4> QED
        BY <3>1, <4>2
    <3>6. Len(F[i]) <= Len(F[k])
      BY <3>1, <3>3, <3>4
    <3> QED
      BY <3>5, <3>6
  <2> QED
    BY <2>1, <2>2, <2>3
<1>4. \A k \in 0..n : k \in S
  <2> HIDE DEF S
  <2> QED
    BY <1>2, <1>3, SegmentInduction
<1> QED
  BY <1>4

\* F joins the n sequences of s one after the other.
Joins(F, s, n) == F[0] = << >> /\ \A i \in 1..n : F[i] = F[i - 1] \o s[i]

\* b sums up the lengths of the n sequences of s.
Sums(b, s, n) == b[0] = 0 /\ \A i \in 1..n : b[i] = b[i - 1] + Len(s[i])

\* Each of the n sequences of s begins in the whole where b says.
Placed(F, s, b, n) ==
  /\ \A i \in 0..n : Len(F[i]) = b[i]
  /\ \A i \in 1..n : \A j \in 1..Len(s[i]) : F[n][b[i - 1] + j] = s[i][j]

\* Where each sequence is in the whole.
LEMMA FlattenAt ==
  ASSUME NEW n \in Nat, NEW s \in [1..n -> Seq(Nat)], NEW F \in [0..n -> Seq(Nat)],
         Joins(F, s, n), NEW b, Sums(b, s, n)
  PROVE  Placed(F, s, b, n)
<1>1. ASSUME NEW i \in 1..n
      PROVE  /\ i \in 0..n /\ i - 1 \in 0..n
             /\ Len(F[i - 1]) \in Nat /\ Len(s[i]) \in Nat
             /\ Len(F[i]) = Len(F[i - 1]) + Len(s[i])
             /\ \A j \in 1..Len(F[i - 1]) + Len(s[i]) :
                  F[i][j] = IF j <= Len(F[i - 1]) THEN F[i - 1][j]
                            ELSE s[i][j - Len(F[i - 1])]
  <2>1. i \in 0..n /\ i - 1 \in 0..n
    OBVIOUS
  <2>2. F[i - 1] \in Seq(Nat)
    BY <2>1
  <2>3. s[i] \in Seq(Nat)
    OBVIOUS
  <2>4. F[i] = F[i - 1] \o s[i]
    BY DEF Joins
  <2>5. Len(F[i - 1]) \in Nat /\ Len(s[i]) \in Nat
    BY <2>2, <2>3, LenProperties
  <2> QED
    BY <2>1, <2>2, <2>3, <2>4, <2>5, ConcatProperties
<1>2. \A i \in 0..n : Len(F[i]) = b[i]
  <2> DEFINE S == {i \in 0..n : Len(F[i]) = b[i]}
  <2>1. 0 \in S
    BY DEF Sums, Joins
  <2>2. ASSUME NEW i \in 1..n, i - 1 \in S
        PROVE  i \in S
    <3>1. Len(F[i - 1]) = b[i - 1]
      BY <2>2
    <3>2. b[i] = b[i - 1] + Len(s[i])
      BY DEF Sums
    <3> QED
      BY <1>1, <3>1, <3>2
  <2>3. \A i \in 0..n : i \in S
    <3> HIDE DEF S
    <3> QED
      BY <2>1, <2>2, SegmentInduction
  <2> QED
    BY <2>3
<1>3. ASSUME NEW i \in 1..n, NEW j \in 1..Len(s[i])
      PROVE  F[n][b[i - 1] + j] = s[i][j]
  <2>1. /\ i \in 0..n /\ i - 1 \in 0..n /\ n \in i..n
        /\ Len(F[i - 1]) \in Nat /\ Len(s[i]) \in Nat
        /\ Len(F[i]) = Len(F[i - 1]) + Len(s[i])
    BY <1>1
  <2>2. b[i - 1] = Len(F[i - 1])
    BY <1>2, <2>1
  <2> DEFINE a == Len(F[i - 1])
             m == Len(s[i])
  <2>3. a + j \in 1..a + m /\ ~(a + j <= a) /\ (a + j) - a = j
    <3>1. a \in Nat /\ m \in Nat /\ j \in 1..m
      BY <2>1
    <3> HIDE DEF a, m
    <3> QED
      BY <3>1
  <2>4. F[i][a + j] = s[i][j]
    <3>1. \A k \in 1..a + m : F[i][k] = IF k <= a THEN F[i - 1][k] ELSE s[i][k - a]
      BY <1>1
    <3> HIDE DEF a, m
    <3> QED
      BY <2>3, <3>1
  <2>5. \A k \in i..n : \A x \in 1..Len(F[i]) : F[k][x] = F[i][x]
    BY <2>1, FlattenGrows DEF Joins
  <2>6. a + j \in 1..Len(F[i])
    BY <2>1, <2>3
  <2> HIDE DEF a, m
  <2>7. F[n][a + j] = F[i][a + j]
    BY <2>1, <2>5, <2>6
  <2> QED
    BY <2>2, <2>4, <2>7 DEF a
<1> QED
  BY <1>2, <1>3 DEF Placed

-----------------------------------------------------------------------------
(* Slices.                                                                 *)

\* A slice of a sequence.
LEMMA SliceAt ==
  ASSUME NEW s \in Seq(Nat), NEW a \in Nat, NEW n \in Nat, a + n <= Len(s)
  PROVE  /\ SubSeq(s, a + 1, a + n) \in Seq(Nat) /\ Len(SubSeq(s, a + 1, a + n)) = n
         /\ \A j \in 1..n : SubSeq(s, a + 1, a + n)[j] = s[a + j]
<1>1. Len(s) \in Nat /\ \A j \in 1..Len(s) : s[j] \in Nat
  BY ElementOfSeq, LenProperties
<1>2. \A j \in (a + 1)..(a + n) : j \in 1..Len(s)
  BY <1>1
<1>3. \A j \in (a + 1)..(a + n) : s[j] \in Nat
  BY <1>1, <1>2
<1>4. a + 1 \in Int /\ a + n \in Int /\ (a + n) - (a + 1) + 1 = n
  OBVIOUS
<1>5. /\ SubSeq(s, a + 1, a + n) \in Seq(Nat)
      /\ Len(SubSeq(s, a + 1, a + n)) = IF a + 1 <= a + n THEN (a + n) - (a + 1) + 1 ELSE 0
      /\ \A j \in 1..((a + n) - (a + 1) + 1) : SubSeq(s, a + 1, a + n)[j] = s[a + 1 + j - 1]
  BY <1>3, <1>4, SubSeqProperties
<1>6. Len(SubSeq(s, a + 1, a + n)) = n
  BY <1>4, <1>5
<1>7. \A j \in 1..n : a + 1 + j - 1 = a + j
  OBVIOUS
<1> QED
  BY <1>4, <1>5, <1>6, <1>7

\* The n elements after position a of s are those after position b of t.
Agree(s, a, t, b, n) == \A j \in 1..n : s[a + j] = t[b + j]

\* Slices of two sequences that agree are the same.
LEMMA SameSlice ==
  ASSUME NEW s \in Seq(Nat), NEW a \in Nat, NEW t \in Seq(Nat), NEW b \in Nat, NEW n \in Nat,
         a + n <= Len(s), b + n <= Len(t), Agree(s, a, t, b, n)
  PROVE  SubSeq(s, a + 1, a + n) = SubSeq(t, b + 1, b + n)
<1> DEFINE u == SubSeq(s, a + 1, a + n)
           v == SubSeq(t, b + 1, b + n)
<1>1. u \in Seq(Nat) /\ Len(u) = n /\ \A j \in 1..n : u[j] = s[a + j]
  BY SliceAt
<1>2. v \in Seq(Nat) /\ Len(v) = n /\ \A j \in 1..n : v[j] = t[b + j]
  BY SliceAt
<1> HIDE DEF u, v
<1>3. \A j \in 1..Len(u) : u[j] = v[j]
  BY <1>1, <1>2 DEF Agree
<1>4. u = v
  BY <1>1, <1>2, <1>3, SeqEqual
<1> QED
  BY <1>4 DEF u, v

\* u is the part of B that ends at pos.
EndsAt(u, B, pos) == u = SubSeq(B, pos - Len(u) + 1, pos)

\* One more chunk.
LEMMA CopyMore ==
  ASSUME NEW B \in Seq(Nat), NEW u \in Seq(Nat), NEW k \in Seq(Nat), NEW pos \in Nat,
         Len(u) <= pos, u # << >> => pos <= Len(B), EndsAt(u, B, pos),
         pos + Len(k) <= Len(B), k = SubSeq(B, pos + 1, pos + Len(k))
  PROVE  /\ u \o k \in Seq(Nat) /\ Len(u \o k) = Len(u) + Len(k)
         /\ EndsAt(u \o k, B, pos + Len(k))
<1>1. Len(u) \in Nat /\ Len(k) \in Nat /\ Len(B) \in Nat
  OBVIOUS
<1>2. u \o k \in Seq(Nat) /\ Len(u \o k) = Len(u) + Len(k)
  BY ConcatProperties
<1> DEFINE m == pos - Len(u) + 1
           n == pos + Len(k)
<1>3. m \in 1..(Len(B) + 1) /\ pos \in (m - 1)..Len(B) /\ n \in pos..Len(B)
  BY <1>1
<1>4. SubSeq(B, m, pos) \o SubSeq(B, pos + 1, n) = SubSeq(B, m, n)
  <2> HIDE DEF m, n
  <2> QED
    BY <1>3, ConcatAdjacentSubSeq
<1> HIDE DEF m, n
<1>5. PICK w : w = u \o k
  OBVIOUS
<1>6. w = SubSeq(B, m, n)
  <2>1. u = SubSeq(B, m, pos)
    BY DEF EndsAt, m
  <2>2. k = SubSeq(B, pos + 1, n)
    BY DEF n
  <2> QED
    BY <1>4, <1>5, <2>1, <2>2
<1>7. n - Len(w) + 1 = m
  BY <1>1, <1>2, <1>5 DEF m, n
<1>8. EndsAt(w, B, n)
  BY <1>6, <1>7 DEF EndsAt
<1> QED
  BY <1>2, <1>5, <1>8 DEF n

\* No more chunk: the end of the data, or of the user's buffer.
LEMMA CopyEnds ==
  ASSUME NEW B \in Seq(Nat), NEW u \in Seq(Nat), NEW pos \in Nat, NEW count \in Nat,
         Len(u) <= pos, Len(u) <= count,
         u # << >> => pos <= Len(B), EndsAt(u, B, pos),
         pos >= Len(B) \/ Len(u) = count
  PROVE  LET start == pos - Len(u)
             end == IF start + count < Len(B) THEN start + count ELSE Len(B)
         IN  u = SubSeq(B, start + 1, end)
<1> DEFINE start == pos - Len(u)
           end == IF start + count < Len(B) THEN start + count ELSE Len(B)
<1>0. Len(u) \in Nat /\ Len(B) \in Nat
  OBVIOUS
<1>1. PICK n, m : n = Len(u) /\ m = Len(B) /\ n \in Nat /\ m \in Nat
  BY <1>0
<1>2. /\ start = pos - n /\ end = IF start + count < m THEN start + count ELSE m
      /\ n <= pos /\ n <= count /\ (pos >= m \/ n = count)
  BY <1>1
<1>3. u = SubSeq(B, start + 1, pos)
  BY DEF EndsAt
<1> HIDE DEF start, end
<1>4. CASE pos < m \/ u # << >>
  <2>1. ASSUME pos < m PROVE end = pos
    <3>1. n = count
      BY <1>1, <1>2, <2>1
    <3>2. start + count = pos
      BY <1>1, <1>2, <3>1
    <3> QED
      BY <1>2, <2>1, <3>2
  <2>2. ASSUME pos >= m PROVE end = pos
    <3>1. u # << >>
      BY <1>1, <1>4, <2>2
    <3>2. pos <= m
      BY <1>1, <3>1
    <3>3. pos = m
      BY <1>1, <2>2, <3>2
    <3>4. start + count >= m /\ start + count \in Int
      BY <1>1, <1>2, <3>3
    <3> QED
      BY <1>1, <1>2, <3>3, <3>4
  <2>3. end = pos
    BY <1>1, <2>1, <2>2
  <2> QED
    BY <1>3, <2>3 DEF start, end
<1>5. CASE ~(pos < m) /\ u = << >>
  <2>1. n = 0
    BY <1>1, <1>5
  <2>2. end = m /\ end < start + 1 /\ end \in Int /\ start + 1 \in Int
    BY <1>1, <1>2, <1>5, <2>1
  <2>3. SubSeq(B, start + 1, end) = << >>
    BY <2>2, SubSeqEmpty
  <2> QED
    BY <1>5, <2>3 DEF start, end
<1> QED
  BY <1>1, <1>4, <1>5

=============================================================================
