------------------------ MODULE CircularBufferProofs ------------------------
(***************************************************************************)
(* The circular buffer library, for every ring size and every set of       *)
(* entries: type correctness, shape, and refinement of RecentWrites.       *)
(***************************************************************************)
EXTENDS CircularBufferSpec, CircularBufferLemmas

\* The two facts that every add preserves, together.
RingInv == TypeOK /\ RingOK

\* aesd_circular_buffer_init establishes them.
LEMMA RingInvInit == Init => RingInv
BY EmptyBufferShape DEF Init, RingInv, TypeOK, RingOK

\* Every call of aesd_circular_buffer_add_entry keeps them.
LEMMA RingInvStep == RingInv /\ [Next]_buffer => RingInv'
<1> SUFFICES ASSUME RingInv, [Next]_buffer
             PROVE  RingInv'
  OBVIOUS
<1>1. ASSUME NEW e \in NewEntry, Add(e)
      PROVE  RingInv'
  <2>1. e \in Entry
    BY NewEntryAssumption
  <2> QED
    BY <1>1, <2>1, AddEntryType, AddEntryShape DEF RingInv, TypeOK, RingOK, Add
<1>2. CASE UNCHANGED buffer
  BY <1>2 DEF RingInv, TypeOK, RingOK
<1> QED
  BY <1>1, <1>2 DEF Next

\* aesd_circular_buffer_add_entry keeps both offsets inside entry[], whatever
\* is added and however often the ring wraps.
THEOREM RingTyped == Spec => []TypeOK
<1>1. RingInv => TypeOK
  BY DEF RingInv
<1> QED
  BY RingInvInit, RingInvStep, <1>1, PTL DEF Spec

\* The shape on which aesd_unlocked_ioctl (in_offs counts the entries until
\* the ring is full) and aesd_llseek (unused slots have size 0) rely.
THEOREM RingShaped == Spec => []RingOK
<1>1. RingInv => RingOK
  BY DEF RingInv
<1> QED
  BY RingInvInit, RingInvStep, <1>1, PTL DEF Spec

\* The ring implements the abstract history: after any number of adds it holds
\* exactly the last MaxOps entries, oldest first.
THEOREM RingRefines == Spec => KeepsRecentWrites
<1>1. Init => History!Init
  BY EmptyBufferShape DEF Init, History!Init
<1>2. RingInv /\ [Next]_buffer => [History!Next]_(Contents(buffer))
  <2> SUFFICES ASSUME RingInv, [Next]_buffer
               PROVE  [History!Next]_(Contents(buffer))
    OBVIOUS
  <2>1. ASSUME NEW e \in NewEntry, Add(e)
        PROVE  History!Add(e)
    <3>1. e \in Entry
      BY NewEntryAssumption
    <3> QED
      BY <2>1, <3>1, AddEntryRemembers
      DEF RingInv, TypeOK, RingOK, Add, History!Add, History!Remember
  <2>2. CASE UNCHANGED buffer
    BY <2>2
  <2> QED
    BY <2>1, <2>2 DEF Next, History!Next
<1> QED
  BY RingInvInit, RingInvStep, <1>1, <1>2, PTL DEF Spec, KeepsRecentWrites, History!Spec

\* The search is right in every ring that is well shaped.
LEMMA FindsExactly ==
  ASSUME buffer \in Buffer, RingShape(buffer)
  PROVE  FindMatchesReference
<1> SUFFICES ASSUME NEW p \in 0..(TotalSize(buffer) + 1)
             PROVE  IF p < TotalSize(buffer) THEN Position(p) = {FindEntry(buffer, p)}
                    ELSE FindEntry(buffer, p) = NotFound
  BY DEF FindMatchesReference
<1> DEFINE n == Count(buffer)
           B(i) == BytesBefore(buffer, i)
<1>1. n \in 0..MaxOps /\ MaxOps \in Nat /\ TotalSize(buffer) = B(n)
      /\ \A i \in 0..MaxOps : B(i) \in Nat
  BY TotalIsStored, BytesBeforeValue, MaxOpsAssumption
<1>2. p \in Nat /\ TotalSize(buffer) \in Nat
  BY <1>1
<1>3. CASE p < TotalSize(buffer)
  <2>1. PICK i \in 0..(n - 1) : B(i) <= p /\ p < B(i + 1) /\ FindEntry(buffer, p) = Hit(buffer, p, i)
    BY <1>2, <1>3, FindEntryExact
  <2>2. ASSUME NEW j \in 0..(n - 1), B(j) <= p, p < B(j + 1)
        PROVE  j = i
    <3> HIDE DEF n, B
    <3>1. ASSUME NEW x \in 0..MaxOps, NEW y \in 0..MaxOps, x <= y
          PROVE  B(x) <= B(y)
      BY <3>1, BytesGrow DEF B
    <3>2. i \in 0..MaxOps /\ j \in 0..MaxOps /\ i + 1 \in 0..MaxOps /\ j + 1 \in 0..MaxOps
      BY <1>1
    <3>3. B(i) \in Nat /\ B(j) \in Nat /\ B(i + 1) \in Nat /\ B(j + 1) \in Nat
      BY <1>1, <3>2
    <3>4. CASE i < j
      BY <1>2, <2>1, <2>2, <3>1, <3>2, <3>3, <3>4
    <3>5. CASE j < i
      BY <1>2, <2>1, <2>2, <3>1, <3>2, <3>3, <3>5
    <3> QED
      BY <3>2, <3>4, <3>5
  <2>3. Position(p) = {[found |-> TRUE, slot |-> SlotAt(buffer, j), offset |-> p - B(j)] :
                         j \in {j \in 0..(n - 1) : B(j) <= p /\ p < B(j + 1)}}
    BY DEF Position
  <2>4. {j \in 0..(n - 1) : B(j) <= p /\ p < B(j + 1)} = {i}
    BY <2>1, <2>2
  <2>5. Position(p) = {[found |-> TRUE, slot |-> SlotAt(buffer, i), offset |-> p - B(i)]}
    BY <2>3, <2>4
  <2> QED
    BY <1>3, <2>1, <2>5 DEF Hit
<1>4. CASE ~(p < TotalSize(buffer))
  BY <1>2, <1>4, FindEntryExact
<1> QED
  BY <1>3, <1>4

\* aesd_circular_buffer_find_entry_offset_for_fpos returns the entry and the
\* offset of every byte that is stored and NULL for every other position, in
\* rings that are empty, filling up, full and wrapped, whatever the sizes of the
\* entries.
THEOREM RingFindsExactly == Spec => []FindMatchesReference
<1>1. RingInv => FindMatchesReference
  BY FindsExactly DEF RingInv, TypeOK, RingOK
<1> QED
  BY <1>1, RingInvInit, RingInvStep, PTL DEF Spec

=============================================================================
