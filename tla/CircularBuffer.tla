--------------------------- MODULE CircularBuffer ---------------------------
(***************************************************************************)
(* struct aesd_circular_buffer and the functions on it, as operators on    *)
(* the value of the struct (aesd-circular-buffer.h and .c).  The caller    *)
(* does the locking and owns the memory the entries point to, so the       *)
(* operators say nothing about either.                                     *)
(***************************************************************************)
EXTENDS AesdLimits, Integers, Sequences

CONSTANT Ptr   \* the non-NULL values of buffptr; NULL is 0

ASSUME PtrAssumption == Ptr \subseteq Nat \ {0}

NULL == 0

Slot == 0..(MaxOps - 1)

Entry == [buffptr : Ptr \cup {NULL}, size : Nat]

Buffer == [entry : [Slot -> Entry], in_offs : Slot, out_offs : Slot, full : BOOLEAN]

NoEntry == [buffptr |-> NULL, size |-> 0]

\* aesd_circular_buffer_init: memset to zero.
EmptyBuffer ==
  [entry |-> [i \in Slot |-> NoEntry], in_offs |-> 0, out_offs |-> 0, full |-> FALSE]

\* Faulty variant: the modulus is forgotten.
NextSlotNoWrap(i) == i + 1

NextSlot(i) == (i + 1) % MaxOps

\* Faulty variant: out_offs does not follow when the oldest is overwritten.
AddEntryKeepsOut(b, e) ==
  LET in == NextSlot(b.in_offs)
  IN  [entry |-> [b.entry EXCEPT ![b.in_offs] = e],
       in_offs |-> in, out_offs |-> b.out_offs, full |-> b.full \/ in = b.out_offs]

\* Faulty variant: the flag is set one entry too early.
AddEntryFullEarly(b, e) ==
  LET in  == NextSlot(b.in_offs)
      out == IF b.full THEN NextSlot(b.out_offs) ELSE b.out_offs
  IN  [entry |-> [b.entry EXCEPT ![b.in_offs] = e],
       in_offs |-> in, out_offs |-> out, full |-> b.full \/ NextSlot(in) = out]

\* aesd_circular_buffer_add_entry: store at in_offs, advance, and move
\* out_offs along when the ring was already full.
AddEntry(b, e) ==
  LET in  == NextSlot(b.in_offs)
      out == IF b.full THEN NextSlot(b.out_offs) ELSE b.out_offs
  IN  [entry |-> [b.entry EXCEPT ![b.in_offs] = e],
       in_offs |-> in, out_offs |-> out, full |-> b.full \/ in = out]

\* The slot reached after k steps from the oldest entry.
SlotAt(b, k) == (b.out_offs + k) % MaxOps

\* Bytes in the k entries that the walk from out_offs passes first.
BytesBefore(b, k) ==
  LET acc[i \in 0..MaxOps] ==
        IF i = 0 THEN 0 ELSE acc[i - 1] + b.entry[SlotAt(b, i - 1)].size
  IN  acc[k]

NotFound == [found |-> FALSE, slot |-> 0, offset |-> 0]

\* Faulty variant: the byte after an entry is taken for one of its own.
FindEntryOffByOne(b, char_offset) ==
  LET hits == {k \in 0..(MaxOps - 1) : char_offset <= BytesBefore(b, k + 1)}
      first == CHOOSE k \in hits : \A j \in hits : k <= j
  IN  IF hits = {} THEN NotFound
      ELSE [found |-> TRUE, slot |-> SlotAt(b, first),
            offset |-> char_offset - BytesBefore(b, first)]

\* aesd_circular_buffer_find_entry_offset_for_fpos: walk from the oldest
\* entry; k is entries_checked.  The walk ends at MaxOps entries, and in a
\* ring that is not full when it comes to in_offs.
FindEntry(b, char_offset) ==
  LET walk[k \in 0..MaxOps] ==
        IF k = MaxOps \/ (k > 0 /\ ~b.full /\ SlotAt(b, k) = b.in_offs)
        THEN NotFound
        ELSE IF char_offset < BytesBefore(b, k + 1)
        THEN [found  |-> TRUE, slot |-> SlotAt(b, k),
              offset |-> char_offset - BytesBefore(b, k)]
        ELSE walk[k + 1]
  IN  IF ~b.full /\ b.in_offs = b.out_offs THEN NotFound ELSE walk[0]

\* Sum of size over AESD_CIRCULAR_BUFFER_FOREACH: every slot, used or not.
TotalSize(b) ==
  LET sum[i \in 0..MaxOps] == IF i = 0 THEN 0 ELSE sum[i - 1] + b.entry[i - 1].size
  IN  sum[MaxOps]

-----------------------------------------------------------------------------
(* The reference view of a ring: its entries as a sequence, oldest first.  *)

Count(b) == IF b.full THEN MaxOps ELSE (b.in_offs - b.out_offs) % MaxOps

Contents(b) == [i \in 1..Count(b) |-> b.entry[SlotAt(b, i - 1)]]

\* What every reader of the struct relies on: a full ring has in_offs on the
\* oldest entry; a ring that is not full starts at slot 0 (so in_offs is the
\* number of entries, as aesd_unlocked_ioctl assumes) and its unused slots
\* are zero (so llseek's sum over all slots counts only what is stored).
RingShape(b) ==
  /\ b.full => b.in_offs = b.out_offs
  /\ ~b.full => b.out_offs = 0
  /\ ~b.full => \A i \in Slot : i >= b.in_offs => b.entry[i] = NoEntry

=============================================================================
