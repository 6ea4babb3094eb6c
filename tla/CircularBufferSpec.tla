------------------------- MODULE CircularBufferSpec -------------------------
(***************************************************************************)
(* The circular buffer library driven by a caller, as the user-space unit  *)
(* test of the repository drives it: initialise once, then add entries.    *)
(***************************************************************************)
EXTENDS CircularBuffer

CONSTANT NewEntry   \* the entries the caller may add

ASSUME NewEntryAssumption ==
  NewEntry \subseteq {e \in Entry : e.buffptr # NULL}

VARIABLE buffer

Init == buffer = EmptyBuffer

Add(e) == buffer' = AddEntry(buffer, e)

Next == \E e \in NewEntry : Add(e)

Spec == Init /\ [][Next]_buffer

-----------------------------------------------------------------------------
(* Properties.                                                             *)

\* Type correctness: the struct keeps its shape and the offsets stay inside
\* entry[].
TypeOK == buffer \in Buffer

\* The shape aesd_unlocked_ioctl and aesd_llseek rely on: see RingShape.
RingOK == RingShape(buffer)

\* Position p of the entries laid end to end, as a slot index and an offset:
\* the reference for the find function, by quantification over entries.
Position(p) ==
  LET start(i) == BytesBefore(buffer, i)
      hit == {i \in 0..(Count(buffer) - 1) : start(i) <= p /\ p < start(i + 1)}
  IN  {[found |-> TRUE, slot |-> SlotAt(buffer, i), offset |-> p - start(i)] : i \in hit}

\* aesd_circular_buffer_find_entry_offset_for_fpos returns the entry and the
\* byte "if all buffer strings were concatenated end to end", and NULL
\* exactly when the position is not stored: checked for every position up to
\* one past the end of the data.
FindMatchesReference ==
  \A p \in 0..(TotalSize(buffer) + 1) :
    IF p < TotalSize(buffer)
    THEN Position(p) = {FindEntry(buffer, p)}
    ELSE FindEntry(buffer, p) = NotFound

\* The ring implements "remember the last MaxOps entries".
History == INSTANCE RecentWrites WITH Item <- NewEntry, recent <- Contents(buffer)

\* Refinement: every add of the ring is an Add of the abstract history, for
\* any number of wrap-arounds (add_entry overwrites exactly the oldest).
KeepsRecentWrites == History!Spec

=============================================================================
