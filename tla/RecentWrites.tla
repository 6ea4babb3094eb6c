---------------------------- MODULE RecentWrites ----------------------------
(***************************************************************************)
(* What the circular buffer promises, without slots or offsets: it keeps   *)
(* the most recent MaxOps items handed to it, oldest first.  The comment   *)
(* of aesd_circular_buffer_add_entry states the promise ("If the buffer    *)
(* was already full, overwrites the oldest entry").                        *)
(***************************************************************************)
EXTENDS Naturals, Sequences

CONSTANTS
  MaxOps,   \* AESDCHAR_MAX_WRITE_OPERATIONS_SUPPORTED
  Item      \* what is remembered: buffer entries, or whole commands

VARIABLE recent   \* the remembered items, oldest first

\* The history after x is added: the oldest item goes once MaxOps are kept.
Remember(history, x) ==
  Append(IF Len(history) < MaxOps THEN history ELSE Tail(history), x)

Init == recent = << >>

Add(x) == recent' = Remember(recent, x)

Next == \E x \in Item : Add(x)

Spec == Init /\ [][Next]_recent

=============================================================================
