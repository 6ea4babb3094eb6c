----------------------------- MODULE AesdLimits -----------------------------
(***************************************************************************)
(* The one size that the ring, the driver and the server depend on         *)
(* (aesd-circular-buffer.h).                                               *)
(***************************************************************************)
EXTENDS Naturals

CONSTANT MaxOps   \* AESDCHAR_MAX_WRITE_OPERATIONS_SUPPORTED (10 in the header)

\* in_offs, out_offs, entries_checked and the FOREACH index are uint8_t, and
\* the loops stop at index < MaxOps: a larger ring would never stop.
ASSUME MaxOpsAssumption == MaxOps \in 1..255

=============================================================================
