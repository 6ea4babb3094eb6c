----------------------------- MODULE CommandLog -----------------------------
(***************************************************************************)
(* What /dev/aesdchar promises its users, without slots, pointers, locks   *)
(* or system calls: the last MaxOps commands, each the concatenation of    *)
(* the writes up to and including the one that carries a newline, and the  *)
(* bytes of the command that is still incomplete.                          *)
(***************************************************************************)
EXTENDS Naturals, Sequences

CONSTANTS
  MaxOps,    \* AESDCHAR_MAX_WRITE_OPERATIONS_SUPPORTED
  Data,      \* the byte sequences a write may carry
  Newline    \* the byte '\n'

VARIABLES
  recent,    \* the complete commands, oldest first
  pending    \* the bytes written since the last complete command

History == INSTANCE RecentWrites WITH Item <- Seq(Nat)

Complete(d) == \E i \in 1..Len(d) : d[i] = Newline

\* A device that has just been loaded holds nothing.
Init == recent = << >> /\ pending = << >>

\* A write takes effect: it completes a command or extends the pending one.
Commit(d) ==
  IF Complete(d)
  THEN recent' = History!Remember(recent, pending \o d) /\ pending' = << >>
  ELSE pending' = pending \o d /\ UNCHANGED recent

\* The module is unloaded and everything is forgotten.
Reset == recent' = << >> /\ pending' = << >>

Next == (\E d \in Data \ {<< >>} : Commit(d)) \/ Reset

Spec == Init /\ [][Next]_<<recent, pending>>

=============================================================================
