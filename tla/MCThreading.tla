----------------------------- MODULE MCThreading -----------------------------
(***************************************************************************)
(* Instances of Threading: threads 1 and 2 share a mutex, 3 has one of its *)
(* own, and 4 is given none.                                               *)
(***************************************************************************)
EXTENDS ThreadingProperties

CONSTANTS none, m1, m2

MCMutex == {m1, m2}
MCWants == <<m1, m1, m2, none>>

=============================================================================
