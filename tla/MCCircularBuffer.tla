-------------------------- MODULE MCCircularBuffer --------------------------
(* Values for a model check of the circular buffer library. *)
EXTENDS CircularBufferSpec

MCPtr == {1, 2}

\* Two blocks, with lengths that differ and a zero-length entry, which the
\* library accepts (only the driver refuses empty writes).
MCNewEntry == {[buffptr |-> 1, size |-> 1], [buffptr |-> 2, size |-> 2],
               [buffptr |-> 1, size |-> 0]}

=============================================================================
