------------------------- MODULE AesdCharProperties -------------------------
(***************************************************************************)
(* What the aesdchar driver must guarantee to the processes that use it.   *)
(***************************************************************************)
EXTENDS AesdChar

LOCAL INSTANCE SequencesExt

\* Type correctness of the device, the files and the calls in progress.
TypeOK ==
  /\ mod \in {"out", "region", "live"}
  /\ buffer \in Buffer
  /\ partial_write \in Ptr \cup {NULL} /\ partial_size \in Nat
  /\ lock \subseteq Proc
  /\ DOMAIN heap = Ptr /\ \A b \in Ptr : Len(heap[b]) \in 0..MaxAlloc
  /\ opened \subseteq File
  /\ f_pos \in [File -> 0..LoffMax]
  /\ pc \in [Proc -> {"idle", "r_lock", "r_loop", "w_lock", "w_body", "w_store", "w_free",
                      "s_lock", "s_body", "unlock", "ret"}]
  /\ \A p \in Proc :
       /\ call[p].op \in {"none", "read", "write", "seek"}
       /\ call[p].file \in File \cup {0}
       /\ {call[p].tmp_buf, call[p].combined_buf} \subseteq Ptr \cup {NULL}
       /\ call[p].retval \in Int /\ call[p].pos \in 0..LoffMax

-----------------------------------------------------------------------------
(* Locking.                                                                *)

Critical == {"r_loop", "w_body", "w_store", "s_body", "unlock"}

\* buffer_lock is held by exactly the processes that touch the device, and by
\* at most one: every path out of the four operations, the error paths too,
\* releases what it took, and none unlocks for somebody else.
LockDiscipline ==
  /\ lock = {p \in Proc : pc[p] \in Critical}
  /\ \A p, q \in lock : p = q

-----------------------------------------------------------------------------
(* Memory.                                                                 *)

\* Who owns a block: <<kind, who, block>>.  Between krealloc and the store
\* that follows it, combined_buf owns what partial_write owned.
Refs ==
  LET all == {<<"entry", i, buffer.entry[i].buffptr>> : i \in Slot}
             \cup {<<"tmp_buf", p, call[p].tmp_buf>> : p \in Proc}
             \cup {<<"combined_buf", p, call[p].combined_buf>> : p \in Proc}
             \cup (IF \E p \in Proc : pc[p] = "w_store" THEN {}
                   ELSE {<<"partial", 0, partial_write>>})
  IN  {r \in all : r[3] # NULL}

Reachable == {r[3] : r \in Refs}

\* No pointer of the driver dangles, no two of them own the same block (which
\* would be freed twice), and the recorded sizes are those of the blocks: in
\* particular nobody can use partial_write after krealloc has moved its block.
HeapSafe ==
  /\ Reachable \subseteq Allocated
  /\ \A r, s \in Refs : r[3] = s[3] => r = s
  /\ \A i \in Slot : LET e == buffer.entry[i]
                     IN  e.buffptr # NULL => e.size = Len(heap[e.buffptr])
  /\ (\A p \in Proc : pc[p] # "w_store") /\ mod = "live" =>
       partial_size = IF partial_write = NULL THEN 0 ELSE Len(heap[partial_write])

Leaked == Allocated \ Reachable

\* The only way to lose a block is to overwrite the oldest entry of a full
\* ring; all other paths (failed copies, interrupted locks, failed krealloc,
\* unloading) free what they allocated.
LeakOnlyByOverwrite ==
  [][\A b \in Leaked' \ Leaked :
       /\ buffer.full /\ b = buffer.entry[buffer.in_offs].buffptr
       /\ buffer' # buffer]_vars

-----------------------------------------------------------------------------
(* The device as a log of commands.                                        *)

\* The complete commands, oldest first, as bytes.
Commands ==
  IF mod # "live" THEN << >>
  ELSE [i \in DOMAIN Contents(buffer) |-> heap[Contents(buffer)[i].buffptr]]

\* The bytes of the incomplete command.  While a writer is between krealloc
\* and its store they are the old part of combined_buf.
Pending ==
  LET storing == {p \in Proc : pc[p] = "w_store"}
      old(p) == SubSeq(heap[call[p].combined_buf], 1, partial_size)
  IN  IF mod # "live" \/ partial_size = 0 THEN << >>
      ELSE IF storing = {} THEN heap[partial_write]
      ELSE old(CHOOSE p \in storing : TRUE)

Log == INSTANCE CommandLog WITH recent <- Commands, pending <- Pending

\* Refinement: whatever the interleaving of writers, failures and unloads, the
\* device is a log in which each write takes effect in one step.
ImplementsCommandLog == Log!Spec

\* A writer is told the truth: when the body of aesd_write ends with a
\* negative value the log has not changed, and when it ends with count the
\* bytes have been committed, once.
WriteTellsTheTruth ==
  [][\A p \in Proc :
       pc[p] \in {"w_lock", "w_body", "w_store"} /\ pc'[p] \in {"unlock", "ret"} =>
         IF call'[p].retval < 0 THEN UNCHANGED <<Commands, Pending>>
         ELSE call'[p].retval = Len(call[p].data) /\ Log!Commit(call[p].data)]_vars

\* The device as a reader sees it.
Bytes == FlattenSeq(Commands)

\* A read that ends well has copied exactly the bytes of the device from the
\* position at which it started, across entries and wrap-around, all from one
\* state of the device, and as many as there are up to count.
ReadExact ==
  \A p \in Proc :
    LET c == call[p]
        start == c.pos - Len(c.ubuf)
        end == IF start + c.count < Len(Bytes) THEN start + c.count ELSE Len(Bytes)
    IN  pc[p] = "unlock" /\ c.op = "read" /\ c.retval >= 0 =>
          c.ubuf = SubSeq(Bytes, start + 1, end) /\ c.retval = Len(c.ubuf)

-----------------------------------------------------------------------------
(* Positions.                                                              *)

\* The position a seek asks for, in unbounded arithmetic on the commands; {}
\* when it must be refused.
Target(s, cur) ==
  IF s.whence = "CMD"
  THEN IF s.cmd < Len(Commands) /\ s.offset < Len(Commands[s.cmd + 1])
       THEN {Len(FlattenSeq(SubSeq(Commands, 1, s.cmd))) + s.offset} ELSE {}
  ELSE LET base == CASE s.whence = "CUR" -> cur
                     [] s.whence = "END" -> Len(Bytes) [] OTHER -> 0
           to == base + s.offset
       IN  IF s.whence # "BAD" /\ to >= 0 /\ to <= Len(Bytes) THEN {to} ELSE {}

\* llseek and the seek ioctl accept exactly the positions that exist, for
\* every offset up to the limits of loff_t, and set the one that was asked
\* for: a sum that wraps is refused, a command is counted from the oldest.
SeekExact ==
  [][\A p \in Proc :
       LET f == call[p].file
           to == Target(call[p].seek, f_pos[f])
       IN  pc[p] = "s_body" /\ pc'[p] = "unlock" =>
             IF call'[p].retval < 0 THEN to = {} /\ UNCHANGED f_pos
             ELSE to = {f_pos'[f]}]_vars

\* While no other process shares the file, its position moves only where its
\* user moves it: an accepted seek sets it and a read advances it by the bytes
\* it reports.  A write, a failed call or the traffic on other files leaves it
\* alone, although the VFS stores a copy made before the call took the lock.
PositionExact ==
  [][\A f \in opened \cap opened' : f_pos'[f] # f_pos[f] =>
       \E p \in Proc :
         /\ call[p].file = f
         /\ \/ pc[p] = "s_body"
            \/ /\ pc[p] = "ret" /\ call[p].op = "read"
               /\ f_pos'[f] = f_pos[f] + call[p].retval]_vars

-----------------------------------------------------------------------------
(* Progress.                                                               *)

\* Every system call returns: no path keeps buffer_lock or loops forever,
\* though writers and readers go on competing for it.
CallsReturn == \A p \in Proc : pc[p] # "idle" ~> pc[p] = "idle"

=============================================================================
