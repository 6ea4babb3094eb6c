--------------------------- MODULE AesdCharProofs ---------------------------
(***************************************************************************)
(* The locking and the memory of the aesdchar driver, the command log it   *)
(* implements, what its readers get and where its seeks lead, for every    *)
(* number of processes, files and blocks and whatever the processes write, *)
(* read and seek.                                                          *)
(***************************************************************************)
EXTENDS AesdCharProperties, CircularBufferLemmas, TLAPS

Label == {"idle", "r_lock", "r_loop", "w_lock", "w_body", "w_store", "w_free",
          "s_lock", "s_body", "unlock", "ret"}

\* The locals of a call: the fields they have and the file they are about.
IsCall(c) == DOMAIN c = DOMAIN NoCall

\* Every process is at a label and has its locals.
Shaped ==
  /\ pc \in [Proc -> Label]
  /\ call = [p \in Proc |-> call[p]] /\ \A p \in Proc : IsCall(call[p])

\* A call in progress keeps its file open, and open files keep the module in:
\* so nobody is inside when aesd_init_module sets up the mutex.
InUse ==
  /\ \A p \in Proc : pc[p] # "idle" => call[p].file \in opened
  /\ mod # "live" => opened = {}

LockInv == Shaped /\ InUse /\ LockDiscipline

USE DEF Label

\* A step of p that neither takes nor releases buffer_lock.
LEMMA GotoKeepsLock ==
  ASSUME LockInv, NEW p \in Proc, NEW label \in Label, NEW c, IsCall(c),
         label # "idle" => c.file \in opened,
         label \in Critical <=> pc[p] \in Critical,
         Goto(p, label, c), UNCHANGED <<mod, lock, opened>>
  PROVE  LockInv'
<1>1. Shaped'
  BY DEF LockInv, Shaped, Goto
<1>2. InUse'
  BY DEF LockInv, Shaped, InUse, Goto
<1>3. LockDiscipline'
  BY DEF LockInv, Shaped, LockDiscipline, Goto, Critical
<1> QED
  BY <1>1, <1>2, <1>3 DEF LockInv

LEMMA InitLockInv == Init => LockInv
BY DEF Init, LockInv, Shaped, InUse, LockDiscipline, IsCall, Critical

\* aesd_init_module and aesd_cleanup_module run while nobody is inside.
LEMMA ModuleKeepsLock == LockInv /\ Module => LockInv'
<1> SUFFICES ASSUME LockInv, Module
             PROVE  LockInv'
  OBVIOUS
<1>1. UNCHANGED <<opened, pc, call>>
  BY DEF Module, AllocRegion, SetupCdev, SetupCdevFails, Cleanup
<1>2. Shaped' /\ InUse'
  BY <1>1 DEF LockInv, Shaped, InUse, Module, AllocRegion, SetupCdev, SetupCdevFails, Cleanup
<1>3. CASE AllocRegion \/ Cleanup
  BY <1>1, <1>2, <1>3 DEF LockInv, LockDiscipline, AllocRegion, Cleanup
<1>4. CASE SetupCdev \/ SetupCdevFails
  <2>1. lock' = {} /\ opened = {}
    BY <1>4 DEF LockInv, InUse, SetupCdev, SetupCdevFails
  <2>2. \A p \in Proc : pc[p] = "idle"
    BY <2>1 DEF LockInv, InUse
  <2> QED
    BY <1>1, <1>2, <2>1, <2>2 DEF LockInv, LockDiscipline, Critical
<1> QED
  BY <1>3, <1>4 DEF Module

\* aesd_open and aesd_release do not touch the lock; a file is released only
\* when no call on it is in progress.
LEMMA FilesKeepLock == LockInv /\ Files => LockInv'
<1> SUFFICES ASSUME LockInv, NEW f \in File, Open(f) \/ Release(f)
             PROVE  LockInv'
  BY DEF Files
<1>1. Shaped' /\ InUse'
  BY DEF LockInv, Shaped, InUse, Open, Release
<1>2. LockDiscipline'
  BY DEF LockInv, LockDiscipline, Open, Release
<1> QED
  BY <1>1, <1>2 DEF LockInv

\* Entering a system call: all checks that come before the lock.
LEMMA SysCallKeepsLock ==
  ASSUME LockInv, NEW p \in Proc, SysCall(p)
  PROVE  LockInv'
<1>0. PICK f \in File : \/ \E n \in ReadCounts : SysRead(p, f, n)
                        \/ \E d \in Data : SysWrite(p, f, d)
                        \/ \E s \in Seeks : SysSeek(p, f, s)
  BY DEF SysCall
<1>1. ASSUME NEW n \in ReadCounts, SysRead(p, f, n)
      PROVE  LockInv'
  <2> DEFINE c == [NoCall EXCEPT !.op = "read", !.file = f, !.count = n, !.pos = f_pos[f]]
  <2>1. IsCall(c) /\ IsCall([c EXCEPT !.retval = -EINVAL])
        /\ c.file = f /\ [c EXCEPT !.retval = -EINVAL].file = f
    BY DEF IsCall, NoCall
  <2>2. pc[p] = "idle" /\ f \in opened /\ UNCHANGED <<mod, lock, opened>>
    BY <1>1 DEF SysRead
  <2>3. Goto(p, "ret", [c EXCEPT !.retval = -EINVAL]) \/ Goto(p, "r_lock", c)
    BY <1>1 DEF SysRead, Fail
  <2> HIDE DEF c
  <2> QED
    BY <2>1, <2>2, <2>3, GotoKeepsLock DEF Critical
<1>2. ASSUME NEW d \in Data, SysWrite(p, f, d)
      PROVE  LockInv'
  <2> DEFINE c == [NoCall EXCEPT !.op = "write", !.file = f, !.data = d, !.pos = f_pos[f]]
  <2>1. pc[p] = "idle" /\ f \in opened /\ UNCHANGED <<mod, lock, opened>>
    BY <1>2 DEF SysWrite
  <2>2. \/ \E e \in {EINVAL, ENOMEM, EFAULT} : Goto(p, "ret", [c EXCEPT !.retval = -e])
        \/ \E b \in Ptr : Goto(p, "w_lock", [c EXCEPT !.tmp_buf = b])
    BY <1>2 DEF SysWrite, Fail, Fresh
  <2>3. /\ \A e : LET r == [c EXCEPT !.retval = -e] IN IsCall(r) /\ r.file = f
        /\ \A b : LET r == [c EXCEPT !.tmp_buf = b] IN IsCall(r) /\ r.file = f
    BY DEF IsCall, NoCall
  <2> HIDE DEF c
  <2> QED
    BY <2>1, <2>2, <2>3, GotoKeepsLock DEF Critical
<1>3. ASSUME NEW s \in Seeks, SysSeek(p, f, s)
      PROVE  LockInv'
  <2> DEFINE c == [NoCall EXCEPT !.op = "seek", !.file = f, !.seek = s]
  <2>1. pc[p] = "idle" /\ f \in opened /\ UNCHANGED <<mod, lock, opened>>
    BY <1>3 DEF SysSeek
  <2>2. \/ \E e \in {ENOTTY, EFAULT} : Goto(p, "ret", [c EXCEPT !.retval = -e])
        \/ Goto(p, "s_lock", c)
    BY <1>3 DEF SysSeek, Fail
  <2>3. /\ \A e : LET r == [c EXCEPT !.retval = -e] IN IsCall(r) /\ r.file = f
        /\ IsCall(c) /\ c.file = f
    BY DEF IsCall, NoCall
  <2> HIDE DEF c
  <2> QED
    BY <2>1, <2>2, <2>3, GotoKeepsLock DEF Critical
<1> QED
  BY <1>0, <1>1, <1>2, <1>3

\* mutex_lock, and mutex_lock_interruptible when it succeeds.
LEMMA AcquireLocks ==
  ASSUME LockInv, NEW p \in Proc, NEW from \in Label \ Critical, from # "idle",
         NEW to \in Critical, NEW c, IsCall(c), c.file = call[p].file, Acquire(p, from, to, c)
  PROVE  LockInv'
<1>1. Shaped'
  BY DEF LockInv, Shaped, Acquire, Goto, Critical
<1>2. InUse'
  BY DEF LockInv, Shaped, InUse, Acquire, Goto
<1>3. lock' = {p} /\ \A q \in Proc : pc'[q] \in Critical <=> q = p
  BY DEF LockInv, Shaped, LockDiscipline, Acquire, LockFree, Goto
<1> QED
  BY <1>1, <1>2, <1>3 DEF LockInv, LockDiscipline

LEMMA LockKeepsLock ==
  ASSUME LockInv, NEW p \in Proc, Lock(p)
  PROVE  LockInv'
<1>1. IsCall(call[p])
  BY DEF LockInv, Shaped
<1>2. \A v : LET r == [call[p] EXCEPT !.has_newline = v] IN IsCall(r) /\ r.file = call[p].file
  BY <1>1 DEF IsCall, NoCall
<1>3. CASE ReadLock(p)
  BY <1>1, <1>3, AcquireLocks DEF ReadLock, Critical
<1>4. CASE WriteLock(p)
  BY <1>2, <1>4, AcquireLocks DEF WriteLock, Critical
<1>5. CASE SeekLock(p)
  BY <1>1, <1>5, AcquireLocks DEF SeekLock, Critical
<1> QED
  BY <1>3, <1>4, <1>5 DEF Lock

\* A signal while waiting: the process leaves without the lock.
LEMMA InterruptedKeepsLock ==
  ASSUME LockInv, NEW p \in Proc, Interrupted(p)
  PROVE  LockInv'
<1>1. IsCall(call[p]) /\ call[p].file \in opened
  BY DEF LockInv, Shaped, InUse, Interrupted, ReadInterrupted, WriteInterrupted
<1>2. PICK c : Goto(p, "ret", c) /\ IsCall(c) /\ c.file \in opened
  <2> DEFINE r == [call[p] EXCEPT !.retval = -ERESTARTSYS]
             w == [[call[p] EXCEPT !.tmp_buf = NULL] EXCEPT !.retval = -ERESTARTSYS]
  <2>1. Goto(p, "ret", r) \/ Goto(p, "ret", w)
    BY DEF Interrupted, ReadInterrupted, WriteInterrupted, Fail
  <2>2. IsCall(r) /\ IsCall(w) /\ r.file = call[p].file /\ w.file = call[p].file
    BY <1>1 DEF IsCall, NoCall
  <2> HIDE DEF r, w
  <2> QED
    BY <1>1, <2>1, <2>2
<1>3. pc[p] \in {"r_lock", "w_lock"} /\ UNCHANGED <<mod, lock, opened>>
  BY DEF Interrupted, ReadInterrupted, WriteInterrupted
<1> QED
  BY <1>2, <1>3, GotoKeepsLock DEF Critical

\* mutex_unlock at the end of each operation.
LEMMA UnlockReleases ==
  ASSUME LockInv, NEW p \in Proc, Unlock(p)
  PROVE  LockInv'
<1>1. Shaped' /\ InUse'
  BY DEF LockInv, Shaped, InUse, Unlock
<1>2. p \in lock /\ \A q \in lock : q = p
  BY DEF LockInv, Shaped, LockDiscipline, Unlock, Critical
<1>3. lock' = {} /\ \A q \in Proc : pc'[q] \notin Critical
  BY <1>2 DEF LockInv, Shaped, LockDiscipline, Unlock, Critical
<1> QED
  BY <1>1, <1>3 DEF LockInv, LockDiscipline

\* The code between lock and unlock, and what follows the unlock.
LEMMA BodyKeepsLock ==
  ASSUME LockInv, NEW p \in Proc, Body(p)
  PROVE  LockInv'
<1> DEFINE Keeps(c) == IsCall(c) /\ c.file = call[p].file
<1>1. Keeps(call[p]) /\ (pc[p] # "idle" => call[p].file \in opened)
  BY DEF LockInv, Shaped, InUse
<1>2. ASSUME NEW c, Keeps(c), pc[p] \in Critical, UNCHANGED <<mod, lock, opened>>,
             NEW label \in Critical, Goto(p, label, c)
      PROVE  LockInv'
  BY <1>1, <1>2, GotoKeepsLock DEF Critical
<1>3. CASE ReadCopy(p)
  <2>1. PICK n, b : Goto(p, "r_loop", [call[p] EXCEPT !.pos = n, !.ubuf = b])
    BY <1>3 DEF ReadCopy
  <2>2. Keeps([call[p] EXCEPT !.pos = n, !.ubuf = b])
    BY <1>1 DEF IsCall, NoCall
  <2> QED
    BY <1>2, <1>3, <2>1, <2>2 DEF ReadCopy, Critical
<1>4. CASE ReadFault(p) \/ ReadDone(p) \/ WriteAppendFails(p)
  <2>1. PICK v : Goto(p, "unlock", [call[p] EXCEPT !.retval = v])
    BY <1>4 DEF ReadFault, ReadDone, WriteAppendFails
  <2>2. Keeps([call[p] EXCEPT !.retval = v])
    BY <1>1 DEF IsCall, NoCall
  <2> QED
    BY <1>2, <1>4, <2>1, <2>2 DEF ReadFault, ReadDone, WriteAppendFails, Critical
<1>5. CASE WriteDirect(p)
  <2>1. Keeps(HandedOver(call[p]))
    BY <1>1 DEF HandedOver, IsCall, NoCall
  <2> QED
    BY <1>2, <1>5, <2>1 DEF WriteDirect, Critical
<1>6. CASE WriteFirstPart(p) \/ WriteAppend(p)
  <2>1. PICK v : Goto(p, "w_store", [call[p] EXCEPT !.combined_buf = v, !.tmp_buf = NULL])
    BY <1>6 DEF WriteFirstPart, WriteAppend
  <2>2. Keeps([call[p] EXCEPT !.combined_buf = v, !.tmp_buf = NULL])
    BY <1>1 DEF IsCall, NoCall
  <2> QED
    BY <1>2, <1>6, <2>1, <2>2 DEF WriteFirstPart, WriteAppend, Critical
<1>7. CASE WriteStore(p)
  <2>1. Keeps([call[p] EXCEPT !.retval = Len(call[p].data), !.combined_buf = NULL])
    BY <1>1 DEF IsCall, NoCall
  <2> QED
    BY <1>2, <1>7, <2>1 DEF WriteStore, Critical
<1>8. CASE WriteFree(p)
  <2>1. Keeps([call[p] EXCEPT !.tmp_buf = NULL])
    BY <1>1 DEF IsCall, NoCall
  <2> QED
    BY <1>1, <1>8, <2>1, GotoKeepsLock DEF WriteFree, Critical
<1>9. CASE Llseek(p) \/ Ioctl(p)
  <2>1. PICK v : Goto(p, "unlock", [call[p] EXCEPT !.retval = v, !.seek = NoSeek])
    BY <1>9 DEF Llseek, Ioctl, FinishSeek
  <2>2. Keeps([call[p] EXCEPT !.retval = v, !.seek = NoSeek])
    BY <1>1 DEF IsCall, NoCall
  <2>3. pc[p] = "s_body" /\ UNCHANGED <<mod, lock, opened>>
    BY <1>9 DEF Llseek, Ioctl, FinishSeek
  <2> QED
    BY <1>2, <2>1, <2>2, <2>3 DEF Critical
<1>10. CASE Return(p)
  BY <1>10, GotoKeepsLock DEF Return, IsCall, Critical
<1> QED
  BY <1>3, <1>4, <1>5, <1>6, <1>7, <1>8, <1>9, <1>10, UnlockReleases DEF Body

\* buffer_lock is held by exactly the processes between a lock and an unlock
\* of aesd_read, aesd_write, aesd_llseek and aesd_unlocked_ioctl, and by at most
\* one: no error path keeps it, none gives back what it did not take, and no
\* call is under way when the module sets the mutex up.
THEOREM DriverLocks == Spec => []LockDiscipline
<1>1. LockInv /\ [Next]_vars => LockInv'
  <2> SUFFICES ASSUME LockInv, [Next]_vars
               PROVE  LockInv'
    OBVIOUS
  <2>1. CASE UNCHANGED vars
    BY <2>1 DEF vars, LockInv, Shaped, InUse, LockDiscipline
  <2> QED
    BY <2>1, ModuleKeepsLock, FilesKeepLock, SysCallKeepsLock, LockKeepsLock,
       InterruptedKeepsLock, BodyKeepsLock DEF Next
<1>2. LockInv => LockDiscipline
  BY DEF LockInv
<1> QED
  BY InitLockInv, <1>1, <1>2, PTL DEF Spec

-----------------------------------------------------------------------------
(* Memory.                                                                 *)

\* What the locals of a call hold at each label: tmp_buf from kmalloc to the
\* hand-over or the kfree that follows the unlock, combined_buf only between
\* krealloc and the store.
Locals(l, c) ==
  /\ c.op \in {"none", "read", "write", "seek"} /\ c.data \in Seq(Nat)
  /\ {c.tmp_buf, c.combined_buf} \subseteq Ptr \cup {NULL}
  /\ l # "w_store" => c.combined_buf = NULL
  /\ c.op # "write" \/ l \notin {"w_lock", "w_body", "unlock", "w_free"} => c.tmp_buf = NULL
  /\ l \in {"w_lock", "w_body", "w_store"} =>
       /\ c.op = "write" /\ c.data \in Data \ {<< >>}
       /\ IF l = "w_store" THEN c.combined_buf # NULL ELSE c.tmp_buf # NULL
  /\ l \in {"w_body", "w_store"} => c.has_newline = HasNewline(c.data)
  /\ l = "w_free" => c.op = "write"
  /\ l \in {"r_lock", "r_loop"} => c.op = "read"
  /\ l \in {"s_lock", "s_body"} => c.op = "seek"

Storing == \E p \in Proc : pc[p] = "w_store"

\* partial_write as an owner: not while a writer is about to replace it.
PartialPtr == IF Storing THEN NULL ELSE partial_write

\* The device, the heap and the locals are well typed.
MemTyped ==
  /\ mod \in {"out", "region", "live"}
  /\ buffer \in Buffer /\ partial_write \in Ptr \cup {NULL} /\ partial_size \in Nat
  /\ heap \in [Ptr -> Seq(Nat)] /\ \A b \in Ptr : Len(heap[b]) <= MaxAlloc
  /\ \A p \in Proc : Locals(pc[p], call[p])

\* No pointer that owns a block dangles.
NoDangling ==
  /\ \A i \in Slot : LET e == buffer.entry[i]
                     IN  e.buffptr # NULL => /\ heap[e.buffptr] # << >>
                                             /\ e.size = Len(heap[e.buffptr])
  /\ \A p \in Proc : call[p].tmp_buf # NULL => heap[call[p].tmp_buf] # << >>
  /\ \A p \in Proc : call[p].combined_buf # NULL => heap[call[p].combined_buf] # << >>
  /\ PartialPtr # NULL => heap[PartialPtr] # << >>

\* No two pointers own the same block.
NoSharing ==
  /\ \A i, j \in Slot : buffer.entry[i].buffptr = buffer.entry[j].buffptr =>
                          i = j \/ buffer.entry[i].buffptr = NULL
  /\ \A p, q \in Proc : call[p].tmp_buf = call[q].tmp_buf => p = q \/ call[p].tmp_buf = NULL
  /\ \A i \in Slot, p \in Proc :
       /\ buffer.entry[i].buffptr = call[p].tmp_buf => call[p].tmp_buf = NULL
       /\ buffer.entry[i].buffptr = call[p].combined_buf => call[p].combined_buf = NULL
  /\ \A p, q \in Proc : call[p].tmp_buf = call[q].combined_buf => call[p].tmp_buf = NULL
  /\ \A i \in Slot : buffer.entry[i].buffptr = PartialPtr => PartialPtr = NULL
  /\ \A p \in Proc : call[p].tmp_buf = PartialPtr => PartialPtr = NULL

\* The blocks hold what their owners think they hold.
Holds ==
  /\ \A p \in Proc : pc[p] \in {"w_lock", "w_body"} => heap[call[p].tmp_buf] = call[p].data
  /\ \A p \in Proc : pc[p] = "w_store" =>
       \E old \in Seq(Nat) : /\ Len(old) = partial_size
                             /\ heap[call[p].combined_buf] = old \o call[p].data
  /\ mod = "live" /\ PartialPtr # NULL => partial_size = Len(heap[PartialPtr])
  /\ mod = "live" /\ partial_write = NULL => partial_size = 0

\* The ring: well shaped, every stored entry has its block, and without the
\* driver nothing has one.
RingHolds ==
  /\ RingShape(buffer)
  /\ mod = "live" => \A i \in Slot : buffer.full \/ i < buffer.in_offs => buffer.entry[i].buffptr # NULL
  /\ mod # "live" => partial_write = NULL /\ \A i \in Slot : buffer.entry[i].buffptr = NULL

MemInv == MemTyped /\ NoDangling /\ NoSharing /\ Holds /\ RingHolds

\* Who holds the lock is alone with the device, which is set up.
LEMMA HolderIsAlone ==
  ASSUME LockInv, NEW p \in Proc, pc[p] \in Critical
  PROVE  /\ mod = "live"
         /\ \A q \in Proc : q # p => pc[q] \notin Critical
<1>1. mod = "live"
  BY DEF LockInv, InUse, Critical
<1> QED
  BY <1>1 DEF LockInv, LockDiscipline

-----------------------------------------------------------------------------
(* What a step does besides keeping the invariant.                         *)

\* A pointer of the driver owns block b.
Owned(b) ==
  \/ \E i \in Slot : buffer.entry[i].buffptr = b
  \/ \E p \in Proc : call[p].tmp_buf = b \/ call[p].combined_buf = b
  \/ PartialPtr = b

\* No block is lost: an allocated block that nobody owns was lost before.
NoLoss ==
  \A b \in Ptr : heap'[b] # << >> /\ ~Owned(b)' => heap[b] # << >> /\ ~Owned(b)

\* The only block that may be lost is that of the oldest entry of a full ring.
LossByOverwrite ==
  \A b \in Ptr :
    heap'[b] # << >> /\ ~Owned(b)' =>
      \/ heap[b] # << >> /\ ~Owned(b)
      \/ buffer.full /\ b = buffer.entry[buffer.in_offs].buffptr /\ buffer' # buffer

\* The log of commands stays as it is.
LogSame == Commands' = Commands /\ Pending' = Pending

\* The log stays as it is, or the write of d takes effect.
LogStep(d) == LogSame \/ (d \in Data \ {<< >>} /\ Log!Commit(d))

\* The commands of the log are the blocks of the ring, from the oldest on.
LEMMA CommandsAre ==
  ASSUME MemInv
  PROVE  /\ mod # "live" => Commands = << >>
         /\ mod = "live" =>
              /\ Commands = [i \in 1..Count(buffer) |-> heap[Contents(buffer)[i].buffptr]]
              /\ \A i \in 1..Count(buffer) :
                   \E k \in Slot : /\ Contents(buffer)[i] = buffer.entry[k]
                                   /\ buffer.entry[k].buffptr # NULL
<1>1. mod # "live" => Commands = << >>
  BY DEF Commands
<1>2. ASSUME mod = "live"
      PROVE  Commands = [i \in 1..Count(buffer) |-> heap[Contents(buffer)[i].buffptr]]
  <2>1. DOMAIN Contents(buffer) = 1..Count(buffer)
    BY DEF Contents
  <2> QED
    BY <1>2, <2>1 DEF Commands
<1>3. ASSUME mod = "live", NEW i \in 1..Count(buffer)
      PROVE  \E k \in Slot : /\ Contents(buffer)[i] = buffer.entry[k]
                             /\ buffer.entry[k].buffptr # NULL
  <2>1. buffer \in Buffer /\ RingShape(buffer)
    BY DEF MemInv, MemTyped, RingHolds
  <2>2. /\ buffer.out_offs \in 0..(MaxOps - 1) /\ buffer.in_offs \in 0..(MaxOps - 1)
        /\ MaxOps \in Nat
    BY <2>1, MaxOpsAssumption DEF Buffer, Slot
  <2>3. /\ Count(buffer) = IF buffer.full THEN MaxOps ELSE buffer.in_offs
        /\ i \in 1..MaxOps
    BY <2>1, CountValue, ContentsAt
  <2> DEFINE k == IF buffer.out_offs + i - 1 < MaxOps THEN buffer.out_offs + i - 1
                  ELSE buffer.out_offs + i - 1 - MaxOps
  <2>4. Contents(buffer)[i] = buffer.entry[k]
    BY <2>1, ContentsAt
  <2>5. k \in Slot /\ (buffer.full \/ k < buffer.in_offs)
    <3>1. CASE buffer.full
      BY <2>2, <2>3, <3>1 DEF Slot
    <3>2. CASE ~buffer.full
      <4>1. buffer.out_offs = 0 /\ i \in 1..buffer.in_offs
        BY <2>1, <2>3, <3>2 DEF RingShape
      <4> QED
        BY <2>2, <4>1 DEF Slot
    <3> QED
      BY <3>1, <3>2
  <2> HIDE DEF k
  <2> QED
    BY <1>3, <2>4, <2>5 DEF MemInv, RingHolds
<1> QED
  BY <1>1, <1>2, <1>3

\* The first part of a concatenation.
LEMMA PrefixOfConcat ==
  ASSUME NEW a \in Seq(Nat), NEW b \in Seq(Nat), NEW n, n = Len(a)
  PROVE  SubSeq(a \o b, 1, n) = a
<1>1. /\ a \o b \in Seq(Nat) /\ Len(a \o b) = Len(a) + Len(b)
      /\ \A i \in 1..Len(a) : (a \o b)[i] = a[i]
  BY ConcatProperties, LenProperties
<1>2. n \in Nat /\ n <= Len(a \o b)
  BY <1>1, LenProperties
<1>3. /\ SubSeq(a \o b, 1, n) \in Seq(Nat) /\ Len(SubSeq(a \o b, 1, n)) = n
      /\ \A i \in 1..n : SubSeq(a \o b, 1, n)[i] = (a \o b)[i]
  BY <1>1, <1>2
<1> QED
  BY <1>1, <1>3, SeqEqual

\* A step that touches neither the ring nor the blocks in it.
LEMMA CommandsStay ==
  ASSUME MemInv, mod' = mod, buffer' = buffer,
         \A i \in Slot : buffer.entry[i].buffptr # NULL =>
           heap'[buffer.entry[i].buffptr] = heap[buffer.entry[i].buffptr]
  PROVE  Commands' = Commands
<1>1. CASE mod # "live"
  BY <1>1 DEF Commands
<1>2. CASE mod = "live"
  <2>1. Commands' = [i \in 1..Count(buffer) |-> heap'[Contents(buffer)[i].buffptr]]
    <3>1. DOMAIN Contents(buffer) = 1..Count(buffer)
      BY DEF Contents
    <3>2. Contents(buffer)' = Contents(buffer)
      BY DEF Contents, Count, SlotAt
    <3> QED
      BY <1>2, <3>1, <3>2 DEF Commands
  <2>2. \A i \in 1..Count(buffer) :
          heap'[Contents(buffer)[i].buffptr] = heap[Contents(buffer)[i].buffptr]
    BY <1>2, CommandsAre
  <2> QED
    BY <1>2, <2>1, <2>2, CommandsAre
<1> QED
  BY <1>1, <1>2

\* A step that touches neither the ring nor the pending command.
LEMMA LogStays ==
  ASSUME LockInv, MemInv, mod' = mod, buffer' = buffer, partial_write' = partial_write,
         partial_size' = partial_size,
         \A i \in Slot : buffer.entry[i].buffptr # NULL =>
           heap'[buffer.entry[i].buffptr] = heap[buffer.entry[i].buffptr],
         PartialPtr # NULL => heap'[PartialPtr] = heap[PartialPtr],
         \A q \in Proc : pc'[q] = "w_store" <=> pc[q] = "w_store",
         \A q \in Proc : pc[q] = "w_store" =>
           /\ call'[q].combined_buf = call[q].combined_buf
           /\ heap'[call[q].combined_buf] = heap[call[q].combined_buf]
  PROVE  LogSame
<1>1. Commands' = Commands
  BY CommandsStay
<1>2. CASE mod # "live" \/ partial_size = 0
  BY <1>1, <1>2 DEF LogSame, Pending
<1>3. CASE mod = "live" /\ partial_size # 0 /\ ~Storing
  <2>1. PartialPtr = partial_write /\ partial_write # NULL
    BY <1>3 DEF PartialPtr, MemInv, Holds
  <2>2. {q \in Proc : pc[q] = "w_store"} = {} /\ {q \in Proc : pc'[q] = "w_store"} = {}
    BY <1>3 DEF Storing
  <2>3. Pending = heap[partial_write] /\ Pending' = heap'[partial_write]
    BY <1>3, <2>2 DEF Pending
  <2> QED
    BY <1>1, <2>1, <2>3 DEF LogSame
<1>4. CASE mod = "live" /\ partial_size # 0 /\ Storing
  <2>1. PICK q \in Proc : pc[q] = "w_store"
    BY <1>4 DEF Storing
  <2>2. \A r \in Proc : pc[r] = "w_store" => r = q
    BY <2>1, HolderIsAlone DEF Critical
  <2>3. {r \in Proc : pc[r] = "w_store"} = {q} /\ {r \in Proc : pc'[r] = "w_store"} = {q}
    BY <2>1, <2>2
  <2>4. (CHOOSE r \in {q} : TRUE) = q
    OBVIOUS
  <2>5. /\ Pending = SubSeq(heap[call[q].combined_buf], 1, partial_size)
        /\ Pending' = SubSeq(heap'[call'[q].combined_buf], 1, partial_size')
    BY <1>4, <2>3, <2>4 DEF Pending
  <2> QED
    BY <1>1, <2>1, <2>5 DEF LogSame
<1> QED
  BY <1>2, <1>3, <1>4

LEMMA InitMemInv == Init => MemInv
<1> SUFFICES ASSUME Init
             PROVE  MemInv
  OBVIOUS
<1>1. buffer \in Buffer /\ RingShape(buffer)
  BY EmptyBufferShape DEF Init
<1>2. \A i \in Slot : buffer.entry[i].buffptr = NULL
  BY DEF Init, EmptyBuffer, NoEntry
<1>3. \A p \in Proc : pc[p] = "idle" /\ call[p] = NoCall
  BY DEF Init
<1>4. /\ NoCall.op = "none" /\ NoCall.data = << >> /\ NoCall.tmp_buf = NULL
      /\ NoCall.combined_buf = NULL
  BY DEF NoCall
<1>5. partial_write = NULL /\ partial_size = 0 /\ mod = "out" /\ heap = [b \in Ptr |-> << >>]
  BY DEF Init
<1>6. MemTyped
  <2>1. Locals("idle", NoCall)
    BY <1>4 DEF Locals
  <2>2. \A p \in Proc : Locals(pc[p], call[p])
    BY <1>3, <2>1
  <2>3. heap \in [Ptr -> Seq(Nat)] /\ \A b \in Ptr : Len(heap[b]) <= MaxAlloc
    BY <1>5, AesdCharAssumption
  <2> QED
    BY <1>1, <1>5, <2>2, <2>3 DEF MemTyped
<1>7. PartialPtr = NULL
  BY <1>5 DEF PartialPtr
<1> QED
  BY <1>1, <1>2, <1>3, <1>4, <1>5, <1>6, <1>7
  DEF MemInv, NoDangling, NoSharing, Holds, RingHolds

\* A step of p that changes only its locals, and none that points to a block.
LEMMA LocalStepKeepsMem ==
  ASSUME LockInv, MemInv, NEW p \in Proc, NEW label \in Label, NEW c,
         label # "w_store", pc[p] # "w_store", Locals(label, c),
         c.tmp_buf = call[p].tmp_buf,
         label \in {"w_lock", "w_body"} => pc[p] \in {"w_lock", "w_body"} /\ c.data = call[p].data,
         Goto(p, label, c), UNCHANGED <<mod, device, heap>>
  PROVE  MemInv' /\ NoLoss /\ LogSame
<1>1. /\ pc' = [q \in Proc |-> IF q = p THEN label ELSE pc[q]]
      /\ call' = [q \in Proc |-> IF q = p THEN c ELSE call[q]]
  BY DEF LockInv, Shaped, Goto
<1>2. /\ mod' = mod /\ buffer' = buffer /\ partial_write' = partial_write
      /\ partial_size' = partial_size /\ heap' = heap
  BY DEF device
<1>3. MemTyped'
  BY <1>1, <1>2 DEF MemInv, MemTyped
<1>4. PartialPtr' = PartialPtr
  BY <1>1, <1>2 DEF PartialPtr, Storing
<1>5. /\ \A q \in Proc : call'[q].tmp_buf = call[q].tmp_buf
      /\ \A q \in Proc : call'[q].combined_buf = call[q].combined_buf
  BY <1>1 DEF MemInv, MemTyped, Locals
<1>6. NoDangling'
  BY <1>2, <1>4, <1>5 DEF MemInv, NoDangling
<1>7. NoSharing'
  BY <1>2, <1>4, <1>5 DEF MemInv, NoSharing
<1>8. Holds'
  BY <1>1, <1>2, <1>4, <1>5 DEF MemInv, Holds
<1>9. RingHolds'
  BY <1>2 DEF MemInv, RingHolds
<1>10. NoLoss
  BY <1>2, <1>4, <1>5 DEF NoLoss, Owned
<1>11. LogSame
  <2>1. \A q \in Proc : pc'[q] = "w_store" <=> pc[q] = "w_store"
    BY <1>1
  <2> QED
    BY <1>2, <1>5, <2>1, LogStays
<1> QED
  BY <1>3, <1>6, <1>7, <1>8, <1>9, <1>10, <1>11 DEF MemInv

\* kfree leaves every other block alone.
LEMMA KfreeBlocks ==
  ASSUME NEW h \in [Ptr -> Seq(Nat)], \A b \in Ptr : Len(h[b]) <= MaxAlloc,
         NEW t \in Ptr \cup {NULL}
  PROVE  /\ Kfree(h, t) \in [Ptr -> Seq(Nat)]
         /\ \A b \in Ptr : Len(Kfree(h, t)[b]) <= MaxAlloc
         /\ \A b \in Ptr : b # t => Kfree(h, t)[b] = h[b]
         /\ t # NULL => Kfree(h, t)[t] = << >>
<1>1. << >> \in Seq(Nat) /\ Len(<< >>) <= MaxAlloc
  BY AesdCharAssumption
<1>2. CASE t = NULL
  BY <1>2 DEF Kfree
<1>3. CASE t # NULL
  <2>1. Kfree(h, t) = [b \in Ptr |-> IF b = t THEN << >> ELSE h[b]]
    BY <1>3 DEF Kfree
  <2> QED
    BY <1>1, <1>3, <2>1
<1> QED
  BY <1>2, <1>3

\* kfree(tmp_buf) after which the pointer is not used: the owner was the only
\* one, so nobody else's block goes.
LEMMA FreeKeepsMem ==
  ASSUME LockInv, MemInv, NEW p \in Proc, NEW label \in Label, NEW c,
         label \notin {"w_store", "w_lock", "w_body"}, pc[p] # "w_store",
         Locals(label, c), c.tmp_buf = NULL,
         heap' = Kfree(heap, call[p].tmp_buf),
         Goto(p, label, c), UNCHANGED <<mod, device>>
  PROVE  MemInv' /\ NoLoss /\ LogSame
<1>1. /\ pc' = [q \in Proc |-> IF q = p THEN label ELSE pc[q]]
      /\ call' = [q \in Proc |-> IF q = p THEN c ELSE call[q]]
  BY DEF LockInv, Shaped, Goto
<1>2. /\ mod' = mod /\ buffer' = buffer /\ partial_write' = partial_write
      /\ partial_size' = partial_size
  BY DEF device
<1> DEFINE t == call[p].tmp_buf
<1>3. /\ heap' \in [Ptr -> Seq(Nat)] /\ \A b \in Ptr : Len(heap'[b]) <= MaxAlloc
      /\ \A b \in Ptr : b # t => heap'[b] = heap[b]
  <2>1. t \in Ptr \cup {NULL} /\ heap \in [Ptr -> Seq(Nat)] /\ \A b \in Ptr : Len(heap[b]) <= MaxAlloc
    BY DEF MemInv, MemTyped, Locals
  <2> QED
    BY <2>1, KfreeBlocks
<1>4. MemTyped'
  BY <1>1, <1>2, <1>3 DEF MemInv, MemTyped
<1>5. PartialPtr' = PartialPtr
  BY <1>1, <1>2 DEF PartialPtr, Storing
<1>6. /\ \A q \in Proc : call'[q].tmp_buf = IF q = p THEN NULL ELSE call[q].tmp_buf
      /\ \A q \in Proc : call'[q].combined_buf = call[q].combined_buf
  BY <1>1 DEF MemInv, MemTyped, Locals
<1>7. /\ \A i \in Slot : buffer.entry[i].buffptr \in Ptr \cup {NULL}
      /\ \A q \in Proc : {call[q].tmp_buf, call[q].combined_buf} \subseteq Ptr \cup {NULL}
      /\ PartialPtr \in Ptr \cup {NULL}
  BY DEF MemInv, MemTyped, Buffer, Entry, Locals, PartialPtr
<1>8. /\ \A i \in Slot : buffer.entry[i].buffptr # NULL =>
           heap'[buffer.entry[i].buffptr] = heap[buffer.entry[i].buffptr]
      /\ \A q \in Proc : q # p /\ call[q].tmp_buf # NULL =>
           heap'[call[q].tmp_buf] = heap[call[q].tmp_buf]
      /\ \A q \in Proc : call[q].combined_buf # NULL =>
           heap'[call[q].combined_buf] = heap[call[q].combined_buf]
      /\ PartialPtr # NULL => heap'[PartialPtr] = heap[PartialPtr]
  <2>1. \A i \in Slot : buffer.entry[i].buffptr # NULL =>
          heap'[buffer.entry[i].buffptr] = heap[buffer.entry[i].buffptr]
    BY <1>3, <1>7 DEF MemInv, NoSharing
  <2>2. \A q \in Proc : q # p /\ call[q].tmp_buf # NULL =>
          heap'[call[q].tmp_buf] = heap[call[q].tmp_buf]
    BY <1>3, <1>7 DEF MemInv, NoSharing
  <2>3. \A q \in Proc : call[q].combined_buf # NULL =>
          heap'[call[q].combined_buf] = heap[call[q].combined_buf]
    BY <1>3, <1>7 DEF MemInv, NoSharing
  <2>4. PartialPtr # NULL => heap'[PartialPtr] = heap[PartialPtr]
    BY <1>3, <1>7 DEF MemInv, NoSharing
  <2> QED
    BY <2>1, <2>2, <2>3, <2>4
<1>14. NoDangling'
  BY <1>2, <1>5, <1>6, <1>8 DEF MemInv, NoDangling
<1>9. NoSharing'
  BY <1>2, <1>5, <1>6 DEF MemInv, NoSharing
<1>10. Holds'
  <2>1. ASSUME NEW q \in Proc, pc'[q] \in {"w_lock", "w_body"}
        PROVE  heap'[call'[q].tmp_buf] = call'[q].data
    <3>1. q # p /\ call'[q] = call[q] /\ pc'[q] = pc[q]
      BY <1>1, <2>1
    <3>2. call[q].tmp_buf # NULL /\ call[q].tmp_buf # t
      BY <2>1, <3>1 DEF MemInv, MemTyped, Locals, NoSharing
    <3> QED
      BY <1>3, <1>7, <2>1, <3>1, <3>2 DEF MemInv, Holds
  <2>2. ASSUME NEW q \in Proc, pc'[q] = "w_store"
        PROVE  \E old \in Seq(Nat) : /\ Len(old) = partial_size'
                                     /\ heap'[call'[q].combined_buf] = old \o call'[q].data
    <3>1. q # p /\ call'[q] = call[q] /\ pc'[q] = pc[q]
      BY <1>1, <2>2
    <3>2. call[q].combined_buf # NULL /\ call[q].combined_buf # t
      BY <2>2, <3>1 DEF MemInv, MemTyped, Locals, NoSharing
    <3>3. heap'[call[q].combined_buf] = heap[call[q].combined_buf]
      BY <1>3, <1>7, <3>2
    <3>4. \E old \in Seq(Nat) : /\ Len(old) = partial_size
                                /\ heap[call[q].combined_buf] = old \o call[q].data
      BY <2>2, <3>1 DEF MemInv, Holds
    <3> QED
      BY <1>2, <3>1, <3>3, <3>4
  <2>3. mod' = "live" /\ PartialPtr' # NULL => partial_size' = Len(heap'[PartialPtr'])
    BY <1>2, <1>3, <1>5, <1>7 DEF MemInv, Holds, NoSharing
  <2> QED
    BY <1>2, <2>1, <2>2, <2>3 DEF MemInv, Holds
<1>11. RingHolds'
  BY <1>2 DEF MemInv, RingHolds
<1>12. NoLoss
  <2>1. t # NULL => heap'[t] = << >>
    <3>1. t \in Ptr \cup {NULL} /\ heap \in [Ptr -> Seq(Nat)]
      BY DEF MemInv, MemTyped, Locals
    <3> QED
      BY <3>1 DEF Kfree
  <2>2. \A b \in Ptr : b # NULL
    BY PtrAssumption DEF NULL
  <2> QED
    BY <1>2, <1>3, <1>5, <1>6, <2>1, <2>2 DEF NoLoss, Owned
<1>13. LogSame
  <2>1. \A q \in Proc : pc'[q] = "w_store" <=> pc[q] = "w_store"
    BY <1>1
  <2>2. \A q \in Proc : pc[q] = "w_store" => call[q].combined_buf # NULL
    BY DEF MemInv, MemTyped, Locals
  <2> QED
    BY <1>2, <1>6, <1>8, <2>1, <2>2, LogStays
<1> QED
  BY <1>4, <1>9, <1>10, <1>11, <1>12, <1>13, <1>14 DEF MemInv

\* While no file is open no call is under way, and no local owns a block.
LEMMA NobodyInside ==
  ASSUME LockInv, MemInv, opened = {}
  PROVE  /\ \A p \in Proc : pc[p] = "idle"
         /\ \A p \in Proc : call[p].tmp_buf = NULL /\ call[p].combined_buf = NULL
         /\ PartialPtr = partial_write
<1>1. \A p \in Proc : pc[p] = "idle"
  BY DEF LockInv, InUse
<1>2. \A p \in Proc : call[p].tmp_buf = NULL /\ call[p].combined_buf = NULL
  BY <1>1 DEF MemInv, MemTyped, Locals
<1> QED
  BY <1>1, <1>2 DEF PartialPtr, Storing

\* aesd_init_module overwrites a device that owns nothing;
\* aesd_cleanup_module frees every block the device owns.
LEMMA ModuleKeepsMem ==
  LockInv /\ MemInv /\ Module => MemInv' /\ NoLoss /\ (LogSame \/ Log!Reset)
<1> SUFFICES ASSUME LockInv, MemInv, Module
             PROVE  MemInv' /\ NoLoss /\ (LogSame \/ Log!Reset)
  OBVIOUS
<1>0. UNCHANGED <<pc, call>>
  BY DEF Module, AllocRegion, SetupCdev, SetupCdevFails, Cleanup
<1>1. CASE AllocRegion
  <2>1. UNCHANGED <<buffer, partial_write, partial_size, heap>> /\ mod # "live" /\ mod' = "region"
    BY <1>1 DEF AllocRegion, device
  <2>2. PartialPtr' = PartialPtr
    BY <1>0, <2>1 DEF PartialPtr, Storing
  <2>3. MemTyped' /\ NoDangling' /\ NoSharing'
    BY <1>0, <2>1, <2>2 DEF MemInv, MemTyped, NoDangling, NoSharing
  <2>4. Holds' /\ RingHolds'
    BY <1>0, <2>1, <2>2 DEF MemInv, Holds, RingHolds
  <2>5. NoLoss
    BY <1>0, <2>1, <2>2 DEF NoLoss, Owned
  <2>6. LogSame
    BY <2>1 DEF LogSame, Commands, Pending
  <2> QED
    BY <2>3, <2>4, <2>5, <2>6 DEF MemInv
<1>2. CASE SetupCdev \/ SetupCdevFails
  <2>1. /\ buffer' = EmptyBuffer /\ partial_write' = NULL /\ partial_size' = 0
        /\ heap' = heap /\ mod' \in {"out", "region", "live"} /\ mod # "live"
    BY <1>2 DEF SetupCdev, SetupCdevFails
  <2>2. /\ \A p \in Proc : pc'[p] = "idle"
        /\ \A p \in Proc : call'[p].tmp_buf = NULL /\ call'[p].combined_buf = NULL
    BY <1>0, <2>1, NobodyInside DEF LockInv, InUse
  <2>3. PartialPtr' = NULL
    BY <2>1 DEF PartialPtr
  <2>4. buffer' \in Buffer /\ RingShape(buffer') /\ \A i \in Slot : buffer'.entry[i].buffptr = NULL
    BY <2>1, EmptyBufferShape DEF EmptyBuffer, NoEntry
  <2>5. ~buffer'.full /\ buffer'.in_offs = 0
    BY <2>1 DEF EmptyBuffer
  <2>6. MemTyped'
    BY <1>0, <2>1, <2>4 DEF MemInv, MemTyped
  <2>7. NoDangling' /\ NoSharing'
    BY <2>2, <2>3, <2>4 DEF NoDangling, NoSharing
  <2>8. Holds' /\ RingHolds'
    BY <2>1, <2>2, <2>3, <2>4, <2>5, MaxOpsAssumption DEF Holds, RingHolds, Slot
  <2>9. NoLoss
    <3>1. \A b \in Ptr : ~Owned(b)
      <4>1. partial_write = NULL /\ \A i \in Slot : buffer.entry[i].buffptr = NULL
        BY <2>1 DEF MemInv, RingHolds
      <4>2. /\ \A p \in Proc : call[p].tmp_buf = NULL /\ call[p].combined_buf = NULL
            /\ PartialPtr = NULL
        BY <2>1, <4>1, NobodyInside DEF LockInv, InUse
      <4> QED
        BY <4>1, <4>2, PtrAssumption DEF Owned, NULL
    <3> QED
      BY <2>1, <3>1 DEF NoLoss
  <2>10. LogSame
    <3>1. Commands = << >> /\ Pending = << >> /\ Pending' = << >>
      BY <2>1 DEF Commands, Pending
    <3>2. Commands' = << >>
      <4>1. Contents(buffer)' = << >>
        BY <2>1, EmptyBufferShape
      <4>2. DOMAIN << >> = {}
        OBVIOUS
      <4>3. CASE mod' # "live"
        BY <4>3 DEF Commands
      <4>4. CASE mod' = "live"
        <5>1. Commands' = [i \in {} |-> heap'[Contents(buffer)'[i].buffptr]]
          BY <4>1, <4>2, <4>4 DEF Commands
        <5> QED
          BY <5>1
      <4> QED
        BY <4>3, <4>4
    <3> QED
      BY <3>1, <3>2 DEF LogSame
  <2> QED
    BY <2>6, <2>7, <2>8, <2>9, <2>10 DEF MemInv
<1>3. CASE Cleanup
  <2>1. opened = {} /\ mod' = "out" /\ partial_write' = NULL /\ partial_size' = partial_size
    BY <1>3 DEF Cleanup
  <2>2. /\ \A p \in Proc : pc'[p] = "idle"
        /\ \A p \in Proc : call'[p].tmp_buf = NULL /\ call'[p].combined_buf = NULL
    BY <1>0, <2>1, NobodyInside
  <2>3. PartialPtr' = NULL
    BY <2>1 DEF PartialPtr
  <2>4. /\ heap' \in [Ptr -> Seq(Nat)] /\ \A b \in Ptr : Len(heap'[b]) <= MaxAlloc
    <3>1. << >> \in Seq(Nat) /\ Len(<< >>) <= MaxAlloc
      BY AesdCharAssumption
    <3>2. DOMAIN heap' = Ptr /\ \A b \in Ptr : heap'[b] = << >> \/ heap'[b] = heap[b]
      BY <1>3 DEF Cleanup
    <3>3. heap' = [b \in Ptr |-> heap'[b]]
      BY <1>3 DEF Cleanup
    <3> QED
      BY <3>1, <3>2, <3>3 DEF MemInv, MemTyped
  <2>5. /\ buffer' \in Buffer /\ buffer'.full = buffer.full
        /\ buffer'.in_offs = buffer.in_offs /\ buffer'.out_offs = buffer.out_offs
        /\ \A i \in Slot : buffer'.entry[i] = [buffer.entry[i] EXCEPT !.buffptr = NULL]
    BY <1>3 DEF Cleanup, MemInv, MemTyped, Buffer, Entry
  <2>6. \A i \in Slot : /\ buffer'.entry[i].buffptr = NULL
                        /\ buffer.entry[i] = NoEntry => buffer'.entry[i] = NoEntry
    <3>1. \A e \in Entry : [e EXCEPT !.buffptr = NULL].buffptr = NULL
      BY DEF Entry
    <3>2. [NoEntry EXCEPT !.buffptr = NULL] = NoEntry
      BY DEF NoEntry
    <3>3. \A i \in Slot : buffer.entry[i] \in Entry
      BY DEF MemInv, MemTyped, Buffer
    <3> QED
      BY <2>5, <3>1, <3>2, <3>3
  <2>7. RingShape(buffer')
    BY <2>5, <2>6 DEF MemInv, RingHolds, RingShape
  <2>8. MemTyped'
    BY <1>0, <2>1, <2>4, <2>5 DEF MemInv, MemTyped
  <2>9. NoDangling' /\ NoSharing'
    BY <2>2, <2>3, <2>6 DEF NoDangling, NoSharing
  <2>10. Holds' /\ RingHolds'
    BY <2>1, <2>2, <2>3, <2>6, <2>7 DEF Holds, RingHolds
  <2>11. NoLoss
    <3>1. \A b \in Ptr : Owned(b) => heap'[b] = << >>
      <4>1. /\ \A p \in Proc : call[p].tmp_buf = NULL /\ call[p].combined_buf = NULL
            /\ PartialPtr = partial_write
        BY <2>1, NobodyInside
      <4>2. \A b \in Ptr : b # NULL
        BY PtrAssumption DEF NULL
      <4> QED
        BY <1>3, <4>1, <4>2 DEF Owned, Cleanup
    <3>2. \A b \in Ptr : heap'[b] = << >> \/ heap'[b] = heap[b]
      BY <1>3 DEF Cleanup
    <3> QED
      BY <3>1, <3>2 DEF NoLoss
  <2>12. Log!Reset
    BY <2>1 DEF Log!Reset, Commands, Pending
  <2> QED
    BY <2>8, <2>9, <2>10, <2>11, <2>12 DEF MemInv
<1> QED
  BY <1>1, <1>2, <1>3 DEF Module

\* aesd_open and aesd_release touch neither the device nor the heap.
LEMMA FilesKeepMem == MemInv /\ Files => MemInv' /\ NoLoss /\ LogSame
<1> SUFFICES ASSUME MemInv, Files
             PROVE  MemInv' /\ NoLoss /\ LogSame
  OBVIOUS
<1>1. UNCHANGED <<mod, buffer, partial_write, partial_size, heap, pc, call>>
  BY DEF Files, Open, Release, device
<1>2. MemInv'
  BY <1>1 DEF MemInv, MemTyped, NoDangling, NoSharing, Holds, RingHolds, PartialPtr, Storing
<1>3. NoLoss
  BY <1>1 DEF NoLoss, Owned, PartialPtr, Storing
<1>4. LogSame
  BY <1>1 DEF LogSame, Commands, Pending, Contents, Count, SlotAt
<1> QED
  BY <1>2, <1>3, <1>4

\* kmalloc gives a block that nobody owns.
LEMMA FreshIsNobodys ==
  ASSUME MemInv, NEW b \in Fresh
  PROVE  /\ b \in Ptr /\ b # NULL /\ heap[b] = << >>
         /\ \A i \in Slot : buffer.entry[i].buffptr # b
         /\ \A p \in Proc : call[p].tmp_buf # b /\ call[p].combined_buf # b
         /\ PartialPtr # b
<1>1. b \in Ptr /\ b # NULL /\ heap[b] = << >>
  BY PtrAssumption DEF Fresh, Allocated, NULL
<1> QED
  BY <1>1 DEF MemInv, NoDangling

\* Entering a system call.
LEMMA SysCallKeepsMem ==
  ASSUME LockInv, MemInv, NEW p \in Proc, SysCall(p)
  PROVE  MemInv' /\ NoLoss /\ LogSame
<1>0. PICK f \in File : \/ \E n \in ReadCounts : SysRead(p, f, n)
                        \/ \E d \in Data : SysWrite(p, f, d)
                        \/ \E s \in Seeks : SysSeek(p, f, s)
  BY SMTT(30) DEF SysCall
<1>1. pc[p] = "idle" /\ UNCHANGED <<mod, device>>
  BY <1>0 DEF SysRead, SysWrite, SysSeek
<1>2. call[p].tmp_buf = NULL /\ call[p].combined_buf = NULL
  BY <1>1 DEF MemInv, MemTyped, Locals
<1>3. ASSUME NEW c, NEW label \in {"ret", "r_lock", "s_lock"}, Goto(p, label, c), heap' = heap,
             Locals(label, c)
      PROVE  MemInv' /\ NoLoss /\ LogSame
  <2>1. c.tmp_buf = NULL
    BY <1>3 DEF Locals
  <2> QED
    BY <1>1, <1>2, <1>3, <2>1, LocalStepKeepsMem
<1>4. ASSUME NEW n \in ReadCounts, SysRead(p, f, n)
      PROVE  MemInv' /\ NoLoss /\ LogSame
  <2> DEFINE c == [NoCall EXCEPT !.op = "read", !.file = f, !.count = n, !.pos = f_pos[f]]
  <2>1. Locals("r_lock", c) /\ Locals("ret", [c EXCEPT !.retval = -EINVAL])
    BY DEF Locals, NoCall
  <2>2. Goto(p, "ret", [c EXCEPT !.retval = -EINVAL]) \/ Goto(p, "r_lock", c)
    BY <1>4 DEF SysRead, Fail
  <2>3. heap' = heap
    BY <1>4 DEF SysRead
  <2> HIDE DEF c
  <2> QED
    BY <1>3, <2>1, <2>2, <2>3
<1>5. ASSUME NEW s \in Seeks, SysSeek(p, f, s)
      PROVE  MemInv' /\ NoLoss /\ LogSame
  <2> DEFINE c == [NoCall EXCEPT !.op = "seek", !.file = f, !.seek = s]
  <2>1. Locals("s_lock", c) /\ \A e : Locals("ret", [c EXCEPT !.retval = -e])
    BY DEF Locals, NoCall
  <2>2. \/ \E e \in {ENOTTY, EFAULT} : Goto(p, "ret", [c EXCEPT !.retval = -e])
        \/ Goto(p, "s_lock", c)
    BY <1>5 DEF SysSeek, Fail
  <2>3. heap' = heap
    BY <1>5 DEF SysSeek
  <2> HIDE DEF c
  <2> QED
    BY <1>3, <2>1, <2>2, <2>3
<1>6. ASSUME NEW d \in Data, SysWrite(p, f, d)
      PROVE  MemInv' /\ NoLoss /\ LogSame
  <2> DEFINE c == [NoCall EXCEPT !.op = "write", !.file = f, !.data = d, !.pos = f_pos[f]]
  <2>0. d \in Seq(Nat)
    BY AesdCharAssumption
  <2>1. /\ \A e : Locals("ret", [c EXCEPT !.retval = -e])
        /\ \A b \in Ptr : /\ [c EXCEPT !.tmp_buf = b].tmp_buf = b
                          /\ [c EXCEPT !.tmp_buf = b].combined_buf = NULL
                          /\ [c EXCEPT !.tmp_buf = b].data = d
                          /\ d # << >> => Locals("w_lock", [c EXCEPT !.tmp_buf = b])
    BY <2>0, PtrAssumption DEF Locals, NoCall, NULL
  <2>2. \/ heap' = heap /\ \E e \in {EINVAL, ENOMEM, EFAULT} : Goto(p, "ret", [c EXCEPT !.retval = -e])
        \/ /\ d # << >> /\ Len(d) <= MaxAlloc
           /\ \E b \in Fresh : /\ heap' = [heap EXCEPT ![b] = d]
                               /\ Goto(p, "w_lock", [c EXCEPT !.tmp_buf = b])
    BY <1>6 DEF SysWrite, Fail
  <2> HIDE DEF c
  <2>3. CASE heap' = heap /\ \E e \in {EINVAL, ENOMEM, EFAULT} :
                               Goto(p, "ret", [c EXCEPT !.retval = -e])
    BY <1>3, <2>1, <2>3
  <2>4. ASSUME d # << >>, Len(d) <= MaxAlloc, NEW b \in Fresh, heap' = [heap EXCEPT ![b] = d],
               Goto(p, "w_lock", [c EXCEPT !.tmp_buf = b])
        PROVE  MemInv' /\ NoLoss /\ LogSame
    <3> DEFINE r == [c EXCEPT !.tmp_buf = b]
    <3>1. /\ b \in Ptr /\ b # NULL /\ heap[b] = << >>
          /\ \A i \in Slot : buffer.entry[i].buffptr # b
          /\ \A q \in Proc : call[q].tmp_buf # b /\ call[q].combined_buf # b
          /\ PartialPtr # b
      BY FreshIsNobodys
    <3>2. Locals("w_lock", r) /\ r.tmp_buf = b /\ r.combined_buf = NULL /\ r.data = d
      BY <2>1, <2>4, <3>1
    <3> HIDE DEF r
    <3>3. /\ pc' = [q \in Proc |-> IF q = p THEN "w_lock" ELSE pc[q]]
          /\ call' = [q \in Proc |-> IF q = p THEN r ELSE call[q]]
      BY <2>4 DEF LockInv, Shaped, Goto, r
    <3>4. /\ mod' = mod /\ buffer' = buffer /\ partial_write' = partial_write
          /\ partial_size' = partial_size
      BY <1>1 DEF device
    <3>5. heap' = [a \in Ptr |-> IF a = b THEN d ELSE heap[a]]
      BY <2>4 DEF MemInv, MemTyped
    <3>6. MemTyped'
      <4>1. heap' \in [Ptr -> Seq(Nat)] /\ \A a \in Ptr : Len(heap'[a]) <= MaxAlloc
        BY <2>0, <2>4, <3>5 DEF MemInv, MemTyped
      <4> QED
        BY <3>2, <3>3, <3>4, <4>1 DEF MemInv, MemTyped
    <3>7. PartialPtr' = PartialPtr
      BY <1>1, <3>3, <3>4 DEF PartialPtr, Storing
    <3>8. /\ \A q \in Proc : call'[q].tmp_buf = IF q = p THEN b ELSE call[q].tmp_buf
          /\ \A q \in Proc : call'[q].combined_buf = call[q].combined_buf
      BY <1>2, <3>2, <3>3
    <3>9. /\ \A i \in Slot : buffer.entry[i].buffptr \in Ptr \cup {NULL}
          /\ \A q \in Proc : {call[q].tmp_buf, call[q].combined_buf} \subseteq Ptr \cup {NULL}
          /\ PartialPtr \in Ptr \cup {NULL}
      BY DEF MemInv, MemTyped, Buffer, Entry, Locals, PartialPtr
    <3>10. \A a \in Ptr : a # b => heap'[a] = heap[a]
      BY <3>5
    <3>11. /\ \A i \in Slot : buffer.entry[i].buffptr # NULL =>
                heap'[buffer.entry[i].buffptr] = heap[buffer.entry[i].buffptr]
           /\ \A q \in Proc : call[q].tmp_buf # NULL =>
                heap'[call[q].tmp_buf] = heap[call[q].tmp_buf]
           /\ \A q \in Proc : call[q].combined_buf # NULL =>
                heap'[call[q].combined_buf] = heap[call[q].combined_buf]
           /\ PartialPtr # NULL => heap'[PartialPtr] = heap[PartialPtr]
      <4>1. \A i \in Slot : buffer.entry[i].buffptr # NULL =>
              heap'[buffer.entry[i].buffptr] = heap[buffer.entry[i].buffptr]
        BY <3>1, <3>9, <3>10
      <4>2. \A q \in Proc : call[q].tmp_buf # NULL => heap'[call[q].tmp_buf] = heap[call[q].tmp_buf]
        BY <3>1, <3>9, <3>10
      <4>3. \A q \in Proc : call[q].combined_buf # NULL =>
              heap'[call[q].combined_buf] = heap[call[q].combined_buf]
        BY <3>1, <3>9, <3>10
      <4>4. PartialPtr # NULL => heap'[PartialPtr] = heap[PartialPtr]
        BY <3>1, <3>9, <3>10
      <4> QED
        BY <4>1, <4>2, <4>3, <4>4
    <3>15. NoDangling'
      <4>1. heap'[b] # << >>
        BY <2>4, <3>1, <3>5
      <4> QED
        BY <3>4, <3>7, <3>8, <3>11, <4>1 DEF MemInv, NoDangling
    <3>12. NoSharing'
      BY <3>1, <3>4, <3>7, <3>8 DEF MemInv, NoSharing
    <3>13. Holds'
      <4>1. ASSUME NEW q \in Proc, pc'[q] \in {"w_lock", "w_body"}
            PROVE  heap'[call'[q].tmp_buf] = call'[q].data
        <5>1. CASE q = p
          BY <3>1, <3>2, <3>3, <3>5, <5>1
        <5>2. CASE q # p
          <6>1. call'[q] = call[q] /\ pc'[q] = pc[q] /\ call[q].tmp_buf # NULL
            BY <3>3, <4>1, <5>2 DEF MemInv, MemTyped, Locals
          <6> QED
            BY <3>1, <3>9, <3>10, <4>1, <6>1 DEF MemInv, Holds
        <5> QED
          BY <5>1, <5>2
      <4>2. ASSUME NEW q \in Proc, pc'[q] = "w_store"
            PROVE  \E old \in Seq(Nat) : /\ Len(old) = partial_size'
                                         /\ heap'[call'[q].combined_buf] = old \o call'[q].data
        <5>1. call'[q] = call[q] /\ pc[q] = "w_store" /\ call[q].combined_buf # NULL
          BY <3>3, <4>2 DEF MemInv, MemTyped, Locals
        <5>2. heap'[call[q].combined_buf] = heap[call[q].combined_buf]
          BY <3>1, <3>9, <3>10, <5>1
        <5>3. \E old \in Seq(Nat) : /\ Len(old) = partial_size
                                    /\ heap[call[q].combined_buf] = old \o call[q].data
          BY <5>1 DEF MemInv, Holds
        <5> QED
          BY <3>4, <5>1, <5>2, <5>3
      <4>3. mod' = "live" /\ PartialPtr' # NULL => partial_size' = Len(heap'[PartialPtr'])
        BY <3>1, <3>4, <3>7, <3>9, <3>10 DEF MemInv, Holds
      <4> QED
        BY <3>4, <4>1, <4>2, <4>3 DEF MemInv, Holds
    <3>14. RingHolds'
      BY <3>4 DEF MemInv, RingHolds
    <3>16. NoLoss
      <4>1. \A a \in Ptr : Owned(a) => Owned(a)'
        <5> TAKE a \in Ptr
        <5>1. \A q \in Proc : call[q].tmp_buf = a => call'[q].tmp_buf = a
          BY <1>2, <3>8, PtrAssumption DEF NULL
        <5> QED
          BY <3>4, <3>7, <3>8, <5>1 DEF Owned
      <4>2. Owned(b)'
        BY <3>8 DEF Owned
      <4> QED
        BY <3>10, <4>1, <4>2 DEF NoLoss
    <3>17. LogSame
      <4>1. \A q \in Proc : pc'[q] = "w_store" <=> pc[q] = "w_store"
        BY <1>1, <3>3
      <4>2. \A q \in Proc : pc[q] = "w_store" => call[q].combined_buf # NULL
        BY DEF MemInv, MemTyped, Locals
      <4> QED
        BY <3>4, <3>8, <3>11, <4>1, <4>2, LogStays
    <3> QED
      BY <3>6, <3>12, <3>13, <3>14, <3>15, <3>16, <3>17 DEF MemInv
  <2> QED
    BY <2>2, <2>3, <2>4
<1> QED
  BY <1>0, <1>4, <1>5, <1>6

\* mutex_lock: the locals stay, and a write looks for a newline in its block.
LEMMA LockKeepsMem ==
  ASSUME LockInv, MemInv, NEW p \in Proc, Lock(p)
  PROVE  MemInv' /\ NoLoss /\ LogSame
<1>1. IsCall(call[p]) /\ Locals(pc[p], call[p])
  BY DEF LockInv, Shaped, MemInv, MemTyped
<1>2. UNCHANGED <<mod, device, heap>>
  BY DEF Lock, ReadLock, WriteLock, SeekLock, Acquire
<1>3. CASE ReadLock(p) \/ SeekLock(p)
  <2>1. PICK from \in {"r_lock", "s_lock"}, to \in {"r_loop", "s_body"} :
          /\ pc[p] = from /\ Goto(p, to, call[p])
          /\ from = "r_lock" <=> to = "r_loop"
    BY <1>3 DEF ReadLock, SeekLock, Acquire
  <2>2. Locals(to, call[p])
    BY <1>1, <2>1 DEF Locals
  <2> QED
    BY <1>2, <2>1, <2>2, LocalStepKeepsMem
<1>4. CASE WriteLock(p)
  <2> DEFINE c == [call[p] EXCEPT !.has_newline = HasNewline(heap[call[p].tmp_buf])]
  <2>1. pc[p] = "w_lock" /\ Goto(p, "w_body", c)
    BY <1>4 DEF WriteLock, Acquire
  <2>2. heap[call[p].tmp_buf] = call[p].data
    BY <2>1 DEF MemInv, Holds
  <2>3. /\ c.op = call[p].op /\ c.data = call[p].data /\ c.tmp_buf = call[p].tmp_buf
        /\ c.combined_buf = call[p].combined_buf /\ c.has_newline = HasNewline(call[p].data)
    BY <1>1, <2>2 DEF IsCall, NoCall
  <2> HIDE DEF c
  <2>4. Locals("w_body", c)
    BY <1>1, <2>1, <2>3 DEF Locals
  <2> QED
    BY <1>2, <2>1, <2>3, <2>4, LocalStepKeepsMem
<1> QED
  BY <1>3, <1>4 DEF Lock

\* A signal while waiting: a writer frees its block.
LEMMA InterruptedKeepsMem ==
  ASSUME LockInv, MemInv, NEW p \in Proc, Interrupted(p)
  PROVE  MemInv' /\ NoLoss /\ LogSame
<1>1. IsCall(call[p]) /\ Locals(pc[p], call[p])
  BY DEF LockInv, Shaped, MemInv, MemTyped
<1>2. CASE ReadInterrupted(p)
  <2> DEFINE c == [call[p] EXCEPT !.retval = -ERESTARTSYS]
  <2>1. pc[p] = "r_lock" /\ Goto(p, "ret", c) /\ UNCHANGED <<mod, device, heap>>
    BY <1>2 DEF ReadInterrupted, Fail
  <2>2. /\ c.op = call[p].op /\ c.data = call[p].data /\ c.tmp_buf = call[p].tmp_buf
        /\ c.combined_buf = call[p].combined_buf
    BY <1>1 DEF IsCall, NoCall
  <2> HIDE DEF c
  <2>3. Locals("ret", c)
    BY <1>1, <2>1, <2>2 DEF Locals
  <2> QED
    BY <2>1, <2>2, <2>3, LocalStepKeepsMem
<1>3. CASE WriteInterrupted(p)
  <2> DEFINE c == [[call[p] EXCEPT !.tmp_buf = NULL] EXCEPT !.retval = -ERESTARTSYS]
  <2>1. /\ pc[p] = "w_lock" /\ Goto(p, "ret", c) /\ UNCHANGED <<mod, device>>
        /\ heap' = Kfree(heap, call[p].tmp_buf)
    BY <1>3 DEF WriteInterrupted, Fail
  <2>2. /\ c.op = call[p].op /\ c.data = call[p].data /\ c.tmp_buf = NULL
        /\ c.combined_buf = call[p].combined_buf
    BY <1>1 DEF IsCall, NoCall
  <2> HIDE DEF c
  <2>3. Locals("ret", c)
    BY <1>1, <2>1, <2>2 DEF Locals
  <2> QED
    BY <2>1, <2>2, <2>3, FreeKeepsMem
<1> QED
  BY <1>2, <1>3 DEF Interrupted

\* What aesd_circular_buffer_add_entry does to the slots.
LEMMA AddEntrySlots ==
  ASSUME NEW b \in Buffer, RingShape(b), NEW e \in Entry, NEW c, c = AddEntry(b, e)
  PROVE  /\ c \in Buffer /\ RingShape(c)
         /\ \A i \in Slot : c.entry[i] = IF i = b.in_offs THEN e ELSE b.entry[i]
         /\ \A i \in Slot : c.full \/ i < c.in_offs =>
                              i = b.in_offs \/ b.full \/ i < b.in_offs
<1>1. c \in Buffer /\ RingShape(c)
  BY AddEntryType, AddEntryShape
<1>2. /\ c.entry = [b.entry EXCEPT ![b.in_offs] = e]
      /\ c.in_offs = IF b.in_offs = MaxOps - 1 THEN 0 ELSE b.in_offs + 1
      /\ c.full = (b.full \/ c.in_offs = c.out_offs)
  BY NextSlotValue DEF AddEntry, Buffer
<1>3. /\ MaxOps \in Nat /\ b.in_offs \in 0..(MaxOps - 1)
      /\ c.full \in BOOLEAN /\ b.full \in BOOLEAN
  BY <1>1, MaxOpsAssumption DEF Buffer, Slot
<1>4. \A i \in Slot : c.entry[i] = IF i = b.in_offs THEN e ELSE b.entry[i]
  BY <1>2 DEF Buffer
<1>5. ~b.full => c.out_offs = 0
  BY DEF AddEntry, RingShape
<1>6. ASSUME NEW i \in 0..(MaxOps - 1), c.full \/ i < c.in_offs
      PROVE  i = b.in_offs \/ b.full \/ i < b.in_offs
  <2>1. CASE ~b.full /\ c.full
    <3>1. c.in_offs = 0
      BY <1>2, <1>5, <2>1
    <3>2. b.in_offs = MaxOps - 1
      BY <1>2, <1>3, <3>1
    <3> QED
      BY <1>3, <3>2
  <2>2. CASE ~c.full
    BY <1>2, <1>3, <1>6, <2>2
  <2> QED
    BY <1>3, <2>1, <2>2
<1> QED
  BY <1>1, <1>4, <1>6 DEF Slot

\* The commands of a ring b whose blocks are in heap h.
RingCommands(b, h) == [i \in 1..Count(b) |-> h[Contents(b)[i].buffptr]]

\* Remembering an entry, seen through the blocks the entries point to.
LEMMA RememberThroughHeap ==
  ASSUME NEW b \in Buffer, RingShape(b), NEW e \in Entry, NEW h, NEW B,
         \A i \in 1..Count(b) : h[Contents(b)[i].buffptr] \in B, h[e.buffptr] \in B
  PROVE  RingCommands(AddEntry(b, e), h) =
           Append(IF Len(RingCommands(b, h)) < MaxOps THEN RingCommands(b, h)
                  ELSE Tail(RingCommands(b, h)), h[e.buffptr])
<1> DEFINE old == Contents(b)
           new == Contents(AddEntry(b, e))
           before == RingCommands(b, h)
           after == RingCommands(AddEntry(b, e), h)
<1>01. old \in Seq(Entry) /\ Len(old) = Count(b)
  BY ContentsSeq
<1>02. new \in Seq(Entry) /\ Len(new) = Count(AddEntry(b, e))
  BY AddEntryType, AddEntryShape, ContentsSeq
<1>03. new = Append(IF Len(old) < MaxOps THEN old ELSE Tail(old), e)
  BY AddEntryRemembers
<1>04. /\ before = [i \in 1..Len(old) |-> h[old[i].buffptr]]
       /\ after = [i \in 1..Len(new) |-> h[new[i].buffptr]]
       /\ \A i \in 1..Len(old) : h[old[i].buffptr] \in B
  BY <1>01, <1>02 DEF RingCommands
<1> HIDE DEF old, new, before, after
<1>1. MaxOps \in Nat \ {0} /\ Len(old) \in Nat
  BY <1>01, MaxOpsAssumption, LenProperties
<1>2. before \in Seq(B) /\ Len(before) = Len(old)
  <2>1. before \in [1..Len(old) -> B]
    BY <1>04
  <2> QED
    BY <1>1, <2>1, IsASeq, LenProperties
<1> DEFINE kept == IF Len(old) < MaxOps THEN old ELSE Tail(old)
           keptBefore == IF Len(before) < MaxOps THEN before ELSE Tail(before)
           x == h[e.buffptr]
<1>3. /\ kept \in Seq(Entry) /\ keptBefore \in Seq(B) /\ Len(keptBefore) = Len(kept)
      /\ \A i \in 1..Len(kept) : keptBefore[i] = h[kept[i].buffptr]
  <2>1. CASE Len(old) < MaxOps
    BY <1>01, <1>04, <1>2, <2>1
  <2>2. CASE ~(Len(old) < MaxOps)
    <3>1. old # << >> /\ before # << >> /\ kept = Tail(old) /\ keptBefore = Tail(before)
      <4>1. Len(old) >= MaxOps
        BY <1>1, <2>2
      <4>2. Len(old) # 0 /\ Len(before) # 0
        <5>1. PICK k \in Nat : k = Len(old)
          BY <1>1
        <5>2. k # 0
          BY <1>1, <4>1, <5>1
        <5> QED
          BY <1>2, <5>1, <5>2
      <4> QED
        BY <1>01, <1>2, <2>2, <4>2, EmptySeq
    <3>2. /\ kept \in Seq(Entry) /\ Len(kept) = Len(old) - 1
          /\ \A i \in 1..Len(kept) : kept[i] = old[i + 1]
      BY <1>01, <3>1, HeadTailProperties
    <3>3. /\ keptBefore \in Seq(B) /\ Len(keptBefore) = Len(before) - 1
          /\ \A i \in 1..Len(keptBefore) : keptBefore[i] = before[i + 1]
      BY <1>2, <3>1, HeadTailProperties
    <3>4. \A i \in 1..Len(kept) : i + 1 \in 1..Len(old)
      BY <1>1, <3>2
    <3> QED
      BY <1>04, <1>2, <3>2, <3>3, <3>4
  <2> QED
    BY <2>1, <2>2
<1> HIDE DEF kept, keptBefore
<1>4. /\ new \in Seq(Entry) /\ Len(new) = Len(kept) + 1 /\ Len(kept) \in Nat
      /\ \A i \in 1..Len(kept) : new[i] = kept[i]
      /\ new[Len(kept) + 1] = e
  <2>1. new = Append(kept, e)
    BY <1>03 DEF kept
  <2>2. Len(kept) \in Nat
    BY <1>3, LenProperties
  <2>3. /\ Append(kept, e) \in Seq(Entry) /\ Len(Append(kept, e)) = Len(kept) + 1
        /\ \A i \in 1..Len(kept) : Append(kept, e)[i] = kept[i]
        /\ Append(kept, e)[Len(kept) + 1] = e
    BY <1>3, AppendProperties
  <2> QED
    BY <2>1, <2>2, <2>3
<1>5. /\ Append(keptBefore, x) \in Seq(B) /\ Len(Append(keptBefore, x)) = Len(new)
      /\ \A i \in 1..Len(kept) : Append(keptBefore, x)[i] = keptBefore[i]
      /\ Append(keptBefore, x)[Len(kept) + 1] = x
  BY <1>3, <1>4, AppendProperties
<1>6. ASSUME NEW i \in 1..Len(new)
      PROVE  after[i] = Append(keptBefore, x)[i]
  <2>1. after[i] = h[new[i].buffptr] /\ (i \in 1..Len(kept) \/ i = Len(kept) + 1)
    BY <1>04, <1>4
  <2> QED
    BY <1>3, <1>4, <1>5, <2>1
<1>7. after \in Seq(B) /\ Len(after) = Len(new)
  <2>1. \A i \in 1..Len(new) : after[i] \in B
    <3>1. \A i \in 1..Len(new) : Append(keptBefore, x)[i] \in B
      BY <1>5, ElementOfSeq
    <3> QED
      BY <1>6, <3>1
  <2>2. after \in [1..Len(new) -> B] /\ Len(new) \in Nat
    <3>1. after = [i \in 1..Len(new) |-> after[i]]
      BY <1>04
    <3>2. Len(new) \in Nat
      BY <1>4
    <3> QED
      BY <2>1, <3>1, <3>2
  <2> QED
    BY <2>2, IsASeq, LenProperties
<1>8. after = Append(keptBefore, x)
  BY <1>5, <1>6, <1>7, SeqEqual
<1> QED
  BY <1>8 DEF keptBefore, before, after

\* The ring takes over a block that p owned, and p owns nothing afterwards.
\* No command is pending then.
LEMMA RingTakesBlock ==
  ASSUME LockInv, MemInv, NEW p \in Proc, pc[p] \in {"w_body", "w_store"},
         NEW x \in Ptr, heap[x] # << >>, x \in {call[p].tmp_buf, call[p].combined_buf},
         NEW e \in Entry, e.buffptr = x, e.size = Len(heap[x]),
         pc[p] = "w_body" => partial_write = NULL,
         NEW c, Locals("unlock", c), c.tmp_buf = NULL,
         buffer' = AddEntry(buffer, e), partial_write' = NULL, partial_size' = 0,
         Goto(p, "unlock", c), UNCHANGED <<mod, heap>>
  PROVE  /\ MemInv' /\ LossByOverwrite
         /\ Commands' = Append(IF Len(Commands) < MaxOps THEN Commands ELSE Tail(Commands), heap[x])
         /\ Pending' = << >>
<1>1. /\ pc' = [q \in Proc |-> IF q = p THEN "unlock" ELSE pc[q]]
      /\ call' = [q \in Proc |-> IF q = p THEN c ELSE call[q]]
  BY DEF LockInv, Shaped, Goto
<1>2. mod = "live" /\ \A q \in Proc : q # p => pc[q] \notin Critical
  BY HolderIsAlone DEF Critical
<1>3. /\ \A q \in Proc : pc'[q] # "w_store"
      /\ \A q \in Proc : call'[q].tmp_buf = IF q = p THEN NULL ELSE call[q].tmp_buf
      /\ \A q \in Proc : call'[q].combined_buf = NULL
  <2>1. \A q \in Proc : q # p => pc[q] # "w_store" /\ call[q].combined_buf = NULL
    BY <1>2 DEF MemInv, MemTyped, Locals, Critical
  <2>2. c.combined_buf = NULL
    BY DEF Locals
  <2> QED
    BY <1>1, <2>1, <2>2
<1>4. PartialPtr' = NULL
  BY DEF PartialPtr
<1>5. /\ buffer' \in Buffer /\ RingShape(buffer')
      /\ \A i \in Slot : buffer'.entry[i] = IF i = buffer.in_offs THEN e ELSE buffer.entry[i]
      /\ \A i \in Slot : buffer'.full \/ i < buffer'.in_offs =>
                           i = buffer.in_offs \/ buffer.full \/ i < buffer.in_offs
  <2>1. buffer \in Buffer /\ RingShape(buffer)
    BY DEF MemInv, MemTyped, RingHolds
  <2> QED
    BY <2>1, AddEntrySlots
<1>6. x # NULL
  BY PtrAssumption DEF NULL
<1>7. /\ \A i \in Slot : buffer.entry[i].buffptr # x
      /\ \A q \in Proc : q # p => call[q].tmp_buf # x
  BY <1>6 DEF MemInv, NoSharing
<1>8. MemTyped'
  BY <1>1, <1>5, PtrAssumption DEF MemInv, MemTyped, NULL
<1>9. NoDangling'
  BY <1>3, <1>4, <1>5 DEF MemInv, NoDangling
<1>10. NoSharing'
  BY <1>3, <1>4, <1>5, <1>7 DEF MemInv, NoSharing
<1>11. Holds'
  BY <1>1, <1>3, <1>4 DEF MemInv, Holds
<1>12. RingHolds'
  BY <1>2, <1>5, <1>6 DEF MemInv, RingHolds
<1>13. LossByOverwrite
  <2>1. ASSUME NEW b \in Ptr, heap'[b] # << >>, ~Owned(b)', Owned(b)
        PROVE  buffer.full /\ b = buffer.entry[buffer.in_offs].buffptr /\ buffer' # buffer
    <3>1. b # NULL
      BY PtrAssumption DEF NULL
    <3>2. buffer.in_offs \in Slot
      BY DEF MemInv, MemTyped, Buffer
    <3>3. b # x
      BY <1>5, <2>1, <3>2 DEF Owned
    <3>4. PartialPtr = NULL
      <4>1. CASE pc[p] = "w_store"
        BY <4>1 DEF PartialPtr, Storing
      <4>2. CASE pc[p] = "w_body"
        BY <4>2 DEF PartialPtr
      <4> QED
        BY <4>1, <4>2
    <3>5. /\ \A q \in Proc : call[q].tmp_buf = b => q = p
          /\ \A q \in Proc : call[q].combined_buf = b => q = p
      BY <1>2, <1>3, <2>1, <3>1 DEF Owned, MemInv, MemTyped, Locals, Critical
    <3>6. call[p].tmp_buf # b /\ call[p].combined_buf # b
      <4>1. Locals(pc[p], call[p])
        BY DEF MemInv, MemTyped
      <4>2. CASE pc[p] = "w_body"
        BY <1>6, <3>1, <3>3, <4>1, <4>2 DEF Locals
      <4>3. CASE pc[p] = "w_store"
        BY <1>6, <3>1, <3>3, <4>1, <4>3 DEF Locals
      <4> QED
        BY <4>2, <4>3
    <3>7. PICK i \in Slot : buffer.entry[i].buffptr = b
      BY <2>1, <3>1, <3>4, <3>5, <3>6 DEF Owned
    <3>8. i = buffer.in_offs
      BY <1>5, <2>1, <3>7 DEF Owned
    <3>9. buffer.full
      <4>1. buffer.in_offs \in Nat /\ buffer.in_offs >= buffer.in_offs
        BY <3>2, MaxOpsAssumption DEF Slot
      <4>2. ~buffer.full => buffer.entry[buffer.in_offs] = NoEntry
        BY <3>2, <4>1, Zenon DEF MemInv, RingHolds, RingShape
      <4>3. NoEntry.buffptr = NULL
        BY DEF NoEntry
      <4> QED
        BY <3>1, <3>7, <3>8, <4>2, <4>3, Zenon
    <3>10. buffer'.entry[i].buffptr = x
      BY <1>5, <3>8
    <3> QED
      BY <3>3, <3>7, <3>8, <3>9, <3>10
  <2> QED
    BY <2>1 DEF LossByOverwrite
<1>14. Pending' = << >>
  BY DEF Pending
<1>15. Commands' = Append(IF Len(Commands) < MaxOps THEN Commands ELSE Tail(Commands), heap[x])
  <2>1. buffer \in Buffer /\ RingShape(buffer)
    BY DEF MemInv, MemTyped, RingHolds
  <2>2. Commands = RingCommands(buffer, heap)
    BY <1>2, CommandsAre DEF RingCommands
  <2>3. Commands' = RingCommands(AddEntry(buffer, e), heap)
    <3>1. DOMAIN Contents(buffer') = 1..Count(buffer')
      BY DEF Contents
    <3>2. Contents(buffer)' = Contents(buffer')
      BY DEF Contents, Count, SlotAt
    <3>3. Commands' = RingCommands(buffer', heap)
      BY <1>2, <3>1, <3>2 DEF Commands, RingCommands
    <3> QED
      BY <3>3
  <2>4. \A i \in 1..Count(buffer) : heap[Contents(buffer)[i].buffptr] \in Seq(Nat)
    <3>1. \A i \in 1..Count(buffer) :
            \E k \in Slot : /\ Contents(buffer)[i] = buffer.entry[k]
                            /\ buffer.entry[k].buffptr # NULL
      BY <1>2, CommandsAre
    <3>2. \A k \in Slot : buffer.entry[k].buffptr \in Ptr \cup {NULL}
      BY <2>1 DEF Buffer, Entry
    <3> QED
      BY <3>1, <3>2 DEF MemInv, MemTyped
  <2>5. heap[e.buffptr] \in Seq(Nat)
    BY DEF MemInv, MemTyped
  <2>6. RingCommands(AddEntry(buffer, e), heap) =
          Append(IF Len(RingCommands(buffer, heap)) < MaxOps THEN RingCommands(buffer, heap)
                 ELSE Tail(RingCommands(buffer, heap)), heap[e.buffptr])
    BY <2>1, <2>4, <2>5, RememberThroughHeap
  <2> QED
    BY <2>2, <2>3, <2>6
<1> QED
  BY <1>8, <1>9, <1>10, <1>11, <1>12, <1>13, <1>14, <1>15 DEF MemInv

LEMMA WriteDirectKeepsMem ==
  ASSUME LockInv, MemInv, NEW p \in Proc, WriteDirect(p)
  PROVE  MemInv' /\ LossByOverwrite /\ Log!Commit(call[p].data)
<1> DEFINE d == HandedOver(call[p])
           e == [buffptr |-> call[p].tmp_buf, size |-> Len(call[p].data)]
<1>1. IsCall(call[p]) /\ Locals("w_body", call[p]) /\ pc[p] = "w_body" /\ mod = "live"
  BY HolderIsAlone DEF LockInv, Shaped, MemInv, MemTyped, WriteDirect, Critical
<1>2. d.op = "write" /\ d.data = call[p].data /\ d.tmp_buf = NULL /\ d.combined_buf = NULL
  BY <1>1 DEF HandedOver, IsCall, NoCall, Locals
<1>3. Locals("unlock", d)
  BY <1>1, <1>2 DEF Locals
<1>4. /\ call[p].tmp_buf \in Ptr /\ heap[call[p].tmp_buf] = call[p].data
      /\ heap[call[p].tmp_buf] # << >> /\ call[p].data \in Seq(Nat)
  BY <1>1 DEF Locals, MemInv, Holds
<1>5. e \in Entry /\ e.buffptr = call[p].tmp_buf /\ e.size = Len(heap[call[p].tmp_buf])
  BY <1>4 DEF Entry
<1>6. /\ buffer' = AddEntry(buffer, e) /\ partial_write' = NULL /\ partial_size' = 0
      /\ Goto(p, "unlock", d) /\ UNCHANGED <<mod, heap>>
  BY <1>1 DEF WriteDirect, MemInv, Holds
<1>7. partial_write = NULL /\ partial_size = 0 /\ call[p].has_newline
  BY <1>1 DEF WriteDirect, MemInv, Holds
<1> HIDE DEF d, e
<1>8. /\ MemInv' /\ LossByOverwrite
      /\ Commands' = Append(IF Len(Commands) < MaxOps THEN Commands ELSE Tail(Commands),
                            heap[call[p].tmp_buf])
      /\ Pending' = << >>
  BY <1>1, <1>2, <1>3, <1>4, <1>5, <1>6, <1>7, RingTakesBlock
<1>9. Pending \o call[p].data = heap[call[p].tmp_buf]
  BY <1>4, <1>7, ConcatEmptySeq DEF Pending
<1>10. Log!Complete(call[p].data)
  BY <1>1, <1>7 DEF Locals, HasNewline, Log!Complete
<1> QED
  BY <1>8, <1>9, <1>10 DEF Log!Commit, Log!History!Remember

LEMMA WriteStoreKeepsMem ==
  ASSUME LockInv, MemInv, NEW p \in Proc, WriteStore(p)
  PROVE  MemInv' /\ LossByOverwrite /\ Log!Commit(call[p].data)
<1> DEFINE d == [call[p] EXCEPT !.retval = Len(call[p].data), !.combined_buf = NULL]
           x == call[p].combined_buf
           size == partial_size + Len(call[p].data)
           e == [buffptr |-> x, size |-> size]
<1>1. /\ IsCall(call[p]) /\ Locals("w_store", call[p]) /\ pc[p] = "w_store" /\ mod = "live"
      /\ \A q \in Proc : q # p => pc[q] \notin Critical
  BY HolderIsAlone DEF LockInv, Shaped, MemInv, MemTyped, WriteStore, Critical
<1>2. d.op = "write" /\ d.data = call[p].data /\ d.tmp_buf = NULL /\ d.combined_buf = NULL
  BY <1>1 DEF IsCall, NoCall, Locals
<1>3. Locals("unlock", d)
  BY <1>1, <1>2 DEF Locals
<1>4. x \in Ptr /\ heap[x] # << >>
  BY <1>1 DEF Locals, MemInv, NoDangling
<1>5. size \in Nat /\ size = Len(heap[x])
  <2>1. PICK old \in Seq(Nat) : Len(old) = partial_size /\ heap[x] = old \o call[p].data
    BY <1>1 DEF MemInv, Holds
  <2>2. call[p].data \in Seq(Nat)
    BY <1>1 DEF Locals
  <2>3. Len(old \o call[p].data) = Len(old) + Len(call[p].data) /\ Len(call[p].data) \in Nat
    BY <2>2, ConcatProperties
  <2> QED
    BY <2>1, <2>3 DEF MemInv, MemTyped
<1>6. Goto(p, "unlock", d) /\ UNCHANGED <<mod, heap>>
  BY DEF WriteStore
<1>9. Pending \o call[p].data = heap[x]
  <2>1. PICK old \in Seq(Nat) : Len(old) = partial_size /\ heap[x] = old \o call[p].data
    BY <1>1 DEF MemInv, Holds
  <2>2. call[p].data \in Seq(Nat)
    BY <1>1 DEF Locals
  <2>3. CASE partial_size = 0
    <3>1. old = << >> /\ Pending = << >>
      BY <2>1, <2>3, EmptySeq DEF Pending
    <3> QED
      BY <2>1, <3>1
  <2>4. CASE partial_size # 0
    <3>1. {q \in Proc : pc[q] = "w_store"} = {p} /\ (CHOOSE q \in {p} : TRUE) = p
      BY <1>1 DEF Critical
    <3>2. Pending = SubSeq(heap[x], 1, partial_size)
      BY <1>1, <2>4, <3>1 DEF Pending
    <3>3. Pending = old
      BY <2>1, <2>2, <3>2, PrefixOfConcat
    <3> QED
      BY <2>1, <3>3
  <2> QED
    BY <2>3, <2>4
<1>7. CASE call[p].has_newline
  <2>1. e \in Entry /\ e.buffptr = x /\ e.size = Len(heap[x])
    BY <1>4, <1>5 DEF Entry
  <2>2. buffer' = AddEntry(buffer, e) /\ partial_write' = NULL /\ partial_size' = 0
    BY <1>7 DEF WriteStore
  <2> HIDE DEF d, e, size
  <2> QED
    <3>1. /\ MemInv' /\ LossByOverwrite
          /\ Commands' = Append(IF Len(Commands) < MaxOps THEN Commands ELSE Tail(Commands), heap[x])
          /\ Pending' = << >>
      BY <1>1, <1>2, <1>3, <1>4, <1>6, <2>1, <2>2, RingTakesBlock
    <3>2. Log!Complete(call[p].data)
      BY <1>1, <1>7 DEF Locals, HasNewline, Log!Complete
    <3> QED
      BY <1>9, <3>1, <3>2 DEF Log!Commit, Log!History!Remember
<1>8. CASE ~call[p].has_newline
  <2>1. partial_write' = x /\ partial_size' = size /\ buffer' = buffer
    BY <1>8 DEF WriteStore
  <2> HIDE DEF d, e, size
  <2>2. /\ pc' = [q \in Proc |-> IF q = p THEN "unlock" ELSE pc[q]]
        /\ call' = [q \in Proc |-> IF q = p THEN d ELSE call[q]]
    BY <1>6 DEF LockInv, Shaped, Goto
  <2>3. /\ \A q \in Proc : pc'[q] # "w_store"
        /\ \A q \in Proc : call'[q].tmp_buf = call[q].tmp_buf
        /\ \A q \in Proc : call'[q].combined_buf = NULL
    <3>1. \A q \in Proc : q # p => pc[q] # "w_store" /\ call[q].combined_buf = NULL
      BY <1>1 DEF MemInv, MemTyped, Locals, Critical
    <3>2. call[p].tmp_buf = NULL
      BY <1>1 DEF Locals
    <3> QED
      BY <1>2, <2>2, <3>1, <3>2
  <2>4. PartialPtr' = x /\ x # NULL
    BY <1>4, <2>1, <2>3, PtrAssumption DEF PartialPtr, Storing, NULL
  <2>5. /\ \A i \in Slot : buffer.entry[i].buffptr # x
        /\ \A q \in Proc : call[q].tmp_buf # x
    BY <2>4 DEF MemInv, NoSharing
  <2>6. MemTyped'
    BY <1>3, <1>4, <1>5, <1>6, <2>1, <2>2 DEF MemInv, MemTyped
  <2>7. NoDangling'
    BY <1>4, <1>6, <2>1, <2>3, <2>4 DEF MemInv, NoDangling
  <2>8. NoSharing'
    BY <2>1, <2>3, <2>4, <2>5 DEF MemInv, NoSharing
  <2>9. Holds'
    BY <1>5, <1>6, <2>1, <2>2, <2>3, <2>4 DEF MemInv, Holds
  <2>10. RingHolds'
    BY <1>1, <1>6, <2>1 DEF MemInv, RingHolds
  <2>11. LossByOverwrite
    <3>1. ASSUME NEW b \in Ptr, Owned(b)
          PROVE  Owned(b)'
      <4>1. b # NULL
        BY PtrAssumption DEF NULL
      <4>2. PartialPtr = NULL
        BY <1>1 DEF PartialPtr, Storing
      <4>3. \A q \in Proc : call[q].combined_buf = b => b = x
        BY <1>1, <4>1 DEF MemInv, MemTyped, Locals, Critical
      <4> QED
        BY <2>1, <2>3, <2>4, <3>1, <4>1, <4>2, <4>3 DEF Owned
    <3> QED
      BY <1>6, <3>1 DEF LossByOverwrite
  <2>12. Log!Commit(call[p].data)
    <3>1. ~Log!Complete(call[p].data)
      BY <1>1, <1>8 DEF Locals, HasNewline, Log!Complete
    <3>2. Commands' = Commands
      BY <1>6, <2>1, CommandsStay
    <3>3. {q \in Proc : pc'[q] = "w_store"} = {}
      BY <2>3
    <3>4. partial_size' # 0
      BY <1>4, <1>5, <2>1, EmptySeq DEF MemInv, MemTyped
    <3>5. Pending' = heap[x]
      BY <1>1, <1>6, <2>1, <3>3, <3>4 DEF Pending
    <3> QED
      BY <1>9, <3>1, <3>2, <3>5 DEF Log!Commit
  <2> QED
    BY <2>6, <2>7, <2>8, <2>9, <2>10, <2>11, <2>12 DEF MemInv
<1> QED
  BY <1>1, <1>7, <1>8 DEF Locals

LEMMA WriteFirstPartKeepsMem ==
  ASSUME LockInv, MemInv, NEW p \in Proc, WriteFirstPart(p)
  PROVE  MemInv' /\ NoLoss /\ LogSame
<1> DEFINE x == call[p].tmp_buf
           d == [call[p] EXCEPT !.combined_buf = x, !.tmp_buf = NULL]
<1>1. /\ IsCall(call[p]) /\ Locals("w_body", call[p]) /\ pc[p] = "w_body" /\ mod = "live"
      /\ \A q \in Proc : q # p => pc[q] \notin Critical
  BY HolderIsAlone DEF LockInv, Shaped, MemInv, MemTyped, WriteFirstPart, Critical
<1>2. /\ d.op = "write" /\ d.data = call[p].data /\ d.tmp_buf = NULL /\ d.combined_buf = x
      /\ d.has_newline = call[p].has_newline
  BY <1>1 DEF IsCall, NoCall, Locals
<1>3. Locals("w_store", d)
  BY <1>1, <1>2 DEF Locals
<1>4. /\ partial_write = NULL /\ partial_size = 0 /\ Goto(p, "w_store", d)
      /\ mod' = mod /\ heap' = heap /\ buffer' = buffer
      /\ partial_write' = partial_write /\ partial_size' = partial_size
  BY <1>1 DEF WriteFirstPart, MemInv, Holds, device
<1> HIDE DEF d
<1>5. /\ pc' = [q \in Proc |-> IF q = p THEN "w_store" ELSE pc[q]]
      /\ call' = [q \in Proc |-> IF q = p THEN d ELSE call[q]]
  BY <1>4 DEF LockInv, Shaped, Goto
<1>6. /\ \A q \in Proc : pc'[q] = "w_store" => q = p
      /\ \A q \in Proc : call'[q].tmp_buf = IF q = p THEN NULL ELSE call[q].tmp_buf
      /\ \A q \in Proc : call'[q].combined_buf = IF q = p THEN x ELSE NULL
  <2>1. \A q \in Proc : q # p => pc[q] # "w_store" /\ call[q].combined_buf = NULL
    BY <1>1 DEF MemInv, MemTyped, Locals, Critical
  <2> QED
    BY <1>2, <1>5, <2>1
<1>7. PartialPtr' = NULL
  BY <1>4 DEF PartialPtr
<1>8. x # NULL /\ heap[x] = call[p].data /\ heap[x] # << >> /\ call[p].data \in Seq(Nat)
  BY <1>1 DEF Locals, MemInv, Holds
<1>9. MemTyped'
  BY <1>3, <1>4, <1>5 DEF MemInv, MemTyped
<1>10. NoDangling'
  BY <1>4, <1>6, <1>7, <1>8 DEF MemInv, NoDangling
<1>11. NoSharing'
  BY <1>4, <1>6, <1>7, <1>8 DEF MemInv, NoSharing
<1>12. Holds'
  <2>1. \A q \in Proc : pc'[q] \in {"w_lock", "w_body"} => heap'[call'[q].tmp_buf] = call'[q].data
    BY <1>4, <1>5 DEF MemInv, Holds
  <2>2. << >> \in Seq(Nat) /\ Len(<< >>) = 0 /\ call[p].data = << >> \o call[p].data
    BY <1>8
  <2>3. call'[p].combined_buf = x /\ call'[p].data = call[p].data
    BY <1>2, <1>5
  <2>4. \A q \in Proc : pc'[q] = "w_store" =>
          \E old \in Seq(Nat) : /\ Len(old) = partial_size'
                                /\ heap'[call'[q].combined_buf] = old \o call'[q].data
    BY <1>4, <1>6, <1>8, <2>2, <2>3
  <2> QED
    BY <1>4, <1>7, <2>1, <2>4 DEF Holds
<1>13. RingHolds'
  BY <1>1, <1>4 DEF MemInv, RingHolds
<1>14. NoLoss
  <2>1. PartialPtr = NULL /\ \A q \in Proc : call[q].combined_buf = NULL
    BY <1>1, <1>4 DEF PartialPtr, MemInv, MemTyped, Locals, Critical
  <2>2. \A b \in Ptr : b # NULL
    BY PtrAssumption DEF NULL
  <2>3. ASSUME NEW b \in Ptr, Owned(b)
        PROVE  Owned(b)'
    BY <1>4, <1>6, <2>1, <2>2, <2>3 DEF Owned
  <2> QED
    BY <1>4, <2>3 DEF NoLoss
<1>15. LogSame
  BY <1>4, CommandsStay DEF LogSame, Pending
<1> QED
  BY <1>9, <1>10, <1>11, <1>12, <1>13, <1>14, <1>15 DEF MemInv

\* What is not more than the limit is at most the limit.
LEMMA NotMore ==
  ASSUME NEW n \in Nat, NEW m \in Nat, ~(n > m)
  PROVE  n <= m
OBVIOUS

\* krealloc, memcpy and kfree(tmp_buf): the bytes of the pending command and
\* the new ones are in one block, which combined_buf owns; the block of tmp_buf
\* and, if the bytes have moved, the old one are free, and no other is touched.
LEMMA AppendBlocks ==
  ASSUME LockInv, MemInv, NEW p \in Proc, pc[p] = "w_body", partial_write # NULL,
         NEW r \in Krealloc(partial_write, heap[call[p].tmp_buf]),
         heap' = Kfree(r[2], call[p].tmp_buf)
  PROVE  /\ r[1] \in Ptr
         /\ heap' \in [Ptr -> Seq(Nat)] /\ \A b \in Ptr : Len(heap'[b]) <= MaxAlloc
         /\ heap'[r[1]] = heap[partial_write] \o call[p].data
         /\ heap'[call[p].tmp_buf] = << >>
         /\ r[1] # partial_write => heap'[partial_write] = << >>
         /\ \A b \in Ptr \ {r[1], partial_write, call[p].tmp_buf} : heap'[b] = heap[b]
         /\ r[1] = partial_write \/ r[1] \in Fresh
         /\ partial_write # call[p].tmp_buf /\ r[1] # call[p].tmp_buf
<1> DEFINE w == partial_write
           t == call[p].tmp_buf
           bytes == heap[w] \o heap[t]
<1>1. t \in Ptr /\ w \in Ptr /\ heap[t] = call[p].data /\ t # NULL
  BY DEF MemInv, MemTyped, Locals, Holds
<1>2. PartialPtr = w
  BY HolderIsAlone DEF PartialPtr, Storing, Critical
<1>3. w # t
  BY <1>1, <1>2 DEF MemInv, NoSharing
<1>4. bytes \in Seq(Nat)
  BY <1>1 DEF MemInv, MemTyped
<1>5. Len(bytes) <= MaxAlloc
  <2>1. ~(Len(bytes) > MaxAlloc)
    BY DEF Krealloc
  <2> HIDE DEF bytes
  <2>2. Len(bytes) \in Nat
    BY <1>4, LenProperties
  <2>3. PICK n \in Nat : n = Len(bytes)
    BY <2>2
  <2>4. ~(n > MaxAlloc)
    BY <2>1, <2>3, Zenon
  <2>5. MaxAlloc \in Nat
    BY AesdCharAssumption
  <2>6. n <= MaxAlloc
    BY <2>4, <2>5, NotMore
  <2> QED
    BY <2>3, <2>6, Zenon
<1>6. \/ r[1] = w /\ r[2] = [heap EXCEPT ![w] = bytes]
      \/ r[1] \in Fresh /\ r[2] = [heap EXCEPT ![r[1]] = bytes, ![w] = << >>]
  <2>1. r \in {<<w, [heap EXCEPT ![w] = bytes]>>} \cup
              {<<n, [heap EXCEPT ![n] = bytes, ![w] = << >>]>> : n \in Fresh}
    BY DEF Krealloc
  <2>2. CASE r = <<w, [heap EXCEPT ![w] = bytes]>>
    BY <2>2
  <2>3. ASSUME NEW n \in Fresh, r = <<n, [heap EXCEPT ![n] = bytes, ![w] = << >>]>>
        PROVE  r[1] \in Fresh /\ r[2] = [heap EXCEPT ![r[1]] = bytes, ![w] = << >>]
    BY <2>3
  <2> QED
    BY <2>1, <2>2, <2>3
<1> HIDE DEF bytes
<1>7. r[1] \in Fresh => r[1] \in Ptr /\ r[1] # t /\ r[1] # w
  BY <1>2, FreshIsNobodys
<1>8. heap \in [Ptr -> Seq(Nat)] /\ \A b \in Ptr : Len(heap[b]) <= MaxAlloc
  BY DEF MemInv, MemTyped
<1>9. << >> \in Seq(Nat) /\ Len(<< >>) <= MaxAlloc
  BY AesdCharAssumption
<1>10. /\ r[1] \in Ptr /\ r[2] \in [Ptr -> Seq(Nat)]
       /\ \A b \in Ptr : r[2][b] = IF b = r[1] THEN bytes
                                   ELSE IF b = w THEN << >> ELSE heap[b]
  <2>1. CASE r[1] = w /\ r[2] = [heap EXCEPT ![w] = bytes]
    BY <1>1, <1>4, <1>8, <2>1
  <2>2. CASE r[1] \in Fresh /\ r[2] = [heap EXCEPT ![r[1]] = bytes, ![w] = << >>]
    BY <1>1, <1>4, <1>7, <1>8, <1>9, <2>2
  <2> QED
    BY <1>6, <2>1, <2>2
<1>11. \A b \in Ptr : Len(r[2][b]) <= MaxAlloc
  BY <1>5, <1>8, <1>9, <1>10
<1>12. /\ heap' \in [Ptr -> Seq(Nat)] /\ \A b \in Ptr : Len(heap'[b]) <= MaxAlloc
       /\ \A b \in Ptr : b # t => heap'[b] = r[2][b]
       /\ heap'[t] = << >>
  <2>1. PICK k \in [Ptr -> Seq(Nat)] : k = r[2]
    BY <1>10
  <2>2. (\A b \in Ptr : Len(k[b]) <= MaxAlloc) /\ heap' = Kfree(k, t)
    BY <1>11, <2>1
  <2>3. /\ Kfree(k, t) \in [Ptr -> Seq(Nat)]
        /\ \A b \in Ptr : Len(Kfree(k, t)[b]) <= MaxAlloc
        /\ \A b \in Ptr : b # t => Kfree(k, t)[b] = k[b]
        /\ t # NULL => Kfree(k, t)[t] = << >>
    BY <1>1, <2>2, KfreeBlocks
  <2> QED
    BY <1>1, <2>1, <2>2, <2>3
<1>13. r[1] # t
  BY <1>3, <1>6, <1>7
<1> QED
  BY <1>1, <1>3, <1>6, <1>10, <1>12, <1>13 DEF bytes

LEMMA WriteAppendKeepsMem ==
  ASSUME LockInv, MemInv, NEW p \in Proc, WriteAppend(p)
  PROVE  MemInv' /\ NoLoss /\ LogSame
<1>1. /\ IsCall(call[p]) /\ Locals("w_body", call[p]) /\ pc[p] = "w_body" /\ mod = "live"
      /\ \A q \in Proc : q # p => pc[q] \notin Critical
  BY HolderIsAlone DEF LockInv, Shaped, MemInv, MemTyped, WriteAppend, Critical
<1>2. PICK r \in Krealloc(partial_write, heap[call[p].tmp_buf]) :
        /\ heap' = Kfree(r[2], call[p].tmp_buf)
        /\ Goto(p, "w_store", [call[p] EXCEPT !.combined_buf = r[1], !.tmp_buf = NULL])
  BY DEF WriteAppend
<1>3. /\ partial_write # NULL /\ mod' = mod /\ buffer' = buffer
      /\ partial_write' = partial_write /\ partial_size' = partial_size
  BY DEF WriteAppend, device
<1> DEFINE w == partial_write
           t == call[p].tmp_buf
           x == r[1]
           d == [call[p] EXCEPT !.combined_buf = r[1], !.tmp_buf = NULL]
<1>4. /\ x \in Ptr /\ heap'[t] = << >> /\ (x # w => heap'[w] = << >>)
      /\ heap' \in [Ptr -> Seq(Nat)] /\ \A b \in Ptr : Len(heap'[b]) <= MaxAlloc
      /\ heap'[x] = heap[w] \o call[p].data
      /\ \A b \in Ptr \ {x, w, t} : heap'[b] = heap[b]
      /\ x = w \/ x \in Fresh
      /\ w # t /\ x # t
  BY <1>1, <1>2, <1>3, AppendBlocks
<1>5. /\ d.op = "write" /\ d.data = call[p].data /\ d.tmp_buf = NULL /\ d.combined_buf = x
      /\ d.has_newline = call[p].has_newline
  BY <1>1 DEF IsCall, NoCall, Locals
<1>6. x # NULL
  BY <1>4, PtrAssumption DEF NULL
<1>7. Goto(p, "w_store", d)
  BY <1>2
<1> HIDE DEF d, x
<1>8. Locals("w_store", d)
  BY <1>1, <1>4, <1>5, <1>6 DEF Locals
<1>9. /\ pc' = [q \in Proc |-> IF q = p THEN "w_store" ELSE pc[q]]
      /\ call' = [q \in Proc |-> IF q = p THEN d ELSE call[q]]
  BY <1>7 DEF LockInv, Shaped, Goto
<1>10. /\ \A q \in Proc : pc'[q] = "w_store" => q = p
       /\ \A q \in Proc : call'[q].tmp_buf = IF q = p THEN NULL ELSE call[q].tmp_buf
       /\ \A q \in Proc : call'[q].combined_buf = IF q = p THEN x ELSE NULL
       /\ PartialPtr = w /\ PartialPtr' = NULL
  <2>1. \A q \in Proc : q # p => pc[q] # "w_store" /\ call[q].combined_buf = NULL
    BY <1>1 DEF MemInv, MemTyped, Locals, Critical
  <2>2. PartialPtr = w
    BY <1>1, <2>1 DEF PartialPtr, Storing
  <2>3. PartialPtr' = NULL
    BY <1>9 DEF PartialPtr, Storing
  <2> QED
    BY <1>5, <1>9, <2>1, <2>2, <2>3
<1>11. /\ \A i \in Slot : /\ buffer.entry[i].buffptr \in Ptr \cup {NULL}
                          /\ buffer.entry[i].buffptr # NULL =>
                               buffer.entry[i].buffptr \notin {x, w, t}
       /\ \A q \in Proc : /\ call[q].tmp_buf \in Ptr \cup {NULL}
                          /\ q # p /\ call[q].tmp_buf # NULL => call[q].tmp_buf \notin {x, w, t}
  <2>1. /\ \A i \in Slot : buffer.entry[i].buffptr \in Ptr \cup {NULL}
        /\ \A q \in Proc : call[q].tmp_buf \in Ptr \cup {NULL}
    BY DEF MemInv, MemTyped, Buffer, Entry, Locals
  <2>2. /\ \A i \in Slot : buffer.entry[i].buffptr # NULL => buffer.entry[i].buffptr \notin {w, t}
        /\ \A q \in Proc : q # p /\ call[q].tmp_buf # NULL => call[q].tmp_buf \notin {w, t}
    BY <1>3, <1>10 DEF MemInv, NoSharing
  <2>3. x = w \/ /\ \A i \in Slot : buffer.entry[i].buffptr # x
                 /\ \A q \in Proc : call[q].tmp_buf # x
    BY <1>4, FreshIsNobodys
  <2> QED
    BY <2>1, <2>2, <2>3
<1>12. MemTyped'
  BY <1>3, <1>4, <1>8, <1>9 DEF MemInv, MemTyped
<1>13. heap'[x] # << >>
  <2>1. heap[w] \in Seq(Nat) /\ call[p].data \in Seq(Nat) /\ call[p].data # << >>
    BY <1>1, <1>3 DEF MemInv, MemTyped, Locals
  <2> QED
    BY <1>4, <2>1, ConcatEqualIffEmpty
<1>14. NoDangling'
  <2>1. \A i \in Slot : buffer.entry[i].buffptr # NULL =>
          heap'[buffer.entry[i].buffptr] = heap[buffer.entry[i].buffptr]
    BY <1>4, <1>11
  <2>2. \A q \in Proc : q # p /\ call[q].tmp_buf # NULL =>
          heap'[call[q].tmp_buf] = heap[call[q].tmp_buf]
    BY <1>4, <1>11
  <2> QED
    BY <1>3, <1>10, <1>13, <2>1, <2>2 DEF MemInv, NoDangling
<1>15. NoSharing'
  BY <1>3, <1>6, <1>10, <1>11 DEF MemInv, NoSharing
<1>16. Holds'
  <2>1. ASSUME NEW q \in Proc, pc'[q] \in {"w_lock", "w_body"}
        PROVE  heap'[call'[q].tmp_buf] = call'[q].data
    <3>1. q # p /\ call'[q] = call[q] /\ pc[q] \in {"w_lock", "w_body"}
      BY <1>9, <2>1
    <3>2. call[q].tmp_buf # NULL
      BY <3>1 DEF MemInv, MemTyped, Locals
    <3> QED
      BY <1>4, <1>11, <3>1, <3>2 DEF MemInv, Holds
  <2>2. heap[w] \in Seq(Nat) /\ Len(heap[w]) = partial_size
    BY <1>1, <1>3, <1>10 DEF MemInv, MemTyped, Holds
  <2>3. call'[p].combined_buf = x /\ call'[p].data = call[p].data
    BY <1>5, <1>9
  <2>4. \A q \in Proc : pc'[q] = "w_store" =>
          \E old \in Seq(Nat) : /\ Len(old) = partial_size'
                                /\ heap'[call'[q].combined_buf] = old \o call'[q].data
    BY <1>3, <1>4, <1>10, <2>2, <2>3
  <2> QED
    BY <1>3, <1>10, <2>1, <2>4 DEF Holds
<1>17. RingHolds'
  BY <1>1, <1>3 DEF MemInv, RingHolds
<1>18. NoLoss
  <2>1. ASSUME NEW b \in Ptr, heap'[b] # << >>, ~Owned(b)'
        PROVE  heap[b] # << >> /\ ~Owned(b)
    <3>1. b # x
      BY <1>10, <2>1 DEF Owned
    <3>2. b # t /\ b # w
      BY <1>4, <2>1, <3>1
    <3>3. heap[b] # << >> /\ b # NULL
      BY <1>4, <2>1, <3>1, <3>2, PtrAssumption DEF NULL
    <3>4. \A q \in Proc : q # p => call[q].combined_buf = NULL
      BY <1>1 DEF MemInv, MemTyped, Locals, Critical
    <3>5. call[p].combined_buf = NULL
      BY <1>1 DEF Locals
    <3> QED
      BY <1>3, <1>10, <2>1, <3>2, <3>3, <3>4, <3>5 DEF Owned
  <2> QED
    BY <2>1 DEF NoLoss
<1>19. LogSame
  <2>1. Commands' = Commands
    BY <1>3, <1>4, <1>11, CommandsStay
  <2>2. /\ {q \in Proc : pc[q] = "w_store"} = {} /\ {q \in Proc : pc'[q] = "w_store"} = {p}
        /\ (CHOOSE q \in {p} : TRUE) = p
    BY <1>1, <1>9, <1>10 DEF Critical
  <2>3. heap[w] \in Seq(Nat) /\ Len(heap[w]) = partial_size /\ call[p].data \in Seq(Nat)
    BY <1>1, <1>3, <1>10 DEF MemInv, MemTyped, Holds, Locals
  <2>4. call'[p].combined_buf = x
    BY <1>5, <1>9
  <2>5. CASE partial_size = 0
    BY <1>3, <2>1, <2>5 DEF LogSame, Pending
  <2>6. CASE partial_size # 0
    <3>1. Pending = heap[w] /\ Pending' = SubSeq(heap[w] \o call[p].data, 1, partial_size)
      BY <1>1, <1>3, <1>4, <2>2, <2>4, <2>6 DEF Pending
    <3>2. SubSeq(heap[w] \o call[p].data, 1, partial_size) = heap[w]
      BY <2>3, <2>6, PrefixOfConcat
    <3> QED
      BY <2>1, <3>1, <3>2 DEF LogSame
  <2> QED
    BY <2>5, <2>6
<1> QED
  BY <1>12, <1>14, <1>15, <1>16, <1>17, <1>18, <1>19 DEF MemInv

LEMMA BodyKeepsMem ==
  ASSUME LockInv, MemInv, NEW p \in Proc, Body(p)
  PROVE  MemInv' /\ LossByOverwrite /\ LogStep(call[p].data)
<1> DEFINE Same(c) == /\ c.op = call[p].op /\ c.data = call[p].data
                      /\ c.tmp_buf = call[p].tmp_buf /\ c.combined_buf = call[p].combined_buf
<1>1. IsCall(call[p]) /\ Locals(pc[p], call[p])
  BY DEF LockInv, Shaped, MemInv, MemTyped
<1>0. ASSUME MemInv', NoLoss, LogSame
      PROVE  MemInv' /\ LossByOverwrite /\ LogStep(call[p].data)
  <2>1. LossByOverwrite
    BY <1>0 DEF NoLoss, LossByOverwrite
  <2>2. LogSame => LogStep(call[p].data)
    BY DEF LogStep
  <2> QED
    BY <1>0, <2>1, <2>2
<1>2. ASSUME pc[p] \in {"r_loop", "s_body", "w_body"}, NEW c, Same(c),
             NEW label \in {"r_loop", "unlock"}, label = "r_loop" => pc[p] = "r_loop",
             Goto(p, label, c), UNCHANGED <<mod, device, heap>>
      PROVE  MemInv' /\ LossByOverwrite /\ LogStep(call[p].data)
  <2>1. Locals(label, c)
    BY <1>1, <1>2 DEF Locals
  <2> QED
    BY <1>0, <1>2, <2>1, LocalStepKeepsMem
<1>3. CASE ReadCopy(p)
  <2>1. PICK n, b : Goto(p, "r_loop", [call[p] EXCEPT !.pos = n, !.ubuf = b])
    BY <1>3 DEF ReadCopy
  <2>2. Same([call[p] EXCEPT !.pos = n, !.ubuf = b])
    BY <1>1 DEF IsCall, NoCall
  <2> QED
    BY <1>2, <1>3, <2>1, <2>2 DEF ReadCopy
<1>4. CASE ReadFault(p) \/ ReadDone(p) \/ WriteAppendFails(p)
  <2>1. PICK v : Goto(p, "unlock", [call[p] EXCEPT !.retval = v])
    BY <1>4 DEF ReadFault, ReadDone, WriteAppendFails
  <2>2. Same([call[p] EXCEPT !.retval = v])
    BY <1>1 DEF IsCall, NoCall
  <2> QED
    BY <1>2, <1>4, <2>1, <2>2 DEF ReadFault, ReadDone, WriteAppendFails
<1>5. CASE WriteFree(p)
  <2> DEFINE c == [call[p] EXCEPT !.tmp_buf = NULL]
  <2>1. c.op = call[p].op /\ c.data = call[p].data /\ c.tmp_buf = NULL /\ c.combined_buf = call[p].combined_buf
    BY <1>1 DEF IsCall, NoCall
  <2>2. /\ pc[p] = "w_free" /\ heap' = Kfree(heap, call[p].tmp_buf) /\ Goto(p, "ret", c)
        /\ UNCHANGED <<mod, device>>
    BY <1>5 DEF WriteFree
  <2> HIDE DEF c
  <2>3. Locals("ret", c)
    BY <1>1, <2>1, <2>2 DEF Locals
  <2> QED
    BY <1>0, <2>1, <2>2, <2>3, FreeKeepsMem
<1>6. CASE Llseek(p) \/ Ioctl(p)
  <2>1. PICK v : Goto(p, "unlock", [call[p] EXCEPT !.retval = v, !.seek = NoSeek])
    BY <1>6 DEF Llseek, Ioctl, FinishSeek
  <2>2. Same([call[p] EXCEPT !.retval = v, !.seek = NoSeek])
    BY <1>1 DEF IsCall, NoCall
  <2>3. pc[p] = "s_body" /\ UNCHANGED <<mod, device, heap>>
    BY <1>6 DEF Llseek, Ioctl, FinishSeek
  <2> QED
    BY <1>2, <2>1, <2>2, <2>3
<1>7. CASE Unlock(p)
  <2> DEFINE label == IF call[p].op = "write" THEN "w_free" ELSE "ret"
  <2>1. pc[p] = "unlock" /\ Goto(p, label, call[p]) /\ UNCHANGED <<mod, device, heap>>
    <3>1. call' = [call EXCEPT ![p] = call[p]]
      BY <1>7 DEF Unlock, LockInv, Shaped
    <3> QED
      BY <1>7, <3>1 DEF Unlock, Goto
  <2>2. Locals(label, call[p])
    BY <1>1, <2>1 DEF Locals
  <2> QED
    BY <1>0, <2>1, <2>2, LocalStepKeepsMem
<1>8. CASE Return(p)
  <2>1. pc[p] = "ret" /\ Goto(p, "idle", NoCall) /\ UNCHANGED <<mod, device, heap>>
    BY <1>8 DEF Return
  <2>2. Locals("idle", NoCall) /\ NoCall.tmp_buf = NULL
    BY DEF Locals, NoCall
  <2>3. call[p].tmp_buf = NULL
    BY <1>1, <2>1 DEF Locals
  <2> QED
    BY <1>0, <2>1, <2>2, <2>3, LocalStepKeepsMem
<1>9. CASE WriteFirstPart(p) \/ WriteAppend(p)
  BY <1>0, <1>9, WriteFirstPartKeepsMem, WriteAppendKeepsMem
<1>10. CASE WriteDirect(p) \/ WriteStore(p)
  <2>1. call[p].data \in Data \ {<< >>}
    BY <1>1, <1>10 DEF WriteDirect, WriteStore, Locals
  <2> QED
    BY <1>10, <2>1, WriteDirectKeepsMem, WriteStoreKeepsMem DEF LogStep
<1> QED
  BY <1>3, <1>4, <1>5, <1>6, <1>7, <1>8, <1>9, <1>10 DEF Body

\* Who the owners are, one kind at a time.
LEMMA RefsAre ==
  ASSUME NEW r \in Refs
  PROVE  /\ r[3] # NULL
         /\ \/ \E i \in Slot : r = <<"entry", i, buffer.entry[i].buffptr>>
            \/ \E p \in Proc : r = <<"tmp_buf", p, call[p].tmp_buf>>
            \/ \E p \in Proc : r = <<"combined_buf", p, call[p].combined_buf>>
            \/ r = <<"partial", 0, PartialPtr>>
<1>1. r[3] # NULL
  BY DEF Refs
<1>2. \/ \E i \in Slot : r = <<"entry", i, buffer.entry[i].buffptr>>
      \/ \E p \in Proc : r = <<"tmp_buf", p, call[p].tmp_buf>>
      \/ \E p \in Proc : r = <<"combined_buf", p, call[p].combined_buf>>
      \/ ~Storing /\ r = <<"partial", 0, partial_write>>
  BY DEF Refs, Storing
<1> QED
  BY <1>1, <1>2 DEF PartialPtr

LEMMA MemInvIsSafe ==
  ASSUME LockInv, MemInv
  PROVE  HeapSafe
<1>1. /\ \A i \in Slot : buffer.entry[i].buffptr \in Ptr \cup {NULL}
      /\ \A q \in Proc : {call[q].tmp_buf, call[q].combined_buf} \subseteq Ptr \cup {NULL}
      /\ PartialPtr \in Ptr \cup {NULL}
  BY DEF MemInv, MemTyped, Buffer, Entry, Locals, PartialPtr
<1>2. Reachable \subseteq Allocated
  <2> SUFFICES ASSUME NEW r \in Refs
               PROVE  r[3] \in Ptr /\ heap[r[3]] # << >>
    BY DEF Reachable, Allocated
  <2>1. CASE \E i \in Slot : r = <<"entry", i, buffer.entry[i].buffptr>>
    BY <1>1, <2>1, RefsAre DEF MemInv, NoDangling
  <2>2. CASE \E p \in Proc : r = <<"tmp_buf", p, call[p].tmp_buf>>
    BY <1>1, <2>2, RefsAre DEF MemInv, NoDangling
  <2>3. CASE \E p \in Proc : r = <<"combined_buf", p, call[p].combined_buf>>
    BY <1>1, <2>3, RefsAre DEF MemInv, NoDangling
  <2>4. CASE r = <<"partial", 0, PartialPtr>>
    BY <1>1, <2>4, RefsAre DEF MemInv, NoDangling
  <2> QED
    BY <2>1, <2>2, <2>3, <2>4, RefsAre
<1>3. ASSUME NEW r \in Refs, NEW s \in Refs, r[3] = s[3]
      PROVE  r = s
  <2> DEFINE Kind(x) == \/ \E i \in Slot : x = <<"entry", i, buffer.entry[i].buffptr>>
                        \/ \E p \in Proc : x = <<"tmp_buf", p, call[p].tmp_buf>>
                        \/ \E p \in Proc : x = <<"combined_buf", p, call[p].combined_buf>>
                        \/ x = <<"partial", 0, PartialPtr>>
  <2>0. r[3] # NULL /\ s[3] # NULL /\ Kind(r) /\ Kind(s)
    BY RefsAre
  <2>1. \A p, q \in Proc : call[p].combined_buf # NULL /\ call[q].combined_buf # NULL => p = q
    <3>1. \A p \in Proc : call[p].combined_buf # NULL => p \in lock
      BY DEF LockInv, LockDiscipline, Shaped, MemInv, MemTyped, Locals, Critical
    <3> QED
      BY <3>1 DEF LockInv, LockDiscipline
  <2>2. \A p \in Proc : call[p].combined_buf # NULL => PartialPtr = NULL
    BY DEF MemInv, MemTyped, Locals, PartialPtr, Storing
  <2>3. CASE \E i \in Slot : r = <<"entry", i, buffer.entry[i].buffptr>>
    BY <1>3, <2>0, <2>3 DEF MemInv, NoSharing
  <2>4. CASE \E p \in Proc : r = <<"tmp_buf", p, call[p].tmp_buf>>
    BY <1>3, <2>0, <2>4 DEF MemInv, NoSharing
  <2>5. CASE \E p \in Proc : r = <<"combined_buf", p, call[p].combined_buf>>
    BY <1>3, <2>0, <2>1, <2>2, <2>5 DEF MemInv, NoSharing
  <2>6. CASE r = <<"partial", 0, PartialPtr>>
    BY <1>3, <2>0, <2>2, <2>6 DEF MemInv, NoSharing
  <2> QED
    BY <2>0, <2>3, <2>4, <2>5, <2>6
<1>4. \A i \in Slot : LET e == buffer.entry[i]
                      IN  e.buffptr # NULL => e.size = Len(heap[e.buffptr])
  BY DEF MemInv, NoDangling
<1>5. (\A p \in Proc : pc[p] # "w_store") /\ mod = "live" =>
        partial_size = IF partial_write = NULL THEN 0 ELSE Len(heap[partial_write])
  BY DEF MemInv, Holds, PartialPtr, Storing
<1> QED
  BY <1>2, <1>3, <1>4, <1>5 DEF HeapSafe

\* Every step keeps the invariant, loses at most an overwritten block, and is
\* a step of the log.
LEMMA NextKeeps ==
  ASSUME LockInv, MemInv, [Next]_vars
  PROVE  /\ LockInv' /\ MemInv' /\ LossByOverwrite
         /\ LogSame \/ Log!Reset \/ \E d \in Data \ {<< >>} : Log!Commit(d)
<1> DEFINE Done == /\ LockInv' /\ MemInv' /\ LossByOverwrite
                   /\ LogSame \/ Log!Reset \/ \E d \in Data \ {<< >>} : Log!Commit(d)
<1>0. NoLoss => LossByOverwrite
  BY DEF NoLoss, LossByOverwrite
<1>1. CASE UNCHANGED vars
  <2>1. LockInv'
    BY <1>1 DEF vars, LockInv, Shaped, InUse, LockDiscipline
  <2>2. MemInv'
    BY <1>1 DEF vars, device, MemInv, MemTyped, NoDangling, NoSharing, Holds, RingHolds,
                PartialPtr, Storing
  <2>3. NoLoss
    BY <1>1 DEF vars, device, NoLoss, Owned, PartialPtr, Storing
  <2>4. LogSame
    BY <1>1 DEF vars, device, LogSame, Commands, Pending, Contents, Count, SlotAt
  <2> QED
    BY <1>0, <2>1, <2>2, <2>3, <2>4
<1>2. CASE Module \/ Files
  BY <1>0, <1>2, ModuleKeepsLock, ModuleKeepsMem, FilesKeepLock, FilesKeepMem
<1>3. ASSUME NEW p \in Proc, SysCall(p) \/ Lock(p) \/ Interrupted(p)
      PROVE  Done
  BY <1>0, <1>3, SysCallKeepsLock, SysCallKeepsMem, LockKeepsLock, LockKeepsMem,
     InterruptedKeepsLock, InterruptedKeepsMem
<1>4. ASSUME NEW p \in Proc, Body(p)
      PROVE  Done
  BY <1>4, BodyKeepsLock, BodyKeepsMem DEF LogStep
<1> QED
  BY <1>1, <1>2, <1>3, <1>4 DEF Next

\* The locking and the memory of the driver, together: neither is lost by any
\* step, for any number of processes, files and blocks.
LEMMA InvHolds == Spec => [](LockInv /\ MemInv)
<1>1. LockInv /\ MemInv /\ [Next]_vars => (LockInv /\ MemInv)'
  BY NextKeeps
<1> QED
  BY InitLockInv, InitMemInv, <1>1, PTL DEF Spec

\* kmalloc, krealloc and kfree are used safely on every path of aesd_write,
\* aesd_init_module and aesd_cleanup_module: no pointer of the driver dangles,
\* no block has two owners that would both free it, the sizes in the ring are
\* those of the blocks, and partial_write is not used between the krealloc that
\* may move its block and the store.
THEOREM DriverHeapSafe == Spec => []HeapSafe
BY InvHolds, MemInvIsSafe, PTL

\* Reachable blocks are the owned ones.
LEMMA ReachableAre == \A b \in Ptr : b \in Reachable <=> Owned(b)
<1> TAKE b \in Ptr
<1>0. b # NULL
  BY PtrAssumption DEF NULL
<1>1. ASSUME b \in Reachable
      PROVE  Owned(b)
  <2>1. PICK r \in Refs : r[3] = b
    BY <1>1 DEF Reachable
  <2> QED
    BY <2>1, RefsAre DEF Owned
<1>2. ASSUME Owned(b)
      PROVE  \E r \in Refs : r[3] = b
  <2>1. ASSUME NEW i \in Slot, buffer.entry[i].buffptr = b
        PROVE  \E r \in Refs : r[3] = b
    <3>1. <<"entry", i, buffer.entry[i].buffptr>> \in Refs
      BY <1>0, <2>1 DEF Refs
    <3> QED
      BY <2>1, <3>1
  <2>2. ASSUME NEW p \in Proc, call[p].tmp_buf = b
        PROVE  \E r \in Refs : r[3] = b
    <3>1. <<"tmp_buf", p, call[p].tmp_buf>> \in Refs
      BY <1>0, <2>2 DEF Refs
    <3> QED
      BY <2>2, <3>1
  <2>3. ASSUME NEW p \in Proc, call[p].combined_buf = b
        PROVE  \E r \in Refs : r[3] = b
    <3>1. <<"combined_buf", p, call[p].combined_buf>> \in Refs
      BY <1>0, <2>3 DEF Refs
    <3> QED
      BY <2>3, <3>1
  <2>4. CASE PartialPtr = b
    <3>1. ~Storing /\ partial_write = b
      BY <1>0, <2>4 DEF PartialPtr
    <3>2. <<"partial", 0, partial_write>> \in Refs
      BY <1>0, <3>1 DEF Refs, Storing
    <3> QED
      BY <3>1, <3>2
  <2> QED
    BY <1>2, <2>1, <2>2, <2>3, <2>4 DEF Owned
<1> QED
  BY <1>1, <1>2 DEF Reachable

\* aesd_write, aesd_cleanup_module and every error path free what they
\* allocated: the only block the driver ever loses is that of the oldest entry,
\* when an entry is added to a full ring.
THEOREM DriverLeaksOnlyByOverwrite == Spec => LeakOnlyByOverwrite
<1> DEFINE AllOwned == \A b \in Ptr : b \in Reachable <=> Owned(b)
<1> HIDE DEF AllOwned
<1>1. AllOwned
  BY ReachableAre DEF AllOwned
<1>2. AllOwned'
  BY <1>1, PTL
<1>3. LockInv /\ MemInv /\ [Next]_vars =>
        [\A b \in Leaked' \ Leaked :
           /\ buffer.full /\ b = buffer.entry[buffer.in_offs].buffptr
           /\ buffer' # buffer]_vars
  <2> SUFFICES ASSUME LockInv, MemInv, [Next]_vars, NEW b \in Leaked', b \notin Leaked
               PROVE  /\ buffer.full /\ b = buffer.entry[buffer.in_offs].buffptr
                      /\ buffer' # buffer
    OBVIOUS
  <2>1. b \in Ptr /\ heap'[b] # << >> /\ b \notin Reachable'
    BY DEF Leaked, Allocated
  <2>2. heap[b] = << >> \/ b \in Reachable
    BY <2>1 DEF Leaked, Allocated
  <2>3. b \in Reachable <=> Owned(b)
    BY <2>1, ReachableAre
  <2>4. b \in Reachable' <=> Owned(b)'
    BY <1>2, <2>1 DEF AllOwned
  <2>5. LossByOverwrite
    BY NextKeeps
  <2> QED
    BY <2>1, <2>2, <2>3, <2>4, <2>5 DEF LossByOverwrite
<1> QED
  BY InvHolds, <1>3, PTL DEF Spec, LeakOnlyByOverwrite

\* The device implements the log of commands: under every interleaving of
\* writers, failed allocations and copies, signals and unloads, each write
\* takes effect in one step or not at all, a command is complete with its
\* newline, and the last MaxOps complete ones are kept in order.
THEOREM DriverImplementsLog == Spec => ImplementsCommandLog
<1>1. Init => Log!Init
  <2> SUFFICES ASSUME Init
               PROVE  Log!Init
    OBVIOUS
  <2>1. Commands = << >> /\ Pending = << >>
    BY DEF Init, Commands, Pending
  <2> QED
    BY <2>1 DEF Log!Init
<1>2. LockInv /\ MemInv /\ [Next]_vars => [Log!Next]_<<Commands, Pending>>
  <2> SUFFICES ASSUME LockInv, MemInv, [Next]_vars
               PROVE  [Log!Next]_<<Commands, Pending>>
    OBVIOUS
  <2>1. LogSame \/ Log!Reset \/ \E d \in Data \ {<< >>} : Log!Commit(d)
    BY NextKeeps
  <2> QED
    BY <2>1 DEF Log!Next, LogSame
<1> QED
  BY InvHolds, <1>1, <1>2, PTL DEF Spec, ImplementsCommandLog, Log!Spec

\* A step of process q moves no other process.
LEMMA StepMovesOne ==
  ASSUME NEW q \in Proc, SysCall(q) \/ Lock(q) \/ Interrupted(q) \/ Body(q)
  PROVE  \E label : pc' = [pc EXCEPT ![q] = label]
<1>1. CASE SysCall(q)
  BY <1>1, ZenonT(30) DEF SysCall, SysRead, SysWrite, SysSeek, Fail, Goto
<1>2. CASE Lock(q) \/ Interrupted(q)
  BY <1>2 DEF Lock, ReadLock, WriteLock, SeekLock, Acquire, Interrupted, ReadInterrupted,
              WriteInterrupted, Fail, Goto
<1>3. CASE ReadCopy(q) \/ ReadFault(q) \/ ReadDone(q) \/ Unlock(q) \/ Return(q)
  BY <1>3 DEF ReadCopy, ReadFault, ReadDone, Unlock, Return, Goto
<1>4. CASE WriteDirect(q) \/ WriteFirstPart(q) \/ WriteAppend(q) \/ WriteAppendFails(q)
           \/ WriteStore(q) \/ WriteFree(q)
  BY <1>4 DEF WriteDirect, WriteFirstPart, WriteAppend, WriteAppendFails, WriteStore,
              WriteFree, Goto
<1>5. CASE Llseek(q) \/ Ioctl(q)
  BY <1>5 DEF Llseek, Ioctl, FinishSeek, Goto
<1>6. CASE Body(q)
  BY <1>3, <1>4, <1>5, <1>6, Zenon DEF Body
<1> QED
  BY <1>1, <1>2, <1>6, Zenon

\* aesd_write tells its caller the truth: a negative result leaves the log
\* as it was, and count means that the bytes were committed, once, whatever
\* other processes do meanwhile.
THEOREM DriverWritesTellTheTruth == Spec => WriteTellsTheTruth
<1> DEFINE Truth(p) ==
      pc[p] \in {"w_lock", "w_body", "w_store"} /\ pc'[p] \in {"unlock", "ret"} =>
        IF call'[p].retval < 0 THEN UNCHANGED <<Commands, Pending>>
        ELSE call'[p].retval = Len(call[p].data) /\ Log!Commit(call[p].data)
<1>1. LockInv /\ MemInv /\ [Next]_vars => [\A p \in Proc : Truth(p)]_vars
  <2> SUFFICES ASSUME LockInv, MemInv, Next, NEW p \in Proc,
                      pc[p] \in {"w_lock", "w_body", "w_store"}, pc'[p] \in {"unlock", "ret"}
               PROVE  IF call'[p].retval < 0 THEN UNCHANGED <<Commands, Pending>>
                      ELSE call'[p].retval = Len(call[p].data) /\ Log!Commit(call[p].data)
    OBVIOUS
  <2>1. /\ IsCall(call[p]) /\ Locals(pc[p], call[p])
        /\ DOMAIN pc = Proc /\ DOMAIN call = Proc
    BY DEF LockInv, Shaped, MemInv, MemTyped
  <2>2. ~(Module \/ Files)
    BY DEF Module, AllocRegion, SetupCdev, SetupCdevFails, Cleanup, Files, Open, Release
  <2>3. SysCall(p) \/ Lock(p) \/ Interrupted(p) \/ Body(p)
    <3>1. PICK q \in Proc : SysCall(q) \/ Lock(q) \/ Interrupted(q) \/ Body(q)
      BY <2>2 DEF Next
    <3>2. PICK label : pc' = [pc EXCEPT ![q] = label]
      BY <3>1, StepMovesOne
    <3>3. q = p
      BY <2>1, <3>2
    <3> QED
      BY <3>1, <3>3
  <2>4. WriteInterrupted(p) \/ WriteAppendFails(p) \/ WriteDirect(p) \/ WriteStore(p)
    <3>1. ~SysCall(p)
      BY DEF SysCall, SysRead, SysWrite, SysSeek
    <3>2. ~Lock(p) /\ ~ReadInterrupted(p)
      BY <2>1 DEF Lock, ReadLock, WriteLock, SeekLock, Acquire, Goto, ReadInterrupted
    <3>3. /\ ~ReadCopy(p) /\ ~ReadFault(p) /\ ~ReadDone(p) /\ ~WriteFree(p)
          /\ ~Llseek(p) /\ ~Ioctl(p) /\ ~Unlock(p) /\ ~Return(p)
      BY DEF ReadCopy, ReadFault, ReadDone, WriteFree, Llseek, Ioctl, Unlock, Return
    <3>4. ~WriteFirstPart(p) /\ ~WriteAppend(p)
      BY <2>1 DEF WriteFirstPart, WriteAppend, Goto
    <3> QED
      BY <2>3, <3>1, <3>2, <3>3, <3>4, SMTT(30) DEF Body, Interrupted
  <2>5. CASE WriteInterrupted(p)
    <3>1. LogSame
      BY <2>5, InterruptedKeepsMem DEF Interrupted
    <3>2. call'[p].retval = -ERESTARTSYS
      BY <2>1, <2>5 DEF WriteInterrupted, Fail, Goto, IsCall, NoCall
    <3> QED
      BY <3>1, <3>2 DEF LogSame, ERESTARTSYS
  <2>6. CASE WriteAppendFails(p)
    <3>1. call'[p].retval = -ENOMEM
      BY <2>1, <2>6 DEF WriteAppendFails, Goto, IsCall, NoCall
    <3>2. LogSame
      <4> DEFINE c == [call[p] EXCEPT !.retval = -ENOMEM]
      <4>1. /\ c.op = call[p].op /\ c.data = call[p].data
            /\ c.tmp_buf = call[p].tmp_buf /\ c.combined_buf = call[p].combined_buf
        BY <2>1 DEF IsCall, NoCall
      <4>2. Goto(p, "unlock", c) /\ pc[p] = "w_body" /\ UNCHANGED <<mod, device, heap>>
        BY <2>6 DEF WriteAppendFails
      <4> HIDE DEF c
      <4>3. Locals("unlock", c)
        BY <2>1, <4>1, <4>2 DEF Locals
      <4> QED
        BY <4>1, <4>2, <4>3, LocalStepKeepsMem
    <3> QED
      BY <3>1, <3>2 DEF LogSame, ENOMEM
  <2>7. CASE WriteDirect(p) \/ WriteStore(p)
    <3>1. call'[p].retval = Len(call[p].data)
      <4> DEFINE d == HandedOver(call[p])
                 e == [call[p] EXCEPT !.retval = Len(call[p].data), !.combined_buf = NULL]
      <4>1. Goto(p, "unlock", d) \/ Goto(p, "unlock", e)
        BY <2>7 DEF WriteDirect, WriteStore
      <4>2. d.retval = Len(call[p].data) /\ e.retval = Len(call[p].data)
        BY <2>1 DEF HandedOver, IsCall, NoCall
      <4> HIDE DEF d, e
      <4>3. call'[p] = d \/ call'[p] = e
        BY <2>1, <4>1 DEF Goto
      <4> QED
        BY <4>2, <4>3
    <3>2. Len(call[p].data) \in Nat
      BY <2>1, <2>7, AesdCharAssumption DEF WriteDirect, WriteStore, Locals
    <3> QED
      BY <2>7, <3>1, <3>2, WriteDirectKeepsMem, WriteStoreKeepsMem
  <2> QED
    BY <2>4, <2>5, <2>6, <2>7
<1> QED
  BY InvHolds, <1>1, PTL DEF Spec, WriteTellsTheTruth

-----------------------------------------------------------------------------
(* The bytes of the device.                                                *)

LOCAL INSTANCE SequencesExt

\* The commands are the blocks of the entries that the walk meets.
LEMMA CommandAt ==
  ASSUME MemInv, mod = "live"
  PROVE  /\ Commands \in Seq(Seq(Nat)) /\ Len(Commands) = Count(buffer)
         /\ Count(buffer) \in 0..MaxOps
         /\ \A i \in 1..Count(buffer) :
              LET e == buffer.entry[SlotAt(buffer, i - 1)]
              IN  /\ e.buffptr # NULL /\ Commands[i] = heap[e.buffptr]
                  /\ e.size = Len(Commands[i]) /\ SizeAt(buffer, i) = Len(Commands[i])
<1> DEFINE n == Count(buffer)
<1>1. buffer \in Buffer /\ RingShape(buffer) /\ heap \in [Ptr -> Seq(Nat)]
  BY DEF MemInv, MemTyped, RingHolds
<1>2. n \in 0..MaxOps /\ MaxOps \in Nat
  BY <1>1, CountValue, MaxOpsAssumption
<1>3. /\ Commands = [i \in 1..n |-> heap[Contents(buffer)[i].buffptr]]
      /\ \A i \in 1..n : \E k \in Slot : /\ Contents(buffer)[i] = buffer.entry[k]
                                         /\ buffer.entry[k].buffptr # NULL
  BY CommandsAre
<1>4. \A i \in 1..n : Contents(buffer)[i] = buffer.entry[SlotAt(buffer, i - 1)]
  BY DEF Contents
<1> HIDE DEF n
<1>5. ASSUME NEW i \in 1..n
      PROVE  LET e == buffer.entry[SlotAt(buffer, i - 1)]
             IN  /\ e.buffptr # NULL /\ Commands[i] = heap[e.buffptr]
                 /\ e.size = Len(Commands[i]) /\ Commands[i] \in Seq(Nat)
  <2>1. PICK k \in Slot : buffer.entry[SlotAt(buffer, i - 1)] = buffer.entry[k]
                          /\ buffer.entry[k].buffptr # NULL
    BY <1>3, <1>4
  <2>2. buffer.entry[k].size = Len(heap[buffer.entry[k].buffptr])
    BY <2>1 DEF MemInv, NoDangling
  <2>3. buffer.entry[k].buffptr \in Ptr
    BY <1>1, <2>1 DEF Buffer, Entry
  <2>4. Commands[i] = heap[buffer.entry[k].buffptr]
    BY <1>3, <1>4, <2>1
  <2> QED
    BY <1>1, <2>1, <2>2, <2>3, <2>4
<1>6. Commands \in Seq(Seq(Nat)) /\ Len(Commands) = n
  <2>1. Commands = [i \in 1..n |-> Commands[i]]
    BY <1>3
  <2>2. n \in Nat /\ \A i \in 1..n : Commands[i] \in Seq(Nat)
    BY <1>2, <1>5
  <2> QED
    BY <2>1, <2>2
<1> QED
  BY <1>2, <1>5, <1>6 DEF SizeAt, n

\* Where each byte of a command is among the bytes of the device.
LEMMA BytesAt ==
  ASSUME MemInv, mod = "live"
  PROVE  /\ Bytes \in Seq(Nat) /\ Len(Bytes) = TotalSize(buffer)
         /\ \A i \in 0..Count(buffer) :
              Len(FlattenSeq(SubSeq(Commands, 1, i))) = BytesBefore(buffer, i)
         /\ \A i \in 1..Count(buffer) : \A j \in 1..Len(Commands[i]) :
              Bytes[BytesBefore(buffer, i - 1) + j] = Commands[i][j]
<1> DEFINE n == Count(buffer)
           B(i) == BytesBefore(buffer, i)
           s == Commands
<1>1. buffer \in Buffer /\ RingShape(buffer)
  BY DEF MemInv, MemTyped, RingHolds
<1>2. /\ s \in Seq(Seq(Nat)) /\ Len(s) = n /\ n \in 0..MaxOps
      /\ \A i \in 1..n : SizeAt(buffer, i) = Len(s[i])
  BY CommandAt
<1>3. MaxOps \in Nat /\ n \in Nat /\ \A i \in 1..n : i \in 1..MaxOps /\ i - 1 \in 0..n
  BY <1>2, MaxOpsAssumption
<1>4. B(0) = 0 /\ \A i \in 1..n : B(i) = B(i - 1) + Len(s[i])
  BY <1>1, <1>2, <1>3, BytesBeforeValue
<1>5. TotalSize(buffer) = B(n)
  BY <1>1, TotalIsStored
<1>6. Bytes = FlattenSeq(s)
  BY DEF Bytes
<1> HIDE DEF n, B, s
<1>7. s \in [1..n -> Seq(Nat)]
  BY <1>2
<1>8. PICK F \in [0..n -> Seq(Nat)] :
        /\ F[0] = << >> /\ \A i \in 1..n : F[i] = F[i - 1] \o s[i]
        /\ \A i \in 0..n : FlattenSeq(SubSeq(s, 1, i)) = F[i]
        /\ FlattenSeq(s) = F[n]
  BY <1>2, FlattenSteps
<1> DEFINE b == [i \in 0..n |-> B(i)]
<1>9. /\ Sums(b, s, n)
      /\ \A i \in 0..n : b[i] = B(i)
  <2>1. \A i \in 1..n : i \in 0..n /\ i - 1 \in 0..n
    BY <1>3
  <2>2. 0 \in 0..n
    BY <1>3
  <2>3. \A i \in 0..n : b[i] = B(i)
    OBVIOUS
  <2> HIDE DEF b
  <2> QED
    BY <1>4, <2>1, <2>2, <2>3 DEF Sums
<1> HIDE DEF b
<1>10. /\ \A i \in 0..n : Len(F[i]) = b[i]
       /\ \A i \in 1..n : \A j \in 1..Len(s[i]) : F[n][b[i - 1] + j] = s[i][j]
  <2>1. n \in Nat
    BY <1>3
  <2>2. Joins(F, s, n)
    BY <1>8 DEF Joins
  <2>3. Sums(b, s, n)
    BY <1>9
  <2>4. F \in [0..n -> Seq(Nat)]
    OBVIOUS
  <2>5. Placed(F, s, b, n)
    BY <1>7, <2>1, <2>2, <2>3, <2>4, FlattenAt
  <2> QED
    BY <2>5 DEF Placed
<1>11. \A i \in 0..n : Len(F[i]) = B(i)
  BY <1>9, <1>10
<1>12. \A i \in 1..n : \A j \in 1..Len(s[i]) : F[n][B(i - 1) + j] = s[i][j]
  <2>1. \A i \in 1..n : b[i - 1] = B(i - 1)
    BY <1>3, <1>9
  <2> QED
    BY <1>10, <2>1
<1>13. n \in 0..n
  BY <1>3
<1>14. Bytes \in Seq(Nat) /\ Len(Bytes) = B(n)
  BY <1>6, <1>8, <1>11, <1>13
<1> QED
  BY <1>5, <1>6, <1>8, <1>11, <1>12, <1>14 DEF n, B, s

-----------------------------------------------------------------------------
(* Reading.                                                                *)

\* One turn of the loop of aesd_read takes the next bytes of the device, and
\* nothing only when the data has ended or the user's buffer is full.
ChunkFits(c, chunk) ==
  /\ chunk \in Seq(Nat)
  /\ c.pos >= Len(Bytes) => chunk = << >>
  /\ c.pos < Len(Bytes) =>
       /\ c.pos + Len(chunk) <= Len(Bytes) /\ Len(chunk) <= c.count - Len(c.ubuf)
       /\ chunk = SubSeq(Bytes, c.pos + 1, c.pos + Len(chunk))
       /\ chunk = << >> => Len(c.ubuf) = c.count

\* The loop's FindEntry, minimum and copy do that.
LEMMA ChunkIs ==
  ASSUME MemInv, mod = "live", NEW c, c.pos \in Nat, c.count \in Nat,
         c.ubuf \in Seq(Nat), Len(c.ubuf) <= c.count
  PROVE  ChunkFits(c, NextChunk(c))
<1> DEFINE n == Count(buffer)
           B(i) == BytesBefore(buffer, i)
           pos == c.pos
           room == c.count - Len(c.ubuf)
           hit == FindEntry(buffer, pos)
           chunk == NextChunk(c)
<1>1. buffer \in Buffer /\ RingShape(buffer)
  BY DEF MemInv, MemTyped, RingHolds
<1>2. Bytes \in Seq(Nat) /\ Len(Bytes) = TotalSize(buffer) /\ Len(Bytes) \in Nat
  BY BytesAt
<1>3. room \in Nat
  OBVIOUS
<1>4. CASE pos >= Len(Bytes)
  <2>1. hit = NotFound
    BY <1>1, <1>2, <1>4, FindEntryExact
  <2>2. chunk = << >>
    BY <2>1 DEF NextChunk, NotFound
  <2> QED
    BY <1>2, <1>4, <2>2 DEF ChunkFits
<1>5. CASE pos < Len(Bytes)
  <2>1. PICK i \in 0..(n - 1) : B(i) <= pos /\ pos < B(i + 1) /\ hit = Hit(buffer, pos, i)
    BY <1>1, <1>2, <1>5, FindEntryExact
  <2> DEFINE k == i + 1
             e == buffer.entry[SlotAt(buffer, i)]
             off == pos - B(i)
             size == e.size
             len == IF size - off > room THEN room ELSE size - off
  <2>2. n \in 0..MaxOps /\ MaxOps \in Nat
    BY <1>1, TotalIsStored, MaxOpsAssumption
  <2>3. k \in 1..n /\ k \in 1..MaxOps /\ k - 1 = i /\ i \in 0..MaxOps
    BY <2>1, <2>2
  <2>4. /\ B(k) = B(i) + SizeAt(buffer, k) /\ B(k) \in Nat /\ B(i) \in Nat
        /\ SizeAt(buffer, k) = size
    <3> HIDE DEF k
    <3>1. B(k) = B(k - 1) + SizeAt(buffer, k) /\ B(k) \in Nat /\ B(i) \in Nat
      BY <1>1, <2>3, BytesBeforeValue
    <3>2. SizeAt(buffer, k) = size
      BY <2>3 DEF SizeAt
    <3> QED
      BY <2>3, <3>1, <3>2
  <2>5. /\ e.buffptr # NULL /\ Commands[k] = heap[e.buffptr] /\ size = Len(Commands[k])
        /\ Commands[k] \in Seq(Nat)
    BY <2>3, CommandAt
  <2>6. \A j \in 1..size : Bytes[B(i) + j] = Commands[k][j]
    BY <2>3, <2>5, BytesAt
  <2>7. hit.found /\ buffer.entry[hit.slot] = e /\ hit.offset = off
    BY <2>1 DEF Hit
  <2>8. chunk = SubSeq(Commands[k], off + 1, off + len)
    BY <2>5, <2>7 DEF NextChunk
  <2>9. B(k) <= Len(Bytes)
    <3>1. TotalSize(buffer) = B(n)
      BY <1>1, TotalIsStored
    <3>2. n \in 0..MaxOps /\ k \in 0..MaxOps /\ k <= n
      BY <2>2, <2>3
    <3> QED
      BY <1>1, <1>2, <3>1, <3>2, BytesGrow
  <2>10. /\ off \in Nat /\ off < size /\ size \in Nat /\ pos = B(i) + off
    <3> HIDE DEF B, n, hit, e
    <3> QED
      BY <2>1, <2>3, <2>4, <2>5, SMTT(30)
  <2> HIDE DEF n, B, pos, room, hit, chunk, k, e, off, size
  <2>11. len \in Nat /\ len <= room /\ off + len <= size /\ (len = 0 => room = 0)
    BY <1>3, <2>10
  <2> HIDE DEF len
  <2>12. chunk \in Seq(Nat) /\ Len(chunk) = len
    <3>1. Commands[k] \in Seq(Nat) /\ off \in Nat /\ len \in Nat /\ off + len <= Len(Commands[k])
      BY <2>5, <2>10, <2>11
    <3> QED
      BY <2>8, <3>1, SliceAt
  <2>13. pos \in Nat /\ pos + len <= Len(Bytes)
    <3>1. pos + len <= B(k)
      BY <2>4, <2>10, <2>11
    <3>2. pos \in Nat /\ B(k) \in Nat
      BY <2>4, <2>10
    <3> QED
      BY <1>2, <2>9, <2>11, <3>1, <3>2
  <2>14. ASSUME NEW j \in 1..len
         PROVE  Commands[k][off + j] = Bytes[pos + j]
    <3>1. off + j \in 1..size /\ B(i) + (off + j) = pos + j
      BY <2>4, <2>10, <2>11
    <3> QED
      BY <2>6, <3>1
  <2>15. chunk = SubSeq(Bytes, pos + 1, pos + len)
    <3>1. PICK s, a, t, b, m : s = Commands[k] /\ a = off /\ t = Bytes /\ b = pos /\ m = len
      OBVIOUS
    <3>2. Agree(s, a, t, b, m)
      BY <2>14, <3>1 DEF Agree
    <3>3. s \in Seq(Nat) /\ a \in Nat /\ m \in Nat /\ a + m <= Len(s)
      BY <2>5, <2>10, <2>11, <3>1
    <3>4. t \in Seq(Nat) /\ b \in Nat /\ b + m <= Len(t)
      BY <1>2, <2>13, <3>1
    <3>5. SubSeq(s, a + 1, a + m) = SubSeq(t, b + 1, b + m)
      BY <3>2, <3>3, <3>4, SameSlice, SMTT(30)
    <3> QED
      BY <2>8, <3>1, <3>5
  <2>16. chunk = << >> => room = 0
    <3>1. Len(<< >>) = 0
      OBVIOUS
    <3> QED
      BY <2>11, <2>12, <3>1
  <2>17. room = 0 => Len(c.ubuf) = c.count
    BY DEF room
  <2>18. ~(c.pos >= Len(Bytes))
    BY <1>2, <1>5, <2>13 DEF pos
  <2> QED
    BY <2>11, <2>12, <2>13, <2>15, <2>16, <2>17, <2>18 DEF ChunkFits, chunk, pos, room
<1> QED
  BY <1>2, <1>4, <1>5

-----------------------------------------------------------------------------
(* Positions.                                                              *)

\* What a read has copied so far: the bytes up to its position.
Copied(c, B) ==
  /\ Len(c.ubuf) <= c.count /\ Len(c.ubuf) <= c.pos
  /\ c.ubuf # << >> => c.pos <= Len(B)
  /\ EndsAt(c.ubuf, B, c.pos)

\* What a read that ends well has copied, as ReadExact says it.
CopiedAll(c, B) ==
  LET start == c.pos - Len(c.ubuf)
      end == IF start + c.count < Len(B) THEN start + c.count ELSE Len(B)
  IN  c.ubuf = SubSeq(B, start + 1, end) /\ c.retval = Len(c.ubuf)

\* Arguments and locals that have to do with positions, of process p at label l.
Args(p, l, c) ==
  /\ c.file \in File \cup {0}
  /\ l # "idle" => <<p, c.file>> \in Uses
  /\ c.pos \in 0..LoffMax /\ c.count \in Nat /\ c.retval \in Int /\ c.ubuf \in Seq(Nat)
  /\ l = "r_lock" => c.ubuf = << >>
  /\ l \in {"s_lock", "s_body"} => c.seek \in Seeks

\* Every process has such locals, and every position is one.
Positions ==
  /\ opened \subseteq File /\ f_pos \in [File -> 0..LoffMax]
  /\ \A p \in Proc : Args(p, pc[p], call[p])

\* Reads in the loop and reads about to return.
Reading ==
  \A p \in Proc :
    /\ pc[p] = "r_loop" => Copied(call[p], Bytes)
    /\ pc[p] = "unlock" /\ call[p].op = "read" /\ call[p].retval >= 0 => CopiedAll(call[p], Bytes)

\* Who uses what.
LEMMA UserIsKnown ==
  ASSUME NEW p, NEW f, <<p, f>> \in Uses
  PROVE  p \in Proc /\ f \in File /\ f # 0
BY AesdCharAssumption

\* loff_t holds every position in a full device.
LEMMA DeviceFits ==
  ASSUME MemInv, mod = "live"
  PROVE  TotalSize(buffer) \in 0..LoffMax
<1>1. buffer \in Buffer /\ RingShape(buffer) /\ heap \in [Ptr -> Seq(Nat)]
  BY DEF MemInv, MemTyped, RingHolds
<1>2. ASSUME NEW i \in Slot
      PROVE  buffer.entry[i].size \in 0..MaxAlloc
  <2> DEFINE e == buffer.entry[i]
  <2>1. e \in Entry /\ e.size \in Nat /\ MaxAlloc \in Nat
    BY <1>1, AesdCharAssumption DEF Buffer, Entry
  <2>2. CASE e.buffptr # NULL
    <3>1. e.buffptr \in Ptr
      BY <2>1, <2>2 DEF Entry
    <3>2. Len(heap[e.buffptr]) <= MaxAlloc /\ e.size = Len(heap[e.buffptr])
      BY <2>2, <3>1 DEF MemInv, MemTyped, NoDangling
    <3> QED
      BY <2>1, <3>2
  <2>3. CASE e.buffptr = NULL
    <3>1. ~buffer.full /\ ~(i < buffer.in_offs)
      BY <2>3 DEF MemInv, RingHolds
    <3>2. i \in Int /\ buffer.in_offs \in Int
      BY <1>1, MaxOpsAssumption DEF Buffer, Slot
    <3>3. e = NoEntry
      BY <1>1, <3>1, <3>2 DEF RingShape
    <3> QED
      BY <2>1, <3>3 DEF NoEntry
  <2> QED
    BY <2>2, <2>3
<1> DEFINE U(i) == UpTo(buffer)[i]
           S == {i \in 0..MaxOps : U(i) <= i * MaxAlloc}
<1>3. /\ MaxOps \in Nat /\ MaxAlloc \in Nat /\ LoffMax \in Nat /\ MaxOps * MaxAlloc <= LoffMax
      /\ \A i \in 1..MaxOps : i - 1 \in Slot
  BY MaxOpsAssumption, AesdCharAssumption DEF Slot
<1>4. /\ U(0) = 0 /\ \A i \in 1..MaxOps : U(i) = U(i - 1) + buffer.entry[i - 1].size
      /\ \A i \in 0..MaxOps : U(i) \in Nat
      /\ TotalSize(buffer) = U(MaxOps)
  BY <1>1, UpToValue
<1> HIDE DEF U
<1>5. 0 \in S
  BY <1>3, <1>4
<1>6. ASSUME NEW i \in 1..MaxOps, i - 1 \in S
      PROVE  i \in S
  <2> DEFINE a == U(i - 1)
             d == buffer.entry[i - 1].size
  <2>1. a <= (i - 1) * MaxAlloc /\ d <= MaxAlloc /\ a \in Nat /\ d \in Nat /\ U(i) = a + d
    BY <1>2, <1>3, <1>4, <1>6
  <2>2. (i - 1) * MaxAlloc + MaxAlloc = i * MaxAlloc
    BY <1>3
  <2>3. i \in 0..MaxOps /\ i * MaxAlloc \in Nat /\ (i - 1) * MaxAlloc \in Nat
    BY <1>3
  <2> HIDE DEF a, d
  <2>4. U(i) <= i * MaxAlloc
    BY <1>3, <2>1, <2>2, <2>3
  <2> QED
    BY <2>3, <2>4
<1>7. \A i \in 0..MaxOps : i \in S
  <2> HIDE DEF S
  <2> QED
    BY <1>3, <1>5, <1>6, SegmentInduction
<1>8. U(MaxOps) <= MaxOps * MaxAlloc /\ U(MaxOps) \in Nat
  BY <1>3, <1>4, <1>7
<1>9. MaxOps * MaxAlloc \in Nat
  BY <1>3
<1> QED
  BY <1>3, <1>4, <1>8, <1>9

\* While p is inside, nobody else changes the commands.
LEMMA OthersKeepCommands ==
  ASSUME LockInv, MemInv, NEW q \in Proc, SysCall(q) \/ Lock(q) \/ Interrupted(q) \/ Body(q),
         NEW p \in Proc, p # q, pc[p] \in Critical
  PROVE  Commands' = Commands
<1>1. CASE SysCall(q) \/ Lock(q) \/ Interrupted(q)
  BY <1>1, SysCallKeepsMem, LockKeepsMem, InterruptedKeepsMem DEF LogSame
<1>2. CASE Body(q)
  <2>1. pc[q] \notin Critical
    BY HolderIsAlone, Zenon
  <2>2. WriteFree(q) \/ Return(q)
    BY <1>2, <2>1, ZenonT(30) DEF Body, Critical, ReadCopy, ReadFault, ReadDone, WriteDirect, WriteFirstPart,
       WriteAppend, WriteAppendFails, WriteStore, Llseek, Ioctl, FinishSeek, Unlock
  <2>3. mod' = mod /\ buffer' = buffer
    BY <2>2 DEF WriteFree, Return, device
  <2>4. \A i \in Slot : buffer.entry[i].buffptr # NULL =>
           heap'[buffer.entry[i].buffptr] = heap[buffer.entry[i].buffptr]
    <3>1. CASE Return(q)
      BY <3>1 DEF Return
    <3>2. CASE WriteFree(q)
      <4>1. heap' = Kfree(heap, call[q].tmp_buf)
        BY <3>2 DEF WriteFree
      <4>2. heap \in [Ptr -> Seq(Nat)] /\ \A b \in Ptr : Len(heap[b]) <= MaxAlloc
        BY DEF MemInv, MemTyped
      <4>3. call[q].tmp_buf \in Ptr \cup {NULL}
        BY DEF MemInv, MemTyped, Locals
      <4>4. \A b \in Ptr : b # call[q].tmp_buf => Kfree(heap, call[q].tmp_buf)[b] = heap[b]
        BY <4>2, <4>3, KfreeBlocks
      <4>5. \A i \in Slot : buffer.entry[i].buffptr # NULL =>
              buffer.entry[i].buffptr \in Ptr /\ buffer.entry[i].buffptr # call[q].tmp_buf
        BY DEF MemInv, MemTyped, NoSharing, Buffer, Entry
      <4> QED
        BY <4>1, <4>4, <4>5
    <3> QED
      BY <2>2, <3>1, <3>2
  <2> QED
    BY <2>3, <2>4, CommandsStay
<1> QED
  BY <1>1, <1>2

-----------------------------------------------------------------------------
(* Seeking.                                                                *)

\* The sum that aesd_llseek forms, before it wraps.
Asked(s, cur, total) ==
  CASE s.whence = "CUR" -> cur + s.offset
    [] s.whence = "END" -> total + s.offset
    [] OTHER -> s.offset

\* Wrapping takes a sum that is too large out of the range that is accepted.
LEMMA AskedFits ==
  ASSUME NEW s \in Seeks, NEW cur \in 0..LoffMax, NEW total \in 0..LoffMax,
         NEW a, a = Asked(s, cur, total)
  PROVE  /\ a \in Int
         /\ Loff(a) >= 0 /\ Loff(a) <= total <=> a >= 0 /\ a <= total
         /\ a >= 0 /\ a <= total => Loff(a) = a
<1>1. LoffMax \in Nat /\ s.offset \in -(LoffMax + 1)..LoffMax
  BY AesdCharAssumption DEF Seek
<1>2. a \in Int /\ a >= -(LoffMax + 1) /\ a <= 2 * LoffMax
  BY <1>1 DEF Asked
<1> DEFINE n == 2 * (LoffMax + 1)
           m == a + LoffMax + 1
<1>3. n \in Nat \ {0} /\ m \in 0..(2 * n - 1)
  BY <1>1, <1>2
<1>4. m % n = IF m < n THEN m ELSE m - n
  <2> HIDE DEF n, m
  <2> QED
    BY <1>3, ModWrap
<1>5. Loff(a) = (m % n) - (LoffMax + 1)
  BY DEF Loff
<1>6. Loff(a) = IF m < n THEN a ELSE a - n
  <2> DEFINE r == m % n
  <2>1. r = IF m < n THEN m ELSE m - n
    BY <1>4
  <2> HIDE DEF r
  <2>2. r - (LoffMax + 1) = IF m < n THEN a ELSE a - n
    BY <1>1, <1>2, <2>1
  <2> QED
    BY <1>5, <2>2 DEF r
<1> QED
  BY <1>1, <1>2, <1>6

\* A process in the body of llseek or the ioctl: its file and its arguments.
LEMMA AtSeek ==
  ASSUME LockInv, Positions, NEW p \in Proc, pc[p] = "s_body"
  PROVE  /\ mod = "live" /\ call[p].seek \in Seeks /\ call[p].file \in File
         /\ f_pos[call[p].file] \in 0..LoffMax /\ <<p, call[p].file>> \in Uses
<1>1. Args(p, "s_body", call[p])
  BY DEF Positions
<1>2. <<p, call[p].file>> \in Uses /\ call[p].seek \in Seeks
  BY <1>1 DEF Args
<1>3. call[p].file \in File
  BY <1>2, UserIsKnown
<1>4. mod = "live"
  BY HolderIsAlone DEF Critical
<1> QED
  BY <1>2, <1>3, <1>4 DEF Positions

\* What a seek does: it sets the position Target says, or it is refused.
Accepted(p, a) ==
  /\ Target(call[p].seek, f_pos[call[p].file]) = {a} /\ a \in 0..LoffMax
  /\ \E r \in Nat : FinishSeek(p, TRUE, a, r)

Refused(p) ==
  /\ Target(call[p].seek, f_pos[call[p].file]) = {}
  /\ \E a, r : FinishSeek(p, FALSE, a, r)

\* aesd_llseek, whose sum may wrap.
LEMMA LlseekDoes ==
  ASSUME LockInv, MemInv, Positions, NEW p \in Proc, Llseek(p)
  PROVE  Refused(p) \/ \E a : Accepted(p, a)
<1> DEFINE s == call[p].seek
           cur == f_pos[call[p].file]
           total == TotalSize(buffer)
           a == Asked(s, cur, total)
           ok == s.whence # "BAD" /\ a >= 0 /\ a <= total
<1>1. pc[p] = "s_body" /\ s.whence # "CMD"
  BY DEF Llseek
<1>2. mod = "live" /\ s \in Seeks /\ cur \in 0..LoffMax
  BY <1>1, AtSeek
<1>3. total \in 0..LoffMax /\ Len(Bytes) = total
  BY <1>2, DeviceFits, BytesAt
<1>4. /\ a \in Int
      /\ Loff(a) >= 0 /\ Loff(a) <= total <=> a >= 0 /\ a <= total
      /\ a >= 0 /\ a <= total => Loff(a) = a
  BY <1>2, <1>3, AskedFits, SMTT(30)
<1>5. FinishSeek(p, s.whence # "BAD" /\ Loff(a) >= 0 /\ Loff(a) <= total, Loff(a), Loff(a))
  BY DEF Llseek, Asked
<1>6. Target(s, cur) = IF ok THEN {a} ELSE {}
  <2>1. s.offset \in Int /\ cur \in Int /\ total \in Int
    BY <1>2, <1>3, AesdCharAssumption DEF Seek
  <2>2. CASE s.whence = "CUR"
    BY <1>3, <2>1, <2>2 DEF Target, Asked
  <2>3. CASE s.whence = "END"
    BY <1>3, <2>1, <2>3 DEF Target, Asked
  <2>4. CASE s.whence \notin {"CUR", "END", "CMD"}
    <3>1. 0 + s.offset = s.offset
      BY <2>1
    <3> QED
      BY <1>3, <2>1, <2>4, <3>1 DEF Target, Asked
  <2> QED
    BY <1>1, <2>2, <2>3, <2>4
<1> HIDE DEF s, cur, total, a
<1>7. CASE ok
  <2>1. FinishSeek(p, TRUE, a, a)
    <3>1. Loff(a) = a
      BY <1>4, <1>7
    <3> QED
      BY <1>4, <1>5, <1>7, <3>1 DEF FinishSeek
  <2>2. a \in 0..LoffMax /\ a \in Nat
    BY <1>3, <1>4, <1>7, AesdCharAssumption
  <2> QED
    BY <1>6, <1>7, <2>1, <2>2 DEF Accepted, s, cur
<1>8. CASE ~ok
  <2>1. FinishSeek(p, FALSE, Loff(a), Loff(a))
    BY <1>4, <1>5, <1>8 DEF FinishSeek
  <2> QED
    BY <1>6, <1>8, <2>1 DEF Refused, s, cur
<1> QED
  BY <1>7, <1>8

\* The seek ioctl, which counts commands from the oldest.
LEMMA IoctlDoes ==
  ASSUME LockInv, MemInv, Positions, NEW p \in Proc, Ioctl(p)
  PROVE  Refused(p) \/ \E a : Accepted(p, a)
<1> DEFINE s == call[p].seek
           n == Count(buffer)
           entry == Command(s.cmd)
           ok == s.cmd < n /\ s.offset < Len(Commands[s.cmd + 1])
           a == BytesBefore(buffer, s.cmd) + s.offset
<1>1. pc[p] = "s_body" /\ s.whence = "CMD"
  BY DEF Ioctl
<1>2. mod = "live" /\ s \in Seeks /\ s.cmd \in Nat /\ s.offset \in Nat
  <2>1. s \in Seeks
    BY <1>1, AtSeek
  <2>2. s \in Seek /\ s.offset >= 0
    BY <1>1, <2>1, AesdCharAssumption
  <2>3. s.cmd \in Nat /\ s.offset \in Int
    BY <2>2, AesdCharAssumption DEF Seek
  <2>4. mod = "live"
    BY <1>1, AtSeek
  <2> HIDE DEF s
  <2> QED
    BY <2>1, <2>2, <2>3, <2>4
<1>3. buffer \in Buffer /\ RingShape(buffer)
  BY DEF MemInv, MemTyped, RingHolds
<1>4. n = (IF buffer.full THEN MaxOps ELSE buffer.in_offs) /\ n \in 0..MaxOps /\ Len(Commands) = n
  BY <1>2, <1>3, CountValue, CommandAt
<1>5. MaxOps \in Nat
  BY MaxOpsAssumption
<1>6. s.cmd < n => /\ s.cmd + 1 \in 1..n /\ s.cmd \in 0..n
                   /\ entry.buffptr # NULL /\ entry.size = Len(Commands[s.cmd + 1])
                   /\ SizeAt(buffer, s.cmd + 1) = entry.size /\ entry.size \in Nat
  <2>1. ASSUME s.cmd < n
        PROVE  s.cmd + 1 \in 1..n /\ s.cmd \in 0..n /\ (s.cmd + 1) - 1 = s.cmd
    BY <1>2, <1>4, <1>5, <2>1
  <2> DEFINE At(i) == buffer.entry[SlotAt(buffer, i - 1)]
             Fits(i) == /\ At(i).buffptr # NULL /\ At(i).size = Len(Commands[i])
                        /\ SizeAt(buffer, i) = Len(Commands[i])
  <2>2. \A i \in 1..n : Fits(i)
    BY <1>2, CommandAt
  <2> DEFINE k == s.cmd + 1
  <2>3. s.cmd < n => k \in 1..n /\ Fits(k)
    <3> HIDE DEF Fits, n
    <3> QED
      BY <2>1, <2>2
  <2>4. s.cmd < n => At(k) = entry
    BY <2>1 DEF Command
  <2>5. s.cmd < n => Len(Commands[k]) \in Nat
    <3>1. \A t \in Seq(Nat) : Len(t) \in Nat
      OBVIOUS
    <3>2. Commands \in Seq(Seq(Nat)) /\ Len(Commands) = n
      BY <1>2, CommandAt
    <3>3. k \in 1..n => Commands[k] \in Seq(Nat)
      BY <3>2, ElementOfSeq
    <3> QED
      BY <2>1, <3>1, <3>3
  <2> HIDE DEF At, n, entry, s
  <2> QED
    BY <2>1, <2>3, <2>4, <2>5
<1>7. IF ok THEN FinishSeek(p, TRUE, a, 0) ELSE FinishSeek(p, FALSE, 0, 0)
  <2>1. IF s.cmd < n /\ entry.buffptr # NULL /\ s.offset < entry.size
        THEN FinishSeek(p, TRUE, a, 0) ELSE FinishSeek(p, FALSE, 0, 0)
    BY <1>4 DEF Ioctl
  <2> HIDE DEF s, n, a, entry
  <2> QED
    BY <1>6, <2>1
<1>8. ok => Len(FlattenSeq(SubSeq(Commands, 1, s.cmd))) + s.offset = a
  BY <1>2, <1>6, BytesAt
<1>9. Target(s, f_pos[call[p].file]) = IF ok THEN {a} ELSE {}
  BY <1>1, <1>4, <1>8 DEF Target
<1>10. ok => a \in 0..LoffMax
  <2> DEFINE B(i) == BytesBefore(buffer, i)
             k == s.cmd + 1
             total == TotalSize(buffer)
  <2> SUFFICES ASSUME ok
               PROVE  a \in 0..LoffMax
    OBVIOUS
  <2>1. total = B(n) /\ total \in 0..LoffMax
    BY <1>2, <1>3, TotalIsStored, DeviceFits
  <2>2. k \in 1..MaxOps /\ k \in 0..MaxOps /\ k <= n /\ k - 1 = s.cmd /\ k - 1 \in 0..MaxOps
    BY <1>2, <1>4, <1>5, <1>6
  <2>3. B(k) <= B(n)
    BY <1>3, <1>4, <2>2, BytesGrow
  <2>4. B(k) = B(k - 1) + SizeAt(buffer, k) /\ B(k - 1) \in Nat /\ B(k) \in Nat
    BY <1>3, <2>2, BytesBeforeValue
  <2>5. SizeAt(buffer, k) = entry.size /\ s.offset < entry.size /\ entry.size \in Nat
    BY <1>6
  <2>6. a = B(k - 1) + s.offset
    BY <2>2
  <2>7. LoffMax \in Nat
    BY AesdCharAssumption
  <2> HIDE DEF s, n, a, entry, B, k, total
  <2> QED
    BY <1>2, <2>1, <2>3, <2>4, <2>5, <2>6, <2>7, SMTT(30)
<1> HIDE DEF s, n, entry, a
<1>11. CASE ok
  BY <1>7, <1>9, <1>10, <1>11 DEF Accepted, s
<1>12. CASE ~ok
  BY <1>7, <1>9, <1>12 DEF Refused, s
<1> QED
  BY <1>11, <1>12

-----------------------------------------------------------------------------
(* Every step keeps the positions and what reads have copied.              *)

\* A step of q: what it must say of q's own call.
LEMMA MoveKeepsReading ==
  ASSUME LockInv, MemInv, Positions, Reading,
         NEW q \in Proc, SysCall(q) \/ Lock(q) \/ Interrupted(q) \/ Body(q),
         NEW label \in Label, NEW c, Goto(q, label, c), Args(q, label, c),
         label = "r_loop" => Copied(c, Bytes'),
         label = "unlock" /\ c.op = "read" /\ c.retval >= 0 => CopiedAll(c, Bytes'),
         opened' \subseteq File, f_pos' \in [File -> 0..LoffMax]
  PROVE  Positions' /\ Reading'
<1>1. /\ DOMAIN pc = Proc /\ DOMAIN call = Proc
      /\ pc'[q] = label /\ call'[q] = c
      /\ \A p \in Proc : p # q => pc'[p] = pc[p] /\ call'[p] = call[p]
  BY DEF LockInv, Shaped, Goto
<1>2. Positions'
  <2>1. ASSUME NEW p \in Proc
        PROVE  Args(p, pc'[p], call'[p])
    BY <1>1 DEF Positions
  <2> QED
    BY <2>1 DEF Positions, Args
<1>3. ASSUME NEW p \in Proc, p # q, pc[p] \in {"r_loop", "unlock"}
      PROVE  Bytes' = Bytes
  <2>1. Commands' = Commands
    BY <1>3, OthersKeepCommands DEF Critical
  <2> QED
    BY <2>1 DEF Bytes
<1>4. ASSUME NEW p \in Proc, pc'[p] = "r_loop"
      PROVE  Copied(call'[p], Bytes')
  <2>1. CASE p = q
    BY <1>1, <1>4, <2>1
  <2>2. CASE p # q
    <3>1. Bytes' = Bytes /\ Copied(call[p], Bytes) /\ call'[p] = call[p]
      BY <1>1, <1>3, <1>4, <2>2 DEF Reading
    <3> QED
      BY <3>1
  <2> QED
    BY <2>1, <2>2
<1>5. ASSUME NEW p \in Proc, pc'[p] = "unlock", call'[p].op = "read", call'[p].retval >= 0
      PROVE  CopiedAll(call'[p], Bytes')
  <2>1. CASE p = q
    BY <1>1, <1>5, <2>1
  <2>2. CASE p # q
    <3>1. Bytes' = Bytes /\ CopiedAll(call[p], Bytes) /\ call'[p] = call[p]
      BY <1>1, <1>3, <1>5, <2>2 DEF Reading
    <3> QED
      BY <3>1
  <2> QED
    BY <2>1, <2>2
<1>6. Reading'
  BY <1>4, <1>5 DEF Reading, Copied, CopiedAll, EndsAt
<1> QED
  BY <1>2, <1>6

\* The step leaves the device alone.
LEMMA DeviceStays ==
  ASSUME UNCHANGED <<mod, device, heap>>
  PROVE  Bytes' = Bytes
<1>1. Commands' = Commands
  BY DEF device, Commands, Contents, Count, SlotAt
<1> QED
  BY <1>1 DEF Bytes

\* What a process is about and where it is; its locals.
LEMMA ArgsOf ==
  ASSUME LockInv, MemInv, Positions, NEW p \in Proc
  PROVE  /\ IsCall(call[p]) /\ Args(p, pc[p], call[p]) /\ Locals(pc[p], call[p])
         /\ opened \subseteq File /\ f_pos \in [File -> 0..LoffMax] /\ LoffMax \in Nat
         /\ pc[p] # "idle" => call[p].file \in File
BY UserIsKnown, AesdCharAssumption DEF LockInv, Shaped, MemInv, MemTyped, Positions, Args

\* Entering: the position is copied, nothing is read yet.
LEMMA SysCallKeepsReading ==
  ASSUME LockInv, MemInv, Positions, Reading, NEW p \in Proc, SysCall(p)
  PROVE  Positions' /\ Reading'
<1>0. PICK f \in File : /\ <<p, f>> \in Uses
                        /\ \/ \E n \in ReadCounts : SysRead(p, f, n)
                           \/ \E d \in Data : SysWrite(p, f, d)
                           \/ \E s \in Seeks : SysSeek(p, f, s)
  BY DEF SysCall
<1>1. /\ opened \subseteq File /\ f_pos \in [File -> 0..LoffMax] /\ f_pos[f] \in 0..LoffMax
      /\ 0 \in 0..LoffMax
  BY ArgsOf
<1>2. << >> \in Seq(Nat)
  OBVIOUS
<1> DEFINE Known(c) == /\ c.file = f /\ c.pos \in 0..LoffMax /\ c.count \in Nat
                       /\ c.ubuf = << >> /\ c.retval \in Int
<1>3. ASSUME NEW label \in Label \ {"r_loop", "unlock"}, NEW c, Goto(p, label, c), Known(c),
             label \in {"s_lock", "s_body"} => c.seek \in Seeks, UNCHANGED <<opened, f_pos>>
      PROVE  Positions' /\ Reading'
  <2>1. Args(p, label, c)
    BY <1>0, <1>2, <1>3 DEF Args
  <2> QED
    BY <1>1, <1>3, <2>1, MoveKeepsReading
<1>4. ASSUME NEW n \in ReadCounts, SysRead(p, f, n)
      PROVE  Positions' /\ Reading'
  <2> DEFINE c == [NoCall EXCEPT !.op = "read", !.file = f, !.count = n, !.pos = f_pos[f]]
             e == [c EXCEPT !.retval = -EINVAL]
  <2>1. Known(c) /\ Known(e)
    BY <1>1, AesdCharAssumption DEF NoCall, EINVAL
  <2>2. Goto(p, "ret", e) \/ Goto(p, "r_lock", c)
    BY <1>4 DEF SysRead, Fail
  <2>3. UNCHANGED <<opened, f_pos>>
    BY <1>4 DEF SysRead
  <2> HIDE DEF c, e, Known
  <2> QED
    BY <1>3, <2>1, <2>2, <2>3
<1>5. ASSUME NEW d \in Data, SysWrite(p, f, d)
      PROVE  Positions' /\ Reading'
  <2> DEFINE c == [NoCall EXCEPT !.op = "write", !.file = f, !.data = d, !.pos = f_pos[f]]
  <2>1. \/ \E e \in {EINVAL, ENOMEM, EFAULT} : Goto(p, "ret", [c EXCEPT !.retval = -e])
        \/ \E b \in Ptr : Goto(p, "w_lock", [c EXCEPT !.tmp_buf = b])
    BY <1>5 DEF SysWrite, Fail, Fresh
  <2>2. /\ \A e \in Int : Known([c EXCEPT !.retval = -e])
        /\ \A b : Known([c EXCEPT !.tmp_buf = b])
    BY <1>1 DEF NoCall
  <2>3. UNCHANGED <<opened, f_pos>>
    BY <1>5 DEF SysWrite
  <2>4. {EINVAL, ENOMEM, EFAULT} \subseteq Int
    BY DEF EINVAL, ENOMEM, EFAULT
  <2> HIDE DEF c, Known
  <2> QED
    BY <1>3, <2>1, <2>2, <2>3, <2>4
<1>6. ASSUME NEW s \in Seeks, SysSeek(p, f, s)
      PROVE  Positions' /\ Reading'
  <2> DEFINE c == [NoCall EXCEPT !.op = "seek", !.file = f, !.seek = s]
  <2>1. \/ \E e \in {ENOTTY, EFAULT} : Goto(p, "ret", [c EXCEPT !.retval = -e])
        \/ Goto(p, "s_lock", c)
    BY <1>6 DEF SysSeek, Fail
  <2>2. (\A e \in Int : Known([c EXCEPT !.retval = -e])) /\ Known(c) /\ c.seek \in Seeks
    BY <1>1 DEF NoCall
  <2>3. UNCHANGED <<opened, f_pos>>
    BY <1>6 DEF SysSeek
  <2>4. {ENOTTY, EFAULT} \subseteq Int
    BY DEF ENOTTY, EFAULT
  <2> HIDE DEF c, Known
  <2> QED
    BY <1>3, <2>1, <2>2, <2>3, <2>4
<1> QED
  BY <1>0, <1>4, <1>5, <1>6

\* The lock is taken.
LEMMA LockKeepsReading ==
  ASSUME LockInv, MemInv, Positions, Reading, NEW p \in Proc, Lock(p)
  PROVE  Positions' /\ Reading'
<1>1. /\ IsCall(call[p]) /\ Args(p, pc[p], call[p]) /\ Locals(pc[p], call[p])
      /\ opened \subseteq File /\ f_pos \in [File -> 0..LoffMax]
  BY ArgsOf
<1>2. UNCHANGED <<opened, f_pos>>
  BY DEF Lock, ReadLock, WriteLock, SeekLock, Acquire
<1>3. CASE ReadLock(p)
  <2>1. pc[p] = "r_lock" /\ Goto(p, "r_loop", call[p])
    BY <1>3 DEF ReadLock, Acquire
  <2>2. Args(p, "r_loop", call[p]) /\ call[p].ubuf = << >>
    BY <1>1, <2>1 DEF Args
  <2>3. Copied(call[p], Bytes')
    <3>1. call[p].pos \in Nat /\ call[p].count \in Nat
      BY <2>2, AesdCharAssumption DEF Args
    <3>2. PICK n, B : n \in Nat /\ n = call[p].pos /\ B = Bytes'
      BY <3>1
    <3>3. SubSeq(B, n + 1, n) = << >>
      BY <3>2, SubSeqEmpty
    <3>4. Len(<< >>) = 0 /\ n - 0 + 1 = n + 1
      BY <3>2
    <3> QED
      BY <2>2, <3>1, <3>2, <3>3, <3>4, SMTT(30) DEF Copied, EndsAt
  <2> QED
    BY <1>1, <1>2, <2>1, <2>2, <2>3, MoveKeepsReading
<1>4. CASE WriteLock(p)
  <2> DEFINE c == [call[p] EXCEPT !.has_newline = HasNewline(heap[call[p].tmp_buf])]
  <2>1. pc[p] = "w_lock" /\ Goto(p, "w_body", c)
    BY <1>4 DEF WriteLock, Acquire
  <2>2. /\ c.file = call[p].file /\ c.pos = call[p].pos /\ c.count = call[p].count
        /\ c.retval = call[p].retval /\ c.ubuf = call[p].ubuf
    BY <1>1 DEF IsCall, NoCall
  <2> HIDE DEF c
  <2>3. Args(p, "w_body", c)
    BY <1>1, <2>1, <2>2 DEF Args
  <2> QED
    BY <1>1, <1>2, <1>4, <2>1, <2>3, MoveKeepsReading
<1>5. CASE SeekLock(p)
  <2>1. pc[p] = "s_lock" /\ Goto(p, "s_body", call[p])
    BY <1>5 DEF SeekLock, Acquire
  <2>2. Args(p, "s_body", call[p])
    BY <1>1, <2>1 DEF Args
  <2> QED
    BY <1>1, <1>2, <1>5, <2>1, <2>2, MoveKeepsReading
<1> QED
  BY <1>3, <1>4, <1>5 DEF Lock

\* A signal while waiting.
LEMMA InterruptedKeepsReading ==
  ASSUME LockInv, MemInv, Positions, Reading, NEW p \in Proc, Interrupted(p)
  PROVE  Positions' /\ Reading'
<1>1. /\ IsCall(call[p]) /\ Args(p, pc[p], call[p])
      /\ opened \subseteq File /\ f_pos \in [File -> 0..LoffMax]
  BY ArgsOf
<1> DEFINE r == [call[p] EXCEPT !.retval = -ERESTARTSYS]
           w == [[call[p] EXCEPT !.tmp_buf = NULL] EXCEPT !.retval = -ERESTARTSYS]
<1>2. PICK c \in {r, w} : Goto(p, "ret", c) /\ pc[p] # "idle" /\ UNCHANGED <<opened, f_pos>>
  BY DEF Interrupted, ReadInterrupted, WriteInterrupted, Fail
<1>3. \A d \in {r, w} :
        /\ d.file = call[p].file /\ d.pos = call[p].pos /\ d.count = call[p].count
        /\ d.ubuf = call[p].ubuf /\ d.retval = -ERESTARTSYS
  BY <1>1 DEF IsCall, NoCall
<1> HIDE DEF r, w
<1>4. -ERESTARTSYS \in Int
  BY DEF ERESTARTSYS
<1>5. Args(p, "ret", c)
  BY <1>1, <1>2, <1>3, <1>4 DEF Args
<1> QED
  BY <1>1, <1>2, <1>5, MoveKeepsReading

\* The loop of aesd_read.
LEMMA ReadBodyKeepsReading ==
  ASSUME LockInv, MemInv, Positions, Reading, NEW p \in Proc,
         ReadCopy(p) \/ ReadFault(p) \/ ReadDone(p)
  PROVE  Positions' /\ Reading'
<1> DEFINE c == call[p]
           chunk == NextChunk(c)
           pos == c.pos
           u == c.ubuf
<1>1. /\ IsCall(c) /\ Args(p, "r_loop", c) /\ pc[p] = "r_loop" /\ c.op = "read"
      /\ opened \subseteq File /\ f_pos \in [File -> 0..LoffMax]
  <2>1. pc[p] = "r_loop"
    BY DEF ReadCopy, ReadFault, ReadDone
  <2> QED
    BY <2>1, ArgsOf DEF Locals
<1>2. UNCHANGED <<mod, device, heap, opened, f_pos>>
  BY DEF ReadCopy, ReadFault, ReadDone
<1>3. mod = "live"
  BY <1>1, HolderIsAlone DEF Critical
<1>4. Bytes \in Seq(Nat) /\ Len(Bytes) \in Nat /\ Len(Bytes) \in 0..LoffMax
  BY <1>3, BytesAt, DeviceFits
<1>5. /\ pos \in Nat /\ c.count \in Nat /\ u \in Seq(Nat) /\ Len(u) \in Nat
      /\ pos \in 0..LoffMax /\ LoffMax \in Nat
  <2>1. pos \in 0..LoffMax /\ c.count \in Nat /\ u \in Seq(Nat)
    BY <1>1 DEF Args
  <2>2. Len(u) \in Nat
    BY <2>1
  <2> QED
    BY <2>1, <2>2, AesdCharAssumption
<1>6. /\ Len(u) <= c.count /\ Len(u) <= pos
      /\ u # << >> => pos <= Len(Bytes)
      /\ EndsAt(u, Bytes, pos)
  BY <1>1 DEF Reading, Copied
<1>7. /\ chunk \in Seq(Nat) /\ Len(chunk) \in Nat
      /\ pos >= Len(Bytes) => chunk = << >>
      /\ pos < Len(Bytes) =>
           /\ pos + Len(chunk) <= Len(Bytes) /\ Len(chunk) <= c.count - Len(u)
           /\ chunk = SubSeq(Bytes, pos + 1, pos + Len(chunk))
           /\ chunk = << >> => Len(u) = c.count
  <2>1. ChunkFits(c, chunk)
    BY <1>3, <1>5, <1>6, ChunkIs
  <2>2. \A t \in Seq(Nat) : Len(t) \in Nat
    OBVIOUS
  <2> QED
    BY <2>1, <2>2 DEF ChunkFits
<1>8. Bytes' = Bytes
  BY <1>2, DeviceStays
<1>9. CASE ReadCopy(p)
  <2> DEFINE d == [c EXCEPT !.pos = @ + Len(chunk), !.ubuf = @ \o chunk]
  <2>1. Goto(p, "r_loop", d) /\ chunk # << >>
    BY <1>9 DEF ReadCopy
  <2>2. /\ d.file = c.file /\ d.count = c.count /\ d.retval = c.retval
        /\ d.pos = pos + Len(chunk) /\ d.ubuf = u \o chunk /\ d.op = "read"
    BY <1>1 DEF IsCall, NoCall
  <2> HIDE DEF d, chunk, pos, u, c
  <2>3. pos < Len(Bytes)
    BY <1>4, <1>5, <1>7, <2>1
  <2>4. /\ u \o chunk \in Seq(Nat) /\ Len(u \o chunk) = Len(u) + Len(chunk)
        /\ EndsAt(u \o chunk, Bytes, pos + Len(chunk))
    <3>1. PICK B, v, k, x : B = Bytes /\ v = u /\ k = chunk /\ x = pos
      OBVIOUS
    <3>2. /\ B \in Seq(Nat) /\ v \in Seq(Nat) /\ k \in Seq(Nat) /\ x \in Nat
          /\ Len(v) <= x /\ (v # << >> => x <= Len(B))
      BY <1>4, <1>5, <1>6, <1>7, <3>1
    <3>3. EndsAt(v, B, x)
      BY <1>6, <3>1
    <3>4. x + Len(k) <= Len(B) /\ k = SubSeq(B, x + 1, x + Len(k))
      BY <1>7, <2>3, <3>1
    <3>5. /\ v \o k \in Seq(Nat) /\ Len(v \o k) = Len(v) + Len(k)
          /\ EndsAt(v \o k, B, x + Len(k))
      BY <3>2, <3>3, <3>4, CopyMore
    <3> QED
      BY <3>1, <3>5
  <2>5. pos + Len(chunk) <= Len(Bytes) /\ Len(u) + Len(chunk) <= c.count
    BY <1>5, <1>7, <2>3
  <2>6. pos + Len(chunk) \in 0..LoffMax
    BY <1>4, <1>5, <1>7, <2>5
  <2>7. Args(p, "r_loop", d)
    BY <1>1, <2>2, <2>4, <2>6 DEF Args
  <2>8. Copied(d, Bytes)
    <3>2. Len(u) + Len(chunk) <= pos + Len(chunk)
      BY <1>5, <1>6, <1>7
    <3>3. EndsAt(d.ubuf, Bytes, d.pos)
      BY <2>2, <2>4
    <3> QED
      BY <2>2, <2>4, <2>5, <3>2, <3>3 DEF Copied
  <2>9. Copied(d, Bytes')
    BY <1>8, <2>8
  <2> QED
    BY <1>1, <1>2, <1>9, <2>1, <2>7, <2>9, MoveKeepsReading DEF Body
<1>10. CASE ReadFault(p)
  <2> DEFINE d == [c EXCEPT !.retval = -EFAULT]
  <2>1. Goto(p, "unlock", d)
    BY <1>10 DEF ReadFault
  <2>2. /\ d.file = c.file /\ d.count = c.count /\ d.retval = -EFAULT
        /\ d.pos = pos /\ d.ubuf = u
    BY <1>1 DEF IsCall, NoCall
  <2>3. -EFAULT \in Int /\ -EFAULT < 0
    BY DEF EFAULT
  <2> HIDE DEF d, chunk, pos, u, c
  <2>4. Args(p, "unlock", d)
    BY <1>1, <1>5, <2>2, <2>3 DEF Args
  <2> QED
    BY <1>1, <1>2, <1>10, <2>1, <2>2, <2>3, <2>4, MoveKeepsReading DEF Body
<1>11. CASE ReadDone(p)
  <2> DEFINE d == [c EXCEPT !.retval = Len(u)]
  <2>1. Goto(p, "unlock", d) /\ chunk = << >>
    BY <1>11 DEF ReadDone
  <2>2. /\ d.file = c.file /\ d.count = c.count /\ d.retval = Len(u)
        /\ d.pos = pos /\ d.ubuf = u
    BY <1>1 DEF IsCall, NoCall
  <2> HIDE DEF d, chunk, pos, u, c
  <2>3. Args(p, "unlock", d)
    BY <1>1, <1>5, <2>2 DEF Args
  <2>4. pos >= Len(Bytes) \/ Len(u) = c.count
    BY <1>4, <1>5, <1>7, <2>1
  <2>5. LET start == pos - Len(u)
            end == IF start + c.count < Len(Bytes) THEN start + c.count ELSE Len(Bytes)
        IN  u = SubSeq(Bytes, start + 1, end)
    BY <1>4, <1>5, <1>6, <2>4, CopyEnds
  <2>6. CopiedAll(d, Bytes)
    BY <2>2, <2>5 DEF CopiedAll
  <2>7. CopiedAll(d, Bytes')
    BY <1>8, <2>6
  <2> QED
    BY <1>1, <1>2, <1>11, <2>1, <2>3, <2>7, MoveKeepsReading DEF Body
<1> QED
  BY <1>9, <1>10, <1>11

\* A call and its successor agree on everything that has to do with positions.
Like(d, c) == /\ d.file = c.file /\ d.count = c.count /\ d.pos = c.pos
              /\ d.ubuf = c.ubuf /\ d.op = c.op

\* The body of aesd_write has nothing to do with positions.
LEMMA WriteBodyMoves ==
  ASSUME LockInv, MemInv, Positions, NEW p \in Proc,
         \/ WriteDirect(p) \/ WriteFirstPart(p) \/ WriteAppend(p) \/ WriteAppendFails(p)
         \/ WriteStore(p) \/ WriteFree(p)
  PROVE  /\ UNCHANGED <<opened, f_pos>> /\ pc[p] # "idle" /\ call[p].op = "write"
         /\ \E label, d :
              label \in {"w_store", "unlock", "ret"} /\ Goto(p, label, d) /\ Like(d, call[p]) /\ d.retval \in Int
<1> DEFINE c == call[p]
<1>1. /\ IsCall(c) /\ Args(p, pc[p], c) /\ Locals(pc[p], c)
      /\ opened \subseteq File /\ f_pos \in [File -> 0..LoffMax]
  BY ArgsOf
<1>2. /\ UNCHANGED <<opened, f_pos>> /\ pc[p] \in {"w_body", "w_store", "w_free"}
  BY DEF WriteDirect, WriteFirstPart, WriteAppend, WriteAppendFails, WriteStore, WriteFree
<1>3. c.op = "write" /\ c.data \in Seq(Nat) /\ Len(c.data) \in Nat
  <2>1. c.op = "write" /\ c.data \in Seq(Nat)
    BY <1>1, <1>2 DEF Locals
  <2> QED
    BY <2>1
<1>4. \E label, d :
        label \in {"w_store", "unlock", "ret"} /\ Goto(p, label, d) /\ Like(d, c) /\ d.retval \in Int
  <2>1. CASE WriteDirect(p)
    <3>1. Goto(p, "unlock", HandedOver(c))
      BY <2>1 DEF WriteDirect
    <3>2. Like(HandedOver(c), c) /\ HandedOver(c).retval = Len(c.data)
      BY <1>1 DEF HandedOver, IsCall, NoCall, Like
    <3> QED
      BY <1>3, <3>1, <3>2
  <2>2. CASE WriteFirstPart(p) \/ WriteAppend(p)
    <3>1. PICK v : Goto(p, "w_store", [c EXCEPT !.combined_buf = v, !.tmp_buf = NULL])
      BY <2>2 DEF WriteFirstPart, WriteAppend
    <3> DEFINE d == [c EXCEPT !.combined_buf = v, !.tmp_buf = NULL]
    <3>2. Goto(p, "w_store", d)
      BY <3>1
    <3>3. Like(d, c) /\ d.retval = c.retval
      BY <1>1 DEF IsCall, NoCall, Like
    <3>4. c.retval \in Int
      BY <1>1 DEF Args
    <3> HIDE DEF d
    <3>5. d.retval \in Int
      BY <3>3, <3>4
    <3> QED
      BY <3>2, <3>3, <3>5, SMTT(30)
  <2>3. CASE WriteAppendFails(p)
    <3> DEFINE d == [c EXCEPT !.retval = -ENOMEM]
    <3>1. Goto(p, "unlock", d)
      BY <2>3 DEF WriteAppendFails
    <3>2. Like(d, c) /\ d.retval = -ENOMEM
      BY <1>1 DEF IsCall, NoCall, Like
    <3>3. -ENOMEM \in Int
      BY DEF ENOMEM
    <3> HIDE DEF d
    <3> QED
      BY <3>1, <3>2, <3>3
  <2>4. CASE WriteStore(p)
    <3> DEFINE d == [c EXCEPT !.retval = Len(c.data), !.combined_buf = NULL]
    <3>1. Goto(p, "unlock", d)
      BY <2>4 DEF WriteStore
    <3>2. Like(d, c) /\ d.retval = Len(c.data)
      BY <1>1 DEF IsCall, NoCall, Like
    <3> HIDE DEF d
    <3> QED
      BY <1>3, <3>1, <3>2
  <2>5. CASE WriteFree(p)
    <3> DEFINE d == [c EXCEPT !.tmp_buf = NULL]
    <3>1. Goto(p, "ret", d)
      BY <2>5 DEF WriteFree
    <3>2. Like(d, c) /\ d.retval = c.retval
      BY <1>1 DEF IsCall, NoCall, Like
    <3>3. c.retval \in Int
      BY <1>1 DEF Args
    <3> HIDE DEF d
    <3> QED
      BY <3>1, <3>2, <3>3
  <2> QED
    BY <2>1, <2>2, <2>3, <2>4, <2>5
<1> QED
  BY <1>2, <1>3, <1>4

\* So the steps of aesd_write keep what readers have.
LEMMA WriteBodyKeepsReading ==
  ASSUME LockInv, MemInv, Positions, Reading, NEW p \in Proc,
         \/ WriteDirect(p) \/ WriteFirstPart(p) \/ WriteAppend(p) \/ WriteAppendFails(p)
         \/ WriteStore(p) \/ WriteFree(p)
  PROVE  Positions' /\ Reading'
<1>1. /\ Args(p, pc[p], call[p]) /\ opened \subseteq File /\ f_pos \in [File -> 0..LoffMax]
  BY ArgsOf
<1>2. UNCHANGED <<opened, f_pos>> /\ pc[p] # "idle" /\ call[p].op = "write"
  BY WriteBodyMoves
<1>3. PICK label, d :
        label \in {"w_store", "unlock", "ret"} /\ Goto(p, label, d) /\ Like(d, call[p]) /\ d.retval \in Int
  BY WriteBodyMoves
<1>4. Args(p, label, d)
  BY <1>1, <1>2, <1>3 DEF Args, Like
<1>5. d.op # "read"
  BY <1>2, <1>3 DEF Like
<1> QED
  BY <1>1, <1>2, <1>3, <1>4, <1>5, MoveKeepsReading DEF Body

\* A step of q changes the position of no file but its own.
OwnFileOnly(q) ==
  IF pc[q] = "idle" THEN f_pos' = f_pos
  ELSE \A f \in File : f # call[q].file => f_pos'[f] = f_pos[f]

\* llseek and the ioctl.
LEMMA SeekBodyMoves ==
  ASSUME LockInv, MemInv, Positions, NEW p \in Proc, Llseek(p) \/ Ioctl(p)
  PROVE  /\ pc[p] = "s_body" /\ opened' = opened
         /\ f_pos' \in [File -> 0..LoffMax] /\ OwnFileOnly(p)
         /\ \E d : /\ Goto(p, "unlock", d) /\ Like(d, call[p])
                   /\ d.op = "seek" /\ d.retval \in Int
<1> DEFINE c == call[p]
           d(v) == [c EXCEPT !.retval = v, !.seek = NoSeek]
<1>1. pc[p] = "s_body"
  BY DEF Llseek, Ioctl
<1>2. /\ IsCall(c) /\ Args(p, "s_body", c) /\ c.op = "seek" /\ c.file \in File
      /\ opened \subseteq File /\ f_pos \in [File -> 0..LoffMax]
  BY <1>1, ArgsOf DEF Locals
<1>3. ASSUME NEW v \in Int
      PROVE  Like(d(v), c) /\ d(v).op = "seek" /\ d(v).retval = v
  BY <1>2 DEF IsCall, NoCall, Like
<1>4. CASE Refused(p)
  <2>1. PICK a, r : FinishSeek(p, FALSE, a, r)
    BY <1>4 DEF Refused
  <2>2. Goto(p, "unlock", d(-EINVAL)) /\ opened' = opened /\ f_pos' = f_pos
    BY <2>1 DEF FinishSeek
  <2>3. -EINVAL \in Int
    BY DEF EINVAL
  <2> HIDE DEF d, c
  <2> QED
    BY <1>1, <1>2, <1>3, <2>2, <2>3 DEF OwnFileOnly, c
<1>5. CASE \E a : Accepted(p, a)
  <2>1. PICK a \in 0..LoffMax, r \in Nat : FinishSeek(p, TRUE, a, r)
    BY <1>5 DEF Accepted
  <2>2. Goto(p, "unlock", d(r)) /\ opened' = opened /\ f_pos' = [f_pos EXCEPT ![c.file] = a]
    BY <2>1 DEF FinishSeek
  <2>3. f_pos' \in [File -> 0..LoffMax] /\ r \in Int /\ OwnFileOnly(p)
    BY <1>1, <1>2, <2>2 DEF OwnFileOnly
  <2> HIDE DEF d, c
  <2> QED
    BY <1>1, <1>3, <2>2, <2>3 DEF c
<1> QED
  BY <1>4, <1>5, LlseekDoes, IoctlDoes

\* So do the steps of the seeks.
LEMMA SeekBodyKeepsReading ==
  ASSUME LockInv, MemInv, Positions, Reading, NEW p \in Proc, Llseek(p) \/ Ioctl(p)
  PROVE  Positions' /\ Reading'
<1>1. pc[p] = "s_body" /\ opened' = opened /\ f_pos' \in [File -> 0..LoffMax]
  BY SeekBodyMoves
<1>2. PICK d : Goto(p, "unlock", d) /\ Like(d, call[p]) /\ d.op = "seek" /\ d.retval \in Int
  BY SeekBodyMoves
<1>3. Args(p, pc[p], call[p]) /\ opened \subseteq File
  BY ArgsOf
<1>4. Args(p, "unlock", d)
  BY <1>1, <1>2, <1>3 DEF Args, Like
<1> QED
  BY <1>1, <1>2, <1>3, <1>4, MoveKeepsReading DEF Body

\* Leaving: a read or a write stores the VFS's copy of the position.
LEMMA LeaveKeepsReading ==
  ASSUME LockInv, MemInv, Positions, Reading, NEW p \in Proc, Unlock(p) \/ Return(p)
  PROVE  Positions' /\ Reading'
<1>1. /\ IsCall(call[p]) /\ Args(p, pc[p], call[p]) /\ Locals(pc[p], call[p])
      /\ opened \subseteq File /\ f_pos \in [File -> 0..LoffMax] /\ LoffMax \in Nat
      /\ pc[p] # "idle" => call[p].file \in File
  BY ArgsOf
<1>2. CASE Unlock(p)
  <2> DEFINE label == IF call[p].op = "write" THEN "w_free" ELSE "ret"
  <2>1. pc' = [pc EXCEPT ![p] = label] /\ call' = call /\ UNCHANGED <<opened, f_pos>>
        /\ pc[p] = "unlock"
    BY <1>2 DEF Unlock
  <2>2. call' = [call EXCEPT ![p] = call[p]]
    BY <2>1 DEF LockInv, Shaped
  <2>3. Goto(p, label, call[p])
    BY <2>1, <2>2 DEF Goto
  <2>4. Args(p, label, call[p])
    BY <1>1, <2>1 DEF Args
  <2> QED
    BY <1>1, <1>2, <2>1, <2>3, <2>4, MoveKeepsReading DEF Body
<1>3. CASE Return(p)
  <2>1. pc[p] = "ret" /\ Goto(p, "idle", NoCall) /\ opened' = opened
    BY <1>3 DEF Return
  <2>2. call[p].pos \in 0..LoffMax
    BY <1>1 DEF Args
  <2>3. f_pos' \in [File -> 0..LoffMax]
    BY <1>1, <1>3, <2>1, <2>2 DEF Return
  <2>4. Args(p, "idle", NoCall)
    BY <1>1 DEF Args, NoCall
  <2> QED
    BY <1>1, <1>3, <2>1, <2>3, <2>4, MoveKeepsReading DEF Body
<1> QED
  BY <1>2, <1>3

\* Loading, unloading, opening and releasing.
LEMMA OutsideKeepsReading ==
  ASSUME LockInv, MemInv, Positions, Reading, Module \/ Files
  PROVE  Positions' /\ Reading'
<1>1. UNCHANGED <<pc, call>>
  BY DEF Module, AllocRegion, SetupCdev, SetupCdevFails, Cleanup, Files, Open, Release
<1>2. opened' \subseteq File /\ f_pos' \in [File -> 0..LoffMax]
  BY AesdCharAssumption DEF Module, AllocRegion, SetupCdev, SetupCdevFails, Cleanup, Files,
     Open, Release, Positions
<1>3. Positions'
  BY <1>1, <1>2 DEF Positions, Args
<1>4. CASE Module
  <2>1. \A p \in Proc : pc[p] = "idle"
    <3>1. opened = {}
      BY <1>4 DEF LockInv, InUse, Module, AllocRegion, SetupCdev, SetupCdevFails, Cleanup
    <3> QED
      BY <3>1, NobodyInside
  <2> QED
    BY <1>1, <1>3, <2>1 DEF Reading
<1>5. CASE Files
  <2>1. UNCHANGED <<mod, device, heap>>
    BY <1>5 DEF Files, Open, Release
  <2>2. Bytes' = Bytes
    BY <2>1, DeviceStays
  <2>3. Reading'
    BY <1>1, <2>2 DEF Reading, Copied, CopiedAll, EndsAt
  <2> QED
    BY <1>3, <2>3
<1> QED
  BY <1>4, <1>5

\* At first nobody reads.
LEMMA InitReading == Init => Positions /\ Reading
<1> SUFFICES ASSUME Init
             PROVE  Positions /\ Reading
  OBVIOUS
<1>1. LoffMax \in Nat /\ 0 \in 0..LoffMax
  BY AesdCharAssumption
<1>2. opened \subseteq File /\ f_pos \in [File -> 0..LoffMax]
  BY <1>1 DEF Init
<1>3. \A p \in Proc : pc[p] = "idle" /\ call[p] = NoCall
  BY DEF Init
<1>4. Args(0, "idle", NoCall)
  BY <1>1 DEF Args, NoCall
<1>5. \A p \in Proc : Args(p, "idle", NoCall)
  BY <1>4 DEF Args
<1> QED
  BY <1>2, <1>3, <1>5 DEF Positions, Reading

\* The invariant about positions and reads.
LEMMA ReadingHolds == Spec => [](Positions /\ Reading)
<1>1. LockInv /\ MemInv /\ Positions /\ Reading /\ [Next]_vars => Positions' /\ Reading'
  <2> SUFFICES ASSUME LockInv, MemInv, Positions, Reading, [Next]_vars
               PROVE  Positions' /\ Reading'
    OBVIOUS
  <2>1. CASE UNCHANGED vars
    <3>1. UNCHANGED <<mod, device, heap>> /\ UNCHANGED <<opened, f_pos, pc, call>>
      BY <2>1 DEF vars
    <3>2. Bytes' = Bytes
      BY <3>1, DeviceStays
    <3> QED
      BY <3>1, <3>2 DEF Positions, Args, Reading, Copied, CopiedAll, EndsAt
  <2>2. ASSUME NEW p \in Proc, Body(p)
        PROVE  Positions' /\ Reading'
    BY <2>2, ReadBodyKeepsReading, WriteBodyKeepsReading, SeekBodyKeepsReading, LeaveKeepsReading
       DEF Body
  <2> QED
    BY <2>1, <2>2, OutsideKeepsReading, SysCallKeepsReading, LockKeepsReading,
       InterruptedKeepsReading DEF Next
<1> QED
  BY InvHolds, InitReading, <1>1, PTL DEF Spec

\* A read that ends well has copied exactly the bytes of the device from the
\* position at which it started, whatever other processes do meanwhile.
THEOREM DriverReadsExactly == Spec => []ReadExact
<1>1. Reading => ReadExact
  BY DEF Reading, ReadExact, CopiedAll
<1> QED
  BY ReadingHolds, <1>1, PTL

\* Type correctness: positions stay in the range of loff_t.
THEOREM DriverTyped == Spec => []TypeOK
<1>1. LockInv /\ MemInv /\ Positions => TypeOK
  <2> SUFFICES ASSUME LockInv, MemInv, Positions
               PROVE  TypeOK
    OBVIOUS
  <2>1. lock \subseteq Proc /\ pc \in [Proc -> Label]
    BY DEF LockInv, Shaped, LockDiscipline
  <2>2. /\ mod \in {"out", "region", "live"} /\ buffer \in Buffer
        /\ partial_write \in Ptr \cup {NULL} /\ partial_size \in Nat
    BY DEF MemInv, MemTyped
  <2>3. DOMAIN heap = Ptr /\ \A b \in Ptr : Len(heap[b]) \in 0..MaxAlloc
    <3>1. heap \in [Ptr -> Seq(Nat)] /\ \A b \in Ptr : Len(heap[b]) <= MaxAlloc
      BY DEF MemInv, MemTyped
    <3>2. \A t \in Seq(Nat) : Len(t) \in Nat
      OBVIOUS
    <3> QED
      BY <3>1, <3>2, AesdCharAssumption
  <2>4. ASSUME NEW p \in Proc
        PROVE  /\ call[p].op \in {"none", "read", "write", "seek"}
               /\ call[p].file \in File \cup {0}
               /\ {call[p].tmp_buf, call[p].combined_buf} \subseteq Ptr \cup {NULL}
               /\ call[p].retval \in Int /\ call[p].pos \in 0..LoffMax
    BY ArgsOf DEF Args, Locals
  <2> QED
    BY <2>1, <2>2, <2>3, <2>4 DEF TypeOK, Positions
<1> QED
  BY InvHolds, ReadingHolds, <1>1, PTL

\* A step of process q moves no other process, and the others not at all.
LEMMA WhoMoves ==
  ASSUME LockInv, Next, NEW p \in Proc, pc'[p] # pc[p]
  PROVE  SysCall(p) \/ Lock(p) \/ Interrupted(p) \/ Body(p)
<1>1. ~(Module \/ Files)
  BY DEF Module, AllocRegion, SetupCdev, SetupCdevFails, Cleanup, Files, Open, Release
<1>2. PICK q \in Proc : SysCall(q) \/ Lock(q) \/ Interrupted(q) \/ Body(q)
  BY <1>1 DEF Next
<1>3. PICK label : pc' = [pc EXCEPT ![q] = label]
  BY <1>2, StepMovesOne
<1>4. q = p
  BY <1>3 DEF LockInv, Shaped
<1> QED
  BY <1>2, <1>4

\* llseek and the ioctl set the position that was asked for, or refuse.
THEOREM DriverSeeksExactly == Spec => SeekExact
<1> DEFINE Exact(p) ==
      LET f == call[p].file
          to == Target(call[p].seek, f_pos[f])
      IN  pc[p] = "s_body" /\ pc'[p] = "unlock" =>
            IF call'[p].retval < 0 THEN to = {} /\ UNCHANGED f_pos
            ELSE to = {f_pos'[f]}
<1>1. LockInv /\ MemInv /\ Positions /\ [Next]_vars => [\A p \in Proc : Exact(p)]_vars
  <2> SUFFICES ASSUME LockInv, MemInv, Positions, Next, NEW p \in Proc,
                      pc[p] = "s_body", pc'[p] = "unlock"
               PROVE  LET f == call[p].file
                          to == Target(call[p].seek, f_pos[f])
                      IN  IF call'[p].retval < 0 THEN to = {} /\ UNCHANGED f_pos
                          ELSE to = {f_pos'[f]}
    OBVIOUS
  <2>1. Llseek(p) \/ Ioctl(p)
    <3>1. SysCall(p) \/ Lock(p) \/ Interrupted(p) \/ Body(p)
      BY WhoMoves
    <3>2. ~SysCall(p)
      BY DEF SysCall, SysRead, SysWrite, SysSeek
    <3>3. ~Lock(p) /\ ~Interrupted(p)
      BY DEF Lock, ReadLock, WriteLock, SeekLock, Acquire, Interrupted, ReadInterrupted,
             WriteInterrupted
    <3>4. ~Unlock(p) /\ ~Return(p) /\ ~ReadCopy(p) /\ ~ReadFault(p) /\ ~ReadDone(p)
      BY DEF Unlock, Return, ReadCopy, ReadFault, ReadDone
    <3>5. /\ ~WriteDirect(p) /\ ~WriteFirstPart(p) /\ ~WriteAppend(p) /\ ~WriteAppendFails(p)
          /\ ~WriteStore(p) /\ ~WriteFree(p)
      BY DEF WriteDirect, WriteFirstPart, WriteAppend, WriteAppendFails, WriteStore, WriteFree
    <3> QED
      BY <3>1, <3>2, <3>3, <3>4, <3>5 DEF Body
  <2>2. IsCall(call[p]) /\ DOMAIN call = Proc
    BY DEF LockInv, Shaped
  <2>3. call[p].file \in File /\ f_pos \in [File -> 0..LoffMax]
    BY AtSeek DEF Positions
  <2>4. CASE Refused(p)
    <3>1. PICK a, r : FinishSeek(p, FALSE, a, r)
      BY <2>4 DEF Refused
    <3>2. call'[p].retval = -EINVAL /\ f_pos' = f_pos
      BY <2>2, <3>1 DEF FinishSeek, Goto, IsCall, NoCall
    <3>3. -EINVAL < 0
      BY DEF EINVAL
    <3> QED
      BY <2>4, <3>2, <3>3 DEF Refused
  <2>5. ASSUME NEW a, Accepted(p, a)
        PROVE  LET f == call[p].file
                   to == Target(call[p].seek, f_pos[f])
               IN  IF call'[p].retval < 0 THEN to = {} /\ UNCHANGED f_pos
                   ELSE to = {f_pos'[f]}
    <3>1. PICK r \in Nat : FinishSeek(p, TRUE, a, r)
      BY <2>5 DEF Accepted
    <3>2. call'[p].retval = r
      BY <2>2, <3>1 DEF FinishSeek, Goto, IsCall, NoCall
    <3>3. f_pos'[call[p].file] = a
      BY <2>3, <3>1 DEF FinishSeek
    <3>4. ~(r < 0)
      BY <3>1
    <3> QED
      BY <2>5, <3>2, <3>3, <3>4 DEF Accepted
  <2> QED
    BY <2>1, <2>4, <2>5, LlseekDoes, IoctlDoes
<1> QED
  BY InvHolds, ReadingHolds, <1>1, PTL DEF Spec, SeekExact

-----------------------------------------------------------------------------
(* Positions of files that are not shared.                                 *)

\* Each file belongs to one process.
Unshared == \A u, v \in Uses : u[2] = v[2] => u[1] = v[1]

\* The copy of the position in a call at label l, against the position itself.
Where(l, c, at) ==
  /\ c.op = "write" => c.pos = at
  /\ c.op = "read" => c.pos = at + Len(c.ubuf)
  /\ c.op = "read" /\ l \in {"unlock", "ret"} /\ c.retval >= 0 => c.retval = Len(c.ubuf)

\* All calls in progress.
Following == \A p \in Proc : pc[p] # "idle" => Where(pc[p], call[p], f_pos[call[p].file])

\* A step of q: what it must say of q's own call and of the files of others.
LEMMA MoveKeepsFollowing ==
  ASSUME Unshared, LockInv, Positions, Following, NEW q \in Proc, NEW label \in Label, NEW c,
         Goto(q, label, c), label # "idle" => Where(label, c, f_pos'[c.file]),
         OwnFileOnly(q)
  PROVE  Following'
<1>1. /\ pc'[q] = label /\ call'[q] = c
      /\ \A p \in Proc : p # q => pc'[p] = pc[p] /\ call'[p] = call[p]
  BY DEF LockInv, Shaped, Goto
<1>2. ASSUME NEW p \in Proc, pc'[p] # "idle"
      PROVE  Where(pc'[p], call'[p], f_pos'[call'[p].file])
  <2>1. CASE p = q
    BY <1>1, <1>2, <2>1
  <2>2. CASE p # q
    <3>1. pc'[p] = pc[p] /\ call'[p] = call[p] /\ pc[p] # "idle"
      BY <1>1, <1>2, <2>2
    <3>2. <<p, call[p].file>> \in Uses /\ (pc[q] # "idle" => <<q, call[q].file>> \in Uses)
      BY <3>1 DEF Positions, Args
    <3>3. call[p].file \in File
      BY <3>2, UserIsKnown
    <3>4. pc[q] # "idle" => call[p].file # call[q].file
      <4>1. ASSUME <<q, call[q].file>> \in Uses, call[p].file = call[q].file
            PROVE  FALSE
        <5> DEFINE u == <<p, call[p].file>>
                   v == <<q, call[q].file>>
        <5>1. u[2] = v[2] /\ u[1] = p /\ v[1] = q
          BY <4>1
        <5>2. u \in Uses /\ v \in Uses
          BY <3>2, <4>1
        <5> HIDE DEF u, v
        <5> QED
          BY <2>2, <5>1, <5>2 DEF Unshared
      <4> QED
        BY <3>2, <4>1
    <3>5. f_pos'[call[p].file] = f_pos[call[p].file]
      BY <3>3, <3>4 DEF OwnFileOnly
    <3>6. Where(pc[p], call[p], f_pos[call[p].file])
      BY <3>1 DEF Following
    <3>7. PICK l, d, x : l = pc[p] /\ d = call[p] /\ x = f_pos[call[p].file]
      OBVIOUS
    <3>8. l = pc'[p] /\ d = call'[p] /\ x = f_pos'[call'[p].file]
      BY <3>1, <3>5, <3>7
    <3> QED
      BY <3>6, <3>7, <3>8
  <2> QED
    BY <2>1, <2>2
<1> QED
  BY <1>2 DEF Following, Where

\* A step inside a call that leaves its file, its copy of the position and what
\* it has read alone.
LEMMA SameCallFollows ==
  ASSUME Unshared, LockInv, MemInv, Positions, Following, NEW q \in Proc, NEW label \in Label,
         NEW c, Goto(q, label, c), pc[q] # "idle", label # "idle", f_pos' = f_pos,
         c.file = call[q].file, c.op = call[q].op, c.pos = call[q].pos, c.ubuf = call[q].ubuf,
         c.op = "read" /\ label \in {"unlock", "ret"} /\ c.retval >= 0 => c.retval = Len(c.ubuf)
  PROVE  Following'
<1>1. OwnFileOnly(q)
  BY DEF OwnFileOnly
<1>2. Where(pc[q], call[q], f_pos[call[q].file])
  BY DEF Following
<1>3. Where(label, c, f_pos[call[q].file])
  BY <1>2 DEF Where
<1>4. Where(label, c, f_pos'[c.file])
  <2>1. PICK x : x = f_pos[call[q].file]
    OBVIOUS
  <2>2. x = f_pos'[c.file]
    BY <2>1
  <2> QED
    BY <1>3, <2>1, <2>2
<1> QED
  BY <1>1, <1>4, MoveKeepsFollowing

\* Entering: the copy is made.
LEMMA SysCallKeepsFollowing ==
  ASSUME Unshared, LockInv, MemInv, Positions, Following, NEW p \in Proc, SysCall(p)
  PROVE  Following'
<1>0. PICK f \in File : \/ \E n \in ReadCounts : SysRead(p, f, n)
                        \/ \E d \in Data : SysWrite(p, f, d)
                        \/ \E s \in Seeks : SysSeek(p, f, s)
  BY DEF SysCall
<1>1. f_pos[f] \in Int /\ Len(<< >>) = 0
  BY AesdCharAssumption DEF Positions
<1> DEFINE Begins(c) == /\ c.file = f /\ c.ubuf = << >>
                        /\ c.op = "seek" \/ (c.op \in {"read", "write"} /\ c.pos = f_pos[f])
<1>3. ASSUME NEW label \in Label \ {"idle"}, NEW c, Goto(p, label, c), Begins(c),
             label = "ret" => ~(c.retval >= 0), label # "unlock", pc[p] = "idle",
             f_pos' = f_pos
      PROVE  Following'
  <2>1. Where(label, c, f_pos[f])
    <3>1. c.op = "read" => c.pos = f_pos[f] + Len(c.ubuf)
      BY <1>1, <1>3
    <3>2. label = "ret" => ~(c.retval >= 0)
      BY <1>3
    <3> QED
      BY <1>3, <3>1, <3>2 DEF Where
  <2>2. Where(label, c, f_pos'[c.file])
    <3>1. PICK x : x = f_pos[f]
      OBVIOUS
    <3>2. x = f_pos'[c.file]
      BY <1>3, <3>1
    <3> QED
      BY <2>1, <3>1, <3>2
  <2>3. OwnFileOnly(p)
    BY <1>3 DEF OwnFileOnly
  <2> QED
    BY <1>3, <2>2, <2>3, MoveKeepsFollowing
<1>4. ASSUME NEW n \in ReadCounts, SysRead(p, f, n)
      PROVE  Following'
  <2> DEFINE c == [NoCall EXCEPT !.op = "read", !.file = f, !.count = n, !.pos = f_pos[f]]
             e == [c EXCEPT !.retval = -EINVAL]
  <2>1. Begins(c) /\ Begins(e) /\ e.retval = -EINVAL /\ ~(-EINVAL >= 0)
    BY DEF NoCall, EINVAL
  <2>2. Goto(p, "ret", e) \/ Goto(p, "r_lock", c)
    BY <1>4 DEF SysRead, Fail
  <2>3. f_pos' = f_pos /\ pc[p] = "idle"
    BY <1>4 DEF SysRead
  <2> HIDE DEF c, e, Begins
  <2> QED
    BY <1>3, <2>1, <2>2, <2>3
<1>5. ASSUME NEW d \in Data, SysWrite(p, f, d)
      PROVE  Following'
  <2> DEFINE c == [NoCall EXCEPT !.op = "write", !.file = f, !.data = d, !.pos = f_pos[f]]
  <2>1. \/ \E e \in {EINVAL, ENOMEM, EFAULT} : Goto(p, "ret", [c EXCEPT !.retval = -e])
        \/ \E b \in Ptr : Goto(p, "w_lock", [c EXCEPT !.tmp_buf = b])
    BY <1>5 DEF SysWrite, Fail, Fresh
  <2>2. /\ \A e \in Int : /\ Begins([c EXCEPT !.retval = -e])
                          /\ [c EXCEPT !.retval = -e].retval = -e
        /\ \A b : Begins([c EXCEPT !.tmp_buf = b])
    BY DEF NoCall
  <2>3. f_pos' = f_pos /\ pc[p] = "idle"
    BY <1>5 DEF SysWrite
  <2>4. \A e \in {EINVAL, ENOMEM, EFAULT} : e \in Int /\ ~(-e >= 0)
    BY DEF EINVAL, ENOMEM, EFAULT
  <2> HIDE DEF c, Begins
  <2>5. ASSUME NEW e \in {EINVAL, ENOMEM, EFAULT}, Goto(p, "ret", [c EXCEPT !.retval = -e])
        PROVE  Following'
    <3>1. PICK r : r = [c EXCEPT !.retval = -e]
      OBVIOUS
    <3>2. Begins(r) /\ ~(r.retval >= 0) /\ Goto(p, "ret", r)
      BY <2>2, <2>4, <2>5, <3>1
    <3> QED
      BY <1>3, <2>3, <3>2
  <2>6. ASSUME NEW b \in Ptr, Goto(p, "w_lock", [c EXCEPT !.tmp_buf = b])
        PROVE  Following'
    BY <1>3, <2>2, <2>3, <2>6
  <2> QED
    BY <2>1, <2>5, <2>6
<1>6. ASSUME NEW s \in Seeks, SysSeek(p, f, s)
      PROVE  Following'
  <2> DEFINE c == [NoCall EXCEPT !.op = "seek", !.file = f, !.seek = s]
  <2>1. \/ \E e \in {ENOTTY, EFAULT} : Goto(p, "ret", [c EXCEPT !.retval = -e])
        \/ Goto(p, "s_lock", c)
    BY <1>6 DEF SysSeek, Fail
  <2>2. Begins(c) /\ \A e \in Int : /\ Begins([c EXCEPT !.retval = -e])
                                     /\ [c EXCEPT !.retval = -e].retval = -e
    <3>1. c.op = "seek" /\ c.file = f /\ c.ubuf = << >> /\ DOMAIN c = DOMAIN NoCall
      BY DEF NoCall
    <3>2. \A e \in Int : LET r == [c EXCEPT !.retval = -e]
                        IN  /\ r.op = "seek" /\ r.file = f /\ r.ubuf = << >>
                            /\ r.retval = -e
      BY DEF NoCall
    <3> QED
      BY <3>1, <3>2
  <2>3. f_pos' = f_pos /\ pc[p] = "idle"
    BY <1>6 DEF SysSeek
  <2>4. \A e \in {ENOTTY, EFAULT} : e \in Int /\ ~(-e >= 0)
    BY DEF ENOTTY, EFAULT
  <2> HIDE DEF c, Begins
  <2>5. ASSUME NEW e \in {ENOTTY, EFAULT}, Goto(p, "ret", [c EXCEPT !.retval = -e])
        PROVE  Following'
    <3>1. PICK r : r = [c EXCEPT !.retval = -e]
      OBVIOUS
    <3>2. Begins(r) /\ ~(r.retval >= 0) /\ Goto(p, "ret", r)
      BY <2>2, <2>4, <2>5, <3>1
    <3> QED
      BY <1>3, <2>3, <3>2
  <2> QED
    BY <1>3, <2>1, <2>2, <2>3, <2>5
<1> QED
  BY <1>0, <1>4, <1>5, <1>6

\* The lock is taken, or a signal arrives.
LEMMA WaitingKeepsFollowing ==
  ASSUME Unshared, LockInv, MemInv, Positions, Following, NEW p \in Proc,
         Lock(p) \/ Interrupted(p)
  PROVE  Following'
<1> DEFINE h == [call[p] EXCEPT !.has_newline = HasNewline(heap[call[p].tmp_buf])]
           r == [call[p] EXCEPT !.retval = -ERESTARTSYS]
           w == [[call[p] EXCEPT !.tmp_buf = NULL] EXCEPT !.retval = -ERESTARTSYS]
<1>1. IsCall(call[p])
  BY DEF LockInv, Shaped
<1>2. \A d \in {h, r, w} :
        /\ d.file = call[p].file /\ d.op = call[p].op
        /\ d.pos = call[p].pos /\ d.ubuf = call[p].ubuf
  BY <1>1 DEF IsCall, NoCall
<1>3. r.retval = -ERESTARTSYS /\ w.retval = -ERESTARTSYS /\ ~(-ERESTARTSYS >= 0)
  BY <1>1 DEF IsCall, NoCall, ERESTARTSYS
<1>4. f_pos' = f_pos /\ pc[p] # "idle"
  BY DEF Lock, ReadLock, WriteLock, SeekLock, Acquire, Interrupted, ReadInterrupted,
         WriteInterrupted
<1>5. \/ \E label \in {"r_loop", "s_body"} : Goto(p, label, call[p])
      \/ Goto(p, "w_body", h) \/ Goto(p, "ret", r) \/ Goto(p, "ret", w)
  BY DEF Lock, ReadLock, WriteLock, SeekLock, Acquire, Interrupted, ReadInterrupted,
         WriteInterrupted, Fail
<1> HIDE DEF h, r, w
<1> QED
  BY <1>2, <1>3, <1>4, <1>5, SameCallFollows

\* The loop of aesd_read moves the copy with the bytes.
LEMMA ReadBodyKeepsFollowing ==
  ASSUME Unshared, LockInv, MemInv, Positions, Reading, Following, NEW p \in Proc,
         ReadCopy(p) \/ ReadFault(p) \/ ReadDone(p)
  PROVE  Following'
<1> DEFINE c == call[p]
           chunk == NextChunk(c)
<1>1. pc[p] = "r_loop" /\ f_pos' = f_pos
  BY DEF ReadCopy, ReadFault, ReadDone
<1>2. IsCall(c) /\ Args(p, "r_loop", c) /\ c.op = "read" /\ c.file \in File
  BY <1>1, ArgsOf DEF Locals
<1>3. CASE ReadFault(p) \/ ReadDone(p)
  <2>1. PICK v : Goto(p, "unlock", [c EXCEPT !.retval = v]) /\ v \in {-EFAULT, Len(c.ubuf)}
    BY <1>3 DEF ReadFault, ReadDone
  <2> DEFINE d == [c EXCEPT !.retval = v]
  <2>2. d.file = c.file /\ d.op = c.op /\ d.pos = c.pos /\ d.ubuf = c.ubuf /\ d.retval = v
    BY <1>2 DEF IsCall, NoCall
  <2>3. ~(-EFAULT >= 0)
    BY DEF EFAULT
  <2>4. Goto(p, "unlock", d)
    BY <2>1
  <2> HIDE DEF d
  <2>5. d.op = "read" /\ d.retval >= 0 => d.retval = Len(d.ubuf)
    BY <2>1, <2>2, <2>3
  <2> QED
    BY <1>1, <2>2, <2>4, <2>5, SameCallFollows
<1>4. CASE ReadCopy(p)
  <2> DEFINE d == [c EXCEPT !.pos = @ + Len(chunk), !.ubuf = @ \o chunk]
  <2>1. Goto(p, "r_loop", d)
    BY <1>4 DEF ReadCopy
  <2>2. d.file = c.file /\ d.op = "read" /\ d.pos = c.pos + Len(chunk) /\ d.ubuf = c.ubuf \o chunk
    BY <1>2, ZenonT(30) DEF IsCall, NoCall
  <2>3. chunk \in Seq(Nat)
    <3>1. mod = "live"
      BY <1>1, HolderIsAlone DEF Critical
    <3>2. c.pos \in Nat /\ c.count \in Nat /\ c.ubuf \in Seq(Nat)
      BY <1>2, AesdCharAssumption DEF Args
    <3>3. Len(c.ubuf) <= c.count
      BY <1>1 DEF Reading, Copied
    <3> QED
      BY <3>1, <3>2, <3>3, ChunkIs DEF ChunkFits
  <2>4. PICK u, k, x : u = c.ubuf /\ k = chunk /\ x = f_pos[c.file]
    OBVIOUS
  <2>5. u \in Seq(Nat) /\ k \in Seq(Nat) /\ x \in Nat
    <3>1. c.ubuf \in Seq(Nat)
      BY <1>2 DEF Args
    <3>2. f_pos[c.file] \in 0..LoffMax
      BY <1>2 DEF Positions
    <3> HIDE DEF c, chunk
    <3> QED
      BY <2>3, <2>4, <3>1, <3>2, AesdCharAssumption
  <2>6. Len(u \o k) = Len(u) + Len(k) /\ Len(u) \in Nat /\ Len(k) \in Nat
    BY <2>5
  <2>7. c.pos = x + Len(u)
    BY <1>1, <1>2, <2>4 DEF Following, Where
  <2>8. d.pos = x + Len(d.ubuf)
    <3>1. d.pos = c.pos + Len(k) /\ d.ubuf = u \o k
      BY <2>2, <2>4
    <3> HIDE DEF d, c
    <3> QED
      BY <2>5, <2>6, <2>7, <3>1
  <2> HIDE DEF d, chunk
  <2>9. Where("r_loop", d, x)
    BY <2>2, <2>8 DEF Where
  <2>10. Where("r_loop", d, f_pos'[d.file])
    <3>1. x = f_pos'[d.file]
      BY <1>1, <2>2, <2>4
    <3> QED
      BY <2>9, <3>1
  <2>11. OwnFileOnly(p)
    BY <1>1 DEF OwnFileOnly
  <2> QED
    BY <2>1, <2>10, <2>11, MoveKeepsFollowing
<1> QED
  BY <1>3, <1>4

\* aesd_write leaves the copy as it was.
LEMMA WriteBodyKeepsFollowing ==
  ASSUME Unshared, LockInv, MemInv, Positions, Following, NEW p \in Proc,
         \/ WriteDirect(p) \/ WriteFirstPart(p) \/ WriteAppend(p) \/ WriteAppendFails(p)
         \/ WriteStore(p) \/ WriteFree(p)
  PROVE  Following'
<1>1. UNCHANGED <<opened, f_pos>> /\ pc[p] # "idle" /\ call[p].op = "write"
  BY WriteBodyMoves
<1>2. PICK label, d :
        label \in {"w_store", "unlock", "ret"} /\ Goto(p, label, d) /\ Like(d, call[p]) /\ d.retval \in Int
  BY WriteBodyMoves
<1>3. /\ d.file = call[p].file /\ d.pos = call[p].pos /\ d.ubuf = call[p].ubuf
      /\ d.op = call[p].op /\ d.op # "read"
  BY <1>1, <1>2 DEF Like
<1> QED
  BY <1>1, <1>2, <1>3, SameCallFollows

\* A seek moves the position of its own file.
LEMMA SeekBodyKeepsFollowing ==
  ASSUME Unshared, LockInv, MemInv, Positions, Following, NEW p \in Proc, Llseek(p) \/ Ioctl(p)
  PROVE  Following'
<1>1. pc[p] = "s_body" /\ OwnFileOnly(p)
  BY SeekBodyMoves
<1>2. PICK d : Goto(p, "unlock", d) /\ Like(d, call[p]) /\ d.op = "seek" /\ d.retval \in Int
  BY SeekBodyMoves
<1>3. Where("unlock", d, f_pos'[d.file])
  BY <1>2 DEF Where
<1> QED
  BY <1>1, <1>2, <1>3, MoveKeepsFollowing

\* Leaving: the copy becomes the position.
LEMMA LeaveKeepsFollowing ==
  ASSUME Unshared, LockInv, MemInv, Positions, Following, NEW p \in Proc,
         Unlock(p) \/ Return(p)
  PROVE  Following'
<1>1. CASE Unlock(p)
  <2>1. Goto(p, "ret", call[p]) \/ Goto(p, "w_free", call[p])
    <3>1. call' = [call EXCEPT ![p] = call[p]]
      BY <1>1 DEF Unlock, LockInv, Shaped
    <3>2. \/ pc' = [pc EXCEPT ![p] = "w_free"]
          \/ pc' = [pc EXCEPT ![p] = "ret"]
      BY <1>1 DEF Unlock
    <3> QED
      BY <3>1, <3>2 DEF Goto
  <2>2. f_pos' = f_pos /\ pc[p] = "unlock"
    BY <1>1 DEF Unlock
  <2>3. Where("unlock", call[p], f_pos[call[p].file])
    BY <2>2 DEF Following
  <2>4. call[p].op = "read" /\ call[p].retval >= 0 => call[p].retval = Len(call[p].ubuf)
    BY <2>3 DEF Where
  <2> QED
    BY <2>1, <2>2, <2>4, SameCallFollows
<1>2. CASE Return(p)
  <2>1. pc[p] = "ret" /\ Goto(p, "idle", NoCall)
    BY <1>2 DEF Return
  <2>2. OwnFileOnly(p)
    BY <1>2, <2>1 DEF Return, OwnFileOnly, Positions
  <2> QED
    BY <2>1, <2>2, MoveKeepsFollowing
<1> QED
  BY <1>1, <1>2

\* A file is opened and released while no call on it is in progress.
LEMMA OutsideKeepsFollowing ==
  ASSUME LockInv, MemInv, Positions, Following, Module \/ Files
  PROVE  Following'
<1>1. UNCHANGED <<pc, call>>
  BY DEF Module, AllocRegion, SetupCdev, SetupCdevFails, Cleanup, Files, Open, Release
<1>2. ASSUME NEW p \in Proc, pc[p] # "idle"
      PROVE  f_pos'[call[p].file] = f_pos[call[p].file]
  <2>1. call[p].file \in opened /\ call[p].file \in File
    BY <1>2, ArgsOf DEF LockInv, InUse
  <2>2. CASE Module
    BY <2>2 DEF Module, AllocRegion, SetupCdev, SetupCdevFails, Cleanup
  <2>3. CASE Files
    <3>1. PICK f \in File : Open(f) \/ Release(f)
      BY <2>3 DEF Files
    <3>2. f # call[p].file
      BY <1>2, <2>1, <3>1 DEF Open, Release
    <3> QED
      BY <2>1, <3>1, <3>2 DEF Open, Release, Positions
  <2> QED
    BY <2>2, <2>3
<1>3. ASSUME NEW p \in Proc, pc'[p] # "idle"
      PROVE  Where(pc'[p], call'[p], f_pos'[call'[p].file])
  <2>1. Where(pc[p], call[p], f_pos[call[p].file])
    BY <1>1, <1>3 DEF Following
  <2>2. PICK l, d, x : l = pc[p] /\ d = call[p] /\ x = f_pos[call[p].file]
    OBVIOUS
  <2>3. l = pc'[p] /\ d = call'[p] /\ x = f_pos'[call'[p].file]
    BY <1>1, <1>2, <1>3, <2>2
  <2> QED
    BY <2>1, <2>2, <2>3
<1> QED
  BY <1>3 DEF Following, Where

\* The invariant about files that are not shared.
LEMMA FollowingHolds ==
  ASSUME Unshared
  PROVE  Spec => []Following
<1>1. Init => Following
  BY DEF Init, Following
<1>2. LockInv /\ MemInv /\ Positions /\ Reading /\ Following /\ [Next]_vars => Following'
  <2> SUFFICES ASSUME LockInv, MemInv, Positions, Reading, Following, [Next]_vars
               PROVE  Following'
    OBVIOUS
  <2>1. CASE UNCHANGED vars
    BY <2>1 DEF vars, Following, Where
  <2>2. ASSUME NEW p \in Proc, Body(p)
        PROVE  Following'
    BY <2>2, ReadBodyKeepsFollowing, WriteBodyKeepsFollowing, SeekBodyKeepsFollowing,
       LeaveKeepsFollowing DEF Body
  <2> QED
    BY <2>1, <2>2, OutsideKeepsFollowing, SysCallKeepsFollowing, WaitingKeepsFollowing DEF Next
<1> QED
  BY InvHolds, ReadingHolds, <1>1, <1>2, PTL DEF Spec

\* While each file has one user, its position moves only by an accepted seek
\* and by the bytes that a read reports, although the VFS stores back a copy
\* that it made before the call took the lock.
THEOREM DriverPositionsExact ==
  ASSUME \A u, v \in Uses : u[2] = v[2] => u[1] = v[1]
  PROVE  Spec => PositionExact
<1> DEFINE Moves(f, p) ==
             /\ call[p].file = f
             /\ \/ pc[p] = "s_body"
                \/ /\ pc[p] = "ret" /\ call[p].op = "read"
                   /\ f_pos'[f] = f_pos[f] + call[p].retval
<1>1. LockInv /\ MemInv /\ Positions /\ Reading /\ Following /\ [Next]_vars =>
        [\A f \in opened \cap opened' : f_pos'[f] # f_pos[f] => \E p \in Proc : Moves(f, p)]_vars
  <2> SUFFICES ASSUME LockInv, MemInv, Positions, Following, Next,
                      NEW f \in opened \cap opened', f_pos'[f] # f_pos[f]
               PROVE  \E p \in Proc : Moves(f, p)
    OBVIOUS
  <2>1. f \in File /\ f_pos \in [File -> 0..LoffMax]
    BY DEF Positions
  <2>2. ~(Module \/ Files)
    <3>1. ~Module
      BY DEF Module, AllocRegion, SetupCdev, SetupCdevFails, Cleanup
    <3>2. ASSUME NEW g \in File, Open(g) \/ Release(g)
          PROVE  FALSE
      BY <2>1, <3>2 DEF Open, Release
    <3> QED
      BY <3>1, <3>2 DEF Files
  <2>3. PICK p \in Proc : SysCall(p) \/ Lock(p) \/ Interrupted(p) \/ Body(p)
    BY <2>2 DEF Next
  <2>4. (Llseek(p) \/ Ioctl(p)) \/ Return(p)
    <3>1. ~SysCall(p) /\ ~Lock(p) /\ ~Interrupted(p)
      BY DEF SysCall, SysRead, SysWrite, SysSeek, Lock, ReadLock, WriteLock, SeekLock, Acquire,
             Interrupted, ReadInterrupted, WriteInterrupted
    <3>2. ~ReadCopy(p) /\ ~ReadFault(p) /\ ~ReadDone(p) /\ ~Unlock(p)
      BY DEF ReadCopy, ReadFault, ReadDone, Unlock
    <3>3. /\ ~WriteDirect(p) /\ ~WriteFirstPart(p) /\ ~WriteAppend(p) /\ ~WriteAppendFails(p)
          /\ ~WriteStore(p) /\ ~WriteFree(p)
      BY DEF WriteDirect, WriteFirstPart, WriteAppend, WriteAppendFails, WriteStore, WriteFree
    <3> QED
      BY <2>3, <3>1, <3>2, <3>3, SMTT(30) DEF Body
  <2>5. CASE Llseek(p) \/ Ioctl(p)
    <3>1. pc[p] = "s_body" /\ OwnFileOnly(p)
      BY <2>5, SeekBodyMoves
    <3>2. call[p].file = f
      BY <2>1, <3>1 DEF OwnFileOnly
    <3> QED
      BY <3>1, <3>2
  <2>6. CASE Return(p)
    <3>1. pc[p] = "ret" /\ f_pos' = [f_pos EXCEPT ![call[p].file] = call[p].pos]
          /\ call[p].op \in {"read", "write"} /\ call[p].retval >= 0
      BY <2>6 DEF Return
    <3>2. call[p].file = f /\ f_pos'[f] = call[p].pos
      BY <2>1, <3>1
    <3>3. Where("ret", call[p], f_pos[call[p].file])
      BY <3>1 DEF Following
    <3>4. call[p].op # "write"
      BY <3>2, <3>3 DEF Where
    <3>5. call[p].op = "read" /\ call[p].retval = Len(call[p].ubuf)
          /\ call[p].pos = f_pos[f] + Len(call[p].ubuf)
      BY <3>1, <3>2, <3>3, <3>4 DEF Where
    <3> QED
      BY <3>1, <3>2, <3>5
  <2> QED
    BY <2>4, <2>5, <2>6
<1>2. Unshared
  BY DEF Unshared
<1> QED
  BY InvHolds, ReadingHolds, FollowingHolds, <1>1, <1>2, PTL DEF Spec, PositionExact

=============================================================================
