------------------------------ MODULE AesdChar ------------------------------
(***************************************************************************)
(* The aesdchar driver (aesd-char-driver/main.c): the device, the heap it  *)
(* allocates from, the open files, and processes that interleave read,     *)
(* write, llseek and ioctl calls on them.  One action per stretch of code  *)
(* between two points where another process can be seen: taking and        *)
(* releasing buffer_lock, and every change of state others can reach.      *)
(*                                                                         *)
(* External behaviour modelled from how main.c uses it: kmalloc, krealloc  *)
(* and kfree, the user-copy functions, which may fail, the mutex, and the  *)
(* VFS, which hands read and write a copy of filp->f_pos and stores it     *)
(* back after a call that did not fail.                                    *)
(***************************************************************************)
EXTENDS CircularBuffer

CONSTANTS
  Proc,        \* processes and threads that use the device
  File,        \* open file descriptions (struct file)
  Uses,        \* <<p, f>>: p holds a descriptor of f (several may, after a fork)
  Data,        \* what a write may carry: sequences of bytes
  ReadCounts,  \* the count argument of a read
  Seeks,       \* the arguments of llseek and of the ioctl
  MaxAlloc,    \* the largest size the allocator serves
  LoffMax      \* the largest loff_t

\* llseek: whence and offset, a loff_t.  ioctl AESDCHAR_IOCSEEKTO: "CMD",
\* write_cmd and write_cmd_offset, which are unsigned; any other ioctl: "BAD_IOCTL".
Seek == [whence : {"SET", "CUR", "END", "BAD", "CMD", "BAD_IOCTL"}, cmd : Nat,
         offset : -(LoffMax + 1)..LoffMax]

\* The heap is finite; loff_t can hold the size of a full device and has the
\* range of a two's complement integer.
ASSUME AesdCharAssumption ==
  /\ Data \subseteq Seq(Nat) /\ ReadCounts \subseteq Nat
  /\ MaxAlloc \in Nat /\ LoffMax \in Nat /\ MaxOps * MaxAlloc <= LoffMax
  /\ File \subseteq Nat \ {0} /\ Uses \subseteq Proc \X File
  /\ Seeks \subseteq Seek /\ \A s \in Seeks : s.whence = "CMD" => s.offset >= 0

VARIABLES
  mod,            \* "out", "region" (chrdev region allocated), "live"
  buffer,         \* aesd_device.buffer
  partial_write,  \* aesd_device.partial_write
  partial_size,   \* aesd_device.partial_size
  lock,           \* aesd_device.buffer_lock: the set of its holders
  heap,           \* the bytes of each block; << >> for a free one
  opened,         \* the files that are open on the device
  f_pos,          \* filp->f_pos of each file
  pc,             \* where each process is
  call            \* the arguments and locals of its system call

device == <<buffer, partial_write, partial_size>>
vars == <<mod, device, lock, heap, opened, f_pos, pc, call>>

Newline == 10

EINVAL == 22
EFAULT == 14
ENOMEM == 12
ERESTARTSYS == 512
ENOTTY == 25

\* memchr(tmp_buf, '\n', count) != NULL
HasNewline(bytes) == \E i \in 1..Len(bytes) : bytes[i] = Newline

\* Arithmetic on loff_t wraps (the kernel is built with -fno-strict-overflow).
Loff(n) == ((n + LoffMax + 1) % (2 * (LoffMax + 1))) - (LoffMax + 1)

NoSeek == [whence |-> "SET", cmd |-> 0, offset |-> 0]

\* A process outside the driver.  pos is the VFS's copy of f_pos, ubuf what a
\* read has copied to user space.
NoCall == [op |-> "none", file |-> 0, data |-> << >>, count |-> 0, seek |-> NoSeek,
           pos |-> 0, tmp_buf |-> NULL, combined_buf |-> NULL, has_newline |-> FALSE,
           ubuf |-> << >>, retval |-> 0]

Init ==
  /\ mod = "out"
  /\ buffer = EmptyBuffer /\ partial_write = NULL /\ partial_size = 0
  /\ lock = {}
  /\ heap = [b \in Ptr |-> << >>]
  /\ opened = {} /\ f_pos = [f \in File |-> 0]
  /\ pc = [p \in Proc |-> "idle"] /\ call = [p \in Proc |-> NoCall]

-----------------------------------------------------------------------------
(* The allocator.                                                          *)

Allocated == {b \in Ptr : heap[b] # << >>}

\* Where the next block comes from.  Which free block it is makes no
\* difference to the driver, so the model takes the lowest.
Fresh == {b \in Ptr \ Allocated : \A c \in Ptr \ Allocated : b <= c}

\* kfree, which ignores NULL.
Kfree(h, b) == IF b = NULL THEN h ELSE [h EXCEPT ![b] = << >>]

\* Faulty variant: the new part is copied to the start of the block.
KreallocMisplaced(b, more) ==
  LET bytes == more \o heap[b]
  IN  IF Len(bytes) > MaxAlloc THEN {} ELSE {<<b, [heap EXCEPT ![b] = bytes]>>}

\* The pairs <<block, heap>> with which krealloc(b) may succeed: the block
\* grows in place, or its bytes move to a new block and the old one is freed.
\* The caller's memcpy fills the new space with more.
Krealloc(b, more) ==
  LET bytes == heap[b] \o more
  IN  IF Len(bytes) > MaxAlloc THEN {}
      ELSE {<<b, [heap EXCEPT ![b] = bytes]>>} \cup
           {<<n, [heap EXCEPT ![n] = bytes, ![b] = << >>]>> : n \in Fresh}

-----------------------------------------------------------------------------
(* Loading and unloading (aesd_init_module, aesd_cleanup_module).          *)

\* alloc_chrdev_region succeeded (when it fails, init returns at once).
AllocRegion ==
  /\ mod = "out"
  /\ mod' = "region"
  /\ UNCHANGED <<device, lock, heap, opened, f_pos, pc, call>>

\* The device is cleared and initialised, then cdev_add makes it reachable.
SetupCdev ==
  /\ mod = "region"
  /\ mod' = "live"
  /\ buffer' = EmptyBuffer /\ partial_write' = NULL /\ partial_size' = 0
  /\ lock' = {}
  /\ UNCHANGED <<heap, opened, f_pos, pc, call>>

\* cdev_add failed: the region is given back.
SetupCdevFails ==
  /\ mod = "region"
  /\ mod' = "out"
  /\ buffer' = EmptyBuffer /\ partial_write' = NULL /\ partial_size' = 0
  /\ lock' = {}
  /\ UNCHANGED <<heap, opened, f_pos, pc, call>>

\* rmmod, which the kernel refuses while a file is open.
Cleanup ==
  /\ mod = "live" /\ opened = {}
  /\ mod' = "out"
  /\ heap' = [b \in Ptr |->
       IF b = partial_write \/ \E i \in Slot : b = buffer.entry[i].buffptr
       THEN << >> ELSE heap[b]]
  /\ partial_write' = NULL
  /\ buffer' = [buffer EXCEPT !.entry =
       [i \in Slot |-> [buffer.entry[i] EXCEPT !.buffptr = NULL]]]
  /\ UNCHANGED <<partial_size, lock, opened, f_pos, pc, call>>

-----------------------------------------------------------------------------
(* Entering and leaving a system call (external: the VFS).                 *)

\* aesd_open.
Open(f) ==
  /\ mod = "live" /\ f \notin opened
  /\ opened' = opened \cup {f}
  /\ f_pos' = [f_pos EXCEPT ![f] = 0]
  /\ UNCHANGED <<mod, device, lock, heap, pc, call>>

\* aesd_release: the last reference is gone, a call in progress included.
Release(f) ==
  /\ f \in opened /\ \A p \in Proc : call[p].file # f
  /\ opened' = opened \ {f}
  /\ f_pos' = [f_pos EXCEPT ![f] = 0]
  /\ UNCHANGED <<mod, device, lock, heap, pc, call>>

\* p moves to label with its locals changed to c.
Goto(p, label, c) ==
  /\ pc' = [pc EXCEPT ![p] = label]
  /\ call' = [call EXCEPT ![p] = c]

\* The call of p ends with an error.
Fail(p, c, errno) == Goto(p, "ret", [c EXCEPT !.retval = -errno])

\* Back in the VFS: read and write store their copy of the position.
Return(p) ==
  /\ pc[p] = "ret"
  /\ f_pos' = IF call[p].op \in {"read", "write"} /\ call[p].retval >= 0
              THEN [f_pos EXCEPT ![call[p].file] = call[p].pos] ELSE f_pos
  /\ Goto(p, "idle", NoCall)
  /\ UNCHANGED <<mod, device, lock, heap, opened>>

\* Faulty variant: nobody waits for the mutex.
LockIgnored == TRUE

LockFree == lock = {}

\* mutex_lock and a mutex_lock_interruptible that succeeds.
Acquire(p, from, to, c) ==
  /\ pc[p] = from /\ LockFree
  /\ lock' = {p}
  /\ Goto(p, to, c)
  /\ UNCHANGED <<mod, device, heap, opened, f_pos>>

\* mutex_unlock at the end of each operation.
Unlock(p) ==
  /\ pc[p] = "unlock"
  /\ lock' = lock \ {p}
  /\ pc' = [pc EXCEPT ![p] = IF call[p].op = "write" THEN "w_free" ELSE "ret"]
  /\ UNCHANGED <<mod, device, heap, opened, f_pos, call>>

-----------------------------------------------------------------------------
(* aesd_read.                                                              *)

SysRead(p, f, n) ==
  LET c == [NoCall EXCEPT !.op = "read", !.file = f, !.count = n, !.pos = f_pos[f]]
  IN  /\ pc[p] = "idle" /\ f \in opened
      /\ IF n = 0 THEN Fail(p, c, EINVAL) ELSE Goto(p, "r_lock", c)
      /\ UNCHANGED <<mod, device, lock, heap, opened, f_pos>>

ReadLock(p) == Acquire(p, "r_lock", "r_loop", call[p])

\* A signal arrives while the process waits for the mutex.
ReadInterrupted(p) ==
  /\ pc[p] = "r_lock" /\ lock # {}
  /\ Fail(p, call[p], ERESTARTSYS)
  /\ UNCHANGED <<mod, device, lock, heap, opened, f_pos>>

\* The entry and the bytes the next turn of the loop copies: << >> at the end.
NextChunk(c) ==
  LET hit   == FindEntry(buffer, c.pos)
      entry == buffer.entry[hit.slot]
      room  == c.count - Len(c.ubuf)
      avail == entry.size - hit.offset
      n     == IF avail > room THEN room ELSE avail
  IN  IF ~hit.found \/ entry.buffptr = NULL THEN << >>
      ELSE SubSeq(heap[entry.buffptr], hit.offset + 1, hit.offset + n)

\* copy_to_user of one chunk succeeds and the loop goes on.
ReadCopy(p) ==
  LET c == call[p]
      chunk == NextChunk(c)
  IN  /\ pc[p] = "r_loop" /\ chunk # << >>
      /\ Goto(p, "r_loop", [c EXCEPT !.pos = @ + Len(chunk), !.ubuf = @ \o chunk])
      /\ UNCHANGED <<mod, device, lock, heap, opened, f_pos>>

\* copy_to_user fails: the call fails, whatever was copied before.
ReadFault(p) ==
  /\ pc[p] = "r_loop" /\ NextChunk(call[p]) # << >>
  /\ Goto(p, "unlock", [call[p] EXCEPT !.retval = -EFAULT])
  /\ UNCHANGED <<mod, device, lock, heap, opened, f_pos>>

\* The user buffer is full or the data has ended.
ReadDone(p) ==
  /\ pc[p] = "r_loop" /\ NextChunk(call[p]) = << >>
  /\ Goto(p, "unlock", [call[p] EXCEPT !.retval = Len(call[p].ubuf)])
  /\ UNCHANGED <<mod, device, lock, heap, opened, f_pos>>

-----------------------------------------------------------------------------
(* aesd_write.                                                             *)

\* Validation, kmalloc and copy_from_user.  Either of the two may fail, and
\* then nothing stays allocated.
SysWrite(p, f, d) ==
  LET c == [NoCall EXCEPT !.op = "write", !.file = f, !.data = d, !.pos = f_pos[f]]
  IN  /\ pc[p] = "idle" /\ f \in opened
      /\ \/ /\ d = << >>
            /\ Fail(p, c, EINVAL)
            /\ UNCHANGED heap
         \/ /\ d # << >>
            /\ \E errno \in {ENOMEM, EFAULT} : Fail(p, c, errno)
            /\ UNCHANGED heap
         \/ /\ d # << >> /\ Len(d) <= MaxAlloc
            /\ \E b \in Fresh : /\ heap' = [heap EXCEPT ![b] = d]
                                /\ Goto(p, "w_lock", [c EXCEPT !.tmp_buf = b])
      /\ UNCHANGED <<mod, device, lock, opened, f_pos>>

WriteLock(p) ==
  Acquire(p, "w_lock", "w_body",
          [call[p] EXCEPT !.has_newline = HasNewline(heap[call[p].tmp_buf])])

\* Faulty variant: the block is not freed when the lock is interrupted.
WriteInterruptedLeaks(p) ==
  /\ pc[p] = "w_lock" /\ lock # {}
  /\ Fail(p, [call[p] EXCEPT !.tmp_buf = NULL], ERESTARTSYS)
  /\ UNCHANGED <<mod, device, lock, heap, opened, f_pos>>

WriteInterrupted(p) ==
  /\ pc[p] = "w_lock" /\ lock # {}
  /\ heap' = Kfree(heap, call[p].tmp_buf)
  /\ Fail(p, [call[p] EXCEPT !.tmp_buf = NULL], ERESTARTSYS)
  /\ UNCHANGED <<mod, device, lock, opened, f_pos>>

\* Faulty variant: tmp_buf is not cleared, so it is freed after the unlock.
HandedOverFrees(c) == [c EXCEPT !.retval = Len(c.data)]

\* Faulty variant: the write advances *f_pos, as writes to files do.
HandedOverMoves(c) ==
  [c EXCEPT !.retval = Len(c.data), !.tmp_buf = NULL, !.pos = @ + Len(c.data)]

\* The ring owns tmp_buf now; the caller is told count.
HandedOver(c) == [c EXCEPT !.retval = Len(c.data), !.tmp_buf = NULL]

\* Case 1: a whole command goes into the ring.
WriteDirect(p) ==
  LET c == call[p]
  IN  /\ pc[p] = "w_body" /\ partial_write = NULL /\ c.has_newline
      /\ buffer' = AddEntry(buffer, [buffptr |-> c.tmp_buf, size |-> Len(c.data)])
      /\ Goto(p, "unlock", HandedOver(c))
      /\ UNCHANGED <<mod, partial_write, partial_size, lock, heap, opened, f_pos>>

\* Case 2, first part of a command: the block becomes combined_buf.
WriteFirstPart(p) ==
  LET c == call[p]
  IN  /\ pc[p] = "w_body" /\ partial_write = NULL /\ ~c.has_newline
      /\ Goto(p, "w_store", [c EXCEPT !.combined_buf = c.tmp_buf, !.tmp_buf = NULL])
      /\ UNCHANGED <<mod, device, lock, heap, opened, f_pos>>

\* Case 2, later part: krealloc, memcpy, kfree(tmp_buf).  Until the next step
\* partial_write may point to a block that krealloc has freed.
WriteAppend(p) ==
  LET c == call[p]
  IN  /\ pc[p] = "w_body" /\ partial_write # NULL
      /\ \E r \in Krealloc(partial_write, heap[c.tmp_buf]) :
           /\ heap' = Kfree(r[2], c.tmp_buf)
           /\ Goto(p, "w_store", [c EXCEPT !.combined_buf = r[1], !.tmp_buf = NULL])
      /\ UNCHANGED <<mod, device, lock, opened, f_pos>>

\* Faulty variant: an early return that keeps the lock.
WriteAppendFailsLocked(p) ==
  /\ pc[p] = "w_body" /\ partial_write # NULL
  /\ Goto(p, "w_free", [call[p] EXCEPT !.retval = -ENOMEM])
  /\ UNCHANGED <<mod, device, lock, heap, opened, f_pos>>

\* Faulty variant: the failure is reported as a success.
WriteAppendFailsSilently(p) ==
  /\ pc[p] = "w_body" /\ partial_write # NULL
  /\ Goto(p, "unlock", [call[p] EXCEPT !.retval = Len(call[p].data)])
  /\ UNCHANGED <<mod, device, lock, heap, opened, f_pos>>

\* krealloc failed: the pending command stays as it was.
WriteAppendFails(p) ==
  /\ pc[p] = "w_body" /\ partial_write # NULL
  /\ Goto(p, "unlock", [call[p] EXCEPT !.retval = -ENOMEM])
  /\ UNCHANGED <<mod, device, lock, heap, opened, f_pos>>

\* Case 2, last step: add the finished command, or keep accumulating.
WriteStore(p) ==
  LET c    == call[p]
      size == partial_size + Len(c.data)
  IN  /\ pc[p] = "w_store"
      /\ IF c.has_newline
         THEN /\ buffer' = AddEntry(buffer, [buffptr |-> c.combined_buf, size |-> size])
              /\ partial_write' = NULL /\ partial_size' = 0
         ELSE /\ partial_write' = c.combined_buf /\ partial_size' = size
              /\ UNCHANGED buffer
      /\ Goto(p, "unlock", [c EXCEPT !.retval = Len(c.data), !.combined_buf = NULL])
      /\ UNCHANGED <<mod, lock, heap, opened, f_pos>>

\* After the unlock: a block that was not stored is freed.
WriteFree(p) ==
  /\ pc[p] = "w_free"
  /\ heap' = Kfree(heap, call[p].tmp_buf)
  /\ Goto(p, "ret", [call[p] EXCEPT !.tmp_buf = NULL])
  /\ UNCHANGED <<mod, device, lock, opened, f_pos>>

-----------------------------------------------------------------------------
(* aesd_llseek and aesd_unlocked_ioctl.                                    *)

SysSeek(p, f, s) ==
  LET c == [NoCall EXCEPT !.op = "seek", !.file = f, !.seek = s]
  IN  /\ pc[p] = "idle" /\ f \in opened
      /\ \/ s.whence = "BAD_IOCTL" /\ Fail(p, c, ENOTTY)
         \/ s.whence = "CMD" /\ Fail(p, c, EFAULT)
         \/ s.whence # "BAD_IOCTL" /\ Goto(p, "s_lock", c)
      /\ UNCHANGED <<mod, device, lock, heap, opened, f_pos>>

SeekLock(p) == Acquire(p, "s_lock", "s_body", call[p])

\* The end of both bodies: a refused seek leaves f_pos alone.  The arguments
\* are not used again and are dropped.
FinishSeek(p, accepted, new_fpos, ret) ==
  /\ f_pos' = IF accepted THEN [f_pos EXCEPT ![call[p].file] = new_fpos] ELSE f_pos
  /\ Goto(p, "unlock", [call[p] EXCEPT !.retval = IF accepted THEN ret ELSE -EINVAL,
                                       !.seek = NoSeek])
  /\ UNCHANGED <<mod, device, lock, heap, opened>>

Llseek(p) ==
  LET s == call[p].seek
      total_size == TotalSize(buffer)
      new_fpos == Loff(CASE s.whence = "CUR" -> f_pos[call[p].file] + s.offset
                         [] s.whence = "END" -> total_size + s.offset
                         [] OTHER -> s.offset)
  IN  /\ pc[p] = "s_body" /\ s.whence # "CMD"
      /\ FinishSeek(p, s.whence # "BAD" /\ new_fpos >= 0 /\ new_fpos <= total_size,
                    new_fpos, new_fpos)

\* Faulty variant: the entry is looked up from slot 0, not from the oldest.
CommandFromSlotZero(n) == buffer.entry[n]

\* The entry of the n-th command, counted from the oldest.
Command(n) == buffer.entry[SlotAt(buffer, n)]

Ioctl(p) ==
  LET s == call[p].seek
      total_commands == IF buffer.full THEN MaxOps ELSE buffer.in_offs
      entry == Command(s.cmd)
  IN  /\ pc[p] = "s_body" /\ s.whence = "CMD"
      /\ IF s.cmd < total_commands /\ entry.buffptr # NULL /\ s.offset < entry.size
         THEN FinishSeek(p, TRUE, BytesBefore(buffer, s.cmd) + s.offset, 0)
         ELSE FinishSeek(p, FALSE, 0, 0)

-----------------------------------------------------------------------------

Module == AllocRegion \/ SetupCdev \/ SetupCdevFails \/ Cleanup

Files == \E f \in File : Open(f) \/ Release(f)

SysCall(p) ==
  \E f \in {f \in File : <<p, f>> \in Uses} :
                  \/ \E n \in ReadCounts : SysRead(p, f, n)
                  \/ \E d \in Data : SysWrite(p, f, d)
                  \/ \E s \in Seeks : SysSeek(p, f, s)

Lock(p) == ReadLock(p) \/ WriteLock(p) \/ SeekLock(p)

Interrupted(p) == ReadInterrupted(p) \/ WriteInterrupted(p)

Body(p) ==
  \/ ReadCopy(p) \/ ReadFault(p) \/ ReadDone(p)
  \/ WriteDirect(p) \/ WriteFirstPart(p) \/ WriteAppend(p) \/ WriteAppendFails(p)
  \/ WriteStore(p) \/ WriteFree(p)
  \/ Llseek(p) \/ Ioctl(p)
  \/ Unlock(p) \/ Return(p)

Next ==
  \/ Module \/ Files
  \/ \E p \in Proc : SysCall(p) \/ Lock(p) \/ Interrupted(p) \/ Body(p)

Spec == Init /\ [][Next]_vars

\* A process in the driver keeps running, and a mutex that is free again and
\* again is at last handed to each waiter (kernel mutexes queue waiters and
\* hand over to one that is starved).  Nothing obliges a user to make a call.
Fairness == \A p \in Proc : WF_vars(Body(p)) /\ SF_vars(Lock(p))

FairSpec == Spec /\ Fairness

=============================================================================
