# Verification of the aesd character driver, socket server and companion programs

The repository holds the `aesdchar` kernel driver (`aesd-char-driver/`), the
socket server that stores client commands in it (`server/aesdsocket.c`), and the
small programs of the earlier assignments (`examples/`, `finder-app/`). This
directory models the driver, the server, the scripts that run them and the small
programs in TLA+, checks the models with TLC and proves facts about them with TLAPS.

## 1. Inventory

| Part | State it keeps | Operations | Talks to |
|---|---|---|---|
| Circular buffer (`aesd-circular-buffer.[ch]`) | `entry[10]`, `in_offs`, `out_offs`, `full` | init, add entry, find entry for position, FOREACH | called by the driver under its lock |
| Driver (`main.c`, `aesdchar.h`, `aesd_ioctl.h`) | the ring, `partial_write` and `partial_size`, `buffer_lock`, blocks of the kernel heap, `f_pos` of each file | module init and exit, open, release, read, write, llseek, ioctl `AESDCHAR_IOCSEEKTO` | VFS, allocator, user memory, mutex |
| Server (`aesdsocket.c`) | `exit_flag`, `client_fd`, the thread list, `ioctl_just_performed`, two mutexes, the descriptor table | accept loop, one thread per connection (receive, command, response), signal handler, shutdown | the driver through `/dev/aesdchar`, clients through TCP |
| Load, unload and start-stop scripts | module loaded, device node, server running | load, unload, start, stop | the driver, the server |
| `systemcalls.c` | child processes | `do_system`, `do_exec`, `do_exec_redirect` | kernel |
| `threading.c` | `thread_data`, a mutex | `start_thread_obtaining_mutex`, `threadfunc` | pthreads |
| finder and writer programs | files | write a string, count matches | file system |
| QEMU and kernel scripts, tests, makefiles | none of their own | | |

What is hard in it, and what would make each part correct:

* **Ring.** Offsets and the `full` flag must agree through any number of
  wrap-arounds, and the find function must be right at entry boundaries. The
  driver relies on more than the header says: llseek adds up *all* slots, and the
  ioctl takes `in_offs` for the number of entries while the ring is not full.
* **Driver.** Processes interleave at `buffer_lock`; a write may take several
  calls, by several processes, to complete one command; `krealloc` may move the
  block that `partial_write` points to; every call can fail half way; the VFS works
  on a copy of `f_pos`. Correct means: the device is a log of commands in which
  each write takes effect in one step, reads and seeks see exactly that log, and no
  memory or lock is lost.
* **Server.** Threads, main and signals share descriptors, a flag and a mutex; TCP
  splits messages anywhere; every allocation and call can fail. Correct means: what
  was received is what is stored, the answer is what the command asked for, no
  descriptor is lost or confused, every client gets an end, a signal ends the server.
* **Start-up and scripts.** Servers start and stop at any moment, with or without the
  script; each start-up call can fail; load and unload are sequences of commands that
  can stop anywhere, while the server opens the name in `/dev` with `O_CREAT`. Correct
  means: one server serves, a stop reaches every server that has come up, and a load or
  unload that reports success has achieved what it reports.
* **systemcalls.** `fork` copies the caller, `wait(NULL)` takes any child, `execv` may
  fail. Correct means: the result says what happened to the command, and no process or
  descriptor is left over.
* **threading.** `thread_data` passes from the creator to the thread to the joiner, and
  every call may fail. Correct means: it is freed once, its flag is true, the mutex is
  held by one thread and given back.
* **finder-app.** writer never reports a failure, and runs of `finder-test.sh` remove
  each other's directories, at their end all of them, and at their beginning too when they
  use the default directory, the parent of the others. Correct means: `success` is only
  said when all is written, and a failure has one of these reasons.

`PROJECT.json` lists the hazards line by line, with the properties that cover them.

## 2. Modules

| Module | Models | Kind |
|---|---|---|
| `AesdLimits` | the number of commands kept, a constant of ring, driver and server | constant |
| `RecentWrites` | "the last `MaxOps` items" | abstract specification |
| `CircularBuffer` | the struct and its functions, as operators | operators |
| `CircularBufferSpec` | the library driven by a caller, and its properties | component |
| `CircularBufferLemmas` | facts about the ring's operators, flattened sequences and finite sets | lemmas |
| `CircularBufferProofs` | theorems about `CircularBufferSpec` | proofs |
| `CommandLog` | what `/dev/aesdchar` promises its users | abstract specification |
| `AesdChar` | `main.c` with heap, mutex, files and processes | component |
| `AesdCharProperties` | its properties, and the mapping to `CommandLog` | properties |
| `AesdCharProofs` | theorems about the driver, its refinement included | proofs |
| `AesdSocket` | `aesdsocket.c` on top of a `CommandLog` | composition |
| `AesdSocketProperties` | its properties | properties |
| `AesdSocketProofs` | theorems about them | proofs |
| `ServerStartup` | `main` up to the accept loop, `create_daemon`, the signal handlers, the start-stop script | component |
| `ServerStartupProofs` | theorems about it | proofs |
| `DriverScripts` | `aesdchar_load`, `aesdchar_unload`, and opens of the device | component |
| `SystemCalls`, `SystemCallsProperties` | `systemcalls.c` | component, properties |
| `SystemCallsProofs` | theorems about it | proofs |
| `Threading`, `ThreadingProperties` | `threading.c` | component, properties |
| `ThreadingProofs` | theorems about it | proofs |
| `FinderApp` | `writer.c`, `finder.sh`, `finder-test.sh` | component |
| `ScriptsProofs` | theorems about `DriverScripts` and `FinderApp` | proofs |
| `MC*` | values for TLC | instances |

```
RecentWrites <- (refined by) CircularBufferSpec -- extends --> CircularBuffer
     ^ instance                                                      ^ extends
CommandLog   <- (refined by) AesdCharProperties -- extends --> AesdChar
     ^ instance
AesdSocket
```

The layers meet at their abstract specifications: the ring is shown to implement
`RecentWrites`, the driver (which uses the ring's operators, not the abstraction) to
implement `CommandLog`, and the server uses `CommandLog` as its device. `CircularBuffer`
and `AesdSocket` both extend `AesdLimits`, for `MaxOps`.

### CircularBuffer

A ring is a record with the fields of the struct; entries carry a pointer (0 is
NULL) and a size. `AddEntry` and `FindEntry` follow the two functions statement by
statement: the walk of `FindEntry` starts at `out_offs`, counts `entries_checked`
and stops at `in_offs` in a ring that is not full. NULL arguments, which no caller
passes, are left out.

### AesdChar

`pc[p]` says where process `p` is in its system call and `call[p]` holds the
arguments and locals. A step is a stretch of code between two points where another
process can be seen:

| Label | Code |
|---|---|
| `r_lock`, `w_lock`, `s_lock` | waiting for `buffer_lock` |
| `r_loop` | the loop of `aesd_read`, one entry per step |
| `w_body`, `w_store` | the two halves of `aesd_write` under the lock: up to and including `krealloc`, and after it |
| `s_body` | `aesd_llseek` or `aesd_unlocked_ioctl` under the lock |
| `unlock`, `w_free` | `mutex_unlock`, and the `kfree` that follows it in `aesd_write` |
| `ret` | back in the VFS, before it stores `f_pos` |

`heap` maps each block to its bytes (`<< >>` for a free block), so that dangling
pointers, double ownership and leaks are visible. `krealloc` grows in place or
moves. Failures of `kmalloc`, `krealloc` and the user copies, and signals during
the interruptible waits, are nondeterministic. `lock` is the *set* of holders, so
that a missing lock or unlock shows. Arithmetic on `loff_t` wraps at `LoffMax`
(`Loff`). Loading may fail at `cdev_add`; unloading needs all files closed, which is
what `.owner = THIS_MODULE` obtains. Not modelled: a NULL `buf` or `private_data`,
which the VFS and `aesd_open` exclude, and `iminor`.

### AesdSocket

`main` is the position of the main thread, `pc[c]` that of the worker for client
`c` (one worker per connection, clients connect once). `fds` is the descriptor
table of the process: descriptors are the lowest free numbers, as POSIX demands, so
that reuse of a closed number happens in the model as it does in reality. The
client's bytes arrive in segments of one byte or of all that is left, and at most
`BufLen` of them fit, so all splits against the buffer's end happen. A seek command
is one byte that stands for its text; `BadSeek` stands for a text that `sscanf` does
not parse.

The sections of `send_rcv_socket_data` under `mutex_read_write` are one step each:
whatever another thread could do in between does not need that mutex and commutes
with taking it. `return_socketdata_to_client` holds the mutex over many steps.

`recv` and `read` have to wait when nothing has arrived. A worker that waits in a
connection is in it (`in`) whatever becomes of the descriptor meanwhile: closing the
number in another thread does not wake it, and the connection stays up until it leaves
(`Blocks`, `Source`, `Left`). When a number that a worker still uses has been closed and
given to another client, `read` takes that client's bytes or waits for them with the mutex
held (`ReadSocket`), and `write` sends the command to it (`WriteSocket`). This can happen
only after a failed `malloc` in `thread_node_add`.

External and modelled from how the code uses it: descriptors, clients, TCP. A client takes
what it is sent, so `send` does not wait. A send to a peer that has closed succeeds once
and may then raise SIGPIPE. `accept` and `open` fail when no descriptor is left. A signal
is delivered to main or to a worker: Linux prefers the main thread for signals sent to
the process, POSIX allows any thread that does not block the signal, and the server
blocks none.

Constants choose the environment: `Faults` the calls that may fail, `Hits` where a
signal may strike, `HangUps` whether clients may leave early.

`Local` names clients that do not connect but write to the device themselves, at any
moment. `mutex_thread_LL` is left out: only main takes it. `USE_AESD_CHAR_DEVICE` is
defined in the source (line 38), so the branches for a plain file are not compiled
and not modelled.

### ServerStartup

Each process runs through `socket`, `bind`, (with `-d`) `fork` and the rest of
`create_daemon`, `listen` and the registration of the handlers; every failure is `clean`,
that is `exit(0)`. It ends where `AesdSocket` begins. `getaddrinfo` and `setsockopt` are
part of the step of `socket`, the calls of the child after `fork` one step: no other
process sees anything of them. `fork` makes a second process, and until the parent has
exited there are both; `family` names the process that was started, and the kernel closes
the socket when the last of the family has ended. The kernel's rule for ports is modelled
as it is: with `SO_REUSEADDR`, `bind` succeeds as long as nobody *listens*, and `listen`
succeeds for one.

The start script waits for the process it started, which for a daemon is the parent.
The stop is what `start-stop-daemon -K` does: it looks at one process after the other
(`Look`), in any order, and then kills those it has found, one after the other (`Kill`),
while the servers run on. SIGTERM kills a process that has not registered its handler yet
and makes one that has go on to the end of its loop. What the script prints is left out.

### DriverScripts

One step per command of the scripts. `node` is what `/dev/aesdchar` is, `module` the
major number of the loaded driver, which changes from load to load. `set -e` and
`|| exit 1` are the steps that end a script with `failed`, and every command may fail;
`Interrupt` ends it between two commands. One administrator runs one script at a time;
users open and close the device all the time, as the server's threads do.

### SystemCalls

A process is a record; `Fork` copies it, with what its calls have returned so far and
with its open output files. `step` is `call` between calls, `fork` and `wait` inside
one, `child` after `fork`, `command` after `execv`. Processes are numbered in the order of
their creation. The variable `program` is the sequence of calls, chosen initially.
`command[2]`, which `do_exec` inspects, is a field of the call; where it lies beyond
the array (undefined behaviour) `do_exec` may crash, refuse or go on. Signals that
interrupt `wait` are left out.

### Threading

`start_thread_obtaining_mutex` is one step per outcome: until `pthread_create` nobody else
knows the memory. `threadfunc` has one step per sleep and mutex operation. `did` records
whether the thread has really obtained and released the mutex, to compare with
`thread_complete_success`. The joiner does what `threading.h` says. How long a sleep takes
is not modelled.

### FinderApp

One step per command of `finder-test.sh` and `finder.sh` and per turn of the loop; a call
of `writer` is one step. A file is the sequence of what was appended to it: the string, or
a part of it. `Base` is `/tmp/aeld-data`, the default `WRITEDIR` and the parent of all
others: `rm -rf` of it removes them (`Tree`), and a run in it counts them as files
(`Entries`). `rm -rf` may give up half-way, `mkdir` may fail, and both end the run, as does a
directory that is missing at one of the two tests. A process whose directory is
removed stays in it and sees nothing (`here`); when it is removed between the `-d` test
and `cd`, `finder.sh` counts the directory it was started in (`Elsewhere`). Unless
`Root`, the mode `S_IRWXG` keeps the owner from opening the file again. `ScriptsProofs`
and `MCScripts` extend this module and `DriverScripts` together, which is why its
`TestInit`, `TestNext` and `TestSpec` have names of their own. The two share nothing, so
`MCScripts` lets a behaviour be one of the ones or of the other.

## 3. Runs

| Run | Bounds | Shows |
|---|---|---|
| `ring` | 5 slots, 3 kinds of entry (one empty), any number of adds | shape, `FindEntry` against a definition by quantifiers at every position up to one past the end, refinement of `RecentWrites` |
| `driver_writes` | 2 processes sharing a file, 2 slots, 5 blocks, one part and one line | lock, heap and leak discipline; refinement of `CommandLog`; truth of the result of `write` |
| `driver_reads` | 2 processes with a file each, 2 slots, 8 seeks, counts 1 and 3, `LoffMax` 7 | reads are exact slices of one state, seeks exact to the limits of `loff_t`, positions move only as told |
| `driver_progress` | 2 processes sharing a file, 1 slot, all kinds of call with their immediate failures | every call returns |
| `server_clients` | a writer, a seek and an unparsable seek through the server, a program that writes beside it, 4 descriptors, every fault but `node`, a signal in main or `recv`, hang-ups | one worker at a time, descriptors not confused or lost, exact storage, answers without gap or repetition |
| `server_overlap` | 3 clients (a write, a seek, a write), failing thread nodes, 3 descriptors beside the listening socket, a signal in `read` | `mutex_read_write` is held by one responding worker at a time even when workers run together and their numbers are reused; `ReadSocket` and `WriteSocket` happen here |
| `server_progress` | 3 clients (a write, a seek to it, one that connects and leaves), every fault but `node` and an `accept` that fails for ever, one signal in any call, hang-ups | while no client is silent for ever, each connection is closed and a signal not missed stops the server |
| `startup` | 4 processes, all faults, starts by script and by hand, forks, stops that scan and kill while the others run | only the listener serves; a stop reaches every server whose start was over when it began |
| `scripts` | for the driver 2 users, 2 major numbers, all faults, interruptions; for `finder-test.sh` 3 runs with 1 file each, as root, one in `/tmp/aeld-data` itself, all faults | reports match `/dev`; success is true; a failure is due to writer, to a run that has ended, or to the default directory being the parent of the other |
| `calls` | 6 processes, a child in the background, all programs of 1 and 2 of 12 kinds of call, some of 3, all faults | truth of `do_system`, meaning of false, no process or error-path descriptor left, when a command runs twice, the program ends |
| `threads` | 4 threads, 2 mutexes, one call without a mutex, all faults | one holder, one owner of the memory, true flag, all joined |
| `server_shutdown` | 2 clients, one signal in main | **violated**: see below |

Why the bounds are enough. A ring of two slots already distinguishes empty, partly filled,
full and wrapped; five slots in `ring` add walks that cross the wrap at every place. Five
blocks leave one to allocate when the ring holds two, a command is pending and a writer
has its own. Two processes are all that a mutex can set against each other; three clients
let a third one find what the first two left behind in the flag, the descriptors and the
device. `BufLen` 2 in `server_clients` makes the receive buffer grow, for the writer's
command of four bytes and the byte behind it twice, and splits every response into chunks.
Four descriptors are the listening socket and what one worker and main can have open, so
numbers are reused at once, and in `server_overlap` they run out. In `server_clients`
nothing is evicted, the local program leaves nothing pending, and no signal hits `read` or
`send`: the theorems `ServerStoresWhatWasSent` and `ServerAnswersFully` say under which of
these conditions the two properties hold in general. When blocks run out in the driver
models, allocations fail, which the code handles, so a long run of leaking writes does not
stop the model early. In `calls` two calls make a child that returned into the caller's
code repeat one, three make it fork in turn. Four processes in `startup` are two daemons
with their parents, or one that serves and others that start against it. In `scripts` a
run in the parent directory meets two in directories of their own; one file tells written
from lost, and the name `*`, a directory and a file apart, and the theorems are about any
number. `driver_writes`, `startup` and `scripts` use symmetry of processes that are alike
(in the last, of the runs below `/tmp/aeld-data`); none of them has fairness or a liveness
property.

One run demonstrates a disagreement between code and documents.

* `server_shutdown`: under fair scheduling, a signal that arrives between
  `while (!exit_flag)` and `accept` is missed, and the server waits for a client that need
  not come, although the README of the repository promises a graceful shutdown.
  `StopsUnlessMissed` says how far this goes: without a failed thread node, and as long as
  no client is silent for ever, a signal at any other moment stops the server. A client
  that is silent is the other way to keep it from stopping.

Deadlock is checked in the ring and driver runs. The others turn it off: a
server that has exited, or all of whose clients have been served, really stops, and so
do the programs of `SystemCalls`, `Threading` and `FinderApp`; in `startup` each
process is started once.

Each property has a mutant, an operator next to the one it replaces that shows a
plausible slip (a lost modulus, an early return that keeps the lock, a join that does
not wait); TLC finds the property violated with it. These operators are marked
"Faulty variant" and used by nothing else.

### What the models show of the code beside the properties

These are behaviours of the code, all present in the models, that contradict a comment
or a document. The properties are stated so that they hold in spite of them, and say
how far the damage goes.

| Where | What happens | What still holds |
|---|---|---|
| `aesd-circular-buffer.c:103`, `main.c:186` | Adding to a full ring drops the old block without `kfree`; the function returns NULL where its comment announces the replaced pointer. | `LeakOnlyByOverwrite`: nothing else leaks. |
| `aesdsocket.c:311` | `send` fails with EINTR or is cut short: the loop reads the next chunk over the old one (`SendInterrupted`). A read interrupted in the driver cuts the response short in the same way. `server_clients` therefore has no signals there. | `EveryClientIsClosed`: the response still ends. |
| `aesdsocket.c:111` | After a failed `malloc` in `thread_node_add` the thread is not joined, and workers run together. The reopen in the response frees a number that `accept` takes, and the thread closes the other client's socket. With a third client the number of a reopened device can become a socket: `read` at line 308 then takes that client's bytes, or waits for them with `mutex_read_write` held, and if main waits for a worker that needs the mutex the server hangs. | Only `ResponsesExclusive`, which is about the mutex: bytes may reach the wrong client. All other properties of the server need `"node"` not in `Faults` (but `TypeOK` and `RoomToReceive`, by their theorems). |
| `aesdsocket.c:411` | main joins each thread before the next `accept`, and there is no timeout: a client that neither sends nor closes blocks the server for ever, signals included. | `EveryClientIsClosed` and `StopsUnlessMissed` under `NobodyIsSilent`. |
| `aesdsocket.c:309` | A client leaves while it is being answered, and SIGPIPE ends the server (`BrokenPipe`). | The properties of `server_clients`, up to that moment. |
| `aesdsocket.c:308` | Another program's write evicts the oldest command during a response: the bytes move, the position does not, and bytes are skipped. `server_clients` has room for all commands. | `ReadExact` for each read. |
| `aesdsocket.c:173`, start-stop script line 13 | Every failure of the start-up exits with 0, so the script says "started successfully". | `ServingOwnsPort`. |
| start-stop script line 21 | `-K` looks for processes first and kills afterwards: a server that forks in between leaves a child that nobody signals, and the script says "stopped successfully". Without `--retry` it returns before the server has ended. | `StopReachesStarted`: a server whose start was over when the stop began is reached. |
| `aesdsocket.c:88` | `O_CREAT` makes an ordinary file in `/dev` while the driver is not loaded (`OpenFile`). | `ReportMatchesDev`: a later load replaces it or fails. |
| `systemcalls.c:137` | `wait(NULL)` takes any child and drops its status: true says little. | `FalseMeansFailed`, `ChildrenBalanced`. |
| `systemcalls.c:128` | After a failed `execv` the child goes on with the caller's code. | `RepeatsOnlyAfterFailedExec`. |
| `systemcalls.c:221` | The parent keeps the output file open, against the comment at line 154. | `ErrorsCloseOutput`: only successful calls leak. |
| `systemcalls.c:107` | `command[2]` is read with one or two arguments (`Crash`). | All properties of `calls` are checked with it. |
| `threading.c:29` | The result of the sleeps is ignored: a sleep that fails just ends at once. | `ReportIsTrue` for the mutex. |
| `writer.c:63` | `O_APPEND` without `O_TRUNC`, where `writer.sh` replaces; and the mode gives the owner no right to the file (`MayOpen`, `Matches`), so unless root runs it `finder-test.sh` fails. | `SuccessIsTrue`. |
| `finder-test.sh:69` | `rm -rf /tmp/aeld-data` at the end removes what other runs are still counting: they fail although all was written. | `FailureHasCause`. |
| `finder-test.sh:13`, `:35` | With fewer than three arguments the directory is `/tmp/aeld-data` itself, and the run removes the directories of all others before it begins; theirs count as files in its own. | `FailureHasCause`: runs in directories of their own below it do not disturb each other until one ends. |
| `finder.sh:24` | A `cd` that fails is not noticed, and the current directory is counted. | `SuccessIsTrue`, unless that holds just what is expected. |
| `finder.sh:33` | An empty directory counts as one file, the name `*`: `finder-test.sh 0` fails. | `SuccessIsTrue`; `FailureHasCause` is about at least one file. |

### Fairness

* `AesdChar!Fairness`: weak fairness of each process inside the driver (the kernel
  schedules it), strong fairness of taking `buffer_lock` (kernel mutexes queue their
  waiters and hand over to one that starves). No fairness of making a call, of failures
  or of signals.
* `AesdSocket!Fairness`: weak fairness of main and of each worker, nothing else. Clients need
  not connect, send or close, signals need not come. A client that stays silent does block
  the server for ever, as the code has no timeout; the properties of `server_progress` say
  so in their hypothesis `NobodyIsSilent` (no `recv` waits for ever), which is about the
  clients alone. A `malloc` that fails is not counted as progress of a worker that waits
  for the mutex. An `accept` that fails for ever is left out of this run: main would
  never do anything else.
* `SystemCalls!FairSpec`: processes run and commands end; the child in the background
  need not.
* `Threading!FairSpec`: threads run, sleeps end, each thread is joined. Failures are
  not fair. Weak fairness is enough for the mutex: each thread takes it once.

## 4. Proofs

TLC looks at small instances; the theorems hold for every value of the constants:
every ring size up to 255 (the loops over `uint8_t` indices do not stop for a larger
ring), every number of processes, clients, threads, files and blocks, every set of data
and every set of faults, except where an assumption below says otherwise. The proof
modules contain the invariants by name; the argument for each is:

### The ring: `CircularBufferLemmas`, `CircularBufferProofs`

* `RingTyped`, `RingShaped`, `RingRefines`. The inductive invariant is
  `TypeOK /\ RingOK`: that the shape is kept needs the offsets in range, and the
  refinement of `RecentWrites` needs the shape, because only a ring that starts at slot 0
  until it is full has `(in_offs - out_offs) % MaxOps` entries. The heart is
  `AddEntryRemembers`: the contents after an add are the old ones, without the oldest
  if the ring was full, with the new entry at the end.
* `RingFindsExactly`: the find function against its definition by quantifiers, for
  entries of every size. `StopsAtEnd` says that the walk breaks off after the stored
  entries and not before, `FindEntryExact` that it stops in the entry that holds the byte,
  and `TotalIsStored` that the sum over *all* slots, which llseek takes, is that of
  the stored entries from the oldest on: in a ring that is not full the other slots
  are zero, in a full one the sum of a rotation is the sum.

The walk and the sums are recursive functions on numbers. The library's induction
theorem takes an operator as a parameter, which the provers cannot instantiate, so
induction is used in the form of a least counterexample (`LeastNat`) and of a set of
numbers that contains 0 and the successors of its elements (`SegmentInduction`).
`%` is replaced by a case distinction (`ModWrap`, `NextSlotValue`, `SlotAtValue`), since
the SMT solver cannot reason about an unknown modulus. The last part of the lemmas is about
`FlattenSeq`: a byte of the flattened commands is the byte of one command at an
offset.

### The driver: `AesdCharProofs`

* `DriverLocks`: `LockDiscipline`. By itself it is not inductive: `aesd_init_module`
  initialises the mutex, which would free it under a process that holds it. `LockInv` adds
  `InUse`: a call in progress keeps its file open, and a module with an open file stays
  loaded, so nobody is inside at that moment.
* `DriverHeapSafe`, `DriverLeaksOnlyByOverwrite`, `DriverImplementsLog`,
  `DriverWritesTellTheTruth`. The invariant is `MemInv`: types and the locals at each
  label (`MemTyped`: `combined_buf` lives only between `krealloc` and the store); no
  owner dangles (`NoDangling`); no block has two owners (`NoSharing`), where
  `partial_write` is no owner while a writer stands between `krealloc` and the store
  (`PartialPtr`); the blocks hold the bytes their owners think (`Holds`); and every
  stored entry of the ring has a block (`RingHolds`). It needs `LockInv`: what one
  process knows about the device stays true because whoever holds the lock is alone
  (`HolderIsAlone`). For each action one lemma `...KeepsMem` shows that `MemInv` is
  kept, how the log changes (`LogSame` or one `Commit`) and which block may lose its
  owner; the refinement and both action properties follow from these lemmas. The
  refinement mapping is `Commands` and `Pending` of `AesdCharProperties`.
* `DriverTyped`, `DriverReadsExactly`, `DriverSeeksExactly`. `Positions` says that
  every position is in `0..LoffMax` and what the arguments at each label are;
  `Reading` that a read in its loop has copied the bytes of the device up to its position
  (`Copied`), and all it may when it gets to the unlock. A read takes many steps: it is
  exact because nobody changes the commands while it is inside (`OthersKeepCommands`).
  One turn of the loop is `ChunkIs`, from `FindEntryExact` and the lemmas about
  `FlattenSeq`. For the seeks, all bytes of a device fit into `loff_t` (`DeviceFits`),
  so a sum that wraps is negative or beyond the end and is refused (`AskedFits`).
* `DriverPositionsExact`: `Following` relates the copy of `f_pos` that the VFS makes
  before the call to `f_pos` itself.

Assumptions, beside those on the ring: `AesdCharAssumption` gives the parameters their
ranges. It says that the bytes of a full ring are within `loff_t`, as 10 commands of at
most `KMALLOC_MAX_SIZE` are within 63 bits; that a seek's offset is an `loff_t`; and that
the ioctl's is not negative, as its field is a `uint32_t`.
`DriverPositionsExact` is about files that are not shared between processes: with sharing
it is false (section 5).

### The server: `AesdSocketProofs`

* `ServerAnswersAlone`: `ResponsesExclusive`, with `ThreadsInv`, which adds that each
  client is handed to one worker only (`ServedOnce`): it is in the backlog, or with main,
  or has a thread. Else two threads of one client could disagree about the mutex.
  Each step of a worker is one of two shapes (`WorkerMoves`): it moves that worker and
  takes, keeps or gives back the mutex as its labels say.
* `ServerHasRoom`: `RoomToReceive`, with `Sized`. It is about the doubling of the buffer:
  at most what fits is received, and the buffer grows until more would fit.
* `ServerIsSerial`, `ServerUsesOwnDescriptors`, `ServerLeaksNoDescriptor`,
  `ServerStoresWhatWasSent`, under `"node" \notin Faults`: without a failing `malloc` in
  `thread_node_add`. With it they are false, and the model shows it (section 3). `Serial`
  says that main waits in `pthread_join` for the one worker. `OwnsFds` says that the open
  descriptors are the listening socket, the one of main or its worker and the worker's
  device, and that every number below that of the device is in use. That is needed because
  the response closes the device and opens it again while the caller goes on with the old
  number: with nobody else opening descriptors the kernel gives the same one. `Buffered`
  says that the bytes of the worker are those it has taken from the client. `Alone` draws
  the conclusion that a worker by itself receives from its own client and reads from the
  device.
* `ServerTyped`: `TypeOK`. The types of the bookkeeping are part of `ThreadsInv` and
  `Sized`; `DeviceTyped` and `FilesTyped` add those of the device and of the positions.
  The one that takes work is the position a seek sets: it is that of a byte of the device
  (`SoughtIn`).
* `ServerAnswersFully`: `ResponseFollowsDevice`, the property of the server that takes
  most steps of most parties to break. `Answers` says for each worker what its client got
  so far: there is a place `s` of the device (0 after a write, the byte asked for after a
  seek) where the bytes sent begin, they run on up to the position of the open file, and
  what the command calls for begins at `s` too (`SentFrom`). Before that, at `respond`,
  the flag `ioctl_just_performed` and the position of the file say which `s` it will be;
  that the flag is about this worker's command rests on `Serial`, that the position
  is still there on `OwnsFds`. The device only grows at its end meanwhile (`DeviceGrows`),
  because no command has to go: every client and every local program writes at most one
  (`Counted`). The theorem assumes that these fit (`RoomForAll`: a finite number of
  writers, at most `MaxOps`) and that neither the node of a thread fails nor a signal
  interrupts `read` or `send` (`Uninterrupted`). Without any one of these it is false (see the
  table in section 3). The constants of `server_clients` satisfy both.

### Start-up, scripts and the small programs

* `ServerStartupProofs`: `StartupInv`. For `StartupServesOnce`, a process past `listen`
  belongs to the family that listens, and is the only one past it (`ListenerKnown`);
  `bind` proves nothing, because it succeeds for all. For `StartupStopsStarted`, a server
  whose start was over when the stop began has one process that does not fork any more
  (`DueSettled`), so what the stop has not looked at yet it will still find, and what it
  has found it will still kill (`NoneEscapes`), whatever starts, forks or ends meanwhile.
* `ScriptsProofs`, `aesdchar_load` and `aesdchar_unload`: `StepsKnow` says what each
  script may rely on at each of its commands: after `insmod` nobody else unloads the
  driver, after `mknod` an `open` cannot replace the node, after `rmmod` there is no driver.
* `ScriptsProofs`, `finder-test.sh`: `TestInv`. `SuccessIsTrue` speaks of the end of a run,
  when the files are gone, so the invariant follows the count. `Owned`: what holds the
  string was written by the run whose directory it is in. `Counted`: the matches so far are
  at most the written files that the loop has been past (`Seen`), and `NumFiles` files
  can only be counted by a set that is all of `File` (`FilesCounted`). For `FailureHasCause`
  the count must be exact: while no other run disturbs this one (`Undisturbed`), what was
  written is still there (`Kept`), and each name that has left `todo` has raised both
  counters (`CountedAll`). Both theorems assume that the runs have directories of their own
  (`DirsApart`, as in run `scripts`; one of them may be the parent of the others): of two
  runs that share one, the first may count what the second has written in the place of a
  write that failed, and reports success without having written it.
* `SystemCallsProofs`: `CallsInv`. `Sound` describes one process, whose record is a copy
  of its parent's except for what has happened since; `Lineage`, `OneFork` and
  `SystemCollects` relate processes: a child is younger than its parent and belongs to one
  call of it; `Balanced` counts the uncollected children of every process, also inside a
  call. `ChildrenBalanced` alone says nothing of a process that waits, and
  `RepeatsOnlyAfterFailedExec` nothing of processes that do not run the same command. To
  count children, the module assumes finitely many processes (`IsFiniteSet(Pid)`).
* `ThreadingProofs`: `ThreadInv`. Who holds a mutex (`HolderKnown`), which calls have one
  (`WantsKnown`) and what the thread has done at each label (`DidKnown`) keep each other:
  the report is true because the flag agrees with `did` when the thread ends. The types
  of this module are proved (`ThreadsTyped`) and not checked by a run.

### What is only model-checked

* Liveness: `CallsReturn`, `EveryClientIsClosed`, `StopsUnlessMissed`, `ProgramFinishes`,
  `EveryThreadIsJoined`. The prover knows neither fairness nor `ENABLED`.

All theorems are about the modules TLC checks; every `ASSUME` is evaluated in the runs.
Long proofs need some time: about ten minutes for `AesdCharProofs`.

## 5. Not modelled

`PROJECT.json` gives the reason for each part. Kernel and QEMU scripts, tests and
makefiles carry no logic of the program; the autotest example is two functions that
return constants; `writer.sh` is four commands that nothing calls. Of the modelled
parts: the server's branches for a build without the device (not compiled), the
commented-out `popen` variant in `systemcalls.c`, the busy loop of `sleep.sh`, real
time, log messages, and two processes that share one open file of the driver, whose
`f_pos` the kernel leaves to them.

## 6. Plan

1. Done: ring, driver, server, their abstract specifications, runs and mutants.
2. Done: start-up and scripts, `systemcalls.c`, `threading.c`, the finder programs,
   and other writers beside the server.
3. Done: proofs of every invariant and every action property the runs check, and of both
   refinements.
4. Left to TLC: the liveness properties (see section 4). The next model worth writing is
   of two processes that share an open file of the driver, with the kernel's copies of
   `f_pos`.
