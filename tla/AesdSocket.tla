----------------------------- MODULE AesdSocket -----------------------------
(***************************************************************************)
(* The socket server (server/aesdsocket.c, built as the repository builds  *)
(* it, with USE_AESD_CHAR_DEVICE): the accept loop of main, one thread per *)
(* connection, the table of file descriptors they share, the mutex and the *)
(* flag ioctl_just_performed, and signals.  The device is CommandLog, what *)
(* the driver implements; the clients and the network are external.        *)
(*                                                                         *)
(* Memory that only one thread sees is left out, the failures of its       *)
(* allocation are not: CONSTANT Faults names the calls that may fail.      *)
(***************************************************************************)
EXTENDS AesdLimits, Naturals, Sequences

LOCAL INSTANCE SequencesExt

CONSTANTS
  Client,      \* clients, each of which connects at most once
  Local,       \* those of them that write to the device themselves, without the server
  Stream,      \* the bytes each client wants to send
  SeekText,    \* bytes that stand for a text AESDCHAR_IOCSEEKTO:X,Y, with X and Y
  BadSeek,     \* a byte that stands for such a text that does not parse
  FD,          \* file descriptors; 0 is sockfd
  BufLen,      \* CLIENT_BUFFER_LEN
  Faults,      \* calls that may fail
  Hits,        \* where a signal may find the process
  MaxSignals,  \* SIGINT and SIGTERM that arrive
  HangUps      \* whether clients may close before they are answered

AllFaults == {"accept", "args", "create", "node", "open", "calloc", "realloc", "write",
              "malloc", "reopen", "send"}

ASSUME AesdSocketAssumption ==
  /\ Client \subseteq Nat \ {0} /\ Local \subseteq Client
  /\ 0 \in FD /\ FD \subseteq Nat
  /\ Stream \in [Client -> Seq(Nat)]
  /\ BufLen \in Nat /\ BufLen > 1
  /\ Faults \subseteq AllFaults /\ HangUps \in BOOLEAN /\ MaxSignals \in Nat
  /\ Hits \subseteq {"main", "recv", "read", "send"}
  /\ \A b \in DOMAIN SeekText : SeekText[b] \in [cmd : Nat, offset : Nat]

VARIABLES
  main,       \* where the main thread is
  exit_flag,
  client_fd,  \* the global of that name
  client_addr,  \* main's local of that name: whom it accepted last
  thread_id,  \* main's local: a thread is named by the client it serves
  nodes,      \* the thread list
  ioctl_just_performed,
  mutex,      \* mutex_read_write: the set of its holders
  fds,        \* the descriptor table of the process
  pc,         \* where each worker thread is
  worker,     \* its locals
  conn,       \* each connection, as the network sees it
  queue,      \* connections not yet accepted, in order
  signals,    \* signals still to come
  recent, pending   \* the device

accepted == <<client_fd, client_addr, thread_id>>
locals == <<accepted, nodes>>
shared == <<ioctl_just_performed, mutex, fds>>
process == <<exit_flag, locals, shared>>
network == <<conn, queue>>
device == <<recent, pending>>
\* What a worker's steps mostly leave alone, and main's.
around == <<main, exit_flag, locals, signals, device>>
apart == <<pc, worker, signals, device>>
vars == <<main, process, pc, worker, network, signals, device>>

Device == INSTANCE CommandLog WITH Data <- Seq(Nat), Newline <- 10

\* The device as one sequence of bytes.
Bytes == FlattenSeq(recent)

NoFile == [kind |-> "free", who |-> 0, pos |-> 0]

\* A connection: whether it is up, the bytes the client has sent and the
\* server has taken, the bytes it was sent, whether it has closed its end, and
\* whether the server has sent something since (the answer to which is RST).
NoConn == [up |-> "no", sent |-> 0, taken |-> 0, got |-> << >>, closed |-> FALSE, rst |-> FALSE]

\* file is file_fd_t of thread_operation, again the file_fd that
\* return_socketdata_to_client may reopen; buf and size the receive buffer; in
\* the client whose connection a recv or read that has to wait is in, or 0.
\* expect is not in the code: the response the command calls for.
NoWorker == [client |-> 0, file |-> 0, again |-> 0, in |-> 0, buf |-> << >>, size |-> BufLen,
             chunk |-> << >>, ok |-> FALSE, expect |-> << >>]

Init ==
  /\ main = "check" /\ exit_flag = FALSE /\ nodes = << >>
  /\ client_fd = 0 /\ client_addr = 0 /\ thread_id = 0
  /\ ioctl_just_performed = FALSE /\ mutex = {}
  /\ fds = [n \in FD |-> IF n = 0 THEN [NoFile EXCEPT !.kind = "listen"] ELSE NoFile]
  /\ pc = [c \in Client |-> "none"] /\ worker = [c \in Client |-> NoWorker]
  /\ conn = [c \in Client |-> NoConn] /\ queue = << >>
  /\ signals = MaxSignals
  /\ Device!Init

-----------------------------------------------------------------------------
(* External: descriptors, clients and signals.                             *)

Stopped == main \in {"exited", "killed"}

\* open, accept and the like return the lowest free descriptor.
Lowest == {n \in FD : fds[n].kind = "free" /\ \A m \in FD : m < n => fds[m].kind # "free"}

Install(n, kind, c) == fds' = [fds EXCEPT ![n] = [kind |-> kind, who |-> c, pos |-> 0]]

\* A connection that is over: nothing but that is remembered of it.
Over == [NoConn EXCEPT !.up = "closed"]

\* close(n), whatever n refers to by now.  A thread that waits in a connection
\* is not woken by it, and keeps the connection up.
CloseFd(n) ==
  /\ fds' = [fds EXCEPT ![n] = NoFile]
  /\ conn' = IF fds[n].kind = "sock" /\ (\A c \in Client : worker[c].in # fds[n].who)
             THEN [conn EXCEPT ![fds[n].who] = Over] ELSE conn

\* The thread of c is the last to refer to the connection it waits in.
IsLast(c) ==
  /\ worker[c].in # 0 /\ \A d \in Client \ {c} : worker[d].in # worker[c].in
  /\ \A n \in FD : fds[n].kind = "sock" => fds[n].who # worker[c].in

\* The connections when that thread waits no more.
Left(c) == IF IsLast(c) THEN [conn EXCEPT ![worker[c].in] = Over] ELSE conn

Connect(c) ==
  /\ ~Stopped /\ conn[c].up = "no" /\ c \notin Local
  /\ conn' = [conn EXCEPT ![c].up = "yes"]
  /\ queue' = Append(queue, c)
  /\ UNCHANGED <<apart, main, process>>

\* The next segment of the stream is delivered: one byte, or all that is left.
Deliver(c) ==
  /\ conn[c].up = "yes" /\ ~conn[c].closed /\ conn[c].sent < Len(Stream[c])
  /\ \E n \in {conn[c].sent + 1, Len(Stream[c])} : conn' = [conn EXCEPT ![c].sent = n]
  /\ UNCHANGED <<apart, main, process, queue>>

\* The client has sent what it wants to, or gives up before.
HangUp(c) ==
  /\ conn[c].up = "yes" /\ ~conn[c].closed
  /\ HangUps \/ (conn[c].sent = Len(Stream[c]) /\ pc[c] \in {"close_file", "close_client"})
  /\ conn' = [conn EXCEPT ![c].closed = TRUE]
  /\ UNCHANGED <<apart, main, process, queue>>

\* Another program writes to /dev/aesdchar, at any moment: mutex_read_write
\* does not keep it out.
LocalWrite(c) ==
  /\ c \in Local /\ pc[c] = "none"
  /\ Device!Commit(Stream[c])
  /\ pc' = [pc EXCEPT ![c] = "done"]
  /\ UNCHANGED <<main, process, worker, network, signals>>

\* A signal runs signal_handler on the main thread: it makes accept fail with
\* EINTR when the thread is in it; pthread_join goes on waiting.
SignalMain ==
  /\ "main" \in Hits /\ signals > 0 /\ ~Stopped
  /\ signals' = signals - 1 /\ exit_flag' = TRUE
  /\ main' = IF main = "accept" THEN "check" ELSE main
  /\ UNCHANGED <<locals, shared, pc, worker, network, device>>

-----------------------------------------------------------------------------
(* The main thread.                                                        *)

MainStep(from, to) == main = from /\ main' = to

\* Faulty variant: the loop never looks at exit_flag.
CheckNothing ==
  /\ MainStep("check", "enter")
  /\ UNCHANGED <<apart, process, network>>

Check ==
  /\ main = "check"
  /\ main' = IF exit_flag THEN "final_join" ELSE "enter"
  /\ UNCHANGED <<apart, process, network>>

\* Between the test of exit_flag and accept a signal is not noticed.
EnterAccept ==
  /\ MainStep("enter", "accept")
  /\ UNCHANGED <<apart, process, network>>

Accept ==
  /\ MainStep("accept", "args") /\ queue # << >>
  /\ \E n \in Lowest : client_fd' = n /\ Install(n, "sock", Head(queue))
  /\ client_addr' = Head(queue)
  /\ queue' = Tail(queue)
  /\ UNCHANGED <<apart, exit_flag, thread_id, nodes, ioctl_just_performed, mutex, conn>>

\* In particular when there is no descriptor left.
AcceptFails ==
  /\ MainStep("accept", "check") /\ ("accept" \in Faults \/ Lowest = {})
  /\ UNCHANGED <<apart, process, network>>

MallocArgs ==
  /\ MainStep("args", "create")
  /\ UNCHANGED <<apart, process, network>>

\* Faulty variant: the error path does not close the descriptor.
DropClientLeaks ==
  /\ MainStep("create", "check") /\ "create" \in Faults
  /\ UNCHANGED <<apart, process, network>>

\* malloc of the arguments or pthread_create fails: the client is dropped.
DropClient ==
  /\ \/ MainStep("args", "check") /\ "args" \in Faults
     \/ MainStep("create", "check") /\ "create" \in Faults
  /\ CloseFd(client_fd)
  /\ UNCHANGED <<apart, exit_flag, locals, ioctl_just_performed, mutex, queue>>

\* Faulty variant: the thread runs but its id is not kept.
CreateThreadNoId ==
  LET c == client_addr
  IN  /\ MainStep("create", "node")
      /\ pc' = [pc EXCEPT ![c] = "open"]
      /\ worker' = [worker EXCEPT ![c].client = client_fd]
      /\ UNCHANGED <<process, network, signals, device>>

CreateThread ==
  LET c == client_addr
  IN  /\ MainStep("create", "node")
      /\ pc' = [pc EXCEPT ![c] = "open"]
      /\ worker' = [worker EXCEPT ![c].client = client_fd]
      /\ thread_id' = c
      /\ UNCHANGED <<exit_flag, client_fd, client_addr, nodes, shared, network, signals, device>>

\* thread_node_add.  When its malloc fails nobody will join the thread.
ThreadNodeAdd ==
  /\ MainStep("node", "join")
  /\ \/ nodes' = << thread_id >> \o nodes
     \/ "node" \in Faults /\ UNCHANGED nodes
  /\ UNCHANGED <<apart, exit_flag, accepted, shared, network>>

\* Faulty variant: the nodes are removed without waiting for the threads.
ThreadJoinNoWait ==
  /\ main \in {"join", "final_join"}
  /\ nodes' = << >>
  /\ main' = IF main = "join" THEN "check" ELSE "clean"
  /\ UNCHANGED <<apart, exit_flag, accepted, shared, network>>

\* thread_join, one node at a time: pthread_join blocks until it is done.
ThreadJoin ==
  /\ main \in {"join", "final_join"}
  /\ \/ /\ nodes # << >> /\ pc[Head(nodes)] = "done"
        /\ nodes' = Tail(nodes)
        /\ UNCHANGED main
     \/ /\ nodes = << >>
        /\ main' = IF main = "join" THEN "check" ELSE "clean"
        /\ UNCHANGED nodes
  /\ UNCHANGED <<apart, exit_flag, accepted, shared, network>>

\* clean: close(sockfd), exit(0), which ends the other threads.
Clean ==
  /\ MainStep("clean", "exited")
  /\ fds' = [n \in FD |-> NoFile]
  /\ conn' = [c \in Client |-> IF conn[c].up = "yes" THEN Over ELSE conn[c]]
  /\ queue' = << >>
  /\ UNCHANGED <<apart, exit_flag, locals, ioctl_just_performed, mutex>>

-----------------------------------------------------------------------------
(* A worker thread: thread_operation and the functions it calls.           *)

\* Worker c moves between two of its labels, with new locals w.
Move(c, from, to, w) ==
  /\ ~Stopped /\ pc[c] = from
  /\ pc' = [pc EXCEPT ![c] = to]
  /\ worker' = [worker EXCEPT ![c] = w]

Socket(c) == fds[worker[c].client]

OpenDevice(c) ==
  /\ \E n \in Lowest : /\ Install(n, "dev", c)
                       /\ Move(c, "open", "recv", [worker[c] EXCEPT !.file = n])
  /\ UNCHANGED <<around, ioctl_just_performed, mutex, network>>

OpenDeviceFails(c) ==
  /\ "open" \in Faults \/ Lowest = {}
  /\ Move(c, "open", "close_client", worker[c])
  /\ UNCHANGED <<main, process, network, signals, device>>

\* Faulty variant: the byte kept for the '\0' is forgotten.
GrownLate(size, buf) == IF Len(buf) >= size THEN 2 * size ELSE size

\* The buffer is doubled when only the byte for the '\0' is left.
Grown(size, buf) == IF Len(buf) >= size - 1 THEN 2 * size ELSE size

\* Faulty variant: each recv writes to the start of the buffer.
FilledFromStart(buf, bytes) == bytes

\* recv writes to client_buffer + total_received.
Filled(buf, bytes) == buf \o bytes

\* The descriptor that worker c receives or reads from.
Input(c) == IF pc[c] = "recv" THEN worker[c].client ELSE worker[c].again

\* The client from whose connection it gets bytes: the one it waits in, whatever
\* has become of the descriptor since, or the one the descriptor refers to; 0
\* when it is not a socket.
Source(c) ==
  IF worker[c].in # 0 THEN worker[c].in
  ELSE IF fds[Input(c)].kind = "sock" THEN fds[Input(c)].who ELSE 0

\* What has arrived on connection s and was not taken; whether nothing will.
Arrived(s) == conn[s].sent - conn[s].taken
AtEnd(s) == conn[s].closed /\ Arrived(s) = 0

Room(w) == w.size - Len(w.buf) - 1

\* Worker c has to wait for bytes from a client, or for its end.
Waits(c) ==
  LET s == Source(c)
  IN  /\ pc[c] \in {"recv", "read"} /\ s # 0
      /\ pc[c] = "recv" => Room(worker[c]) > 0
      /\ Arrived(s) = 0 /\ ~conn[s].closed

\* It does, in that connection.
Blocks(c) ==
  /\ Waits(c) /\ worker[c].in = 0
  /\ Move(c, pc[c], pc[c], [worker[c] EXCEPT !.in = Source(c)])
  /\ UNCHANGED <<main, process, network, signals, device>>

\* recv or read returns up to n bytes of the source, which are taken from it.
Taken(c, n) == IF Arrived(Source(c)) > n THEN conn[Source(c)].taken + n ELSE conn[Source(c)].sent

TakenBytes(c, n) == SubSeq(Stream[Source(c)], conn[Source(c)].taken + 1, Taken(c, n))

Take(c, n) ==
  /\ Source(c) # 0 /\ Arrived(Source(c)) > 0
  /\ conn' = [Left(c) EXCEPT ![Source(c)].taken = IF IsLast(c) THEN 0 ELSE Taken(c, n)]
  /\ UNCHANGED <<main, process, queue, signals, device>>

\* recv returns what has arrived, as far as there is room.  The code then looks
\* for a newline, and if there is none makes room for more, which may fail.
Receive(c) ==
  LET w == [worker[c] EXCEPT !.in = 0]
      buf == Filled(w.buf, TakenBytes(c, Room(w)))
      size == Grown(w.size, buf)
  IN  /\ pc[c] = "recv" /\ Room(w) > 0 /\ Take(c, Room(w))
      /\ \/ /\ Device!Complete(buf)
            /\ Move(c, "recv", "command", [w EXCEPT !.buf = buf])
         \/ /\ ~Device!Complete(buf)
            /\ Move(c, "recv", "recv", [w EXCEPT !.buf = buf, !.size = size])
         \/ /\ ~Device!Complete(buf) /\ size # w.size /\ "realloc" \in Faults
            /\ Move(c, "recv", "close_file", [w EXCEPT !.buf = << >>])

\* recv returns 0 at the end of the stream, and also when it is given no room;
\* it fails on what is not a socket.
NothingToReceive(c) == Source(c) # 0 /\ Room(worker[c]) > 0 => AtEnd(Source(c))

\* Faulty variant: the error path closes the client, and so does the caller.
ReceiveFailsCloses(c) ==
  /\ pc[c] = "recv" /\ NothingToReceive(c)
  /\ Move(c, "recv", "close_file", [worker[c] EXCEPT !.buf = << >>, !.in = 0])
  /\ CloseFd(worker[c].client)
  /\ UNCHANGED <<around, ioctl_just_performed, mutex, queue>>

\* calloc fails, or recv returns 0 or an error: nothing is stored or answered.
ReceiveFails(c) ==
  /\ pc[c] = "recv"
  /\ \/ "calloc" \in Faults /\ worker[c].in = 0 /\ worker[c].buf = << >> /\ worker[c].size = BufLen
     \/ NothingToReceive(c)
  /\ Move(c, "recv", "close_file", [worker[c] EXCEPT !.buf = << >>, !.in = 0])
  /\ conn' = Left(c)
  /\ UNCHANGED <<main, process, queue, signals, device>>

\* A signal is delivered to the worker that waits in recv, which fails with EINTR.
ReceiveInterrupted(c) ==
  /\ "recv" \in Hits /\ signals > 0 /\ worker[c].in # 0
  /\ Move(c, "recv", "close_file", [worker[c] EXCEPT !.buf = << >>, !.in = 0])
  /\ conn' = Left(c)
  /\ signals' = signals - 1 /\ exit_flag' = TRUE
  /\ UNCHANGED <<main, locals, shared, queue, device>>

IsSeek(buf) == Head(buf) \in DOMAIN SeekText \cup {BadSeek}

\* What the ioctl does: the position of byte s.offset of command s.cmd.
SeekPos(s) ==
  IF s.cmd < Len(recent) /\ s.offset < Len(recent[s.cmd + 1])
  THEN {Len(FlattenSeq(SubSeq(recent, 1, s.cmd))) + s.offset} ELSE {}

\* Whether a command must or may fail: the seek does not parse, names no byte of
\* the device or is asked of something else; the write fails, as it must on what
\* is neither the device nor a socket.
Refused(c) ==
  LET text == Head(worker[c].buf)
      kind == fds[worker[c].file].kind
  IN  IF IsSeek(worker[c].buf)
      THEN text # BadSeek /\ kind = "dev" => SeekPos(SeekText[text]) = {}
      ELSE kind \notin {"dev", "sock"} \/ "write" \in Faults

\* Faulty variant: nobody waits for mutex_read_write.
MutexIgnored == TRUE

MutexFree == mutex = {}

\* The part of send_rcv_socket_data under mutex_read_write, for a seek.
SeekCommand(c) ==
  LET w == worker[c]
  IN  /\ pc[c] = "command" /\ IsSeek(w.buf) /\ MutexFree
      /\ Head(w.buf) # BadSeek /\ fds[w.file].kind = "dev"
      /\ \E to \in SeekPos(SeekText[Head(w.buf)]) :
           /\ fds' = [fds EXCEPT ![w.file].pos = to]
           /\ Move(c, "command", "respond",
                   [w EXCEPT !.buf = << >>, !.expect = SubSeq(Bytes, to + 1, Len(Bytes))])
      /\ ioctl_just_performed' = TRUE
      /\ UNCHANGED <<around, mutex, network>>

\* The same for data: one write, which the device may complete or refuse.
WriteCommand(c) ==
  LET w == worker[c]
  IN  /\ pc[c] = "command" /\ ~IsSeek(w.buf) /\ MutexFree /\ fds[w.file].kind = "dev"
      /\ Device!Commit(w.buf)
      /\ ioctl_just_performed' = FALSE
      /\ Move(c, "command", "respond", [w EXCEPT !.buf = << >>, !.expect = FlattenSeq(recent')])
      /\ UNCHANGED <<main, exit_flag, locals, mutex, fds, network, signals>>

\* What a client is sent on connection s.  To one that has closed its end sending
\* still succeeds, until the answer to an earlier one has arrived.
Sent(s, bytes) == [conn EXCEPT ![s].got = @ \o bytes, ![s].rst = conn[s].closed]

\* The file descriptor has become the socket of another client: write sends the
\* command there.
WriteSocket(c) ==
  LET w == worker[c]
  IN  /\ pc[c] = "command" /\ ~IsSeek(w.buf) /\ MutexFree /\ fds[w.file].kind = "sock"
      /\ conn' = Sent(fds[w.file].who, w.buf)
      /\ ioctl_just_performed' = FALSE
      /\ Move(c, "command", "respond", [w EXCEPT !.buf = << >>, !.expect = Bytes])
      /\ UNCHANGED <<around, mutex, fds, queue>>

\* No response, and the flag stays as the last command left it.
CommandFails(c) ==
  /\ pc[c] = "command" /\ MutexFree /\ Refused(c)
  /\ Move(c, "command", "close_file", [worker[c] EXCEPT !.buf = << >>])
  /\ UNCHANGED <<main, process, network, signals, device>>

\* Faulty variant: the device is reopened after a seek, too.
KeepPositionNever == FALSE

KeepPosition == ioctl_just_performed

\* return_socketdata_to_client: lock, and close the device unless an ioctl has
\* just set the position.
Respond(c) ==
  LET w == worker[c]
  IN  /\ MutexFree /\ mutex' = {c}
      /\ IF KeepPosition
         THEN /\ Move(c, "respond", "read", [w EXCEPT !.again = w.file])
              /\ UNCHANGED <<fds, conn>>
         ELSE /\ Move(c, "respond", "reopen", w)
              /\ CloseFd(w.file)
      /\ ioctl_just_performed' = FALSE
      /\ UNCHANGED <<around, queue>>

RespondFails(c) ==
  /\ "malloc" \in Faults
  /\ Move(c, "respond", "close_file", worker[c])
  /\ UNCHANGED <<main, process, network, signals, device>>

Reopen(c) ==
  /\ \E n \in Lowest : /\ Install(n, "dev", c)
                       /\ Move(c, "reopen", "read", [worker[c] EXCEPT !.again = n])
  /\ UNCHANGED <<around, ioctl_just_performed, mutex, network>>

\* Faulty variant: the error path keeps mutex_read_write.
ReopenFailsLocked(c) ==
  /\ "reopen" \in Faults \/ Lowest = {}
  /\ Move(c, "reopen", "close_file", worker[c])
  /\ UNCHANGED <<main, process, network, signals, device>>

ReopenFails(c) ==
  /\ "reopen" \in Faults \/ Lowest = {}
  /\ Move(c, "reopen", "close_file", worker[c])
  /\ mutex' = mutex \ {c}
  /\ UNCHANGED <<around, ioctl_just_performed, fds, network>>

\* read of up to CLIENT_BUFFER_LEN bytes from the device.
ReadChunk(c) ==
  LET w == worker[c]
      pos == fds[w.again].pos
      end == IF pos + BufLen < Len(Bytes) THEN pos + BufLen ELSE Len(Bytes)
  IN  /\ w.in = 0 /\ fds[w.again].kind = "dev" /\ pos < Len(Bytes)
      /\ Move(c, "read", "send", [w EXCEPT !.chunk = SubSeq(Bytes, pos + 1, end)])
      /\ fds' = [fds EXCEPT ![w.again].pos = end]
      /\ UNCHANGED <<around, ioctl_just_performed, mutex, network>>

\* The descriptor has become the socket of another client: read takes the bytes
\* that client has sent, and waits for them with the mutex held.
ReadSocket(c) ==
  /\ pc[c] = "read" /\ Take(c, BufLen)
  /\ Move(c, "read", "send",
          [worker[c] EXCEPT !.in = 0, !.chunk = TakenBytes(c, BufLen)])

\* The response is over: unlock and return 0.
Responded(c) ==
  /\ Move(c, "read", "close_file", [worker[c] EXCEPT !.ok = TRUE, !.in = 0])
  /\ mutex' = mutex \ {c}
  /\ conn' = Left(c)

\* read returns 0 at the end of the device or of a stream, or fails.
NothingToRead(c) ==
  IF Source(c) # 0 THEN AtEnd(Source(c))
  ELSE fds[worker[c].again].kind = "dev" => fds[worker[c].again].pos >= Len(Bytes)

ReadEnd(c) ==
  /\ pc[c] = "read" /\ NothingToRead(c) /\ Responded(c)
  /\ UNCHANGED <<around, ioctl_just_performed, fds, queue>>

\* A signal makes the driver give up waiting for its lock, or a read that waits
\* in a connection: read fails, which ends the loop as the end of the data does.
ReadInterrupted(c) ==
  /\ "read" \in Hits /\ signals > 0
  /\ worker[c].in # 0 \/ fds[worker[c].again].kind = "dev"
  /\ Responded(c)
  /\ signals' = signals - 1 /\ exit_flag' = TRUE
  /\ UNCHANGED <<main, locals, ioctl_just_performed, fds, queue, device>>

\* send passes the chunk on; the client takes what it is sent, so it never waits.
Send(c) ==
  /\ Socket(c).kind = "sock"
  /\ Move(c, "send", "read", [worker[c] EXCEPT !.chunk = << >>])
  /\ conn' = Sent(Socket(c).who, worker[c].chunk)
  /\ UNCHANGED <<main, process, queue, signals, device>>

\* send fails, as it must on a descriptor that is no longer a socket.
SendFails(c) ==
  /\ Socket(c).kind = "sock" => "send" \in Faults
  /\ Move(c, "send", "close_file", [worker[c] EXCEPT !.chunk = << >>])
  /\ mutex' = mutex \ {c}
  /\ UNCHANGED <<around, ioctl_just_performed, fds, network>>

\* A signal interrupts a send that waits for room: EINTR when nothing was sent,
\* else a short count.  Either way the loop goes on with the next read.
SendInterrupted(c) ==
  LET w == worker[c]
      s == Socket(c).who
  IN  /\ "send" \in Hits /\ signals > 0 /\ Socket(c).kind = "sock"
      /\ Move(c, "send", "read", [w EXCEPT !.chunk = << >>])
      /\ \E n \in 0..(Len(w.chunk) - 1) :
           conn' = [conn EXCEPT ![s].got = @ \o SubSeq(w.chunk, 1, n)]
      /\ signals' = signals - 1 /\ exit_flag' = TRUE
      /\ UNCHANGED <<main, locals, shared, queue, device>>

\* The descriptor that worker c sends or writes to.
Output(c) == IF pc[c] = "send" THEN worker[c].client ELSE worker[c].file

\* Sending on a connection known to be broken raises SIGPIPE, which the server
\* neither ignores nor handles: the process ends.
BrokenPipe(c) ==
  /\ ~Stopped
  /\ pc[c] = "send" \/ (pc[c] = "command" /\ ~IsSeek(worker[c].buf) /\ MutexFree)
  /\ fds[Output(c)].kind = "sock" /\ conn[fds[Output(c)].who].rst
  /\ main' = "killed"
  /\ UNCHANGED <<apart, process, network>>

CloseFile(c) ==
  /\ Move(c, "close_file", "close_client", worker[c])
  /\ CloseFd(worker[c].file)
  /\ UNCHANGED <<around, ioctl_just_performed, mutex, queue>>

CloseClient(c) ==
  /\ Move(c, "close_client", "done", NoWorker)
  /\ CloseFd(worker[c].client)
  /\ UNCHANGED <<around, ioctl_just_performed, mutex, queue>>

-----------------------------------------------------------------------------

MainThread ==
  \/ Check \/ EnterAccept \/ Accept \/ AcceptFails \/ MallocArgs \/ DropClient
  \/ CreateThread \/ ThreadNodeAdd \/ ThreadJoin \/ Clean

Worker(c) ==
  \/ OpenDevice(c) \/ OpenDeviceFails(c) \/ Blocks(c) \/ Receive(c) \/ ReceiveFails(c)
  \/ SeekCommand(c) \/ WriteCommand(c) \/ WriteSocket(c) \/ CommandFails(c)
  \/ Respond(c) \/ Reopen(c) \/ ReopenFails(c)
  \/ ReadChunk(c) \/ ReadSocket(c) \/ ReadEnd(c) \/ Send(c) \/ SendFails(c) \/ BrokenPipe(c)
  \/ CloseFile(c) \/ CloseClient(c)

Interrupted(c) == ReceiveInterrupted(c) \/ ReadInterrupted(c) \/ SendInterrupted(c)

Next ==
  \/ MainThread \/ SignalMain
  \/ \E c \in Client : \/ Worker(c) \/ RespondFails(c) \/ Interrupted(c)
                        \/ Connect(c) \/ Deliver(c) \/ HangUp(c) \/ LocalWrite(c)

Spec == Init /\ [][Next]_vars

\* Runnable threads run; one that waits for the mutex is not helped by a malloc
\* that fails.  Nothing obliges a client to connect, to send or to close, or a
\* signal to come.
Fairness ==
  /\ WF_vars(MainThread)
  /\ \A c \in Client : WF_vars(Worker(c))

FairSpec == Spec /\ Fairness

=============================================================================
