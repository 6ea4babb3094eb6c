------------------------- MODULE AesdSocketProofs -------------------------
(***************************************************************************)
(* The properties of the socket server, for every number of clients,       *)
(* descriptors and signals, every stream and every size of the buffer.     *)
(***************************************************************************)
EXTENDS AesdSocketProperties, CircularBufferLemmas

Label == {"none", "open", "recv", "command", "respond", "reopen", "read", "send",
          "close_file", "close_client", "done"}

\* The labels between lock and unlock in return_socketdata_to_client.
Answering == {"reopen", "read", "send"}

IsFile(r) == DOMAIN r = DOMAIN NoFile

IsConn(k) == DOMAIN k = DOMAIN NoConn

IsWorker(w) == DOMAIN w = DOMAIN NoWorker

Shaped ==
  /\ pc \in [Client -> Label]
  /\ worker = [c \in Client |-> worker[c]] /\ \A c \in Client : IsWorker(worker[c])
  /\ conn = [c \in Client |-> conn[c]] /\ \A c \in Client : IsConn(conn[c])
  /\ fds = [n \in FD |-> fds[n]] /\ \A n \in FD : IsFile(fds[n])
  /\ queue \in Seq(Client)

\* A client that nobody serves yet, and that has connected.
Unserved(c) == c \in Client \ Local /\ pc[c] = "none" /\ conn[c].up # "no"

\* No client is served twice: the ones that wait to be accepted and the one that
\* main is about to hand over are different, and have no thread.
ServedOnce ==
  /\ \A i \in 1..Len(queue) : Unserved(queue[i])
  /\ \A i, j \in 1..Len(queue) : queue[i] = queue[j] => i = j
  /\ main \in {"args", "create"} =>
       Unserved(client_addr) /\ \A i \in 1..Len(queue) : queue[i] # client_addr
  /\ \A c \in Client : /\ c \notin Local /\ conn[c].up = "no" => pc[c] = "none"
                       /\ c \in Local => pc[c] \in {"none", "done"}
                       /\ pc[c] = "none" => worker[c] = NoWorker

\* What holds however many workers run.
ThreadsInv == Shaped /\ ServedOnce /\ ResponsesExclusive

LEMMA InitThreadsInv == Init => ThreadsInv
<1> SUFFICES ASSUME Init
             PROVE  ThreadsInv
  OBVIOUS
<1>1. Shaped
  BY DEF Init, Shaped, Label, NoWorker, NoConn, NoFile, IsWorker, IsConn, IsFile
<1>2. ServedOnce
  BY DEF Init, ServedOnce, NoConn
<1>3. ResponsesExclusive
  BY DEF Init, ResponsesExclusive
<1> QED
  BY <1>1, <1>2, <1>3 DEF ThreadsInv

-----------------------------------------------------------------------------
(* What a step of a worker does to the rest.                               *)

\* What pthread_mutex_lock and unlock do when worker c moves to label.
Mutexes(c, label) ==
  IF pc[c] \in Answering
  THEN mutex' = IF label \in Answering THEN mutex ELSE mutex \ {c}
  ELSE IF label \in Answering THEN mutex = {} /\ mutex' = {c} ELSE mutex' = mutex

\* Descriptors and connections keep their shape, and no connection is undone.
TablesKept ==
  /\ conn' = [d \in Client |-> conn'[d]]
  /\ \A d \in Client : IsConn(conn'[d]) /\ (conn[d].up # "no" => conn'[d].up # "no")
  /\ fds' = [n \in FD |-> fds'[n]] /\ \A n \in FD : IsFile(fds'[n])

\* Worker c goes to label and leaves the main thread alone.
WorkerMoves(c, label) ==
  /\ pc[c] \notin {"none", "done"} /\ pc' = [pc EXCEPT ![c] = label]
  /\ Mutexes(c, label)
  /\ \E w : IsWorker(w) /\ worker' = [worker EXCEPT ![c] = w]
  /\ UNCHANGED <<main, locals, queue>>
  /\ TablesKept

LEMMA CloseFdKeeps ==
  ASSUME Shaped, NEW n, CloseFd(n)
  PROVE  TablesKept
<1>1. IsConn(Over) /\ Over.up = "closed" /\ IsFile(NoFile)
  BY DEF Over, NoConn, IsConn, IsFile
<1>2. fds' = [m \in FD |-> fds'[m]] /\ \A m \in FD : IsFile(fds'[m])
  BY <1>1 DEF CloseFd, Shaped
<1>3. PICK s : conn' \in {conn, [conn EXCEPT ![s] = Over]}
  BY DEF CloseFd
<1> QED
  BY <1>1, <1>2, <1>3 DEF TablesKept, Shaped

\* What becomes of the connections when worker c waits no more.
LEMMA LeftKeeps ==
  ASSUME Shaped, NEW c
  PROVE  /\ Left(c) = [d \in Client |-> Left(c)[d]]
         /\ \A d \in Client : IsConn(Left(c)[d]) /\ (conn[d].up # "no" => Left(c)[d].up # "no")
<1>1. IsConn(Over) /\ Over.up = "closed"
  BY DEF Over, NoConn, IsConn
<1>2. PICK s : Left(c) \in {conn, [conn EXCEPT ![s] = Over]}
  BY DEF Left
<1> QED
  BY <1>1, <1>2 DEF Shaped

LEMMA TakeKeeps ==
  ASSUME Shaped, NEW c, NEW n, Take(c, n)
  PROVE  TablesKept
<1>1. PICK k, s, last : k = Left(c) /\ conn' = [k EXCEPT ![s].taken = last]
  BY DEF Take
<1>2. /\ k = [d \in Client |-> k[d]]
      /\ \A d \in Client : IsConn(k[d]) /\ (conn[d].up # "no" => k[d].up # "no")
  BY <1>1, LeftKeeps
<1>3. \A d \in Client : IsConn(conn'[d]) /\ conn'[d].up = k[d].up
  BY <1>1, <1>2 DEF IsConn, NoConn
<1>4. conn' = [d \in Client |-> conn'[d]]
  BY <1>1, <1>2
<1>5. UNCHANGED fds
  BY DEF Take, process, shared
<1> QED
  BY <1>2, <1>3, <1>4, <1>5 DEF TablesKept, Shaped

LEMMA InstallKeeps ==
  ASSUME Shaped, NEW n, NEW kind, NEW c, Install(n, kind, c), UNCHANGED conn
  PROVE  TablesKept
<1>1. IsFile([kind |-> kind, who |-> c, pos |-> 0])
  BY DEF IsFile, NoFile
<1> QED
  BY <1>1 DEF Install, TablesKept, Shaped

LEMMA SameTables ==
  ASSUME Shaped, UNCHANGED <<fds, conn>>
  PROVE  TablesKept
BY DEF Shaped, TablesKept

LEMMA SentKeeps ==
  ASSUME Shaped, UNCHANGED fds, NEW k, NEW bytes, conn' = Sent(k, bytes)
  PROVE  TablesKept
<1>1. \A d \in Client : IsConn(conn'[d]) /\ conn'[d].up = conn[d].up
  BY DEF Sent, Shaped, IsConn, NoConn
<1>2. conn' = [d \in Client |-> conn'[d]]
  BY ZenonT(40) DEF Sent, Shaped
<1> QED
  BY <1>1, <1>2 DEF TablesKept, Shaped

\* A worker's locals after an assignment to some of them.
LEMMA WorkerKept ==
  ASSUME NEW w, IsWorker(w), NEW n, NEW s, NEW v
  PROVE  /\ IsWorker([w EXCEPT !.file = n]) /\ IsWorker([w EXCEPT !.again = n])
         /\ IsWorker([w EXCEPT !.buf = s]) /\ IsWorker([w EXCEPT !.buf = s, !.size = n])
         /\ IsWorker([w EXCEPT !.buf = s, !.expect = v])
         /\ IsWorker([w EXCEPT !.chunk = s]) /\ IsWorker([w EXCEPT !.in = n])
         /\ IsWorker([w EXCEPT !.buf = s, !.in = n]) /\ IsWorker([w EXCEPT !.in = n, !.chunk = s])
         /\ IsWorker([w EXCEPT !.ok = TRUE, !.in = n])
BY DEF IsWorker, NoWorker

\* Opening, receiving and closing.
LEMMA FirstStepsMove ==
  ASSUME Shaped, NEW c \in Client,
         \/ OpenDevice(c) \/ OpenDeviceFails(c) \/ Blocks(c) \/ Receive(c) \/ ReceiveFails(c)
         \/ ReceiveInterrupted(c) \/ CloseFile(c) \/ CloseClient(c)
  PROVE  \E label \in Label \ {"none", "open"} : WorkerMoves(c, label)
<1>1. IsWorker(worker[c])
  BY DEF Shaped
<1> USE DEF Move, WorkerMoves, Mutexes, Answering, Label
<1>2. CASE OpenDevice(c)
  <2>1. TablesKept
    BY <1>2, InstallKeeps DEF OpenDevice, network
  <2> QED
    BY ZenonT(40), <1>1, <1>2, <2>1, WorkerKept DEF OpenDevice, around, network
<1>3. CASE OpenDeviceFails(c)
  <2>1. TablesKept
    BY <1>3, SameTables DEF OpenDeviceFails, process, shared, network
  <2> QED
    BY <1>1, <1>3, <2>1 DEF OpenDeviceFails, process, shared, network
<1>4. CASE Receive(c)
  <2>1. TablesKept /\ UNCHANGED <<main, locals, queue, mutex>>
    <3>1. PICK n : Take(c, n)
      BY <1>4 DEF Receive
    <3> QED
      BY <3>1, TakeKeeps DEF Take, process, shared
  <2>2. PICK label, w : /\ label \in {"command", "recv", "close_file"} /\ IsWorker(w)
                        /\ Move(c, "recv", label, w)
    <3>1. IsWorker([worker[c] EXCEPT !.in = 0])
      BY <1>1, WorkerKept
    <3> QED
      BY ZenonT(40), <1>4, <3>1, WorkerKept DEF Receive
  <2> QED
    BY <2>1, <2>2
<1>5. CASE ReceiveFails(c) \/ ReceiveInterrupted(c)
  <2>1. /\ UNCHANGED <<main, locals, queue, mutex, fds>> /\ conn' = Left(c)
        /\ Move(c, "recv", "close_file", [worker[c] EXCEPT !.buf = << >>, !.in = 0])
    BY <1>5 DEF ReceiveFails, ReceiveInterrupted, process, shared
  <2>2. TablesKept
    BY <2>1, LeftKeeps DEF TablesKept, Shaped
  <2>3. IsWorker([worker[c] EXCEPT !.buf = << >>, !.in = 0])
    BY <1>1, WorkerKept
  <2> QED
    BY <2>1, <2>2, <2>3
<1>6. CASE Blocks(c)
  <2>1. TablesKept
    BY <1>6, SameTables DEF Blocks, process, shared, network
  <2>2. IsWorker([worker[c] EXCEPT !.in = Source(c)])
    BY <1>1, WorkerKept
  <2>3. pc[c] \in {"recv", "read"}
    BY <1>6 DEF Blocks, Waits
  <2> QED
    BY <1>6, <2>1, <2>2, <2>3 DEF Blocks, process, shared, network
<1>7. CASE CloseFile(c)
  <2>1. TablesKept
    BY <1>7, CloseFdKeeps DEF CloseFile
  <2> QED
    BY <1>1, <1>7, <2>1 DEF CloseFile, around
<1>8. CASE CloseClient(c)
  <2>1. TablesKept
    BY <1>8, CloseFdKeeps DEF CloseClient
  <2>2. IsWorker(NoWorker)
    BY DEF NoWorker, IsWorker
  <2> QED
    BY <1>8, <2>1, <2>2 DEF CloseClient, around
<1> QED
  BY <1>2, <1>3, <1>4, <1>5, <1>6, <1>7, <1>8

\* Commands and responses.
LEMMA CommandStepsMove ==
  ASSUME Shaped, NEW c \in Client,
         \/ SeekCommand(c) \/ WriteCommand(c) \/ WriteSocket(c) \/ CommandFails(c)
         \/ Respond(c) \/ RespondFails(c)
  PROVE  \E label \in Label \ {"none", "open"} : WorkerMoves(c, label)
<1>1. IsWorker(worker[c])
  BY SMTT(40) DEF Shaped
<1> USE DEF Move, WorkerMoves, Mutexes, Answering, Label
<1>2. CASE SeekCommand(c)
  <2>1. PICK n, to : fds' = [fds EXCEPT ![n].pos = to]
    BY ZenonT(40), <1>2 DEF SeekCommand
  <2>2. TablesKept
    <3>1. \A m \in FD : IsFile(fds'[m])
      BY <2>1 DEF Shaped, IsFile, NoFile
    <3>2. fds' = [m \in FD |-> fds'[m]]
      BY <2>1 DEF Shaped
    <3> QED
      BY ZenonT(40), <1>2, <3>1, <3>2 DEF SeekCommand, network, TablesKept, Shaped
  <2>3. PICK w : IsWorker(w) /\ Move(c, "command", "respond", w)
    BY ZenonT(40), <1>1, <1>2, WorkerKept DEF SeekCommand
  <2> QED
    BY ZenonT(40), <1>2, <2>2, <2>3 DEF SeekCommand, around, network
<1>3. CASE WriteCommand(c)
  <2>1. TablesKept
    BY <1>3, SameTables DEF WriteCommand, network
  <2>2. PICK w : IsWorker(w) /\ Move(c, "command", "respond", w)
    BY ZenonT(40), <1>1, <1>3, WorkerKept DEF WriteCommand
  <2> QED
    BY <1>3, <2>1, <2>2 DEF WriteCommand, network
<1>4. CASE CommandFails(c)
  <2>1. TablesKept
    BY <1>4, SameTables DEF CommandFails, process, shared, network
  <2> QED
    BY ZenonT(40), <1>1, <1>4, <2>1, WorkerKept DEF CommandFails, process, shared, network
<1>5. CASE Respond(c)
  <2>1. TablesKept
    BY <1>5, CloseFdKeeps, SameTables DEF Respond
  <2>2. PICK label, w : /\ label \in {"read", "reopen"} /\ IsWorker(w)
                        /\ Move(c, "respond", label, w)
    BY ZenonT(40), <1>1, <1>5, WorkerKept DEF Respond
  <2> QED
    BY <1>5, <2>1, <2>2 DEF Respond, MutexFree, around
<1>6. CASE RespondFails(c)
  <2>1. TablesKept
    BY <1>6, SameTables DEF RespondFails, process, shared, network
  <2> QED
    BY <1>1, <1>6, <2>1 DEF RespondFails, process, shared, network
<1>7. CASE WriteSocket(c)
  <2>1. TablesKept /\ UNCHANGED <<main, locals, queue, mutex>>
    <3>1. PICK k, bytes : conn' = Sent(k, bytes)
      BY <1>7 DEF WriteSocket
    <3> QED
      BY <1>7, <3>1, SentKeeps DEF WriteSocket, around
  <2>2. PICK w : IsWorker(w) /\ Move(c, "command", "respond", w)
    BY ZenonT(40), <1>1, <1>7, WorkerKept DEF WriteSocket
  <2> QED
    BY <2>1, <2>2
<1> QED
  BY <1>2, <1>3, <1>4, <1>5, <1>6, <1>7

\* The loop of return_socketdata_to_client.
LEMMA ResponseStepsMove ==
  ASSUME Shaped, NEW c \in Client,
         \/ Reopen(c) \/ ReopenFails(c) \/ ReadChunk(c) \/ ReadSocket(c)
         \/ ReadEnd(c) \/ ReadInterrupted(c)
         \/ Send(c) \/ SendFails(c) \/ SendInterrupted(c)
  PROVE  \E label \in Label \ {"none", "open"} : WorkerMoves(c, label)
<1>1. IsWorker(worker[c])
  BY DEF Shaped
<1> USE DEF Move, WorkerMoves, Mutexes, Answering, Label
<1>2. CASE Reopen(c)
  <2>1. TablesKept
    BY <1>2, InstallKeeps DEF Reopen, network
  <2>2. PICK w : IsWorker(w) /\ Move(c, "reopen", "read", w)
    BY ZenonT(40), <1>1, <1>2, WorkerKept DEF Reopen
  <2> QED
    BY <1>2, <2>1, <2>2 DEF Reopen, around, network
<1>3. CASE ReopenFails(c)
  <2>1. TablesKept
    BY <1>3, SameTables DEF ReopenFails, network
  <2> QED
    BY <1>1, <1>3, <2>1 DEF ReopenFails, around, network
<1>4. CASE ReadChunk(c)
  <2>1. PICK n, to : fds' = [fds EXCEPT ![n].pos = to]
    BY ZenonT(40), <1>4 DEF ReadChunk
  <2>2. TablesKept
    <3>1. \A m \in FD : IsFile(fds'[m])
      BY <2>1 DEF Shaped, IsFile, NoFile
    <3>2. fds' = [m \in FD |-> fds'[m]]
      BY ZenonT(40), <2>1 DEF Shaped
    <3> QED
      BY ZenonT(40), <1>4, <3>1, <3>2 DEF ReadChunk, network, TablesKept, Shaped
  <2>3. PICK w : IsWorker(w) /\ Move(c, "read", "send", w)
    BY ZenonT(40), <1>1, <1>4, WorkerKept DEF ReadChunk
  <2> QED
    BY <1>4, <2>2, <2>3 DEF ReadChunk, around, network
<1>5. CASE ReadEnd(c) \/ ReadInterrupted(c)
  <2>1. UNCHANGED <<fds, main, locals, queue>> /\ Responded(c)
    BY <1>5 DEF ReadEnd, ReadInterrupted, around
  <2>2. TablesKept
    BY <2>1, LeftKeeps DEF Responded, TablesKept, Shaped
  <2>3. PICK w : IsWorker(w) /\ Move(c, "read", "close_file", w)
    BY ZenonT(40), <1>1, <2>1, WorkerKept DEF Responded
  <2> QED
    BY <2>1, <2>2, <2>3 DEF Responded
<1>6. CASE Send(c) \/ SendInterrupted(c)
  <2>2. UNCHANGED <<main, locals, queue, fds, mutex>>
    BY ZenonT(40), <1>6 DEF Send, SendInterrupted, process, shared
  <2>3. TablesKept
    <3>1. CASE Send(c)
      BY <2>2, <3>1, SentKeeps DEF Send
    <3>2. CASE SendInterrupted(c)
      <4>1. PICK s, got : conn' = [conn EXCEPT ![s].got = got]
        BY <3>2 DEF SendInterrupted
      <4>2. \A d \in Client : IsConn(conn'[d]) /\ conn'[d].up = conn[d].up
        BY <4>1 DEF Shaped, IsConn, NoConn
      <4>3. conn' = [d \in Client |-> conn'[d]]
        BY ZenonT(40), <4>1 DEF Shaped
      <4> QED
        BY <2>2, <4>2, <4>3 DEF TablesKept, Shaped
    <3> QED
      BY <1>6, <3>1, <3>2
  <2>4. PICK w : IsWorker(w) /\ Move(c, "send", "read", w)
    BY ZenonT(40), <1>1, <1>6, WorkerKept DEF Send, SendInterrupted
  <2> QED
    BY <2>2, <2>3, <2>4
<1>7. CASE SendFails(c)
  <2>1. TablesKept
    BY <1>7, SameTables DEF SendFails, network
  <2>2. PICK w : IsWorker(w) /\ Move(c, "send", "close_file", w)
    BY ZenonT(40), <1>1, <1>7, WorkerKept DEF SendFails
  <2> QED
    BY <1>7, <2>1, <2>2 DEF SendFails, around, network
<1>8. CASE ReadSocket(c)
  <2>1. TablesKept /\ UNCHANGED <<main, locals, queue, mutex>>
    BY <1>8, TakeKeeps DEF ReadSocket, Take, process, shared
  <2>2. PICK w : IsWorker(w) /\ Move(c, "read", "send", w)
    BY ZenonT(40), <1>1, <1>8, WorkerKept DEF ReadSocket
  <2> QED
    BY <2>1, <2>2
<1> QED
  BY <1>2, <1>3, <1>4, <1>5, <1>6, <1>7, <1>8

\* Every step of a worker but the one that ends the process.
LEMMA WorkerStepsMove ==
  ASSUME Shaped, NEW c \in Client, Worker(c) \/ RespondFails(c) \/ Interrupted(c), ~BrokenPipe(c)
  PROVE  \E label \in Label \ {"none", "open"} : WorkerMoves(c, label)
BY FirstStepsMove, CommandStepsMove, ResponseStepsMove DEF Worker, Interrupted

-----------------------------------------------------------------------------
(* Each client is served once, and responses exclude each other.           *)

LEMMA WorkerKeepsThreads ==
  ASSUME ThreadsInv, NEW c \in Client, NEW label \in Label \ {"none", "open"},
         WorkerMoves(c, label)
  PROVE  ThreadsInv'
<1>1. PICK w : IsWorker(w) /\ worker' = [worker EXCEPT ![c] = w]
  BY DEF WorkerMoves
<1>2. /\ pc[c] \notin {"none", "done"} /\ pc' = [pc EXCEPT ![c] = label]
      /\ UNCHANGED <<main, queue, client_addr>> /\ TablesKept /\ pc \in [Client -> Label]
  BY DEF WorkerMoves, locals, accepted, ThreadsInv, Shaped
<1>3. Shaped'
  <2>1. pc' \in [Client -> Label]
    BY <1>2
  <2>2. worker' = [d \in Client |-> worker'[d]] /\ \A d \in Client : IsWorker(worker'[d])
    BY <1>1 DEF ThreadsInv, Shaped
  <2> QED
    BY <1>2, <2>1, <2>2 DEF ThreadsInv, Shaped, TablesKept
<1>4. ServedOnce'
  <2>1. c \notin Local
    BY <1>2 DEF ThreadsInv, ServedOnce
  <2>2. \A d : Unserved(d) => Unserved(d)'
    BY <1>2 DEF Unserved, TablesKept
  <2>3. \A d \in Client : /\ d \notin Local /\ conn'[d].up = "no" => pc'[d] = "none"
                          /\ d \in Local => pc'[d] \in {"none", "done"}
                          /\ pc'[d] = "none" => worker'[d] = NoWorker
    BY <1>1, <1>2, <2>1 DEF ThreadsInv, Shaped, ServedOnce, TablesKept
  <2> QED
    BY <1>2, <2>2, <2>3 DEF ThreadsInv, ServedOnce
<1>5. ResponsesExclusive'
  <2>1. Mutexes(c, label) /\ ResponsesExclusive
    BY DEF WorkerMoves, ThreadsInv
  <2> QED
    BY <1>2, <2>1 DEF Mutexes, Answering, ResponsesExclusive
<1> QED
  BY <1>3, <1>4, <1>5 DEF ThreadsInv

\* The steps of main that touch no thread, no connection and no descriptor.
LEMMA IdleMainKeepsThreads ==
  ASSUME ThreadsInv, UNCHANGED <<pc, worker, conn, queue, fds, mutex, client_addr>>,
         main' \in {"args", "create"} => main \in {"args", "create"}
  PROVE  ThreadsInv'
<1>1. \A d : Unserved(d)' <=> Unserved(d)
  BY DEF Unserved
<1> QED
  BY <1>1 DEF ThreadsInv, Shaped, ServedOnce, ResponsesExclusive

LEMMA MainKeepsThreads ==
  ASSUME ThreadsInv, MainThread \/ SignalMain
  PROVE  ThreadsInv'
<1>1. CASE Check \/ EnterAccept \/ AcceptFails \/ MallocArgs \/ ThreadNodeAdd \/ ThreadJoin
           \/ SignalMain
  <2>1. /\ UNCHANGED <<pc, worker, conn, queue, fds, mutex, client_addr>>
        /\ main' \in {"args", "create"} => main \in {"args", "create"}
    BY <1>1 DEF Check, EnterAccept, AcceptFails, MallocArgs, ThreadNodeAdd, ThreadJoin,
                SignalMain, MainStep, apart, process, locals, accepted, shared, network
  <2> QED
    BY <2>1, IdleMainKeepsThreads
<1>2. CASE Accept
  <2> DEFINE h == Head(queue)
  <2>1. /\ main = "accept" /\ main' = "args" /\ queue # << >> /\ client_addr' = h
        /\ queue' = Tail(queue) /\ UNCHANGED <<pc, worker, conn, mutex>>
    BY <1>2 DEF Accept, MainStep, apart
  <2>2. TablesKept
    BY <1>2, InstallKeeps DEF Accept, ThreadsInv
  <2>3. /\ queue \in Seq(Client) /\ queue' \in Seq(Client) /\ Len(queue') = Len(queue) - 1
        /\ h = queue[1] /\ Len(queue) \in Nat \ {0}
        /\ \A i \in 1..Len(queue') : queue'[i] = queue[i + 1] /\ i + 1 \in 1..Len(queue)
    BY <2>1 DEF ThreadsInv, Shaped
  <2>4. \A d : Unserved(d)' <=> Unserved(d)
    BY <2>1 DEF Unserved
  <2>5. Shaped'
    BY <2>1, <2>2, <2>3 DEF ThreadsInv, Shaped, TablesKept
  <2> HIDE DEF h
  <2>6. ServedOnce'
    <3>1. (\A i \in 1..Len(queue) : Unserved(queue[i]))'
      BY <2>1, <2>3 DEF ThreadsInv, ServedOnce, Unserved
    <3>4. \A i \in 1..Len(queue') : queue'[i] # h
      BY <2>3 DEF ThreadsInv, ServedOnce
    <3>2. \A i, j \in 1..Len(queue') : queue'[i] = queue'[j] => i = j
      BY <2>3 DEF ThreadsInv, ServedOnce
    <3>3. Unserved(client_addr)'
      BY <2>1, <2>3 DEF ThreadsInv, ServedOnce, Unserved
    <3> QED
      BY <2>1, <3>1, <3>2, <3>3, <3>4 DEF ThreadsInv, ServedOnce
  <2>7. ResponsesExclusive'
    BY <2>1 DEF ThreadsInv, ResponsesExclusive
  <2> QED
    BY <2>5, <2>6, <2>7 DEF ThreadsInv
<1>3. CASE DropClient
  <2>1. /\ main' = "check" /\ UNCHANGED <<pc, worker, queue, mutex>>
    BY <1>3 DEF DropClient, MainStep, apart
  <2>2. TablesKept
    BY <1>3, CloseFdKeeps DEF DropClient, ThreadsInv
  <2>3. \A d : Unserved(d) => Unserved(d)'
    BY <2>1, <2>2 DEF Unserved, TablesKept
  <2>4. Shaped'
    BY <2>1, <2>2 DEF ThreadsInv, Shaped, TablesKept
  <2>5. ServedOnce'
    BY <2>1, <2>2, <2>3 DEF ThreadsInv, ServedOnce, TablesKept
  <2>6. ResponsesExclusive'
    BY <2>1 DEF ThreadsInv, ResponsesExclusive
  <2> QED
    BY <2>4, <2>5, <2>6 DEF ThreadsInv
<1>4. CASE CreateThread
  <2> DEFINE a == client_addr
  <2>1. /\ main = "create" /\ main' = "node" /\ UNCHANGED <<conn, queue, fds, mutex>>
        /\ pc' = [pc EXCEPT ![a] = "open"] /\ worker' = [worker EXCEPT ![a].client = client_fd]
    BY <1>4 DEF CreateThread, MainStep, shared, network
  <2>2. a \in Client \ Local /\ pc[a] = "none" /\ conn[a].up # "no"
    BY <2>1 DEF ThreadsInv, ServedOnce, Unserved
  <2>3. Shaped'
    <3>1. pc' \in [Client -> Label]
      BY <2>1 DEF ThreadsInv, Shaped, Label
    <3>2. worker' = [d \in Client |-> worker'[d]] /\ \A d \in Client : IsWorker(worker'[d])
      BY <2>1, <2>2 DEF ThreadsInv, Shaped, IsWorker, NoWorker
    <3> QED
      BY <2>1, <3>1, <3>2 DEF ThreadsInv, Shaped
  <2>4. ServedOnce'
    <3>1. \A i \in 1..Len(queue) : Unserved(queue[i]) /\ queue[i] # a
      BY <2>1 DEF ThreadsInv, ServedOnce
    <3>2. (\A i \in 1..Len(queue) : Unserved(queue[i]))'
      BY <2>1, <3>1 DEF ThreadsInv, Shaped, Unserved
    <3>3. \A d \in Client : /\ d \notin Local /\ conn'[d].up = "no" => pc'[d] = "none"
                            /\ d \in Local => pc'[d] \in {"none", "done"}
                            /\ pc'[d] = "none" => worker'[d] = NoWorker
      BY <2>1, <2>2 DEF ThreadsInv, Shaped, ServedOnce
    <3> QED
      BY <2>1, <3>2, <3>3 DEF ThreadsInv, ServedOnce
  <2>5. ResponsesExclusive'
    BY <2>1, <2>2 DEF ThreadsInv, Shaped, ResponsesExclusive
  <2> QED
    BY <2>3, <2>4, <2>5 DEF ThreadsInv
<1>5. CASE Clean
  <2>1. /\ main' = "exited" /\ UNCHANGED <<pc, worker, mutex>> /\ queue' = << >>
        /\ fds' = [n \in FD |-> NoFile]
        /\ conn' = [c \in Client |-> IF conn[c].up = "yes" THEN Over ELSE conn[c]]
    BY <1>5 DEF Clean, MainStep, apart
  <2>2. IsConn(Over) /\ Over.up = "closed" /\ IsFile(NoFile)
    BY DEF Over, NoConn, IsConn, IsFile
  <2>3. Shaped'
    BY <2>1, <2>2 DEF ThreadsInv, Shaped
  <2>4. ServedOnce'
    BY <2>1, <2>2 DEF ThreadsInv, ServedOnce
  <2>5. ResponsesExclusive'
    BY <2>1 DEF ThreadsInv, ResponsesExclusive
  <2> QED
    BY <2>3, <2>4, <2>5 DEF ThreadsInv
<1> QED
  BY <1>1, <1>2, <1>3, <1>4, <1>5 DEF MainThread

LEMMA ClientKeepsThreads ==
  ASSUME ThreadsInv, NEW c \in Client, Connect(c) \/ Deliver(c) \/ HangUp(c) \/ LocalWrite(c)
  PROVE  ThreadsInv'
<1>1. IsConn(conn[c]) /\ queue \in Seq(Client)
  BY DEF ThreadsInv, Shaped
<1>2. CASE Connect(c)
  <2>1. /\ conn[c].up = "no" /\ c \notin Local /\ conn' = [conn EXCEPT ![c].up = "yes"]
        /\ queue' = Append(queue, c)
        /\ UNCHANGED <<pc, worker, main, fds, mutex, client_addr>>
    BY <1>2 DEF Connect, apart, process, locals, accepted, shared
  <2>2. /\ conn' = [d \in Client |-> conn'[d]]
        /\ \A d \in Client : /\ IsConn(conn'[d])
                             /\ IF d = c THEN conn'[d].up = "yes" ELSE conn'[d].up = conn[d].up
    BY <1>1, <2>1 DEF ThreadsInv, Shaped, IsConn, NoConn
  <2>3. pc[c] = "none"
    BY <2>1 DEF ThreadsInv, ServedOnce
  <2>4. /\ queue' \in Seq(Client) /\ Len(queue') = Len(queue) + 1
        /\ queue'[Len(queue) + 1] = c /\ \A i \in 1..Len(queue) : queue'[i] = queue[i]
    BY <1>1, <2>1
  <2>5. /\ \A d : Unserved(d) => Unserved(d)'
        /\ ~Unserved(c) /\ Unserved(c)'
    BY <2>1, <2>2, <2>3 DEF Unserved
  <2>6. Shaped'
    BY <2>1, <2>2, <2>4 DEF ThreadsInv, Shaped
  <2>7. ServedOnce'
    <3>1. \A i \in 1..Len(queue) : Unserved(queue[i]) /\ queue[i] # c
      BY <2>5 DEF ThreadsInv, ServedOnce
    <3>2. (\A i \in 1..Len(queue) : Unserved(queue[i]))'
      BY <1>1, <2>1, <2>2, <2>3, <2>4, <3>1 DEF Unserved
    <3>3. \A i, j \in 1..Len(queue') : queue'[i] = queue'[j] => i = j
      BY <1>1, <2>4, <3>1 DEF ThreadsInv, ServedOnce
    <3>4. main \in {"args", "create"} =>
            Unserved(client_addr)' /\ \A i \in 1..Len(queue') : queue'[i] # client_addr
      BY <1>1, <2>1, <2>2, <2>4 DEF ThreadsInv, ServedOnce, Unserved
    <3>5. \A d \in Client : /\ d \notin Local /\ conn'[d].up = "no" => pc'[d] = "none"
                            /\ d \in Local => pc'[d] \in {"none", "done"}
                            /\ pc'[d] = "none" => worker'[d] = NoWorker
      BY <2>1, <2>2 DEF ThreadsInv, ServedOnce
    <3> QED
      BY <2>1, <3>2, <3>3, <3>4, <3>5 DEF ServedOnce
  <2>8. ResponsesExclusive'
    BY <2>1 DEF ThreadsInv, ResponsesExclusive
  <2> QED
    BY <2>6, <2>7, <2>8 DEF ThreadsInv
<1>3. CASE Deliver(c) \/ HangUp(c)
  <2>1. UNCHANGED <<pc, worker, main, fds, mutex, client_addr, queue>>
    BY <1>3 DEF Deliver, HangUp, apart, process, locals, accepted, shared
  <2>2. PICK n, b : conn' = [conn EXCEPT ![c].sent = n] \/ conn' = [conn EXCEPT ![c].closed = b]
    BY <1>3 DEF Deliver, HangUp
  <2>3. /\ conn' = [d \in Client |-> conn'[d]]
        /\ \A d \in Client : IsConn(conn'[d]) /\ conn'[d].up = conn[d].up
    <3>1. conn' = [d \in Client |-> conn'[d]]
      BY <2>2 DEF ThreadsInv, Shaped
    <3>2. CASE conn' = [conn EXCEPT ![c].sent = n]
      BY <3>1, <3>2 DEF ThreadsInv, Shaped, IsConn, NoConn
    <3>3. CASE conn' = [conn EXCEPT ![c].closed = b]
      BY <3>1, <3>3 DEF ThreadsInv, Shaped, IsConn, NoConn
    <3> QED
      BY <2>2, <3>1, <3>2, <3>3
  <2>4. \A d : Unserved(d) <=> Unserved(d)'
    BY <2>1, <2>3, SMTT(40) DEF Unserved
  <2>5. Shaped'
    BY <2>1, <2>3 DEF ThreadsInv, Shaped
  <2>6. ServedOnce'
    BY <2>1, <2>3, <2>4 DEF ThreadsInv, ServedOnce
  <2>7. ResponsesExclusive'
    BY <2>1 DEF ThreadsInv, ResponsesExclusive
  <2> QED
    BY <2>5, <2>6, <2>7 DEF ThreadsInv
<1>4. CASE LocalWrite(c)
  <2>1. /\ c \in Local /\ pc[c] = "none" /\ pc' = [pc EXCEPT ![c] = "done"]
        /\ UNCHANGED <<worker, main, fds, mutex, client_addr, conn, queue>>
    BY <1>4 DEF LocalWrite, process, locals, accepted, shared, network
  <2>2. \A d : Unserved(d) => Unserved(d)'
    BY <2>1 DEF ThreadsInv, Shaped, Unserved
  <2>3. Shaped'
    BY <2>1 DEF ThreadsInv, Shaped, Label
  <2>4. ServedOnce'
    BY <2>1, <2>2 DEF ThreadsInv, Shaped, ServedOnce
  <2>5. ResponsesExclusive'
    BY <2>1 DEF ThreadsInv, Shaped, ResponsesExclusive
  <2> QED
    BY <2>3, <2>4, <2>5 DEF ThreadsInv
<1> QED
  BY <1>2, <1>3, <1>4

LEMMA NextKeepsThreads == ThreadsInv /\ [Next]_vars => ThreadsInv'
<1> SUFFICES ASSUME ThreadsInv, [Next]_vars
             PROVE  ThreadsInv'
  OBVIOUS
<1>1. CASE UNCHANGED vars
  BY <1>1, IdleMainKeepsThreads DEF vars, process, locals, accepted, shared, network
<1>2. CASE MainThread \/ SignalMain
  BY <1>2, MainKeepsThreads
<1>3. ASSUME NEW c \in Client, Worker(c) \/ RespondFails(c) \/ Interrupted(c)
      PROVE  ThreadsInv'
  <2>1. CASE BrokenPipe(c)
    <3>1. main' = "killed" /\ UNCHANGED <<pc, worker, conn, queue, fds, mutex, client_addr>>
      BY <2>1 DEF BrokenPipe, apart, process, locals, accepted, shared, network
    <3> QED
      BY <3>1, IdleMainKeepsThreads
  <2>2. CASE ~BrokenPipe(c)
    BY <1>3, <2>2, WorkerStepsMove, WorkerKeepsThreads DEF ThreadsInv
  <2> QED
    BY <2>1, <2>2
<1>4. ASSUME NEW c \in Client, Connect(c) \/ Deliver(c) \/ HangUp(c) \/ LocalWrite(c)
      PROVE  ThreadsInv'
  BY <1>4, ClientKeepsThreads
<1> QED
  BY <1>1, <1>2, <1>3, <1>4 DEF Next

LEMMA ThreadsInvHolds == Spec => []ThreadsInv
BY InitThreadsInv, NextKeepsThreads, PTL DEF Spec

\* However many workers run at once, mutex_read_write is held by exactly the
\* one that is between lock and unlock in return_socketdata_to_client, and by
\* at most one; every error path gives it back.
THEOREM ServerAnswersAlone == Spec => []ResponsesExclusive
<1>1. ThreadsInv => ResponsesExclusive
  BY DEF ThreadsInv
<1> QED
  BY ThreadsInvHolds, <1>1, PTL

-----------------------------------------------------------------------------
(* Types and sizes.                                                        *)

MainOK ==
  /\ main \in {"check", "enter", "accept", "args", "create", "node", "join", "final_join",
               "clean", "exited", "killed"}
  /\ exit_flag \in BOOLEAN /\ ioctl_just_performed \in BOOLEAN /\ signals \in 0..MaxSignals
  /\ client_fd \in FD /\ client_addr \in Client \cup {0} /\ thread_id \in Client \cup {0}
  /\ main = "node" => thread_id \in Client
  /\ nodes \in Seq(Client)

FileOK(r) ==
  /\ r.kind \in {"free", "listen", "sock", "dev"} /\ r.who \in Client \cup {0}
  /\ r.kind = "sock" => r.who \in Client

ConnOK(c, k) ==
  k.sent \in Nat /\ k.taken \in Nat /\ k.taken <= k.sent /\ k.sent <= Len(Stream[c])

\* A worker at label l: there is room in its buffer when it calls recv.
WorkerOK(l, w) ==
  /\ w.client \in FD /\ w.file \in FD /\ w.again \in FD /\ w.in \in Client \cup {0}
  /\ w.buf \in Seq(Nat) /\ w.size \in Nat /\ w.size > 1
  /\ l = "open" => w.buf = << >>
  /\ l = "recv" => w.size - Len(w.buf) - 1 > 0

Sized ==
  /\ MainOK
  /\ \A n \in FD : FileOK(fds[n])
  /\ \A c \in Client : ConnOK(c, conn[c]) /\ WorkerOK(pc[c], worker[c])

LEMMA NothingYet ==
  /\ WorkerOK("none", NoWorker) /\ FileOK(NoFile)
  /\ \A c \in Client : ConnOK(c, NoConn) /\ ConnOK(c, Over)
BY AesdSocketAssumption DEF WorkerOK, NoWorker, FileOK, NoFile, ConnOK, NoConn, Over

LEMMA InitSized == Init => Sized
<1> SUFFICES ASSUME Init
             PROVE  Sized
  OBVIOUS
<1>1. MainOK
  <2>1. exit_flag \in BOOLEAN /\ ioctl_just_performed \in BOOLEAN
    BY DEF Init
  <2>2. signals \in 0..MaxSignals /\ client_fd \in FD /\ nodes \in Seq(Client)
    BY AesdSocketAssumption DEF Init
  <2> QED
    BY <2>1, <2>2 DEF Init, MainOK
<1>2. \A n \in FD : FileOK(fds[n])
  BY DEF Init, FileOK, NoFile
<1>3. \A c \in Client : ConnOK(c, conn[c]) /\ WorkerOK(pc[c], worker[c])
  BY NothingYet DEF Init
<1> QED
  BY <1>1, <1>2, <1>3 DEF Sized

LEMMA CloseFdSized ==
  ASSUME ThreadsInv, Sized, NEW n, CloseFd(n)
  PROVE  /\ \A m \in FD : FileOK(fds'[m])
         /\ \A c \in Client : ConnOK(c, conn'[c])
BY NothingYet DEF CloseFd, ThreadsInv, Shaped, Sized

LEMMA InstallSized ==
  ASSUME ThreadsInv, Sized, NEW n \in FD, NEW kind \in {"sock", "dev"}, NEW c \in Client,
         Install(n, kind, c)
  PROVE  \A m \in FD : FileOK(fds'[m])
<1>1. FileOK([kind |-> kind, who |-> c, pos |-> 0])
  BY DEF FileOK
<1> QED
  BY <1>1 DEF Install, ThreadsInv, Shaped, Sized

LEMMA SeekSized ==
  ASSUME ThreadsInv, Sized, NEW n, NEW to, fds' = [fds EXCEPT ![n].pos = to]
  PROVE  \A m \in FD : FileOK(fds'[m])
<1>1. \A m \in FD : fds'[m].kind = fds[m].kind /\ fds'[m].who = fds[m].who
  BY DEF ThreadsInv, Shaped, IsFile, NoFile
<1> QED
  BY <1>1 DEF Sized, FileOK

LEMMA MoveSized ==
  ASSUME ThreadsInv, Sized, NEW c \in Client, NEW from, NEW to, NEW w, Move(c, from, to, w),
         WorkerOK(to, w)
  PROVE  \A d \in Client : WorkerOK(pc'[d], worker'[d])
BY DEF Move, ThreadsInv, Shaped, Sized

LEMMA Joined ==
  ASSUME NEW a \in Seq(Nat), NEW b \in Seq(Nat)
  PROVE  a \o b \in Seq(Nat) /\ Len(a \o b) = Len(a) + Len(b)
BY ConcatProperties, LenProperties

\* The elements of a and those of b.
JoinAt(a, b) ==
  \A i \in 1..(Len(a) + Len(b)) : (a \o b)[i] = IF i <= Len(a) THEN a[i] ELSE b[i - Len(a)]

LEMMA JoinedAt ==
  ASSUME NEW a \in Seq(Nat), NEW b \in Seq(Nat)
  PROVE  JoinAt(a, b)
BY ConcatProperties DEF JoinAt

LEMMA GrownEnough ==
  ASSUME NEW size \in Nat, NEW s, Len(s) \in Nat, Len(s) <= size - 1, size > 1
  PROVE  Grown(size, s) \in Nat /\ Grown(size, s) >= size /\ Grown(size, s) - Len(s) - 1 > 0
BY DEF Grown

\* A recv that takes the bytes of stream up to last.
Takes(size, buf, stream, taken, sent, last) ==
  /\ size \in Nat /\ buf \in Seq(Nat) /\ stream \in Seq(Nat) /\ taken \in Nat /\ sent \in Nat
  /\ taken <= sent /\ sent <= Len(stream) /\ size - Len(buf) - 1 > 0
  /\ last = IF sent - taken > size - Len(buf) - 1 THEN taken + (size - Len(buf) - 1) ELSE sent

TakenIs(size, buf, stream, taken, sent, last) ==
  LET new == Filled(buf, SubSeq(stream, taken + 1, last))
  IN  /\ last \in Nat /\ taken <= last /\ last <= sent
      /\ new \in Seq(Nat) /\ Len(new) = Len(buf) + (last - taken)
      /\ Grown(size, new) \in Nat /\ Grown(size, new) >= size
      /\ Grown(size, new) - Len(new) - 1 > 0

LEMMA TakesUpTo ==
  ASSUME NEW taken \in Nat, NEW sent \in Nat, taken <= sent, NEW room \in Int, room > 0,
         NEW last, last = IF sent - taken > room THEN taken + room ELSE sent
  PROVE  last \in Nat /\ taken <= last /\ last <= sent /\ last - taken <= room
OBVIOUS

\* What recv may take, and that it still leaves room once the buffer has grown.
LEMMA Received ==
  ASSUME NEW size, NEW buf, NEW stream, NEW taken, NEW sent, NEW last,
         Takes(size, buf, stream, taken, sent, last)
  PROVE  TakenIs(size, buf, stream, taken, sent, last)
<1> /\ size \in Nat /\ buf \in Seq(Nat) /\ stream \in Seq(Nat) /\ taken \in Nat /\ sent \in Nat
    /\ taken <= sent /\ sent <= Len(stream) /\ size - Len(buf) - 1 > 0
    /\ last = IF sent - taken > size - Len(buf) - 1 THEN taken + (size - Len(buf) - 1) ELSE sent
  BY DEF Takes
<1>0. Len(buf) \in Nat /\ Len(stream) \in Nat
  OBVIOUS
<1>1. /\ last \in Nat /\ taken <= last /\ last <= sent
      /\ last - taken <= size - Len(buf) - 1
  <2>0. size - Len(buf) - 1 \in Int
    BY <1>0
  <2>1. PICK room \in Int : room = size - Len(buf) - 1
    BY <2>0, Zenon
  <2>2. room > 0 /\ last = IF sent - taken > room THEN taken + room ELSE sent
    BY <2>1
  <2>3. last \in Nat /\ taken <= last /\ last <= sent /\ last - taken <= room
    BY <2>2, TakesUpTo
  <2> QED
    BY <2>1, <2>3
<1> DEFINE part == SubSeq(stream, taken + 1, last)
<1>2. part \in Seq(Nat) /\ Len(part) = last - taken
  <2>1. last - taken \in Nat /\ taken + (last - taken) = last /\ last <= Len(stream)
    BY <1>0, <1>1
  <2>2. PICK n \in Nat : n = last - taken
    BY <2>1, Zenon
  <2>3. taken + n = last /\ taken + n <= Len(stream)
    BY <2>1, <2>2
  <2>4. /\ SubSeq(stream, taken + 1, taken + n) \in Seq(Nat)
        /\ Len(SubSeq(stream, taken + 1, taken + n)) = n
    BY <2>3, SliceAt
  <2> QED
    BY <2>2, <2>3, <2>4
<1> HIDE DEF part
<1> DEFINE new == buf \o part
<1>3. new \in Seq(Nat) /\ Len(new) = Len(buf) + Len(part)
  BY <1>2, Joined
<1> HIDE DEF new
<1>4. Len(new) \in Nat /\ Len(new) <= size - 1 /\ size > 1
  BY SMTT(40), <1>0, <1>1, <1>2, <1>3
<1>5. /\ Grown(size, new) \in Nat /\ Grown(size, new) >= size
      /\ Grown(size, new) - Len(new) - 1 > 0
  BY <1>4, GrownEnough
<1> QED
  BY <1>1, <1>2, <1>3, <1>5 DEF TakenIs, Filled, new, part

\* Bytes come from a client's connection.
LEMMA SourceKnown ==
  ASSUME ThreadsInv, Sized, NEW c \in Client
  PROVE  Source(c) \in Client \cup {0}
<1>1. WorkerOK(pc[c], worker[c]) /\ \A n \in FD : FileOK(fds[n])
  BY DEF Sized
<1> QED
  BY <1>1 DEF Source, Input, WorkerOK, FileOK

LEMMA LeftSized ==
  ASSUME ThreadsInv, Sized, NEW c \in Client
  PROVE  \A d \in Client : ConnOK(d, Left(c)[d])
BY NothingYet DEF Left, ThreadsInv, Shaped, Sized

\* How far a recv or read gets on its connection.
LEMMA TakenKnown ==
  ASSUME ThreadsInv, Sized, NEW c \in Client, Source(c) \in Client, NEW n \in Int, n > 0
  PROVE  LET k == conn[Source(c)]
         IN  /\ Taken(c, n) \in Nat /\ k.taken <= Taken(c, n) /\ Taken(c, n) <= k.sent
             /\ Taken(c, n) - k.taken <= n
             /\ k.taken \in Nat /\ k.sent \in Nat /\ k.sent <= Len(Stream[Source(c)])
             /\ Stream[Source(c)] \in Seq(Nat)
<1>1. PICK k : k = conn[Source(c)]
  OBVIOUS
<1>2. ConnOK(Source(c), k)
  BY <1>1 DEF Sized
<1>3. /\ k.taken \in Nat /\ k.sent \in Nat /\ k.taken <= k.sent
      /\ k.sent <= Len(Stream[Source(c)]) /\ Stream[Source(c)] \in Seq(Nat)
  BY <1>2, AesdSocketAssumption DEF ConnOK
<1>4. Taken(c, n) = IF k.sent - k.taken > n THEN k.taken + n ELSE k.sent
  BY <1>1 DEF Taken, Arrived
<1> HIDE DEF Taken
<1>5. /\ Taken(c, n) \in Nat /\ k.taken <= Taken(c, n) /\ Taken(c, n) <= k.sent
      /\ Taken(c, n) - k.taken <= n
  BY <1>3, <1>4, TakesUpTo
<1> QED
  BY <1>1, <1>3, <1>5

LEMMA TakeSized ==
  ASSUME ThreadsInv, Sized, NEW c \in Client, NEW n \in Int, n > 0, Take(c, n)
  PROVE  /\ Source(c) \in Client
         /\ \A d \in Client : ConnOK(d, conn'[d])
         /\ UNCHANGED <<main, process, signals, device>>
<1>1. Source(c) \in Client
  BY SourceKnown DEF Take
<1>2. PICK s \in Client : s = Source(c)
  BY <1>1
<1>3. PICK last : /\ conn' = [Left(c) EXCEPT ![s].taken = last]
                  /\ last = IF IsLast(c) THEN 0 ELSE Taken(c, n)
  BY <1>2 DEF Take
<1>4. ConnOK(s, conn'[s])
  <2>1. /\ s \in DOMAIN Left(c) /\ IsConn(Left(c)[s])
    BY <1>2, LeftKeeps DEF ThreadsInv
  <2>2. conn'[s].sent = Left(c)[s].sent /\ conn'[s].taken = last
    BY <1>3, <2>1 DEF IsConn, NoConn
  <2>3. CASE IsLast(c)
    <3>1. s = worker[c].in
      BY <1>2, <2>3 DEF IsLast, Source
    <3>2. Left(c)[s] = Over
      BY <2>3, <3>1 DEF Left, ThreadsInv, Shaped
    <3> QED
      BY <1>3, <2>2, <2>3, <3>2, NothingYet DEF ConnOK, Over, NoConn
  <2>4. CASE ~IsLast(c)
    <3>1. Left(c)[s] = conn[s] /\ last = Taken(c, n)
      BY <1>3, <2>4 DEF Left
    <3>2. last \in Nat /\ last <= conn[s].sent
      BY <1>1, <1>2, <3>1, TakenKnown
    <3> QED
      BY <2>2, <3>1, <3>2 DEF ConnOK, Sized
  <2> QED
    BY <2>3, <2>4
<1>5. \A d \in Client \ {s} : conn'[d] = Left(c)[d]
  BY <1>3, LeftKeeps DEF ThreadsInv
<1> QED
  BY <1>1, <1>4, <1>5, LeftSized DEF Take

\* recv and the growth of the buffer.
LEMMA ReceiveKeepsSized ==
  ASSUME ThreadsInv, Sized, NEW c \in Client, Receive(c)
  PROVE  Sized'
<1> DEFINE w == [worker[c] EXCEPT !.in = 0]
           n == Room(w)
           buf == Filled(w.buf, TakenBytes(c, n))
           size == Grown(w.size, buf)
<1>1. IsWorker(w) /\ WorkerOK("recv", w)
  <2>1. IsWorker(worker[c]) /\ WorkerOK("recv", worker[c])
    BY DEF Receive, Move, ThreadsInv, Shaped, Sized
  <2> QED
    BY <2>1, WorkerKept DEF WorkerOK, IsWorker, NoWorker
<1>2. /\ n > 0 /\ Take(c, n)
      /\ \/ Move(c, "recv", "command", [w EXCEPT !.buf = buf])
         \/ Move(c, "recv", "recv", [w EXCEPT !.buf = buf, !.size = size])
         \/ Move(c, "recv", "close_file", [w EXCEPT !.buf = << >>])
  BY DEF Receive
<1> HIDE DEF w
<1>3. w.size \in Nat /\ w.size > 1 /\ w.buf \in Seq(Nat) /\ w.in \in Client \cup {0}
  BY <1>1 DEF WorkerOK
<1>4. n \in Int /\ n = w.size - Len(w.buf) - 1
  BY <1>3 DEF Room
<1> HIDE DEF n
<1>5. /\ Source(c) \in Client /\ \A d \in Client : ConnOK(d, conn'[d])
      /\ UNCHANGED <<main, process, signals, device>>
  BY <1>2, <1>4, TakeSized
<1>6. buf \in Seq(Nat) /\ size \in Nat /\ size > 1 /\ size - Len(buf) - 1 > 0
  <2>1. PICK s, last : s = Source(c) /\ last = Taken(c, n)
    OBVIOUS
  <2>2. /\ Stream[s] \in Seq(Nat) /\ conn[s].taken \in Nat /\ conn[s].sent \in Nat
        /\ conn[s].taken <= conn[s].sent /\ conn[s].sent <= Len(Stream[s])
    <3>1. ConnOK(s, conn[s]) /\ s \in Client
      BY <1>5, <2>1 DEF Sized
    <3> QED
      BY <3>1, AesdSocketAssumption DEF ConnOK
  <2>3. last = IF conn[s].sent - conn[s].taken > w.size - Len(w.buf) - 1
               THEN conn[s].taken + (w.size - Len(w.buf) - 1) ELSE conn[s].sent
    BY <1>4, <2>1 DEF Taken, Arrived
  <2>4. Takes(w.size, w.buf, Stream[s], conn[s].taken, conn[s].sent, last)
    BY <1>2, <1>3, <1>4, <2>2, <2>3 DEF Takes
  <2>5. TakenIs(w.size, w.buf, Stream[s], conn[s].taken, conn[s].sent, last)
    BY <2>4, Received
  <2>6. buf = Filled(w.buf, SubSeq(Stream[s], conn[s].taken + 1, last))
    BY <2>1 DEF TakenBytes
  <2> HIDE DEF buf
  <2>7. /\ buf \in Seq(Nat) /\ size \in Nat /\ size >= w.size
        /\ size - Len(buf) - 1 > 0
    BY <2>5, <2>6 DEF TakenIs
  <2> HIDE DEF size
  <2> QED
    BY <1>3, <2>7
<1> HIDE DEF buf, size
<1>7. \A d \in Client : WorkerOK(pc'[d], worker'[d])
  <2>1. /\ WorkerOK("command", [w EXCEPT !.buf = buf])
        /\ WorkerOK("recv", [w EXCEPT !.buf = buf, !.size = size])
        /\ WorkerOK("close_file", [w EXCEPT !.buf = << >>])
    BY <1>1, <1>6 DEF WorkerOK, IsWorker, NoWorker
  <2> QED
    BY <1>2, <2>1, MoveSized
<1> QED
  BY <1>5, <1>7 DEF Sized, MainOK, process, locals, accepted, shared

\* A step of a worker that changes only its locals, the connections and what
\* MainOK allows.
LEMMA StepSized ==
  ASSUME ThreadsInv, Sized, NEW c \in Client, NEW from, NEW to, NEW w, Move(c, from, to, w),
         WorkerOK(to, w), \A n \in FD : FileOK(fds'[n]), \A d \in Client : ConnOK(d, conn'[d]),
         UNCHANGED <<main, locals>>, exit_flag' \in BOOLEAN, ioctl_just_performed' \in BOOLEAN,
         signals' \in 0..MaxSignals
  PROVE  Sized'
BY MoveSized DEF Sized, MainOK, locals, accepted

LEMMA FirstStepsKeepSized ==
  ASSUME ThreadsInv, Sized, NEW c \in Client,
         \/ OpenDevice(c) \/ OpenDeviceFails(c) \/ Blocks(c)
         \/ ReceiveFails(c) \/ ReceiveInterrupted(c) \/ CloseFile(c) \/ CloseClient(c)
  PROVE  Sized'
<1>1. /\ IsWorker(worker[c]) /\ WorkerOK(pc[c], worker[c])
      /\ exit_flag \in BOOLEAN /\ ioctl_just_performed \in BOOLEAN /\ signals \in 0..MaxSignals
      /\ \A n \in FD : FileOK(fds[n])
      /\ \A d \in Client : ConnOK(d, conn[d])
  BY DEF ThreadsInv, Shaped, Sized, MainOK
<1>2. CASE OpenDevice(c)
  <2>1. PICK n \in FD : Install(n, "dev", c) /\ Move(c, "open", "recv", [worker[c] EXCEPT !.file = n])
    BY <1>2 DEF OpenDevice, Lowest
  <2>2. WorkerOK("recv", [worker[c] EXCEPT !.file = n])
    BY <1>1, <2>1 DEF WorkerOK, IsWorker, NoWorker, Move
  <2>3. \A m \in FD : FileOK(fds'[m])
    BY <2>1, InstallSized
  <2>4. UNCHANGED <<main, locals, exit_flag, ioctl_just_performed, signals, conn>>
    BY <1>2 DEF OpenDevice, around, network
  <2> QED
    BY <1>1, <2>1, <2>2, <2>3, <2>4, StepSized
<1>3. CASE OpenDeviceFails(c)
  <2>1. /\ Move(c, "open", "close_client", worker[c])
        /\ UNCHANGED <<main, locals, exit_flag, ioctl_just_performed, signals, conn, fds>>
    BY <1>3 DEF OpenDeviceFails, process, shared, network
  <2>2. WorkerOK("close_client", worker[c])
    BY <1>1 DEF WorkerOK
  <2> QED
    BY <1>1, <2>1, <2>2, StepSized
<1>4. CASE ReceiveFails(c) \/ ReceiveInterrupted(c)
  <2>1. /\ Move(c, "recv", "close_file", [worker[c] EXCEPT !.buf = << >>, !.in = 0])
        /\ UNCHANGED <<main, locals, ioctl_just_performed, fds>> /\ conn' = Left(c)
    BY <1>4 DEF ReceiveFails, ReceiveInterrupted, process, shared
  <2>2. WorkerOK("close_file", [worker[c] EXCEPT !.buf = << >>, !.in = 0])
    BY <1>1 DEF WorkerOK, IsWorker, NoWorker
  <2>3. exit_flag' \in BOOLEAN
    BY <1>1, <1>4 DEF ReceiveFails, ReceiveInterrupted, process
  <2>4. signals' \in 0..MaxSignals
    BY <1>1, <1>4, AesdSocketAssumption DEF ReceiveFails, ReceiveInterrupted
  <2> QED
    BY <1>1, <2>1, <2>2, <2>3, <2>4, LeftSized, StepSized
<1>5. CASE Blocks(c)
  <2>1. /\ Move(c, pc[c], pc[c], [worker[c] EXCEPT !.in = Source(c)])
        /\ UNCHANGED <<main, locals, exit_flag, ioctl_just_performed, signals, conn, fds>>
    BY <1>5 DEF Blocks, process, shared, network
  <2>2. WorkerOK(pc[c], [worker[c] EXCEPT !.in = Source(c)])
    BY <1>1, SourceKnown DEF WorkerOK, IsWorker, NoWorker
  <2> QED
    BY <1>1, <2>1, <2>2, StepSized
<1>6. CASE CloseFile(c)
  <2>1. /\ Move(c, "close_file", "close_client", worker[c]) /\ CloseFd(worker[c].file)
        /\ UNCHANGED <<main, locals, exit_flag, ioctl_just_performed, signals>>
    BY <1>6 DEF CloseFile, around
  <2>2. WorkerOK("close_client", worker[c])
    BY <1>1 DEF WorkerOK
  <2> QED
    BY <1>1, <2>1, <2>2, StepSized, CloseFdSized
<1>7. CASE CloseClient(c)
  <2>1. /\ Move(c, "close_client", "done", NoWorker) /\ CloseFd(worker[c].client)
        /\ UNCHANGED <<main, locals, exit_flag, ioctl_just_performed, signals>>
    BY <1>7 DEF CloseClient, around
  <2>2. WorkerOK("done", NoWorker)
    BY NothingYet DEF WorkerOK
  <2> QED
    BY <1>1, <2>1, <2>2, StepSized, CloseFdSized
<1> QED
  BY <1>2, <1>3, <1>4, <1>5, <1>6, <1>7

\* What is sent on a connection has nothing to do with what comes from it.
LEMMA GotSized ==
  ASSUME ThreadsInv, Sized, NEW s, NEW got, NEW rst,
         conn' \in {[conn EXCEPT ![s].got = got], [conn EXCEPT ![s].got = got, ![s].rst = rst]}
  PROVE  \A d \in Client : ConnOK(d, conn'[d])
<1>1. CASE conn' = [conn EXCEPT ![s].got = got]
  BY <1>1 DEF ThreadsInv, Shaped, Sized, ConnOK, IsConn, NoConn
<1>2. CASE conn' = [conn EXCEPT ![s].got = got, ![s].rst = rst]
  BY <1>2 DEF ThreadsInv, Shaped, Sized, ConnOK, IsConn, NoConn
<1> QED
  BY <1>1, <1>2

LEMMA SentSized ==
  ASSUME ThreadsInv, Sized, NEW s, NEW bytes, conn' = Sent(s, bytes)
  PROVE  \A d \in Client : ConnOK(d, conn'[d])
<1>1. PICK got, rst : conn' = [conn EXCEPT ![s].got = got, ![s].rst = rst]
  BY DEF Sent
<1>2. conn' \in {[conn EXCEPT ![s].got = got], [conn EXCEPT ![s].got = got, ![s].rst = rst]}
  BY <1>1
<1> QED
  BY <1>2, GotSized

LEMMA CommandStepsKeepSized ==
  ASSUME ThreadsInv, Sized, NEW c \in Client,
         \/ SeekCommand(c) \/ WriteCommand(c) \/ WriteSocket(c) \/ CommandFails(c)
         \/ Respond(c) \/ RespondFails(c)
  PROVE  Sized'
<1>1. /\ IsWorker(worker[c]) /\ WorkerOK(pc[c], worker[c])
      /\ exit_flag \in BOOLEAN /\ ioctl_just_performed \in BOOLEAN /\ signals \in 0..MaxSignals
      /\ \A n \in FD : FileOK(fds[n])
      /\ \A d \in Client : ConnOK(d, conn[d])
  BY DEF ThreadsInv, Shaped, Sized, MainOK
<1>2. \A v : WorkerOK("respond", [worker[c] EXCEPT !.buf = << >>, !.expect = v])
  BY <1>1 DEF WorkerOK, IsWorker, NoWorker
<1>3. CASE SeekCommand(c)
  <2>1. PICK v : Move(c, "command", "respond", [worker[c] EXCEPT !.buf = << >>, !.expect = v])
    BY ZenonT(40), <1>3 DEF SeekCommand
  <2>2. \A m \in FD : FileOK(fds'[m])
    BY ZenonT(40), <1>3, SeekSized DEF SeekCommand
  <2>3. UNCHANGED <<main, locals, exit_flag, signals, conn>>
    BY ZenonT(40), <1>3 DEF SeekCommand, around, network
  <2>4. ioctl_just_performed' \in BOOLEAN
    BY ZenonT(40), <1>3 DEF SeekCommand
  <2> QED
    BY ZenonT(40), <1>1, <1>2, <2>1, <2>2, <2>3, <2>4, StepSized
<1>4. CASE WriteCommand(c)
  <2>1. PICK v : Move(c, "command", "respond", [worker[c] EXCEPT !.buf = << >>, !.expect = v])
    BY ZenonT(40), <1>4 DEF WriteCommand
  <2>2. UNCHANGED <<main, locals, exit_flag, signals, conn, fds>>
    BY <1>4 DEF WriteCommand, network
  <2>3. ioctl_just_performed' \in BOOLEAN
    BY <1>4 DEF WriteCommand
  <2> QED
    BY ZenonT(40), <1>1, <1>2, <2>1, <2>2, <2>3, StepSized
<1>5. CASE CommandFails(c)
  <2>1. /\ Move(c, "command", "close_file", [worker[c] EXCEPT !.buf = << >>])
        /\ UNCHANGED <<main, locals, exit_flag, ioctl_just_performed, signals, conn, fds>>
    BY <1>5 DEF CommandFails, process, shared, network
  <2>2. WorkerOK("close_file", [worker[c] EXCEPT !.buf = << >>])
    BY <1>1 DEF WorkerOK, IsWorker, NoWorker
  <2> QED
    BY <1>1, <2>1, <2>2, StepSized
<1>6. CASE Respond(c)
  <2>1. UNCHANGED <<main, locals, exit_flag, signals>>
    BY <1>6 DEF Respond, around
  <2>2. ioctl_just_performed' \in BOOLEAN
    BY <1>6 DEF Respond
  <2>3. CASE KeepPosition
    <3>1. Move(c, "respond", "read", [worker[c] EXCEPT !.again = worker[c].file]) /\ UNCHANGED <<fds, conn>>
      BY <1>6, <2>3 DEF Respond
    <3>2. WorkerOK("read", [worker[c] EXCEPT !.again = worker[c].file])
      BY <1>1 DEF WorkerOK, IsWorker, NoWorker
    <3> QED
      BY <1>1, <2>1, <2>2, <3>1, <3>2, StepSized
  <2>4. CASE ~KeepPosition
    <3>1. Move(c, "respond", "reopen", worker[c]) /\ CloseFd(worker[c].file)
      BY <1>6, <2>4 DEF Respond
    <3>2. WorkerOK("reopen", worker[c])
      BY <1>1 DEF WorkerOK
    <3> QED
      BY <1>1, <2>1, <2>2, <3>1, <3>2, StepSized, CloseFdSized
  <2> QED
    BY <2>3, <2>4
<1>7. CASE RespondFails(c)
  <2>1. /\ Move(c, "respond", "close_file", worker[c])
        /\ UNCHANGED <<main, locals, exit_flag, ioctl_just_performed, signals, conn, fds>>
    BY <1>7 DEF RespondFails, process, shared, network
  <2>2. WorkerOK("close_file", worker[c])
    BY <1>1 DEF WorkerOK
  <2> QED
    BY <1>1, <2>1, <2>2, StepSized
<1>8. CASE WriteSocket(c)
  <2>1. PICK v : Move(c, "command", "respond", [worker[c] EXCEPT !.buf = << >>, !.expect = v])
    BY ZenonT(40), <1>8 DEF WriteSocket
  <2>2. UNCHANGED <<main, locals, exit_flag, signals, fds>> /\ ioctl_just_performed' \in BOOLEAN
    BY <1>8 DEF WriteSocket, around
  <2>3. \A d \in Client : ConnOK(d, conn'[d])
    BY <1>8, SentSized DEF WriteSocket
  <2> QED
    BY ZenonT(40), <1>1, <1>2, <2>1, <2>2, <2>3, StepSized
<1> QED
  BY <1>3, <1>4, <1>5, <1>6, <1>7, <1>8

LEMMA ResponseStepsKeepSized ==
  ASSUME ThreadsInv, Sized, NEW c \in Client,
         \/ Reopen(c) \/ ReopenFails(c) \/ ReadChunk(c) \/ ReadSocket(c)
         \/ ReadEnd(c) \/ ReadInterrupted(c)
         \/ Send(c) \/ SendFails(c) \/ SendInterrupted(c)
  PROVE  Sized'
<1>1. /\ IsWorker(worker[c]) /\ WorkerOK(pc[c], worker[c])
      /\ exit_flag \in BOOLEAN /\ ioctl_just_performed \in BOOLEAN /\ signals \in 0..MaxSignals
      /\ \A n \in FD : FileOK(fds[n])
      /\ \A d \in Client : ConnOK(d, conn[d])
  BY DEF ThreadsInv, Shaped, Sized, MainOK
<1>2. /\ \A v : /\ WorkerOK("send", [worker[c] EXCEPT !.chunk = v])
                /\ WorkerOK("read", [worker[c] EXCEPT !.chunk = v])
                /\ WorkerOK("close_file", [worker[c] EXCEPT !.chunk = v])
      /\ \A v : WorkerOK("send", [worker[c] EXCEPT !.in = 0, !.chunk = v])
      /\ WorkerOK("close_file", [worker[c] EXCEPT !.ok = TRUE, !.in = 0])
      /\ WorkerOK("close_file", worker[c])
      /\ \A n \in FD : WorkerOK("read", [worker[c] EXCEPT !.again = n])
  BY <1>1 DEF WorkerOK, IsWorker, NoWorker
<1>3. ASSUME signals > 0, signals' = signals - 1, exit_flag' = TRUE
      PROVE  signals' \in 0..MaxSignals /\ exit_flag' \in BOOLEAN
  BY <1>1, <1>3, AesdSocketAssumption
<1>4. CASE Reopen(c)
  <2>1. PICK n \in FD : Install(n, "dev", c) /\ Move(c, "reopen", "read", [worker[c] EXCEPT !.again = n])
    BY <1>4 DEF Reopen, Lowest
  <2>2. \A m \in FD : FileOK(fds'[m])
    BY <2>1, InstallSized
  <2>3. UNCHANGED <<main, locals, exit_flag, ioctl_just_performed, signals, conn>>
    BY <1>4 DEF Reopen, around, network
  <2> QED
    BY <1>1, <1>2, <2>1, <2>2, <2>3, StepSized
<1>5. CASE ReopenFails(c)
  <2>1. /\ Move(c, "reopen", "close_file", worker[c])
        /\ UNCHANGED <<main, locals, exit_flag, ioctl_just_performed, signals, conn, fds>>
    BY <1>5 DEF ReopenFails, around, network
  <2> QED
    BY <1>1, <1>2, <2>1, StepSized
<1>6. CASE ReadChunk(c)
  <2>1. PICK v : Move(c, "read", "send", [worker[c] EXCEPT !.chunk = v])
    BY <1>6 DEF ReadChunk
  <2>2. \A m \in FD : FileOK(fds'[m])
    BY <1>6, SeekSized DEF ReadChunk
  <2>3. UNCHANGED <<main, locals, exit_flag, ioctl_just_performed, signals, conn>>
    BY <1>6 DEF ReadChunk, around, network
  <2> QED
    BY <1>1, <1>2, <2>1, <2>2, <2>3, StepSized
<1>7. CASE ReadEnd(c) \/ ReadInterrupted(c)
  <2>1. /\ Move(c, "read", "close_file", [worker[c] EXCEPT !.ok = TRUE, !.in = 0])
        /\ conn' = Left(c) /\ UNCHANGED <<main, locals, ioctl_just_performed, fds>>
    BY <1>7 DEF ReadEnd, ReadInterrupted, Responded, around
  <2>2. signals' \in 0..MaxSignals /\ exit_flag' \in BOOLEAN
    BY <1>1, <1>3, <1>7 DEF ReadEnd, ReadInterrupted, around
  <2> QED
    BY <1>1, <1>2, <2>1, <2>2, LeftSized, StepSized
<1>8. CASE ReadSocket(c)
  <2>1. PICK v : Move(c, "read", "send", [worker[c] EXCEPT !.in = 0, !.chunk = v])
    BY <1>8 DEF ReadSocket
  <2>2. Take(c, BufLen) /\ BufLen \in Int /\ BufLen > 0
    BY <1>8, AesdSocketAssumption DEF ReadSocket
  <2>3. /\ \A d \in Client : ConnOK(d, conn'[d])
        /\ UNCHANGED <<main, locals, exit_flag, ioctl_just_performed, signals, fds>>
    BY <2>2, TakeSized DEF process, shared
  <2> QED
    BY <1>1, <1>2, <2>1, <2>3, StepSized
<1>9. CASE Send(c)
  <2>1. \A d \in Client : ConnOK(d, conn'[d])
    BY <1>9, SentSized DEF Send
  <2>2. /\ Move(c, "send", "read", [worker[c] EXCEPT !.chunk = << >>])
        /\ UNCHANGED <<main, locals, exit_flag, ioctl_just_performed, signals, fds>>
    BY <1>9 DEF Send, process, shared
  <2> QED
    BY <1>1, <1>2, <2>1, <2>2, StepSized
<1>10. CASE SendFails(c)
  <2>1. /\ Move(c, "send", "close_file", [worker[c] EXCEPT !.chunk = << >>])
        /\ UNCHANGED <<main, locals, exit_flag, ioctl_just_performed, signals, conn, fds>>
    BY <1>10 DEF SendFails, around, network
  <2> QED
    BY <1>1, <1>2, <2>1, StepSized
<1>11. CASE SendInterrupted(c)
  <2>1. \A d \in Client : ConnOK(d, conn'[d])
    <3>1. PICK s, got : conn' = [conn EXCEPT ![s].got = got]
      BY <1>11 DEF SendInterrupted
    <3> QED
      BY <3>1, GotSized
  <2>2. /\ Move(c, "send", "read", [worker[c] EXCEPT !.chunk = << >>])
        /\ UNCHANGED <<main, locals, ioctl_just_performed, fds>>
    BY SMTT(40), <1>11 DEF SendInterrupted, shared
  <2>3. signals' \in 0..MaxSignals /\ exit_flag' \in BOOLEAN
    BY <1>3, <1>11 DEF SendInterrupted
  <2> QED
    BY ZenonT(40), <1>1, <1>2, <2>1, <2>2, <2>3, StepSized
<1> QED
  BY <1>4, <1>5, <1>6, <1>7, <1>8, <1>9, <1>10, <1>11

LEMMA MainKeepsSized ==
  ASSUME ThreadsInv, Sized, MainThread \/ SignalMain
  PROVE  Sized'
<1>1. CASE Check \/ EnterAccept \/ AcceptFails \/ MallocArgs \/ ThreadJoin \/ SignalMain
  <2>1. UNCHANGED <<pc, worker, conn, fds, client_fd, client_addr, thread_id, ioctl_just_performed>>
    BY <1>1 DEF Check, EnterAccept, AcceptFails, MallocArgs, ThreadJoin,
                SignalMain, MainStep, apart, process, locals, accepted, shared, network
  <2>2. exit_flag' \in BOOLEAN
    BY <1>1 DEF Check, EnterAccept, AcceptFails, MallocArgs, ThreadJoin,
                SignalMain, MainStep, process, Sized, MainOK
  <2>3. signals' \in 0..MaxSignals
    <3>1. CASE signals' = signals
      BY <3>1 DEF Sized, MainOK
    <3>2. CASE SignalMain
      BY <3>2, AesdSocketAssumption DEF SignalMain, Sized, MainOK
    <3> QED
      BY <1>1, <3>1, <3>2 DEF Check, EnterAccept, AcceptFails, MallocArgs, ThreadJoin, apart
  <2>4. nodes' \in Seq(Client)
    <3>1. CASE nodes # << >> /\ nodes' = Tail(nodes)
      BY <3>1 DEF Sized, MainOK
    <3>2. CASE nodes' = nodes
      BY <3>2 DEF Sized, MainOK
    <3> QED
      BY <1>1, <3>1, <3>2 DEF Check, EnterAccept, AcceptFails, MallocArgs, ThreadJoin, SignalMain,
                              process, locals
  <2>5. /\ main' \in {"check", "enter", "accept", "args", "create", "node", "join", "final_join",
                      "clean", "exited", "killed"}
        /\ main' = "node" => main = "node"
    BY <1>1 DEF Check, EnterAccept, AcceptFails, MallocArgs, ThreadJoin,
                SignalMain, MainStep, Sized, MainOK
  <2> QED
    BY <2>1, <2>2, <2>3, <2>4, <2>5 DEF Sized, MainOK
<1>2. CASE ThreadNodeAdd
  <2>1. /\ main = "node" /\ main' = "join"
        /\ UNCHANGED <<pc, worker, conn, fds, client_fd, client_addr, thread_id, exit_flag,
                       signals, ioctl_just_performed>>
    BY <1>2 DEF ThreadNodeAdd, MainStep, apart, accepted, shared, network
  <2>2. nodes' \in Seq(Client)
    <3>1. thread_id \in Client /\ nodes \in Seq(Client)
      BY <2>1 DEF Sized, MainOK
    <3>2. << thread_id >> \o nodes \in Seq(Client)
      BY <3>1
    <3> QED
      BY <1>2, <3>1, <3>2 DEF ThreadNodeAdd
  <2> QED
    BY <2>1, <2>2 DEF Sized, MainOK
<1>3. CASE Accept
  <2>1. /\ main' = "args" /\ queue # << >> /\ client_addr' = Head(queue)
        /\ UNCHANGED <<pc, worker, conn, exit_flag, thread_id, nodes, signals, ioctl_just_performed>>
    BY <1>3 DEF Accept, MainStep, apart
  <2>2. Head(queue) \in Client
    BY <2>1 DEF ThreadsInv, Shaped
  <2>3. PICK n \in FD : client_fd' = n /\ Install(n, "sock", Head(queue))
    BY <1>3 DEF Accept, Lowest
  <2>4. \A m \in FD : FileOK(fds'[m])
    BY <2>2, <2>3, InstallSized
  <2> QED
    BY <2>1, <2>2, <2>3, <2>4 DEF Sized, MainOK
<1>4. CASE DropClient
  <2>1. /\ main' = "check" /\ CloseFd(client_fd)
        /\ UNCHANGED <<pc, worker, exit_flag, locals, signals, ioctl_just_performed>>
    BY <1>4 DEF DropClient, MainStep, apart
  <2> QED
    BY <2>1, CloseFdSized DEF Sized, MainOK, locals, accepted
<1>5. CASE CreateThread
  <2> DEFINE a == client_addr
             w == [worker[a] EXCEPT !.client = client_fd]
  <2>1. /\ main = "create" /\ main' = "node" /\ thread_id' = a
        /\ UNCHANGED <<conn, fds, exit_flag, client_fd, client_addr, nodes, signals,
                       ioctl_just_performed>>
        /\ pc' = [pc EXCEPT ![a] = "open"] /\ worker' = [worker EXCEPT ![a] = w]
    BY <1>5 DEF CreateThread, MainStep, shared, network
  <2>2. a \in Client /\ worker[a] = NoWorker
    BY <2>1 DEF ThreadsInv, ServedOnce, Unserved
  <2>3. WorkerOK("open", w)
    BY <2>2, AesdSocketAssumption DEF WorkerOK, NoWorker, Sized, MainOK
  <2> HIDE DEF w
  <2>4. \A d \in Client : WorkerOK(pc'[d], worker'[d])
    BY <2>1, <2>2, <2>3 DEF ThreadsInv, Shaped, Sized
  <2> QED
    BY <2>1, <2>2, <2>4 DEF Sized, MainOK
<1>6. CASE Clean
  <2>1. /\ main' = "exited" /\ fds' = [n \in FD |-> NoFile]
        /\ conn' = [c \in Client |-> IF conn[c].up = "yes" THEN Over ELSE conn[c]]
        /\ UNCHANGED <<pc, worker, exit_flag, locals, signals, ioctl_just_performed>>
    BY <1>6 DEF Clean, MainStep, apart
  <2> QED
    BY <2>1, NothingYet DEF Sized, MainOK, locals, accepted
<1> QED
  BY <1>1, <1>2, <1>3, <1>4, <1>5, <1>6 DEF MainThread

LEMMA ClientKeepsSized ==
  ASSUME ThreadsInv, Sized, NEW c \in Client,
         Connect(c) \/ Deliver(c) \/ HangUp(c) \/ LocalWrite(c)
  PROVE  Sized'
<1>1. CASE Connect(c) \/ HangUp(c) \/ Deliver(c)
  <2>1. UNCHANGED <<pc, worker, main, fds, exit_flag, client_fd, client_addr, thread_id, nodes,
                    signals, ioctl_just_performed>>
    BY <1>1 DEF Connect, HangUp, Deliver, apart, process, locals, accepted, shared
  <2>2. \A d \in Client : ConnOK(d, conn'[d])
    <3>1. CASE Connect(c) \/ HangUp(c)
      <4>1. \A d \in Client : conn'[d].sent = conn[d].sent /\ conn'[d].taken = conn[d].taken
        BY <3>1 DEF Connect, HangUp, ThreadsInv, Shaped, IsConn, NoConn
      <4> QED
        BY <4>1 DEF Sized, ConnOK
    <3>2. CASE Deliver(c)
      <4>1. PICK n \in {conn[c].sent + 1, Len(Stream[c])} : conn' = [conn EXCEPT ![c].sent = n]
        BY <3>2 DEF Deliver
      <4>2. /\ conn[c].sent \in Nat /\ conn[c].taken \in Nat /\ conn[c].taken <= conn[c].sent
            /\ conn[c].sent < Len(Stream[c]) /\ Len(Stream[c]) \in Nat
        BY <3>2, AesdSocketAssumption DEF Deliver, Sized, ConnOK
      <4>3. n \in Nat /\ n > conn[c].sent /\ n <= Len(Stream[c])
        BY <4>2
      <4>4. \A d \in Client : /\ conn'[d].taken = conn[d].taken
                              /\ conn'[d].sent = IF d = c THEN n ELSE conn[d].sent
        BY <4>1 DEF ThreadsInv, Shaped, IsConn, NoConn
      <4> QED
        BY <4>2, <4>3, <4>4 DEF Sized, ConnOK
    <3> QED
      BY <1>1, <3>1, <3>2
  <2> QED
    BY <2>1, <2>2 DEF Sized, MainOK
<1>2. CASE LocalWrite(c)
  <2>1. /\ pc' = [pc EXCEPT ![c] = "done"]
        /\ UNCHANGED <<worker, main, fds, conn, exit_flag, client_fd, client_addr, thread_id,
                       nodes, signals, ioctl_just_performed>>
    BY <1>2 DEF LocalWrite, process, locals, accepted, shared, network
  <2>2. \A d \in Client : WorkerOK(pc'[d], worker'[d])
    BY <2>1 DEF ThreadsInv, Shaped, Sized, WorkerOK
  <2> QED
    BY <2>1, <2>2 DEF Sized, MainOK
<1> QED
  BY <1>1, <1>2

LEMMA NextKeepsSized == ThreadsInv /\ Sized /\ [Next]_vars => Sized'
<1> SUFFICES ASSUME ThreadsInv, Sized, [Next]_vars
             PROVE  Sized'
  OBVIOUS
<1>1. CASE UNCHANGED vars
  BY <1>1 DEF vars, process, locals, accepted, shared, network, Sized, MainOK
<1>2. CASE MainThread \/ SignalMain
  BY <1>2, MainKeepsSized
<1>3. ASSUME NEW c \in Client, Worker(c) \/ RespondFails(c) \/ Interrupted(c)
      PROVE  Sized'
  <2>1. CASE BrokenPipe(c)
    BY <2>1 DEF BrokenPipe, apart, process, locals, accepted, shared, network, Sized, MainOK
  <2>2. CASE ~BrokenPipe(c)
    BY <1>3, <2>2, ReceiveKeepsSized, FirstStepsKeepSized, CommandStepsKeepSized,
       ResponseStepsKeepSized DEF Worker, Interrupted
  <2> QED
    BY <2>1, <2>2
<1>4. ASSUME NEW c \in Client, Connect(c) \/ Deliver(c) \/ HangUp(c) \/ LocalWrite(c)
      PROVE  Sized'
  BY <1>4, ClientKeepsSized
<1> QED
  BY <1>1, <1>2, <1>3, <1>4 DEF Next

LEMMA SizedHolds == Spec => [](ThreadsInv /\ Sized)
<1>1. ThreadsInv /\ Sized /\ [Next]_vars => (ThreadsInv /\ Sized)'
  BY NextKeepsThreads, NextKeepsSized
<1> QED
  BY InitThreadsInv, InitSized, <1>1, PTL DEF Spec

\* The buffer is doubled in time: whatever the clients send and however the
\* network splits it, recv is never called without room, so that its result 0
\* always means the end of the connection.
THEOREM ServerHasRoom == Spec => []RoomToReceive
<1>1. Sized => RoomToReceive
  BY DEF Sized, WorkerOK, RoomToReceive
<1> QED
  BY SizedHolds, <1>1, PTL

-----------------------------------------------------------------------------
(* One worker at a time, as long as every thread gets a node.              *)

Serial ==
  ~Stopped =>
    /\ main \in {"check", "enter", "accept", "args", "create", "clean"} =>
         nodes = << >> /\ Running = {}
    /\ main = "node" => nodes = << >> /\ Running \subseteq {thread_id}
    /\ main \in {"join", "final_join"} =>
         Len(nodes) <= 1 /\ \A c \in Running : nodes # << >> /\ c = Head(nodes)

LEMMA InitSerial == Init => Serial
BY DEF Init, Serial, Running

LEMMA MainKeepsSerial ==
  ASSUME "node" \notin Faults, ThreadsInv, Sized, Serial, MainThread \/ SignalMain
  PROVE  Serial'
<1>1. CASE Check \/ EnterAccept \/ AcceptFails \/ MallocArgs \/ SignalMain \/ Accept \/ DropClient
           \/ Clean
  <2>1. UNCHANGED <<pc, nodes, thread_id>>
    BY <1>1 DEF Check, EnterAccept, AcceptFails, MallocArgs, SignalMain, Accept, DropClient, Clean,
                apart, process, locals, accepted
  <2>2. Running' = Running
    BY <2>1 DEF Running
  <2>3. CASE SignalMain
    BY <2>1, <2>2, <2>3 DEF SignalMain, Serial, Stopped
  <2>4. CASE ~SignalMain
    <3>1. /\ main \in {"check", "enter", "accept", "args", "create", "clean"}
          /\ main' \in {"check", "enter", "accept", "args", "create", "final_join", "exited"}
      BY <1>1, <2>4 DEF Check, EnterAccept, AcceptFails, MallocArgs, Accept, DropClient, Clean, MainStep
    <3>2. nodes = << >> /\ Running = {}
      BY <3>1 DEF Serial, Stopped
    <3> QED
      BY <2>1, <2>2, <3>1, <3>2 DEF Serial, Stopped
  <2> QED
    BY <2>3, <2>4
<1>2. CASE CreateThread
  <2>1. /\ main = "create" /\ main' = "node" /\ nodes' = nodes /\ thread_id' = client_addr
        /\ pc' = [pc EXCEPT ![client_addr] = "open"]
    BY <1>2 DEF CreateThread, MainStep
  <2>2. nodes = << >> /\ Running = {}
    BY <2>1 DEF Serial, Stopped
  <2>3. Running' \subseteq {client_addr}
    BY <2>1, <2>2 DEF Running, ThreadsInv, Shaped
  <2> QED
    BY <2>1, <2>2, <2>3 DEF Serial
<1>3. CASE ThreadNodeAdd
  <2>1. /\ main = "node" /\ main' = "join" /\ nodes' = << thread_id >> \o nodes /\ UNCHANGED pc
    BY <1>3 DEF ThreadNodeAdd, MainStep, apart
  <2>2. nodes = << >> /\ Running \subseteq {thread_id}
    BY <2>1 DEF Serial, Stopped
  <2>3. nodes' = << thread_id >>
    BY <2>1, <2>2
  <2> QED
    BY <2>1, <2>2, <2>3 DEF Serial, Running
<1>4. CASE ThreadJoin
  <2>1. /\ main \in {"join", "final_join"} /\ UNCHANGED pc
        /\ \/ nodes # << >> /\ pc[Head(nodes)] = "done" /\ nodes' = Tail(nodes) /\ main' = main
           \/ nodes = << >> /\ main' \in {"check", "clean"} /\ nodes' = nodes
    BY <1>4 DEF ThreadJoin, apart
  <2>2. Len(nodes) <= 1 /\ (\A c \in Running : nodes # << >> /\ c = Head(nodes)) /\ nodes \in Seq(Client)
    BY <2>1 DEF Serial, Stopped, Sized, MainOK
  <2>3. Running' = Running
    BY <2>1 DEF Running
  <2>4. CASE nodes # << >> /\ pc[Head(nodes)] = "done" /\ nodes' = Tail(nodes) /\ main' = main
    <3>1. Running = {}
      BY <2>2, <2>4 DEF Running
    <3>2. nodes' = << >>
      BY <2>2, <2>4
    <3> QED
      BY <2>1, <2>3, <2>4, <3>1, <3>2 DEF Serial
  <2>5. CASE nodes = << >> /\ main' \in {"check", "clean"} /\ nodes' = nodes
    BY <2>2, <2>3, <2>5 DEF Serial
  <2> QED
    BY <2>1, <2>4, <2>5
<1> QED
  BY <1>1, <1>2, <1>3, <1>4 DEF MainThread

LEMMA NextKeepsSerial ==
  ASSUME "node" \notin Faults, ThreadsInv, Sized, Serial, [Next]_vars
  PROVE  Serial'
<1>1. CASE UNCHANGED vars
  BY <1>1 DEF vars, process, locals, accepted, Serial, Stopped, Running
<1>2. CASE MainThread \/ SignalMain
  BY <1>2, MainKeepsSerial
<1>3. ASSUME NEW c \in Client, Worker(c) \/ RespondFails(c) \/ Interrupted(c)
      PROVE  Serial'
  <2>1. CASE BrokenPipe(c)
    BY <2>1 DEF BrokenPipe, Serial, Stopped
  <2>2. CASE ~BrokenPipe(c)
    <3>1. PICK label : WorkerMoves(c, label)
      BY <1>3, <2>2, WorkerStepsMove DEF ThreadsInv
    <3>2. Running' \subseteq Running /\ UNCHANGED <<main, nodes, thread_id>>
      BY <3>1 DEF WorkerMoves, Running, ThreadsInv, Shaped, locals, accepted
    <3> QED
      BY <3>2 DEF Serial, Stopped
  <2> QED
    BY <2>1, <2>2
<1>4. ASSUME NEW c \in Client, Connect(c) \/ Deliver(c) \/ HangUp(c) \/ LocalWrite(c)
      PROVE  Serial'
  <2>1. UNCHANGED <<main, nodes, thread_id>>
    BY <1>4 DEF Connect, Deliver, HangUp, LocalWrite, process, locals, accepted
  <2>2. pc' = pc \/ pc' = [pc EXCEPT ![c] = "done"]
    BY <1>4 DEF Connect, Deliver, HangUp, LocalWrite, apart
  <2>3. Running' \subseteq Running
    BY <2>2 DEF Running, ThreadsInv, Shaped
  <2> QED
    BY <2>1, <2>3 DEF Serial, Stopped
<1> QED
  BY <1>1, <1>2, <1>3, <1>4 DEF Next

\* The worker that runs, if any, is the only one.
LEMMA SerialIsOne ==
  ASSUME Serial, MainOK
  PROVE  OneWorkerAtATime
BY DEF Serial, MainOK, OneWorkerAtATime, Stopped

LEMMA SerialHolds ==
  ASSUME "node" \notin Faults
  PROVE  Spec => [](ThreadsInv /\ Sized /\ Serial)
<1>1. ThreadsInv /\ Sized /\ Serial /\ [Next]_vars => (ThreadsInv /\ Sized /\ Serial)'
  BY NextKeepsThreads, NextKeepsSized, NextKeepsSerial
<1> QED
  BY InitThreadsInv, InitSized, InitSerial, <1>1, PTL DEF Spec

\* While thread_node_add finds memory for its node, main joins every thread
\* before it accepts the next client: at most one worker runs, and only while
\* main waits for it.
THEOREM ServerIsSerial ==
  ASSUME "node" \notin Faults
  PROVE  Spec => []OneWorkerAtATime
<1>1. Sized /\ Serial => OneWorkerAtATime
  BY SerialIsOne DEF Sized
<1> QED
  BY SerialHolds, <1>1, PTL

-----------------------------------------------------------------------------
(* Descriptors.                                                            *)

Own(F, n, kind, c) == F[n].kind = kind /\ F[n].who = c

\* The descriptors of worker c at label l, in table F: its socket and its file
\* are its own, nothing else is open, and the file is the lowest descriptor
\* that was free, so that closing and reopening it gives it the same number.
\* It waits in no connection but its own.
Owns(F, c, l, w) ==
  /\ w.in = 0 \/ (w.in = c /\ l = "recv")
  /\ F[0].kind = "listen" /\ Own(F, w.client, "sock", c)
  /\ l = "open" => w.file = 0
  /\ l \in {"recv", "command", "respond"} => Own(F, w.file, "dev", c)
  /\ l \in {"read", "send"} => w.again = w.file /\ Own(F, w.file, "dev", c)
  /\ l = "reopen" => F[w.file].kind = "free"
  /\ l \in {"recv", "command", "respond", "reopen"} =>
       \A m \in FD : m < w.file => F[m].kind # "free"
  /\ l = "close_file" => F[w.file].kind = "free" \/ Own(F, w.file, "dev", c)
  /\ \A n \in FD : F[n].kind # "free" =>
       n = 0 \/ n = w.client \/ (n = w.file /\ l # "close_client")

\* The descriptors when no worker runs: at most that of the client to be handed over.
MainOwns ==
  /\ fds[0].kind = "listen"
  /\ main \in {"args", "create"} => Own(fds, client_fd, "sock", client_addr)
  /\ \A n \in FD : fds[n].kind # "free" => n = 0 \/ (n = client_fd /\ main \in {"args", "create"})

OwnsFds ==
  ~Stopped => /\ Running = {} => MainOwns
              /\ \A c \in Running : Owns(fds, c, pc[c], worker[c])
              /\ \A c \in Client \ Running : worker[c].in = 0

LEMMA InitOwnsFds == Init => OwnsFds
<1> SUFFICES ASSUME Init
             PROVE  MainOwns /\ Running = {} /\ \A c \in Client : worker[c].in = 0
  BY DEF OwnsFds
<1>1. \A n \in FD : fds[n].kind = IF n = 0 THEN "listen" ELSE "free"
  BY DEF Init, NoFile
<1> QED
  BY <1>1, AesdSocketAssumption DEF Init, MainOwns, Running, NoWorker

LEMMA OwnsIsSafe ==
  ASSUME Sized, Serial, OwnsFds
  PROVE  DescriptorsAreOwn /\ NoDescriptorLeak
<1>1. DescriptorsAreOwn
  BY DEF OwnsFds, Owns, Own, DescriptorsAreOwn
<1>2. ASSUME ~Stopped, NEW n \in FD, fds[n].kind # "free"
      PROVE  \/ n = 0
             \/ n = client_fd /\ main \in {"args", "create"}
             \/ \E c \in Running : \/ n = worker[c].client
                                   \/ n = worker[c].file /\ pc[c] # "close_client"
  <2>1. CASE Running = {}
    BY <1>2, <2>1 DEF OwnsFds, MainOwns
  <2>2. CASE Running # {}
    <3>1. PICK c \in Running : Owns(fds, c, pc[c], worker[c])
      BY <1>2, <2>2 DEF OwnsFds
    <3> QED
      BY <1>2, <3>1 DEF Owns
  <2> QED
    BY <2>1, <2>2
<1> QED
  BY <1>1, <1>2 DEF NoDescriptorLeak

\* The facts every step of a worker starts from.
LEMMA AtWork ==
  ASSUME ThreadsInv, Sized, Serial, OwnsFds, ~Stopped, NEW c \in Client,
         pc[c] \notin {"none", "done"}
  PROVE  /\ Running = {c} /\ Owns(fds, c, pc[c], worker[c])
         /\ IsWorker(worker[c]) /\ WorkerOK(pc[c], worker[c])
         /\ main \in {"node", "join", "final_join"}
         /\ 0 \in FD /\ FD \subseteq Nat
<1>1. c \in Running
  BY DEF Running
<1>2. OneWorkerAtATime
  BY SerialIsOne DEF Sized
<1> QED
  BY <1>1, <1>2, AesdSocketAssumption DEF OneWorkerAtATime, OwnsFds, ThreadsInv, Shaped, Sized

\* Alone, a worker receives from its own client and reads from the device, and
\* no connection outlives the descriptor by which the process refers to it.
LEMMA Alone ==
  ASSUME ThreadsInv, Sized, Serial, OwnsFds, ~Stopped, NEW c \in Client,
         pc[c] \notin {"none", "done"}
  PROVE  /\ Left(c) = conn /\ ~IsLast(c)
         /\ pc[c] = "recv" => Source(c) = c
         /\ pc[c] = "read" => Source(c) = 0
         /\ pc[c] = "command" => fds[worker[c].file].kind = "dev"
         /\ ~ReadSocket(c) /\ ~WriteSocket(c)
         /\ \A d \in Client : d # c \/ pc[c] # "recv" => worker[d].in = 0
<1>1. /\ Running = {c} /\ Owns(fds, c, pc[c], worker[c]) /\ WorkerOK(pc[c], worker[c])
      /\ \A d \in Client \ {c} : worker[d].in = 0
  BY AtWork DEF OwnsFds
<1>2. /\ worker[c].in = 0 \/ (worker[c].in = c /\ pc[c] = "recv")
      /\ worker[c].client \in FD /\ Own(fds, worker[c].client, "sock", c)
      /\ pc[c] = "command" => Own(fds, worker[c].file, "dev", c)
      /\ pc[c] = "read" => Own(fds, worker[c].again, "dev", c)
  BY <1>1 DEF Owns, WorkerOK
<1>3. ~IsLast(c)
  BY <1>2 DEF IsLast, Own
<1>4. /\ pc[c] = "recv" => Source(c) = c
      /\ pc[c] = "read" => Source(c) = 0
  BY <1>2 DEF Source, Input, Own
<1>5. ~ReadSocket(c)
  BY <1>4 DEF ReadSocket, Take
<1>6. ~WriteSocket(c)
  BY <1>2 DEF WriteSocket, Own
<1> QED
  BY <1>1, <1>2, <1>3, <1>4, <1>5, <1>6 DEF Left, Own

\* A step of the worker that keeps running.
LEMMA StepOwns ==
  ASSUME ThreadsInv, Sized, Serial, OwnsFds, NEW c \in Client, NEW from, NEW to, NEW w,
         from \notin {"none", "done"}, to \notin {"none", "done"},
         Move(c, from, to, w), Owns(fds', c, to, w)
  PROVE  OwnsFds'
<1>1. Running = {c}
  BY AtWork DEF Move
<1>2. pc'[c] = to /\ worker'[c] = w /\ Running' = {c}
  BY <1>1 DEF Move, Running, ThreadsInv, Shaped
<1>3. \A d \in Client \ {c} : worker'[d].in = 0
  BY <1>1 DEF Move, OwnsFds, ThreadsInv, Shaped
<1> QED
  BY <1>2, <1>3 DEF OwnsFds

LEMMA FirstStepsOwn ==
  ASSUME ThreadsInv, Sized, Serial, OwnsFds, NEW c \in Client,
         \/ OpenDevice(c) \/ OpenDeviceFails(c) \/ Blocks(c) \/ Receive(c) \/ ReceiveFails(c)
         \/ ReceiveInterrupted(c) \/ CloseFile(c) \/ CloseClient(c)
  PROVE  OwnsFds'
<1>1. ~Stopped /\ pc[c] \notin {"none", "done"}
  BY DEF OpenDevice, OpenDeviceFails, Blocks, Waits, Receive, ReceiveFails, ReceiveInterrupted,
         CloseFile, CloseClient, Move
<1>2. /\ Running = {c} /\ Owns(fds, c, pc[c], worker[c])
      /\ IsWorker(worker[c]) /\ WorkerOK(pc[c], worker[c])
      /\ main \in {"node", "join", "final_join"}
      /\ 0 \in FD /\ FD \subseteq Nat
  BY <1>1, AtWork
<1>3. CASE OpenDevice(c)
  <2>1. PICK n \in Lowest : /\ Install(n, "dev", c)
                            /\ Move(c, "open", "recv", [worker[c] EXCEPT !.file = n])
    BY <1>3 DEF OpenDevice
  <2>2. /\ n \in FD /\ fds[n].kind = "free" /\ \A m \in FD : m < n => fds[m].kind # "free"
    BY <2>1 DEF Lowest
  <2>3. /\ \A m \in FD : m # n => fds'[m] = fds[m]
        /\ fds'[n].kind = "dev" /\ fds'[n].who = c
    BY <2>1, <2>2 DEF Install, ThreadsInv, Shaped
  <2>4. Owns(fds', c, "recv", [worker[c] EXCEPT !.file = n])
    BY <1>2, <2>1, <2>2, <2>3 DEF Owns, Own, IsWorker, NoWorker, WorkerOK, Move
  <2> QED
    BY <2>1, <2>4, StepOwns
<1>4. CASE OpenDeviceFails(c)
  <2>1. Move(c, "open", "close_client", worker[c]) /\ UNCHANGED fds
    BY <1>4 DEF OpenDeviceFails, process, shared
  <2>2. Owns(fds', c, "close_client", worker[c])
    BY <1>2, <2>1 DEF Owns, Own, Move
  <2> QED
    BY <2>1, <2>2, StepOwns
<1>5. CASE Receive(c)
  <2>1. UNCHANGED fds /\ pc[c] = "recv"
    BY <1>5 DEF Receive, Take, Move, process, shared
  <2> DEFINE v == [worker[c] EXCEPT !.in = 0]
  <2>2. IsWorker(v) /\ v.client = worker[c].client /\ v.file = worker[c].file /\ v.in = 0
    BY <1>2, WorkerKept DEF IsWorker, NoWorker
  <2>3. PICK to, b, z : /\ \/ Move(c, "recv", to, [v EXCEPT !.buf = b])
                           \/ Move(c, "recv", to, [v EXCEPT !.buf = b, !.size = z])
                        /\ to \in {"recv", "command", "close_file"}
    BY ZenonT(40), <1>5 DEF Receive
  <2> HIDE DEF v
  <2>4. PICK w : /\ Move(c, "recv", to, w) /\ to \in {"recv", "command", "close_file"}
                 /\ w.client = worker[c].client /\ w.file = worker[c].file /\ w.in = 0
    <3>1. \A w \in {[v EXCEPT !.buf = b], [v EXCEPT !.buf = b, !.size = z]} :
            w.client = worker[c].client /\ w.file = worker[c].file /\ w.in = 0
      BY <2>2 DEF IsWorker, NoWorker
    <3> QED
      BY <2>3, <3>1
  <2>5. Owns(fds', c, to, w)
    BY <1>2, <2>1, <2>4 DEF Owns, Own
  <2> QED
    BY <2>4, <2>5, StepOwns
<1>6. CASE ReceiveFails(c) \/ ReceiveInterrupted(c)
  <2>1. UNCHANGED fds /\ Move(c, "recv", "close_file", [worker[c] EXCEPT !.buf = << >>, !.in = 0])
    BY <1>6 DEF ReceiveFails, ReceiveInterrupted, process, shared
  <2>2. Owns(fds', c, "close_file", [worker[c] EXCEPT !.buf = << >>, !.in = 0])
    BY <1>2, <2>1 DEF Owns, Own, IsWorker, NoWorker, Move
  <2> QED
    BY <2>1, <2>2, StepOwns
<1>9. CASE Blocks(c)
  <2>1. UNCHANGED fds /\ Move(c, pc[c], pc[c], [worker[c] EXCEPT !.in = Source(c)])
    BY <1>9 DEF Blocks, process, shared
  <2>2. pc[c] = "recv" /\ Source(c) = c
    BY <1>1, <1>9, Alone DEF Blocks, Waits
  <2>3. Owns(fds', c, "recv", [worker[c] EXCEPT !.in = c])
    BY <1>2, <2>1, <2>2 DEF Owns, Own, IsWorker, NoWorker
  <2> QED
    BY <2>1, <2>2, <2>3, StepOwns
<1>7. CASE CloseFile(c)
  <2> DEFINE f == worker[c].file
  <2>1. /\ Move(c, "close_file", "close_client", worker[c]) /\ pc[c] = "close_file"
        /\ fds' = [fds EXCEPT ![f] = NoFile]
    BY <1>7 DEF CloseFile, CloseFd, Move
  <2>2. /\ f \in FD /\ \A m \in FD : m # f => fds'[m] = fds[m]
        /\ fds'[f].kind = "free"
    BY <1>2, <2>1 DEF WorkerOK, ThreadsInv, Shaped, NoFile
  <2>3. Owns(fds', c, "close_client", worker[c])
    BY <1>2, <2>1, <2>2 DEF Owns, Own, WorkerOK
  <2>4. Move(c, "close_file", "close_client", worker[c])
    BY <2>1
  <2> QED
    BY <2>3, <2>4, StepOwns
<1>8. CASE CloseClient(c)
  <2> DEFINE s == worker[c].client
  <2>1. /\ fds' = [fds EXCEPT ![s] = NoFile] /\ pc[c] = "close_client"
        /\ pc' = [pc EXCEPT ![c] = "done"] /\ main' = main
    BY <1>8 DEF CloseClient, CloseFd, Move, around
  <2>2. /\ s \in FD /\ \A m \in FD : m # s => fds'[m] = fds[m]
        /\ fds'[s].kind = "free"
    BY <1>2, <2>1 DEF WorkerOK, ThreadsInv, Shaped, NoFile
  <2>3. Running' = {}
    BY <1>2, <2>1 DEF Running, ThreadsInv, Shaped
  <2>4. MainOwns'
    BY <1>2, <2>1, <2>2 DEF Owns, Own, MainOwns
  <2>5. \A d \in Client : worker'[d].in = 0
    <3>1. worker' = [worker EXCEPT ![c] = NoWorker]
      BY <1>8 DEF CloseClient, Move
    <3> QED
      BY <1>1, <2>1, <3>1, Alone DEF NoWorker, ThreadsInv, Shaped
  <2> QED
    BY <2>3, <2>4, <2>5 DEF OwnsFds
<1> QED
  BY <1>3, <1>4, <1>5, <1>6, <1>7, <1>8, <1>9

LEMMA CommandStepsOwn ==
  ASSUME ThreadsInv, Sized, Serial, OwnsFds, NEW c \in Client,
         \/ SeekCommand(c) \/ WriteCommand(c) \/ WriteSocket(c) \/ CommandFails(c)
         \/ Respond(c) \/ RespondFails(c)
  PROVE  OwnsFds'
<1>1. ~Stopped /\ pc[c] \notin {"none", "done"}
  BY ZenonT(40) DEF SeekCommand, WriteCommand, WriteSocket, CommandFails, Respond, RespondFails, Move
<1>2. /\ Running = {c} /\ Owns(fds, c, pc[c], worker[c])
      /\ IsWorker(worker[c]) /\ WorkerOK(pc[c], worker[c])
      /\ main \in {"node", "join", "final_join"}
      /\ 0 \in FD /\ FD \subseteq Nat
  BY <1>1, AtWork
<1>3. CASE SeekCommand(c)
  <2>1. PICK to, v : /\ fds' = [fds EXCEPT ![worker[c].file].pos = to] /\ pc[c] = "command"
                     /\ Move(c, "command", "respond", [worker[c] EXCEPT !.buf = << >>, !.expect = v])
    BY ZenonT(40), <1>3 DEF SeekCommand
  <2>2. \A m \in FD : fds'[m].kind = fds[m].kind /\ fds'[m].who = fds[m].who
    BY <2>1 DEF ThreadsInv, Shaped, IsFile, NoFile
  <2>3. Owns(fds', c, "respond", [worker[c] EXCEPT !.buf = << >>, !.expect = v])
    BY <1>2, <2>1, <2>2 DEF Owns, Own, IsWorker, NoWorker, WorkerOK
  <2>4. Move(c, "command", "respond", [worker[c] EXCEPT !.buf = << >>, !.expect = v])
    BY <2>1
  <2> QED
    BY SMTT(40), <2>3, <2>4, StepOwns
<1>4. CASE WriteCommand(c)
  <2>1. PICK v : /\ UNCHANGED fds /\ pc[c] = "command"
                 /\ Move(c, "command", "respond", [worker[c] EXCEPT !.buf = << >>, !.expect = v])
    BY ZenonT(40), <1>4 DEF WriteCommand
  <2>2. Owns(fds', c, "respond", [worker[c] EXCEPT !.buf = << >>, !.expect = v])
    BY <1>2, <2>1 DEF Owns, Own, IsWorker, NoWorker
  <2> QED
    BY <2>1, <2>2, StepOwns
<1>5. CASE CommandFails(c)
  <2>1. /\ UNCHANGED fds /\ pc[c] = "command"
        /\ Move(c, "command", "close_file", [worker[c] EXCEPT !.buf = << >>])
    BY <1>5 DEF CommandFails, process, shared
  <2>2. Owns(fds', c, "close_file", [worker[c] EXCEPT !.buf = << >>])
    BY <1>2, <2>1 DEF Owns, Own, IsWorker, NoWorker
  <2> QED
    BY <2>1, <2>2, StepOwns
<1>6. CASE Respond(c) /\ KeepPosition
  <2>1. /\ UNCHANGED fds /\ pc[c] = "respond"
        /\ Move(c, "respond", "read", [worker[c] EXCEPT !.again = worker[c].file])
    BY <1>6 DEF Respond, Move
  <2>2. Owns(fds', c, "read", [worker[c] EXCEPT !.again = worker[c].file])
    BY <1>2, <2>1 DEF Owns, Own, IsWorker, NoWorker
  <2> QED
    BY <2>1, <2>2, StepOwns
<1>7. CASE Respond(c) /\ ~KeepPosition
  <2> DEFINE f == worker[c].file
  <2>1. /\ fds' = [fds EXCEPT ![f] = NoFile] /\ pc[c] = "respond"
        /\ Move(c, "respond", "reopen", worker[c])
    BY <1>7 DEF Respond, Move, CloseFd
  <2>2. /\ f \in FD /\ \A m \in FD : m # f => fds'[m] = fds[m]
        /\ fds'[f].kind = "free"
    BY <1>2, <2>1 DEF WorkerOK, ThreadsInv, Shaped, NoFile
  <2>3. Owns(fds', c, "reopen", worker[c])
    BY <1>2, <2>1, <2>2 DEF Owns, Own, WorkerOK
  <2>4. Move(c, "respond", "reopen", worker[c])
    BY <2>1
  <2> QED
    BY <2>3, <2>4, StepOwns
<1>8. CASE RespondFails(c)
  <2>1. UNCHANGED fds /\ pc[c] = "respond" /\ Move(c, "respond", "close_file", worker[c])
    BY <1>8 DEF RespondFails, process, shared, Move
  <2>2. Owns(fds', c, "close_file", worker[c])
    BY <1>2, <2>1 DEF Owns, Own
  <2> QED
    BY <2>1, <2>2, StepOwns
<1> QED
  BY SMTT(40), <1>1, <1>3, <1>4, <1>5, <1>6, <1>7, <1>8, Alone

LEMMA ResponseStepsOwn ==
  ASSUME ThreadsInv, Sized, Serial, OwnsFds, NEW c \in Client,
         \/ Reopen(c) \/ ReopenFails(c) \/ ReadChunk(c) \/ ReadSocket(c)
         \/ ReadEnd(c) \/ ReadInterrupted(c)
         \/ Send(c) \/ SendFails(c) \/ SendInterrupted(c)
  PROVE  OwnsFds'
<1>1. ~Stopped /\ pc[c] \notin {"none", "done"}
  BY ZenonT(40) DEF Reopen, ReopenFails, ReadChunk, ReadSocket, ReadEnd, ReadInterrupted, Responded, Send, SendFails,
         SendInterrupted, Move
<1>2. /\ Running = {c} /\ Owns(fds, c, pc[c], worker[c])
      /\ IsWorker(worker[c]) /\ WorkerOK(pc[c], worker[c])
      /\ main \in {"node", "join", "final_join"}
      /\ 0 \in FD /\ FD \subseteq Nat
  BY <1>1, AtWork
<1>3. CASE Reopen(c)
  <2>1. PICK n \in Lowest : /\ Install(n, "dev", c) /\ pc[c] = "reopen"
                            /\ Move(c, "reopen", "read", [worker[c] EXCEPT !.again = n])
    BY <1>3 DEF Reopen, Move
  <2>2. /\ n \in FD /\ fds[n].kind = "free" /\ \A m \in FD : m < n => fds[m].kind # "free"
    BY <2>1 DEF Lowest
  <2>3. n = worker[c].file
    <3>1. /\ worker[c].file \in FD /\ fds[worker[c].file].kind = "free"
          /\ \A m \in FD : m < worker[c].file => fds[m].kind # "free"
      BY <1>2, <2>1 DEF Owns, WorkerOK
    <3>2. ~(n < worker[c].file) /\ ~(worker[c].file < n)
      BY <2>2, <3>1
    <3>3. n \in Nat /\ worker[c].file \in Nat
      BY <1>2, <2>2, <3>1
    <3> QED
      BY <3>2, <3>3
  <2>4. /\ \A m \in FD : m # n => fds'[m] = fds[m]
        /\ fds'[n].kind = "dev" /\ fds'[n].who = c
    BY <2>1, <2>2 DEF Install, ThreadsInv, Shaped
  <2>5. Owns(fds', c, "read", [worker[c] EXCEPT !.again = n])
    BY <1>2, <2>1, <2>2, <2>3, <2>4 DEF Owns, Own, IsWorker, NoWorker, WorkerOK
  <2> QED
    BY <2>1, <2>5, StepOwns
<1>4. CASE ReopenFails(c)
  <2>1. UNCHANGED fds /\ pc[c] = "reopen" /\ Move(c, "reopen", "close_file", worker[c])
    BY <1>4 DEF ReopenFails, Move
  <2>2. Owns(fds', c, "close_file", worker[c])
    BY <1>2, <2>1 DEF Owns, Own
  <2> QED
    BY <2>1, <2>2, StepOwns
<1>5. CASE ReadChunk(c)
  <2>1. PICK n, to, v : /\ fds' = [fds EXCEPT ![n].pos = to] /\ pc[c] = "read"
                        /\ Move(c, "read", "send", [worker[c] EXCEPT !.chunk = v])
    BY <1>5 DEF ReadChunk, Move
  <2>2. \A m \in FD : fds'[m].kind = fds[m].kind /\ fds'[m].who = fds[m].who
    BY <2>1 DEF ThreadsInv, Shaped, IsFile, NoFile
  <2>3. Owns(fds', c, "send", [worker[c] EXCEPT !.chunk = v])
    BY <1>2, <2>1, <2>2 DEF Owns, Own, IsWorker, NoWorker, WorkerOK
  <2>4. Move(c, "read", "send", [worker[c] EXCEPT !.chunk = v])
    BY <2>1
  <2> QED
    BY <2>3, <2>4, StepOwns
<1>6. CASE ReadEnd(c) \/ ReadInterrupted(c)
  <2>1. /\ UNCHANGED fds /\ pc[c] = "read"
        /\ Move(c, "read", "close_file", [worker[c] EXCEPT !.ok = TRUE, !.in = 0])
    BY <1>6 DEF ReadEnd, ReadInterrupted, Responded, Move
  <2>2. Owns(fds', c, "close_file", [worker[c] EXCEPT !.ok = TRUE, !.in = 0])
    BY <1>2, <2>1 DEF Owns, Own, IsWorker, NoWorker
  <2> QED
    BY <2>1, <2>2, StepOwns
<1>7. CASE Send(c) \/ SendInterrupted(c)
  <2>1. /\ UNCHANGED fds /\ pc[c] = "send"
        /\ Move(c, "send", "read", [worker[c] EXCEPT !.chunk = << >>])
    BY ZenonT(40), <1>7 DEF Send, SendInterrupted, Move, process, shared
  <2>2. Owns(fds', c, "read", [worker[c] EXCEPT !.chunk = << >>])
    BY <1>2, <2>1 DEF Owns, Own, IsWorker, NoWorker
  <2> QED
    BY SMTT(40), <2>1, <2>2, StepOwns
<1>8. CASE SendFails(c)
  <2>1. /\ UNCHANGED fds /\ pc[c] = "send"
        /\ Move(c, "send", "close_file", [worker[c] EXCEPT !.chunk = << >>])
    BY <1>8 DEF SendFails, Move
  <2>2. Owns(fds', c, "close_file", [worker[c] EXCEPT !.chunk = << >>])
    BY <1>2, <2>1 DEF Owns, Own, IsWorker, NoWorker
  <2> QED
    BY <2>1, <2>2, StepOwns
<1> QED
  BY SMTT(40), <1>1, <1>3, <1>4, <1>5, <1>6, <1>7, <1>8, Alone

LEMMA MainOwnsFds ==
  ASSUME ThreadsInv, Sized, Serial, OwnsFds, MainThread \/ SignalMain
  PROVE  OwnsFds'
<1>1. CASE Check \/ EnterAccept \/ AcceptFails \/ MallocArgs \/ ThreadNodeAdd \/ ThreadJoin
           \/ SignalMain
  <2>1. /\ UNCHANGED <<pc, worker, fds, client_fd, client_addr>>
        /\ ~Stopped
        /\ main' \in {"args", "create"} <=> main \in {"args", "create"}
    BY <1>1 DEF Check, EnterAccept, AcceptFails, MallocArgs, ThreadNodeAdd, ThreadJoin,
                SignalMain, MainStep, apart, process, locals, accepted, shared, Stopped
  <2>2. Running' = Running
    BY <2>1 DEF Running
  <2> QED
    BY <2>1, <2>2 DEF OwnsFds, MainOwns
<1>2. CASE Accept
  <2>1.  /\ main = "accept" /\ main' = "args" /\ client_addr' = Head(queue)
        /\ UNCHANGED <<pc, worker>>
    BY <1>2 DEF Accept, MainStep, apart
  <2>2. PICK n \in Lowest : client_fd' = n /\ Install(n, "sock", Head(queue))
    BY <1>2 DEF Accept
  <2>3. n \in FD /\ fds[n].kind = "free"
    BY <2>2 DEF Lowest
  <2>4. /\ \A m \in FD : m # n => fds'[m] = fds[m]
        /\ fds'[n].kind = "sock" /\ fds'[n].who = Head(queue)
    BY <2>2, <2>3 DEF Install, ThreadsInv, Shaped
  <2>5. Running = {} /\ MainOwns
    BY <2>1 DEF Serial, OwnsFds, Stopped
  <2>6. Running' = {}
    BY <2>1, <2>5 DEF Running
  <2>7. 0 \in FD
    BY AesdSocketAssumption
  <2>8. MainOwns'
    BY <2>1, <2>2, <2>3, <2>4, <2>5, <2>7 DEF MainOwns, Own
  <2> QED
    BY <2>1, <2>5, <2>6, <2>8 DEF OwnsFds, Stopped
<1>3. CASE DropClient
  <2>1. /\ main \in {"args", "create"} /\ main' = "check" /\ UNCHANGED <<pc, worker, client_fd>>
        /\ fds' = [fds EXCEPT ![client_fd] = NoFile]
    BY <1>3 DEF DropClient, MainStep, apart, locals, accepted, CloseFd
  <2>2. client_fd \in FD /\ 0 \in FD
    BY AesdSocketAssumption DEF Sized, MainOK
  <2>3. /\ \A m \in FD : m # client_fd => fds'[m] = fds[m]
        /\ fds'[client_fd].kind = "free"
    BY <2>1, <2>2 DEF NoFile, ThreadsInv, Shaped
  <2>4. Running = {} /\ MainOwns
    BY <2>1 DEF Serial, OwnsFds, Stopped
  <2>5. Running' = {}
    BY <2>1, <2>4 DEF Running
  <2>6. MainOwns'
    BY <2>1, <2>2, <2>3, <2>4 DEF MainOwns, Own
  <2> QED
    BY <2>1, <2>4, <2>5, <2>6 DEF OwnsFds, Stopped
<1>4. CASE CreateThread
  <2> DEFINE a == client_addr
             w == [worker[a] EXCEPT !.client = client_fd]
  <2>1. /\ main = "create" /\ main' = "node" /\ UNCHANGED fds
        /\ pc' = [pc EXCEPT ![a] = "open"] /\ worker' = [worker EXCEPT ![a] = w]
    BY <1>4 DEF CreateThread, MainStep, shared
  <2>2. a \in Client /\ worker[a] = NoWorker
    BY <2>1 DEF ThreadsInv, ServedOnce, Unserved
  <2>3. Running = {} /\ MainOwns
    BY <2>1 DEF Serial, OwnsFds, Stopped
  <2>4. w.client = client_fd /\ w.file = 0 /\ w.in = 0
    BY <2>2 DEF NoWorker
  <2> HIDE DEF w
  <2>5. Running' = {a} /\ pc'[a] = "open" /\ worker'[a] = w
    BY <2>1, <2>2, <2>3 DEF Running, ThreadsInv, Shaped
  <2>6. Owns(fds', a, "open", w)
    BY <2>1, <2>3, <2>4 DEF Owns, Own, MainOwns
  <2>7. \A d \in Client \ {a} : worker'[d].in = 0
    BY <2>1, <2>3 DEF OwnsFds, Stopped, ThreadsInv, Shaped
  <2> QED
    BY <2>5, <2>6, <2>7 DEF OwnsFds
<1>5. CASE Clean
  BY <1>5 DEF Clean, MainStep, OwnsFds, Stopped
<1> QED
  BY <1>1, <1>2, <1>3, <1>4, <1>5 DEF MainThread

LEMMA NextKeepsOwnsFds ==
  ASSUME ThreadsInv, Sized, Serial, OwnsFds, [Next]_vars
  PROVE  OwnsFds'
<1>1. CASE UNCHANGED vars
  BY <1>1 DEF vars, process, locals, accepted, shared, OwnsFds, MainOwns, Stopped, Running
<1>2. CASE MainThread \/ SignalMain
  BY <1>2, MainOwnsFds
<1>3. ASSUME NEW c \in Client, Worker(c) \/ RespondFails(c) \/ Interrupted(c)
      PROVE  OwnsFds'
  <2>1. CASE BrokenPipe(c)
    BY <2>1 DEF BrokenPipe, OwnsFds, Stopped
  <2>2. CASE ~BrokenPipe(c)
    BY <1>3, <2>2, FirstStepsOwn, CommandStepsOwn, ResponseStepsOwn DEF Worker, Interrupted
  <2> QED
    BY <2>1, <2>2
<1>4. ASSUME NEW c \in Client, Connect(c) \/ Deliver(c) \/ HangUp(c) \/ LocalWrite(c)
      PROVE  OwnsFds'
  <2>1. UNCHANGED <<main, worker, fds, client_fd, client_addr>>
    BY <1>4 DEF Connect, Deliver, HangUp, LocalWrite, apart, process, locals, accepted, shared
  <2>2. pc' = pc \/ (pc[c] = "none" /\ pc' = [pc EXCEPT ![c] = "done"])
    BY <1>4 DEF Connect, Deliver, HangUp, LocalWrite, apart
  <2>3. Running' = Running /\ \A d \in Running : pc'[d] = pc[d]
    BY <2>2 DEF Running, ThreadsInv, Shaped
  <2> QED
    BY <2>1, <2>3 DEF OwnsFds, MainOwns, Stopped
<1> QED
  BY <1>1, <1>2, <1>3, <1>4 DEF Next

ServerInv == ThreadsInv /\ Sized /\ Serial /\ OwnsFds

LEMMA ServerInvHolds ==
  ASSUME "node" \notin Faults
  PROVE  Spec => []ServerInv
<1>1. Init => ServerInv
  BY InitThreadsInv, InitSized, InitSerial, InitOwnsFds DEF ServerInv
<1>2. ServerInv /\ [Next]_vars => ServerInv'
  BY NextKeepsThreads, NextKeepsSized, NextKeepsSerial, NextKeepsOwnsFds DEF ServerInv
<1> QED
  BY <1>1, <1>2, PTL DEF Spec

\* A worker uses only descriptors it opened itself, although
\* return_socketdata_to_client closes and reopens the device behind the back
\* of thread_operation: the reopen gets the same number, because nobody else
\* opens a descriptor meanwhile.
THEOREM ServerUsesOwnDescriptors ==
  ASSUME "node" \notin Faults
  PROVE  Spec => []DescriptorsAreOwn
<1>1. ServerInv => DescriptorsAreOwn
  BY OwnsIsSafe DEF ServerInv
<1> QED
  BY ServerInvHolds, <1>1, PTL

\* No path through main or a worker loses a descriptor, whatever fails.
THEOREM ServerLeaksNoDescriptor ==
  ASSUME "node" \notin Faults
  PROVE  Spec => []NoDescriptorLeak
<1>1. ServerInv => NoDescriptorLeak
  BY OwnsIsSafe DEF ServerInv
<1> QED
  BY ServerInvHolds, <1>1, PTL

-----------------------------------------------------------------------------
(* What is stored.                                                         *)

\* The buffer of a worker holds what was received from its client, from the
\* first byte on, and it does so with a newline when the command is carried out.
Buffered ==
  \A c \in Client :
    /\ pc[c] \in {"none", "open"} => conn[c].taken = 0
    /\ ~Stopped /\ pc[c] \in {"recv", "command"} =>
         worker[c].buf = SubSeq(Stream[c], 1, conn[c].taken)
    /\ pc[c] = "command" => Device!Complete(worker[c].buf)

LEMMA InitBuffered == Init => Buffered
BY DEF Init, Buffered, NoConn

\* s up to n is s up to m and what follows.
Parts(s, m, n) == s \in Seq(Nat) /\ m \in Nat /\ n \in Nat /\ m <= n /\ n <= Len(s)

Whole(s, m, n) == SubSeq(s, 1, m) \o SubSeq(s, m + 1, n) = SubSeq(s, 1, n)

\* Receiving the next bytes of a stream.
LEMMA Extended ==
  ASSUME NEW s, NEW m, NEW n, Parts(s, m, n)
  PROVE  Whole(s, m, n)
<1> s \in Seq(Nat) /\ m \in Nat /\ n \in Nat /\ m <= n /\ n <= Len(s)
  BY DEF Parts
<1> DEFINE a == SubSeq(s, 1, m)
           b == SubSeq(s, m + 1, n)
           t == SubSeq(s, 1, n)
<1>0. Len(s) \in Nat /\ \A i \in 1..n : s[i] \in Nat
  OBVIOUS
<1>1. a \in Seq(Nat) /\ Len(a) = m /\ \A i \in 1..m : a[i] = s[i]
  BY <1>0
<1>2. b \in Seq(Nat) /\ Len(b) = n - m /\ \A i \in 1..(n - m) : b[i] = s[m + i]
  BY <1>0
<1>3. t \in Seq(Nat) /\ Len(t) = n /\ \A i \in 1..n : t[i] = s[i]
  BY <1>0
<1> HIDE DEF a, b, t
<1>4. /\ a \o b \in Seq(Nat) /\ Len(a \o b) = n
      /\ \A i \in 1..n : (a \o b)[i] = IF i <= m THEN a[i] ELSE b[i - m]
  <2>1. /\ a \o b \in Seq(Nat) /\ Len(a \o b) = Len(a) + Len(b)
        /\ \A i \in 1..(Len(a) + Len(b)) :
             (a \o b)[i] = IF i <= Len(a) THEN a[i] ELSE b[i - Len(a)]
    BY <1>1, <1>2, Joined, JoinedAt DEF JoinAt
  <2>2. Len(a) + Len(b) = n
    BY <1>1, <1>2
  <2> QED
    BY <1>1, <2>1, <2>2, ZenonT(30)
<1>5. \A i \in 1..n : (a \o b)[i] = t[i]
  <2> SUFFICES ASSUME NEW i \in 1..n PROVE (a \o b)[i] = t[i]
    OBVIOUS
  <2>1. CASE i <= m
    <3>1. i \in 1..m
      BY <2>1
    <3> QED
      BY <1>1, <1>3, <1>4, <2>1, <3>1
  <2>2. CASE ~(i <= m)
    <3>1. i - m \in 1..(n - m) /\ m + (i - m) = i
      BY <2>2
    <3>2. b[i - m] = s[i]
      BY <1>2, <3>1
    <3> QED
      BY <1>3, <1>4, <2>2, <3>2
  <2> QED
    BY <2>1, <2>2
<1>6. a \o b = t
  BY <1>3, <1>4, <1>5, SeqEqual
<1> QED
  BY <1>6 DEF a, b, t, Whole

LEMMA ReceiveKeepsBuffered ==
  ASSUME ServerInv, Buffered, NEW c \in Client, Receive(c)
  PROVE  Buffered'
<1> DEFINE w == [worker[c] EXCEPT !.in = 0]
           n == Room(w)
           last == Taken(c, n)
           buf == Filled(w.buf, TakenBytes(c, n))
<1>1. ~Stopped /\ pc[c] = "recv"
  BY DEF Receive, Move
<1>2. /\ Running = {c} /\ IsWorker(worker[c]) /\ WorkerOK("recv", worker[c])
      /\ Source(c) = c /\ Left(c) = conn
  BY <1>1, AtWork, Alone DEF ServerInv
<1>3. ~IsLast(c)
  BY <1>1, Alone DEF ServerInv
<1>4. /\ n > 0 /\ conn' = [conn EXCEPT ![c].taken = last]
      /\ \/ Device!Complete(buf) /\ Move(c, "recv", "command", [w EXCEPT !.buf = buf])
         \/ \E z : Move(c, "recv", "recv", [w EXCEPT !.buf = buf, !.size = z])
         \/ Move(c, "recv", "close_file", [w EXCEPT !.buf = << >>])
  <2>1. n > 0 /\ Take(c, n)
    BY ZenonT(40) DEF Receive
  <2>2. conn' = [conn EXCEPT ![c].taken = last]
    <3>1. conn' = [Left(c) EXCEPT ![Source(c)].taken = IF IsLast(c) THEN 0 ELSE last]
      BY <2>1 DEF Take
    <3> HIDE DEF last, n
    <3> QED
      BY <1>2, <1>3, <3>1
  <2>3. \/ Device!Complete(buf) /\ Move(c, "recv", "command", [w EXCEPT !.buf = buf])
        \/ \E z : Move(c, "recv", "recv", [w EXCEPT !.buf = buf, !.size = z])
        \/ Move(c, "recv", "close_file", [w EXCEPT !.buf = << >>])
    BY ZenonT(40) DEF Receive
  <2> QED
    BY <2>1, <2>2, <2>3, Zenon
<1>5. IsWorker(w) /\ w.buf = worker[c].buf /\ w.buf \in Seq(Nat) /\ n \in Int
  <2>1. /\ w.size = worker[c].size /\ w.buf = worker[c].buf /\ IsWorker(w)
    BY <1>2, WorkerKept DEF IsWorker, NoWorker
  <2> HIDE DEF w
  <2> QED
    BY <1>2, <2>1 DEF WorkerOK, Room
<1>6. /\ last \in Nat /\ conn[c].taken <= last /\ last <= conn[c].sent
      /\ conn[c].taken \in Nat /\ conn[c].sent \in Nat /\ conn[c].sent <= Len(Stream[c])
      /\ Stream[c] \in Seq(Nat)
  <2> HIDE DEF n
  <2> QED
    BY <1>2, <1>4, <1>5, TakenKnown DEF ServerInv
<1>7. buf = SubSeq(Stream[c], 1, last)
  <2>1. w.buf = SubSeq(Stream[c], 1, conn[c].taken)
    BY <1>1, <1>5 DEF Buffered
  <2>2. TakenBytes(c, n) = SubSeq(Stream[c], conn[c].taken + 1, last)
    BY <1>2 DEF TakenBytes
  <2> HIDE DEF w, n, last
  <2>3. last <= Len(Stream[c])
    <3>1. Len(Stream[c]) \in Nat
      BY <1>6
    <3> QED
      BY <1>6, <3>1
  <2>4. Whole(Stream[c], conn[c].taken, last)
    BY <1>6, <2>3, Extended DEF Parts
  <2> QED
    BY <2>1, <2>2, <2>4 DEF Filled, Whole
<1> HIDE DEF w, n, last, buf
<1>8. \A d \in Client : /\ conn'[d].taken = IF d = c THEN last ELSE conn[d].taken
                        /\ d # c => pc'[d] = pc[d] /\ worker'[d] = worker[d]
  BY ZenonT(40), <1>4 DEF Move, ServerInv, ThreadsInv, Shaped, IsConn, NoConn
<1>9. \A d \in Client : d # c => pc[d] \in {"none", "done"}
  BY <1>2 DEF Running
<1>10. \/ Device!Complete(buf) /\ pc'[c] = "command" /\ worker'[c].buf = buf
       \/ pc'[c] = "recv" /\ worker'[c].buf = buf
       \/ pc'[c] = "close_file"
  BY ZenonT(40), <1>4, <1>5 DEF Move, ServerInv, ThreadsInv, Shaped, IsWorker, NoWorker
<1> QED
  BY <1>7, <1>8, <1>9, <1>10 DEF Buffered

\* A connection whose bytes are taken by nobody, or that is over.
Undisturbed == \A d \in Client : conn'[d].taken \in {conn[d].taken, 0}

LEMMA CloseFdUndisturbed ==
  ASSUME ThreadsInv, NEW n, CloseFd(n)
  PROVE  Undisturbed
BY DEF CloseFd, Undisturbed, ThreadsInv, Shaped, Over, NoConn

LEMMA SentUndisturbed ==
  ASSUME ThreadsInv, NEW s, NEW bytes, conn' = Sent(s, bytes)
  PROVE  Undisturbed
BY DEF Sent, Undisturbed, ThreadsInv, Shaped, IsConn, NoConn

\* Only a recv has to wait.
LEMMA BlockedInRecv ==
  ASSUME ServerInv, NEW c \in Client, Blocks(c)
  PROVE  /\ ~Stopped /\ pc[c] = "recv" /\ pc' = pc
         /\ worker' = [worker EXCEPT ![c] = [worker[c] EXCEPT !.in = c]]
         /\ UNCHANGED <<main, process, network, signals, device>>
<1>1. /\ ~Stopped /\ pc[c] \in {"recv", "read"} /\ Source(c) # 0
      /\ pc' = [pc EXCEPT ![c] = pc[c]]
      /\ worker' = [worker EXCEPT ![c] = [worker[c] EXCEPT !.in = Source(c)]]
      /\ UNCHANGED <<main, process, network, signals, device>>
  BY DEF Blocks, Waits, Move
<1>2. pc[c] = "recv" /\ Source(c) = c
  BY <1>1, Alone DEF ServerInv
<1>3. pc' = pc
  BY <1>1 DEF ServerInv, ThreadsInv, Shaped
<1> QED
  BY <1>1, <1>2, <1>3

\* The steps of a worker other than recv.
LEMMA WorkerUndisturbed ==
  ASSUME ServerInv, NEW c \in Client, Worker(c) \/ RespondFails(c) \/ Interrupted(c),
         ~BrokenPipe(c), ~Receive(c), ~Blocks(c)
  PROVE  /\ Undisturbed
         /\ ~Stopped /\ pc[c] \notin {"none", "done"}
         /\ pc' = [pc EXCEPT ![c] = pc'[c]] /\ pc'[c] \notin {"none", "open", "command"}
         /\ \A d \in Client : d # c => worker'[d] = worker[d]
         /\ pc'[c] = "recv" => /\ pc[c] = "open" /\ worker'[c].buf = << >>
                               /\ UNCHANGED conn
<1>1. ThreadsInv
  BY DEF ServerInv
<1>2. ASSUME NEW from \in Label \ {"none", "done", "open"}, NEW to \in Label, NEW w,
             Move(c, from, to, w), to \notin {"none", "open", "command", "recv"}, Undisturbed
      PROVE  /\ Undisturbed
             /\ ~Stopped /\ pc[c] \notin {"none", "done"}
             /\ pc' = [pc EXCEPT ![c] = pc'[c]] /\ pc'[c] \notin {"none", "open", "command"}
             /\ \A d \in Client : d # c => worker'[d] = worker[d]
             /\ pc'[c] = "recv" => /\ pc[c] = "open" /\ worker'[c].buf = << >>
                                   /\ UNCHANGED conn
  BY <1>1, <1>2 DEF Move, ThreadsInv, Shaped
<1>3. UNCHANGED conn => Undisturbed
  BY DEF Undisturbed
<1>13. ASSUME ~Stopped, pc[c] \notin {"none", "done"}
       PROVE  Left(c) = conn /\ ~ReadSocket(c) /\ ~WriteSocket(c)
  BY <1>13, Alone DEF ServerInv
<1> USE DEF Label
<1>4. CASE OpenDevice(c)
  <2>1. PICK n : Move(c, "open", "recv", [worker[c] EXCEPT !.file = n]) /\ UNCHANGED conn
    BY <1>4 DEF OpenDevice, network
  <2>2. IsWorker(worker[c]) /\ worker[c].buf = << >>
    BY <2>1 DEF Move, ServerInv, ThreadsInv, Shaped, Sized, WorkerOK
  <2>3. [worker[c] EXCEPT !.file = n].buf = << >>
    BY <2>2 DEF IsWorker, NoWorker
  <2> QED
    BY <1>1, <1>3, <2>1, <2>3 DEF Move, ThreadsInv, Shaped
<1>5. CASE OpenDeviceFails(c)
  <2>1. Move(c, "open", "close_client", worker[c]) /\ UNCHANGED conn
    BY <1>5 DEF OpenDeviceFails, network
  <2> QED
    BY <1>1, <1>3, <2>1 DEF Move, ThreadsInv, Shaped
<1>6. CASE ReceiveFails(c) \/ ReceiveInterrupted(c)
  <2>1. Move(c, "recv", "close_file", [worker[c] EXCEPT !.buf = << >>, !.in = 0]) /\ conn' = Left(c)
    BY <1>6 DEF ReceiveFails, ReceiveInterrupted
  <2>2. Undisturbed
    BY <1>3, <1>13, <2>1 DEF Move
  <2> QED
    BY <1>2, <2>1, <2>2
<1>7. CASE SeekCommand(c) \/ WriteCommand(c) \/ CommandFails(c) \/ RespondFails(c)
  BY ZenonT(40), <1>2, <1>3, <1>7 DEF SeekCommand, WriteCommand, CommandFails, RespondFails, network
<1>8. CASE Respond(c)
  BY <1>1, <1>2, <1>3, <1>8, CloseFdUndisturbed DEF Respond
<1>9. CASE Reopen(c) \/ ReopenFails(c) \/ ReadChunk(c)
  BY <1>2, <1>3, <1>9 DEF Reopen, ReopenFails, ReadChunk, network
<1>10. CASE ReadEnd(c) \/ ReadInterrupted(c)
  <2>1. Move(c, "read", "close_file", [worker[c] EXCEPT !.ok = TRUE, !.in = 0]) /\ conn' = Left(c)
    BY <1>10 DEF ReadEnd, ReadInterrupted, Responded
  <2>2. Undisturbed
    BY <1>3, <1>13, <2>1 DEF Move
  <2> QED
    BY <1>2, <2>1, <2>2
<1>14. CASE SendFails(c)
  BY <1>2, <1>3, <1>14 DEF SendFails, network
<1>15. ~ReadSocket(c) /\ ~WriteSocket(c)
  BY <1>13 DEF ReadSocket, WriteSocket, Move
<1>11. CASE Send(c) \/ SendInterrupted(c)
  <2>2. Undisturbed
    <3>1. CASE Send(c)
      BY <1>1, <3>1, SentUndisturbed DEF Send
    <3>2. CASE SendInterrupted(c)
      <4>1. PICK s, got : conn' = [conn EXCEPT ![s].got = got]
        BY <3>2 DEF SendInterrupted
      <4> QED
        BY <1>1, <4>1 DEF Undisturbed, ThreadsInv, Shaped, IsConn, NoConn
    <3> QED
      BY <1>11, <3>1, <3>2
  <2> QED
    BY ZenonT(40), <1>2, <1>11, <2>2 DEF Send, SendInterrupted
<1>12. CASE CloseFile(c) \/ CloseClient(c)
  BY <1>1, <1>2, <1>12, CloseFdUndisturbed DEF CloseFile, CloseClient
<1> QED
  BY <1>4, <1>5, <1>6, <1>7, <1>8, <1>9, <1>10, <1>11, <1>12, <1>14, <1>15
  DEF Worker, Interrupted

LEMMA NextKeepsBuffered ==
  ASSUME ServerInv, Buffered, [Next]_vars
  PROVE  Buffered'
<1>1. ThreadsInv /\ Serial /\ OwnsFds
  BY DEF ServerInv
<1>2. CASE UNCHANGED vars
  BY <1>2 DEF vars, network, Buffered, Stopped
<1>3. CASE MainThread \/ SignalMain
  <2>1. CASE CreateThread
    <3>1. /\ main = "create" /\ UNCHANGED conn /\ pc' = [pc EXCEPT ![client_addr] = "open"]
          /\ \A d \in Client : d # client_addr => worker'[d] = worker[d]
      BY <1>1, <2>1 DEF CreateThread, MainStep, network, ThreadsInv, Shaped
    <3>2. client_addr \in Client /\ pc[client_addr] = "none" /\ ~Stopped
      BY <1>1, <3>1 DEF ThreadsInv, ServedOnce, Unserved, Stopped
    <3> QED
      BY <1>1, <3>1, <3>2 DEF Buffered, ThreadsInv, Shaped
  <2>2. CASE DropClient
    <3>1. /\ main \in {"args", "create"} /\ UNCHANGED <<pc, worker>> /\ CloseFd(client_fd)
      BY <2>2 DEF DropClient, MainStep, apart
    <3>2. Undisturbed
      BY <1>1, <3>1, CloseFdUndisturbed
    <3>3. \A d \in Client : pc[d] \in {"none", "done"}
      BY <1>1, <3>1 DEF Serial, Stopped, Running
    <3> QED
      BY <3>1, <3>2, <3>3 DEF Buffered, Undisturbed
  <2>3. CASE Clean
    <3>1. /\ main' = "exited" /\ UNCHANGED <<pc, worker>>
          /\ \A d \in Client : conn'[d] \in {conn[d], Over}
      BY <2>3 DEF Clean, MainStep, apart
    <3> QED
      BY <3>1 DEF Buffered, Stopped, Over, NoConn
  <2>4. CASE ~CreateThread /\ ~DropClient /\ ~Clean
    <3>1. UNCHANGED <<pc, worker, conn>> /\ (~Stopped' => ~Stopped)
      BY <1>3, <2>4 DEF MainThread, Check, EnterAccept, Accept, AcceptFails, MallocArgs,
                        ThreadNodeAdd, ThreadJoin, SignalMain, MainStep, apart, network, Stopped
    <3> QED
      BY <3>1 DEF Buffered
  <2> QED
    BY <2>1, <2>2, <2>3, <2>4
<1>4. ASSUME NEW c \in Client, Worker(c) \/ RespondFails(c) \/ Interrupted(c)
      PROVE  Buffered'
  <2>1. CASE BrokenPipe(c)
    BY <2>1 DEF BrokenPipe, apart, network, Buffered, Stopped
  <2>2. CASE Receive(c)
    BY <2>2, ReceiveKeepsBuffered
  <2>4. CASE Blocks(c)
    <3>1. /\ ~Stopped /\ pc' = pc /\ UNCHANGED conn
          /\ worker' = [worker EXCEPT ![c] = [worker[c] EXCEPT !.in = c]]
      BY <2>4, BlockedInRecv DEF network
    <3>2. \A d \in Client : worker'[d].buf = worker[d].buf
      BY <1>1, <3>1 DEF ThreadsInv, Shaped, IsWorker, NoWorker
    <3> QED
      BY <3>1, <3>2 DEF Buffered
  <2>3. CASE ~BrokenPipe(c) /\ ~Receive(c) /\ ~Blocks(c)
    <3>1. /\ Undisturbed
          /\ ~Stopped /\ pc[c] \notin {"none", "done"}
          /\ pc' = [pc EXCEPT ![c] = pc'[c]] /\ pc'[c] \notin {"none", "open", "command"}
          /\ \A d \in Client : d # c => worker'[d] = worker[d]
          /\ pc'[c] = "recv" => /\ pc[c] = "open" /\ worker'[c].buf = << >>
                                /\ UNCHANGED conn
      BY <1>4, <2>3, WorkerUndisturbed
    <3>2. \A d \in Client : d # c => pc[d] \in {"none", "done"} /\ pc'[d] = pc[d]
      <4>1. Running = {c}
        BY <3>1, AtWork DEF ServerInv
      <4> QED
        BY <1>1, <3>1, <4>1 DEF Running, ThreadsInv, Shaped
    <3>3. SubSeq(Stream[c], 1, 0) = << >>
      BY SubSeqEmpty
    <3> QED
      BY <3>1, <3>2, <3>3 DEF Buffered, Undisturbed
  <2> QED
    BY <2>1, <2>2, <2>3, <2>4
<1>5. ASSUME NEW c \in Client, Connect(c) \/ Deliver(c) \/ HangUp(c) \/ LocalWrite(c)
      PROVE  Buffered'
  <2>1. /\ UNCHANGED <<main, worker>>
        /\ pc' = pc \/ pc' = [pc EXCEPT ![c] = "done"]
        /\ \A d \in Client : conn'[d].taken = conn[d].taken
    BY SMTT(40), <1>1, <1>5 DEF Connect, Deliver, HangUp, LocalWrite, apart, network, ThreadsInv, Shaped,
                      IsConn, NoConn
  <2> QED
    BY <1>1, <2>1 DEF Buffered, Stopped, ThreadsInv, Shaped
<1> QED
  BY <1>2, <1>3, <1>4, <1>5 DEF Next

\* Of all steps only two kinds touch the device.
LEMMA DeviceSteps ==
  ASSUME [Next]_vars, device' # device
  PROVE  \E c \in Client : WriteCommand(c) \/ LocalWrite(c)
<1>1. ~UNCHANGED vars
  BY DEF vars
<1>2. ~MainThread /\ ~SignalMain
  BY DEF MainThread, Check, EnterAccept, Accept, AcceptFails, MallocArgs, DropClient, CreateThread,
         ThreadNodeAdd, ThreadJoin, Clean, SignalMain, apart
<1>3. ASSUME NEW c \in Client, Worker(c) \/ RespondFails(c) \/ Interrupted(c)
      PROVE  WriteCommand(c)
  <2>1. /\ ~OpenDevice(c) /\ ~OpenDeviceFails(c) /\ ~Blocks(c) /\ ~ReceiveFails(c)
        /\ ~ReceiveInterrupted(c)
    BY SMTT(40) DEF OpenDevice, OpenDeviceFails, Blocks, ReceiveFails, ReceiveInterrupted, around
  <2>5. ~Receive(c) /\ ~ReadSocket(c) /\ ~WriteSocket(c)
    BY DEF Receive, ReadSocket, Take, WriteSocket, around
  <2>2. ~SeekCommand(c) /\ ~CommandFails(c) /\ ~Respond(c) /\ ~RespondFails(c) /\ ~BrokenPipe(c)
    BY ZenonT(40) DEF SeekCommand, CommandFails, Respond, RespondFails, BrokenPipe, around, apart
  <2>3. ~Reopen(c) /\ ~ReopenFails(c) /\ ~ReadChunk(c) /\ ~ReadEnd(c) /\ ~ReadInterrupted(c)
    BY DEF Reopen, ReopenFails, ReadChunk, ReadEnd, ReadInterrupted, around, device
  <2>4. ~Send(c) /\ ~SendFails(c) /\ ~SendInterrupted(c) /\ ~CloseFile(c) /\ ~CloseClient(c)
    BY DEF Send, SendFails, SendInterrupted, CloseFile, CloseClient, around
  <2> QED
    BY <1>3, <2>1, <2>2, <2>3, <2>4, <2>5 DEF Worker, Interrupted
<1>4. \A c \in Client : ~Connect(c) /\ ~Deliver(c) /\ ~HangUp(c)
  BY DEF Connect, Deliver, HangUp, apart
<1> QED
  BY <1>1, <1>2, <1>3, <1>4 DEF Next

\* What the server stores for a client is what it received from it, whole and
\* unchanged, behind what is pending: for every stream, every way of splitting
\* it, every initial size of the buffer and whatever fails.
THEOREM ServerStoresWhatWasSent ==
  ASSUME "node" \notin Faults
  PROVE  Spec => StoresWhatWasSent
<1> DEFINE Stored == device' # device /\ (\A c \in Local : UNCHANGED pc[c]) =>
             \E c \in Client :
               /\ pc[c] = "command" /\ pc'[c] = "respond" /\ pending' = << >>
               /\ LET command == pending \o SubSeq(Stream[c], 1, conn[c].taken)
                  IN  recent' = Device!History!Remember(recent, command)
<1>1. Spec => [](ServerInv /\ Buffered)
  <2>1. ServerInv /\ Buffered /\ [Next]_vars => Buffered'
    BY NextKeepsBuffered
  <2> QED
    BY ServerInvHolds, InitBuffered, <2>1, PTL DEF Spec
<1>2. ServerInv /\ Buffered /\ [Next]_vars => [Stored]_vars
  <2> SUFFICES ASSUME ServerInv, Buffered, [Next]_vars, device' # device,
                      \A c \in Local : UNCHANGED pc[c]
               PROVE  \E c \in Client :
                        /\ pc[c] = "command" /\ pc'[c] = "respond" /\ pending' = << >>
                        /\ LET command == pending \o SubSeq(Stream[c], 1, conn[c].taken)
                           IN  recent' = Device!History!Remember(recent, command)
    OBVIOUS
  <2>1. PICK c \in Client : WriteCommand(c) \/ LocalWrite(c)
    BY DeviceSteps
  <2>2. ~LocalWrite(c)
    BY DEF LocalWrite, ServerInv, ThreadsInv, Shaped
  <2>3. pc[c] = "command" /\ pc'[c] = "respond" /\ ~Stopped /\ Device!Commit(worker[c].buf)
    BY <2>1, <2>2 DEF WriteCommand, Move, ServerInv, ThreadsInv, Shaped
  <2>4. worker[c].buf = SubSeq(Stream[c], 1, conn[c].taken) /\ Device!Complete(worker[c].buf)
    BY <2>3 DEF Buffered
  <2> QED
    BY <2>3, <2>4 DEF Device!Commit
<1> QED
  BY <1>1, <1>2, PTL DEF Spec, StoresWhatWasSent

-----------------------------------------------------------------------------
(* The writers, and how many commands they leave in the device.            *)

\* The labels from which a command has been carried out.
Past == {"respond", "reopen", "read", "send", "close_file", "close_client", "done"}

\* The clients that may leave a command in the device, and those that may have.
Writers == {c \in Client : c \in Local \/ (Stream[c] # << >> /\ ~IsSeek(Stream[c]))}

Wrote == {c \in Writers : pc[c] \in Past}

Counted == Len(recent) <= Size(Wrote)

\* The assumptions under which no command has to go and no response is interrupted.
RoomForAll == Finite(Writers) /\ Size(Writers) <= MaxOps

Uninterrupted == "node" \notin Faults /\ "read" \notin Hits /\ "send" \notin Hits

\* A worker does not go back to before its command.
LEMMA PastStays ==
  ASSUME ServerInv, [Next]_vars, NEW d \in Client, pc[d] \in Past
  PROVE  pc'[d] \in Past
<1>1. pc \in [Client -> Label]
  BY DEF ServerInv, ThreadsInv, Shaped
<1>2. CASE UNCHANGED pc
  BY <1>2
<1>3. CASE MainThread \/ SignalMain
  <2>1. CASE CreateThread
    <3>1. main = "create" /\ pc' = [pc EXCEPT ![client_addr] = "open"]
      BY <2>1 DEF CreateThread, MainStep
    <3>2. pc[client_addr] = "none"
      BY <3>1 DEF ServerInv, ThreadsInv, ServedOnce, Unserved
    <3> QED
      BY <1>1, <3>1, <3>2 DEF Past
  <2>2. CASE ~CreateThread
    <3>1. UNCHANGED pc
      BY <1>3, <2>2 DEF MainThread, Check, EnterAccept, Accept, AcceptFails, MallocArgs, DropClient,
                        ThreadNodeAdd, ThreadJoin, Clean, SignalMain, apart
    <3> QED
      BY <3>1
  <2> QED
    BY <2>1, <2>2
<1>4. ASSUME NEW c \in Client, Worker(c) \/ RespondFails(c) \/ Interrupted(c)
      PROVE  pc'[d] \in Past
  <2>1. CASE BrokenPipe(c)
    BY <1>2, <2>1 DEF BrokenPipe, apart
  <2>2. CASE Receive(c)
    <3>1. pc[c] = "recv" /\ \A e \in Client : e # c => pc'[e] = pc[e]
      BY <1>1, <2>2, ZenonT(40) DEF Receive, Move
    <3> QED
      BY <3>1 DEF Past
  <2>3. CASE Blocks(c)
    BY <1>2, <2>3, BlockedInRecv
  <2>4. CASE ~BrokenPipe(c) /\ ~Receive(c) /\ ~Blocks(c)
    <3>1. /\ pc[c] \notin {"none", "done"}
          /\ pc' = [pc EXCEPT ![c] = pc'[c]] /\ pc'[c] \notin {"none", "open", "command"}
          /\ pc'[c] = "recv" => pc[c] = "open"
      BY <1>4, <2>4, WorkerUndisturbed
    <3>2. pc' \in [Client -> Label]
      BY NextKeepsThreads DEF ServerInv, ThreadsInv, Shaped
    <3> QED
      BY <1>1, <3>1, <3>2 DEF Past, Label
  <2> QED
    BY <2>1, <2>2, <2>3, <2>4
<1>5. ASSUME NEW c \in Client, Connect(c) \/ Deliver(c) \/ HangUp(c) \/ LocalWrite(c)
      PROVE  pc'[d] \in Past
  <2>1. pc' = pc \/ pc' = [pc EXCEPT ![c] = "done"]
    BY <1>5 DEF Connect, Deliver, HangUp, LocalWrite, apart
  <2> QED
    BY <1>1, <2>1 DEF Past
<1> QED
  BY <1>2, <1>3, <1>4, <1>5 DEF Next, vars

\* A worker that writes is one of the writers.
LEMMA WriterKnown ==
  ASSUME ServerInv, Buffered, NEW c \in Client, WriteCommand(c) \/ LocalWrite(c)
  PROVE  c \in Writers /\ pc[c] \notin Past /\ pc'[c] \in Past
<1>1. pc \in [Client -> Label]
  BY DEF ServerInv, ThreadsInv, Shaped
<1>2. CASE LocalWrite(c)
  BY <1>1, <1>2 DEF LocalWrite, Writers, Past
<1>3. CASE WriteCommand(c)
  <2>1. pc[c] = "command" /\ pc'[c] = "respond" /\ ~Stopped /\ ~IsSeek(worker[c].buf)
    BY <1>1, <1>3, ZenonT(40) DEF WriteCommand, Move
  <2>2. PICK k : k = conn[c].taken
    OBVIOUS
  <2>3. worker[c].buf = SubSeq(Stream[c], 1, k) /\ Device!Complete(worker[c].buf)
    BY <2>1, <2>2 DEF Buffered
  <2>4. Stream[c] \in Seq(Nat) /\ k \in Nat /\ k <= Len(Stream[c])
    BY <2>2, AesdSocketAssumption DEF ServerInv, Sized, ConnOK
  <2>5. k > 0
    <3>1. Len(worker[c].buf) # 0
      BY <2>3, <2>4 DEF Device!Complete
    <3> QED
      BY <2>3, <2>4, <3>1
  <2>6. Stream[c] # << >> /\ Head(worker[c].buf) = Head(Stream[c])
    BY <2>3, <2>4, <2>5
  <2>7. ~IsSeek(Stream[c])
    BY <2>1, <2>6 DEF IsSeek
  <2> QED
    BY <2>1, <2>6, <2>7 DEF Writers, Past
<1> QED
  BY <1>2, <1>3

LEMMA InitCounted ==
  ASSUME RoomForAll
  PROVE  Init => Counted
<1>1. Wrote \in SUBSET Writers
  BY DEF Wrote
<1>2. Size(Wrote) \in Nat
  BY <1>1, PartOfFinite DEF RoomForAll
<1>3. Init => Len(recent) = 0
  BY DEF Init, Device!Init
<1> QED
  BY <1>2, <1>3 DEF Counted

\* Each writer leaves one command, and there is room for all.
LEMMA RoomLeft ==
  ASSUME ServerInv, Buffered, Counted, RoomForAll, [Next]_vars, Len(recent) \in Nat
  PROVE  /\ recent' = recent => Counted'
         /\ (\E c \in Client : WriteCommand(c) \/ LocalWrite(c)) =>
              /\ Len(recent) < MaxOps
              /\ Len(recent') \in Nat /\ Len(recent') <= Len(recent) + 1 => Counted'
<1>1. Wrote \in SUBSET Wrote' /\ Wrote' \in SUBSET Writers
  BY PastStays DEF Wrote, Writers
<1>2. Finite(Writers) /\ Size(Writers) <= MaxOps /\ MaxOps \in Nat
  BY MaxOpsAssumption DEF RoomForAll
<1>3. Finite(Wrote') /\ Size(Wrote') \in Nat /\ Size(Writers) \in Nat /\ Size(Wrote') <= Size(Writers)
  BY <1>1, <1>2, PartOfFinite
<1>4. Size(Wrote) \in Nat /\ Size(Wrote) <= Size(Wrote')
  BY <1>1, <1>3, PartOfFinite
<1>5. recent' = recent => Counted'
  BY <1>3, <1>4 DEF Counted
<1>6. ASSUME NEW c \in Client, WriteCommand(c) \/ LocalWrite(c)
      PROVE  /\ Len(recent) < MaxOps
             /\ Len(recent') \in Nat /\ Len(recent') <= Len(recent) + 1 => Counted'
  <2>1. c \notin Wrote /\ c \in Wrote'
    BY <1>6, WriterKnown DEF Wrote, Writers
  <2>2. Size(Wrote) + 1 <= Size(Wrote')
    BY <1>1, <1>3, <2>1, PartOfFinite
  <2> QED
    BY <1>2, <1>3, <1>4, <2>2 DEF Counted
<1> QED
  BY <1>5, <1>6

-----------------------------------------------------------------------------
(* Sequences of bytes that are found inside another.                       *)

LOCAL INSTANCE SequencesExt

\* The bytes of u are those of B behind the first s.
Within(B, s, u) ==
  /\ s \in Nat /\ u \in Seq(Nat) /\ s + Len(u) <= Len(B)
  /\ \A j \in 1..Len(u) : B[s + j] = u[j]

LEMMA WithinGrown ==
  ASSUME NEW B \in Seq(Nat), NEW x \in Seq(Nat), NEW s, NEW u, Within(B, s, u)
  PROVE  Within(B \o x, s, u)
<1>1. Len(B) \in Nat /\ Len(x) \in Nat /\ Len(u) \in Nat /\ s \in Nat
  BY DEF Within
<1>2. Len(B \o x) = Len(B) + Len(x)
  BY Joined
<1>3. ASSUME NEW j \in 1..Len(u)
      PROVE  (B \o x)[s + j] = u[j]
  <2>1. s + j \in 1..(Len(B) + Len(x)) /\ s + j <= Len(B)
    BY SMTT(40), <1>1 DEF Within
  <2>2. (B \o x)[s + j] = B[s + j]
    BY <2>1, JoinedAt DEF JoinAt
  <2> QED
    BY <2>2 DEF Within
<1> QED
  BY <1>1, <1>2, <1>3 DEF Within

\* Nothing at all is found wherever something else is.
LEMMA WithinNothing ==
  ASSUME NEW B, NEW s, NEW e, Within(B, s, e), Len(B) \in Nat
  PROVE  Within(B, s, << >>) /\ s + Len(<< >>) = s
<1>1. s \in Nat /\ Len(e) \in Nat /\ s + Len(e) <= Len(B)
  BY DEF Within
<1>2. Len(<< >>) = 0 /\ << >> \in Seq(Nat) /\ 1..0 = {}
  OBVIOUS
<1> QED
  BY <1>1, <1>2 DEF Within

\* One more piece.
LEMMA WithinJoined ==
  ASSUME NEW B \in Seq(Nat), NEW s, NEW u, NEW k, Within(B, s, u), Within(B, s + Len(u), k)
  PROVE  Within(B, s, u \o k) /\ Len(u \o k) = Len(u) + Len(k)
<1>1. Len(u) \in Nat /\ Len(k) \in Nat /\ s \in Nat /\ u \in Seq(Nat) /\ k \in Seq(Nat) /\ Len(B) \in Nat
  BY DEF Within
<1>2. Len(u \o k) = Len(u) + Len(k) /\ u \o k \in Seq(Nat)
  BY <1>1, Joined
<1>3. s + (Len(u) + Len(k)) <= Len(B)
  BY <1>1 DEF Within
<1>4. ASSUME NEW j \in 1..(Len(u) + Len(k))
      PROVE  B[s + j] = (u \o k)[j]
  <2>1. (u \o k)[j] = IF j <= Len(u) THEN u[j] ELSE k[j - Len(u)]
    BY <1>1, JoinedAt DEF JoinAt
  <2>2. CASE j <= Len(u)
    <3>1. j \in 1..Len(u)
      BY <1>1, <2>2
    <3> QED
      BY <2>1, <2>2, <3>1 DEF Within
  <2>3. CASE ~(j <= Len(u))
    <3>1. j - Len(u) \in 1..Len(k) /\ s + Len(u) + (j - Len(u)) = s + j
      BY <1>1, <2>3
    <3> QED
      BY <2>1, <2>3, <3>1 DEF Within
  <2> QED
    BY <2>2, <2>3
<1> QED
  BY <1>1, <1>2, <1>3, <1>4 DEF Within

\* A slice is within.
LEMMA WithinSlice ==
  ASSUME NEW B \in Seq(Nat), NEW a \in Nat, NEW e \in Nat, a <= e, e <= Len(B)
  PROVE  Within(B, a, SubSeq(B, a + 1, e)) /\ Len(SubSeq(B, a + 1, e)) = e - a
<1>1. e - a \in Nat /\ a + (e - a) = e
  OBVIOUS
<1>2. PICK n \in Nat : n = e - a
  BY <1>1, Zenon
<1>3. a + n = e
  BY <1>1, <1>2
<1>4. /\ SubSeq(B, a + 1, a + n) \in Seq(Nat) /\ Len(SubSeq(B, a + 1, a + n)) = n
      /\ \A j \in 1..n : SubSeq(B, a + 1, a + n)[j] = B[a + j]
  BY <1>3, SliceAt
<1> QED
  BY <1>2, <1>3, <1>4 DEF Within

\* r is u from its end.
Reversed(r, u) == \A i \in 1..Len(u) : r[i] = u[(Len(u) - i) + 1]

LEMMA ReverseIs ==
  ASSUME NEW u \in Seq(Nat)
  PROVE  Reverse(u) \in Seq(Nat) /\ Len(Reverse(u)) = Len(u) /\ Reversed(Reverse(u), u)
<1>1. PICK n \in Nat : n = Len(u)
  OBVIOUS
<1>2. Reverse(u) = [i \in 1..n |-> u[(n - i) + 1]]
  BY <1>1 DEF Reverse
<1>3. \A i \in 1..n : u[(n - i) + 1] \in Nat
  <2>1. \A i \in 1..n : (n - i) + 1 \in 1..n
    BY <1>1
  <2> QED
    BY <1>1, <2>1, ElementOfSeq
<1>4. PICK r \in [1..n -> Nat] : r = Reverse(u)
  BY <1>2, <1>3
<1>5. r \in Seq(Nat) /\ Len(r) = n
  BY <1>1, <1>4
<1> QED
  BY <1>1, <1>2, <1>4, <1>5 DEF Reversed

\* If both begin at the same place and u reaches the end of B, then e is how u
\* begins, and u is how B ends.
LEMMA WithinEnds ==
  ASSUME NEW B \in Seq(Nat), NEW s, NEW u, NEW e, Within(B, s, u), Within(B, s, e),
         s + Len(u) = Len(B)
  PROVE  IsPrefix(e, u) /\ IsSuffix(u, B)
<1>1. /\ Len(u) \in Nat /\ Len(e) \in Nat /\ s \in Nat /\ u \in Seq(Nat) /\ e \in Seq(Nat)
      /\ Len(B) \in Nat
  BY DEF Within
<1>2. Len(e) <= Len(u)
  BY <1>1 DEF Within
<1>3. IsPrefix(e, u)
  <2>1. ASSUME NEW j \in 1..Len(e)
        PROVE  e[j] = u[j]
    <3>1. j \in 1..Len(u)
      BY <1>1, <1>2
    <3> QED
      BY <3>1 DEF Within
  <2>2. /\ Len(SubSeq(e, 1, Len(e))) = Len(e) /\ Len(SubSeq(u, 1, Len(e))) = Len(e)
        /\ \A j \in 1..Len(e) : SubSeq(e, 1, Len(e))[j] = e[j] /\ SubSeq(u, 1, Len(e))[j] = u[j]
        /\ SubSeq(e, 1, Len(e)) \in Seq(Nat) /\ SubSeq(u, 1, Len(e)) \in Seq(Nat)
    <3>1. Within(e, 0, SubSeq(e, 0 + 1, Len(e))) /\ Len(SubSeq(e, 0 + 1, Len(e))) = Len(e) - 0
      BY <1>1, WithinSlice
    <3>2. Within(u, 0, SubSeq(u, 0 + 1, Len(e))) /\ Len(SubSeq(u, 0 + 1, Len(e))) = Len(e) - 0
      BY <1>1, <1>2, WithinSlice
    <3>3. 0 + 1 = 1 /\ Len(e) - 0 = Len(e) /\ \A j \in 1..Len(e) : 0 + j = j
      BY <1>1
    <3> QED
      BY <3>1, <3>2, <3>3 DEF Within
  <2>3. SubSeq(e, 1, Len(e)) = SubSeq(u, 1, Len(e))
    BY <2>1, <2>2, SeqEqual
  <2> QED
    BY <1>2, <2>3 DEF IsPrefix
<1>4. IsSuffix(u, B)
  <2> DEFINE r == Reverse(u)
             t == Reverse(B)
             n == Len(u)
             m == Len(B)
  <2>2. n <= m /\ s = m - n
    BY <1>1 DEF Within
  <2>3. \A i \in 1..n : (n - i) + 1 \in 1..n /\ s + ((n - i) + 1) = (m - i) + 1 /\ i \in 1..m
    BY <1>1, <2>2
  <2>7. r \in Seq(Nat) /\ Len(r) = n /\ Reversed(r, u)
    BY <1>1, ReverseIs
  <2>8. t \in Seq(Nat) /\ Len(t) = m /\ Reversed(t, B)
    BY ReverseIs
  <2>9. ASSUME NEW i \in 1..n
        PROVE  r[i] = t[i]
    <3>1. r[i] = u[(n - i) + 1] /\ t[i] = B[(m - i) + 1]
      BY <2>3, <2>7, <2>8 DEF Reversed
    <3>2. B[s + ((n - i) + 1)] = u[(n - i) + 1]
      BY <2>3 DEF Within
    <3> QED
      BY <2>3, <3>1, <3>2
  <2> HIDE DEF r, t
  <2>10. Within(r, 0, SubSeq(r, 0 + 1, n)) /\ Len(SubSeq(r, 0 + 1, n)) = n - 0
    BY <1>1, <2>7, WithinSlice
  <2>11. Within(t, 0, SubSeq(t, 0 + 1, n)) /\ Len(SubSeq(t, 0 + 1, n)) = n - 0
    BY <1>1, <2>2, <2>8, WithinSlice
  <2>12. 0 + 1 = 1 /\ n - 0 = n /\ \A j \in 1..n : 0 + j = j
    BY <1>1
  <2>13. SubSeq(r, 1, n) = SubSeq(t, 1, n)
    <3>1. \A j \in 1..n : SubSeq(r, 1, n)[j] = SubSeq(t, 1, n)[j]
      BY <2>9, <2>10, <2>11, <2>12 DEF Within
    <3> QED
      BY <2>10, <2>11, <2>12, <3>1, SeqEqual DEF Within
  <2> QED
    BY <2>2, <2>7, <2>8, <2>13 DEF IsSuffix, IsPrefix, r, t
<1> QED
  BY <1>3, <1>4

-----------------------------------------------------------------------------
(* The device, and types.                                                  *)

DeviceTyped == recent \in Seq(Seq(Nat)) /\ pending \in Seq(Nat)

LEMMA FlattenTyped ==
  ASSUME NEW r \in Seq(Seq(Nat))
  PROVE  FlattenSeq(r) \in Seq(Nat)
<1>1. PICK F \in [0..Len(r) -> Seq(Nat)] : FlattenSeq(r) = F[Len(r)]
  BY FlattenSteps
<1>2. Len(r) \in 0..Len(r)
  OBVIOUS
<1> QED
  BY <1>1, <1>2

\* A sequence of anything with one more.
LEMMA Appended ==
  ASSUME NEW S, NEW r \in Seq(S), NEW x \in S, NEW n \in Nat, n = Len(r)
  PROVE  /\ Append(r, x) \in Seq(S) /\ Len(Append(r, x)) = n + 1 /\ Append(r, x)[n + 1] = x
         /\ SubSeq(Append(r, x), 1, n) = r
         /\ r \in [1..n -> S]
<1>1. PICK t \in Seq(S) : t = Append(r, x)
  BY AppendProperties
<1>2. Len(t) = n + 1 /\ t[n + 1] = x /\ \A i \in 1..n : t[i] = r[i]
  BY <1>1, AppendProperties
<1>3. r \in [1..n -> S]
  BY LenProperties, ElementOfSeq
<1>4. SubSeq(t, 1, n) = r
  <2>1. \A i \in 1..n : t[i] \in S
    BY <1>2, <1>3
  <2>2. /\ SubSeq(t, 1, n) \in Seq(S) /\ Len(SubSeq(t, 1, n)) = n
        /\ \A i \in 1..n : SubSeq(t, 1, n)[i] = t[i]
    BY <1>2, <2>1, SubSeqProperties
  <2> QED
    BY <1>2, <2>2, SeqEqual
<1> QED
  BY <1>1, <1>2, <1>3, <1>4

\* A new command comes behind the bytes of the others.
LEMMA FlattenAppended ==
  ASSUME NEW r \in Seq(Seq(Nat)), NEW x \in Seq(Nat)
  PROVE  FlattenSeq(Append(r, x)) = FlattenSeq(r) \o x
<1>1. PICK n \in Nat : n = Len(r)
  OBVIOUS
<1>2. PICK t \in Seq(Seq(Nat)) : t = Append(r, x)
  BY <1>1, Appended
<1>3. Len(t) = n + 1 /\ t[n + 1] = x
  BY <1>1, <1>2, Appended
<1>4. SubSeq(t, 1, n) = r
  BY <1>1, <1>2, Appended
<1>5. PICK F \in [0..Len(t) -> Seq(Nat)] :
        /\ \A i \in 1..Len(t) : F[i] = F[i - 1] \o t[i]
        /\ \A i \in 0..Len(t) : FlattenSeq(SubSeq(t, 1, i)) = F[i]
        /\ FlattenSeq(t) = F[Len(t)]
  BY FlattenSteps
<1>6. n + 1 \in 1..Len(t) /\ n \in 0..Len(t) /\ n + 1 - 1 = n
  BY <1>3
<1>7. PICK i \in 1..Len(t) : i = n + 1 /\ i = Len(t) /\ i - 1 = n
  BY <1>3, <1>6
<1>8. F[i] = F[i - 1] \o t[i] /\ FlattenSeq(SubSeq(t, 1, n)) = F[n]
  BY <1>5, <1>6, Zenon
<1>9. FlattenSeq(t) = F[n] \o x
  BY <1>3, <1>5, <1>7, <1>8, Zenon
<1> QED
  BY <1>2, <1>4, <1>8, <1>9, Zenon

\* A write takes effect: types are kept, and as long as no command has to go
\* the bytes only grow.
LEMMA CommitKeeps ==
  ASSUME DeviceTyped, NEW d \in Seq(Nat), Device!Commit(d)
  PROVE  /\ DeviceTyped'
         /\ Len(recent) < MaxOps =>
              Len(recent') <= Len(recent) + 1 /\ \E x \in Seq(Nat) : Bytes' = Bytes \o x
<1>0. Len(recent) \in Nat /\ pending \o d \in Seq(Nat)
  BY Joined DEF DeviceTyped
<1>1. CASE Device!Complete(d)
  <2>1. recent' = Device!History!Remember(recent, pending \o d) /\ pending' = << >>
    BY <1>1 DEF Device!Commit
  <2>2. CASE Len(recent) < MaxOps
    <3>1. recent' = Append(recent, pending \o d)
      BY <2>1, <2>2 DEF Device!History!Remember
    <3>2. DeviceTyped'
      BY <1>0, <2>1, <3>1, Appended DEF DeviceTyped
    <3>3. Bytes' = Bytes \o (pending \o d)
      BY <1>0, <3>1, FlattenAppended DEF DeviceTyped, Bytes
    <3>4. Len(recent') = Len(recent) + 1
      BY <1>0, <3>1, Appended DEF DeviceTyped
    <3>5. Len(recent') <= Len(recent) + 1
      BY <1>0, <3>4
    <3> QED
      BY <1>0, <3>2, <3>3, <3>5, Zenon
  <2>3. CASE ~(Len(recent) < MaxOps)
    <3>1. recent' = Append(Tail(recent), pending \o d)
      BY <2>1, <2>3 DEF Device!History!Remember
    <3>2. recent # << >>
      BY <1>0, <2>3, MaxOpsAssumption
    <3>3. Tail(recent) \in Seq(Seq(Nat))
      BY <3>2 DEF DeviceTyped
    <3> QED
      BY <1>0, <2>1, <2>3, <3>1, <3>3 DEF DeviceTyped
  <2> QED
    BY <2>2, <2>3
<1>2. CASE ~Device!Complete(d)
  <2>1. pending' = pending \o d /\ recent' = recent
    BY <1>2 DEF Device!Commit
  <2>2. Bytes' = Bytes \o << >> /\ << >> \in Seq(Nat)
    <3>1. Bytes \in Seq(Nat) /\ Bytes' = Bytes
      BY <2>1, FlattenTyped DEF Bytes, DeviceTyped
    <3> QED
      BY <3>1, ConcatEmptySeq
  <2>3. DeviceTyped'
    BY <1>0, <2>1 DEF DeviceTyped
  <2>4. Len(recent') <= Len(recent) + 1
    BY <1>0, <2>1
  <2> QED
    BY <2>2, <2>3, <2>4, Zenon
<1> QED
  BY <1>1, <1>2

\* A seek ends at a byte of the device.
LEMMA SoughtIn ==
  ASSUME DeviceTyped, NEW s \in [cmd : Nat, offset : Nat], NEW to \in SeekPos(s)
  PROVE  to \in Nat /\ to < Len(Bytes)
<1>1. /\ s.cmd < Len(recent) /\ s.offset < Len(recent[s.cmd + 1])
      /\ to = Len(FlattenSeq(SubSeq(recent, 1, s.cmd))) + s.offset
  BY DEF SeekPos
<1>2. PICK n, k \in Nat : n = Len(recent) /\ k = s.cmd
  BY DEF DeviceTyped
<1>3. k < n /\ k \in 0..n /\ k + 1 \in 1..n /\ k + 1 \in 0..n /\ n \in 0..n /\ k + 1 - 1 = k
  BY <1>1, <1>2
<1>4. PICK F \in [0..n -> Seq(Nat)] :
        /\ \A i \in 1..n : F[i] = F[i - 1] \o recent[i]
        /\ \A i \in 0..n : FlattenSeq(SubSeq(recent, 1, i)) = F[i]
        /\ FlattenSeq(recent) = F[n]
  BY <1>2, FlattenSteps DEF DeviceTyped
<1>5. recent \in [1..n -> Seq(Nat)]
  <2>1. << >> \in Seq(Nat) /\ recent \in Seq(Seq(Nat))
    BY DEF DeviceTyped
  <2> QED
    BY <1>2, <2>1, Appended
<1>6. /\ F[k + 1] = F[k] \o recent[k + 1] /\ F[k] \in Seq(Nat) /\ recent[k + 1] \in Seq(Nat)
      /\ F[k + 1] \in Seq(Nat) /\ F[n] \in Seq(Nat)
  <2>0. PICK i \in 1..n : i = k + 1 /\ i - 1 = k
    BY <1>3
  <2>1. F[i] = F[i - 1] \o recent[i]
    BY <1>4, Zenon
  <2>2. F[k] \in Seq(Nat) /\ F[k + 1] \in Seq(Nat) /\ F[n] \in Seq(Nat) /\ recent[k + 1] \in Seq(Nat)
    BY <1>3, <1>5
  <2> QED
    BY <2>0, <2>1, <2>2, Zenon
<1>7. Len(F[k + 1]) <= Len(F[n])
  <2>1. \A j \in (k + 1)..n : Len(F[k + 1]) <= Len(F[j])
    BY <1>3, <1>4, <1>5, FlattenGrows
  <2>2. n \in (k + 1)..n
    BY <1>3
  <2> QED
    BY <2>1, <2>2
<1>8. Len(F[k + 1]) = Len(F[k]) + Len(recent[k + 1])
  BY <1>6, Joined
<1>9. to = Len(F[k]) + s.offset /\ s.offset < Len(recent[k + 1]) /\ s.offset \in Nat
  BY <1>1, <1>2, <1>3, <1>4
<1>10. /\ Len(F[k]) \in Nat /\ Len(recent[k + 1]) \in Nat /\ Len(F[n]) \in Nat
       /\ Bytes = F[n]
  BY <1>4, <1>6 DEF Bytes
<1>11. PICK p, q, l \in Nat : p = Len(F[k]) /\ q = Len(recent[k + 1]) /\ l = Len(F[n])
  BY <1>10
<1>12. PICK o \in Nat : o = s.offset
  BY <1>9
<1>13. p + q <= l /\ o < q /\ to = p + o
  BY <1>7, <1>8, <1>9, <1>11, <1>12
<1>14. to \in Nat /\ to < l
  BY <1>13
<1> QED
  BY <1>10, <1>11, <1>14, Zenon

LEMMA InitDevice == Init => DeviceTyped
BY DEF Init, Device!Init, DeviceTyped

LEMMA NextKeepsDevice ==
  ASSUME Sized, DeviceTyped, [Next]_vars
  PROVE  DeviceTyped'
<1>1. CASE device' = device
  BY <1>1 DEF device, DeviceTyped
<1>2. CASE device' # device
  <2>1. PICK c \in Client : WriteCommand(c) \/ LocalWrite(c)
    BY <1>2, DeviceSteps
  <2>2. PICK d \in Seq(Nat) : Device!Commit(d)
    <3>1. worker[c].buf \in Seq(Nat) /\ Stream[c] \in Seq(Nat)
      BY AesdSocketAssumption DEF Sized, WorkerOK
    <3>2. Device!Commit(worker[c].buf) \/ Device!Commit(Stream[c])
      BY <2>1, ZenonT(40) DEF WriteCommand, LocalWrite
    <3> QED
      BY <3>1, <3>2, Zenon
  <2> QED
    BY <2>2, CommitKeeps
<1> QED
  BY <1>1, <1>2

\* Every descriptor has a position.
FilesTyped == \A n \in FD : fds[n] \in Resource

LEMMA InitFiles == Init => FilesTyped
BY DEF Init, FilesTyped, Resource, NoFile

LEMMA InstallTyped ==
  ASSUME ThreadsInv, FilesTyped, NEW n \in FD, NEW kind \in {"sock", "dev"}, NEW c \in Client,
         Install(n, kind, c)
  PROVE  FilesTyped'
BY DEF Install, FilesTyped, Resource, ThreadsInv, Shaped

LEMMA CloseFdTyped ==
  ASSUME ThreadsInv, FilesTyped, NEW n, CloseFd(n)
  PROVE  FilesTyped'
<1>1. NoFile \in Resource /\ fds' = [fds EXCEPT ![n] = NoFile]
  BY DEF CloseFd, Resource, NoFile
<1> QED
  BY <1>1 DEF FilesTyped, ThreadsInv, Shaped

LEMMA SeekTyped ==
  ASSUME ThreadsInv, FilesTyped, NEW n \in FD, NEW to \in Nat, fds' = [fds EXCEPT ![n].pos = to]
  PROVE  FilesTyped'
<1>1. [fds[n] EXCEPT !.pos = to] \in Resource
  BY DEF FilesTyped, Resource
<1> QED
  BY <1>1 DEF FilesTyped, ThreadsInv, Shaped

\* The positions that the seek command and a read set.
LEMMA CommandSeeks ==
  ASSUME Sized, DeviceTyped, NEW c \in Client, SeekCommand(c)
  PROVE  \E to \in Nat :
           /\ to < Len(Bytes) /\ fds' = [fds EXCEPT ![worker[c].file].pos = to]
           /\ Move(c, "command", "respond",
                   [worker[c] EXCEPT !.buf = << >>, !.expect = SubSeq(Bytes, to + 1, Len(Bytes))])
<1> DEFINE text == SeekText[Head(worker[c].buf)]
<1>1. text \in [cmd : Nat, offset : Nat]
  <2>1. Head(worker[c].buf) \in DOMAIN SeekText
    BY ZenonT(40) DEF SeekCommand, IsSeek
  <2> QED
    BY <2>1, AesdSocketAssumption
<1>2. PICK to \in SeekPos(text) :
        /\ fds' = [fds EXCEPT ![worker[c].file].pos = to]
        /\ Move(c, "command", "respond",
                [worker[c] EXCEPT !.buf = << >>, !.expect = SubSeq(Bytes, to + 1, Len(Bytes))])
  BY ZenonT(40) DEF SeekCommand
<1> HIDE DEF text
<1>3. to \in Nat /\ to < Len(Bytes)
  BY <1>1, <1>2, SoughtIn
<1> QED
  BY <1>2, <1>3, Zenon

LEMMA ChunkRead ==
  ASSUME Sized, DeviceTyped, FilesTyped, NEW c \in Client, ReadChunk(c)
  PROVE  \E pos, end \in Nat :
           /\ pos = fds[worker[c].again].pos /\ pos < end /\ end <= Len(Bytes)
           /\ fds' = [fds EXCEPT ![worker[c].again].pos = end]
           /\ Move(c, "read", "send", [worker[c] EXCEPT !.chunk = SubSeq(Bytes, pos + 1, end)])
<1> DEFINE pos == fds[worker[c].again].pos
           end == IF pos + BufLen < Len(Bytes) THEN pos + BufLen ELSE Len(Bytes)
<1>1. /\ pos < Len(Bytes)
      /\ fds' = [fds EXCEPT ![worker[c].again].pos = end]
      /\ Move(c, "read", "send", [worker[c] EXCEPT !.chunk = SubSeq(Bytes, pos + 1, end)])
  BY ZenonT(40) DEF ReadChunk
<1>2. pos \in Nat
  BY DEF Sized, WorkerOK, FilesTyped, Resource
<1>3. Len(Bytes) \in Nat
  BY FlattenTyped DEF DeviceTyped, Bytes
<1> HIDE DEF pos
<1>4. end \in Nat /\ pos < end /\ end <= Len(Bytes)
  BY <1>1, <1>2, <1>3, AesdSocketAssumption
<1> HIDE DEF end
<1> QED
  BY <1>1, <1>2, <1>4 DEF pos

\* Of all steps these touch the descriptors.
LEMMA FileSteps ==
  ASSUME [Next]_vars, fds' # fds
  PROVE  \/ Accept \/ DropClient \/ Clean
         \/ \E c \in Client : \/ OpenDevice(c) \/ Reopen(c) \/ CloseFile(c) \/ CloseClient(c)
                              \/ Respond(c) \/ SeekCommand(c) \/ ReadChunk(c)
<1>1. ~UNCHANGED vars
  BY DEF vars, process, shared
<1>2. /\ ~Check /\ ~EnterAccept /\ ~AcceptFails /\ ~MallocArgs /\ ~CreateThread
      /\ ~ThreadNodeAdd /\ ~ThreadJoin /\ ~SignalMain
  BY DEF Check, EnterAccept, AcceptFails, MallocArgs, CreateThread, ThreadNodeAdd, ThreadJoin,
         SignalMain, process, shared
<1>3. ASSUME NEW c \in Client
      PROVE  /\ ~OpenDeviceFails(c) /\ ~Blocks(c)
             /\ ~Receive(c) /\ ~ReceiveFails(c) /\ ~ReceiveInterrupted(c)
             /\ ~WriteCommand(c) /\ ~WriteSocket(c)
             /\ ~CommandFails(c) /\ ~RespondFails(c) /\ ~BrokenPipe(c)
             /\ ~ReopenFails(c) /\ ~ReadSocket(c) /\ ~ReadEnd(c) /\ ~ReadInterrupted(c)
             /\ ~Send(c) /\ ~SendFails(c) /\ ~SendInterrupted(c)
             /\ ~Connect(c) /\ ~Deliver(c) /\ ~HangUp(c) /\ ~LocalWrite(c)
  <2>1. /\ ~OpenDeviceFails(c) /\ ~Blocks(c)
        /\ ~Receive(c) /\ ~ReceiveFails(c) /\ ~ReceiveInterrupted(c)
    BY ZenonT(40) DEF OpenDeviceFails, Blocks, Receive, Take, ReceiveFails, ReceiveInterrupted,
                      process, shared
  <2>2. /\ ~WriteCommand(c) /\ ~WriteSocket(c)
        /\ ~CommandFails(c) /\ ~RespondFails(c) /\ ~BrokenPipe(c)
    BY ZenonT(40) DEF WriteCommand, WriteSocket, CommandFails, RespondFails, BrokenPipe,
                      process, shared
  <2>3. ~ReopenFails(c) /\ ~ReadSocket(c) /\ ~ReadEnd(c) /\ ~ReadInterrupted(c)
    BY DEF ReopenFails, ReadSocket, Take, ReadEnd, ReadInterrupted, process, shared
  <2>4. ~Send(c) /\ ~SendFails(c) /\ ~SendInterrupted(c)
    BY DEF Send, SendFails, SendInterrupted, process, shared
  <2>5. ~Connect(c) /\ ~Deliver(c) /\ ~HangUp(c) /\ ~LocalWrite(c)
    BY DEF Connect, Deliver, HangUp, LocalWrite, process, shared
  <2> QED
    BY <2>1, <2>2, <2>3, <2>4, <2>5
<1> QED
  BY <1>1, <1>2, <1>3, ZenonT(40) DEF Next, MainThread, Worker, Interrupted

LEMMA NextKeepsFiles ==
  ASSUME ThreadsInv, Sized, DeviceTyped, FilesTyped, [Next]_vars
  PROVE  FilesTyped'
<1>1. CASE UNCHANGED fds
  BY <1>1 DEF FilesTyped
<1>2. CASE Accept
  <2>1. queue # << >> /\ Head(queue) \in Client
    BY <1>2 DEF Accept, ThreadsInv, Shaped
  <2>2. PICK n \in FD : Install(n, "sock", Head(queue))
    BY <1>2 DEF Accept, Lowest
  <2> QED
    BY <2>1, <2>2, InstallTyped
<1>3. CASE DropClient
  BY <1>3, CloseFdTyped DEF DropClient
<1>4. CASE Clean
  BY <1>4 DEF Clean, FilesTyped, Resource, NoFile
<1>5. ASSUME NEW c \in Client, OpenDevice(c) \/ Reopen(c)
      PROVE  FilesTyped'
  <2>1. PICK n \in FD : Install(n, "dev", c)
    BY <1>5 DEF OpenDevice, Reopen, Lowest
  <2> QED
    BY <2>1, InstallTyped
<1>6. ASSUME NEW c \in Client, CloseFile(c) \/ CloseClient(c) \/ Respond(c)
      PROVE  FilesTyped'
  <2>1. UNCHANGED fds \/ \E n : CloseFd(n)
    BY <1>6 DEF CloseFile, CloseClient, Respond
  <2> QED
    BY <1>1, <2>1, CloseFdTyped
<1>7. ASSUME NEW c \in Client, SeekCommand(c) \/ ReadChunk(c)
      PROVE  FilesTyped'
  <2>1. worker[c].file \in FD /\ worker[c].again \in FD
    BY DEF Sized, WorkerOK
  <2>2. CASE SeekCommand(c)
    <3>1. \E to \in Nat : fds' = [fds EXCEPT ![worker[c].file].pos = to]
      BY ZenonT(40), <2>2, CommandSeeks
    <3> QED
      BY <2>1, <3>1, SeekTyped
  <2>3. CASE ReadChunk(c)
    <3>1. \E to \in Nat : fds' = [fds EXCEPT ![worker[c].again].pos = to]
      BY <2>3, ChunkRead
    <3> QED
      BY <2>1, <3>1, SeekTyped
  <2> QED
    BY <1>7, <2>2, <2>3
<1>8. fds' # fds => \/ Accept \/ DropClient \/ Clean
                    \/ \E c \in Client : \/ OpenDevice(c) \/ Reopen(c) \/ CloseFile(c)
                                         \/ CloseClient(c) \/ Respond(c) \/ SeekCommand(c)
                                         \/ ReadChunk(c)
  BY FileSteps
<1> QED
  BY <1>1, <1>2, <1>3, <1>4, <1>5, <1>6, <1>7, <1>8, Zenon

ServerTypes == ThreadsInv /\ Sized /\ DeviceTyped /\ FilesTyped

\* The types of all variables; every position is that of a byte.
THEOREM ServerTyped == Spec => []TypeOK
<1>1. Init => ServerTypes
  BY InitThreadsInv, InitSized, InitDevice, InitFiles DEF ServerTypes
<1>2. ServerTypes /\ [Next]_vars => ServerTypes'
  BY NextKeepsThreads, NextKeepsSized, NextKeepsDevice, NextKeepsFiles DEF ServerTypes
<1>3. ServerTypes => TypeOK
  <2> SUFFICES ASSUME ServerTypes PROVE TypeOK
    OBVIOUS
  <2>1. fds \in [FD -> Resource]
    BY DEF ServerTypes, ThreadsInv, Shaped, FilesTyped
  <2>2. mutex \subseteq Client
    BY DEF ServerTypes, ThreadsInv, ResponsesExclusive
  <2>3. pc \in [Client -> Label] /\ queue \in Seq(Client)
    BY DEF ServerTypes, ThreadsInv, Shaped
  <2>4. \A c \in Client : /\ {worker[c].client, worker[c].file, worker[c].again} \subseteq FD
                          /\ conn[c].taken <= conn[c].sent /\ conn[c].sent <= Len(Stream[c])
    BY DEF ServerTypes, Sized, WorkerOK, ConnOK
  <2>5. MainOK
    BY DEF ServerTypes, Sized
  <2> QED
    BY <2>1, <2>2, <2>3, <2>4, <2>5 DEF TypeOK, MainOK, Label
<1> QED
  BY <1>1, <1>2, <1>3, PTL DEF Spec

-----------------------------------------------------------------------------
(* What is sent back.                                                      *)

\* No command has to go, so that the device only grows at its end.
LEMMA DeviceGrows ==
  ASSUME ServerInv, Buffered, DeviceTyped, Counted, RoomForAll, [Next]_vars
  PROVE  Counted' /\ \E x \in Seq(Nat) : Bytes' = Bytes \o x
<1>1. Len(recent) \in Nat
  BY DEF DeviceTyped
<1>2. CASE device' = device
  <2>1. recent' = recent /\ Bytes' = Bytes /\ Bytes \in Seq(Nat)
    BY <1>2, FlattenTyped DEF device, Bytes, DeviceTyped
  <2>2. Bytes' = Bytes \o << >> /\ << >> \in Seq(Nat)
    BY <2>1, ConcatEmptySeq
  <2> QED
    BY <1>1, <2>1, <2>2, RoomLeft
<1>3. CASE device' # device
  <2>1. PICK c \in Client : WriteCommand(c) \/ LocalWrite(c)
    BY <1>3, DeviceSteps
  <2>2. Len(recent) < MaxOps /\ (Len(recent') \in Nat /\ Len(recent') <= Len(recent) + 1 => Counted')
    BY <1>1, <2>1, RoomLeft
  <2>3. PICK d \in Seq(Nat) : Device!Commit(d)
    <3>1. worker[c].buf \in Seq(Nat) /\ Stream[c] \in Seq(Nat)
      BY AesdSocketAssumption DEF ServerInv, Sized, WorkerOK
    <3>2. Device!Commit(worker[c].buf) \/ Device!Commit(Stream[c])
      BY <2>1, ZenonT(40) DEF WriteCommand, LocalWrite
    <3> QED
      BY <3>1, <3>2, Zenon
  <2>4. Len(recent') <= Len(recent) + 1 /\ \E x \in Seq(Nat) : Bytes' = Bytes \o x
    BY <2>2, <2>3, CommitKeeps
  <2>5. Len(recent') \in Nat
    BY <2>3, CommitKeeps DEF DeviceTyped
  <2> QED
    BY <2>2, <2>4, <2>5
<1> QED
  BY <1>2, <1>3


\* The bytes u were sent, from some place of B up to pos, and e begins at the
\* same place.
SentFrom(B, u, pos, e) == \E s : Within(B, s, u) /\ s + Len(u) = pos /\ Within(B, s, e)

\* A worker at label l whose client got g, which is to begin with e; it has k
\* in hand, the device is open at p, or at q while the response is sent.
AnswerAt(B, l, g, e, k, p, q, flag) ==
  /\ l \in {"none", "open", "recv", "command", "respond", "reopen"} => g = << >>
  /\ l = "respond" => Within(B, IF flag THEN p ELSE 0, e)
  /\ l = "reopen" => Within(B, 0, e)
  /\ l = "read" => SentFrom(B, g, q, e)
  /\ l = "send" => SentFrom(B, g \o k, q, e)

Answer(c) ==
  AnswerAt(Bytes, pc[c], conn[c].got, worker[c].expect, worker[c].chunk,
           fds[worker[c].file].pos, fds[worker[c].again].pos, ioctl_just_performed)

Answers == ~Stopped => \A c \in Client : Answer(c)

\* What a step leaves, seen in the bytes B.
AnswerNext(c, B) ==
  AnswerAt(B, pc'[c], conn'[c].got, worker'[c].expect, worker'[c].chunk,
           fds'[worker'[c].file].pos, fds'[worker'[c].again].pos, ioctl_just_performed')

LEMMA InitAnswers == Init => Answers
BY DEF Init, Answers, Answer, AnswerAt, NoConn

LEMMA SentGrown ==
  ASSUME NEW B \in Seq(Nat), NEW x \in Seq(Nat), NEW u, NEW pos, NEW e, SentFrom(B, u, pos, e)
  PROVE  SentFrom(B \o x, u, pos, e)
<1>1. PICK s : Within(B, s, u) /\ s + Len(u) = pos /\ Within(B, s, e)
  BY DEF SentFrom
<1>2. Within(B \o x, s, u) /\ Within(B \o x, s, e)
  BY <1>1, WithinGrown
<1> QED
  BY <1>1, <1>2 DEF SentFrom

LEMMA AnswerGrown ==
  ASSUME NEW B \in Seq(Nat), NEW x \in Seq(Nat), NEW l, NEW g, NEW e, NEW k, NEW p, NEW q, NEW flag,
         AnswerAt(B, l, g, e, k, p, q, flag)
  PROVE  AnswerAt(B \o x, l, g, e, k, p, q, flag)
<1>1. l = "respond" => Within(B \o x, IF flag THEN p ELSE 0, e)
  BY WithinGrown DEF AnswerAt
<1>2. l = "reopen" => Within(B \o x, 0, e)
  BY WithinGrown DEF AnswerAt
<1>3. l = "read" => SentFrom(B \o x, g, q, e)
  BY SentGrown DEF AnswerAt
<1>4. l = "send" => SentFrom(B \o x, g \o k, q, e)
  BY SentGrown DEF AnswerAt
<1> QED
  BY <1>1, <1>2, <1>3, <1>4 DEF AnswerAt

\* A client that a step does not concern: all that its answer depends on is the
\* same, or it has no worker and is sent nothing.
Quiet(d) ==
  /\ pc'[d] = pc[d] /\ conn'[d].got = conn[d].got /\ worker'[d] = worker[d]
  /\ fds'[worker[d].file].pos = fds[worker[d].file].pos
  /\ fds'[worker[d].again].pos = fds[worker[d].again].pos
  /\ ioctl_just_performed' = ioctl_just_performed

Idle(d) ==
  /\ pc[d] \in {"none", "done"} /\ pc'[d] \in {"none", "open", "done"}
  /\ pc[d] = "done" => pc'[d] = "done"
  /\ conn'[d].got \in {conn[d].got, << >>}

LEMMA UnconcernedAnswers ==
  ASSUME NEW d \in Client, Answer(d), Quiet(d) \/ Idle(d)
  PROVE  AnswerNext(d, Bytes)
BY DEF Answer, AnswerNext, AnswerAt, Quiet, Idle

LEMMA CloseFdGot ==
  ASSUME ThreadsInv, NEW n, CloseFd(n)
  PROVE  \A d \in Client : conn'[d].got \in {conn[d].got, << >>}
BY DEF CloseFd, ThreadsInv, Shaped, Over, NoConn

\* The main thread sends nothing.
LEMMA MainUnconcerned ==
  ASSUME ServerInv, MainThread \/ SignalMain, ~Stopped', NEW d \in Client
  PROVE  Quiet(d) \/ Idle(d)
<1>0. ThreadsInv /\ Serial
  BY DEF ServerInv
<1>1. CASE Check \/ EnterAccept \/ AcceptFails \/ MallocArgs \/ ThreadNodeAdd \/ ThreadJoin
           \/ SignalMain
  <2>1. UNCHANGED <<pc, worker, conn, fds, ioctl_just_performed>>
    BY <1>1 DEF Check, EnterAccept, AcceptFails, MallocArgs, ThreadNodeAdd, ThreadJoin, SignalMain,
                apart, process, network, shared
  <2> QED
    BY <2>1 DEF Quiet
<1>2. CASE Accept \/ DropClient \/ CreateThread
  <2>1. main \in {"accept", "args", "create"}
    BY <1>2 DEF Accept, DropClient, CreateThread, MainStep
  <2>2. pc[d] \in {"none", "done"}
    BY <1>0, <2>1 DEF Serial, Stopped, Running
  <2>3. CASE Accept
    BY <2>2, <2>3 DEF Accept, apart, Idle
  <2>4. CASE DropClient
    <3>1. UNCHANGED pc /\ conn'[d].got \in {conn[d].got, << >>}
      BY <1>0, <2>4, CloseFdGot DEF DropClient, apart
    <3> QED
      BY <2>2, <3>1 DEF Idle
  <2>5. CASE CreateThread
    <3>1. UNCHANGED conn /\ pc' = [pc EXCEPT ![client_addr] = "open"] /\ main = "create"
      BY <2>5 DEF CreateThread, MainStep, network
    <3>2. pc[client_addr] = "none" /\ pc \in [Client -> Label]
      BY <1>0, <3>1 DEF ThreadsInv, ServedOnce, Unserved, Shaped
    <3> QED
      BY <2>2, <3>1, <3>2 DEF Idle
  <2> QED
    BY <1>2, <2>3, <2>4, <2>5
<1>3. CASE Clean
  BY <1>3 DEF Clean, MainStep, Stopped
<1> QED
  BY <1>1, <1>2, <1>3 DEF MainThread

\* Nor do the clients.
LEMMA ClientsUnconcerned ==
  ASSUME ServerInv, NEW c \in Client, Connect(c) \/ Deliver(c) \/ HangUp(c) \/ LocalWrite(c),
         NEW d \in Client
  PROVE  Quiet(d) \/ Idle(d)
<1>0. ThreadsInv
  BY DEF ServerInv
<1>1. UNCHANGED <<worker, fds, ioctl_just_performed>>
  BY DEF Connect, Deliver, HangUp, LocalWrite, apart, process, shared
<1>2. conn'[d].got = conn[d].got
  BY <1>0, SMTT(40) DEF Connect, Deliver, HangUp, LocalWrite, network, ThreadsInv, Shaped, IsConn, NoConn
<1>3. pc' = pc \/ (pc[c] = "none" /\ pc' = [pc EXCEPT ![c] = "done"])
  BY DEF Connect, Deliver, HangUp, LocalWrite, apart
<1>4. pc \in [Client -> Label]
  BY <1>0 DEF ThreadsInv, Shaped
<1> QED
  BY <1>1, <1>2, <1>3, <1>4 DEF Quiet, Idle

\* The assignments to the locals of a worker that has expect and chunk.
LEMMA LocalsKept ==
  ASSUME NEW w, IsWorker(w), NEW n, NEW v
  PROVE  /\ [w EXCEPT !.file = n].expect = w.expect
         /\ [w EXCEPT !.again = n].expect = w.expect /\ [w EXCEPT !.again = n].again = n
         /\ [w EXCEPT !.chunk = v].expect = w.expect /\ [w EXCEPT !.chunk = v].again = w.again
         /\ [w EXCEPT !.chunk = v].chunk = v
         /\ [w EXCEPT !.buf = << >>, !.expect = v].expect = v
         /\ [w EXCEPT !.buf = << >>, !.expect = v].file = w.file
BY DEF IsWorker, NoWorker

\* What a recv changes of the connections.
LEMMA ReceiveTakes ==
  ASSUME ServerInv, NEW c \in Client, Receive(c)
  PROVE  /\ \E w : \E to \in {"command", "recv", "close_file"} : Move(c, "recv", to, w)
         /\ \A d \in Client : conn'[d].got = conn[d].got
<1>1. \E w : \E to \in {"command", "recv", "close_file"} : Move(c, "recv", to, w)
  BY ZenonT(40) DEF Receive
<1>2. \E n : Take(c, n)
  BY ZenonT(40) DEF Receive
<1>3. \E k : conn' = [Left(c) EXCEPT ![Source(c)].taken = k]
  BY <1>2 DEF Take
<1>4. ~Stopped /\ pc[c] = "recv"
  BY <1>1 DEF Move
<1>5. Left(c) = conn
  BY <1>4, Alone DEF ServerInv
<1>6. \A d \in Client : conn'[d].got = conn[d].got
  BY <1>3, <1>5 DEF ServerInv, ThreadsInv, Shaped, IsConn, NoConn
<1> QED
  BY <1>1, <1>6

LEMMA Moved ==
  ASSUME ServerInv, NEW c \in Client, NEW from, NEW to, NEW w, Move(c, from, to, w)
  PROVE  pc[c] = from /\ pc'[c] = to /\ worker'[c] = w
BY DEF Move, ServerInv, ThreadsInv, Shaped

\* A worker that gives up, or is done, owes nothing.
LEMMA GivesUp ==
  ASSUME ServerInv, NEW c \in Client,
         \/ OpenDeviceFails(c) \/ ReceiveFails(c) \/ ReceiveInterrupted(c) \/ CommandFails(c)
         \/ RespondFails(c) \/ ReopenFails(c) \/ ReadEnd(c) \/ ReadInterrupted(c) \/ SendFails(c)
         \/ CloseFile(c) \/ CloseClient(c)
  PROVE  pc'[c] \in {"close_file", "close_client", "done"} /\ AnswerNext(c, Bytes)
<1>1. pc \in [Client -> Label]
  BY DEF ServerInv, ThreadsInv, Shaped
<1>2. \E to \in {"close_file", "close_client", "done"} : pc' = [pc EXCEPT ![c] = to]
  <2>1. CASE OpenDeviceFails(c) \/ ReceiveFails(c) \/ ReceiveInterrupted(c) \/ CommandFails(c)
    BY <2>1, ZenonT(40) DEF OpenDeviceFails, ReceiveFails, ReceiveInterrupted, CommandFails, Move
  <2>2. CASE RespondFails(c) \/ ReopenFails(c) \/ ReadEnd(c) \/ ReadInterrupted(c)
    BY <2>2 DEF RespondFails, ReopenFails, ReadEnd, ReadInterrupted, Responded, Move
  <2>3. CASE SendFails(c) \/ CloseFile(c) \/ CloseClient(c)
    BY <2>3 DEF SendFails, CloseFile, CloseClient, Move
  <2> QED
    BY <2>1, <2>2, <2>3
<1> QED
  BY <1>1, <1>2 DEF AnswerNext, AnswerAt

\* Until the command, nothing is sent.
LEMMA ReceivesUnanswered ==
  ASSUME ServerInv, NEW c \in Client, Answer(c), OpenDevice(c) \/ Blocks(c) \/ Receive(c)
  PROVE  AnswerNext(c, Bytes)
<1>1. pc \in [Client -> Label]
  BY DEF ServerInv, ThreadsInv, Shaped
<1>2. CASE OpenDevice(c)
  <2>1. pc[c] = "open" /\ pc' = [pc EXCEPT ![c] = "recv"] /\ UNCHANGED conn
    BY <1>2 DEF OpenDevice, Move, network
  <2> QED
    BY <1>1, <2>1 DEF Answer, AnswerNext, AnswerAt
<1>3. CASE Receive(c)
  <2>1. /\ pc[c] = "recv"
        /\ \E to \in {"command", "recv", "close_file"} : pc' = [pc EXCEPT ![c] = to]
    BY <1>3, ReceiveTakes DEF Move
  <2>2. conn'[c].got = conn[c].got
    BY <1>3, ReceiveTakes
  <2> QED
    BY <1>1, <2>1, <2>2 DEF Answer, AnswerNext, AnswerAt
<1>4. CASE Blocks(c)
  <2>1. pc[c] = "recv" /\ pc' = pc /\ UNCHANGED conn
    BY <1>4, BlockedInRecv DEF network
  <2> QED
    BY <2>1 DEF Answer, AnswerNext, AnswerAt
<1> QED
  BY <1>2, <1>3, <1>4

\* What a command calls for: the device from the byte that was asked for.
LEMMA SeekAnswers ==
  ASSUME ServerInv, DeviceTyped, NEW c \in Client, Answer(c), SeekCommand(c)
  PROVE  AnswerNext(c, Bytes)
<1>1. PICK to \in Nat :
        /\ to < Len(Bytes) /\ fds' = [fds EXCEPT ![worker[c].file].pos = to]
        /\ Move(c, "command", "respond",
                [worker[c] EXCEPT !.buf = << >>, !.expect = SubSeq(Bytes, to + 1, Len(Bytes))])
  BY ZenonT(40), CommandSeeks DEF ServerInv
<1>2. ioctl_just_performed' = TRUE /\ UNCHANGED conn
  BY ZenonT(40) DEF SeekCommand, network
<1>3. Bytes \in Seq(Nat) /\ Len(Bytes) \in Nat
  BY FlattenTyped DEF Bytes, DeviceTyped
<1>4. Within(Bytes, to, SubSeq(Bytes, to + 1, Len(Bytes)))
  <2>1. PICK n \in Nat : n = Len(Bytes)
    BY <1>3
  <2>2. to <= n
    BY <1>1, <2>1
  <2> QED
    BY <1>3, <2>1, <2>2, WithinSlice
<1>5. IsWorker(worker[c]) /\ worker[c].file \in FD
  BY DEF ServerInv, ThreadsInv, Shaped, Sized, WorkerOK
<1>6. /\ pc[c] = "command" /\ pc'[c] = "respond"
      /\ worker'[c].expect = SubSeq(Bytes, to + 1, Len(Bytes)) /\ worker'[c].file = worker[c].file
  <2> DEFINE e == SubSeq(Bytes, to + 1, Len(Bytes))
  <2>1. /\ pc[c] = "command" /\ pc'[c] = "respond"
        /\ worker'[c] = [worker[c] EXCEPT !.buf = << >>, !.expect = e]
    BY <1>1, Moved
  <2> HIDE DEF e
  <2>2. worker'[c].expect = e /\ worker'[c].file = worker[c].file
    BY <1>5, <2>1, LocalsKept
  <2> QED
    BY <2>1, <2>2 DEF e
<1>7. fds'[worker[c].file].pos = to
  BY <1>1, <1>5 DEF ServerInv, ThreadsInv, Shaped, IsFile, NoFile
<1>8. conn'[c].got = << >>
  BY <1>2, <1>6 DEF Answer, AnswerAt
<1> QED
  BY <1>2, <1>4, <1>6, <1>7, <1>8, ZenonT(40) DEF AnswerNext, AnswerAt

\* The device is reopened, at its first byte, or stays where the seek left it.
LEMMA RespondAnswers ==
  ASSUME ServerInv, FilesTyped, NEW c \in Client, Answer(c), Respond(c)
  PROVE  AnswerNext(c, Bytes)
<1>1. pc[c] = "respond" /\ ~Stopped
  BY DEF Respond, Move
<1>2. IsWorker(worker[c]) /\ Owns(fds, c, pc[c], worker[c]) /\ worker[c].file \in FD
  BY <1>1, AtWork DEF ServerInv, WorkerOK
<1>3. /\ conn[c].got = << >>
      /\ Within(Bytes, IF ioctl_just_performed THEN fds[worker[c].file].pos ELSE 0, worker[c].expect)
  BY <1>1 DEF Answer, AnswerAt
<1>4. CASE ioctl_just_performed
  <2>1. Move(c, "respond", "read", [worker[c] EXCEPT !.again = worker[c].file]) /\ UNCHANGED <<fds, conn>>
    BY <1>4 DEF Respond, KeepPosition
  <2>2. /\ pc'[c] = "read" /\ worker'[c].expect = worker[c].expect
        /\ worker'[c].again = worker[c].file
    BY <1>2, <2>1, LocalsKept DEF Move, ServerInv, ThreadsInv, Shaped
  <2>3. SentFrom(Bytes, << >>, fds[worker[c].file].pos, worker[c].expect)
    <3>1. PICK pos \in Nat : pos = fds[worker[c].file].pos
      BY <1>2 DEF FilesTyped, Resource
    <3>2. Within(Bytes, pos, worker[c].expect)
      BY <1>3, <1>4, <3>1
    <3>3. Within(Bytes, pos, << >>) /\ pos + Len(<< >>) = pos
      BY <3>2, WithinNothing DEF Within
    <3> QED
      BY <3>1, <3>2, <3>3 DEF SentFrom
  <2> QED
    BY <1>3, <2>1, <2>2, <2>3 DEF AnswerNext, AnswerAt
<1>5. CASE ~ioctl_just_performed
  <2>1. Move(c, "respond", "reopen", worker[c]) /\ CloseFd(worker[c].file)
    BY <1>5 DEF Respond, KeepPosition
  <2>2. pc'[c] = "reopen" /\ worker'[c] = worker[c]
    BY <2>1 DEF Move, ServerInv, ThreadsInv, Shaped
  <2>3. conn'[c].got = << >>
    BY <1>3, <2>1, CloseFdGot DEF ServerInv
  <2> QED
    BY <1>3, <1>5, <2>2, <2>3 DEF AnswerNext, AnswerAt
<1> QED
  BY <1>4, <1>5

LEMMA ReopenAnswers ==
  ASSUME ServerInv, DeviceTyped, NEW c \in Client, Answer(c), Reopen(c)
  PROVE  AnswerNext(c, Bytes)
<1>1. PICK n \in FD : /\ Install(n, "dev", c) /\ UNCHANGED conn
                      /\ Move(c, "reopen", "read", [worker[c] EXCEPT !.again = n])
  BY DEF Reopen, Lowest, network
<1>2. IsWorker(worker[c])
  BY DEF ServerInv, ThreadsInv, Shaped
<1>3. /\ pc[c] = "reopen" /\ pc'[c] = "read"
      /\ worker'[c].expect = worker[c].expect /\ worker'[c].again = n
  <2>1. pc[c] = "reopen" /\ pc'[c] = "read" /\ worker'[c] = [worker[c] EXCEPT !.again = n]
    BY <1>1, Moved
  <2> QED
    BY <1>2, <2>1, LocalsKept
<1>4. fds'[n].pos = 0
  BY <1>1 DEF Install, ServerInv, ThreadsInv, Shaped
<1>5. conn[c].got = << >> /\ Within(Bytes, 0, worker[c].expect)
  BY <1>3 DEF Answer, AnswerAt
<1>6. SentFrom(Bytes, << >>, 0, worker[c].expect)
  BY <1>5, WithinNothing DEF SentFrom
<1> QED
  BY <1>1, <1>3, <1>4, <1>5, <1>6 DEF AnswerNext, AnswerAt

\* Each chunk is what follows what was sent.
LEMMA ReadAnswers ==
  ASSUME ServerInv, DeviceTyped, FilesTyped, NEW c \in Client, Answer(c), ReadChunk(c)
  PROVE  AnswerNext(c, Bytes)
<1>1. PICK pos, end \in Nat :
        /\ pos = fds[worker[c].again].pos /\ pos < end /\ end <= Len(Bytes)
        /\ fds' = [fds EXCEPT ![worker[c].again].pos = end]
        /\ Move(c, "read", "send", [worker[c] EXCEPT !.chunk = SubSeq(Bytes, pos + 1, end)])
  BY ChunkRead DEF ServerInv
<1>2. UNCHANGED conn
  BY DEF ReadChunk, network
<1>3. IsWorker(worker[c]) /\ worker[c].again \in FD
  BY DEF ServerInv, ThreadsInv, Shaped, Sized, WorkerOK
<1>4. /\ pc[c] = "read" /\ pc'[c] = "send" /\ worker'[c].expect = worker[c].expect
      /\ worker'[c].again = worker[c].again /\ worker'[c].chunk = SubSeq(Bytes, pos + 1, end)
  <2> DEFINE v == SubSeq(Bytes, pos + 1, end)
  <2>1. pc[c] = "read" /\ pc'[c] = "send" /\ worker'[c] = [worker[c] EXCEPT !.chunk = v]
    BY <1>1, Moved
  <2> HIDE DEF v
  <2>2. /\ worker'[c].expect = worker[c].expect /\ worker'[c].again = worker[c].again
        /\ worker'[c].chunk = v
    BY <1>3, <2>1, LocalsKept
  <2> QED
    BY <2>1, <2>2 DEF v
<1>5. fds'[worker[c].again].pos = end
  BY <1>1, <1>3 DEF ServerInv, ThreadsInv, Shaped, IsFile, NoFile
<1>6. PICK k : k = SubSeq(Bytes, pos + 1, end)
  OBVIOUS
<1>7. Within(Bytes, pos, k) /\ Len(k) = end - pos
  <2>1. Bytes \in Seq(Nat) /\ pos <= end
    BY <1>1, FlattenTyped DEF Bytes, DeviceTyped
  <2> QED
    BY <1>1, <1>6, <2>1, WithinSlice
<1>8. PICK s : /\ Within(Bytes, s, conn[c].got) /\ s + Len(conn[c].got) = pos
               /\ Within(Bytes, s, worker[c].expect)
  BY <1>1, <1>4 DEF Answer, AnswerAt, SentFrom
<1>9. SentFrom(Bytes, conn[c].got \o k, end, worker[c].expect)
  <2>1. Bytes \in Seq(Nat)
    BY FlattenTyped DEF Bytes, DeviceTyped
  <2>2. Within(Bytes, s, conn[c].got \o k) /\ Len(conn[c].got \o k) = Len(conn[c].got) + Len(k)
    <3>1. PICK u : u = conn[c].got
      OBVIOUS
    <3>2. Within(Bytes, s, u) /\ Within(Bytes, s + Len(u), k)
      BY <1>7, <1>8, <3>1, Zenon
    <3>3. Within(Bytes, s, u \o k) /\ Len(u \o k) = Len(u) + Len(k)
      BY <2>1, <3>2, WithinJoined
    <3> QED
      BY <3>1, <3>3, Zenon
  <2>3. PICK g, n \in Nat : g = Len(conn[c].got) /\ n = Len(k)
    BY <1>7, <1>8 DEF Within
  <2>4. s \in Nat
    BY <1>8 DEF Within
  <2>5. s + (g + n) = end
    <3>1. s + g = pos /\ n = end - pos
      BY <1>7, <1>8, <2>3, Zenon
    <3> QED
      BY <2>3, <2>4, <3>1
  <2> QED
    BY <1>8, <2>2, <2>3, <2>5 DEF SentFrom
<1> QED
  BY <1>2, <1>4, <1>5, <1>6, <1>9 DEF AnswerNext, AnswerAt

LEMMA SendAnswers ==
  ASSUME ServerInv, NEW c \in Client, Answer(c), Send(c)
  PROVE  /\ AnswerNext(c, Bytes)
         /\ \A d \in Client : d # c => conn'[d].got = conn[d].got
<1>1. /\ Move(c, "send", "read", [worker[c] EXCEPT !.chunk = << >>])
      /\ UNCHANGED <<fds, ioctl_just_performed>>
  BY DEF Send, process, shared
<1>2. pc[c] = "send" /\ ~Stopped
  BY <1>1 DEF Move
<1>3. IsWorker(worker[c]) /\ Owns(fds, c, pc[c], worker[c])
  BY <1>2, AtWork DEF ServerInv
<1>4. Socket(c).who = c
  BY <1>3 DEF Owns, Own, Socket
<1>5. \E rst : conn' = [conn EXCEPT ![c].got = @ \o worker[c].chunk, ![c].rst = rst]
  BY <1>4 DEF Send, Sent
<1>6. /\ conn'[c].got = conn[c].got \o worker[c].chunk
      /\ \A d \in Client : d # c => conn'[d].got = conn[d].got
  <2>1. PICK rst, v : /\ v = conn[c].got \o worker[c].chunk
                      /\ conn' = [conn EXCEPT ![c].got = v, ![c].rst = rst]
    BY <1>5
  <2> QED
    BY <2>1 DEF ServerInv, ThreadsInv, Shaped, IsConn, NoConn
<1>7. /\ pc'[c] = "read" /\ worker'[c].expect = worker[c].expect /\ worker'[c].again = worker[c].again
  BY <1>1, <1>3, LocalsKept DEF Move, ServerInv, ThreadsInv, Shaped
<1> QED
  BY <1>1, <1>2, <1>6, <1>7 DEF Answer, AnswerNext, AnswerAt

\* A write is answered with the whole device.
LEMMA WriteAnswers ==
  ASSUME ServerInv, DeviceTyped, DeviceTyped', NEW c \in Client, Answer(c), WriteCommand(c)
  PROVE  AnswerNext(c, Bytes')
<1>1. /\ Move(c, "command", "respond", [worker[c] EXCEPT !.buf = << >>, !.expect = FlattenSeq(recent')])
      /\ ioctl_just_performed' = FALSE /\ UNCHANGED conn
  BY ZenonT(40) DEF WriteCommand, network
<1>2. IsWorker(worker[c])
  BY DEF ServerInv, ThreadsInv, Shaped
<1>3. PICK e : e = FlattenSeq(recent')
  OBVIOUS
<1>4. pc[c] = "command" /\ pc'[c] = "respond" /\ worker'[c].expect = e
  <2>1. /\ pc[c] = "command" /\ pc'[c] = "respond"
        /\ worker'[c] = [worker[c] EXCEPT !.buf = << >>, !.expect = e]
    BY <1>1, <1>3, Moved
  <2> QED
    BY <1>2, <2>1, LocalsKept
<1>5. Bytes' = e /\ e \in Seq(Nat)
  BY <1>3, FlattenTyped DEF Bytes, DeviceTyped
<1>6. Within(e, 0, e)
  BY <1>5 DEF Within
<1>7. conn'[c].got = << >>
  BY <1>1, <1>4 DEF Answer, AnswerAt
<1> QED
  BY <1>1, <1>4, <1>5, <1>6, <1>7 DEF AnswerNext, AnswerAt

\* The worker that runs is the only one, and its step concerns nobody else.
LEMMA OthersUnconcerned ==
  ASSUME ServerInv, Uninterrupted, NEW c \in Client, Worker(c) \/ RespondFails(c) \/ Interrupted(c),
         ~BrokenPipe(c), \A d \in Client : Answer(d), NEW d \in Client, d # c
  PROVE  Idle(d)
<1>0. ThreadsInv
  BY DEF ServerInv
<1>1. /\ ~Stopped /\ pc[c] \notin {"none", "done"} /\ pc'[d] = pc[d]
      /\ conn'[d].got \in {conn[d].got, << >>}
  <2>1. CASE Receive(c)
    <3>1. conn'[d].got = conn[d].got /\ \E to, w : Move(c, "recv", to, w)
      BY <2>1, ReceiveTakes
    <3>2. ~Stopped /\ pc[c] \notin {"none", "done"} /\ pc'[d] = pc[d]
      BY <1>0, <3>1 DEF Move, ThreadsInv, Shaped
    <3> QED
      BY <3>1, <3>2
  <2>2. CASE Blocks(c)
    BY <2>2, BlockedInRecv DEF network
  <2>3. CASE ~Receive(c) /\ ~Blocks(c)
    <3>1. ~Stopped /\ pc[c] \notin {"none", "done"} /\ pc' = [pc EXCEPT ![c] = pc'[c]]
      BY <2>3, WorkerUndisturbed
    <3>2. pc'[d] = pc[d]
      <4>1. PICK l : pc' = [pc EXCEPT ![c] = l]
        BY <3>1
      <4> QED
        BY <1>0, <4>1 DEF ThreadsInv, Shaped
    <3>3. ~SendInterrupted(c) /\ ~ReadInterrupted(c)
      BY DEF SendInterrupted, ReadInterrupted, Uninterrupted
    <3>4. CASE Send(c)
      BY <3>1, <3>2, <3>4, SendAnswers
    <3>5. CASE Respond(c) \/ CloseFile(c) \/ CloseClient(c)
      <4>1. UNCHANGED conn \/ \E n : CloseFd(n)
        BY <3>5 DEF Respond, CloseFile, CloseClient
      <4> QED
        BY <1>0, <3>1, <3>2, <4>1, CloseFdGot
    <3>6. CASE ~Send(c) /\ ~Respond(c) /\ ~CloseFile(c) /\ ~CloseClient(c)
      <4>0. Left(c) = conn /\ ~ReadSocket(c) /\ ~WriteSocket(c)
        BY <3>1, Alone DEF ServerInv
      <4>1. CASE \/ OpenDevice(c) \/ OpenDeviceFails(c) \/ ReceiveFails(c) \/ ReceiveInterrupted(c)
                 \/ CommandFails(c) \/ WriteCommand(c) \/ SeekCommand(c)
        <5>1. UNCHANGED conn
          BY <4>0, <4>1, ZenonT(40) DEF OpenDevice, OpenDeviceFails, ReceiveFails, ReceiveInterrupted,
                                  CommandFails, WriteCommand, SeekCommand, network
        <5> QED
          BY <3>1, <3>2, <5>1
      <4>2. CASE \/ RespondFails(c) \/ Reopen(c) \/ ReopenFails(c) \/ ReadChunk(c) \/ ReadEnd(c)
                 \/ SendFails(c)
        <5>1. UNCHANGED conn
          BY <4>0, <4>2, ZenonT(40) DEF RespondFails, Reopen, ReopenFails, ReadChunk, ReadEnd, Responded,
                                        SendFails, network
        <5> QED
          BY <3>1, <3>2, <5>1
      <4> QED
        BY <2>3, <3>3, <3>6, <4>0, <4>1, <4>2 DEF Worker, Interrupted
    <3> QED
      BY <3>4, <3>5, <3>6
  <2> QED
    BY <2>1, <2>2, <2>3
<1>2. pc[d] \in {"none", "done"}
  <2>1. Running = {c}
    BY <1>1, AtWork DEF ServerInv
  <2> QED
    BY <2>1 DEF Running
<1> QED
  BY <1>1, <1>2 DEF Idle

LEMMA NextKeepsAnswers ==
  ASSUME Uninterrupted, RoomForAll, ServerInv, Buffered, DeviceTyped, FilesTyped, Counted, Answers,
         [Next]_vars
  PROVE  Answers'
<1> SUFFICES ASSUME ~Stopped', NEW d \in Client
             PROVE  Answer(d)'
  BY DEF Answers
<1>1. ~Stopped
  <2>1. CASE UNCHANGED vars
    BY <2>1 DEF vars, Stopped
  <2>2. CASE MainThread \/ SignalMain
    BY <2>2 DEF MainThread, Check, EnterAccept, Accept, AcceptFails, MallocArgs, DropClient,
                CreateThread, ThreadNodeAdd, ThreadJoin, Clean, SignalMain, MainStep, Stopped
  <2>3. ASSUME NEW c \in Client, Worker(c) \/ RespondFails(c) \/ Interrupted(c)
        PROVE  ~Stopped
    <3>1. CASE Receive(c)
      BY <3>1, ZenonT(40) DEF Receive, Move
    <3>2. CASE BrokenPipe(c)
      BY <3>2 DEF BrokenPipe
    <3>3. CASE Blocks(c)
      BY <3>3, BlockedInRecv
    <3> QED
      BY <2>3, <3>1, <3>2, <3>3, WorkerUndisturbed
  <2>4. ASSUME NEW c \in Client, Connect(c) \/ Deliver(c) \/ HangUp(c) \/ LocalWrite(c)
        PROVE  ~Stopped
    <3>1. main' = main
      BY <2>4 DEF Connect, Deliver, HangUp, LocalWrite
    <3> QED
      BY <3>1 DEF Stopped
  <2> QED
    BY <2>1, <2>2, <2>3, <2>4 DEF Next
<1>2. \A e \in Client : Answer(e)
  BY <1>1 DEF Answers
<1>3. DeviceTyped'
  BY NextKeepsDevice DEF ServerInv
<1>4. PICK x \in Seq(Nat) : Bytes' = Bytes \o x
  BY DeviceGrows
<1>5. Bytes \in Seq(Nat)
  BY FlattenTyped DEF Bytes, DeviceTyped
<1>6. ASSUME AnswerNext(d, Bytes)
      PROVE  AnswerNext(d, Bytes')
  <2>1. AnswerNext(d, Bytes \o x)
    BY <1>5, <1>6, AnswerGrown DEF AnswerNext
  <2> QED
    BY <1>4, <2>1, Zenon
<1>7. AnswerNext(d, Bytes')
  <2>1. CASE UNCHANGED vars
    <3>1. Quiet(d)
      BY <2>1 DEF vars, process, shared, network, Quiet
    <3> QED
      BY <1>2, <1>6, <3>1, UnconcernedAnswers
  <2>2. CASE MainThread \/ SignalMain
    BY <1>2, <1>6, <2>2, MainUnconcerned, UnconcernedAnswers
  <2>3. ASSUME NEW c \in Client, Connect(c) \/ Deliver(c) \/ HangUp(c) \/ LocalWrite(c)
        PROVE  AnswerNext(d, Bytes')
    BY <1>2, <1>6, <2>3, ClientsUnconcerned, UnconcernedAnswers
  <2>4. ASSUME NEW c \in Client, Worker(c) \/ RespondFails(c) \/ Interrupted(c)
        PROVE  AnswerNext(d, Bytes')
    <3>1. ~BrokenPipe(c)
      BY DEF BrokenPipe, Stopped
    <3>2. CASE d # c
      BY <1>2, <1>6, <2>4, <3>1, <3>2, OthersUnconcerned, UnconcernedAnswers
    <3>3. CASE d = c
      <4>1. CASE OpenDevice(d) \/ Blocks(d) \/ Receive(d)
        BY <1>2, <1>6, <4>1, ReceivesUnanswered
      <4>2. CASE SeekCommand(d)
        BY <1>2, <1>6, <4>2, SeekAnswers
      <4>3. CASE WriteCommand(d)
        BY <1>2, <1>3, <4>3, WriteAnswers
      <4>4. CASE Respond(d)
        BY <1>2, <1>6, <4>4, RespondAnswers
      <4>5. CASE Reopen(d)
        BY <1>2, <1>6, <4>5, ReopenAnswers
      <4>6. CASE ReadChunk(d)
        BY <1>2, <1>6, <4>6, ReadAnswers
      <4>7. CASE Send(d)
        BY <1>2, <1>6, <4>7, SendAnswers
      <4>8. CASE \/ OpenDeviceFails(d) \/ ReceiveFails(d) \/ ReceiveInterrupted(d) \/ CommandFails(d)
                 \/ RespondFails(d) \/ ReopenFails(d) \/ ReadEnd(d) \/ ReadInterrupted(d)
                 \/ SendFails(d) \/ CloseFile(d) \/ CloseClient(d)
        BY <1>6, <4>8, GivesUp
      <4>9. ~SendInterrupted(d) /\ ~ReadSocket(d) /\ ~WriteSocket(d)
        <5>1. pc[d] \in {"command", "read"} => ~ReadSocket(d) /\ ~WriteSocket(d)
          BY <1>1, Alone DEF ServerInv
        <5>2. pc[d] \notin {"command", "read"} => ~ReadSocket(d) /\ ~WriteSocket(d)
          BY ZenonT(40) DEF ReadSocket, WriteSocket
        <5> QED
          BY <5>1, <5>2 DEF SendInterrupted, Uninterrupted
      <4> QED
        BY <2>4, <3>1, <3>3, <4>1, <4>2, <4>3, <4>4, <4>5, <4>6, <4>7, <4>8, <4>9
        DEF Worker, Interrupted
    <3> QED
      BY <3>2, <3>3
  <2> QED
    BY <2>1, <2>2, <2>3, <2>4 DEF Next
<1> QED
  BY <1>7 DEF AnswerNext, Answer

\* A response is over only when the device has no more, unless a signal made a
\* read fail.
LEMMA ResponseEnds ==
  ASSUME Uninterrupted, ServerInv, DeviceTyped, Answers, [Next]_vars, NEW c \in Client,
         pc[c] = "read", pc'[c] = "close_file"
  PROVE  IsPrefix(worker[c].expect, conn[c].got) /\ IsSuffix(conn[c].got, Bytes)
<1>1. ReadEnd(c)
  <2>1. ~UNCHANGED vars
    BY DEF vars
  <2>2. ~MainThread /\ ~SignalMain
    <3>1. ASSUME MainThread \/ SignalMain
          PROVE  pc' = pc \/ pc' = [pc EXCEPT ![client_addr] = "open"]
      BY <3>1 DEF MainThread, Check, EnterAccept, Accept, AcceptFails, MallocArgs, DropClient,
                  CreateThread, ThreadNodeAdd, ThreadJoin, Clean, SignalMain, apart
    <3> QED
      BY <3>1 DEF ServerInv, ThreadsInv, Shaped
  <2>3. \A d \in Client : ~Connect(d) /\ ~Deliver(d) /\ ~HangUp(d) /\ ~LocalWrite(d)
    BY DEF Connect, Deliver, HangUp, LocalWrite, apart, ServerInv, ThreadsInv, Shaped
  <2>4. PICK d \in Client : Worker(d) \/ RespondFails(d) \/ Interrupted(d)
    BY <2>1, <2>2, <2>3 DEF Next
  <2>5. ~BrokenPipe(d)
    BY DEF BrokenPipe, apart
  <2>6. ~Receive(c) /\ ~Receive(d) /\ ~Blocks(c) /\ ~Blocks(d)
    <3>1. ASSUME Receive(d)
          PROVE  \E to, w : Move(d, "recv", to, w)
      BY <3>1, ZenonT(40) DEF Receive
    <3>2. ASSUME Receive(d)
          PROVE  FALSE
      BY <3>1, <3>2 DEF Move, ServerInv, ThreadsInv, Shaped
    <3>3. ~Receive(c)
      BY ZenonT(40) DEF Receive, Move
    <3>4. ~Blocks(c) /\ ~Blocks(d)
      BY BlockedInRecv
    <3> QED
      BY <3>2, <3>3, <3>4
  <2>7. d = c
    <3>1. pc' = [pc EXCEPT ![d] = pc'[d]]
      BY <2>4, <2>5, <2>6, WorkerUndisturbed
    <3>2. PICK l : pc' = [pc EXCEPT ![d] = l]
      BY <3>1
    <3> QED
      BY <3>2 DEF ServerInv, ThreadsInv, Shaped
  <2>8. Worker(c) \/ RespondFails(c) \/ Interrupted(c)
    BY <2>4, <2>7
  <2>9. /\ ~OpenDevice(c) /\ ~OpenDeviceFails(c) /\ ~ReceiveFails(c) /\ ~ReceiveInterrupted(c)
         /\ ~SeekCommand(c) /\ ~WriteCommand(c) /\ ~CommandFails(c)
    BY ZenonT(40) DEF OpenDevice, OpenDeviceFails, ReceiveFails, ReceiveInterrupted, SeekCommand,
                      WriteCommand, CommandFails, Move
  <2>10. /\ ~Respond(c) /\ ~RespondFails(c) /\ ~Reopen(c) /\ ~ReopenFails(c)
         /\ ~Send(c) /\ ~SendFails(c) /\ ~SendInterrupted(c) /\ ~CloseFile(c) /\ ~CloseClient(c)
    BY ZenonT(40) DEF Respond, RespondFails, Reopen, ReopenFails, Send, SendFails, SendInterrupted,
                      CloseFile, CloseClient, Move
  <2>11. ~ReadInterrupted(c) /\ ~WriteSocket(c)
    <3>1. ~WriteSocket(c)
      BY ZenonT(40) DEF WriteSocket
    <3> QED
      BY <3>1 DEF ReadInterrupted, Uninterrupted
  <2>12. ~ReadChunk(c) /\ ~ReadSocket(c)
    <3>1. ASSUME ReadChunk(c) \/ ReadSocket(c)
          PROVE  \E w : Move(c, "read", "send", w)
      BY <3>1, ZenonT(40) DEF ReadChunk, ReadSocket
    <3> QED
      BY <3>1 DEF Move, ServerInv, ThreadsInv, Shaped
  <2> QED
    BY <2>5, <2>6, <2>7, <2>8, <2>9, <2>10, <2>11, <2>12 DEF Worker, Interrupted
<1>2. ~Stopped
  BY <1>1 DEF ReadEnd, Responded, Move
<1>3. PICK s : /\ Within(Bytes, s, conn[c].got) /\ s + Len(conn[c].got) = fds[worker[c].again].pos
               /\ Within(Bytes, s, worker[c].expect)
  BY <1>2 DEF Answers, Answer, AnswerAt, SentFrom
<1>4. Owns(fds, c, pc[c], worker[c])
  BY <1>2, AtWork DEF ServerInv
<1>5. fds[worker[c].again].pos >= Len(Bytes)
  <2>1. Source(c) = 0
    BY <1>2, Alone DEF ServerInv
  <2> QED
    BY <1>1, <1>4, <2>1 DEF ReadEnd, NothingToRead, Owns, Own
<1>6. Bytes \in Seq(Nat)
  BY FlattenTyped DEF Bytes, DeviceTyped
<1>7. s + Len(conn[c].got) = Len(Bytes)
  <2>1. PICK a, n, g \in Nat : a = s /\ n = Len(Bytes) /\ g = Len(conn[c].got)
    <3>1. Len(Bytes) \in Nat
      BY <1>6
    <3>2. s \in Nat /\ Len(conn[c].got) \in Nat
      BY <1>3 DEF Within
    <3> QED
      BY <3>1, <3>2, Zenon
  <2>2. a + g <= n
    BY <1>3, <2>1 DEF Within
  <2>3. a + g >= n
    <3>1. PICK q : q = fds[worker[c].again].pos
      OBVIOUS
    <3>2. a + g = q
      BY <1>3, <2>1, <3>1, Zenon
    <3>3. q >= n
      BY <1>5, <2>1, <3>1
    <3> QED
      BY <3>2, <3>3
  <2>4. a + g = n
    BY <2>2, <2>3
  <2> QED
    BY <2>1, <2>4
<1> QED
  BY <1>3, <1>6, <1>7, WithinEnds

\* A response that is complete for the server begins with what the command asks
\* for and goes on to the end of the device, whatever other programs write
\* meanwhile and however it is cut into chunks: as long as the commands of all
\* clients fit in the device, and no signal interrupts a response.
THEOREM ServerAnswersFully ==
  ASSUME Uninterrupted, RoomForAll
  PROVE  Spec => ResponseFollowsDevice
<1> DEFINE Inv == ServerInv /\ Buffered /\ DeviceTyped /\ FilesTyped /\ Counted /\ Answers
           Ends == \A c \in Client : pc[c] = "read" /\ pc'[c] = "close_file" =>
                     IsPrefix(worker[c].expect, conn[c].got) /\ IsSuffix(conn[c].got, Bytes)
<1>1. "node" \notin Faults
  BY DEF Uninterrupted
<1>2. Spec => []ServerInv
  BY <1>1, ServerInvHolds
<1>3. Init => Buffered /\ DeviceTyped /\ FilesTyped /\ Answers /\ Counted
  <2>1. Init => Counted
    BY InitCounted
  <2> QED
    BY <2>1, InitBuffered, InitDevice, InitFiles, InitAnswers
<1>4. Inv /\ [Next]_vars => Buffered' /\ DeviceTyped' /\ FilesTyped' /\ Counted' /\ Answers'
  <2> SUFFICES ASSUME Inv, [Next]_vars
               PROVE  Buffered' /\ DeviceTyped' /\ FilesTyped' /\ Counted' /\ Answers'
    OBVIOUS
  <2>1. Buffered' /\ DeviceTyped' /\ FilesTyped'
    BY NextKeepsBuffered, NextKeepsDevice, NextKeepsFiles DEF ServerInv
  <2>2. Counted' /\ Answers'
    BY DeviceGrows, NextKeepsAnswers
  <2> QED
    BY <2>1, <2>2
<1>5. Inv /\ [Next]_vars => [Ends]_vars
  BY ResponseEnds
<1> QED
  BY <1>2, <1>3, <1>4, <1>5, PTL DEF Spec, ResponseFollowsDevice

=============================================================================
