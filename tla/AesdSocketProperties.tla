------------------------ MODULE AesdSocketProperties ------------------------
(***************************************************************************)
(* What the socket server must guarantee to its clients and its operator.  *)
(***************************************************************************)
EXTENDS AesdSocket

LOCAL INSTANCE SequencesExt

Resource == [kind : {"free", "listen", "sock", "dev"}, who : Client \cup {0}, pos : Nat]

\* Type correctness of the process, its threads and its connections.
TypeOK ==
  /\ main \in {"check", "enter", "accept", "args", "create", "node", "join", "final_join",
               "clean", "exited", "killed"}
  /\ exit_flag \in BOOLEAN /\ ioctl_just_performed \in BOOLEAN
  /\ client_fd \in FD /\ {client_addr, thread_id} \subseteq Client \cup {0}
  /\ nodes \in Seq(Client) /\ mutex \subseteq Client
  /\ fds \in [FD -> Resource]
  /\ pc \in [Client -> {"none", "open", "recv", "command", "respond", "reopen", "read", "send",
                        "close_file", "close_client", "done"}]
  /\ \A c \in Client : /\ {worker[c].client, worker[c].file, worker[c].again} \subseteq FD
                       /\ conn[c].taken <= conn[c].sent /\ conn[c].sent <= Len(Stream[c])
  /\ queue \in Seq(Client) /\ signals \in 0..MaxSignals

Running == {c \in Client : pc[c] \notin {"none", "done"}}

\* The server is multi-threaded in form only: main joins each thread before it
\* accepts again, so at most one worker runs, and everything below rests on it
\* (ioctl_just_performed is one flag for all, descriptors are reused at once).
OneWorkerAtATime ==
  ~Stopped => /\ \A c, d \in Running : c = d
              /\ Running # {} => main \in {"node", "join", "final_join"}

\* Every descriptor a worker is about to use is the one it opened itself, not
\* a number that was closed and given to somebody else.  This is where the
\* close and reopen in return_socketdata_to_client, which thread_operation
\* does not learn of, could go wrong.
DescriptorsAreOwn ==
  \A c \in Running :
    LET own(n, kind) == fds[n].kind = kind /\ fds[n].who = c
        w == worker[c]
    IN  ~Stopped =>
          /\ own(w.client, "sock")
          /\ pc[c] \in {"recv", "command", "respond"} => own(w.file, "dev")
          /\ pc[c] \in {"read", "send"} => own(w.again, "dev")
          /\ pc[c] = "close_file" => fds[w.file].kind = "free" \/ own(w.file, "dev")

\* No descriptor is lost: each open one is the listening socket, the client
\* that main is about to hand over, or one that a running worker will close.
NoDescriptorLeak ==
  ~Stopped =>
    \A n \in FD : fds[n].kind # "free" =>
      \/ n = 0
      \/ n = client_fd /\ main \in {"args", "create"}
      \/ \E c \in Running :
           \/ n = worker[c].client
           \/ n = worker[c].file /\ pc[c] # "close_client"

\* A response that the server believes to be complete is complete, even if
\* other programs write to the device while it is sent: it starts with what was
\* asked for (the whole device after a write, the part from the requested byte
\* after a seek) and runs on to the end of what the device then holds.  No byte
\* is skipped or sent twice.  It holds while no command has to go from
\* the device and no signal interrupts a read or a send: either leaves a gap.
ResponseFollowsDevice ==
  [][\A c \in Client : pc[c] = "read" /\ pc'[c] = "close_file" =>
       IsPrefix(worker[c].expect, conn[c].got) /\ IsSuffix(conn[c].got, Bytes)]_vars

\* What the server stores for a client is exactly what was received from it, in
\* one command, however the bytes were split by the network and however often
\* the receive buffer had to grow.  It follows what another program has left
\* without a newline, and of the other commands only the oldest may have to go.
StoresWhatWasSent ==
  [][device' # device /\ (\A c \in Local : UNCHANGED pc[c]) =>
       \E c \in Client : /\ pc[c] = "command" /\ pc'[c] = "respond" /\ pending' = << >>
                         /\ LET command == pending \o SubSeq(Stream[c], 1, conn[c].taken)
                            IN  recent' = Device!History!Remember(recent, command)]_vars

\* recv is never called without room, where its result 0 would be taken for
\* the end of the connection.
RoomToReceive ==
  \A c \in Client : pc[c] = "recv" => worker[c].size - Len(worker[c].buf) - 1 > 0

\* mutex_read_write does what it is there for, also when threads run at the same
\* time: it is held from before the reopen until the last byte is sent, by one
\* worker, and given back after every way a response can end.  (It keeps threads
\* apart, not descriptors: a worker whose number was closed and given away may
\* still send to the wrong client, WriteSocket and ReadSocket of AesdSocket.)
ResponsesExclusive ==
  /\ mutex = {c \in Client : pc[c] \in {"reopen", "read", "send"}}
  /\ \A c, d \in mutex : c = d

-----------------------------------------------------------------------------
(* Progress.                                                               *)

\* No recv, and no read from a socket, waits for ever for a client that neither
\* sends nor closes.  (The server has no timeout: one such client is enough to
\* stop it.)
NobodyIsSilent == \A c \in Client : []<>~Waits(c)

\* Every client that connects is served or dropped, and its connection is
\* closed, unless the server is told to stop; in particular no error path
\* keeps mutex_read_write and starves the next worker.
EveryClientIsClosed ==
  NobodyIsSilent => \A c \in Client : conn[c].up = "yes" ~> conn[c].up = "closed" \/ Stopped

\* A signal stops the server unless it finds main between the test of
\* exit_flag and the return of accept without interrupting it: then one more
\* client is accepted, and after that one it stops.
StopsUnlessMissed ==
  NobodyIsSilent => (exit_flag /\ main \notin {"enter", "accept"} ~> Stopped)

\* A signal stops the server.
GracefulShutdown == NobodyIsSilent => (exit_flag ~> main = "exited")

=============================================================================
