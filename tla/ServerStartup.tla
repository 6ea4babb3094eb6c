---------------------------- MODULE ServerStartup ----------------------------
(***************************************************************************)
(* How the socket server comes up and goes down: main of aesdsocket.c up   *)
(* to the accept loop (which is module AesdSocket), create_daemon with the *)
(* process it forks, the registration of the signal handlers, and          *)
(* aesdsocket-start-stop.sh.  start-stop-daemon and the kernel are         *)
(* external.  The script runs start-stop-daemon without -b, so it waits for *)
(* the process that create_daemon leaves behind, and reports on that; every *)
(* exit of the server is with 0.                                           *)
(***************************************************************************)
EXTENDS Naturals

CONSTANTS
  Process,  \* processes; each is used at most once
  None,     \* no process
  Faults    \* calls that may fail

ASSUME ServerStartupAssumption ==
  /\ None \notin Process
  /\ Faults \subseteq {"socket", "bind", "fork", "session", "listen", "sigaction"}

VARIABLES
  pc,        \* the next step of each process
  family,    \* the process that was started, for it and the one it forked
  daemon,    \* daemon_mode
  handled,   \* whether SIGTERM runs signal_handler
  listener,  \* the family whose socket listens at the port
  script,    \* the process that a start in progress waits for
  stop,      \* where start-stop-daemon -K is: it scans, then it kills
  unseen,    \* the processes it has not looked at yet
  found,     \* those it has found and not yet killed
  due        \* the families whose start was over when it began

starting == <<family, daemon, handled, listener, script>>
stopping == <<stop, unseen, found, due>>
vars == <<pc, starting, stopping>>

Init ==
  /\ pc = [s \in Process |-> "none"] /\ family = [s \in Process |-> None]
  /\ daemon = [s \in Process |-> FALSE] /\ handled = [s \in Process |-> FALSE]
  /\ listener = None /\ script = None
  /\ stop = "none" /\ unseen = {} /\ found = {} /\ due = {}

Live == {s \in Process : pc[s] \notin {"none", "gone"}}

Set(f, s, v) == [f EXCEPT ![s] = v]

\* Process s ends.  The kernel closes the socket when nobody of the family has it
\* open any more.
End(s) ==
  /\ pc' = Set(pc, s, "gone")
  /\ daemon' = Set(daemon, s, FALSE) /\ handled' = Set(handled, s, FALSE)
  /\ listener' = IF \E r \in Live \ {s} : family[r] = listener THEN listener ELSE None
  /\ UNCHANGED <<family, script>>

-----------------------------------------------------------------------------
(* main.                                                                   *)

Goes(s, from, to) == pc[s] = from /\ pc' = Set(pc, s, to)

\* Every step that fails calls clean, which exits.
Clean(s, from) == pc[s] = from /\ End(s)

\* socket, getaddrinfo and setsockopt, which no other process sees anything of.
Socket(s) ==
  /\ \/ Goes(s, "socket", "bind") /\ UNCHANGED starting
     \/ "socket" \in Faults /\ Clean(s, "socket")
  /\ UNCHANGED stopping

\* With SO_REUSEADDR two processes may bind the port, as long as none listens.
Bind(s) ==
  /\ \/ /\ listener = None
        /\ Goes(s, "bind", IF daemon[s] THEN "fork" ELSE "listen")
        /\ UNCHANGED starting
     \/ (listener # None \/ "bind" \in Faults) /\ Clean(s, "bind")
  /\ UNCHANGED stopping

\* create_daemon: from here on there are two processes.
Fork(s) ==
  /\ \/ /\ pc[s] = "fork"
        /\ \E c \in Process :
             /\ pc[c] = "none"
             /\ pc' = [pc EXCEPT ![s] = "parent", ![c] = "session"]
             /\ family' = Set(family, c, family[s])
             /\ daemon' = Set(daemon, c, TRUE)
        /\ UNCHANGED <<handled, listener, script>>
     \/ "fork" \in Faults /\ Clean(s, "fork")
  /\ UNCHANGED stopping

\* The parent exits, whatever becomes of the child.
ParentExits(s) == pc[s] = "parent" /\ End(s) /\ UNCHANGED stopping

\* Faulty variant: the child forks again, as daemons often do.
SessionForksAgain(s) ==
  /\ \/ Goes(s, "session", "listen") /\ UNCHANGED starting
     \/ Goes(s, "session", "fork") /\ UNCHANGED starting
     \/ "session" \in Faults /\ Clean(s, "session")
  /\ UNCHANGED stopping

\* setsid, chdir, open and dup2 of /dev/null.
Session(s) ==
  /\ \/ Goes(s, "session", "listen") /\ UNCHANGED starting
     \/ "session" \in Faults /\ Clean(s, "session")
  /\ UNCHANGED stopping

\* Faulty variant: the result of listen is not looked at.
ListenUnchecked(s) ==
  /\ Goes(s, "listen", "handlers")
  /\ listener' = IF listener = None THEN family[s] ELSE listener
  /\ UNCHANGED <<family, daemon, handled, script, stopping>>

Listen(s) ==
  /\ \/ /\ listener = None /\ listener' = family[s]
        /\ Goes(s, "listen", "handlers")
        /\ UNCHANGED <<family, daemon, handled, script>>
     \/ (listener # None \/ "listen" \in Faults) /\ Clean(s, "listen")
  /\ UNCHANGED stopping

\* reg_signal_handler only logs a failure.
RegSignalHandler(s) ==
  /\ Goes(s, "handlers", "serving")
  /\ \/ handled' = Set(handled, s, TRUE)
     \/ "sigaction" \in Faults /\ UNCHANGED handled
  /\ UNCHANGED <<family, daemon, listener, script, stopping>>

\* The accept loop has seen exit_flag: thread_join and clean.
Stopped(s) == Clean(s, "stopping") /\ UNCHANGED stopping

-----------------------------------------------------------------------------
(* Starting and stopping.                                                  *)

Launch(s, d) ==
  /\ Goes(s, "none", "socket")
  /\ family' = Set(family, s, s)
  /\ daemon' = Set(daemon, s, d)

\* By hand, with or without -d, whatever else is running.
StartByHand(s) ==
  /\ \E d \in BOOLEAN : Launch(s, d)
  /\ UNCHANGED <<handled, listener, script, stopping>>

\* start-stop-daemon -S does nothing when there is a process of that name.
ScriptStart(s) ==
  /\ script = None /\ Live = {}
  /\ Launch(s, TRUE) /\ script' = s
  /\ UNCHANGED <<handled, listener, stopping>>

\* The script reports on the process it started, and ends.
StartReturns ==
  /\ script # None /\ pc[script] = "gone"
  /\ script' = None
  /\ UNCHANGED <<pc, family, daemon, handled, listener, stopping>>

\* A start is over when the process that was started has ended, or will not fork.
StartOver(f) == pc[f] = "gone" \/ ~daemon[f]

\* start-stop-daemon -K begins to look through the processes, in any order.
ScriptStop ==
  /\ stop = "none" /\ Live # {}
  /\ stop' = "scan" /\ unseen' = Process
  /\ due' = {f \in {family[s] : s \in Live} : StartOver(f)}
  /\ UNCHANGED <<pc, starting, found>>

Look(s) ==
  /\ stop = "scan" /\ s \in unseen
  /\ unseen' = unseen \ {s}
  /\ found' = IF s \in Live THEN found \cup {s} ELSE found
  /\ UNCHANGED <<pc, starting, stop, due>>

\* Those it has found it kills, one after the other.
ScanOver ==
  /\ stop = "scan" /\ unseen = {} /\ stop' = "kill"
  /\ UNCHANGED <<pc, starting, unseen, found, due>>

\* A process handles SIGTERM once it has registered its handler.
Handles(s) == handled[s] /\ pc[s] \in {"serving", "stopping"}

\* SIGTERM: a process that handles it goes on to the end of the accept loop, any
\* other is killed where it is.  One that has ended meanwhile cannot be signalled.
Kill(s) ==
  /\ stop = "kill" /\ s \in found
  /\ found' = found \ {s}
  /\ \/ /\ s \in Live /\ Handles(s)
        /\ pc' = Set(pc, s, "stopping") /\ UNCHANGED starting
     \/ s \in Live /\ ~Handles(s) /\ End(s)
     \/ s \notin Live /\ UNCHANGED <<pc, starting>>
  /\ UNCHANGED <<stop, unseen, due>>

\* It has signalled all that it found, and does not wait for anybody to end.
AllSignalled == stop = "kill" /\ found = {}

StopReturns ==
  /\ AllSignalled /\ stop' = "none"
  /\ due' = {}
  /\ UNCHANGED <<pc, starting, unseen, found>>

-----------------------------------------------------------------------------

Step(s) ==
  \/ Socket(s) \/ Bind(s) \/ Fork(s) \/ ParentExits(s) \/ Session(s)
  \/ Listen(s) \/ RegSignalHandler(s) \/ Stopped(s)

Next ==
  \/ \E s \in Process : Step(s) \/ StartByHand(s) \/ ScriptStart(s) \/ Look(s) \/ Kill(s)
  \/ StartReturns \/ ScriptStop \/ ScanOver \/ StopReturns

Spec == Init /\ [][Next]_vars

-----------------------------------------------------------------------------
(* Properties.                                                             *)

Serves(s) == pc[s] \in {"serving", "stopping"}

\* A process that serves has the socket that listens at the port, and it is the
\* only one: of servers that were started at the same time and could all bind,
\* and of a parent and its child, one goes on.
ServingOwnsPort ==
  \A s \in Process : Serves(s) =>
    listener = family[s] /\ \A r \in Process : Serves(r) => r = s

\* After a stop no server whose start was over when it began goes on as if
\* nothing had happened, although the stop first collects the processes and then
\* signals them, while they run on: they are gone, or have exit_flag set (from
\* where StopsUnlessMissed of AesdSocketProperties takes it).
StopReachesStarted ==
  AllSignalled => \A s \in Live : family[s] \in due => pc[s] = "stopping"

=============================================================================
