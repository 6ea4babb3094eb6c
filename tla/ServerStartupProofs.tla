------------------------ MODULE ServerStartupProofs ------------------------
(***************************************************************************)
(* Starting and stopping the server, for every number of processes and     *)
(* whichever calls of the start-up fail.                                   *)
(***************************************************************************)
EXTENDS ServerStartup, TLAPS

Label == {"none", "socket", "bind", "fork", "parent", "session", "listen",
          "handlers", "serving", "stopping", "gone"}

Typed ==
  /\ pc \in [Process -> Label] /\ family \in [Process -> Process \cup {None}]
  /\ daemon \in [Process -> BOOLEAN] /\ due \subseteq Process
  /\ stop \in {"none", "scan", "kill"}

\* A process belongs to a family; up to the fork it is the one that was started,
\* and only a daemon gets there.
FamiliesKnown ==
  \A s \in Process :
    /\ pc[s] # "none" => family[s] \in Process /\ pc[family[s]] # "none"
    /\ pc[s] \in {"socket", "bind", "fork", "parent"} => family[s] = s
    /\ pc[s] = "fork" => daemon[s]

\* Past listen.
Past(s) == pc[s] \in {"handlers", "serving", "stopping"}

\* One process at most has got past listen, and its family listens.
ListenerKnown ==
  \A s \in Process : Past(s) => listener = family[s] /\ \A r \in Process : Past(r) => r = s

\* A family whose start was over when a stop began does not fork any more.
DueSettled == \A f \in due : pc[f] = "gone" \/ (pc[f] # "none" /\ ~daemon[f])

\* What a stop has still to do to process s.
Pending(s) ==
  IF stop = "scan" THEN s \in unseen \cup found
  ELSE s \in found \/ pc[s] = "stopping"

\* None of the processes it must reach escapes between the scan and the kill.
NoneEscapes == \A s \in Live : family[s] \in due => Pending(s)

StartupInv == Typed /\ FamiliesKnown /\ ListenerKnown /\ DueSettled /\ NoneEscapes

USE DEF Label, Typed, Past

LEMMA InitStartupInv == Init => StartupInv
BY DEF Init, StartupInv, FamiliesKnown, ListenerKnown, DueSettled, NoneEscapes, Live

\* A process goes on to its next step.  Whatever a stop still has to do to it, it
\* still has.
LEMMA GoesKeepsStartupInv ==
  ASSUME StartupInv, NEW s \in Process, NEW from \in Label \ {"none", "stopping", "gone"},
         NEW to \in Label \ {"none", "gone", "stopping"}, Goes(s, from, to),
         to \in {"bind", "fork"} => from \in {"socket", "bind"},
         to \notin {"socket", "parent"}, to = "fork" => daemon[s],
         to \in {"handlers", "serving"} => from = "handlers",
         UNCHANGED <<family, daemon, listener, stopping>>
  PROVE  StartupInv'
<1> USE DEF StartupInv
<1>1. pc' = [pc EXCEPT ![s] = to] /\ pc[s] = from
  BY DEF Goes, Set
<1>2. Typed'
  BY <1>1 DEF stopping
<1>3. FamiliesKnown'
  BY <1>1 DEF FamiliesKnown
<1>4. ListenerKnown'
  BY <1>1 DEF ListenerKnown
<1>5. DueSettled'
  BY <1>1 DEF DueSettled, stopping
<1>6. NoneEscapes'
  BY <1>1 DEF NoneEscapes, Live, Pending, stopping
<1> QED
  BY <1>2, <1>3, <1>4, <1>5, <1>6

\* A process that ends: its port is free again, and nobody else's.
LEMMA EndKeepsStartupInv ==
  ASSUME StartupInv, NEW s \in Process, pc[s] # "none", End(s),
         UNCHANGED <<stop, unseen, due>>, found' \in {found, found \ {s}}
  PROVE  StartupInv'
<1> USE DEF StartupInv
<1>1. /\ pc' = [pc EXCEPT ![s] = "gone"] /\ daemon' = [daemon EXCEPT ![s] = FALSE]
      /\ family' = family
      /\ listener' = IF \E r \in Live \ {s} : family[r] = listener THEN listener ELSE None
  BY DEF End, Set
<1>2. Typed'
  BY <1>1
<1>3. FamiliesKnown'
  BY <1>1 DEF FamiliesKnown
<1>4. ListenerKnown'
  <2>1. ASSUME NEW r \in Process, Past(r)'
        PROVE  r # s /\ Past(r) /\ r \in Live
    BY <1>1, <2>1 DEF Live
  <2> QED
    BY <1>1, <2>1 DEF ListenerKnown
<1>5. DueSettled'
  BY <1>1 DEF DueSettled
<1>6. NoneEscapes'
  BY <1>1 DEF NoneEscapes, Live, Pending
<1> QED
  BY <1>2, <1>3, <1>4, <1>5, <1>6

LEMMA CleanKeepsStartupInv ==
  ASSUME StartupInv, NEW s \in Process, NEW from \in Label, from # "none", Clean(s, from),
         UNCHANGED stopping
  PROVE  StartupInv'
BY EndKeepsStartupInv DEF Clean, stopping

\* listen succeeds only for one, while nobody is past it.
LEMMA ListenKeepsStartupInv ==
  ASSUME StartupInv, NEW s \in Process, Listen(s)
  PROVE  StartupInv'
<1> USE DEF StartupInv
<1>1. CASE Clean(s, "listen")
  BY <1>1, CleanKeepsStartupInv DEF Listen
<1>2. CASE ~Clean(s, "listen")
  <2>1. /\ listener = None /\ listener' = family[s] /\ pc[s] = "listen"
        /\ pc' = [pc EXCEPT ![s] = "handlers"]
        /\ UNCHANGED <<family, daemon, stop, unseen, found, due>>
    BY <1>2 DEF Listen, Goes, Set, stopping
  <2>2. \A r \in Process : ~Past(r)
    BY <2>1, ServerStartupAssumption DEF ListenerKnown, FamiliesKnown
  <2>3. Typed' /\ FamiliesKnown'
    BY <2>1 DEF FamiliesKnown
  <2>4. ListenerKnown'
    BY <2>1, <2>2 DEF ListenerKnown
  <2>5. DueSettled'
    BY <2>1 DEF DueSettled
  <2>6. NoneEscapes'
    BY <2>1 DEF NoneEscapes, Live, Pending
  <2> QED
    BY <2>3, <2>4, <2>5, <2>6
<1> QED
  BY <1>1, <1>2

\* The family that forks is not one whose start is over.
LEMMA ForkKeepsStartupInv ==
  ASSUME StartupInv, NEW s \in Process, Fork(s)
  PROVE  StartupInv'
<1> USE DEF StartupInv
<1>1. CASE Clean(s, "fork")
  BY <1>1, CleanKeepsStartupInv DEF Fork
<1>2. CASE ~Clean(s, "fork")
  <2>1. PICK c \in Process :
          /\ pc[c] = "none" /\ pc' = [pc EXCEPT ![s] = "parent", ![c] = "session"]
          /\ family' = [family EXCEPT ![c] = family[s]]
          /\ daemon' = [daemon EXCEPT ![c] = TRUE]
    BY <1>2 DEF Fork, Set
  <2>2. pc[s] = "fork" /\ UNCHANGED <<listener, stop, unseen, found, due>>
    BY <1>2 DEF Fork, stopping
  <2>3. c # s /\ family[s] = s /\ daemon[s] /\ s \notin due /\ c \notin due
    BY <2>1, <2>2 DEF FamiliesKnown, DueSettled
  <2>4. Typed' /\ FamiliesKnown'
    <3>1. Typed'
      BY <2>1, <2>2
    <3>2. /\ pc'[s] = "parent" /\ family'[s] = s
          /\ pc'[c] = "session" /\ family'[c] = s
          /\ \A r \in Process \ {s, c} :
               pc'[r] = pc[r] /\ family'[r] = family[r] /\ daemon'[r] = daemon[r]
      BY <2>1, <2>2, <2>3
    <3>3. \A r \in Process : pc[r] # "none" => pc'[r] # "none"
      BY <3>2
    <3> QED
      BY <3>1, <3>2, <3>3 DEF FamiliesKnown
  <2>5. ListenerKnown'
    BY <2>1, <2>2, <2>3 DEF ListenerKnown
  <2>6. DueSettled'
    BY <2>1, <2>2, <2>3 DEF DueSettled
  <2>7. NoneEscapes'
    BY <2>1, <2>2, <2>3 DEF NoneEscapes, Live, Pending
  <2> QED
    BY <2>4, <2>5, <2>6, <2>7
<1> QED
  BY <1>1, <1>2

LEMMA StepKeepsStartupInv ==
  ASSUME StartupInv, NEW s \in Process, Step(s)
  PROVE  StartupInv'
<1>1. CASE UNCHANGED stopping /\ \E from \in Label \ {"none"} : Clean(s, from)
  BY <1>1, CleanKeepsStartupInv
<1>2. CASE Listen(s)
  BY <1>2, ListenKeepsStartupInv
<1>3. CASE Fork(s)
  BY <1>3, ForkKeepsStartupInv
<1>4. CASE ParentExits(s)
  BY <1>4, EndKeepsStartupInv DEF ParentExits, stopping
<1>5. CASE /\ UNCHANGED <<family, daemon, listener, stopping>>
           /\ \/ Goes(s, "socket", "bind")
              \/ daemon[s] /\ Goes(s, "bind", "fork")
              \/ Goes(s, "bind", "listen")
              \/ Goes(s, "session", "listen") \/ Goes(s, "handlers", "serving")
  BY <1>5, GoesKeepsStartupInv
<1> QED
  BY <1>1, <1>2, <1>3, <1>4, <1>5
     DEF Step, Socket, Bind, Session, RegSignalHandler, Stopped, starting

\* A server that is started is none that a stop has promised to reach.
LEMMA LaunchKeepsStartupInv ==
  ASSUME StartupInv, NEW s \in Process, StartByHand(s) \/ ScriptStart(s)
  PROVE  StartupInv'
<1> USE DEF StartupInv
<1>1. PICK d \in BOOLEAN : Launch(s, d)
  BY DEF StartByHand, ScriptStart
<1>2. /\ pc[s] = "none" /\ pc' = [pc EXCEPT ![s] = "socket"]
      /\ family' = [family EXCEPT ![s] = s] /\ daemon' = [daemon EXCEPT ![s] = d]
      /\ UNCHANGED <<listener, stop, unseen, found, due>>
  BY <1>1 DEF Launch, Goes, Set, StartByHand, ScriptStart, stopping
<1>3. s \notin due
  BY <1>2 DEF DueSettled
<1>4. Typed' /\ FamiliesKnown'
  BY <1>2 DEF FamiliesKnown
<1>5. ListenerKnown'
  BY <1>2 DEF ListenerKnown
<1>6. DueSettled'
  BY <1>2, <1>3 DEF DueSettled
<1>7. NoneEscapes'
  BY <1>2, <1>3 DEF NoneEscapes, Live, Pending
<1> QED
  BY <1>4, <1>5, <1>6, <1>7

\* A stop first has every process to look at.
LEMMA StopBegins ==
  ASSUME StartupInv, ScriptStop
  PROVE  StartupInv'
<1> USE DEF StartupInv
<1>1. /\ stop' = "scan" /\ unseen' = Process
      /\ due' = {f \in {family[s] : s \in Live} : StartOver(f)}
      /\ UNCHANGED <<pc, family, daemon, listener>>
  BY DEF ScriptStop, starting
<1>2. Typed' /\ FamiliesKnown' /\ ListenerKnown'
  <2>1. \A s \in Live : family[s] \in Process
    BY DEF Live, FamiliesKnown
  <2>2. Typed'
    BY <1>1, <2>1
  <2> QED
    BY <1>1, <2>2 DEF FamiliesKnown, ListenerKnown
<1>3. DueSettled'
  <2>1. ASSUME NEW f \in due'
        PROVE  pc[f] = "gone" \/ (pc[f] # "none" /\ ~daemon[f])
    <3>1. PICK s \in Live : f = family[s]
      BY <1>1, <2>1
    <3>2. StartOver(f)
      BY <1>1, <2>1
    <3>3. pc[f] # "none"
      BY <3>1 DEF Live, FamiliesKnown
    <3> QED
      BY <3>2, <3>3 DEF StartOver
  <2> QED
    BY <1>1, <2>1 DEF DueSettled
<1>4. NoneEscapes'
  BY <1>1 DEF NoneEscapes, Live, Pending
<1> QED
  BY <1>2, <1>3, <1>4

\* It goes from process to process and collects what is there.
LEMMA LookKeepsStartupInv ==
  ASSUME StartupInv, NEW s \in Process, Look(s)
  PROVE  StartupInv'
<1> USE DEF StartupInv
<1>1. /\ stop = "scan" /\ unseen' = unseen \ {s}
      /\ found' = IF s \in Live THEN found \cup {s} ELSE found
      /\ UNCHANGED <<pc, family, daemon, listener, stop, due>>
  BY DEF Look, starting
<1>2. Typed' /\ FamiliesKnown' /\ ListenerKnown' /\ DueSettled'
  BY <1>1 DEF FamiliesKnown, ListenerKnown, DueSettled
<1>3. NoneEscapes'
  BY <1>1 DEF NoneEscapes, Live, Pending
<1> QED
  BY <1>2, <1>3

\* When it has looked at all, those it must reach are among the found; when it
\* has signalled all those, they are stopping.
LEMMA PhasesKeepStartupInv ==
  ASSUME StartupInv, ScanOver \/ StopReturns
  PROVE  StartupInv'
<1> USE DEF StartupInv
<1>1. /\ \/ stop = "scan" /\ unseen = {} /\ stop' = "kill" /\ due' = due
         \/ stop' = "none" /\ due' = {}
      /\ UNCHANGED <<pc, family, daemon, listener, unseen, found>>
  BY DEF ScanOver, StopReturns, starting
<1>2. Typed' /\ FamiliesKnown' /\ ListenerKnown' /\ DueSettled'
  BY <1>1 DEF FamiliesKnown, ListenerKnown, DueSettled
<1>3. NoneEscapes'
  BY <1>1 DEF NoneEscapes, Live, Pending
<1> QED
  BY <1>2, <1>3

\* SIGTERM ends a process, or makes it go to the end of the accept loop.
LEMMA KillKeepsStartupInv ==
  ASSUME StartupInv, NEW s \in Process, Kill(s)
  PROVE  StartupInv'
<1> USE DEF StartupInv
<1>1. /\ stop = "kill" /\ found' = found \ {s}
      /\ UNCHANGED <<stop, unseen, due>>
  BY DEF Kill
<1>2. CASE s \in Live /\ ~Handles(s) /\ End(s)
  BY <1>1, <1>2, EndKeepsStartupInv DEF Live
<1>3. CASE /\ s \in Live /\ Handles(s) /\ pc' = [pc EXCEPT ![s] = "stopping"]
           /\ UNCHANGED <<family, daemon, listener>>
  <2>1. pc[s] \in {"serving", "stopping"}
    BY <1>3 DEF Handles
  <2>2. Typed' /\ FamiliesKnown' /\ ListenerKnown' /\ DueSettled'
    BY <1>1, <1>3, <2>1 DEF FamiliesKnown, ListenerKnown, DueSettled
  <2>3. NoneEscapes'
    BY <1>1, <1>3, <2>1 DEF NoneEscapes, Live, Pending
  <2> QED
    BY <2>2, <2>3
<1>4. CASE s \notin Live /\ UNCHANGED <<pc, family, daemon, listener>>
  <2>1. Typed' /\ FamiliesKnown' /\ ListenerKnown' /\ DueSettled'
    BY <1>1, <1>4 DEF FamiliesKnown, ListenerKnown, DueSettled
  <2>2. NoneEscapes'
    BY <1>1, <1>4 DEF NoneEscapes, Live, Pending
  <2> QED
    BY <2>1, <2>2
<1> QED
  BY <1>2, <1>3, <1>4 DEF Kill, Set, starting

LEMMA StartupInvHolds == Spec => []StartupInv
<1>1. StartupInv /\ [Next]_vars => StartupInv'
  <2> SUFFICES ASSUME StartupInv, [Next]_vars
               PROVE  StartupInv'
    OBVIOUS
  <2>1. CASE UNCHANGED vars
    BY <2>1 DEF vars, starting, stopping, StartupInv, FamiliesKnown, ListenerKnown, DueSettled,
                NoneEscapes, Live, Pending
  <2>2. CASE StartReturns
    BY <2>2 DEF StartReturns, stopping, StartupInv, FamiliesKnown, ListenerKnown, DueSettled,
                NoneEscapes, Live, Pending
  <2> QED
    BY <2>1, <2>2, StepKeepsStartupInv, LaunchKeepsStartupInv, LookKeepsStartupInv,
       KillKeepsStartupInv, StopBegins, PhasesKeepStartupInv DEF Next
<1> QED
  BY InitStartupInv, <1>1, PTL DEF Spec

\* Only the process that listens at the port gets into the accept loop, and it
\* is one, however many were started at the same time and could all bind.
THEOREM StartupServesOnce == Spec => []ServingOwnsPort
<1>1. StartupInv => ServingOwnsPort
  BY DEF StartupInv, ListenerKnown, ServingOwnsPort, Serves
<1> QED
  BY <1>1, StartupInvHolds, PTL

\* A stop by the script lets no server go on whose start was over when it began,
\* although servers start, fork and end while it collects the processes and then
\* signals one after the other: such a server does not fork any more.
THEOREM StartupStopsStarted == Spec => []StopReachesStarted
<1>1. StartupInv => StopReachesStarted
  BY DEF StartupInv, NoneEscapes, Pending, StopReachesStarted, AllSignalled
<1> QED
  BY <1>1, StartupInvHolds, PTL

=============================================================================
