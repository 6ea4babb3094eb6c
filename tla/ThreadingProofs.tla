-------------------------- MODULE ThreadingProofs --------------------------
(***************************************************************************)
(* The properties of start_thread_obtaining_mutex and threadfunc, for      *)
(* every number of threads and mutexes.                                    *)
(***************************************************************************)
EXTENDS ThreadingProperties, TLAPS

\* A thread between pthread_mutex_lock and pthread_mutex_unlock is the one that
\* the mutex belongs to.
HolderKnown ==
  \A t \in Thread : pc[t] \in {"hold", "unlock"} => Wants[t] # None /\ holder[Wants[t]] = t

\* Only a call that was given a mutex gets past start_thread_obtaining_mutex,
\* and only one that was given none is started without thread_data.
WantsKnown ==
  \A t \in Thread :
    /\ pc[t] \in {"sleep", "lock", "hold", "unlock"} => Wants[t] # None
    /\ pc[t] = "bare" => Wants[t] = None

\* What the thread has done so far, and what thread_complete_success will say.
DidKnown ==
  \A t \in Thread :
    /\ pc[t] \in {"idle", "bare", "sleep", "lock"} => did[t] = {}
    /\ pc[t] \in {"hold", "unlock"} => did[t] = {"obtained"}
    /\ pc[t] \in {"idle", "bare"} => ~success[t]
    /\ pc[t] = "done" => (success[t] <=> {"obtained", "released"} \subseteq did[t])
    /\ report[t] \in {"success", "failure"} => pc[t] = "gone"

ThreadInv == TypeOK /\ WantsKnown /\ HolderKnown /\ DataHasOneOwner /\ DidKnown /\ ReportIsTrue

LEMMA InitThreadInv == Init => ThreadInv
BY ThreadingAssumption
   DEF Init, ThreadInv, TypeOK, WantsKnown, HolderKnown, DataHasOneOwner, DidKnown, ReportIsTrue

\* start_thread_obtaining_mutex, for each of its outcomes.
LEMMA CallKeepsThreadInv ==
  ASSUME ThreadInv, NEW t \in Thread, Call(t)
  PROVE  ThreadInv'
<1> USE DEF ThreadInv, Move, Report
<1>1. CASE Start(t)
  <2>1. TypeOK' /\ WantsKnown' /\ HolderKnown'
    BY <1>1 DEF Start, TypeOK, WantsKnown, HolderKnown
  <2>2. DataHasOneOwner' /\ DidKnown' /\ ReportIsTrue'
    BY <1>1 DEF Start, TypeOK, DataHasOneOwner, DidKnown, ReportIsTrue
  <2> QED
    BY <2>1, <2>2
<1>2. CASE StartRefused(t)
  <2>1. TypeOK' /\ WantsKnown' /\ HolderKnown'
    BY <1>2 DEF StartRefused, TypeOK, WantsKnown, HolderKnown
  <2>2. DataHasOneOwner' /\ DidKnown' /\ ReportIsTrue'
    BY <1>2 DEF StartRefused, TypeOK, DataHasOneOwner, DidKnown, ReportIsTrue
  <2> QED
    BY <2>1, <2>2
<1>3. CASE CreateFails(t)
  <2>1. TypeOK' /\ WantsKnown' /\ HolderKnown'
    BY <1>3 DEF CreateFails, TypeOK, WantsKnown, HolderKnown
  <2>2. DataHasOneOwner' /\ DidKnown' /\ ReportIsTrue'
    BY <1>3 DEF CreateFails, TypeOK, DataHasOneOwner, DidKnown, ReportIsTrue
  <2> QED
    BY <2>1, <2>2
<1>4. CASE StartBare(t)
  <2>1. TypeOK' /\ WantsKnown' /\ HolderKnown'
    BY <1>4 DEF StartBare, TypeOK, WantsKnown, HolderKnown
  <2>2. DataHasOneOwner' /\ DidKnown' /\ ReportIsTrue'
    BY <1>4 DEF StartBare, TypeOK, DataHasOneOwner, DidKnown, ReportIsTrue
  <2> QED
    BY <2>1, <2>2
<1> QED
  BY <1>1, <1>2, <1>3, <1>4 DEF Call

\* threadfunc up to the mutex, and the paths on which a mutex operation fails.
LEMMA ThreadKeepsThreadInv ==
  ASSUME ThreadInv, NEW t \in Thread,
         NullArguments(t) \/ Sleep(t) \/ LockFails(t) \/ UnlockFails(t)
  PROVE  ThreadInv'
<1> USE DEF ThreadInv, Move
<1>1. CASE NullArguments(t)
  <2>1. TypeOK' /\ WantsKnown' /\ HolderKnown'
    BY <1>1 DEF NullArguments, TypeOK, WantsKnown, HolderKnown
  <2>2. DataHasOneOwner' /\ DidKnown' /\ ReportIsTrue'
    BY <1>1 DEF NullArguments, TypeOK, WantsKnown, DataHasOneOwner, DidKnown, ReportIsTrue
  <2> QED
    BY <2>1, <2>2
<1>2. CASE Sleep(t)
  <2>1. TypeOK' /\ WantsKnown' /\ HolderKnown'
    BY <1>2 DEF Sleep, TypeOK, WantsKnown, HolderKnown
  <2>2. DataHasOneOwner' /\ DidKnown' /\ ReportIsTrue'
    BY <1>2 DEF Sleep, TypeOK, WantsKnown, DataHasOneOwner, DidKnown, ReportIsTrue
  <2> QED
    BY <2>1, <2>2
<1>3. CASE LockFails(t)
  <2>1. TypeOK' /\ WantsKnown' /\ HolderKnown'
    BY <1>3 DEF LockFails, TypeOK, WantsKnown, HolderKnown
  <2>2. DataHasOneOwner' /\ DidKnown' /\ ReportIsTrue'
    BY <1>3 DEF LockFails, TypeOK, WantsKnown, DataHasOneOwner, DidKnown, ReportIsTrue
  <2> QED
    BY <2>1, <2>2
<1>4. CASE UnlockFails(t)
  <2>1. TypeOK' /\ WantsKnown' /\ HolderKnown'
    BY <1>4 DEF UnlockFails, TypeOK, WantsKnown, HolderKnown
  <2>2. DataHasOneOwner' /\ DidKnown' /\ ReportIsTrue'
    BY <1>4 DEF UnlockFails, TypeOK, WantsKnown, DataHasOneOwner, DidKnown, ReportIsTrue
  <2> QED
    BY <2>1, <2>2
<1> QED
  BY <1>1, <1>2, <1>3, <1>4

\* pthread_mutex_lock succeeds: the mutex was free, so nobody else is inside.
LEMMA LockKeepsThreadInv ==
  ASSUME ThreadInv, NEW t \in Thread, Lock(t)
  PROVE  ThreadInv'
<1> USE DEF ThreadInv, Move, Did, Lock
<1>1. Wants[t] \in Mutex /\ t # None
  BY ThreadingAssumption DEF WantsKnown
<1>2. TypeOK' /\ WantsKnown'
  BY <1>1 DEF TypeOK, WantsKnown
<1>3. HolderKnown'
  BY <1>1, ThreadingAssumption DEF TypeOK, WantsKnown, HolderKnown
<1>4. DataHasOneOwner' /\ DidKnown' /\ ReportIsTrue'
  BY DEF TypeOK, DataHasOneOwner, DidKnown, ReportIsTrue
<1> QED
  BY <1>2, <1>3, <1>4

\* pthread_mutex_unlock succeeds: the mutex was the thread's own.
LEMMA UnlockKeepsThreadInv ==
  ASSUME ThreadInv, NEW t \in Thread, Unlock(t)
  PROVE  ThreadInv'
<1> USE DEF ThreadInv, Move, Did, Unlock
<1>1. Wants[t] \in Mutex /\ holder[Wants[t]] = t
  BY ThreadingAssumption DEF HolderKnown
<1>2. TypeOK' /\ WantsKnown'
  BY <1>1 DEF TypeOK, WantsKnown
<1>3. HolderKnown'
  BY <1>1 DEF TypeOK, HolderKnown
<1>4. DataHasOneOwner' /\ DidKnown' /\ ReportIsTrue'
  BY DEF TypeOK, DataHasOneOwner, DidKnown, ReportIsTrue
<1> QED
  BY <1>2, <1>3, <1>4

\* The joiner frees what it was handed, and nobody uses it any more.
LEMMA JoinKeepsThreadInv ==
  ASSUME ThreadInv, NEW t \in Thread, Join(t)
  PROVE  ThreadInv'
<1> USE DEF ThreadInv, Move, Report, Join
<1>1. TypeOK' /\ WantsKnown' /\ HolderKnown'
  BY DEF TypeOK, WantsKnown, HolderKnown
<1>2. DataHasOneOwner'
  BY DEF TypeOK, DataHasOneOwner
<1>3. DidKnown' /\ ReportIsTrue'
  BY DEF TypeOK, DidKnown, ReportIsTrue
<1> QED
  BY <1>1, <1>2, <1>3

LEMMA ThreadInvHolds == Spec => []ThreadInv
<1>1. ThreadInv /\ [Next]_vars => ThreadInv'
  <2> SUFFICES ASSUME ThreadInv, [Next]_vars
               PROVE  ThreadInv'
    OBVIOUS
  <2>1. CASE UNCHANGED vars
    BY <2>1 DEF vars, ThreadInv, TypeOK, WantsKnown, HolderKnown, DataHasOneOwner, DidKnown,
                ReportIsTrue
  <2>2. CASE Next
    BY <2>2, CallKeepsThreadInv, ThreadKeepsThreadInv, LockKeepsThreadInv, UnlockKeepsThreadInv,
       JoinKeepsThreadInv DEF Next, Step
  <2> QED
    BY <2>1, <2>2
<1> QED
  BY InitThreadInv, <1>1, PTL DEF Spec

\* Every step keeps the thread records, the mutex holders and the step labels of
\* threading.c inside their ranges, for every number of threads and mutexes.
THEOREM ThreadsTyped == Spec => []TypeOK
<1>1. ThreadInv => TypeOK
  BY DEF ThreadInv
<1> QED
  BY <1>1, ThreadInvHolds, PTL

\* Between pthread_mutex_lock and pthread_mutex_unlock in threadfunc there is
\* one thread at a time for each mutex, whichever calls fail.
THEOREM ThreadsHoldAlone == Spec => []HoldsAlone
<1>1. ThreadInv => HoldsAlone
  BY DEF ThreadInv, HolderKnown, HoldsAlone
<1> QED
  BY <1>1, ThreadInvHolds, PTL

\* thread_data is live exactly from pthread_create until the join: no path
\* through threading.c frees it twice, too early or never.
THEOREM ThreadDataHasOneOwner == Spec => []DataHasOneOwner
<1>1. ThreadInv => DataHasOneOwner
  BY DEF ThreadInv
<1> QED
  BY <1>1, ThreadInvHolds, PTL

\* thread_complete_success, as the joiner reads it, says whether the thread has
\* obtained the mutex and released it.
THEOREM ThreadReportsTruth == Spec => []ReportIsTrue
<1>1. ThreadInv => ReportIsTrue
  BY DEF ThreadInv
<1> QED
  BY <1>1, ThreadInvHolds, PTL

=============================================================================
