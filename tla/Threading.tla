------------------------------ MODULE Threading ------------------------------
(***************************************************************************)
(* examples/threading: start_thread_obtaining_mutex starts a thread that   *)
(* sleeps, obtains a mutex, sleeps and releases it; whoever joins the      *)
(* thread frees the thread_data it returns (threading.h).  The mutexes,    *)
(* pthread_create and the joiner are external.                             *)
(***************************************************************************)
EXTENDS Naturals

CONSTANTS
  Thread,   \* the calls of start_thread_obtaining_mutex, each with its thread
  Mutex,    \* the mutexes
  Wants,    \* the mutex each call passes
  None,     \* no thread; no mutex
  Faults    \* calls that may fail

ASSUME ThreadingAssumption ==
  /\ None \notin Thread \cup Mutex
  /\ Wants \in [Thread -> Mutex \cup {None}]
  /\ Faults \subseteq {"malloc", "create", "lock", "unlock"}

VARIABLES
  pc,       \* where each call or thread is
  data,     \* its thread_data: none, live or freed
  success,  \* thread_complete_success
  holder,   \* who has each mutex
  did,      \* what the thread has done of what it was asked to do
  report    \* what the caller of start_thread_obtaining_mutex and the joiner learn

vars == <<pc, data, success, holder, did, report>>

Init ==
  /\ pc = [t \in Thread |-> "idle"]
  /\ data = [t \in Thread |-> "none"]
  /\ success = [t \in Thread |-> FALSE]
  /\ holder = [m \in Mutex |-> None]
  /\ did = [t \in Thread |-> {}]
  /\ report = [t \in Thread |-> "none"]

Move(t, from, to) == pc[t] = from /\ pc' = [pc EXCEPT ![t] = to]

Report(t, value) == report' = [report EXCEPT ![t] = value]

Did(t, thing) == did' = [did EXCEPT ![t] = @ \cup {thing}]

-----------------------------------------------------------------------------
(* start_thread_obtaining_mutex.                                           *)

Start(t) ==
  /\ Wants[t] # None
  /\ Move(t, "idle", "sleep") /\ Report(t, "started")
  /\ data' = [data EXCEPT ![t] = "live"] /\ success' = [success EXCEPT ![t] = FALSE]
  /\ UNCHANGED <<holder, did>>

\* The arguments are not valid, or malloc fails.
StartRefused(t) ==
  /\ Wants[t] = None \/ "malloc" \in Faults
  /\ Move(t, "idle", "gone") /\ Report(t, "refused")
  /\ UNCHANGED <<data, success, holder, did>>

\* Faulty variant: the memory is not given back.
CreateFailsLeaks(t) ==
  /\ Wants[t] # None /\ "create" \in Faults
  /\ Move(t, "idle", "gone") /\ Report(t, "refused")
  /\ data' = [data EXCEPT ![t] = "live"]
  /\ UNCHANGED <<success, holder, did>>

CreateFails(t) ==
  /\ Wants[t] # None /\ "create" \in Faults
  /\ Move(t, "idle", "gone") /\ Report(t, "refused")
  /\ data' = [data EXCEPT ![t] = "freed"]
  /\ UNCHANGED <<success, holder, did>>

\* threadfunc is exported: a thread may also be started on it without thread_data.
StartBare(t) ==
  /\ Wants[t] = None
  /\ Move(t, "idle", "bare") /\ Report(t, "started")
  /\ UNCHANGED <<data, success, holder, did>>

-----------------------------------------------------------------------------
(* threadfunc.                                                             *)

NullArguments(t) ==
  /\ Move(t, "bare", "done")
  /\ UNCHANGED <<data, success, holder, did, report>>

\* system("./sleep.sh ..."), whose result is not looked at: one that fails is a
\* sleep that ends at once.
Sleep(t) ==
  /\ Move(t, "sleep", "lock") \/ Move(t, "hold", "unlock")
  /\ UNCHANGED <<data, success, holder, did, report>>

Lock(t) ==
  /\ Move(t, "lock", "hold")
  /\ holder[Wants[t]] = None
  /\ holder' = [holder EXCEPT ![Wants[t]] = t]
  /\ Did(t, "obtained")
  /\ UNCHANGED <<data, success, report>>

\* Faulty variant: the result of pthread_mutex_lock is not looked at.
LockFailsUnseen(t) ==
  /\ "lock" \in Faults
  /\ Move(t, "lock", "hold")
  /\ UNCHANGED <<data, success, holder, did, report>>

LockFails(t) ==
  /\ "lock" \in Faults
  /\ Move(t, "lock", "done")
  /\ success' = [success EXCEPT ![t] = FALSE]
  /\ UNCHANGED <<data, holder, did, report>>

\* Faulty variant: another mutex is released.
UnlockOther(t) ==
  /\ Move(t, "unlock", "done")
  /\ success' = [success EXCEPT ![t] = TRUE]
  /\ Did(t, "released")
  /\ UNCHANGED <<data, holder, report>>

Unlock(t) ==
  /\ Move(t, "unlock", "done")
  /\ holder' = [holder EXCEPT ![Wants[t]] = None]
  /\ success' = [success EXCEPT ![t] = TRUE]
  /\ Did(t, "released")
  /\ UNCHANGED <<data, report>>

\* Faulty variant: success has been noted before.
UnlockFailsLate(t) ==
  /\ "unlock" \in Faults
  /\ Move(t, "unlock", "done")
  /\ success' = [success EXCEPT ![t] = TRUE]
  /\ UNCHANGED <<data, holder, did, report>>

\* The mutex stays locked.
UnlockFails(t) ==
  /\ "unlock" \in Faults
  /\ Move(t, "unlock", "done")
  /\ success' = [success EXCEPT ![t] = FALSE]
  /\ UNCHANGED <<data, holder, did, report>>

\* The joiner looks at what the thread returned, and frees it.
Join(t) ==
  /\ Move(t, "done", "gone")
  /\ Report(t, IF data[t] = "none" THEN "null" ELSE IF success[t] THEN "success" ELSE "failure")
  /\ data' = [data EXCEPT ![t] = IF @ = "none" THEN @ ELSE "freed"]
  /\ UNCHANGED <<success, holder, did>>

-----------------------------------------------------------------------------

Step(t) == NullArguments(t) \/ Sleep(t) \/ Lock(t) \/ Unlock(t) \/ Join(t)

Call(t) == Start(t) \/ StartRefused(t) \/ CreateFails(t) \/ StartBare(t)

Next == \E t \in Thread : Step(t) \/ LockFails(t) \/ UnlockFails(t) \/ Call(t)

Spec == Init /\ [][Next]_vars

\* Started threads run, sleeps end, and somebody joins every thread.  A mutex
\* that is free goes to one of those that want it.  No call has to fail.
FairSpec == Spec /\ \A t \in Thread : WF_vars(Step(t))

=============================================================================
