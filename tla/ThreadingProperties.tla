------------------------- MODULE ThreadingProperties -------------------------
(***************************************************************************)
(* What the users of start_thread_obtaining_mutex rely on.                 *)
(***************************************************************************)
EXTENDS Threading

\* Type correctness.
TypeOK ==
  /\ pc \in [Thread -> {"idle", "bare", "sleep", "lock", "hold", "unlock", "done", "gone"}]
  /\ data \in [Thread -> {"none", "live", "freed"}]
  /\ success \in [Thread -> BOOLEAN]
  /\ holder \in [Mutex -> Thread \cup {None}]
  /\ did \in [Thread -> SUBSET {"obtained", "released"}]
  /\ report \in [Thread -> {"none", "started", "refused", "null", "success", "failure"}]

\* The part of threadfunc between obtaining and releasing is executed by one
\* thread at a time for each mutex, also when pthread_mutex_lock fails.
HoldsAlone ==
  \A t, u \in Thread :
    pc[t] \in {"hold", "unlock"} /\ pc[u] \in {"hold", "unlock"} /\ Wants[t] = Wants[u] => t = u

\* thread_data is there as long as the thread or its joiner may use it, and no
\* longer: every path through start_thread_obtaining_mutex and threadfunc hands
\* it to exactly one that frees it.
DataHasOneOwner ==
  \A t \in Thread : data[t] = "live" <=> pc[t] \in {"sleep", "lock", "hold", "unlock", "done"}
                                         /\ Wants[t] # None

\* What the joiner reads in thread_complete_success is the truth: success just
\* when the thread has obtained the mutex and given it back.
ReportIsTrue ==
  \A t \in Thread :
    report[t] \in {"success", "failure"} =>
      (report[t] = "success" <=> {"obtained", "released"} \subseteq did[t])

\* Every thread that was started ends and is joined, unless the release of a
\* mutex has failed, and then the joiner of that thread has been told.
EveryThreadIsJoined ==
  \A t \in Thread :
    report[t] = "started" ~>
      \/ pc[t] = "gone"
      \/ \E u \in Thread : report[u] = "failure" /\ \E m \in Mutex : holder[m] = u

=============================================================================
