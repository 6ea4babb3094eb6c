------------------------ MODULE SystemCallsProperties ------------------------
(***************************************************************************)
(* What a program that uses do_system, do_exec and do_exec_redirect relies *)
(* on.                                                                     *)
(***************************************************************************)
EXTENDS SystemCalls

Process ==
  [step : {"none", "call", "fork", "wait", "child", "command", "zombie", "reaped"},
   at : 1..(Len(program) + 1), parent : Pid, born : 0..Len(program),
   out : SUBSET DOMAIN program, ran : BOOLEAN, status : {0, 1, 127, 134, 139},
   ret : [DOMAIN program -> {"none", "true", "false"}]]

\* Type correctness of the processes.
TypeOK == program \in Programs /\ proc \in [Pid -> Process]

\* The processes that call k of process p has forked.
Forked(p, k) == {q \in Pid \ {Main} : proc[q].parent = p /\ proc[q].born = k}

\* The calls that p made itself, and did not inherit with the memory of its parent.
Own(p) == {k \in DOMAIN program : k >= proc[p].born}

\* When do_exec or do_exec_redirect returns false the command has not been run
\* and is not going to be, or it has ended with a failure: the caller may try
\* something else without meeting it.
FalseMeansFailed ==
  \A p \in Pid : \A k \in Own(p) :
    proc[p].ret[k] = "false" /\ program[k].fn # "system" =>
      \A q \in Forked(p, k) :
        /\ proc[q].step # "child"
        /\ proc[q].ran => proc[q].step = "reaped" /\ proc[q].status # 0

\* do_system returns true just when its own command has ended with status 0,
\* whichever other children end at the same time (systemcalls.c:32-35).
SystemTruthful ==
  \A p \in Pid : \A k \in Own(p) :
    program[k].fn = "system" /\ proc[p].ret[k] # "none" =>
      (proc[p].ret[k] = "true" <=>
         \E q \in Forked(p, k) : proc[q].ran /\ proc[q].step = "reaped" /\ proc[q].status = 0)

\* Between calls a process has as many children it has not collected as before:
\* the calls neither leave zombies behind nor take one too many.
ChildrenBalanced ==
  \A p \in Pid : proc[p].step = "call" =>
    Cardinality({q \in Pid \ {Main} : proc[q].parent = p /\ proc[q].step \notin {"none", "reaped"}})
      = IF p = Main THEN Cardinality(Background) ELSE 0

\* Of the output files that do_exec_redirect opens, only those of calls that
\* returned true stay open between calls: no error path leaks a descriptor.
ErrorsCloseOutput ==
  \A p \in Pid : proc[p].step = "call" =>
    \A k \in proc[p].out : proc[p].ret[k] = "true"

\* A command is run twice only by the children whose execv failed, which have
\* returned into the code of the caller (systemcalls.c:128, 212): one process
\* never runs a command twice, and before the first such failure there is only
\* one process to run it.  A shell that cannot start its command has no part in it.
RepeatsOnlyAfterFailedExec ==
  \A p, q \in Pid \ (Background \cup {Main}) :
    proc[p].ran /\ proc[q].ran /\ proc[p].born = proc[q].born /\ p # q =>
      /\ proc[p].parent # proc[q].parent
      /\ \E k \in 1..(proc[p].born - 1) :
           program[k].fn # "system" /\ program[k].path # "program"

\* The program gets through all its calls, even when a child in its background
\* never ends.
ProgramFinishes == <>(proc[Main].step = "zombie")

==============================================================================
