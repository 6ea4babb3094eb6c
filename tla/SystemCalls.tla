----------------------------- MODULE SystemCalls -----------------------------
(***************************************************************************)
(* The functions of examples/systemcalls/systemcalls.c: do_system, do_exec *)
(* and do_exec_redirect, called one after the other by a program that may  *)
(* have children of its own.  A process is a record; fork copies it, which *)
(* matters because a child whose execv fails returns into the code of the  *)
(* caller and goes on with the rest of the program.  The C library and the *)
(* kernel (system, fork, execv, wait, exit) are external.                  *)
(***************************************************************************)
EXTENDS Naturals, FiniteSets, Sequences

CONSTANTS
  Pid,         \* process identifiers; none is used twice
  Main,        \* the program
  Background,  \* children that the program has started otherwise
  Programs,    \* the sequences of calls the program may make
  Faults       \* calls that may fail: open, fork, dup2

\* What a call is made with: the function, what its path names, and command[2],
\* which do_exec reads.  It is the terminating NULL when two arguments are
\* passed and lies beyond the array when one is.  For do_system, "null" is cmd.
Call == [fn : {"system", "exec", "redirect"}, path : {"missing", "data", "program"},
         arg : {"bin", "plain", "null", "beyond"}]

ASSUME SystemCallsAssumption ==
  /\ Pid \subseteq Nat /\ IsFiniteSet(Pid) /\ Main \in Pid /\ Background \subseteq Pid \ {Main}
  /\ Programs \subseteq Seq(Call)
  /\ Faults \subseteq {"open", "fork", "dup"}

VARIABLES
  program,  \* the calls made
  proc      \* the processes

vars == <<program, proc>>

\* step and at say where a process is in the program; born is the call whose
\* fork made it (0: none); out holds the calls whose output file it has open, ran
\* whether execv has replaced it, ret what each call has returned to it.
NoProc == [step |-> "none", at |-> 1, parent |-> Main, born |-> 0, out |-> {},
           ran |-> FALSE, status |-> 0, ret |-> [k \in DOMAIN program |-> "none"]]

Init ==
  /\ program \in Programs
  /\ proc = [p \in Pid |-> IF p = Main THEN [NoProc EXCEPT !.step = "call"]
                           ELSE IF p \in Background THEN [NoProc EXCEPT !.step = "command"]
                           ELSE NoProc]

This(p) == program[proc[p].at]

Calling(p, fn) ==
  proc[p].step = "call" /\ proc[p].at <= Len(program) /\ This(p).fn = fn

Becomes(p, r) == proc' = [proc EXCEPT ![p] = r] /\ UNCHANGED program

\* Record r after the current call has returned value.
Returned(r, value) == [r EXCEPT !.step = "call", !.at = r.at + 1, !.ret[r.at] = value]

\* Record r after the process has ended; its parent may collect the status.
Ended(r, status) == [r EXCEPT !.step = "zombie", !.out = {}, !.status = status]

Entered(p) == [proc[p] EXCEPT !.step = "fork"]

-----------------------------------------------------------------------------
(* Up to fork.                                                             *)

\* system(NULL) only says that there is a shell, with a value that is not 0.
DoSystem(p) ==
  /\ Calling(p, "system")
  /\ Becomes(p, IF This(p).arg = "null" THEN Returned(proc[p], "false") ELSE Entered(p))

\* access(command[0]) fails, or command[2] does not contain "bin".
Refuse(p) ==
  /\ Calling(p, "exec")
  /\ This(p).path = "missing" \/ This(p).arg \in {"plain", "beyond"}
  /\ Becomes(p, Returned(proc[p], "false"))

\* strstr reads command[2], whatever it is.
Crash(p) ==
  /\ Calling(p, "exec") /\ This(p).path # "missing" /\ This(p).arg \in {"null", "beyond"}
  /\ Becomes(p, Ended(proc[p], 139))

DoExec(p) ==
  /\ Calling(p, "exec") /\ This(p).path # "missing" /\ This(p).arg \in {"bin", "beyond"}
  /\ Becomes(p, Entered(p))

DoExecRedirect(p) ==
  /\ Calling(p, "redirect")
  /\ \/ Becomes(p, [Entered(p) EXCEPT !.out = @ \cup {proc[p].at}])
     \/ "open" \in Faults /\ Becomes(p, Returned(proc[p], "false"))

\* Identifiers are given out in order.
NextPid == {q \in Pid : proc[q].step = "none" /\ \A r \in Pid : r < q => proc[r].step # "none"}

Fork(p) ==
  /\ proc[p].step = "fork"
  /\ \E q \in NextPid :
       proc' = [proc EXCEPT
                  ![p].step = "wait",
                  ![q] = [proc[p] EXCEPT !.step = "child", !.parent = p, !.born = proc[p].at]]
  /\ UNCHANGED program

\* Faulty variant: the output file stays open.
ForkFailsOpen(p) ==
  /\ proc[p].step = "fork" /\ "fork" \in Faults
  /\ Becomes(p, Returned(proc[p], "false"))

\* Also when there are as many processes as there may be.
ForkFails(p) ==
  /\ proc[p].step = "fork"
  /\ "fork" \in Faults \/ NextPid = {}
  /\ Becomes(p, Returned([proc[p] EXCEPT !.out = @ \ {proc[p].at}], "false"))

-----------------------------------------------------------------------------
(* The child.                                                              *)

DupFails(p) ==
  /\ proc[p].step = "child" /\ This(p).fn = "redirect" /\ "dup" \in Faults
  /\ Becomes(p, Ended(proc[p], 134))

\* dup2 and close come before execv in do_exec_redirect.
Exec(p) ==
  /\ proc[p].step = "child" /\ This(p).path = "program"
  /\ Becomes(p, [proc[p] EXCEPT !.step = "command", !.ran = TRUE, !.out = @ \ {proc[p].at}])

\* Faulty variant: a shell that cannot start the command does not exit, either.
ExecFailsReturns(p) ==
  /\ proc[p].step = "child" /\ This(p).path # "program"
  /\ Becomes(p, Returned([proc[p] EXCEPT !.out = @ \ {proc[p].at}], "false"))

\* The shell that system starts exits with 127.  The child of the other two
\* returns false, to its own copy of the caller.
ExecFails(p) ==
  /\ proc[p].step = "child" /\ This(p).path # "program"
  /\ Becomes(p, IF This(p).fn = "system" THEN Ended(proc[p], 127)
                ELSE Returned([proc[p] EXCEPT !.out = @ \ {proc[p].at}], "false"))

\* A command ends with one status or another.
Exit(p) ==
  /\ proc[p].step = "command"
  /\ \E status \in {0, 1} : Becomes(p, Ended(proc[p], status))

-----------------------------------------------------------------------------
(* The parent.                                                             *)

Zombies(p) == {q \in Pid : proc[q].parent = p /\ proc[q].step = "zombie"}

\* p collects its child q and the call returns value.
Reap(p, q, value) ==
  /\ proc' = [proc EXCEPT ![q].step = "reaped", ![p] = Returned(@, value)]
  /\ UNCHANGED program

Waiting(p) == proc[p].step = "wait" /\ This(p).fn # "system"

\* Faulty variant: a child that is not the one forked is taken for a failure.
WaitForOwn(p) ==
  /\ Waiting(p)
  /\ \E q \in Zombies(p) : Reap(p, q, IF proc[q].born = proc[p].at THEN "true" ELSE "false")

\* Faulty variant: WNOHANG.
WaitNot(p) ==
  /\ Waiting(p)
  /\ Becomes(p, Returned(proc[p], "true"))

\* Faulty variant: until there are no children left that run.
WaitForAll(p) ==
  /\ Waiting(p)
  /\ \A q \in Pid : proc[q].parent = p => proc[q].step \in {"none", "zombie", "reaped"}
  /\ \E q \in Zombies(p) : Reap(p, q, "true")

\* wait(NULL) collects any child that has ended, and its status is not looked at.
Wait(p) ==
  /\ Waiting(p)
  /\ \E q \in Zombies(p) : Reap(p, q, "true")

\* Faulty variant: the return code itself is returned.
SystemReturnsCode(p) ==
  /\ proc[p].step = "wait" /\ This(p).fn = "system"
  /\ \E q \in Zombies(p) : proc[q].born = proc[p].at /\ Reap(p, q, "return_code")

\* Faulty variant: only the failure to start the shell counts.
SystemReturnsStarted(p) ==
  /\ proc[p].step = "wait" /\ This(p).fn = "system"
  /\ \E q \in Zombies(p) :
       /\ proc[q].born = proc[p].at
       /\ Reap(p, q, IF proc[q].status # 127 THEN "true" ELSE "false")

\* system waits for its own child.
SystemReturns(p) ==
  /\ proc[p].step = "wait" /\ This(p).fn = "system"
  /\ \E q \in Zombies(p) :
       /\ proc[q].born = proc[p].at
       /\ Reap(p, q, IF proc[q].status = 0 THEN "true" ELSE "false")

ProgramEnds(p) ==
  /\ proc[p].step = "call" /\ proc[p].at > Len(program)
  /\ Becomes(p, Ended(proc[p], 0))

-----------------------------------------------------------------------------

Step(p) ==
  \/ DoSystem(p) \/ Refuse(p) \/ Crash(p) \/ DoExec(p) \/ DoExecRedirect(p)
  \/ Fork(p) \/ ForkFails(p) \/ DupFails(p) \/ Exec(p) \/ ExecFails(p) \/ Exit(p)
  \/ Wait(p) \/ SystemReturns(p) \/ ProgramEnds(p)

Next == \E p \in Pid : Step(p)

Spec == Init /\ [][Next]_vars

\* Processes run, and the commands end.  What the program has in the background
\* need not.
FairSpec == Spec /\ \A p \in Pid \ Background : WF_vars(Step(p))

=============================================================================
