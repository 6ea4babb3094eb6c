-------------------------- MODULE SystemCallsProofs --------------------------
(***************************************************************************)
(* Proofs that the functions of systemcalls.c keep the promises of         *)
(* SystemCallsProperties, for every program, every number of processes,    *)
(* every set of children in the background and every set of faults.        *)
(***************************************************************************)
EXTENDS SystemCallsProperties, FiniteSetTheorems, TLAPS

-----------------------------------------------------------------------------
(* The inductive invariant.                                                *)

Outside == Background \cup {Main}

\* What the record r of process p says by itself: a process makes the call it
\* was made for only when that call's execv has failed, nothing is returned yet
\* by the calls that follow, only the output file of the current call may be
\* open without its having returned true, and a shell has ended well only if it
\* has run its command.
Sound(p, r) ==
  /\ r.step \in {"fork", "wait", "child"} => r.at <= Len(program)
  /\ r.step = "none" => p \notin Outside /\ ~r.ran
  /\ p \in Background => r.step \in {"command", "zombie", "reaped"}
  /\ p \in Outside => r.parent = Main
  /\ r.born = 0 <=> p \in Outside \/ r.step = "none"
  /\ r.step = "child" => r.at = r.born
  /\ r.step \in {"call", "fork", "wait"} => r.at > r.born
  /\ r.born > 0 /\ r.at # r.born =>
       program[r.born].fn # "system" /\ program[r.born].path # "program"
  /\ \A k \in DOMAIN program : k >= r.at => r.ret[k] = "none"
  /\ \A k \in r.out :
       \/ k < r.at /\ r.ret[k] = "true"
       \/ k = r.at /\ r.step \in {"fork", "wait", "child"} /\ program[k].fn = "redirect"
  /\ r.step = "command" => r.ran \/ p \in Background
  /\ r.step \in {"zombie", "reaped"} /\ r.status = 0 /\ r.born > 0 =>
       r.ran \/ program[r.born].fn # "system"

\* A process that was forked is younger than its parent, which has made the call
\* already or is waiting in it.
Lineage ==
  \A q \in Pid : proc[q].born > 0 =>
    LET p == proc[q].parent
    IN  /\ p \notin Background /\ proc[p].step # "none"
        /\ proc[p].born < proc[q].born
        /\ \/ proc[q].born < proc[p].at
           \/ proc[q].born = proc[p].at /\ proc[p].step = "wait"

\* A call forks one process at most.
OneFork ==
  \A p, q \in Pid :
    proc[p].born > 0 /\ proc[p].born = proc[q].born /\ proc[p].parent = proc[q].parent => p = q

\* The command of a call of do_system that has returned has been collected.
SystemCollects ==
  \A p \in Pid : \A k \in Own(p) :
    program[k].fn = "system" /\ proc[p].ret[k] # "none" =>
      \A q \in Forked(p, k) : proc[q].step = "reaped"

\* A call of do_exec or do_exec_redirect that has returned false forked nothing.
FalseForksNothing ==
  \A p \in Pid : \A k \in Own(p) :
    program[k].fn # "system" /\ proc[p].ret[k] = "false" => Forked(p, k) = {}

\* The children of p that it has not collected.
Uncollected(p) ==
  {q \in Pid \ {Main} : proc[q].parent = p /\ proc[q].step \notin {"none", "reaped"}}

\* ChildrenBalanced, also within a call: the process forked is there while its
\* parent waits.
Balanced ==
  \A p \in Pid : proc[p].step \in {"call", "fork", "child", "wait"} =>
    Cardinality(Uncollected(p))
      = (IF p = Main THEN Cardinality(Background) ELSE 0)
        + (IF proc[p].step = "wait" THEN 1 ELSE 0)

CallsInv ==
  /\ TypeOK
  /\ \A p \in Pid : Sound(p, proc[p])
  /\ Lineage /\ OneFork
  /\ SystemTruthful /\ SystemCollects /\ FalseForksNothing
  /\ Balanced

-----------------------------------------------------------------------------
(* The initial states.                                                     *)

LEMMA Shapes ==
  ASSUME program \in Programs
  PROVE  program \in Seq(Call) /\ Len(program) \in Nat /\ DOMAIN program = 1..Len(program)
BY SystemCallsAssumption

LEMMA InitCalls == Init => CallsInv
<1> SUFFICES ASSUME Init PROVE CallsInv
  OBVIOUS
<1>1. program \in Programs /\ Len(program) \in Nat /\ DOMAIN program = 1..Len(program)
  BY Shapes DEF Init
<1>2. /\ Main \in Pid /\ Background \subseteq Pid /\ Main \notin Background
      /\ IsFiniteSet(Pid) /\ Pid \subseteq Nat
  BY SystemCallsAssumption
<1> DEFINE first(q) == IF q = Main THEN "call" ELSE IF q \in Background THEN "command" ELSE "none"
           none == [k \in DOMAIN program |-> "none"]
<1>0. none \in [DOMAIN program -> {"none", "true", "false"}]
  OBVIOUS
<1>3. ASSUME NEW q \in Pid
      PROVE  /\ proc[q].step = first(q) /\ proc[q].at = 1 /\ proc[q].parent = Main
             /\ proc[q].born = 0 /\ proc[q].out = {} /\ proc[q].ran = FALSE
             /\ proc[q].status = 0 /\ proc[q].ret = none
             /\ proc[q] \in Process
  <2>1. 1 \in 1..(Len(program) + 1) /\ 0 \in 0..Len(program) /\ Main \in Pid
    BY <1>1, <1>2
  <2>2. proc[q] = [step |-> first(q), at |-> 1, parent |-> Main, born |-> 0,
                   out |-> {}, ran |-> FALSE, status |-> 0, ret |-> none]
    <3>1. CASE q = Main
      BY <3>1 DEF Init, NoProc
    <3>2. CASE q # Main /\ q \in Background
      BY <3>2 DEF Init, NoProc
    <3>3. CASE q # Main /\ q \notin Background
      BY <3>3 DEF Init, NoProc
    <3> QED
      BY <3>1, <3>2, <3>3
  <2>3. first(q) \in {"call", "command", "none"}
    OBVIOUS
  <2> HIDE DEF first, none
  <2> QED
    BY <1>0, <2>1, <2>2, <2>3 DEF Process
<1>4. \A q \in Pid :
        /\ proc[q].step = first(q) /\ proc[q].at = 1 /\ proc[q].parent = Main
        /\ proc[q].born = 0 /\ proc[q].out = {} /\ proc[q].ran = FALSE /\ proc[q].status = 0
        /\ proc[q].ret = none
  <2> HIDE DEF first, none
  <2> QED
    BY <1>3
<1>5. TypeOK
  <2>1. proc = [q \in Pid |-> proc[q]]
    BY DEF Init
  <2> QED
    BY <1>1, <1>3, <2>1 DEF TypeOK
<1>6. \A q \in Pid : Sound(q, proc[q])
  BY <1>1, <1>2, <1>4 DEF Sound, Outside
<1>7. Lineage /\ OneFork
  BY <1>4 DEF Lineage, OneFork
<1>8. SystemTruthful /\ SystemCollects /\ FalseForksNothing
  BY <1>4 DEF SystemTruthful, SystemCollects, FalseForksNothing, Own
<1>9. Balanced
  <2>1. Uncollected(Main) = Background
    <3>1. \A q : q \in Uncollected(Main) <=> q \in Background
      BY <1>2, <1>4 DEF Uncollected
    <3> QED
      BY <3>1
  <2>2. Cardinality(Background) \in Nat
    BY <1>2, FS_Subset, FS_CardinalityType
  <2> QED
    BY <1>4, <2>1, <2>2 DEF Balanced
<1> QED
  BY <1>5, <1>6, <1>7, <1>8, <1>9 DEF CallsInv

-----------------------------------------------------------------------------
(* Steps of one process.                                                   *)

\* A step that forks nothing and collects nothing: the process goes on in the
\* same call, or returns false from it.
LEMMA LocalStep ==
  ASSUME CallsInv, NEW p \in Pid, NEW r \in Process, Becomes(p, r), Sound(p, r),
         proc[p].step \in {"call", "fork", "child", "command"},
         r.step \in {"call", "fork", "command", "zombie"},
         r.parent = proc[p].parent, r.born = proc[p].born,
         proc[p].step = "command" => r.step = "zombie",
         \/ r.at = proc[p].at /\ r.ret = proc[p].ret
         \/ /\ r.at = proc[p].at + 1 /\ proc[p].at <= Len(program)
            /\ r.ret = [proc[p].ret EXCEPT ![proc[p].at] = "false"]
  PROVE  CallsInv'
<1>1. program' = program /\ proc' = [proc EXCEPT ![p] = r]
  BY DEF Becomes
<1>2. /\ TypeOK /\ Lineage /\ OneFork /\ SystemTruthful /\ SystemCollects
      /\ FalseForksNothing /\ Balanced
      /\ \A q \in Pid : proc[q] \in Process /\ Sound(q, proc[q])
      /\ Len(program) \in Nat /\ DOMAIN program = 1..Len(program)
  BY Shapes DEF CallsInv, TypeOK
<1>3. \A q \in Pid : proc'[q] = IF q = p THEN r ELSE proc[q]
  BY <1>1, <1>2 DEF TypeOK
<1>4. \A q \in Pid :
        /\ proc'[q].parent = proc[q].parent /\ proc'[q].born = proc[q].born
        /\ proc[q].at \in Nat /\ proc'[q].at \in Nat /\ proc'[q].at >= proc[q].at
        /\ proc'[q].step = "none" <=> proc[q].step = "none"
        /\ proc'[q].step = "reaped" <=> proc[q].step = "reaped"
        /\ proc'[q].step = "wait" <=> proc[q].step = "wait"
        /\ q # p => proc'[q] = proc[q]
  BY <1>2, <1>3 DEF Process
<1>5. \A x \in Pid : Own(x)' = Own(x)
  BY <1>1, <1>4 DEF Own
<1>6. \A x \in Pid, k \in Nat : Forked(x, k)' = Forked(x, k)
  BY <1>4 DEF Forked
<1>7. \A x \in Pid : Uncollected(x)' = Uncollected(x)
  BY <1>4 DEF Uncollected
<1>8. TypeOK'
  BY <1>1, <1>2 DEF TypeOK, Process
<1>9. (\A q \in Pid : Sound(q, proc[q]))'
  BY <1>1, <1>2, <1>3 DEF Sound
<1>10. Lineage'
  <2> SUFFICES ASSUME NEW q \in Pid, proc[q].born > 0
               PROVE  LET x == proc[q].parent
                      IN  /\ x \notin Background /\ proc'[x].step # "none"
                          /\ proc'[x].born < proc[q].born
                          /\ \/ proc[q].born < proc'[x].at
                             \/ proc[q].born = proc'[x].at /\ proc'[x].step = "wait"
    BY <1>4 DEF Lineage
  <2>1. proc[q].parent \in Pid /\ proc[q].born \in Nat
    BY <1>2 DEF Process
  <2> DEFINE x == proc[q].parent
  <2>2. /\ x \notin Background /\ proc[x].step # "none" /\ proc[x].born < proc[q].born
        /\ \/ proc[q].born < proc[x].at
           \/ proc[q].born = proc[x].at /\ proc[x].step = "wait"
    BY <1>2 DEF Lineage
  <2>3. proc[x].step = "wait" => x # p
    OBVIOUS
  <2> HIDE DEF x
  <2>4. x \in Pid
    BY <2>1 DEF x
  <2> QED
    BY <1>4, <2>1, <2>2, <2>3, <2>4 DEF x
<1>11. OneFork'
  BY <1>2, <1>4 DEF OneFork
\* The call that returns has forked nothing.
<1>12. Forked(p, proc[p].at) = {}
  BY <1>2 DEF Forked, Lineage, Process
<1>13. ASSUME NEW x \in Pid, NEW k \in Own(x)
       PROVE  \/ proc'[x].ret[k] = proc[x].ret[k]
              \/ x = p /\ k = proc[p].at /\ proc'[x].ret[k] = "false"
  <2>1. k \in DOMAIN program
    BY DEF Own
  <2> QED
    BY <1>2, <1>3, <2>1 DEF Process
<1>14. ASSUME NEW q \in Pid, proc[q].step = "reaped"
       PROVE  proc'[q] = proc[q]
  BY <1>4, <1>14
<1>15. SystemCollects'
  <2> SUFFICES ASSUME NEW x \in Pid, NEW k \in Own(x), program[k].fn = "system",
                      proc'[x].ret[k] # "none", NEW q \in Forked(x, k)
               PROVE  proc'[q].step = "reaped"
    BY <1>1, <1>5, <1>6 DEF SystemCollects, Own
  <2>1. proc[x].ret[k] # "none"
    BY <1>12, <1>13
  <2>2. q \in Pid /\ proc[q].step = "reaped"
    BY <1>2, <2>1 DEF SystemCollects, Forked
  <2> QED
    BY <1>4, <2>2
<1>16. SystemTruthful'
  <2> SUFFICES ASSUME NEW x \in Pid, NEW k \in Own(x), program[k].fn = "system",
                      proc'[x].ret[k] # "none"
               PROVE  proc'[x].ret[k] = "true" <=>
                        \E q \in Forked(x, k) :
                          proc'[q].ran /\ proc'[q].step = "reaped" /\ proc'[q].status = 0
    BY <1>1, <1>5, <1>6 DEF SystemTruthful, Own
  <2>1. CASE x = p /\ k = proc[p].at /\ proc'[x].ret[k] = "false"
    BY <1>12, <2>1
  <2>2. CASE proc'[x].ret[k] = proc[x].ret[k]
    <3>1. \A q \in Forked(x, k) : proc[q].step = "reaped"
      BY <1>2, <2>2 DEF SystemCollects
    <3>2. \A q \in Forked(x, k) : proc'[q] = proc[q]
      BY <1>14, <3>1 DEF Forked
    <3>3. proc[x].ret[k] = "true" <=>
            \E q \in Forked(x, k) : proc[q].ran /\ proc[q].step = "reaped" /\ proc[q].status = 0
      BY <1>2, <2>2 DEF SystemTruthful
    <3> QED
      BY <2>2, <3>2, <3>3
  <2> QED
    BY <1>13, <2>1, <2>2
<1>17. FalseForksNothing'
  <2> SUFFICES ASSUME NEW x \in Pid, NEW k \in Own(x), program[k].fn # "system",
                      proc'[x].ret[k] = "false"
               PROVE  Forked(x, k) = {}
    BY <1>1, <1>5, <1>6 DEF FalseForksNothing, Own
  <2> QED
    BY <1>2, <1>12, <1>13 DEF FalseForksNothing
<1>18. Balanced'
  <2> SUFFICES ASSUME NEW x \in Pid, proc'[x].step \in {"call", "fork", "child", "wait"}
               PROVE  Cardinality(Uncollected(x))
                        = (IF x = Main THEN Cardinality(Background) ELSE 0)
                          + (IF proc'[x].step = "wait" THEN 1 ELSE 0)
    BY <1>7 DEF Balanced
  <2>1. proc[x].step \in {"call", "fork", "child", "wait"}
    BY <1>3, <1>4
  <2> QED
    BY <1>2, <1>4, <2>1 DEF Balanced
<1> QED
  BY <1>8, <1>9, <1>10, <1>11, <1>15, <1>16, <1>17, <1>18 DEF CallsInv

-----------------------------------------------------------------------------
(* Fork.                                                                   *)

LEMMA ForkStep ==
  ASSUME CallsInv, NEW p \in Pid, Fork(p)
  PROVE  CallsInv'
<1>1. /\ TypeOK /\ Lineage /\ OneFork /\ SystemTruthful /\ SystemCollects
      /\ FalseForksNothing /\ Balanced
      /\ \A x \in Pid : proc[x] \in Process /\ Sound(x, proc[x])
      /\ Len(program) \in Nat /\ DOMAIN program = 1..Len(program)
      /\ Main \in Pid
  BY Shapes, SystemCallsAssumption DEF CallsInv, TypeOK
<1>2. PICK q \in NextPid :
        proc' = [proc EXCEPT
                   ![p].step = "wait",
                   ![q] = [proc[p] EXCEPT !.step = "child", !.parent = p, !.born = proc[p].at]]
  BY DEF Fork
<1>3. proc[p].step = "fork" /\ program' = program
  BY DEF Fork
<1> DEFINE at == proc[p].at
<1>4. /\ q \in Pid /\ proc[q].step = "none" /\ q # p
  BY <1>2, <1>3 DEF NextPid
<1>5. /\ q \notin Outside /\ proc[q].born = 0 /\ ~proc[q].ran
      /\ at \in DOMAIN program /\ at > proc[p].born /\ p \notin Background
  BY <1>1, <1>3, <1>4 DEF Sound, Process
<1> DEFINE waits == [proc[p] EXCEPT !.step = "wait"]
           child == [proc[p] EXCEPT !.step = "child", !.parent = p, !.born = at]
<1>6. \A x \in Pid : proc'[x] = IF x = p THEN waits ELSE IF x = q THEN child ELSE proc[x]
  BY <1>1, <1>2, <1>4 DEF TypeOK
<1>7. waits \in Process /\ child \in Process
  <2>1. proc[p] \in Process /\ at \in 0..Len(program)
    BY <1>1, <1>5
  <2> HIDE DEF at
  <2>2. waits \in Process
    BY <2>1 DEF Process
  <2>3. child \in Process
    BY <2>1 DEF Process
  <2> QED
    BY <2>2, <2>3
<1>8. /\ waits.step = "wait" /\ waits.at = at /\ waits.parent = proc[p].parent
      /\ waits.born = proc[p].born /\ waits.out = proc[p].out /\ waits.ran = proc[p].ran
      /\ waits.status = proc[p].status /\ waits.ret = proc[p].ret
      /\ child.step = "child" /\ child.at = at /\ child.parent = p /\ child.born = at
      /\ child.out = proc[p].out /\ child.ran = proc[p].ran
      /\ child.status = proc[p].status /\ child.ret = proc[p].ret
  BY <1>1 DEF Process
<1>9. at \in Nat /\ at > 0
  BY <1>1, <1>5
<1> HIDE DEF waits, child, at
<1>10. TypeOK'
  <2>1. proc' \in [Pid -> Process]
    BY <1>1, <1>2, <1>4, <1>6, <1>7 DEF TypeOK
  <2> QED
    BY <1>1, <1>3, <2>1 DEF TypeOK, Process
<1>11. (\A x \in Pid : Sound(x, proc[x]))'
  <2>0. Sound(p, proc[p]) /\ at <= Len(program) /\ at = proc[p].at
    BY <1>1, <1>3 DEF Sound, at
  <2>1. Sound(p, waits)
    BY <1>3, <1>5, <1>8, <1>9, <2>0 DEF Sound
  <2>2. Sound(q, child)
    BY <1>3, <1>5, <1>8, <1>9, <2>0 DEF Sound, Outside
  <2>3. \A x \in Pid : Sound(x, proc'[x])
    BY <1>1, <1>6, <2>1, <2>2
  <2> QED
    BY <1>3, <2>3 DEF Sound
\* Nobody is a child of the new process.
<1>12. \A x \in Pid : proc[x].step # "none" => proc[x].parent # q
  BY <1>1, <1>4, <1>5 DEF Lineage, Sound, Process, Outside
<1>13. \A x \in Pid :
         /\ proc'[x].born = (IF x = q THEN at ELSE proc[x].born)
         /\ proc'[x].parent = (IF x = q THEN p ELSE proc[x].parent)
         /\ proc'[x].step = (IF x = p THEN "wait" ELSE IF x = q THEN "child" ELSE proc[x].step)
         /\ proc'[x].at = (IF x = q THEN at ELSE proc[x].at)
         /\ proc'[x].ret = (IF x = q THEN proc[p].ret ELSE proc[x].ret)
         /\ proc[x].born \in Nat /\ proc[x].at \in Nat /\ proc[x].parent \in Pid
  <2> SUFFICES ASSUME NEW x \in Pid
               PROVE  /\ proc'[x].born = (IF x = q THEN at ELSE proc[x].born)
                      /\ proc'[x].parent = (IF x = q THEN p ELSE proc[x].parent)
                      /\ proc'[x].step = (IF x = p THEN "wait"
                                          ELSE IF x = q THEN "child" ELSE proc[x].step)
                      /\ proc'[x].at = (IF x = q THEN at ELSE proc[x].at)
                      /\ proc'[x].ret = (IF x = q THEN proc[p].ret ELSE proc[x].ret)
                      /\ proc[x].born \in Nat /\ proc[x].at \in Nat /\ proc[x].parent \in Pid
    OBVIOUS
  <2>1. proc[x].born \in Nat /\ proc[x].at \in Nat /\ proc[x].parent \in Pid
    BY <1>1 DEF Process
  <2>2. CASE x = p
    BY <1>4, <1>6, <1>8, <2>1, <2>2 DEF at
  <2>3. CASE x = q
    BY <1>4, <1>6, <1>8, <2>1, <2>3
  <2>4. CASE x # p /\ x # q
    BY <1>6, <2>1, <2>4
  <2> QED
    BY <2>2, <2>3, <2>4
\* The calls of p up to now have forked before.
<1>14. \A x \in Pid : proc[x].born > 0 /\ proc[x].parent = p => proc[x].born < at
  BY <1>1, <1>3 DEF Lineage, at
<1>15. Lineage'
  <2> SUFFICES ASSUME NEW x \in Pid, proc'[x].born > 0
               PROVE  LET y == proc'[x].parent
                      IN  /\ y \notin Background /\ proc'[y].step # "none"
                          /\ proc'[y].born < proc'[x].born
                          /\ \/ proc'[x].born < proc'[y].at
                             \/ proc'[x].born = proc'[y].at /\ proc'[y].step = "wait"
    BY DEF Lineage
  <2>1. CASE x = q
    BY <1>4, <1>5, <1>9, <1>13, <2>1 DEF at
  <2>2. CASE x # q
    <3> DEFINE y == proc[x].parent
    <3>1. /\ y \notin Background /\ proc[y].step # "none" /\ proc[y].born < proc[x].born
          /\ \/ proc[x].born < proc[y].at
             \/ proc[x].born = proc[y].at /\ proc[y].step = "wait"
      BY <1>1, <1>13, <2>2 DEF Lineage
    <3>2. y \in Pid /\ y # q
      BY <1>4, <1>13, <3>1
    <3> QED
      BY <1>3, <1>4, <1>13, <2>2, <3>1, <3>2
  <2> QED
    BY <2>1, <2>2
<1>16. OneFork'
  <2> SUFFICES ASSUME NEW x \in Pid, NEW y \in Pid, proc'[x].born > 0,
                      proc'[x].born = proc'[y].born, proc'[x].parent = proc'[y].parent
               PROVE  x = y
    BY DEF OneFork
  <2>1. CASE x # q /\ y # q
    BY <1>1, <1>13, <2>1 DEF OneFork
  <2>2. CASE x = q \/ y = q
    BY <1>4, <1>9, <1>13, <1>14, <2>2
  <2> QED
    BY <2>1, <2>2
<1>17. \A x \in Pid, k \in Nat \ {0} :
         Forked(x, k)' = IF x = p /\ k = at THEN {q} ELSE Forked(x, k)
  <2> SUFFICES ASSUME NEW x \in Pid, NEW k \in Nat \ {0}
               PROVE  Forked(x, k)' = IF x = p /\ k = at THEN {q} ELSE Forked(x, k)
    OBVIOUS
  <2>1. q # Main
    BY <1>5 DEF Outside
  <2>2. \A y : y \in Forked(x, k)' <=> (y = q /\ x = p /\ k = at) \/ y \in Forked(x, k)
    BY <1>4, <1>5, <1>13, <2>1 DEF Forked
  <2>3. Forked(p, at) = {}
    BY <1>9, <1>14 DEF Forked
  <2> QED
    BY <2>2, <2>3
<1>18. \A k \in DOMAIN program : k >= at => proc[p].ret[k] = "none"
  BY <1>1 DEF Sound, at
\* Of the calls that have returned, nothing changes.
<1>19. ASSUME NEW x \in Pid, NEW k \in Own(x)', proc'[x].ret[k] # "none"
       PROVE  /\ k \in Own(x) /\ proc[x].ret[k] = proc'[x].ret[k]
              /\ Forked(x, k)' = Forked(x, k)
  <2>1. k \in DOMAIN program /\ k \in Nat \ {0}
    BY <1>1, <1>3 DEF Own
  <2>2. x # q
    <3>1. x = q => k >= at /\ proc'[x].ret[k] = proc[p].ret[k]
      BY <1>13 DEF Own
    <3> QED
      BY <1>18, <1>19, <2>1, <3>1
  <2>3. k \in Own(x) /\ proc[x].ret[k] = proc'[x].ret[k]
    BY <1>3, <1>13, <2>2 DEF Own
  <2>4. ~(x = p /\ k = at)
    BY <1>9, <1>18, <1>19, <2>1, <2>3
  <2> QED
    BY <1>17, <2>1, <2>3, <2>4
<1>20. \A x \in Pid : proc[x].step = "reaped" => proc'[x] = proc[x]
  BY <1>3, <1>4, <1>6
<1>21. SystemCollects'
  <2> SUFFICES ASSUME NEW x \in Pid, NEW k \in Own(x)', program[k].fn = "system",
                      proc'[x].ret[k] # "none", NEW y \in Forked(x, k)'
               PROVE  proc'[y].step = "reaped"
    BY <1>3 DEF SystemCollects
  <2>1. k \in Own(x) /\ proc[x].ret[k] # "none" /\ y \in Forked(x, k)
    BY <1>19
  <2>2. y \in Pid /\ proc[y].step = "reaped"
    BY <1>1, <2>1 DEF SystemCollects, Forked
  <2> QED
    BY <1>20, <2>2
<1>22. SystemTruthful'
  <2> SUFFICES ASSUME NEW x \in Pid, NEW k \in Own(x)', program[k].fn = "system",
                      proc'[x].ret[k] # "none"
               PROVE  proc'[x].ret[k] = "true" <=>
                        \E y \in Forked(x, k)' :
                          proc'[y].ran /\ proc'[y].step = "reaped" /\ proc'[y].status = 0
    BY <1>3 DEF SystemTruthful
  <2>1. /\ k \in Own(x) /\ proc[x].ret[k] = proc'[x].ret[k] /\ Forked(x, k)' = Forked(x, k)
    BY <1>19
  <2>2. \A y \in Forked(x, k) : proc[y].step = "reaped"
    BY <1>1, <2>1 DEF SystemCollects
  <2>3. \A y \in Forked(x, k) : proc'[y] = proc[y]
    BY <1>20, <2>2 DEF Forked
  <2>4. proc[x].ret[k] = "true" <=>
          \E y \in Forked(x, k) : proc[y].ran /\ proc[y].step = "reaped" /\ proc[y].status = 0
    BY <1>1, <2>1 DEF SystemTruthful
  <2> QED
    BY <2>1, <2>3, <2>4
<1>23. FalseForksNothing'
  <2> SUFFICES ASSUME NEW x \in Pid, NEW k \in Own(x)', program[k].fn # "system",
                      proc'[x].ret[k] = "false"
               PROVE  Forked(x, k)' = {}
    BY <1>3 DEF FalseForksNothing
  <2> QED
    BY <1>1, <1>19 DEF FalseForksNothing
<1>24. Balanced'
  <2>1. \A x \in Pid : Uncollected(x)' = IF x = p THEN Uncollected(p) \cup {q} ELSE Uncollected(x)
    <3> SUFFICES ASSUME NEW x \in Pid
                 PROVE  Uncollected(x)'
                          = IF x = p THEN Uncollected(p) \cup {q} ELSE Uncollected(x)
      OBVIOUS
    <3>1. q # Main
      BY <1>5 DEF Outside
    <3>2. \A y : y \in Uncollected(x)' <=> (y = q /\ x = p) \/ y \in Uncollected(x)
      BY <1>3, <1>4, <1>13, <3>1 DEF Uncollected
    <3> QED
      BY <3>2
  <2>2. Uncollected(q) = {}
    BY <1>12 DEF Uncollected
  <2>3. q \notin Uncollected(p)
    BY <1>4 DEF Uncollected
  <2>4. IsFiniteSet(Uncollected(p)) /\ IsFiniteSet(Background)
    BY SystemCallsAssumption, FS_Subset DEF Uncollected
  <2>5. Cardinality(Uncollected(p) \cup {q}) = Cardinality(Uncollected(p)) + 1
    BY <2>3, <2>4, FS_AddElement
  <2>6. Cardinality(Background) \in Nat
    BY <2>4, FS_CardinalityType
  <2>7. Cardinality(Uncollected(p)) = (IF p = Main THEN Cardinality(Background) ELSE 0) + 0
    BY <1>1, <1>3 DEF Balanced
  <2> SUFFICES ASSUME NEW x \in Pid, proc'[x].step \in {"call", "fork", "child", "wait"}
               PROVE  Cardinality(Uncollected(x)')
                        = (IF x = Main THEN Cardinality(Background) ELSE 0)
                          + (IF proc'[x].step = "wait" THEN 1 ELSE 0)
    BY DEF Balanced
  <2>8. CASE x = p
    BY <1>13, <2>1, <2>5, <2>6, <2>7, <2>8
  <2>9. CASE x = q
    <3>1. Uncollected(x)' = {}
      BY <1>4, <2>1, <2>2, <2>9
    <3>2. Cardinality(Uncollected(x)') = 0
      BY <3>1, FS_EmptySet
    <3> QED
      BY <1>4, <1>5, <1>13, <2>9, <3>2 DEF Outside
  <2>10. CASE x # p /\ x # q
    BY <1>1, <1>13, <2>1, <2>10 DEF Balanced
  <2> QED
    BY <2>8, <2>9, <2>10
<1> QED
  BY <1>10, <1>11, <1>15, <1>16, <1>21, <1>22, <1>23, <1>24 DEF CallsInv

-----------------------------------------------------------------------------
(* Wait and the end of system.                                             *)

\* What the value that is returned has to do with the child that was collected.
Fits(p, q, value) ==
  /\ value \in {"true", "false"}
  /\ This(p).fn = "system" => /\ proc[q].born = proc[p].at
                              /\ value = "true" <=> proc[q].status = 0
  /\ This(p).fn # "system" => value = "true"

LEMMA ReapStep ==
  ASSUME CallsInv, NEW p \in Pid, NEW q \in Zombies(p), NEW value,
         proc[p].step = "wait", Fits(p, q, value), Reap(p, q, value)
  PROVE  CallsInv'
<1>1. /\ TypeOK /\ Lineage /\ OneFork /\ SystemTruthful /\ SystemCollects
      /\ FalseForksNothing /\ Balanced
      /\ \A x \in Pid : proc[x] \in Process /\ Sound(x, proc[x])
      /\ Len(program) \in Nat /\ DOMAIN program = 1..Len(program)
  BY Shapes DEF CallsInv, TypeOK
<1>2. q \in Pid /\ proc[q].parent = p /\ proc[q].step = "zombie" /\ q # p
  BY DEF Zombies
<1> DEFINE at == proc[p].at
           reaped == [proc[q] EXCEPT !.step = "reaped"]
           returned == Returned(proc[p], value)
<1>3. program' = program /\ value \in {"true", "false"}
  BY DEF Reap, Fits
<1>4. at \in DOMAIN program /\ at \in Nat /\ at > 0 /\ at > proc[p].born /\ p \notin Background
  BY <1>1 DEF Sound, Process
<1>5. \A x \in Pid : proc'[x] = IF x = p THEN returned ELSE IF x = q THEN reaped ELSE proc[x]
  BY <1>1, <1>2 DEF Reap, TypeOK
<1>6. reaped \in Process /\ returned \in Process
  <2>0. proc[q] \in Process
    BY <1>1, <1>2
  <2>1. reaped \in Process
    BY <2>0 DEF Process
  <2>2. proc[p] \in Process /\ at + 1 \in 1..(Len(program) + 1)
    BY <1>1, <1>4
  <2>3. returned \in Process
    BY <1>3, <1>4, <2>2 DEF Process, Returned
  <2> QED
    BY <2>1, <2>3
<1>7. /\ reaped.step = "reaped" /\ reaped.at = proc[q].at /\ reaped.parent = p
      /\ reaped.born = proc[q].born /\ reaped.out = proc[q].out /\ reaped.ran = proc[q].ran
      /\ reaped.status = proc[q].status /\ reaped.ret = proc[q].ret
  BY <1>1, <1>2 DEF Process
<1>8. /\ returned.step = "call" /\ returned.at = at + 1 /\ returned.parent = proc[p].parent
      /\ returned.born = proc[p].born /\ returned.out = proc[p].out /\ returned.ran = proc[p].ran
      /\ returned.status = proc[p].status /\ returned.ret = [proc[p].ret EXCEPT ![at] = value]
  BY <1>1 DEF Process, Returned
<1>9. \A k \in DOMAIN program : returned.ret[k] = IF k = at THEN value ELSE proc[p].ret[k]
  BY <1>1, <1>8 DEF Process
<1> HIDE DEF at, reaped, returned
<1>10. TypeOK'
  <2>1. proc' \in [Pid -> Process]
    BY <1>1, <1>2, <1>5, <1>6 DEF Reap, TypeOK
  <2> QED
    BY <1>1, <1>3, <2>1 DEF TypeOK, Process
<1>11. (\A x \in Pid : Sound(x, proc[x]))'
  <2>1. Sound(p, proc[p]) /\ Sound(q, proc[q])
    BY <1>1, <1>2
  <2>2. Sound(q, reaped)
    BY <1>2, <1>7, <2>1 DEF Sound
  <2>3. /\ proc[p].out \subseteq DOMAIN program /\ at = proc[p].at
        /\ program[at].fn # "system" => value = "true"
    BY <1>1 DEF Process, Fits, This, at
  <2>4. Sound(p, returned)
    <3>1. \A k \in DOMAIN program : k >= at + 1 => returned.ret[k] = "none"
      BY <1>1, <1>4, <1>9, <2>1, <2>3 DEF Sound
    <3>2. \A k \in proc[p].out : k < at + 1 /\ returned.ret[k] = "true"
      <4> SUFFICES ASSUME NEW k \in proc[p].out
                   PROVE  k < at + 1 /\ returned.ret[k] = "true"
        OBVIOUS
      <4>1. k \in DOMAIN program /\ k \in Nat
        BY <1>1, <2>3
      <4>2. \/ k < at /\ proc[p].ret[k] = "true"
            \/ k = at /\ program[k].fn = "redirect"
        BY <2>1, <2>3 DEF Sound
      <4> QED
        BY <1>4, <1>9, <2>3, <4>1, <4>2
    <3>3. proc[p].born \in Nat /\ at + 1 # proc[p].born /\ at + 1 > proc[p].born
          /\ at # proc[p].born
      BY <1>1, <1>4 DEF Process
    <3> QED
      BY <1>4, <1>8, <2>1, <2>3, <3>1, <3>2, <3>3 DEF Sound
  <2>5. \A x \in Pid : Sound(x, proc'[x])
    BY <1>1, <1>5, <2>2, <2>4
  <2> QED
    BY <1>3, <2>5 DEF Sound
<1>12. \A x \in Pid :
         /\ proc'[x].parent = proc[x].parent /\ proc'[x].born = proc[x].born
         /\ proc'[x].at = (IF x = p THEN at + 1 ELSE proc[x].at)
         /\ proc'[x].step = (IF x = p THEN "call" ELSE IF x = q THEN "reaped" ELSE proc[x].step)
         /\ proc[x].born \in Nat /\ proc[x].at \in Nat /\ proc[x].parent \in Pid
         /\ proc'[x].ran = proc[x].ran /\ proc'[x].status = proc[x].status
  <2> SUFFICES ASSUME NEW x \in Pid
               PROVE  /\ proc'[x].parent = proc[x].parent /\ proc'[x].born = proc[x].born
                      /\ proc'[x].at = (IF x = p THEN at + 1 ELSE proc[x].at)
                      /\ proc'[x].step = (IF x = p THEN "call"
                                          ELSE IF x = q THEN "reaped" ELSE proc[x].step)
                      /\ proc[x].born \in Nat /\ proc[x].at \in Nat /\ proc[x].parent \in Pid
                      /\ proc'[x].ran = proc[x].ran /\ proc'[x].status = proc[x].status
    OBVIOUS
  <2>1. proc[x].born \in Nat /\ proc[x].at \in Nat /\ proc[x].parent \in Pid
    BY <1>1 DEF Process
  <2>2. CASE x = p
    BY <1>5, <1>8, <2>1, <2>2
  <2>3. CASE x = q
    BY <1>2, <1>5, <1>7, <2>1, <2>3
  <2>4. CASE x # p /\ x # q
    BY <1>5, <2>1, <2>4
  <2> QED
    BY <2>2, <2>3, <2>4
<1>13. Lineage'
  <2> SUFFICES ASSUME NEW x \in Pid, proc[x].born > 0
               PROVE  LET y == proc[x].parent
                      IN  /\ y \notin Background /\ proc'[y].step # "none"
                          /\ proc'[y].born < proc[x].born
                          /\ \/ proc[x].born < proc'[y].at
                             \/ proc[x].born = proc'[y].at /\ proc'[y].step = "wait"
    BY <1>12 DEF Lineage
  <2> DEFINE y == proc[x].parent
  <2>1. /\ y \notin Background /\ proc[y].step # "none" /\ proc[y].born < proc[x].born
        /\ \/ proc[x].born < proc[y].at
           \/ proc[x].born = proc[y].at /\ proc[y].step = "wait"
    BY <1>1 DEF Lineage
  <2>2. y \in Pid
    BY <1>12
  <2> QED
    BY <1>2, <1>4, <1>12, <2>1, <2>2 DEF at
<1>14. OneFork'
  BY <1>1, <1>12 DEF OneFork
<1>15. \A x \in Pid : Own(x)' = Own(x) /\ \A k \in Nat : Forked(x, k)' = Forked(x, k)
  BY <1>3, <1>12 DEF Own, Forked
<1>16. ASSUME NEW x \in Pid, NEW k \in Own(x)
       PROVE  /\ k \in DOMAIN program /\ k \in Nat
              /\ \/ proc'[x].ret[k] = proc[x].ret[k]
                 \/ x = p /\ k = at /\ proc'[x].ret[k] = value
  <2>1. k \in DOMAIN program /\ k \in Nat
    BY <1>1 DEF Own
  <2>2. CASE x = p
    BY <1>5, <1>9, <2>1, <2>2
  <2>3. CASE x # p
    BY <1>5, <1>7, <2>1, <2>3
  <2> QED
    BY <2>1, <2>2, <2>3
\* The one command of the call of do_system that returns.
<1>17. program[at].fn = "system" => Forked(p, at) = {q}
  <2> SUFFICES ASSUME program[at].fn = "system" PROVE Forked(p, at) = {q}
    OBVIOUS
  <2>1. proc[q].born = at
    BY DEF Fits, This, at
  <2>2. q # Main
    BY <1>1, <1>2, <1>4, <2>1 DEF Sound, Outside
  <2>3. \A y : y \in Forked(p, at) <=> y = q
    BY <1>1, <1>2, <1>4, <2>1, <2>2 DEF Forked, OneFork
  <2> QED
    BY <2>3
<1>18. \A x \in Pid : proc[x].step = "reaped" => proc'[x] = proc[x]
  BY <1>2, <1>5
<1>19. SystemCollects'
  <2> SUFFICES ASSUME NEW x \in Pid, NEW k \in Own(x), program[k].fn = "system",
                      proc'[x].ret[k] # "none", NEW y \in Forked(x, k)
               PROVE  proc'[y].step = "reaped"
    BY <1>3, <1>15, <1>16 DEF SystemCollects
  <2>1. CASE x = p /\ k = at
    BY <1>2, <1>12, <1>17, <2>1
  <2>2. CASE proc'[x].ret[k] = proc[x].ret[k]
    <3>1. y \in Pid /\ proc[y].step = "reaped"
      BY <1>1, <2>2 DEF SystemCollects, Forked
    <3> QED
      BY <1>18, <3>1
  <2> QED
    BY <1>16, <2>1, <2>2
<1>20. SystemTruthful'
  <2> SUFFICES ASSUME NEW x \in Pid, NEW k \in Own(x), program[k].fn = "system",
                      proc'[x].ret[k] # "none"
               PROVE  proc'[x].ret[k] = "true" <=>
                        \E y \in Forked(x, k) :
                          proc'[y].ran /\ proc'[y].step = "reaped" /\ proc'[y].status = 0
    BY <1>3, <1>15, <1>16 DEF SystemTruthful
  <2>1. CASE x = p /\ k = at /\ proc'[x].ret[k] = value
    <3>1. proc[q].born = at /\ (value = "true" <=> proc[q].status = 0)
      BY <2>1 DEF Fits, This, at
    <3>2. proc[q].status = 0 => proc[q].ran
      BY <1>1, <1>2, <1>4, <2>1, <3>1 DEF Sound
    <3>3. proc'[q].ran = proc[q].ran /\ proc'[q].step = "reaped" /\ proc'[q].status = proc[q].status
      BY <1>2, <1>12
    <3>4. Forked(x, k) = {q}
      BY <1>17, <2>1
    <3> QED
      BY <2>1, <3>1, <3>2, <3>3, <3>4
  <2>2. CASE proc'[x].ret[k] = proc[x].ret[k]
    <3>1. \A y \in Forked(x, k) : proc[y].step = "reaped"
      BY <1>1, <2>2 DEF SystemCollects
    <3>2. \A y \in Forked(x, k) : proc'[y] = proc[y]
      BY <1>18, <3>1 DEF Forked
    <3>3. proc[x].ret[k] = "true" <=>
            \E y \in Forked(x, k) : proc[y].ran /\ proc[y].step = "reaped" /\ proc[y].status = 0
      BY <1>1, <2>2 DEF SystemTruthful
    <3> QED
      BY <2>2, <3>2, <3>3
  <2> QED
    BY <1>16, <2>1, <2>2
<1>21. FalseForksNothing'
  <2> SUFFICES ASSUME NEW x \in Pid, NEW k \in Own(x), program[k].fn # "system",
                      proc'[x].ret[k] = "false"
               PROVE  Forked(x, k) = {}
    BY <1>3, <1>15, <1>16 DEF FalseForksNothing
  <2>1. ~(x = p /\ k = at /\ value = "false")
    BY DEF Fits, This, at
  <2>2. proc[x].ret[k] = "false"
    BY <1>16, <2>1
  <2> QED
    BY <1>1, <2>2 DEF FalseForksNothing
<1>22. Balanced'
  <2>1. q # Main
    BY <1>1, <1>2 DEF Sound, Outside
  <2>2. \A x \in Pid : Uncollected(x)' = IF x = p THEN Uncollected(p) \ {q} ELSE Uncollected(x)
    <3> SUFFICES ASSUME NEW x \in Pid
                 PROVE  Uncollected(x)' = IF x = p THEN Uncollected(p) \ {q} ELSE Uncollected(x)
      OBVIOUS
    <3>1. \A y : y \in Uncollected(x)' <=> y \in Uncollected(x) /\ ~(x = p /\ y = q)
      BY <1>2, <1>12 DEF Uncollected
    <3> QED
      BY <3>1
  <2>3. q \in Uncollected(p)
    BY <1>2, <2>1 DEF Uncollected
  <2>4. IsFiniteSet(Uncollected(p)) /\ IsFiniteSet(Background)
    BY SystemCallsAssumption, FS_Subset DEF Uncollected
  <2>5. Cardinality(Uncollected(p) \ {q}) = Cardinality(Uncollected(p)) - 1
    BY <2>3, <2>4, FS_RemoveElement
  <2>6. Cardinality(Background) \in Nat
    BY <2>4, FS_CardinalityType
  <2>7. Cardinality(Uncollected(p)) = (IF p = Main THEN Cardinality(Background) ELSE 0) + 1
    BY <1>1 DEF Balanced
  <2> SUFFICES ASSUME NEW x \in Pid, proc'[x].step \in {"call", "fork", "child", "wait"}
               PROVE  Cardinality(Uncollected(x)')
                        = (IF x = Main THEN Cardinality(Background) ELSE 0)
                          + (IF proc'[x].step = "wait" THEN 1 ELSE 0)
    BY DEF Balanced
  <2>8. CASE x = p
    <3>1. Uncollected(x)' = Uncollected(p) \ {q} /\ proc'[x].step = "call"
      BY <1>12, <2>2, <2>8
    <3>2. Cardinality(Uncollected(x)') = IF x = Main THEN Cardinality(Background) ELSE 0
      BY <2>5, <2>6, <2>7, <2>8, <3>1
    <3> QED
      BY <2>6, <3>1, <3>2
  <2>9. CASE x # p
    <3>1. proc[x].step = proc'[x].step
      BY <1>12, <2>9
    <3> QED
      BY <1>1, <2>2, <2>9, <3>1 DEF Balanced
  <2> QED
    BY <2>8, <2>9
<1> QED
  BY <1>10, <1>11, <1>13, <1>14, <1>19, <1>20, <1>21, <1>22 DEF CallsInv

-----------------------------------------------------------------------------
(* The actions.                                                            *)

\* The record of a process, as the steps below need it.
LEMMA Known ==
  ASSUME CallsInv, NEW p \in Pid
  PROVE  /\ proc[p] \in Process /\ Sound(p, proc[p])
         /\ Len(program) \in Nat /\ DOMAIN program = 1..Len(program)
         /\ proc[p].at \in Nat /\ proc[p].at > 0 /\ proc[p].born \in Nat
         /\ proc[p].out \subseteq 1..Len(program)
BY Shapes DEF CallsInv, TypeOK, Process

\* A call returns false, and the output file it has opened is closed.
LEMMA ReturnFalse ==
  ASSUME CallsInv, NEW p \in Pid, NEW out \in SUBSET proc[p].out,
         proc[p].step \in {"call", "fork", "child"}, proc[p].at <= Len(program),
         proc[p].at \notin out,
         proc[p].step = "child" => This(p).fn # "system" /\ This(p).path # "program",
         NEW r, r = Returned([proc[p] EXCEPT !.out = out], "false"), Becomes(p, r)
  PROVE  CallsInv'
<1> DEFINE at == proc[p].at
<1>1. /\ proc[p] \in Process /\ Sound(p, proc[p])
      /\ Len(program) \in Nat /\ DOMAIN program = 1..Len(program)
      /\ at \in Nat /\ at > 0 /\ proc[p].born \in Nat /\ proc[p].out \subseteq 1..Len(program)
  BY Known
<1>2. /\ r.step = "call" /\ r.at = at + 1 /\ r.parent = proc[p].parent
      /\ r.born = proc[p].born /\ r.out = out /\ r.ran = proc[p].ran
      /\ r.status = proc[p].status /\ r.ret = [proc[p].ret EXCEPT ![at] = "false"]
  BY <1>1 DEF Process, Returned
<1>3. r \in Process
  <2>1. at + 1 \in 1..(Len(program) + 1) /\ at \in DOMAIN program
    BY <1>1
  <2> QED
    BY <1>1, <2>1 DEF Process, Returned
<1>4. \A k \in DOMAIN program : r.ret[k] = IF k = at THEN "false" ELSE proc[p].ret[k]
  BY <1>1, <1>2 DEF Process
<1>5. Sound(p, r)
  <2>1. \A k \in DOMAIN program : k >= at + 1 => r.ret[k] = "none"
    BY <1>1, <1>4 DEF Sound
  <2>2. \A k \in out : k < at + 1 /\ r.ret[k] = "true"
    <3> SUFFICES ASSUME NEW k \in out PROVE k < at + 1 /\ r.ret[k] = "true"
      OBVIOUS
    <3>1. k \in DOMAIN program /\ k \in Nat /\ k # at
      BY <1>1
    <3>2. k < at /\ proc[p].ret[k] = "true"
      BY <1>1, <3>1 DEF Sound
    <3> QED
      BY <1>1, <1>4, <3>1, <3>2
  <2>3. at >= proc[p].born /\ at + 1 > proc[p].born /\ at + 1 # proc[p].born
    BY <1>1 DEF Sound
  <2>4. proc[p].born > 0 => /\ program[proc[p].born].fn # "system"
                            /\ program[proc[p].born].path # "program"
    BY <1>1, <2>3 DEF Sound, This
  <2> HIDE DEF at
  <2> QED
    BY <1>1, <1>2, <2>1, <2>2, <2>3, <2>4 DEF Sound
<1> QED
  BY <1>1, <1>2, <1>3, <1>5, LocalStep

\* The same for a call that has not opened a file.
LEMMA RefuseFalse ==
  ASSUME CallsInv, NEW p \in Pid, proc[p].step = "call", proc[p].at <= Len(program),
         Becomes(p, Returned(proc[p], "false"))
  PROVE  CallsInv'
<1>1. proc[p] \in Process /\ proc[p].at \notin proc[p].out
  BY Known DEF Sound
<1>2. [proc[p] EXCEPT !.out = proc[p].out] = proc[p]
  BY <1>1 DEF Process
<1> QED
  BY <1>1, <1>2, ReturnFalse

\* A process ends.
LEMMA EndStep ==
  ASSUME CallsInv, NEW p \in Pid, NEW status \in {0, 1, 127, 134, 139},
         proc[p].step \in {"call", "child", "command"},
         proc[p].step = "child" => status # 0,
         Becomes(p, Ended(proc[p], status))
  PROVE  CallsInv'
<1> DEFINE r == Ended(proc[p], status)
<1>1. /\ proc[p] \in Process /\ Sound(p, proc[p])
      /\ proc[p].at \in Nat /\ proc[p].at > 0 /\ proc[p].born \in Nat
  BY Known
<1>2. /\ r.step = "zombie" /\ r.at = proc[p].at /\ r.parent = proc[p].parent
      /\ r.born = proc[p].born /\ r.out = {} /\ r.ran = proc[p].ran
      /\ r.status = status /\ r.ret = proc[p].ret
  BY <1>1 DEF Process, Ended
<1>3. r \in Process
  BY <1>1 DEF Process, Ended
<1> HIDE DEF r
<1>4. Sound(p, r)
  BY <1>1, <1>2 DEF Sound, Outside
<1>5. Becomes(p, r)
  BY DEF r
<1> QED
  BY <1>1, <1>2, <1>3, <1>4, <1>5, LocalStep

\* A call comes to its fork, with the output file it has opened.
LEMMA EnterStep ==
  ASSUME CallsInv, NEW p \in Pid, NEW out, proc[p].step = "call", proc[p].at <= Len(program),
         \/ out = proc[p].out
         \/ out = proc[p].out \cup {proc[p].at} /\ This(p).fn = "redirect",
         NEW r, r = [Entered(p) EXCEPT !.out = out], Becomes(p, r)
  PROVE  CallsInv'
<1>1. /\ proc[p] \in Process /\ Sound(p, proc[p])
      /\ Len(program) \in Nat /\ DOMAIN program = 1..Len(program)
      /\ proc[p].at \in Nat /\ proc[p].at > 0 /\ proc[p].born \in Nat
  BY Known
<1>2. /\ r.step = "fork" /\ r.at = proc[p].at /\ r.parent = proc[p].parent
      /\ r.born = proc[p].born /\ r.out = out /\ r.ran = proc[p].ran
      /\ r.status = proc[p].status /\ r.ret = proc[p].ret
  BY <1>1 DEF Process, Entered
<1>3. r \in Process
  <2>1. out \in SUBSET DOMAIN program
    BY <1>1 DEF Process
  <2> QED
    BY <1>1, <2>1 DEF Process, Entered
<1>4. Sound(p, r)
  BY <1>1, <1>2 DEF Sound, This
<1> QED
  BY <1>1, <1>2, <1>3, <1>4, LocalStep

LEMMA ExecStep ==
  ASSUME CallsInv, NEW p \in Pid, Exec(p)
  PROVE  CallsInv'
<1> DEFINE r == [proc[p] EXCEPT !.step = "command", !.ran = TRUE, !.out = @ \ {proc[p].at}]
<1>1. /\ proc[p] \in Process /\ Sound(p, proc[p])
      /\ proc[p].at \in Nat /\ proc[p].at > 0 /\ proc[p].born \in Nat
      /\ proc[p].step = "child" /\ Becomes(p, r)
  BY Known DEF Exec
<1>2. /\ r.step = "command" /\ r.at = proc[p].at /\ r.parent = proc[p].parent
      /\ r.born = proc[p].born /\ r.out = proc[p].out \ {proc[p].at} /\ r.ran = TRUE
      /\ r.status = proc[p].status /\ r.ret = proc[p].ret
  BY <1>1 DEF Process
<1>3. r \in Process
  BY <1>1 DEF Process
<1> HIDE DEF r
<1>4. Sound(p, r)
  BY <1>1, <1>2 DEF Sound
<1> QED
  BY <1>1, <1>2, <1>3, <1>4, LocalStep

LEMMA StepKeepsCalls ==
  ASSUME CallsInv, NEW p \in Pid, Step(p)
  PROVE  CallsInv'
<1>1. proc[p] \in Process /\ Sound(p, proc[p])
  BY Known
<1>2. [Entered(p) EXCEPT !.out = proc[p].out] = Entered(p)
  BY <1>1 DEF Process, Entered
<1>3. CASE DoSystem(p)
  <2>1. proc[p].step = "call" /\ proc[p].at <= Len(program)
    BY <1>3 DEF DoSystem, Calling
  <2>2. CASE This(p).arg = "null"
    BY <1>3, <2>1, <2>2, RefuseFalse DEF DoSystem
  <2>3. CASE This(p).arg # "null"
    BY <1>2, <1>3, <2>1, <2>3, EnterStep DEF DoSystem
  <2> QED
    BY <2>2, <2>3
<1>4. CASE Refuse(p)
  BY <1>4, RefuseFalse DEF Refuse, Calling
<1>5. CASE Crash(p)
  BY <1>5, EndStep DEF Crash, Calling
<1>6. CASE DoExec(p)
  BY <1>2, <1>6, EnterStep DEF DoExec, Calling
<1>7. CASE DoExecRedirect(p)
  <2>1. proc[p].step = "call" /\ proc[p].at <= Len(program) /\ This(p).fn = "redirect"
    BY <1>7 DEF DoExecRedirect, Calling
  <2>2. CASE Becomes(p, Returned(proc[p], "false"))
    BY <2>1, <2>2, RefuseFalse
  <2>3. CASE Becomes(p, [Entered(p) EXCEPT !.out = @ \cup {proc[p].at}])
    <3>1. [Entered(p) EXCEPT !.out = @ \cup {proc[p].at}]
            = [Entered(p) EXCEPT !.out = proc[p].out \cup {proc[p].at}]
      BY <1>1 DEF Process, Entered
    <3> QED
      BY <2>1, <2>3, <3>1, EnterStep
  <2> QED
    BY <1>7, <2>2, <2>3 DEF DoExecRedirect
<1>8. CASE Fork(p)
  BY <1>8, ForkStep
<1> DEFINE closed == [proc[p] EXCEPT !.out = @ \ {proc[p].at}]
<1>9. closed = [proc[p] EXCEPT !.out = proc[p].out \ {proc[p].at}]
  BY <1>1 DEF Process
<1>10. ASSUME proc[p].step \in {"fork", "child"},
              proc[p].step = "child" => This(p).fn # "system" /\ This(p).path # "program",
              Becomes(p, Returned(closed, "false"))
       PROVE  CallsInv'
  <2>1. proc[p].at <= Len(program)
    BY <1>1, <1>10 DEF Sound
  <2> HIDE DEF closed
  <2> QED
    BY <1>9, <1>10, <2>1, ReturnFalse
<1>11. CASE ForkFails(p)
  BY <1>10, <1>11 DEF ForkFails
<1>12. CASE DupFails(p)
  BY <1>12, EndStep DEF DupFails
<1>13. CASE Exec(p)
  BY <1>13, ExecStep
<1>14. CASE ExecFails(p)
  <2>1. proc[p].step = "child" /\ This(p).path # "program"
    BY <1>14 DEF ExecFails
  <2>2. CASE This(p).fn = "system"
    BY <1>14, <2>1, <2>2, EndStep DEF ExecFails
  <2>3. CASE This(p).fn # "system"
    BY <1>10, <1>14, <2>1, <2>3 DEF ExecFails
  <2> QED
    BY <2>2, <2>3
<1>15. CASE Exit(p)
  <2>1. PICK status \in {0, 1} : Becomes(p, Ended(proc[p], status))
    BY <1>15 DEF Exit
  <2> QED
    BY <1>15, <2>1, EndStep DEF Exit
<1>16. CASE Wait(p)
  <2>1. PICK q \in Zombies(p) : Reap(p, q, "true")
    BY <1>16 DEF Wait
  <2> QED
    BY <1>16, <2>1, ReapStep DEF Wait, Waiting, Fits
<1>17. CASE SystemReturns(p)
  <2>1. PICK q \in Zombies(p) :
          /\ proc[q].born = proc[p].at
          /\ Reap(p, q, IF proc[q].status = 0 THEN "true" ELSE "false")
    BY <1>17 DEF SystemReturns
  <2>2. proc[p].step = "wait" /\ This(p).fn = "system"
    BY <1>17 DEF SystemReturns
  <2>3. CASE proc[q].status = 0
    BY <2>1, <2>2, <2>3, ReapStep DEF Fits
  <2>4. CASE proc[q].status # 0
    BY <2>1, <2>2, <2>4, ReapStep DEF Fits
  <2> QED
    BY <2>3, <2>4
<1>18. CASE ProgramEnds(p)
  BY <1>18, EndStep DEF ProgramEnds
<1> QED
  BY <1>3, <1>4, <1>5, <1>6, <1>7, <1>8, <1>11, <1>12, <1>13, <1>14, <1>15, <1>16, <1>17, <1>18
  DEF Step

LEMMA CallsInvHolds == Spec => []CallsInv
<1>1. CallsInv /\ [Next]_vars => CallsInv'
  <2> SUFFICES ASSUME CallsInv, [Next]_vars PROVE CallsInv'
    OBVIOUS
  <2>1. CASE Next
    BY <2>1, StepKeepsCalls DEF Next
  <2>2. CASE UNCHANGED vars
    BY <2>2 DEF vars, CallsInv, TypeOK, Process, Sound, Lineage, OneFork, SystemTruthful,
                SystemCollects, FalseForksNothing, Balanced, Own, Forked, Uncollected
  <2> QED
    BY <2>1, <2>2
<1> QED
  BY <1>1, InitCalls, PTL DEF Spec

-----------------------------------------------------------------------------
(* What the callers rely on.                                               *)

\* The processes keep their types, whatever program makes the calls.
THEOREM CallsTyped == Spec => []TypeOK
<1>1. CallsInv => TypeOK
  BY DEF CallsInv
<1> QED
  BY <1>1, CallsInvHolds, PTL

\* do_exec and do_exec_redirect return false only when their command does not
\* run: the false of their error paths comes before the fork or from the child
\* itself, and wait never makes one.
THEOREM FalseIsFailure == Spec => []FalseMeansFailed
<1>1. CallsInv => FalseMeansFailed
  BY DEF CallsInv, FalseForksNothing, FalseMeansFailed
<1> QED
  BY <1>1, CallsInvHolds, PTL

\* do_system returns true just when its own command has ended with status 0.
THEOREM SystemIsTruthful == Spec => []SystemTruthful
<1>1. CallsInv => SystemTruthful
  BY DEF CallsInv
<1> QED
  BY <1>1, CallsInvHolds, PTL

\* Every call collects as many children as it forks, whichever they are.
THEOREM CallsBalanceChildren == Spec => []ChildrenBalanced
<1>1. CallsInv => ChildrenBalanced
  <2> SUFFICES ASSUME CallsInv, NEW p \in Pid, proc[p].step = "call"
               PROVE  Cardinality(Uncollected(p)) = IF p = Main THEN Cardinality(Background) ELSE 0
    BY DEF ChildrenBalanced, Uncollected
  <2>1. Cardinality(Uncollected(p)) = (IF p = Main THEN Cardinality(Background) ELSE 0) + 0
    BY DEF CallsInv, Balanced
  <2>2. IsFiniteSet(Background)
    BY SystemCallsAssumption, FS_Subset
  <2>3. Cardinality(Background) \in Nat
    BY <2>2, FS_CardinalityType
  <2> QED
    BY <2>1, <2>3
<1> QED
  BY <1>1, CallsInvHolds, PTL

\* No error path of do_exec_redirect leaves the output file open.
THEOREM CallsCloseOutput == Spec => []ErrorsCloseOutput
<1>1. CallsInv => ErrorsCloseOutput
  BY DEF CallsInv, Sound, ErrorsCloseOutput
<1> QED
  BY <1>1, CallsInvHolds, PTL

\* A command is run twice only after an execv has failed in a child, which went
\* on with the program of its parent: of two processes that ran the command of
\* one call, the parent of one was forked by an earlier call and has returned
\* from it.
THEOREM CommandsRepeatOnlyAfterFailure == Spec => []RepeatsOnlyAfterFailedExec
<1>1. CallsInv => RepeatsOnlyAfterFailedExec
  <2> SUFFICES ASSUME CallsInv, NEW p \in Pid \ Outside, NEW q \in Pid \ Outside,
                      proc[p].ran, proc[q].ran, proc[p].born = proc[q].born, p # q
               PROVE  /\ proc[p].parent # proc[q].parent
                      /\ \E k \in 1..(proc[p].born - 1) :
                           program[k].fn # "system" /\ program[k].path # "program"
    BY DEF RepeatsOnlyAfterFailedExec, Outside
  <2>1. \A x \in Pid : /\ Sound(x, proc[x]) /\ proc[x].born \in Nat /\ proc[x].at \in Nat
                       /\ proc[x].parent \in Pid
    BY Known DEF Process
  <2>2. proc[p].born > 0 /\ proc[q].born > 0
    BY <2>1 DEF Sound
  <2>3. proc[p].parent # proc[q].parent
    BY <2>2 DEF CallsInv, OneFork
  <2>4. ASSUME NEW x \in {p, q}, proc[x].parent # Main
        PROVE  \E k \in 1..(proc[p].born - 1) :
                 program[k].fn # "system" /\ program[k].path # "program"
    <3> DEFINE y == proc[x].parent
    <3>1. x \in Pid /\ proc[x].born > 0 /\ proc[x].born = proc[p].born
      BY <2>2
    <3>2. /\ y \in Pid /\ y \notin Background /\ proc[y].step # "none"
          /\ proc[y].born < proc[x].born /\ proc[x].born <= proc[y].at
      BY <2>1, <3>1 DEF CallsInv, Lineage
    <3>3. proc[y].born > 0 /\ proc[y].at # proc[y].born
      BY <2>1, <2>4, <3>2 DEF Sound, Outside
    <3>4. program[proc[y].born].fn # "system" /\ program[proc[y].born].path # "program"
      BY <2>1, <3>2, <3>3 DEF Sound
    <3>5. proc[y].born \in 1..(proc[p].born - 1)
      BY <2>1, <3>1, <3>2, <3>3
    <3> QED
      BY <3>4, <3>5
  <2> QED
    BY <2>3, <2>4
<1> QED
  BY <1>1, CallsInvHolds, PTL

==============================================================================
