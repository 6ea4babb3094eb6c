---------------------------- MODULE DriverScripts ----------------------------
(***************************************************************************)
(* The scripts aesdchar_load and aesdchar_unload, step by step, and what   *)
(* they leave in /dev while programs open /dev/aesdchar the way the socket *)
(* server does, with O_CREAT.  The kernel (insmod, rmmod, mknod, open) is  *)
(* external.                                                               *)
(***************************************************************************)
EXTENDS Naturals

CONSTANTS
  User,    \* threads of the server, and other programs that open the device
  Major,   \* the numbers alloc_chrdev_region may choose from
  Faults   \* commands that may fail

ASSUME DriverScriptsAssumption ==
  Major \subseteq Nat \ {0} /\ Faults \subseteq {"insmod", "rm", "mknod", "chgrp", "chmod"}

VARIABLES
  module,  \* the major number of the loaded driver; 0 when it is not loaded
  node,    \* what /dev/aesdchar is: none, a character device, or an ordinary file
  opened,  \* what each user has open
  script,  \* the step the administrator's script is at
  major,   \* its variable of that name
  report   \* how the last script ended

vars == <<module, node, opened, script, major, report>>
system == <<module, node, opened>>

NoNode == [kind |-> "none", major |-> 0, mode |-> "default"]

Init ==
  /\ module = 0 /\ node = NoNode /\ opened = [u \in User |-> "no"]
  /\ script = "none" /\ major = 0 /\ report = "none"

At(from, to) == script = from /\ script' = to /\ UNCHANGED report

Finish(from, result) == script = from /\ script' = "none" /\ report' = result

-----------------------------------------------------------------------------
(* aesdchar_load.  It runs under set -e: a command that fails ends it.     *)

Load == At("none", "insmod") /\ UNCHANGED <<major, system>>

Insmod ==
  /\ At("insmod", "major") /\ module = 0
  /\ module' \in Major
  /\ UNCHANGED <<major, node, opened>>

\* The driver is loaded already, or its initialisation fails.
InsmodFails ==
  /\ module # 0 \/ "insmod" \in Faults
  /\ Finish("insmod", "failed")
  /\ UNCHANGED <<major, system>>

ReadMajor == At("major", "rm_old") /\ major' = module /\ UNCHANGED system

RemoveOld ==
  /\ \/ At("rm_old", "mknod") /\ node' = NoNode
     \/ "rm" \in Faults /\ Finish("rm_old", "failed") /\ UNCHANGED node
  /\ UNCHANGED <<major, module, opened>>

Mknod ==
  /\ At("mknod", "chgrp") /\ node.kind = "none"
  /\ node' = [kind |-> "char", major |-> major, mode |-> "default"]
  /\ UNCHANGED <<major, module, opened>>

\* Faulty variant: without set -e.
MknodFailsUnseen ==
  /\ node.kind # "none" \/ "mknod" \in Faults
  /\ At("mknod", "chgrp")
  /\ UNCHANGED <<major, system>>

\* In particular when a user has created the file since rm -f.
MknodFails ==
  /\ node.kind # "none" \/ "mknod" \in Faults
  /\ Finish("mknod", "failed")
  /\ UNCHANGED <<major, system>>

Chgrp ==
  /\ At("chgrp", "chmod") \/ ("chgrp" \in Faults /\ Finish("chgrp", "failed"))
  /\ UNCHANGED <<major, system>>

Chmod ==
  /\ \/ Finish("chmod", "loaded") /\ node' = [node EXCEPT !.mode = "664"]
     \/ "chmod" \in Faults /\ Finish("chmod", "failed") /\ UNCHANGED node
  /\ UNCHANGED <<major, module, opened>>

-----------------------------------------------------------------------------
(* aesdchar_unload.                                                        *)

Unload == At("none", "rmmod") /\ UNCHANGED <<major, system>>

InUse == \E u \in User : opened[u] = "device"

Rmmod ==
  /\ At("rmmod", "rm") /\ module # 0 /\ ~InUse
  /\ module' = 0
  /\ UNCHANGED <<major, node, opened>>

RmmodFails ==
  /\ Finish("rmmod", "failed") /\ (module = 0 \/ InUse)
  /\ UNCHANGED <<major, system>>

\* The last command: its status is that of the script.
RemoveNode ==
  /\ \/ Finish("rm", "unloaded") /\ node' = NoNode
     \/ "rm" \in Faults /\ Finish("rm", "failed") /\ UNCHANGED node
  /\ UNCHANGED <<major, module, opened>>

\* Either script may be interrupted between two commands.
Interrupt ==
  /\ script # "none" /\ Finish(script, "failed")
  /\ UNCHANGED <<major, system>>

-----------------------------------------------------------------------------
(* open(SOCKET_FILE, O_RDWR | O_APPEND | O_CREAT, 0666) and close.         *)

OpenDevice(u) ==
  /\ opened[u] = "no" /\ node.kind = "char" /\ node.major = module
  /\ opened' = [opened EXCEPT ![u] = "device"]
  /\ UNCHANGED <<module, node, script, major, report>>

\* O_CREAT: where there is nothing, an ordinary file is made.
OpenFile(u) ==
  /\ opened[u] = "no" /\ node.kind # "char"
  /\ node' = [node EXCEPT !.kind = "file"]
  /\ opened' = [opened EXCEPT ![u] = "file"]
  /\ UNCHANGED <<module, script, major, report>>

Close(u) ==
  /\ opened[u] # "no"
  /\ opened' = [opened EXCEPT ![u] = "no"]
  /\ UNCHANGED <<module, node, script, major, report>>

-----------------------------------------------------------------------------

Next ==
  \/ Load \/ Insmod \/ InsmodFails \/ ReadMajor \/ RemoveOld \/ Mknod \/ MknodFails
  \/ Chgrp \/ Chmod
  \/ Unload \/ Rmmod \/ RmmodFails \/ RemoveNode \/ Interrupt
  \/ \E u \in User : OpenDevice(u) \/ OpenFile(u) \/ Close(u)

Spec == Init /\ [][Next]_vars

-----------------------------------------------------------------------------
(* Properties.                                                             *)

\* While no script is running the last one has told the truth about /dev.  After
\* a load that exits with 0 the node is that of the loaded driver, with its
\* mode, whatever was there before and whoever opened the name meanwhile.  After
\* an unload there is neither a driver nor a stale node that a later driver with
\* the same number would be reached by.
ReportMatchesDev ==
  script = "none" =>
    /\ report = "loaded" => /\ module # 0
                            /\ node = [kind |-> "char", major |-> module, mode |-> "664"]
    /\ report = "unloaded" => module = 0 /\ node.kind # "char"

=============================================================================
