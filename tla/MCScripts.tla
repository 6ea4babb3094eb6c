------------------------------ MODULE MCScripts ------------------------------
(***************************************************************************)
(* The shell scripts.  Those of the driver and finder-test.sh share        *)
(* nothing, so a behaviour here is one of the ones or of the other.  Each  *)
(* run of finder-test.sh is named by its directory: Base the default one,  *)
(* the others below it.  The directory they are started in has some files, *)
(* of which one (finder-test.sh) holds the string.                         *)
(***************************************************************************)
EXTENDS DriverScripts, FinderApp, TLC

Itself == [r \in Run |-> r]
SomeFiles == [files |-> 5, matches |-> 1]
OthersAlike == Permutations(Run \ {Base})

ScriptsInit == Init /\ TestInit

ScriptsNext ==
  \/ TestInit /\ Next /\ UNCHANGED testVars
  \/ Init /\ TestNext /\ UNCHANGED vars

ScriptsSpec == ScriptsInit /\ [][ScriptsNext]_<<vars, testVars>>

=============================================================================
