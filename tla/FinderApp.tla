------------------------------ MODULE FinderApp ------------------------------
(***************************************************************************)
(* finder-app: the program writer, finder.sh, and finder-test.sh, which    *)
(* writes files with the one, counts them with the other and compares.     *)
(* Several runs of finder-test.sh may be going on, in /tmp/aeld-data (the  *)
(* default) or in directories below it; each of its commands is a step.    *)
(* A file is the sequence of what was appended to it, of which only        *)
(* whether it contains the search string matters.  The file system is      *)
(* external.                                                               *)
(***************************************************************************)
EXTENDS Naturals, Sequences, FiniteSets

CONSTANTS
  Run,        \* runs of finder-test.sh
  Base,       \* /tmp/aeld-data, the parent of all the other directories
  DirOf,      \* WRITEDIR of each run
  NumFiles,   \* NUMFILES
  Root,       \* whether they run as root
  Elsewhere,  \* what finder.sh counts in the directory the runs were started in
  TestFaults  \* what may fail: rm and mkdir; open and write in writer

Dir == {Base} \cup {DirOf[r] : r \in Run}
File == 1..NumFiles

ASSUME FinderAppAssumption ==
  /\ NumFiles \in Nat /\ Root \in BOOLEAN /\ TestFaults \subseteq {"rm", "mkdir", "open", "write"}
  /\ Elsewhere \in [files : Nat, matches : Nat]
  /\ Dir \cap Nat = {}      \* the name of a directory is not that of a file

VARIABLES
  dirs,     \* the directories there are
  file,     \* what has been written to each file; nobody has made it when absent
  pc,       \* the next step of each run
  i,        \* its loop variable
  here,     \* the runs whose finder.sh is in its directory, and that is still there
  todo,     \* finder.sh: the names it has still to look at
  found,    \* finder.sh: number_of_files and number_of_occurance
  written   \* the files to which the run has really written its string

testVars == <<dirs, file, pc, i, here, todo, found, written>>
counts == <<todo, found, written>>

Absent == <<"absent">>
Nothing == [f \in File |-> Absent]

TestInit ==
  /\ dirs = {} /\ file = [d \in Dir |-> Nothing] /\ here = {}
  /\ pc = [r \in Run |-> "rm"] /\ i = [r \in Run |-> 1]
  /\ todo = [r \in Run |-> {}] /\ found = [r \in Run |-> [files |-> 0, matches |-> 0]]
  /\ written = [r \in Run |-> {}]

Goes(r, from, to) == pc[r] = from /\ pc' = [pc EXCEPT ![r] = to]

\* What rm -rf of a directory removes.
Tree(d) == IF d = Base THEN Dir ELSE {d}

\* The directories D go, with all that is in them; a process that is in one of
\* them stays there and sees nothing any more.
Remove(D) ==
  /\ dirs' = dirs \ D
  /\ file' = [d \in Dir |-> IF d \in D THEN Nothing ELSE file[d]]
  /\ here' = {r \in here : DirOf[r] \notin D}

\* rm -rf gives up (somebody made a file meanwhile, say): some directories are
\* gone, one perhaps in part.
RemoveSome(D) ==
  \E E \in SUBSET D, d \in D, gone \in SUBSET File :
    /\ dirs' = dirs \ E
    /\ file' = [e \in Dir |-> IF e \in E THEN Nothing
                              ELSE [f \in File |-> IF e = d /\ f \in gone THEN Absent ELSE file[e][f]]]
    /\ here' = {r \in here : DirOf[r] \notin E}

-----------------------------------------------------------------------------
(* finder-test.sh up to finder.sh, and writer.  With set -e a command that  *)
(* fails ends the run.                                                      *)

\* Faulty variant: it makes room for itself as RemoveAll clears up.
RemoveOldFilesOfAll(r) ==
  /\ Goes(r, "rm", "mkdir") /\ Remove(Dir)
  /\ UNCHANGED <<i, counts>>

RemoveOldFiles(r) ==
  /\ \/ Goes(r, "rm", "mkdir") /\ Remove(Tree(DirOf[r]))
     \/ "rm" \in TestFaults /\ Goes(r, "rm", "aborted") /\ RemoveSome(Tree(DirOf[r]))
  /\ UNCHANGED <<i, counts>>

\* mkdir -p, which makes the parent, too.
MakeDir(r) ==
  /\ \/ Goes(r, "mkdir", "made") /\ dirs' = dirs \cup {Base, DirOf[r]}
     \/ "mkdir" \in TestFaults /\ Goes(r, "mkdir", "aborted") /\ dirs' \in {dirs, dirs \cup {Base}}
  /\ UNCHANGED <<file, i, here, counts>>

\* The directory is still there, or exit 1.
DirCreated(r) ==
  /\ Goes(r, "made", IF DirOf[r] \in dirs THEN "write" ELSE "refused")
  /\ UNCHANGED <<dirs, file, i, here, counts>>

\* O_CREAT | O_APPEND: the file is made with no permission for its owner.
MayOpen(old) == Root \/ old = Absent

Created(old) == IF old = Absent THEN << >> ELSE old

\* read_write.  Whatever happens, writer exits with 0 and the loop goes on.
Writer(r) ==
  LET d == DirOf[r]
      f == i[r]
      opens == d \in dirs /\ MayOpen(file[d][f])
  IN  /\ pc[r] = "write" /\ f <= NumFiles
      /\ i' = [i EXCEPT ![r] = @ + 1]
      /\ \/ /\ opens
            /\ file' = [file EXCEPT ![d][f] = Append(Created(@), "string")]
            /\ written' = [written EXCEPT ![r] = @ \cup {f}]
         \/ /\ opens /\ "write" \in TestFaults      \* write fails, or writes less
            /\ \E text \in {<< >>, <<"part">>} :
                 file' = [file EXCEPT ![d][f] = Created(@) \o text]
            /\ UNCHANGED written
         \/ /\ ~opens \/ "open" \in TestFaults
            /\ UNCHANGED <<file, written>>
      /\ UNCHANGED <<dirs, pc, here, todo, found>>

WritersDone(r) ==
  /\ i[r] > NumFiles /\ Goes(r, "write", "finder")
  /\ UNCHANGED <<dirs, file, i, here, counts>>

-----------------------------------------------------------------------------
(* finder.sh.                                                              *)

\* The test -d; when it fails finder.sh exits with 1, and set -e ends the run.
FinderTests(r) ==
  /\ Goes(r, "finder", IF DirOf[r] \in dirs THEN "cd" ELSE "refused")
  /\ UNCHANGED <<dirs, file, i, here, counts>>

\* cd.  When the directory has gone since the test that is not noticed, and
\* finder.sh counts where it was started.
ChangeDir(r) ==
  /\ \/ /\ DirOf[r] \in dirs /\ Goes(r, "cd", "glob")
        /\ here' = here \cup {r} /\ UNCHANGED found
     \/ /\ DirOf[r] \notin dirs /\ Goes(r, "cd", "clean")
        /\ found' = [found EXCEPT ![r] = Elsewhere] /\ UNCHANGED here
  /\ UNCHANGED <<dirs, file, i, todo, written>>

Files(d) == {f \in File : file[d][f] # Absent}

\* The names in the directory: its files, in Base also the other directories.
Entries(r) ==
  IF r \notin here THEN {}
  ELSE Files(DirOf[r]) \cup (IF DirOf[r] = Base THEN dirs \ {Base} ELSE {})

\* for i in *: when nothing matches, the loop is run once, for the name "*",
\* which is 0 here.
Glob(r) ==
  /\ Goes(r, "glob", "loop")
  /\ todo' = [todo EXCEPT ![r] = IF Entries(r) = {} THEN {0} ELSE Entries(r)]
  /\ UNCHANGED <<dirs, file, i, here, found, written>>

\* grep finds the string in a file that is there and may be read.
Matches(r, f) ==
  /\ r \in here /\ f \in Files(DirOf[r]) /\ Root
  /\ \E n \in DOMAIN file[DirOf[r]][f] : file[DirOf[r]][f][n] = "string"

\* Faulty variant: matching is counted as files are.
FinderLoopCountsAll(r) ==
  \E f \in todo[r] :
    /\ pc[r] = "loop"
    /\ todo' = [todo EXCEPT ![r] = @ \ {f}]
    /\ found' = [found EXCEPT ![r].files = @ + 1, ![r].matches = @ + 1]
    /\ UNCHANGED <<dirs, file, pc, i, here, written>>

\* The next name, whichever it is; each counts as a file, whatever it is.
FinderLoop(r) ==
  \E f \in todo[r] :
    /\ pc[r] = "loop"
    /\ todo' = [todo EXCEPT ![r] = @ \ {f}]
    /\ found' = [found EXCEPT ![r].files = @ + 1,
                              ![r].matches = IF Matches(r, f) THEN @ + 1 ELSE @]
    /\ UNCHANGED <<dirs, file, pc, i, here, written>>

\* finder.sh ends, and is in no directory any more.
FinderDone(r) ==
  /\ todo[r] = {} /\ Goes(r, "loop", "clean")
  /\ here' = here \ {r}
  /\ UNCHANGED <<dirs, file, i, counts>>

\* rm -rf /tmp/aeld-data: the directories of all runs.
RemoveAll(r) ==
  /\ \/ Goes(r, "clean", "compare") /\ Remove(Dir)
     \/ "rm" \in TestFaults /\ Goes(r, "clean", "unclean") /\ RemoveSome(Dir)
  /\ UNCHANGED <<i, counts>>

\* What MATCHSTR says.
Expected == [files |-> NumFiles, matches |-> NumFiles]

Compare(r) ==
  /\ Goes(r, "compare", IF found[r] = Expected THEN "success" ELSE "failed")
  /\ UNCHANGED <<dirs, file, i, here, counts>>

-----------------------------------------------------------------------------

Step(r) ==
  \/ RemoveOldFiles(r) \/ MakeDir(r) \/ DirCreated(r) \/ Writer(r) \/ WritersDone(r)
  \/ FinderTests(r) \/ ChangeDir(r) \/ Glob(r) \/ FinderLoop(r) \/ FinderDone(r)
  \/ RemoveAll(r) \/ Compare(r)

TestNext == \E r \in Run : Step(r)

TestSpec == TestInit /\ [][TestNext]_testVars

-----------------------------------------------------------------------------
(* Properties.                                                             *)

\* A run of finder-test.sh that ends with "success" has really written the
\* string to all its files, although writer never tells of a failure, and
\* whatever other runs remove meanwhile.  (The only way round it is a cd that
\* fails unnoticed, where the directory finder.sh was started in happens to
\* hold just what is expected.)
SuccessIsTrue ==
  \A r \in Run : pc[r] = "success" => written[r] = File \/ Elsewhere = Expected

\* What run s may have done to run r: it has got to the rm -rf of everything at
\* its end; or one of the two is in /tmp/aeld-data itself, where an rm -rf takes
\* the other's directory along and a directory is counted as a file.
Disturbs(s, r) ==
  \/ pc[s] \in {"compare", "success", "failed", "unclean"}
  \/ Base \in {DirOf[r], DirOf[s]} /\ pc[s] # "rm"

\* A run as root that finds its directory missing or the wrong numbers has a
\* reason: writer has not written all its files, or another run disturbs it.
\* Until one ends, runs in directories of their own below /tmp/aeld-data do not.
\* (Without any file to write, the name * is counted, and the run fails.)
FailureHasCause ==
  Root /\ NumFiles > 0 =>
    \A r \in Run : pc[r] \in {"failed", "refused"} =>
      written[r] # File \/ \E s \in Run \ {r} : Disturbs(s, r)

=============================================================================
