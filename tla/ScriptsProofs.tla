---------------------------- MODULE ScriptsProofs ----------------------------
(***************************************************************************)
(* What the shell scripts report is true.  aesdchar_load and               *)
(* aesdchar_unload: for every number of programs that open the device,     *)
(* every set of major numbers and every set of commands that may fail.     *)
(* finder-test.sh: for every number of runs in directories of their own,   *)
(* every number of files and whatever fails in writer.                     *)
(***************************************************************************)
EXTENDS DriverScripts, FinderApp, FiniteSetTheorems, TLAPS

-----------------------------------------------------------------------------
(* aesdchar_load and aesdchar_unload.                                      *)

\* The types, as far as the argument needs them.
Typed ==
  /\ module \in Major \cup {0}
  /\ node \in [kind : {"none", "char", "file"}, major : Major \cup {0}, mode : {"default", "664"}]

\* What each script knows at each of its commands.  From insmod on nobody else
\* can unload the driver, and the awk variable holds its number; from mknod on
\* the name is a character device, which open with O_CREAT cannot replace; and
\* after rmmod there is no driver.
StepsKnow ==
  /\ script \in {"major", "rm_old", "mknod", "chgrp", "chmod"} => module # 0
  /\ script \in {"rm_old", "mknod", "chgrp", "chmod"} => major = module
  /\ script \in {"chgrp", "chmod"} =>
       node = [kind |-> "char", major |-> module, mode |-> "default"]
  /\ script = "rm" => module = 0

DevInv == Typed /\ StepsKnow /\ ReportMatchesDev

LEMMA InitDevInv == Init => DevInv
BY DEF Init, DevInv, Typed, StepsKnow, ReportMatchesDev, NoNode

\* The commands of aesdchar_load.
LEMMA LoadKeepsDev ==
  ASSUME DevInv,
         Load \/ Insmod \/ InsmodFails \/ ReadMajor \/ RemoveOld \/ Mknod \/ MknodFails
           \/ Chgrp \/ Chmod
  PROVE  DevInv'
<1> USE DEF DevInv, Typed, StepsKnow, ReportMatchesDev, At, Finish, system
<1>1. CASE Load
  BY <1>1 DEF Load
<1>2. CASE Insmod
  BY <1>2, DriverScriptsAssumption DEF Insmod
<1>3. CASE InsmodFails
  BY <1>3 DEF InsmodFails
<1>4. CASE ReadMajor
  BY <1>4 DEF ReadMajor
<1>5. CASE RemoveOld
  BY <1>5 DEF RemoveOld, NoNode
<1>6. CASE Mknod
  BY <1>6 DEF Mknod
<1>7. CASE MknodFails
  BY <1>7 DEF MknodFails
<1>8. CASE Chgrp
  BY <1>8 DEF Chgrp
<1>9. CASE Chmod
  BY <1>9 DEF Chmod
<1> QED
  BY <1>1, <1>2, <1>3, <1>4, <1>5, <1>6, <1>7, <1>8, <1>9

\* The commands of aesdchar_unload, and a script that is interrupted.
LEMMA UnloadKeepsDev ==
  ASSUME DevInv, Unload \/ Rmmod \/ RmmodFails \/ RemoveNode \/ Interrupt
  PROVE  DevInv'
<1> USE DEF DevInv, Typed, StepsKnow, ReportMatchesDev, At, Finish, system
<1>1. CASE Unload
  BY <1>1 DEF Unload
<1>2. CASE Rmmod
  BY <1>2 DEF Rmmod
<1>3. CASE RmmodFails
  BY <1>3 DEF RmmodFails
<1>4. CASE RemoveNode
  BY <1>4 DEF RemoveNode, NoNode
<1>5. CASE Interrupt
  BY <1>5 DEF Interrupt
<1> QED
  BY <1>1, <1>2, <1>3, <1>4, <1>5

\* Opening creates a file only where there is no device node.
LEMMA UsersKeepDev ==
  ASSUME DevInv, NEW u \in User, OpenDevice(u) \/ OpenFile(u) \/ Close(u)
  PROVE  DevInv'
<1> USE DEF DevInv, Typed, StepsKnow, ReportMatchesDev
<1>1. CASE OpenDevice(u) \/ Close(u)
  BY <1>1 DEF OpenDevice, Close
<1>2. CASE OpenFile(u)
  BY <1>2 DEF OpenFile
<1> QED
  BY <1>1, <1>2

\* A load that exits with 0 has made the node of the driver it loaded, and an
\* unload that exits with 0 has left neither driver nor node, at whatever
\* command of the script programs open and close /dev/aesdchar with O_CREAT,
\* whichever commands fail and wherever a script is interrupted.
THEOREM ScriptsTellTheTruth == Spec => []ReportMatchesDev
<1>1. DevInv /\ [Next]_vars => DevInv'
  <2> SUFFICES ASSUME DevInv, [Next]_vars
               PROVE  DevInv'
    OBVIOUS
  <2>1. CASE UNCHANGED vars
    BY <2>1 DEF vars, DevInv, Typed, StepsKnow, ReportMatchesDev
  <2> QED
    BY <2>1, LoadKeepsDev, UnloadKeepsDev, UsersKeepDev DEF Next
<1>2. DevInv => ReportMatchesDev
  BY DEF DevInv
<1> QED
  BY InitDevInv, <1>1, <1>2, PTL DEF Spec

-----------------------------------------------------------------------------
(* finder-test.sh.                                                         *)

\* What the theorem asks of the runs: each has been given a directory of its
\* own, one of them perhaps Base.
DirsApart == \A r, s \in Run : DirOf[r] = DirOf[s] => r = s

Text == {"absent", "string", "part"}

Label == {"rm", "mkdir", "made", "write", "finder", "cd", "glob", "loop", "clean", "compare",
          "success", "failed", "refused", "aborted", "unclean"}

\* Before finder.sh counts.
Early == {"rm", "mkdir", "made", "write", "finder", "cd", "glob"}

TestTyped ==
  /\ pc \in [Run -> Label] /\ i \in [Run -> Nat \ {0}]
  /\ file \in [Dir -> [File -> Seq(Text)]]
  /\ dirs \in SUBSET Dir /\ here \in SUBSET Run
  /\ todo \in [Run -> SUBSET (Nat \cup Dir)] /\ written \in [Run -> SUBSET File]
  /\ found \in [Run -> [files : Nat, matches : Nat]]

\* grep would find the string in a file with this content.
Holds(content) == \E n \in DOMAIN content : content[n] = "string"

\* A file that holds the string has it from the run whose directory it is in.
Owned(r) == \A f \in File : Holds(file[DirOf[r]][f]) => f \in written[r]

\* The files run r has written to and finder.sh has been past.
Seen(r) == written[r] \ todo[r]

\* Nothing is counted before the loop of finder.sh; in it no more than the files
\* it has been past; and after it, when the files may be gone already, no more
\* than all that were written, unless something else was counted.
Counted(r) ==
  /\ pc[r] \in Early => found[r].matches = 0
  /\ pc[r] = "loop" => found[r].matches <= Cardinality(Seen(r))
  /\ pc[r] \in {"clean", "compare"} =>
       found[r] = Elsewhere \/ found[r].matches <= Cardinality(written[r])
  /\ pc[r] = "success" => written[r] = File \/ Elsewhere = Expected

\* The counters of finder.sh both stand at n.
BothCount(r, n) == found[r] = [files |-> n, matches |-> n]

Undisturbed(r) == \A s \in Run \ {r} : ~Disturbs(s, r)

\* What has been written stays, and can be read, until finder.sh has read it.
Kept(r) ==
  /\ DirOf[r] = Base => dirs \subseteq {Base}
  /\ pc[r] \in {"rm", "mkdir", "made"} => written[r] = {}
  /\ pc[r] \in {"made", "write", "finder", "cd"} => DirOf[r] \in dirs
  /\ pc[r] \in {"glob", "loop"} => r \in here
  /\ pc[r] \in {"write", "finder", "cd", "glob", "loop"} =>
       \A f \in written[r] : Holds(file[DirOf[r]][f])

\* When all is written, each file that finder.sh has been past is counted twice.
CountedAll(r) ==
  /\ pc[r] = "loop" =>
       todo[r] \subseteq File /\ BothCount(r, NumFiles - Cardinality(todo[r]))
  /\ pc[r] \in {"clean", "compare"} => BothCount(r, NumFiles)
  /\ pc[r] # "failed"

Reliable(r) ==
  /\ pc[r] \in Early => BothCount(r, 0)
  /\ Root /\ NumFiles > 0 /\ Undisturbed(r) =>
       pc[r] # "refused" /\ Kept(r) /\ (written[r] = File => CountedAll(r))

TestInv == TestTyped /\ \A r \in Run : Owned(r) /\ Counted(r) /\ Reliable(r)

LEMMA NumFilesNat == NumFiles \in Nat
BY FinderAppAssumption

\* File is 1..NumFiles: its subsets can be counted, and one with as many
\* members as there are files is all of it.
LEMMA FilesCounted ==
  ASSUME NEW S \in SUBSET File
  PROVE  /\ IsFiniteSet(S) /\ Cardinality(S) \in Nat
         /\ Cardinality(S) <= NumFiles
         /\ Cardinality(S) = NumFiles => S = File
<1>1. IsFiniteSet(File) /\ Cardinality(File) = NumFiles
  BY NumFilesNat, FS_Interval DEF File
<1>2. /\ IsFiniteSet(S) /\ Cardinality(S) <= Cardinality(File)
      /\ Cardinality(File) = Cardinality(S) => File = S
  BY <1>1, FS_Subset
<1> QED
  BY <1>1, <1>2, FS_CardinalityType

\* The contents of files.
LEMMA TextsTyped ==
  /\ << >> \in Seq(Text) /\ <<"part">> \in Seq(Text) /\ Absent \in Seq(Text)
  /\ \A content \in Seq(Text) : Created(content) \in Seq(Text)
<1>1. Absent \in Seq(Text)
  BY DEF Absent, Text
<1>2. << >> \in Seq(Text) /\ <<"part">> \in Seq(Text)
  BY DEF Text
<1> QED
  BY <1>1, <1>2 DEF Created

\* A writer that fails, or writes less than the string, does not make a file
\* hold it.
LEMMA FailedWriteAddsNothing ==
  ASSUME NEW content \in Seq(Text), NEW text \in {<< >>, <<"part">>},
         Holds(Created(content) \o text)
  PROVE  Holds(content)
<1> DEFINE old == Created(content)
<1>1. old \in Seq(Text) /\ text \in Seq(Text)
  BY TextsTyped
<1>2. PICK n \in 1..(Len(old) + Len(text)) : (old \o text)[n] = "string"
  BY <1>1 DEF Holds
<1>3. CASE n <= Len(old)
  BY <1>1, <1>2, <1>3 DEF Holds, Created
<1>4. CASE n > Len(old)
  BY <1>1, <1>2, <1>4
<1> QED
  BY <1>1, <1>2, <1>3, <1>4

LEMMA InitTestInv == TestInit => TestInv
<1> SUFFICES ASSUME TestInit
             PROVE  TestInv
  OBVIOUS
<1>1. TestTyped
  <2>1. file \in [Dir -> [File -> Seq(Text)]]
    BY TextsTyped DEF TestInit, Nothing
  <2>2. pc \in [Run -> Label] /\ i \in [Run -> Nat \ {0}]
    BY DEF TestInit, Label
  <2>3. todo \in [Run -> SUBSET (Nat \cup Dir)] /\ written \in [Run -> SUBSET File]
    BY DEF TestInit
  <2>4. found \in [Run -> [files : Nat, matches : Nat]]
    BY DEF TestInit
  <2>5. dirs \in SUBSET Dir /\ here \in SUBSET Run
    BY DEF TestInit
  <2> QED
    BY <2>1, <2>2, <2>3, <2>4, <2>5 DEF TestTyped
<1>2. ASSUME NEW r \in Run
      PROVE  Owned(r) /\ Counted(r) /\ Reliable(r)
  <2>1. Owned(r) /\ Counted(r)
    BY <1>2 DEF TestInit, Owned, Counted, Holds, Nothing, Absent, Dir
  <2>2. pc[r] = "rm" /\ BothCount(r, 0) /\ Kept(r) /\ CountedAll(r)
    BY <1>2 DEF TestInit, BothCount, Kept, CountedAll
  <2> QED
    BY <2>1, <2>2 DEF Reliable
<1> QED
  BY <1>1, <1>2 DEF TestInv

\* An rm -rf, whether or not it fails: each file is as it was, or gone.
LEMMA RemovalsRemove ==
  ASSUME TestTyped, NEW D \in SUBSET Dir, Remove(D) \/ RemoveSome(D)
  PROVE  /\ file' \in [Dir -> [File -> Seq(Text)]]
         /\ dirs' \in SUBSET Dir /\ here' \in SUBSET Run
         /\ \A d \in Dir, f \in File : file'[d][f] \in {Absent, file[d][f]}
         /\ \A d \in Dir \ D : file'[d] = file[d] /\ (d \in dirs => d \in dirs')
         /\ \A r \in Run \cap here : DirOf[r] \notin D => r \in here'
         /\ dirs' \subseteq dirs
<1>1. CASE Remove(D)
  BY <1>1, TextsTyped DEF TestTyped, Remove, Nothing
<1>2. CASE RemoveSome(D)
  <2>1. PICK E \in SUBSET D, d \in D, gone \in SUBSET File :
          /\ dirs' = dirs \ E
          /\ file' = [e \in Dir |-> IF e \in E THEN Nothing
                                    ELSE [f \in File |-> IF e = d /\ f \in gone THEN Absent ELSE file[e][f]]]
          /\ here' = {r \in here : DirOf[r] \notin E}
    BY <1>2 DEF RemoveSome
  <2>2. file' \in [Dir -> [File -> Seq(Text)]]
    BY <2>1, TextsTyped DEF TestTyped, Nothing
  <2>3. dirs' \in SUBSET Dir /\ here' \in SUBSET Run /\ dirs' \subseteq dirs
    BY <2>1 DEF TestTyped
  <2>4. \A e \in Dir, f \in File : file'[e][f] \in {Absent, file[e][f]}
    BY <2>1 DEF Nothing
  <2>5. ASSUME NEW e \in Dir \ D
        PROVE  file'[e] = file[e] /\ (e \in dirs => e \in dirs')
    <3>1. e \notin E /\ e # d
      BY <2>1
    <3>2. file'[e] = [f \in File |-> file[e][f]]
      BY <2>1, <3>1
    <3>3. file[e] \in [File -> Seq(Text)]
      BY DEF TestTyped
    <3> QED
      BY <2>1, <3>1, <3>2, <3>3
  <2>6. \A r \in Run \cap here : DirOf[r] \notin D => r \in here'
    BY <2>1
  <2> QED
    BY <2>2, <2>3, <2>4, <2>5, <2>6
<1> QED
  BY <1>1, <1>2

LEMMA StepsKeepTypes ==
  ASSUME TestTyped, NEW s \in Run, Step(s)
  PROVE  TestTyped'
<1> USE DEF Goes
<1>0. DirOf[s] \in Dir /\ Base \in Dir /\ Tree(DirOf[s]) \in SUBSET Dir
  BY DEF Dir, Tree
<1>1. CASE RemoveOldFiles(s) \/ RemoveAll(s)
  <2>1. file' \in [Dir -> [File -> Seq(Text)]] /\ dirs' \in SUBSET Dir /\ here' \in SUBSET Run
    BY <1>0, <1>1, RemovalsRemove DEF RemoveOldFiles, RemoveAll
  <2>2. pc' \in [Run -> Label]
    BY <1>1 DEF TestTyped, RemoveOldFiles, RemoveAll, Label
  <2>3. UNCHANGED <<i, todo, found, written>>
    BY <1>1 DEF RemoveOldFiles, RemoveAll, counts
  <2> QED
    BY <2>1, <2>2, <2>3 DEF TestTyped
<1>2. CASE MakeDir(s) \/ DirCreated(s) \/ WritersDone(s) \/ FinderTests(s) \/ FinderDone(s)
           \/ Compare(s)
  <2>1. pc' \in [Run -> Label]
    BY <1>2 DEF TestTyped, MakeDir, DirCreated, WritersDone, FinderTests, FinderDone, Compare, Label
  <2>2. dirs' \in SUBSET Dir /\ here' \in SUBSET Run
    BY <1>0, <1>2
       DEF TestTyped, MakeDir, DirCreated, WritersDone, FinderTests, FinderDone, Compare
  <2>3. UNCHANGED <<file, i, todo, found, written>>
    BY <1>2
       DEF counts, MakeDir, DirCreated, WritersDone, FinderTests, FinderDone, Compare
  <2> QED
    BY <2>1, <2>2, <2>3 DEF TestTyped
<1>3. CASE Writer(s)
  <2> DEFINE d == DirOf[s]
             f == i[s]
  <2>0. d \in Dir /\ f <= NumFiles
    BY <1>3 DEF Writer, Dir
  <2>1. f \in File /\ file[d][f] \in Seq(Text)
    BY <2>0, NumFilesNat DEF TestTyped, File
  <2>2. Created(file[d][f]) \in Seq(Text)
    BY <2>1, TextsTyped
  <2>3. file' \in [Dir -> [File -> Seq(Text)]]
    <3>1. ASSUME NEW new \in Seq(Text), file' = [file EXCEPT ![d][f] = new]
          PROVE  file' \in [Dir -> [File -> Seq(Text)]]
      BY <2>0, <2>1, <3>1 DEF TestTyped
    <3>2. Append(Created(file[d][f]), "string") \in Seq(Text)
      BY <2>2 DEF Text
    <3>3. ASSUME NEW text \in {<< >>, <<"part">>}
          PROVE  Created(file[d][f]) \o text \in Seq(Text)
      <4>1. text \in Seq(Text)
        BY TextsTyped
      <4> QED
        BY <2>2, <4>1
    <3>4. \/ file' = [file EXCEPT ![d][f] = Append(Created(file[d][f]), "string")]
          \/ \E text \in {<< >>, <<"part">>} :
               file' = [file EXCEPT ![d][f] = Created(file[d][f]) \o text]
          \/ file' = file
      BY <1>3 DEF Writer
    <3> QED
      BY <3>1, <3>2, <3>3, <3>4 DEF TestTyped
  <2>4. written' \in [Run -> SUBSET File]
    <3>1. written' = written \/ written' = [written EXCEPT ![s] = @ \cup {f}]
      BY <1>3 DEF Writer
    <3>2. written \in [Run -> SUBSET File]
      BY DEF TestTyped
    <3>3. written[s] \cup {f} \in SUBSET File
      BY <2>1, <3>2
    <3> QED
      BY <3>1, <3>2, <3>3
  <2>5. i' \in [Run -> Nat \ {0}]
    BY <1>3 DEF TestTyped, Writer
  <2>6. UNCHANGED <<dirs, pc, here, todo, found>>
    BY <1>3 DEF Writer
  <2> QED
    BY <2>3, <2>4, <2>5, <2>6 DEF TestTyped
<1>4. CASE ChangeDir(s)
  <2>1. pc' \in [Run -> Label] /\ here' \in SUBSET Run
    BY <1>4 DEF TestTyped, ChangeDir, Label
  <2>2. found' \in [Run -> [files : Nat, matches : Nat]]
    <3>1. Elsewhere \in [files : Nat, matches : Nat]
      BY FinderAppAssumption
    <3> QED
      BY <1>4, <3>1 DEF TestTyped, ChangeDir
  <2>3. UNCHANGED <<dirs, file, i, todo, written>>
    BY <1>4 DEF ChangeDir
  <2> QED
    BY <2>1, <2>2, <2>3 DEF TestTyped
<1>5. CASE Glob(s)
  <2>1. pc' \in [Run -> Label]
    BY <1>5 DEF TestTyped, Glob, Label
  <2>2. todo' \in [Run -> SUBSET (Nat \cup Dir)]
    <3>1. Entries(s) \subseteq Nat \cup Dir
      BY DEF Entries, Files, File, TestTyped
    <3> QED
      BY <1>5, <3>1 DEF TestTyped, Glob
  <2> QED
    BY <1>5, <2>1, <2>2 DEF TestTyped, Glob
<1>6. CASE FinderLoop(s)
  <2>1. found' \in [Run -> [files : Nat, matches : Nat]]
    <3>1. found[s] \in [files : Nat, matches : Nat]
      BY DEF TestTyped
    <3>2. PICK f :
            found' = [found EXCEPT ![s].files = @ + 1,
                                   ![s].matches = IF Matches(s, f) THEN @ + 1 ELSE @]
      BY <1>6 DEF FinderLoop
    <3>3. PICK n \in Nat : n = found[s].files + 1
      BY <3>1
    <3>4. PICK m \in Nat :
            m = IF Matches(s, f) THEN found[s].matches + 1 ELSE found[s].matches
      BY <3>1
    <3>5. found' = [found EXCEPT ![s].files = n, ![s].matches = m]
      BY <3>1, <3>2, <3>3, <3>4 DEF TestTyped
    <3> QED
      BY <3>5 DEF TestTyped
  <2>2. todo' \in [Run -> SUBSET (Nat \cup Dir)]
    BY <1>6 DEF TestTyped, FinderLoop
  <2> QED
    BY <1>6, <2>1, <2>2 DEF TestTyped, FinderLoop
<1> QED
  BY <1>1, <1>2, <1>3, <1>4, <1>5, <1>6 DEF Step

\* A step of one run leaves in another's directory what is there or removes it;
\* in its own it writes the string only where it records that it has.
LEMMA StepsKeepOwned ==
  ASSUME TestTyped, DirsApart, NEW r \in Run, NEW s \in Run, Step(s), Owned(r)
  PROVE  Owned(r)'
<1> DEFINE d == DirOf[r]
<1>0. d \in Dir
  BY DEF Dir
<1>1. CASE RemoveOldFiles(s) \/ RemoveAll(s)
  <2>0. Tree(DirOf[s]) \in SUBSET Dir /\ Dir \in SUBSET Dir
    BY DEF Dir, Tree
  <2>1. written' = written /\ \A f \in File : file'[d][f] \in {Absent, file[d][f]}
    BY <1>0, <1>1, <2>0, RemovalsRemove DEF RemoveOldFiles, RemoveAll, counts
  <2>2. ~Holds(Absent)
    BY DEF Holds, Absent
  <2> QED
    BY <2>1, <2>2 DEF Owned, Holds
<1>2. CASE Writer(s) /\ r = s
  <2> DEFINE g == i[s]
  <2>1. g \in File /\ file[d][g] \in Seq(Text)
    BY <1>0, <1>2, NumFilesNat DEF Writer, File, TestTyped
  <2>2. \A f \in File : f # g => file'[d][f] = file[d][f]
    BY <1>0, <1>2, <2>1 DEF Writer, TestTyped
  <2>3. g \in written'[r] \/ (Holds(file'[d][g]) => Holds(file[d][g]))
    <3>1. CASE written' = [written EXCEPT ![s] = @ \cup {g}]
      BY <1>2, <3>1 DEF TestTyped
    <3>2. ASSUME NEW text \in {<< >>, <<"part">>},
                 file' = [file EXCEPT ![d][g] = Created(@) \o text]
          PROVE  Holds(file'[d][g]) => Holds(file[d][g])
      <4>1. file'[d][g] = Created(file[d][g]) \o text
        BY <1>0, <2>1, <3>2 DEF TestTyped
      <4> QED
        BY <2>1, <4>1, FailedWriteAddsNothing
    <3>3. CASE UNCHANGED file
      BY <3>3
    <3> QED
      BY <1>2, <3>1, <3>2, <3>3 DEF Writer
  <2>4. written[r] \subseteq written'[r]
    BY <1>2 DEF Writer, TestTyped
  <2> QED
    BY <2>1, <2>2, <2>3, <2>4 DEF Owned, Holds
<1>3. CASE Writer(s) /\ r # s
  <2>1. d # DirOf[s]
    BY <1>3 DEF DirsApart
  <2>2. file'[d] = file[d] /\ written'[r] = written[r]
    BY <1>0, <1>3, <2>1 DEF Writer, TestTyped
  <2> QED
    BY <2>2 DEF Owned, Holds
<1>4. CASE UNCHANGED <<file, written>>
  BY <1>4 DEF Owned, Holds
<1> QED
  BY <1>1, <1>2, <1>3, <1>4
  DEF Step, MakeDir, DirCreated, WritersDone, FinderTests, ChangeDir, Glob, FinderLoop,
      FinderDone, Compare, counts

\* Where a run is, what it has to look at, and what it has counted and written
\* is its own.
LEMMA OthersStepAside ==
  ASSUME TestTyped, NEW r \in Run, NEW s \in Run, r # s, Step(s)
  PROVE  /\ pc'[r] = pc[r] /\ todo'[r] = todo[r]
         /\ found'[r] = found[r] /\ written'[r] = written[r]
BY DEF TestTyped, Goes, Step, RemoveOldFiles, MakeDir, DirCreated, Writer, WritersDone,
       FinderTests, ChangeDir, Glob, FinderLoop, FinderDone, RemoveAll, Compare, counts

LEMMA OthersKeepCount ==
  ASSUME TestTyped, NEW r \in Run, NEW s \in Run, r # s, Step(s), Counted(r)
  PROVE  Counted(r)'
<1>1. /\ pc'[r] = pc[r] /\ todo'[r] = todo[r]
      /\ found'[r] = found[r] /\ written'[r] = written[r]
  BY OthersStepAside
<1>2. Seen(r)' = Seen(r)
  BY <1>1 DEF Seen
<1> QED
  BY <1>1, <1>2 DEF Counted

\* finder.sh counts a match for a name it comes to, which is one more that it
\* has been past, and one the run has written to.
LEMMA LoopKeepsCount ==
  ASSUME TestTyped, NEW r \in Run, FinderLoop(r), Owned(r), Counted(r)
  PROVE  Counted(r)'
<1>1. PICK f \in todo[r] :
        /\ pc[r] = "loop"
        /\ todo' = [todo EXCEPT ![r] = @ \ {f}]
        /\ found' = [found EXCEPT ![r].files = @ + 1,
                                 ![r].matches = IF Matches(r, f) THEN @ + 1 ELSE @]
        /\ UNCHANGED <<pc, written>>
  BY DEF FinderLoop
<1>2. /\ todo'[r] = todo[r] \ {f} /\ written'[r] = written[r] /\ pc'[r] = "loop"
      /\ written[r] \in SUBSET File
  BY <1>1 DEF TestTyped
<1>3. PICK m \in Nat : m = found[r].matches
  BY DEF TestTyped
<1>4. found'[r].matches = IF Matches(r, f) THEN m + 1 ELSE m
  BY <1>1, <1>3 DEF TestTyped
<1>5. PICK n \in Nat : n = Cardinality(Seen(r))
  BY <1>2, FilesCounted DEF Seen
<1>6. PICK k \in Nat : k = Cardinality(Seen(r)')
  BY <1>2, FilesCounted DEF Seen
<1>7. Seen(r) \subseteq Seen(r)' /\ Seen(r)' \in SUBSET File /\ m <= n
  BY <1>1, <1>2, <1>3, <1>5 DEF Seen, Counted
<1>8. CASE Matches(r, f)
  <2>1. f \in written[r]
    BY <1>8 DEF Matches, Files, Owned, Holds
  <2>2. f \notin Seen(r) /\ f \in Seen(r)'
    BY <1>1, <1>2, <2>1 DEF Seen
  <2>3. Seen(r) \cup {f} \in SUBSET Seen(r)'
    BY <1>7, <2>2
  <2>4. Cardinality(Seen(r) \cup {f}) = n + 1 /\ Cardinality(Seen(r) \cup {f}) <= k
    <3>1. Seen(r) \in SUBSET File
      BY <1>7
    <3>2. IsFiniteSet(Seen(r)) /\ IsFiniteSet(Seen(r)')
      BY <1>7, <3>1, FilesCounted
    <3> QED
      BY <1>5, <1>6, <2>2, <2>3, <3>2, FS_AddElement, FS_Subset
  <2>5. found'[r].matches = m + 1 /\ m + 1 <= k
    BY <1>4, <1>7, <1>8, <2>4
  <2> QED
    BY <1>2, <1>6, <2>5 DEF Counted, Early
<1>9. CASE ~Matches(r, f)
  <2>1. n <= k
    <3>1. IsFiniteSet(Seen(r)') /\ Seen(r) \in SUBSET Seen(r)'
      BY <1>7, FilesCounted
    <3> QED
      BY <1>5, <1>6, <3>1, FS_Subset
  <2>2. found'[r].matches = m /\ m <= k
    BY <1>4, <1>7, <1>9, <2>1
  <2> QED
    BY <1>2, <1>6, <2>2 DEF Counted, Early
<1> QED
  BY <1>8, <1>9

\* The other steps of a run, none of which counts anything in its directory.
LEMMA RunKeepsCount ==
  ASSUME TestTyped, NEW r \in Run, Step(r), Owned(r), Counted(r)
  PROVE  Counted(r)'
<1>1. CASE RemoveOldFiles(r) \/ MakeDir(r) \/ DirCreated(r) \/ WritersDone(r) \/ FinderTests(r)
  <2>1. pc[r] \in Early /\ pc'[r] \in Early \cup {"refused", "aborted"}
    BY <1>1 DEF TestTyped, Early, Goes, RemoveOldFiles, MakeDir, DirCreated, WritersDone,
                FinderTests
  <2>2. found' = found
    BY <1>1 DEF RemoveOldFiles, MakeDir, DirCreated, WritersDone, FinderTests, counts
  <2> QED
    BY <2>1, <2>2 DEF Counted, Early
<1>2. CASE Writer(r)
  BY <1>2 DEF TestTyped, Counted, Writer, Early
<1>3. CASE ChangeDir(r)
  BY <1>3, FinderAppAssumption DEF TestTyped, Counted, Early, Goes, ChangeDir
<1>4. CASE Glob(r)
  <2>1. pc'[r] = "loop" /\ found'[r].matches = 0
    BY <1>4 DEF TestTyped, Counted, Early, Goes, Glob
  <2>2. Seen(r)' \in SUBSET File
    BY <1>4 DEF TestTyped, Seen, Glob
  <2>3. Cardinality(Seen(r)') \in Nat
    BY <2>2, FilesCounted
  <2>4. 0 <= Cardinality(Seen(r)')
    BY <2>3
  <2> QED
    BY <2>1, <2>4 DEF Counted, Early
<1>5. CASE FinderLoop(r)
  BY <1>5, LoopKeepsCount
<1>6. CASE FinderDone(r)
  <2>1. Seen(r) = written[r]
    BY <1>6 DEF Seen, FinderDone
  <2> QED
    BY <1>6, <2>1 DEF TestTyped, Counted, Early, Goes, FinderDone, counts
<1>7. CASE RemoveAll(r)
  BY <1>7 DEF TestTyped, Counted, Early, Goes, RemoveAll, counts
<1>8. CASE Compare(r)
  <2>1. PICK m \in Nat : m = found[r].matches
    BY DEF TestTyped
  <2>2. PICK n \in Nat : n = Cardinality(written[r])
    BY FilesCounted DEF TestTyped
  <2>3. /\ pc'[r] \in {"success", "failed"} /\ written'[r] = written[r]
        /\ found[r] = Elsewhere \/ m <= n
    BY <1>8, <2>1, <2>2 DEF TestTyped, Counted, Goes, Compare, counts
  <2>4. pc'[r] = "success" => m = NumFiles /\ found[r] = Expected
    BY <1>8, <2>1 DEF TestTyped, Goes, Compare, Expected
  <2>5. n <= NumFiles /\ (n = NumFiles => written[r] = File)
    BY <2>2, FilesCounted DEF TestTyped
  <2>6. pc'[r] = "success" => written'[r] = File \/ Elsewhere = Expected
    BY <2>3, <2>4, <2>5, NumFilesNat
  <2> QED
    BY <2>3, <2>6 DEF Counted, Early, Expected
<1> QED
  BY <1>1, <1>2, <1>3, <1>4, <1>5, <1>6, <1>7, <1>8 DEF Step

\* A run that disturbs another goes on to.
LEMMA WasUndisturbed ==
  ASSUME TestTyped, NEW r \in Run, NEW s \in Run, Step(s), Undisturbed(r)'
  PROVE  Undisturbed(r)
<1> DEFINE over == {"compare", "success", "failed", "unclean"}
<1>1. (pc[s] \in over => pc'[s] \in over) /\ pc'[s] # "rm"
  BY DEF TestTyped, Goes, Step, RemoveOldFiles, MakeDir, DirCreated, Writer, WritersDone,
         FinderTests, ChangeDir, Glob, FinderLoop, FinderDone, RemoveAll, Compare
<1>2. ASSUME NEW q \in Run
      PROVE  Disturbs(q, r) => Disturbs(q, r)'
  <2>1. q # s => pc'[q] = pc[q]
    BY OthersStepAside
  <2> QED
    BY <1>1, <2>1 DEF Disturbs
<1> QED
  BY <1>2 DEF Undisturbed

\* O_APPEND: what a file holds it goes on holding.
LEMMA AppendKeeps ==
  ASSUME NEW content \in Seq(Text), NEW text \in Seq(Text), Holds(content)
  PROVE  Holds(Created(content) \o text)
<1>1. content # Absent /\ Created(content) = content
  BY DEF Holds, Absent, Created
<1>2. PICK n \in 1..Len(content) : content[n] = "string"
  BY DEF Holds
<1>3. n \in DOMAIN (content \o text) /\ (content \o text)[n] = "string"
  BY <1>2
<1> QED
  BY <1>1, <1>3 DEF Holds

\* A step of a run that does not disturb another leaves the other's directory alone.
LEMMA OthersKeepDir ==
  ASSUME TestTyped, DirsApart, NEW r \in Run, NEW s \in Run, r # s, Step(s), Undisturbed(r)'
  PROVE  /\ DirOf[r] # Base
         /\ file'[DirOf[r]] = file[DirOf[r]] /\ (DirOf[r] \in dirs => DirOf[r] \in dirs')
         /\ r \in here => r \in here'
<1>1. DirOf[r] \in Dir /\ DirOf[s] \in Dir /\ DirOf[r] # DirOf[s]
  BY DEF Dir, DirsApart
<1>2. pc'[s] \notin {"rm", "compare", "unclean"} /\ Base \notin {DirOf[r], DirOf[s]}
  <2>1. pc'[s] # "rm"
    BY DEF TestTyped, Goes, Step, RemoveOldFiles, MakeDir, DirCreated, Writer, WritersDone,
           FinderTests, ChangeDir, Glob, FinderLoop, FinderDone, RemoveAll, Compare
  <2> QED
    BY <2>1 DEF Undisturbed, Disturbs
<1>3. CASE RemoveOldFiles(s)
  <2>1. Tree(DirOf[s]) = {DirOf[s]} /\ {DirOf[s]} \in SUBSET Dir
    BY <1>1, <1>2 DEF Tree
  <2>2. Remove({DirOf[s]}) \/ RemoveSome({DirOf[s]})
    BY <1>3, <2>1 DEF RemoveOldFiles
  <2>3. DirOf[r] \in Dir \ {DirOf[s]}
    BY <1>1
  <2> QED
    BY <1>2, <2>1, <2>2, <2>3, RemovalsRemove
<1>4. ~RemoveAll(s)
  BY <1>2 DEF TestTyped, RemoveAll, Goes
<1>5. CASE Writer(s)
  BY <1>1, <1>2, <1>5 DEF TestTyped, Writer
<1>6. CASE MakeDir(s) \/ DirCreated(s) \/ WritersDone(s) \/ FinderTests(s) \/ ChangeDir(s)
           \/ Glob(s) \/ FinderLoop(s) \/ FinderDone(s) \/ Compare(s)
  <2>1. file' = file /\ dirs \subseteq dirs' /\ here \ {s} \subseteq here'
    BY <1>6 DEF MakeDir, DirCreated, WritersDone, FinderTests, ChangeDir, Glob, FinderLoop,
                FinderDone, Compare
  <2> QED
    BY <1>2, <2>1
<1> QED
  BY <1>3, <1>4, <1>5, <1>6 DEF Step

\* In directories of their own runs do not disturb each other, but for RemoveAll.
LEMMA OthersKeepReliable ==
  ASSUME TestTyped, DirsApart, NEW r \in Run, NEW s \in Run, r # s, Step(s), Reliable(r)
  PROVE  Reliable(r)'
<1>1. /\ pc'[r] = pc[r] /\ todo'[r] = todo[r]
      /\ found'[r] = found[r] /\ written'[r] = written[r]
  BY OthersStepAside
<1>2. BothCount(r, 0)' = BothCount(r, 0) /\ CountedAll(r)' = CountedAll(r)
  BY <1>1 DEF BothCount, CountedAll
<1>3. ASSUME Undisturbed(r)'
      PROVE  Undisturbed(r) /\ (Kept(r) => Kept(r)')
  <2>1. Undisturbed(r)
    BY <1>3, WasUndisturbed
  <2> QED
    BY <1>1, <1>3, <2>1, OthersKeepDir DEF Kept, Holds
<1> QED
  BY <1>1, <1>2, <1>3 DEF Reliable

\* The files of a run up to the end of the loop.
LEMMA RunKeepsFiles ==
  ASSUME TestTyped, NEW r \in Run, Step(r), Kept(r)
  PROVE  Kept(r)'
<1> DEFINE d == DirOf[r]
<1>0. d \in Dir
  BY DEF Dir
<1>a. ASSUME dirs' \subseteq dirs \cup {Base, d}
      PROVE  (DirOf[r] = Base => dirs \subseteq {Base})'
  BY <1>a DEF Kept
<1>1. CASE RemoveOldFiles(r)
  <2>1. Tree(d) \in SUBSET Dir
    BY <1>0 DEF Tree
  <2>2. dirs' \subseteq dirs
    BY <1>1, <2>1, RemovalsRemove DEF RemoveOldFiles
  <2>3. pc'[r] \in {"mkdir", "aborted"} /\ written'[r] = {}
    BY <1>1 DEF TestTyped, Kept, Goes, RemoveOldFiles, counts
  <2> QED
    BY <1>a, <2>2, <2>3 DEF Kept
<1>2. CASE MakeDir(r) \/ DirCreated(r)
  <2>1. dirs' \subseteq dirs \cup {Base, d} /\ pc'[r] \in {"made", "aborted", "write", "refused"}
    BY <1>2 DEF TestTyped, Goes, MakeDir, DirCreated
  <2>2. written'[r] = {} /\ (pc'[r] \in {"made", "write"} => d \in dirs')
    BY <1>2 DEF TestTyped, Kept, Goes, MakeDir, DirCreated, counts
  <2> QED
    BY <1>a, <2>1, <2>2 DEF Kept
<1>3. CASE Writer(r)
  <2> DEFINE g == i[r]
  <2>1. pc'[r] = "write" /\ dirs' = dirs /\ d \in dirs' /\ g \in File
    <3>1. g <= NumFiles /\ pc[r] = "write" /\ UNCHANGED <<dirs, pc>>
      BY <1>3 DEF Writer
    <3> QED
      BY <3>1, NumFilesNat DEF TestTyped, Kept, File
  <2>2. file[d][g] \in Seq(Text) /\ Created(file[d][g]) \in Seq(Text)
    BY <1>0, <2>1, TextsTyped DEF TestTyped
  <2>3. \A f \in written[r] : Holds(file[d][f])
    BY <1>3 DEF Kept, Writer
  <2>4. CASE /\ file' = [file EXCEPT ![d][g] = Append(Created(@), "string")]
             /\ written' = [written EXCEPT ![r] = @ \cup {g}]
    <3> DEFINE old == Created(file[d][g])
    <3>1. file'[d][g] = Append(old, "string") /\ \A f \in File : f # g => file'[d][f] = file[d][f]
      BY <1>0, <2>1, <2>4 DEF TestTyped
    <3>2. Holds(Append(old, "string"))
      <4>1. /\ Len(old) + 1 \in DOMAIN Append(old, "string")
            /\ Append(old, "string")[Len(old) + 1] = "string"
        BY <2>2
      <4> QED
        BY <4>1 DEF Holds
    <3>3. written'[r] = written[r] \cup {g} /\ written[r] \subseteq File
      BY <2>4 DEF TestTyped
    <3>4. \A f \in written'[r] : Holds(file'[d][f])
      BY <2>3, <3>1, <3>2, <3>3
    <3> QED
      BY <1>a, <2>1, <3>4 DEF Kept, Holds
  <2>5. ASSUME NEW text \in {<< >>, <<"part">>},
               file' = [file EXCEPT ![d][g] = Created(@) \o text], UNCHANGED written
        PROVE  Kept(r)'
    <3>1. /\ file'[d][g] = Created(file[d][g]) \o text
          /\ \A f \in File : f # g => file'[d][f] = file[d][f]
      BY <1>0, <2>1, <2>5 DEF TestTyped
    <3>2. Holds(file[d][g]) => Holds(file'[d][g])
      BY <2>2, <3>1, TextsTyped, AppendKeeps
    <3>3. written'[r] = written[r] /\ written[r] \subseteq File
      BY <2>5 DEF TestTyped
    <3>4. \A f \in written'[r] : Holds(file'[d][f])
      BY <2>3, <3>1, <3>2, <3>3
    <3> QED
      BY <1>a, <2>1, <3>4 DEF Kept, Holds
  <2>6. CASE UNCHANGED <<file, written>>
    BY <1>a, <2>1, <2>3, <2>6 DEF Kept, Holds
  <2> QED
    BY <1>3, <2>4, <2>5, <2>6 DEF Writer
<1>4. CASE WritersDone(r) \/ FinderTests(r) \/ ChangeDir(r) \/ Glob(r) \/ FinderLoop(r)
  <2>1. UNCHANGED <<file, written, dirs>>
    BY <1>4 DEF WritersDone, FinderTests, ChangeDir, Glob, FinderLoop, counts
  <2>2. /\ pc[r] \in {"write", "finder", "cd", "glob", "loop"}
        /\ pc'[r] \in {"finder", "cd", "glob", "loop", "clean", "refused"}
        /\ pc'[r] \in {"finder", "cd"} => pc[r] \in {"write", "finder"}
        /\ pc'[r] \in {"glob", "loop"} => r \in here'
    BY <1>4 DEF TestTyped, Kept, Goes, WritersDone, FinderTests, ChangeDir, Glob, FinderLoop
  <2> QED
    BY <1>a, <2>1, <2>2 DEF Kept, Holds
<1>5. CASE FinderDone(r) \/ RemoveAll(r) \/ Compare(r)
  <2>1. pc'[r] \in {"clean", "compare", "unclean", "success", "failed"}
    BY <1>5 DEF TestTyped, Goes, FinderDone, RemoveAll, Compare
  <2>2. dirs' \subseteq dirs
    BY <1>5, RemovalsRemove DEF FinderDone, RemoveAll, Compare
  <2> QED
    BY <1>a, <2>1, <2>2 DEF Kept
<1> QED
  BY <1>1, <1>2, <1>3, <1>4, <1>5 DEF Step

\* The loop counts a name twice when it holds the string and may be read.
LEMMA LoopCountsAll ==
  ASSUME TestTyped, Root, NEW r \in Run, FinderLoop(r), Kept(r), written[r] = File,
         CountedAll(r)
  PROVE  CountedAll(r)'
<1>1. PICK f \in todo[r] :
        /\ pc[r] = "loop" /\ todo' = [todo EXCEPT ![r] = @ \ {f}]
        /\ found' = [found EXCEPT ![r].files = @ + 1,
                                 ![r].matches = IF Matches(r, f) THEN @ + 1 ELSE @]
        /\ UNCHANGED pc
  BY DEF FinderLoop
<1>2. /\ todo'[r] = todo[r] \ {f} /\ pc'[r] = "loop"
      /\ f \in File /\ todo[r] \in SUBSET File
  BY <1>1 DEF TestTyped, CountedAll
<1>3. Matches(r, f)
  BY <1>1, <1>2 DEF Kept, Matches, Files, Holds, Absent
<1>4. PICK n \in Nat : n = Cardinality(todo[r])
  BY <1>2, FilesCounted
<1>5. Cardinality(todo'[r]) = n - 1
  BY <1>1, <1>2, <1>4, FilesCounted, FS_RemoveElement
<1>6. found[r] = [files |-> NumFiles - n, matches |-> NumFiles - n]
  BY <1>1, <1>4 DEF CountedAll, BothCount
<1>7. found' = [found EXCEPT ![r].files = NumFiles - n + 1, ![r].matches = NumFiles - n + 1]
  BY <1>1, <1>3, <1>6 DEF TestTyped
<1>8. found'[r] = [files |-> NumFiles - n + 1, matches |-> NumFiles - n + 1]
  BY <1>6, <1>7 DEF TestTyped
<1>9. NumFiles - n + 1 = NumFiles - (n - 1)
  BY <1>4, NumFilesNat
<1> QED
  BY <1>2, <1>5, <1>8, <1>9 DEF CountedAll, BothCount

\* When all is written and no other run has removed it, all of it is counted.
LEMMA RunCountsAll ==
  ASSUME TestTyped, Root, NumFiles > 0, NEW r \in Run, Step(r), Kept(r),
         pc[r] \in Early => BothCount(r, 0),
         written[r] = File => CountedAll(r), written'[r] = File
  PROVE  CountedAll(r)'
<1>1. CASE RemoveOldFiles(r) \/ MakeDir(r) \/ DirCreated(r) \/ Writer(r) \/ WritersDone(r)
           \/ FinderTests(r)
  <2>1. pc'[r] \in Early \cup {"aborted", "refused"}
    BY <1>1 DEF TestTyped, Early, Goes, RemoveOldFiles, MakeDir, DirCreated, Writer,
                WritersDone, FinderTests
  <2> QED
    BY <2>1 DEF CountedAll, Early
<1>2. CASE ChangeDir(r)
  <2>1. pc'[r] = "glob"
    BY <1>2 DEF TestTyped, Kept, Goes, ChangeDir
  <2> QED
    BY <2>1 DEF CountedAll
<1>3. CASE Glob(r)
  <2>1. written[r] = File /\ pc[r] = "glob" /\ pc'[r] = "loop" /\ found'[r] = found[r]
    BY <1>3 DEF TestTyped, Goes, Glob
  <2>2. Entries(r) = File
    <3>1. \A f \in File : Holds(file[DirOf[r]][f])
      BY <2>1 DEF Kept
    <3>2. ~Holds(Absent)
      BY DEF Holds, Absent
    <3>3. Files(DirOf[r]) = File
      BY <3>1, <3>2 DEF Files
    <3>4. r \in here /\ (DirOf[r] = Base => dirs \ {Base} = {})
      BY <2>1 DEF Kept
    <3> QED
      BY <3>3, <3>4 DEF Entries
  <2>3. File # {}
    BY NumFilesNat DEF File
  <2>4. todo'[r] = File
    BY <1>3, <2>2, <2>3 DEF TestTyped, Glob
  <2>5. Cardinality(File) = NumFiles
    BY NumFilesNat, FS_Interval DEF File
  <2>6. NumFiles - Cardinality(todo'[r]) = 0
    BY <2>4, <2>5, NumFilesNat
  <2> QED
    BY <2>1, <2>4, <2>6 DEF CountedAll, BothCount, Early
<1>4. CASE FinderLoop(r)
  <2>1. written[r] = File
    BY <1>4 DEF FinderLoop
  <2> QED
    BY <1>4, <2>1, LoopCountsAll
<1>5. CASE FinderDone(r)
  <2>1. /\ written[r] = File /\ pc[r] = "loop" /\ pc'[r] = "clean"
        /\ found'[r] = found[r] /\ todo[r] = {}
    BY <1>5 DEF TestTyped, Goes, FinderDone, counts
  <2>2. NumFiles - Cardinality(todo[r]) = NumFiles
    BY <2>1, FS_EmptySet, NumFilesNat
  <2> QED
    BY <2>1, <2>2 DEF CountedAll, BothCount
<1>6. CASE RemoveAll(r)
  BY <1>6 DEF TestTyped, Goes, RemoveAll, CountedAll, BothCount, counts
<1>7. CASE Compare(r)
  BY <1>7 DEF TestTyped, Goes, Compare, CountedAll, BothCount, Expected, counts
<1> QED
  BY <1>1, <1>2, <1>3, <1>4, <1>5, <1>6, <1>7 DEF Step

LEMMA RunKeepsReliable ==
  ASSUME TestTyped, NEW r \in Run, Step(r), Reliable(r)
  PROVE  Reliable(r)'
<1>1. pc'[r] \in Early => pc[r] \in Early /\ found'[r] = found[r]
  BY DEF TestTyped, Early, Goes, Step, RemoveOldFiles, MakeDir, DirCreated, Writer, WritersDone,
         FinderTests, ChangeDir, Glob, FinderLoop, FinderDone, RemoveAll, Compare, counts
<1>2. ASSUME Root, NumFiles > 0, Undisturbed(r)'
      PROVE  /\ pc'[r] # "refused" /\ Kept(r)'
             /\ written'[r] = File => CountedAll(r)'
  <2>1. pc[r] # "refused" /\ Kept(r) /\ (written[r] = File => CountedAll(r))
    BY <1>2, WasUndisturbed DEF Reliable
  <2>2. pc[r] \in Early => BothCount(r, 0)
    BY DEF Reliable
  <2>3. pc'[r] # "refused"
    BY <2>1 DEF TestTyped, Kept, Goes, Step, RemoveOldFiles, MakeDir, DirCreated, Writer,
                WritersDone, FinderTests, ChangeDir, Glob, FinderLoop, FinderDone, RemoveAll,
                Compare
  <2> QED
    BY <1>2, <2>1, <2>2, <2>3, RunKeepsFiles, RunCountsAll
<1> QED
  BY <1>1, <1>2 DEF Reliable, BothCount

LEMMA StepsKeepTestInv ==
  ASSUME DirsApart, TestInv, [TestNext]_testVars
  PROVE  TestInv'
<1>1. CASE UNCHANGED testVars
  <2>1. TestTyped'
    BY <1>1 DEF testVars, TestInv, TestTyped
  <2>2. ASSUME NEW r \in Run
        PROVE  Owned(r)' /\ Counted(r)' /\ Reliable(r)'
    <3>1. Owned(r)' /\ Counted(r)'
      BY <1>1 DEF testVars, TestInv, Owned, Counted, Seen, Holds
    <3>2. /\ Undisturbed(r)' = Undisturbed(r) /\ Kept(r)' = Kept(r)
          /\ CountedAll(r)' = CountedAll(r) /\ BothCount(r, 0)' = BothCount(r, 0)
      BY <1>1 DEF testVars, Undisturbed, Disturbs, Kept, Holds, CountedAll, BothCount
    <3> QED
      BY <1>1, <3>1, <3>2 DEF testVars, TestInv, Reliable
  <2> QED
    BY <2>1, <2>2 DEF TestInv
<1>2. ASSUME NEW s \in Run, Step(s)
      PROVE  TestInv'
  <2>1. TestTyped'
    BY <1>2, StepsKeepTypes DEF TestInv
  <2>2. ASSUME NEW r \in Run
        PROVE  Owned(r)' /\ Counted(r)' /\ Reliable(r)'
    <3>1. Owned(r)'
      BY <1>2, StepsKeepOwned DEF TestInv
    <3>2. Counted(r)'
      BY <1>2, OthersKeepCount, RunKeepsCount DEF TestInv
    <3>3. Reliable(r)'
      BY <1>2, OthersKeepReliable, RunKeepsReliable DEF TestInv
    <3> QED
      BY <3>1, <3>2, <3>3
  <2> QED
    BY <2>1, <2>2 DEF TestInv
<1> QED
  BY <1>1, <1>2 DEF TestNext

\* A run of finder-test.sh that ends with "success" has written its string to
\* every one of its files, for every number of files and of runs in directories
\* of their own, although writer exits with 0 whatever fails in it and every run
\* removes the directories of all the others; unless finder.sh, whose cd fails
\* unnoticed, finds just the right numbers in the directory it was started in.
THEOREM FinderSuccessIsTrue ==
  ASSUME DirsApart
  PROVE  TestSpec => []SuccessIsTrue
<1>1. TestInv /\ [TestNext]_testVars => TestInv'
  BY StepsKeepTestInv
<1>2. TestInv => SuccessIsTrue
  BY DEF TestInv, Counted, SuccessIsTrue
<1> QED
  BY InitTestInv, <1>1, <1>2, PTL DEF TestSpec

\* And one that finds its directory missing or the wrong numbers, run as root
\* with at least one file to write, has not written all of them or has been
\* disturbed by another run, in one of the three ways that Disturbs names.
THEOREM FinderFailureHasCause ==
  ASSUME DirsApart
  PROVE  TestSpec => []FailureHasCause
<1>1. TestInv /\ [TestNext]_testVars => TestInv'
  BY StepsKeepTestInv
<1>2. TestInv => FailureHasCause
  BY DEF TestInv, Reliable, CountedAll, Undisturbed, FailureHasCause
<1> QED
  BY InitTestInv, <1>1, <1>2, PTL DEF TestSpec

=============================================================================
