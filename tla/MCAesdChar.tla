----------------------------- MODULE MCAesdChar -----------------------------
(* Values for model checks of the driver. *)
EXTENDS AesdCharProperties, TLC

CONSTANTS p1, p2

\* The processes are interchangeable when both use the same files.
ProcSymmetry == Permutations(Proc)

\* Blocks of the heap.
MCPtr == 1..5
MCSmallPtr == 1..3
MCTinyPtr == 1..2

\* Two processes on one file, or each on its own.
SharedFile == {<<p1, 1>>, <<p2, 1>>}
OwnFiles == {<<p1, 1>>, <<p2, 2>>}

\* A part of a command and the end of one.
WriteData == {<<1>>, <<2, 10>>}

\* Commands of different lengths, for readers and seeks.
Lines == {<<10>>, <<1, 10>>}

\* Reads that end inside an entry and reads that span entries.
Counts == {1, 3}

SeekArg(w, c, o) == [whence |-> w, cmd |-> c, offset |-> o]

\* Seeks to places inside and outside the data, at both ends of loff_t (with
\* LoffMax = 7), and to bytes of commands that exist and do not.
SeekArgs ==
  {SeekArg("SET", 0, 1), SeekArg("CUR", 0, 7), SeekArg("CUR", 0, -1), SeekArg("END", 0, -2),
   SeekArg("END", 0, 7), SeekArg("CMD", 0, 1), SeekArg("CMD", 1, 0),
   SeekArg("CMD", 2, 0)}

\* For progress: the calls that fail at once, and seeks of both kinds.
FewBytes == {<<1>>, <<10>>, << >>}
FewSeeks == {SeekArg("BAD_IOCTL", 0, 0), SeekArg("BAD", 0, 0), SeekArg("CMD", 0, 0)}

=============================================================================
