---------------------------- MODULE MCAesdSocket ----------------------------
(* Values for model checks of the socket server. *)
EXTENDS AesdSocketProperties

\* Bytes 100 and 101 stand for a seek to byte 1 and 0 of the oldest command, which
\* may not exist yet, 102 for a seek that does not parse.
MCSeekText == [b \in {100, 101} |-> [cmd |-> 0, offset |-> 101 - b]]
MCBadSeek == 102

\* A writer whose command makes the buffer grow twice and that sends more after
\* it, both kinds of seek, and a program that writes to the device by itself.
ClientStreams == <<<<1, 2, 3, 10, 4>>, <<102, 10>>, <<100, 10>>, <<8, 9, 10>>>>

\* Two short writers and, between them, a seek to what the first wrote.
ThreeStreams == <<<<10>>, <<101, 10>>, <<10>>>>

\* A short writer, a seek to what it wrote, and a client that only leaves.
LeaverStreams == <<<<10>>, <<101, 10>>, << >>>>

\* A writer and a seek to what it wrote.
TwoStreams == <<<<1, 2, 10>>, <<100, 10>>>>

SerialFaults == AllFaults \ {"node"}

\* An accept that fails for ever would leave nothing to show.
ProgressFaults == SerialFaults \ {"accept"}

=============================================================================
