--------------------------------- MODULE Log ---------------------------------
(***************************************************************************)
(* What a logger promises: messages reach the file once, in the order in   *)
(* which they were written; at any moment the file holds a first part of   *)
(* what was written.                                                       *)
(***************************************************************************)
EXTENDS Integers, Sequences

VARIABLES
    written,        \* the messages given to write()
    printed         \* the messages in the file

logVars == <<written, printed>>

LogInit == written = <<>> /\ printed = <<>>

Write(m) ==
    /\ written' = Append(written, m)
    /\ UNCHANGED printed

Output ==
    /\ \E n \in Len(printed) + 1 .. Len(written) : printed' = SubSeq(written, 1, n)
    /\ UNCHANGED written

LogNext == (\E m \in {Len(written) + 1} : Write(m)) \/ Output

LogSpec == LogInit /\ [][LogNext]_logVars
=============================================================================
