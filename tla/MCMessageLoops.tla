--------------------------- MODULE MCMessageLoops ---------------------------
(* Two loops that may be merged either way and one posting thread.         *)
EXTENDS MessageLoops

CONSTANTS q1, q2, p1
MCQueues == {q1, q2}
MCPosters == {p1}
OneLoop == {q1}
OtherLoop == {q2}
=============================================================================
