--------------------------- MODULE MCDrawArrays ---------------------------
(* Five entries: batches of two to five vertices, calls of up to six.      *)
EXTENDS DrawArrays
=============================================================================
