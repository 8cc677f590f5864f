--------------------------- MODULE MCWaitableEvent ---------------------------
(* Three threads, so that two wait while the third signals.                *)
EXTENDS WaitableEvent

CONSTANTS t1, t2, t3
MCThreads == {t1, t2, t3}
=============================================================================
