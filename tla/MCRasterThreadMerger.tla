------------------------ MODULE MCRasterThreadMerger ------------------------
(* One thread manages the lease and another also merges.  Disable() and    *)
(* Enable() are called between the manager's own calls or, with            *)
(* OtherThread, by a third thread at any time.                             *)
EXTENDS RasterThreadMerger

CONSTANTS r1, r2, p, e1
OneRenderer == {r1}
TwoRenderers == {r1, r2}
OtherThread == {e1}
=============================================================================
