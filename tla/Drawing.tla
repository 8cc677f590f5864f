------------------------------ MODULE Drawing ------------------------------
(***************************************************************************)
(* What the two ways to draw of swrender/array.cpp have in common: the     *)
(* call under way, its winding, and what it renders.  VertexCache models   *)
(* glDrawElements and DrawArrays glDrawArrays.                             *)
(***************************************************************************)
EXTENDS Integers

VARIABLES mode,         \* the call under way, or "none"
          winding,      \* 1, 0, 1 ... for a strip, 2, 3, 2 ... for a fan
          drawn         \* what the last batch or iteration rendered

Stale == -1             \* an entry this call has not compiled
Lists == {"points", "lines", "triangles"}

Flip(w) == IF w % 2 = 0 THEN w + 1 ELSE w - 1        \* w ^ 1
=============================================================================
