----------------------------- MODULE MCTextures -----------------------------
(* One name, two units; images of 1x1 and 2x2.                             *)
EXTENDS Textures

Image(w, h, fmt) == [dim |-> <<w, h>>, fmt |-> fmt]
MCImages == {Image(1, 1, 1), Image(2, 2, 1)}
=============================================================================
