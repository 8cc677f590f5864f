--------------------------- MODULE MCVertexCache ---------------------------
(* Vertices 0, 4 and 8 share an entry of a cache of four; 1 has its own.   *)
EXTENDS VertexCache
MCIndices == {0, 1, 4, 8}
MCCounts == {9}
MCOutside == {{4, 8}}
=============================================================================
