------------------------------- MODULE MCEgl -------------------------------
(* Two threads and contexts; s1 and s2 are surfaces of one window, p1 is a *)
(* pbuffer.                                                                *)
EXTENDS Egl, TLC

CONSTANTS t1, t2, c1, c2, s1, s2, p1, w1
MCThreads == {t1, t2}
MCContexts == {c1, c2}
MCWindowSurfaces == {s1, s2}
MCPbuffers == {p1}
MCWindows == {w1}
MCWindowOf == (s1 :> w1) @@ (s2 :> w1)
Plain == {}
Symmetry == Permutations(MCThreads) \union Permutations(MCContexts)
=============================================================================
