-------------------------- MODULE MCConcurrentLoop --------------------------
(* Two workers, one outside caller, pool tasks and one for all.            *)
EXTENDS ConcurrentLoop

CONSTANTS w1, w2, c1, t1, t2, t3, a1
MCWorkers == {w1, w2}
MCCallers == {c1}
MCPoolTasks == {t1, t2, t3}
MCAllTasks == {a1}
=============================================================================
