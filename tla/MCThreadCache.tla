---------------------------- MODULE MCThreadCache ----------------------------
(* The threads of the runs of ThreadCache. *)
EXTENDS ThreadCache, TLC

CONSTANTS t1, t2

OneThread == {t1}
TwoThreads == {t1, t2}

\* The threads do the same; no property that is checked with it is one of liveness.
ThreadSymmetry == Permutations(TwoThreads)
=============================================================================
