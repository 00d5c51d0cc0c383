----------------------------- MODULE MCEventLoop -----------------------------
(* The threads and callbacks of the runs of EventLoop. *)
EXTENDS EventLoop

CONSTANTS t1, t2, f1, f2, f3

OneThread == {t1}
TwoThreads == {t1, t2}
TwoFunctors == {f1, f2}
ThreeFunctors == {f1, f2, f3}
=============================================================================
