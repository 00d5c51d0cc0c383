--------------------------- MODULE MCConnectionPool ---------------------------
(* The borrowing threads of the runs of ConnectionPool. *)
EXTENDS ConnectionPool

CONSTANTS g1, g2

TwoGetters == {g1, g2}
=============================================================================
