----------------------------- MODULE MCTcpServer -----------------------------
(* The connections, loops and user threads of the runs of TcpServer. *)
EXTENDS TcpServer, TLC

CONSTANTS c1, c2, base, sub1, u1, u2

OneConn == {c1}
TwoConns == {c1, c2}
OneSubLoop == {sub1}
NoUser == {}
OneUser == {u1}
TwoUsers == {u1, u2}

UserSymmetry == Permutations({u1, u2})
=============================================================================
