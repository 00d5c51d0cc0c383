----------------------------- MODULE Allocator -----------------------------
(***************************************************************************)
(* What an allocator promises its users: allocate() returns a block that   *)
(* nobody holds, or fails, and deallocate() takes back a block in use.     *)
(***************************************************************************)
CONSTANT Block
VARIABLE users    \* how many users each block has been given to

Init == users = [b \in Block |-> 0]

Allocate == \E b \in Block : users[b] = 0 /\ users' = [users EXCEPT ![b] = 1]

Deallocate == \E b \in Block : users[b] = 1 /\ users' = [users EXCEPT ![b] = 0]

Spec == Init /\ [][Allocate \/ Deallocate]_users
=============================================================================
