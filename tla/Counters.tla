------------------------------ MODULE Counters ------------------------------
(***************************************************************************)
(* CppConcurrencyProgramming, programs 06, 07, 08, 13 and 14: the sum of   *)
(* sqrt(i) for i from 0 to MAX, each thread adding up a range of its own.  *)
(* 06 adds every term to a shared variable without a lock, 07 with one; 08 *)
(* locks once, for the sum of the range; 13 and 14 return the sums of the  *)
(* ranges through futures, which the main thread adds up.                  *)
(*                                                                         *)
(* A sum is the number of times each term is in it.                        *)
(***************************************************************************)
EXTENDS Naturals

CONSTANTS
    MAX,
    concurrent_count,   \* what thread::hardware_concurrency() returns
    Nobody

Threads == 0..(concurrent_count - 1)
Terms == 0..MAX

VARIABLES
    program,   \* "06", "07", "08", "13" or "14"
    sum,       \* the shared sum, or that of the main thread
    exclusive, \* who holds the mutex
    todo,      \* terms a thread has still to add
    reg,       \* the sum a thread has read
    pc,        \* where each thread is
    got        \* futures the main thread has waited for

vars == <<program, sum, exclusive, todo, reg, pc, got>>

\* concurrent_task(): the ranges, `range' being the last one's end.
range(t) == (MAX \div concurrent_count) * (t + 1)

\* Bug: a range begins with the last term of the one before.
Bugmin(t) == IF t = 0 THEN 0 ELSE range(t - 1)

min(t) == IF t = 0 THEN 0 ELSE range(t - 1) + 1

\* concurrent_work() of program 13 leaves out the end of its range.
Range(p, t) == {i \in min(t)..range(t) : p = "13" => i < range(t)}

Zero == [i \in Terms |-> 0]
Plus(s, S) == [i \in Terms |-> s[i] + (IF i \in S THEN 1 ELSE 0)]

Init ==
    /\ program \in {"06", "07", "08", "13", "14"}
    /\ sum = Zero
    /\ exclusive = Nobody
    /\ todo = [t \in Threads |-> Range(program, t)]
    /\ reg = [t \in Threads |-> Zero]
    /\ pc = [t \in Threads |-> "loop"]
    /\ got = 0

\* What a thread adds to the sum at a time: the next term, or all it has added up.
Batch(t) ==
    IF program \in {"06", "07"}
    THEN {i \in todo[t] : \A j \in todo[t] : i <= j} ELSE todo[t]

\* `sum += ...' reads the sum ...
ReadSum(t) ==
    /\ program \in {"06", "07", "08"} /\ pc[t] = "loop" /\ todo[t] # {}
    /\ program # "06" => exclusive = Nobody
    /\ exclusive' = IF program = "06" THEN exclusive ELSE t
    /\ reg' = [reg EXCEPT ![t] = sum]
    /\ pc' = [pc EXCEPT ![t] = "write"]
    /\ UNCHANGED <<program, sum, todo, got>>

\* ... and then writes it.
WriteSum(t) ==
    /\ pc[t] = "write"
    /\ sum' = Plus(reg[t], Batch(t))
    /\ todo' = [todo EXCEPT ![t] = @ \ Batch(t)]
    /\ reg' = [reg EXCEPT ![t] = Zero]
    /\ exclusive' = IF program = "06" THEN exclusive ELSE Nobody
    /\ pc' = [pc EXCEPT ![t] = "loop"]
    /\ UNCHANGED <<program, got>>

\* The packaged_task of a detached thread makes its future ready.
SetResult(t) ==
    /\ program \in {"13", "14"} /\ pc[t] = "loop"
    /\ pc' = [pc EXCEPT ![t] = "ready"]
    /\ UNCHANGED <<program, sum, exclusive, todo, reg, got>>

\* The main thread waits for the futures in turn.
GetResult(t) ==
    /\ got = t /\ pc[t] = "ready"
    /\ sum' = Plus(sum, todo[t])
    /\ todo' = [todo EXCEPT ![t] = {}]
    /\ got' = got + 1
    /\ UNCHANGED <<program, exclusive, reg, pc>>

Next ==
    \E t \in Threads : ReadSum(t) \/ WriteSum(t) \/ SetResult(t) \/ GetResult(t)

Spec == Init /\ [][Next]_vars

-----------------------------------------------------------------------------
(* Properties.                                                             *)

Finished == \A t \in Threads : todo[t] = {}

\* Terms no thread is given: what is left when MAX is divided among the threads and,
\* in 13, the end of each range.
Missed ==
    {i \in Terms : i > range(concurrent_count - 1)}
        \union (IF program = "13" THEN {range(t) : t \in Threads} ELSE {})

\* However the threads overlap, the result has each term of the ranges exactly once,
\* so it is the serial one when the threads divide MAX and the ranges keep their ends.
\* Program 06 may lose terms ("The result is wrong!"), and never counts one twice.
SumOfRanges ==
    /\ Finished /\ program # "06" =>
           sum = [i \in Terms |-> IF i \in Missed THEN 0 ELSE 1]
    /\ \A i \in Terms : sum[i] <= 1
=============================================================================
