----------------------------- MODULE BankTransfer -----------------------------
(***************************************************************************)
(* CppConcurrencyProgramming, programs 09, 10 and 11: two threads that for *)
(* ever transfer random amounts between two accounts, in opposite          *)
(* directions.  09 locks the giver's account and then the receiver's; 10   *)
(* locks both with std::lock; 11 locks one account at a time and waits     *)
(* until the change leaves something in it.                                *)
(*                                                                         *)
(* An amount is a double between 0 and the money an account starts with;   *)
(* here it is a whole number.                                              *)
(***************************************************************************)
EXTENDS Integers

CONSTANTS
    Start,    \* what each account has at first, and the largest amount: 100
    Nobody

Accounts == {"alice", "bob"}
Other(a) == IF a = "alice" THEN "bob" ELSE "alice"

\* A thread bears the name of the account it takes money from.
VARIABLES
    program,   \* "09", "10" or "11"
    money,     \* money_ of each account
    lock,      \* who holds each money_lock_
    pc,        \* where each thread is
    amount,    \* what it transfers
    reg        \* the balance it has read

vars == <<program, money, lock, pc, amount, reg>>

Init ==
    /\ program \in {"09", "10", "11"}
    /\ money = [a \in Accounts |-> Start]
    /\ lock = [a \in Accounts |-> Nobody]
    /\ pc = [t \in Accounts |-> "draw"]
    /\ amount = [t \in Accounts |-> 0]
    /\ reg = [t \in Accounts |-> 0]

Goto(t, l) == pc' = [pc EXCEPT ![t] = l]

\* randomTransfer(): the next amount.
Draw(t) ==
    /\ pc[t] = "draw"
    /\ \E n \in 0..Start : amount' = [amount EXCEPT ![t] = n]
    /\ Goto(t, IF program = "11" THEN "take" ELSE "lock")
    /\ UNCHANGED <<program, money, lock, reg>>

-----------------------------------------------------------------------------
(* Programs 09 and 10.                                                     *)

LockGiver(t) ==
    /\ program = "09" /\ pc[t] = "lock" /\ lock[t] = Nobody
    /\ lock' = [lock EXCEPT ![t] = t]
    /\ Goto(t, "lock2")
    /\ UNCHANGED <<program, money, amount, reg>>

\* Bug: the receiver's account is not locked.
BugLockReceiver(t) ==
    /\ pc[t] = "lock2"
    /\ Goto(t, "test")
    /\ UNCHANGED <<program, money, lock, amount, reg>>

LockReceiver(t) ==
    /\ pc[t] = "lock2" /\ lock[Other(t)] = Nobody
    /\ lock' = [lock EXCEPT ![Other(t)] = t]
    /\ Goto(t, "test")
    /\ UNCHANGED <<program, money, amount, reg>>

\* std::lock holds no lock while it waits for the other one.
LockBoth(t) ==
    /\ program = "10" /\ pc[t] = "lock"
    /\ \A a \in Accounts : lock[a] = Nobody
    /\ lock' = [a \in Accounts |-> t]
    /\ Goto(t, "test")
    /\ UNCHANGED <<program, money, amount, reg>>

Test(t) ==
    /\ pc[t] = "test"
    /\ Goto(t, IF amount[t] > money[t] THEN "unlock" ELSE "read")
    /\ UNCHANGED <<program, money, lock, amount, reg>>

\* changeMoney(): money_ += amount reads the balance and then writes it.
Read(t, account, from, to) ==
    /\ pc[t] = from
    /\ reg' = [reg EXCEPT ![t] = money[account]]
    /\ Goto(t, to)
    /\ UNCHANGED <<program, money, lock, amount>>

Write(t, account, change, from, to) ==
    /\ pc[t] = from
    /\ money' = [money EXCEPT ![account] = reg[t] + change]
    /\ reg' = [reg EXCEPT ![t] = 0]
    /\ Goto(t, to)
    /\ UNCHANGED <<program, lock, amount>>

Withdraw(t) ==
    Read(t, t, "read", "write") \/ Write(t, t, -amount[t], "write", "read2")

Deposit(t) ==
    \/ Read(t, Other(t), "read2", "write2")
    \/ Write(t, Other(t), amount[t], "write2", "unlock")

Unlock(t) ==
    /\ pc[t] = "unlock"
    /\ lock' = [a \in Accounts |-> IF lock[a] = t THEN Nobody ELSE lock[a]]
    /\ Goto(t, "draw")
    /\ UNCHANGED <<program, money, amount, reg>>

-----------------------------------------------------------------------------
(* Program 11: changeMoney() is one critical section of the account, in    *)
(* which a thread may sleep on the account's condition variable.           *)

\* The thread's change, and the account it is about.
Change(t) == IF pc[t] \in {"take", "takeWait"} THEN -amount[t] ELSE amount[t]
Account(t) == IF pc[t] \in {"take", "takeWait"} THEN t ELSE Other(t)

CanChange(t) == money[Account(t)] + Change(t) > 0

\* Bug: those who wait for the account are not told.
BugChangeMoney(t) ==
    /\ pc[t] \in {"take", "give"} /\ CanChange(t)
    /\ money' = [money EXCEPT ![Account(t)] = @ + Change(t)]
    /\ Goto(t, IF pc[t] = "take" THEN "give" ELSE "draw")
    /\ UNCHANGED <<program, lock, amount, reg>>

\* notify_all() makes the other thread look again, if it sleeps on this account.
ChangeMoney(t) ==
    /\ pc[t] \in {"take", "give"} /\ CanChange(t)
    /\ money' = [money EXCEPT ![Account(t)] = @ + Change(t)]
    /\ pc' = [u \in Accounts |->
                IF u = t THEN (IF pc[t] = "take" THEN "give" ELSE "draw")
                ELSE IF Account(u) # Account(t) THEN pc[u]
                ELSE IF pc[u] = "takeWait" THEN "take"
                ELSE IF pc[u] = "giveWait" THEN "give"
                ELSE pc[u]]
    /\ UNCHANGED <<program, lock, amount, reg>>

Sleep(t) ==
    /\ pc[t] \in {"take", "give"} /\ ~CanChange(t)
    /\ Goto(t, IF pc[t] = "take" THEN "takeWait" ELSE "giveWait")
    /\ UNCHANGED <<program, money, lock, amount, reg>>

-----------------------------------------------------------------------------
Step(t) ==
    \/ Draw(t)
    \/ LockGiver(t) \/ LockReceiver(t) \/ LockBoth(t)
    \/ Test(t) \/ Withdraw(t) \/ Deposit(t) \/ Unlock(t)
    \/ ChangeMoney(t) \/ Sleep(t)

Next == \E t \in Accounts : Step(t)

Spec == Init /\ [][Next]_vars

-----------------------------------------------------------------------------
(* Properties.                                                             *)

\* Every variable has its type.
TypeOK ==
    /\ program \in {"09", "10", "11"}
    /\ money \in [Accounts -> Int]
    /\ lock \in [Accounts -> Accounts \union {Nobody}]
    /\ pc \in [Accounts -> {"draw", "lock", "lock2", "test", "read", "write", "read2",
                            "write2", "unlock", "take", "takeWait", "give", "giveWait"}]
    /\ amount \in [Accounts -> 0..Start]
    /\ reg \in [Accounts -> Int]

\* What a thread has taken from one account and not yet put into the other.
InFlight(t) == IF pc[t] \in {"read2", "write2", "give", "giveWait"} THEN amount[t] ELSE 0

\* Money is neither made nor lost by transfers that overlap, and no account is ever
\* overdrawn, although the test and the changes of a transfer are separate steps.
MoneyKept ==
    /\ money["alice"] + money["bob"] + InFlight("alice") + InFlight("bob") = 2 * Start
    /\ \A a \in Accounts : money[a] >= 0

\* A thread that cannot go on until another one acts.
Blocked(t) ==
    \/ pc[t] = "lock" /\ program = "09" /\ lock[t] # Nobody
    \/ pc[t] = "lock" /\ program = "10" /\ \E a \in Accounts : lock[a] # Nobody
    \/ pc[t] = "lock2" /\ lock[Other(t)] # Nobody
    \/ pc[t] \in {"takeWait", "giveWait"}

\* The two threads wait for each other for ever only in two ways: in 09, each with the
\* account of its own locked, and in 11, each waiting to transfer all that an account
\* started with, while neither has received anything.  With std::lock they never do,
\* and in 11 no thread sleeps through the deposit it waits for.  The three programs end in
\* the same comment, "The deadlock may occurs in this program": 10, at line 106, has kept
\* it from 09, although transferMoney() holds nothing there while it waits (line 48).
StuckOnlyAsKnown ==
    (\A t \in Accounts : Blocked(t)) =>
        \/ program = "09" /\ \A t \in Accounts : lock[t] = t
        \/ program = "11" /\ \A t \in Accounts : money[t] = Start /\ amount[t] = Start
=============================================================================
