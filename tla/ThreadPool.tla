------------------------------ MODULE ThreadPool ------------------------------
(***************************************************************************)
(* The task pools of CppConcurrencyProgramming/ThreadPool.cpp ("mgkl") and *)
(* 30dayMakeCppServer/day12/src/ThreadPool.cpp ("day12"): workers that     *)
(* sleep on a condition variable until there is a task or the pool is to   *)
(* end.  The second one notifies one worker where the first notifies all,  *)
(* refuses tasks once it is stopped, and never initialises `stop'.         *)
(*                                                                         *)
(* Each critical section of the mutex is one step; the notification that   *)
(* follows it is another.  Tasks may submit tasks, as their closures may   *)
(* refer to the pool.                                                      *)
(***************************************************************************)
EXTENDS Naturals, Sequences, FiniteSets

CONSTANTS Workers, Tasks, None

VARIABLES
    edition,    \* which of the two pools this is
    tasks,      \* the queue
    exit_flag,  \* exit_flag, stop
    pc,         \* where each worker is
    task,       \* the task a worker runs
    owner,      \* where the thread that owns the pool is
    status      \* history: what has become of each task

vars == <<edition, tasks, exit_flag, pc, task, owner, status>>

Init ==
    /\ edition \in {"mgkl", "day12"}
    /\ tasks = <<>>
    /\ exit_flag \in (IF edition = "mgkl" THEN {FALSE} ELSE BOOLEAN)
    /\ pc = [w \in Workers |-> "lock"]
    /\ task = [w \in Workers |-> None]
    /\ owner = "use"
    /\ status = [k \in Tasks |-> "new"]

Sleepers == {w \in Workers : pc[w] = "wait"}

Woken(f, S) == [w \in Workers |-> IF w \in S THEN "lock" ELSE f[w]]

-----------------------------------------------------------------------------
(* submit(), add(): push under the mutex, then notify.                     *)

Push(k) ==
    /\ status[k] = "new"
    /\ edition = "mgkl" \/ ~exit_flag
    /\ tasks' = Append(tasks, k)
    /\ status' = [status EXCEPT ![k] = "queued"]
    /\ UNCHANGED <<edition, exit_flag, task>>

\* add() throws.
Refuse(k) ==
    /\ edition = "day12" /\ exit_flag /\ status[k] = "new"
    /\ status' = [status EXCEPT ![k] = "refused"]
    /\ UNCHANGED <<edition, tasks, exit_flag, pc, task, owner>>

OwnerSubmits(k) ==
    /\ owner = "use" /\ Push(k)
    /\ owner' = "notify"
    /\ UNCHANGED pc

TaskSubmits(w, k) ==
    /\ pc[w] = "run" /\ Push(k)
    /\ pc' = [pc EXCEPT ![w] = "notify"]
    /\ UNCHANGED owner

SubmitRefused(k) ==
    /\ owner = "use" \/ \E w \in Workers : pc[w] = "run"
    /\ Refuse(k)

\* notify_all() wakes every sleeper, notify_one() one of them, if there is one.
Notified ==
    IF edition = "mgkl" THEN {Sleepers}
    ELSE IF Sleepers = {} THEN {{}}
    ELSE {{w} : w \in Sleepers}

\* Bug: nobody is notified while a worker is awake.
BugOwnerNotifies ==
    /\ owner = "notify"
    /\ owner' = "use"
    /\ \E S \in Notified :
         pc' = IF \E w \in Workers : pc[w] # "wait" THEN pc ELSE Woken(pc, S)
    /\ UNCHANGED <<edition, tasks, exit_flag, task, status>>

OwnerNotifies ==
    /\ owner = "notify"
    /\ owner' = "use"
    /\ \E S \in Notified : pc' = Woken(pc, S)
    /\ UNCHANGED <<edition, tasks, exit_flag, task, status>>

TaskNotifies(w) ==
    /\ pc[w] = "notify"
    /\ \E S \in Notified : pc' = Woken([pc EXCEPT ![w] = "run"], S)
    /\ UNCHANGED <<edition, tasks, exit_flag, task, owner, status>>

-----------------------------------------------------------------------------
(* work(): the loop of a worker.                                           *)

Sleep(w) ==
    /\ pc[w] = "lock" /\ ~exit_flag /\ tasks = <<>>
    /\ pc' = [pc EXCEPT ![w] = "wait"]
    /\ UNCHANGED <<edition, tasks, exit_flag, task, owner, status>>

WakeSpuriously(w) ==
    /\ pc[w] = "wait"
    /\ pc' = [pc EXCEPT ![w] = "lock"]
    /\ UNCHANGED <<edition, tasks, exit_flag, task, owner, status>>

\* Bug: a stopped worker leaves the tasks that are queued.
BugLeave(w) ==
    /\ pc[w] = "lock" /\ exit_flag
    /\ pc' = [pc EXCEPT ![w] = "gone"]
    /\ UNCHANGED <<edition, tasks, exit_flag, task, owner, status>>

Leave(w) ==
    /\ pc[w] = "lock" /\ exit_flag /\ tasks = <<>>
    /\ pc' = [pc EXCEPT ![w] = "gone"]
    /\ UNCHANGED <<edition, tasks, exit_flag, task, owner, status>>

TakeTask(w) ==
    /\ pc[w] = "lock" /\ tasks # <<>>
    /\ task' = [task EXCEPT ![w] = Head(tasks)]
    /\ tasks' = Tail(tasks)
    /\ status' = [status EXCEPT ![Head(tasks)] = "running"]
    /\ pc' = [pc EXCEPT ![w] = "run"]
    /\ UNCHANGED <<edition, exit_flag, owner>>

\* The packaged_task keeps what the function returns or throws.
EndTask(w) ==
    /\ pc[w] = "run"
    /\ status' = [status EXCEPT ![task[w]] = "done"]
    /\ task' = [task EXCEPT ![w] = None]
    /\ pc' = [pc EXCEPT ![w] = "lock"]
    /\ UNCHANGED <<edition, tasks, exit_flag, owner>>

-----------------------------------------------------------------------------
(* The destructor.                                                         *)

SetExit ==
    /\ owner = "use"
    /\ exit_flag' = TRUE
    /\ owner' = "exit"
    /\ UNCHANGED <<edition, tasks, pc, task, status>>

\* Bug: one worker is told.
BugNotifyExit ==
    /\ owner = "exit"
    /\ owner' = "join"
    /\ \E S \in SUBSET Sleepers :
        /\ S = {} <=> Sleepers = {}
        /\ Cardinality(S) <= 1
        /\ pc' = Woken(pc, S)
    /\ UNCHANGED <<edition, tasks, exit_flag, task, status>>

NotifyExit ==
    /\ owner = "exit"
    /\ owner' = "join"
    /\ pc' = Woken(pc, Sleepers)
    /\ UNCHANGED <<edition, tasks, exit_flag, task, status>>

Join ==
    /\ owner = "join" /\ \A w \in Workers : pc[w] = "gone"
    /\ owner' = "gone"
    /\ UNCHANGED <<edition, tasks, exit_flag, pc, task, status>>

-----------------------------------------------------------------------------
\* What a worker does of itself, tasks that submit more aside.
Works(w) == Sleep(w) \/ Leave(w) \/ TakeTask(w) \/ TaskNotifies(w)

Destroys == NotifyExit \/ Join

Next ==
    \/ \E w \in Workers : Works(w) \/ EndTask(w) \/ WakeSpuriously(w)
    \/ \E w \in Workers, k \in Tasks : TaskSubmits(w, k)
    \/ \E k \in Tasks : OwnerSubmits(k) \/ SubmitRefused(k)
    \/ OwnerNotifies \/ SetExit \/ Destroys

\* Workers and the owner go on, and tasks end.  Nobody has to submit, to destroy the
\* pool or to be woken for nothing.
Fairness ==
    /\ \A w \in Workers : WF_vars(Works(w)) /\ WF_vars(EndTask(w))
    /\ WF_vars(OwnerNotifies) /\ WF_vars(Destroys)

Spec == Init /\ [][Next]_vars /\ Fairness

-----------------------------------------------------------------------------
(* Properties.                                                             *)

\* Every variable has its type, and a worker holds a task exactly while it runs one.
TypeOK ==
    /\ edition \in {"mgkl", "day12"}
    /\ tasks \in Seq(Tasks)
    /\ exit_flag \in BOOLEAN
    /\ pc \in [Workers -> {"lock", "wait", "run", "notify", "gone"}]
    /\ task \in [Workers -> Tasks \union {None}]
    /\ owner \in {"use", "notify", "exit", "join", "gone"}
    /\ status \in [Tasks -> {"new", "refused", "queued", "running", "done"}]
    /\ \A w \in Workers : task[w] # None <=> pc[w] \in {"run", "notify"}

\* Workers that will look at the queue, and notifications that will be sent.
Coming == Cardinality({w \in Workers : pc[w] \in {"lock", "notify"}})
            + (IF owner = "notify" THEN 1 ELSE 0)

\* submit() against work(): no worker sleeps while the queue holds more tasks than
\* there are workers about to look at it and notifications about to be sent; one
\* notification for each task is enough, and none is lost.
SleepersNotNeeded == Sleepers # {} => Len(tasks) <= Coming

\* The destructor: when it returns, every task the pool has accepted has run to its
\* end, those submitted by tasks while the pool was ending included.
DestroyedMeansDrained ==
    owner = "gone" => \A k \in Tasks : status[k] \in {"new", "refused", "done"}

\* Every accepted task runs, and the destructor returns.
PoolProgress ==
    /\ \A k \in Tasks : status[k] = "queued" ~> status[k] = "done"
    /\ owner = "exit" ~> owner = "gone"
=============================================================================
