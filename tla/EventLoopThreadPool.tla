------------------------- MODULE EventLoopThreadPool -------------------------
(***************************************************************************)
(* muduo-mgkl: EventLoopThreadPool starts numThreads EventLoopThreads one  *)
(* after the other, hands out their loops in turn (getNextLoop), and its   *)
(* destructor stops and joins them one after the other.  One owner thread  *)
(* calls all of that; each EventLoopThread runs threadFunc, which has an   *)
(* EventLoop on its stack and publishes its address in loop_.              *)
(*                                                                         *)
(* The inside of a loop is module EventLoop: here it is its quit_ flag,    *)
(* the fact that loop() clears that flag on entry, and the property        *)
(* QuitStopsRunningLoop (a loop that is running and is told to quit        *)
(* leaves).                                                                *)
(***************************************************************************)
EXTENDS Naturals

CONSTANTS
    NumThreads,   \* numThreads_
    MaxServed     \* bound on the calls of getNextLoop

ASSUME PoolAssumption == NumThreads \in Nat /\ MaxServed \in Nat

VARIABLES
    opc,       \* where the owner thread is
    cur,       \* the EventLoopThread the owner is starting or destroying
    tpc,       \* where each EventLoopThread's thread is
    loop_,     \* loop_ # nullptr, per EventLoopThread
    alive,     \* the EventLoop on the thread's stack exists
    quit,      \* its quit_
    started,   \* how many loops the pool has: the size of loops_
    next,      \* next_
    served,    \* history: how often getNextLoop returned each loop
    selfQuit,  \* history: threads whose loop a callback of its own made quit
    fault      \* the owner used a loop that no longer existed

vars == <<opc, cur, tpc, loop_, alive, quit, started, next, served, selfQuit,
          fault>>
ownerVars == <<opc, cur, started, next, served, fault>>

EventLoopThreads == 1..NumThreads
OwnerPC == {"start", "tid", "wait", "asleep", "ready", "check", "quit",
            "wakeup", "join", "gone", "crashed"}
ThreadPC == {"new", "tid", "construct", "publish", "enter", "loop", "clear",
             "unwind", "done"}

\* The base loop is served when the pool has no thread of its own.
BaseLoop == 0

Init ==
    /\ opc = "start" /\ cur = 1
    /\ tpc = [i \in EventLoopThreads |-> "new"]
    /\ loop_ = [i \in EventLoopThreads |-> FALSE]
    /\ alive = [i \in EventLoopThreads |-> FALSE]
    /\ quit = [i \in EventLoopThreads |-> FALSE]
    /\ started = 0 /\ next = 0
    /\ served = [i \in {BaseLoop} \union EventLoopThreads |-> 0]
    /\ selfQuit = {}
    /\ fault = FALSE

-----------------------------------------------------------------------------
(* The owner: start().                                                     *)

\* Thread::start() creates the thread ...
StartThread ==
    /\ opc = "start" /\ cur <= NumThreads
    /\ tpc' = [tpc EXCEPT ![cur] = "tid"]
    /\ opc' = "tid"
    /\ UNCHANGED <<cur, loop_, alive, quit, started, next, served, selfQuit, fault>>

\* ... and waits on a semaphore until the thread has stored its tid_.
TidKnown ==
    /\ opc = "tid" /\ tpc[cur] # "tid"
    /\ opc' = "wait"
    /\ UNCHANGED <<cur, tpc, loop_, alive, quit, started, next, served,
                   selfQuit, fault>>

\* Bug: any wakeup is taken for the notification.
BugWaitWithoutPredicate ==
    /\ opc = "wait"
    /\ started' = started + 1
    /\ cur' = cur + 1
    /\ opc' = "start"
    /\ UNCHANGED <<tpc, loop_, alive, quit, next, served, selfQuit, fault>>

\* startLoop(): the predicate is tested under mutex_; waiting releases it.
WaitForLoop ==
    /\ opc = "wait"
    /\ IF loop_[cur]
       THEN /\ started' = started + 1
            /\ cur' = cur + 1
            /\ opc' = "start"
       ELSE /\ opc' = "asleep"
            /\ UNCHANGED <<started, cur>>
    /\ UNCHANGED <<tpc, loop_, alive, quit, next, served, selfQuit, fault>>

\* A condition variable may wake up without having been notified.
SpuriousWakeup ==
    /\ opc = "asleep"
    /\ opc' = "wait"
    /\ UNCHANGED <<cur, tpc, loop_, alive, quit, started, next, served,
                   selfQuit, fault>>

\* start() returns once every thread is started.
StartReturns ==
    /\ opc = "start" /\ cur > NumThreads
    /\ opc' = "ready"
    /\ UNCHANGED <<cur, tpc, loop_, alive, quit, started, next, served,
                   selfQuit, fault>>

Serve(l) == served' = [served EXCEPT ![l] = @ + 1]

\* getNextLoop(): loops_[next_], and next_ goes round.
GetNextLoop ==
    /\ opc = "ready" /\ served[BaseLoop] < MaxServed
    /\ IF started = 0
       THEN Serve(BaseLoop) /\ UNCHANGED next
       ELSE /\ served[next + 1] < MaxServed
            /\ Serve(next + 1)
            /\ next' = IF next + 1 >= started THEN 0 ELSE next + 1
    /\ UNCHANGED <<opc, cur, tpc, loop_, alive, quit, started, selfQuit, fault>>

-----------------------------------------------------------------------------
(* The owner: the destructor, one EventLoopThread at a time.               *)

\* The pool is destroyed.
Destroy ==
    /\ opc = "ready"
    /\ opc' = "check" /\ cur' = 1
    /\ UNCHANGED <<tpc, loop_, alive, quit, started, next, served, selfQuit, fault>>

\* ~EventLoopThread(): if loop_ is null there is nothing to join, and
\* ~Thread() detaches the thread.  loop_ is read without mutex_.
CheckLoop ==
    /\ opc = "check"
    /\ \/ cur > NumThreads /\ opc' = "gone" /\ UNCHANGED cur
       \/ cur <= NumThreads /\ loop_[cur] /\ opc' = "quit" /\ UNCHANGED cur
       \/ cur <= NumThreads /\ ~loop_[cur] /\ cur' = cur + 1 /\ UNCHANGED opc
    /\ UNCHANGED <<tpc, loop_, alive, quit, started, next, served, selfQuit, fault>>

\* Bug: the destructor wakes the loop without telling it to quit.
BugQuitLoopForgotten ==
    /\ opc = "quit"
    /\ opc' = IF loop_[cur] THEN "wakeup" ELSE "crashed"
    /\ fault' = ~loop_[cur]
    /\ UNCHANGED <<cur, tpc, loop_, alive, quit, started, next, served, selfQuit>>

\* loop_->quit(): loop_ is read again, and quit_ of that EventLoop is set ...
QuitLoop ==
    /\ opc = "quit"
    /\ IF loop_[cur]
       THEN /\ quit' = [quit EXCEPT ![cur] = TRUE]
            /\ opc' = "wakeup"
            /\ UNCHANGED fault
       ELSE /\ fault' = TRUE
            /\ opc' = "crashed"
            /\ UNCHANGED quit
    /\ UNCHANGED <<cur, tpc, loop_, alive, started, next, served, selfQuit>>

\* ... before quit() goes on to wakeup(), which uses the EventLoop again.
WakeupLoop ==
    /\ opc = "wakeup"
    /\ fault' = ~alive[cur]
    /\ opc' = IF alive[cur] THEN "join" ELSE "crashed"
    /\ UNCHANGED <<cur, tpc, loop_, alive, quit, started, next, served, selfQuit>>

\* Bug: the destructor does not wait for the thread.
BugJoinSkipped ==
    /\ opc = "join"
    /\ opc' = "check" /\ cur' = cur + 1
    /\ UNCHANGED <<tpc, loop_, alive, quit, started, next, served, selfQuit, fault>>

\* thread_.join().
Join ==
    /\ opc = "join" /\ tpc[cur] = "done"
    /\ opc' = "check" /\ cur' = cur + 1
    /\ UNCHANGED <<tpc, loop_, alive, quit, started, next, served, selfQuit, fault>>

-----------------------------------------------------------------------------
(* A thread.                                                               *)

\* The thread stores its tid_ and posts the semaphore.
PostTid(i) ==
    /\ tpc[i] = "tid"
    /\ tpc' = [tpc EXCEPT ![i] = "construct"]
    /\ UNCHANGED <<ownerVars, loop_, alive, quit, selfQuit>>

\* threadFunc(): the EventLoop is constructed, the initial callback is called.
ConstructLoop(i) ==
    /\ tpc[i] = "construct"
    /\ alive' = [alive EXCEPT ![i] = TRUE]
    /\ quit' = [quit EXCEPT ![i] = FALSE]
    /\ tpc' = [tpc EXCEPT ![i] = "publish"]
    /\ UNCHANGED <<ownerVars, loop_, selfQuit>>

\* Bug: the condition variable is not notified.
BugPublishSilently(i) ==
    /\ tpc[i] = "publish"
    /\ loop_' = [loop_ EXCEPT ![i] = TRUE]
    /\ tpc' = [tpc EXCEPT ![i] = "enter"]
    /\ UNCHANGED <<ownerVars, alive, quit, selfQuit>>

\* loop_ = &loop and notify_one(), under mutex_.
PublishLoop(i) ==
    /\ tpc[i] = "publish"
    /\ loop_' = [loop_ EXCEPT ![i] = TRUE]
    /\ opc' = IF opc = "asleep" /\ cur = i THEN "wait" ELSE opc
    /\ tpc' = [tpc EXCEPT ![i] = "enter"]
    /\ UNCHANGED <<cur, started, next, served, fault, alive, quit, selfQuit>>

\* loop.loop() is entered and clears quit_.
EnterLoop(i) ==
    /\ tpc[i] = "enter"
    /\ quit' = [quit EXCEPT ![i] = FALSE]
    /\ tpc' = [tpc EXCEPT ![i] = "loop"]
    /\ UNCHANGED <<ownerVars, loop_, alive, selfQuit>>

\* A callback running in the loop makes it quit.
SelfQuit(i) ==
    /\ tpc[i] = "loop"
    /\ quit' = [quit EXCEPT ![i] = TRUE]
    /\ selfQuit' = selfQuit \union {i}
    /\ UNCHANGED <<ownerVars, tpc, loop_, alive>>

\* loop() returns.
LeaveLoop(i) ==
    /\ tpc[i] = "loop" /\ quit[i]
    /\ tpc' = [tpc EXCEPT ![i] = "clear"]
    /\ UNCHANGED <<ownerVars, loop_, alive, quit, selfQuit>>

\* loop_ = nullptr, under mutex_.
ClearLoop(i) ==
    /\ tpc[i] = "clear"
    /\ loop_' = [loop_ EXCEPT ![i] = FALSE]
    /\ tpc' = [tpc EXCEPT ![i] = "unwind"]
    /\ UNCHANGED <<ownerVars, alive, quit, selfQuit>>

\* threadFunc() returns: its EventLoop is destroyed and the thread ends.
Unwind(i) ==
    /\ tpc[i] = "unwind"
    /\ alive' = [alive EXCEPT ![i] = FALSE]
    /\ tpc' = [tpc EXCEPT ![i] = "done"]
    /\ UNCHANGED <<ownerVars, loop_, quit, selfQuit>>

-----------------------------------------------------------------------------
\* The steps the owner takes once it is inside start() or the destructor.
OwnerProgress ==
    \/ StartThread \/ TidKnown \/ WaitForLoop \/ StartReturns
    \/ CheckLoop \/ QuitLoop \/ WakeupLoop \/ Join

OwnerNext == OwnerProgress \/ SpuriousWakeup \/ GetNextLoop \/ Destroy

ThreadProgress(i) ==
    \/ PostTid(i) \/ ConstructLoop(i) \/ PublishLoop(i) \/ EnterLoop(i)
    \/ LeaveLoop(i) \/ ClearLoop(i) \/ Unwind(i)

Next ==
    \/ OwnerNext
    \/ \E i \in EventLoopThreads : ThreadProgress(i) \/ SelfQuit(i)

\* Every thread is scheduled; no callback is obliged to quit a loop, no
\* spurious wakeup has to come, and the pool need not be used or destroyed.
Fairness ==
    /\ WF_vars(OwnerProgress)
    /\ \A i \in EventLoopThreads : WF_vars(ThreadProgress(i))

Spec == Init /\ [][Next]_vars /\ Fairness

-----------------------------------------------------------------------------
TypeOK ==
    /\ opc \in OwnerPC /\ cur \in 1..(NumThreads + 1)
    /\ tpc \in [EventLoopThreads -> ThreadPC]
    /\ loop_ \in [EventLoopThreads -> BOOLEAN]
    /\ alive \in [EventLoopThreads -> BOOLEAN]
    /\ quit \in [EventLoopThreads -> BOOLEAN]
    /\ started \in 0..NumThreads
    /\ next \in Nat /\ (next = 0 \/ next < started)
    /\ served \in [{BaseLoop} \union EventLoopThreads -> 0..MaxServed]
    /\ selfQuit \in SUBSET EventLoopThreads
    /\ fault \in BOOLEAN

\* startLoop(): every pointer in loops_ was published by a thread whose
\* EventLoop existed, and it still exists unless that loop was told to quit.
StartedLoopsExist ==
    \A i \in 1..started : quit[i] \/ (alive[i] /\ loop_[i])

\* getNextLoop(): the loops are served in turn, so no loop gets two
\* connections more than another.
RoundRobin ==
    \A i, j \in 1..started : served[i] <= served[j] + 1

\* When the pool is gone no thread of it is running, except one whose loop a
\* callback of its own made quit: that one may have been detached.
GoneMeansJoined ==
    opc = "gone" =>
        \A i \in EventLoopThreads \ selfQuit : tpc[i] = "done" /\ ~alive[i]

\* start() returns: the notification of loop_ cannot be missed.  Only a loop
\* that a callback made quit before the owner looked at loop_ (it is null
\* again) leaves startLoop() waiting.
StartTerminates == (opc = "start") ~> (opc = "ready" \/ cur \in selfQuit)

\* Destroying a pool whose threads have all entered loop() returns, unless it
\* crashes on a loop that is gone.
DestroyTerminatesWhenLooping ==
    (/\ opc = "check" /\ cur = 1
     /\ \A i \in EventLoopThreads : tpc[i] \notin {"publish", "enter"})
        ~> (opc = "gone" \/ fault)

\* include/EventLoop.hpp:30 "exit the event loop": the quit() of the
\* destructor ends the thread it then joins.
QuitEndsThread == (opc = "join") ~> (opc # "join")

\* src/EventLoop.cpp:87-88 "if another thread calls quit, the reactor will be
\* woken": the EventLoop exists as long as the destructor's quit() is working on
\* it, between the store to quit_ and the end of wakeup().
QuitWakesLiveLoop == opc = "wakeup" => alive[cur]
=============================================================================
