------------------------------ MODULE EventLoop ------------------------------
(***************************************************************************)
(* muduo-mgkl, src/EventLoop.cpp: one reactor thread and the other threads *)
(* that hand it callbacks (runInLoop, queueInLoop) or stop it (quit).      *)
(*                                                                         *)
(* The loop's thread sleeps in epoll_wait.  Whoever leaves work for it must*)
(* write its eventfd (wakeup), and handleRead empties that eventfd again,  *)
(* so the question is whether work can be left while the thread sleeps and *)
(* nothing is there to wake it.  Each action is the code between two points*)
(* at which another thread can observe or change shared state: mutex_ makes*)
(* the push and the swap single steps, the write to the eventfd that       *)
(* follows a push or a quit is a step of its own.                          *)
(***************************************************************************)
EXTENDS Naturals, Sequences

CONSTANTS
    Threads,       \* threads other than the loop's own
    Functors,      \* callbacks; each is handed over at most once
    MaxEventfd     \* largest value of the eventfd counter (2^64 - 2 in Linux)

ASSUME MaxEventfdAssumption == MaxEventfd \in Nat \ {0}

VARIABLES
    pendingFunctors,  \* pendingFunctors_, guarded by mutex_
    functors,         \* what is left of doPendingFunctors' local vector
    calling,          \* callingPendingFunctors_
    quit,             \* quit_
    looping,          \* looping_
    eventfd,          \* the counter of wakeupFd_
    active,           \* what is left of activeChannels_
    pc,               \* where the loop's thread is
    tpc,              \* where each other thread is
    pushed,           \* history: callbacks in the order of their push
    ran,              \* history: queued callbacks in the order they ran
    inlined,          \* history: callbacks runInLoop called directly
    early             \* history: callbacks the loop's own thread queued before
                      \* it called loop()

loopVars == <<functors, calling, looping, active, pc, ran, inlined, early>>
vars == <<pendingFunctors, functors, calling, quit, looping, eventfd, active,
          pc, tpc, pushed, ran, inlined, early>>

\* The channels of the loop's poller: its own wakeupChannel_, and "io", which
\* stands for the channels whose handlers are user code.
Channels == {"wakeup", "io"}

LoopPC == {"out", "test", "poll", "handle", "callback", "selfwake", "pending",
           "run", "stopped"}

\* A callback is used up once it has been queued or called.
Fresh == {f \in Functors \ inlined : \A i \in 1..Len(pushed) : pushed[i] # f}

Init ==
    /\ pendingFunctors = <<>>
    /\ functors = <<>>
    /\ calling = FALSE
    /\ quit = FALSE
    /\ looping = FALSE
    /\ eventfd = 0
    /\ active = {}
    /\ pc = "out"
    /\ tpc = [t \in Threads |-> "idle"]
    /\ pushed = <<>>
    /\ ran = <<>>
    /\ inlined = {}
    /\ early = {}

-----------------------------------------------------------------------------
\* Each Bug... operator is a variant of the definition after it that some run
\* must refute; none is part of the specification.

\* wakeup(): a write to a full non-blocking eventfd fails and is only logged.
Wakeup == eventfd' = IF eventfd < MaxEventfd THEN eventfd + 1 ELSE eventfd

\* The critical section of queueInLoop().
Push(f) ==
    /\ pendingFunctors' = Append(pendingFunctors, f)
    /\ pushed' = Append(pushed, f)

\* queueInLoop() in another thread, which is also what runInLoop() does there.
ThreadQueueInLoop(t, f) ==
    /\ tpc[t] = "idle"
    /\ Push(f)
    /\ tpc' = [tpc EXCEPT ![t] = "wake"]
    /\ UNCHANGED <<loopVars, quit, eventfd>>

\* Bug: quit() that leaves the loop asleep.
BugThreadQuitSilent(t) ==
    /\ tpc[t] = "idle"
    /\ quit' = TRUE
    /\ UNCHANGED <<loopVars, tpc, pendingFunctors, pushed, eventfd>>

\* quit() in another thread.
ThreadQuit(t) ==
    /\ tpc[t] = "idle"
    /\ quit' = TRUE
    /\ tpc' = [tpc EXCEPT ![t] = "wake"]
    /\ UNCHANGED <<loopVars, pendingFunctors, pushed, eventfd>>

\* The wakeup() at the end of either: isInLoopThread() is false.
ThreadWakeup(t) ==
    /\ tpc[t] = "wake"
    /\ Wakeup
    /\ tpc' = [tpc EXCEPT ![t] = "idle"]
    /\ UNCHANGED <<loopVars, quit, pendingFunctors, pushed>>

-----------------------------------------------------------------------------
\* loop() is entered; it clears a quit_ that was set before.
EnterLoop ==
    /\ pc = "out"
    /\ looping' = TRUE
    /\ quit' = FALSE
    /\ pc' = "test"
    /\ UNCHANGED <<pendingFunctors, functors, calling, eventfd, active, tpc,
                   pushed, ran, inlined, early>>

\* while (!quit_), and activeChannels_.clear() before the poll.
TestQuit ==
    /\ pc = "test"
    /\ pc' = IF quit THEN "stopped" ELSE "poll"
    /\ looping' = ~quit
    /\ active' = {}
    /\ UNCHANGED <<pendingFunctors, functors, calling, quit, eventfd, tpc,
                   pushed, ran, inlined, early>>

\* epoll_wait returns: a readable eventfd is always among the active channels,
\* user channels may be, and an empty set is a timeout or EINTR.
Poll(ready) ==
    /\ pc = "poll"
    /\ "wakeup" \in ready <=> eventfd > 0
    /\ active' = ready
    /\ pc' = "handle"
    /\ UNCHANGED <<pendingFunctors, functors, calling, quit, looping, eventfd,
                   tpc, pushed, ran, inlined, early>>

\* handleRead(): the handler of wakeupChannel_ empties the eventfd.
HandleRead ==
    /\ pc = "handle" /\ "wakeup" \in active
    /\ eventfd' = 0
    /\ active' = active \ {"wakeup"}
    /\ UNCHANGED <<pendingFunctors, functors, calling, quit, looping, pc, tpc,
                   pushed, ran, inlined, early>>

\* The handler of another channel starts.
HandleIO ==
    /\ pc = "handle" /\ "io" \in active
    /\ active' = active \ {"io"}
    /\ pc' = "callback"
    /\ UNCHANGED <<pendingFunctors, functors, calling, quit, looping, eventfd,
                   tpc, pushed, ran, inlined, early>>

\* The active channels are done.
EndHandle ==
    /\ pc = "handle" /\ active = {}
    /\ pc' = "pending"
    /\ UNCHANGED <<pendingFunctors, functors, calling, quit, looping, eventfd,
                   active, tpc, pushed, ran, inlined, early>>

\* Bug: the batch is a copy of pendingFunctors_ instead of a swap.
BugSwapCopies ==
    /\ pc = "pending"
    /\ calling' = TRUE
    /\ functors' = pendingFunctors
    /\ pc' = "run"
    /\ UNCHANGED <<pendingFunctors, quit, looping, eventfd, active, tpc, pushed,
                   ran, inlined, early>>

\* doPendingFunctors() up to the end of its critical section.  The flag is only
\* read by this thread, so setting it and the swap are one step.
SwapPending ==
    /\ pc = "pending"
    /\ calling' = TRUE
    /\ functors' = pendingFunctors
    /\ pendingFunctors' = <<>>
    /\ pc' = "run"
    /\ UNCHANGED <<quit, looping, eventfd, active, tpc, pushed, ran, inlined, early>>

\* Bug: the batch is taken from its end.
BugRunLastFunctor ==
    /\ pc = "run" /\ functors # <<>>
    /\ ran' = Append(ran, functors[Len(functors)])
    /\ functors' = SubSeq(functors, 1, Len(functors) - 1)
    /\ pc' = "callback"
    /\ UNCHANGED <<pendingFunctors, calling, quit, looping, eventfd, active,
                   tpc, pushed, inlined, early>>

\* The next functor of the batch is called.
RunFunctor ==
    /\ pc = "run" /\ functors # <<>>
    /\ ran' = Append(ran, Head(functors))
    /\ functors' = Tail(functors)
    /\ pc' = "callback"
    /\ UNCHANGED <<pendingFunctors, calling, quit, looping, eventfd, active,
                   tpc, pushed, inlined, early>>

\* The batch is done.
EndPending ==
    /\ pc = "run" /\ functors = <<>>
    /\ calling' = FALSE
    /\ pc' = "test"
    /\ UNCHANGED <<pendingFunctors, functors, quit, looping, eventfd, active,
                   tpc, pushed, ran, inlined, early>>

-----------------------------------------------------------------------------
(* What user code running in the loop's thread may do: in a handler or a   *)
(* functor, or before loop() (main, or the ThreadInitCallback that         *)
(* EventLoopThread.cpp:38 calls).                                          *)
InUserCode == pc \in {"out", "callback"}

\* queueInLoop() from the loop's own thread: the push.
LoopQueueInLoop(f) ==
    /\ InUserCode
    /\ Push(f)
    /\ early' = IF pc = "out" THEN early \union {f} ELSE early
    /\ pc' = "selfwake"
    /\ UNCHANGED <<functors, calling, quit, looping, eventfd, active, tpc, ran,
                   inlined>>

\* Bug: the loop's own thread never wakes itself.
BugLoopNeverWakesItself ==
    /\ pc = "selfwake"
    /\ pc' = IF looping THEN "callback" ELSE "out"
    /\ UNCHANGED <<pendingFunctors, functors, calling, quit, looping, eventfd,
                   active, tpc, pushed, ran, inlined, early>>

\* ... and its last test: the loop's own thread writes the eventfd only while
\* it is running pending functors, so not before loop().
LoopWakeup ==
    /\ pc = "selfwake"
    /\ IF calling THEN Wakeup ELSE UNCHANGED eventfd
    /\ pc' = IF looping THEN "callback" ELSE "out"
    /\ UNCHANGED <<pendingFunctors, functors, calling, quit, looping, active,
                   tpc, pushed, ran, inlined, early>>

\* runInLoop() in the loop's own thread calls the callback at once.
LoopRunInLoop(f) ==
    /\ InUserCode
    /\ inlined' = inlined \union {f}
    /\ UNCHANGED <<pendingFunctors, functors, calling, quit, looping, eventfd,
                   active, pc, tpc, pushed, ran, early>>

\* quit() in the loop's own thread needs no wakeup; before loop() it is
\* forgotten, see EnterLoop.
LoopQuit ==
    /\ InUserCode
    /\ quit' = TRUE
    /\ UNCHANGED <<pendingFunctors, functors, calling, looping, eventfd,
                   active, pc, tpc, pushed, ran, inlined, early>>

\* The handler or functor returns to the loop that called it.
EndCallback ==
    /\ pc = "callback"
    /\ pc' = IF calling THEN "run" ELSE "handle"
    /\ UNCHANGED <<pendingFunctors, functors, calling, quit, looping, eventfd,
                   active, tpc, pushed, ran, inlined, early>>

-----------------------------------------------------------------------------
ThreadNext(t) ==
    \/ \E f \in Fresh : ThreadQueueInLoop(t, f)
    \/ ThreadQuit(t)
    \/ ThreadWakeup(t)

\* The steps the loop's thread takes by itself.
LoopProgress ==
    \/ EnterLoop \/ TestQuit
    \/ HandleRead \/ HandleIO \/ EndHandle
    \/ SwapPending \/ RunFunctor \/ EndPending
    \/ LoopWakeup \/ EndCallback

LoopNext ==
    \/ LoopProgress
    \/ \E ready \in SUBSET Channels : Poll(ready)
    \/ \E f \in Fresh : LoopQueueInLoop(f) \/ LoopRunInLoop(f)
    \/ LoopQuit

Next == LoopNext \/ \E t \in Threads : ThreadNext(t)

\* Early callbacks are still in the queue.
EarlyPending == \E i \in 1..Len(pendingFunctors) : pendingFunctors[i] \in early

\* A running thread is scheduled, user callbacks return, and epoll_wait returns
\* once the eventfd is readable.  Of the poll's timeout (kPollTimeMs, 100 s) it
\* is only assumed that it ends a poll during which early callbacks wait: all
\* other work must get through without it.  Nothing is assumed of the other
\* channels, and no thread is obliged to queue or to quit.
Fairness ==
    /\ WF_vars(LoopProgress)
    /\ WF_vars(\E ready \in SUBSET Channels :
                  (eventfd > 0 \/ EarlyPending) /\ Poll(ready))
    /\ \A t \in Threads : WF_vars(ThreadWakeup(t))

Spec == Init /\ [][Next]_vars /\ Fairness

-----------------------------------------------------------------------------
TypeOK ==
    /\ pendingFunctors \in Seq(Functors)
    /\ functors \in Seq(Functors)
    /\ calling \in BOOLEAN /\ quit \in BOOLEAN /\ looping \in BOOLEAN
    /\ eventfd \in 0..MaxEventfd
    /\ active \in SUBSET Channels
    /\ pc \in LoopPC
    /\ tpc \in [Threads -> {"idle", "wake"}]
    /\ pushed \in Seq(Functors) /\ ran \in Seq(Functors)
    /\ inlined \in SUBSET Functors /\ early \in SUBSET Functors

\* Something will end the poll: the eventfd is readable, or a thread is about
\* to write it.
WakeupComing == eventfd > 0 \/ \E t \in Threads : tpc[t] = "wake"

\* Every callback of the queue was queued by the loop's own thread before
\* loop().
OnlyEarly == \A i \in 1..Len(pendingFunctors) : pendingFunctors[i] \in early

\* No lost wakeup (queueInLoop and quit against loop): while the loop's thread
\* sleeps in epoll_wait, a quit_ or callbacks left for it always have a wakeup
\* on its way.  The exception is in the code: callbacks its own thread queued
\* before loop() get none (the test at EventLoop.cpp:108), although
\* EventLoop.hpp:40 says that queueInLoop wakes the loop's thread, and sleep
\* with it until anything else ends the poll.
NoLostWakeup == pc = "poll" /\ (~OnlyEarly \/ quit) => WakeupComing

\* The strengthening that makes NoLostWakeup inductive.  From the swap until
\* the next poll returns, callbacks left in pendingFunctors_ are early ones,
\* already have their wakeup, or the loop's own thread has just pushed one and,
\* callingPendingFunctors_ being set, is about to write the eventfd.  Outside
\* loop() there is no batch, and user code runs there as "out".
CallingInBatch ==
    /\ pc = "run" => calling
    /\ pc \notin {"run", "callback", "selfwake"} => ~calling
    /\ ~calling => functors = <<>>
    /\ looping => pc # "out"
    /\ ~looping => ~calling /\ pc \in {"out", "selfwake", "stopped"}
PendingCovered ==
    pc \in {"test", "poll"} \/ calling \/ ~looping =>
        \/ OnlyEarly
        \/ WakeupComing
        \/ pc = "selfwake" /\ calling
QuitCovered == pc = "poll" /\ quit => WakeupComing

WakeupInv == TypeOK /\ CallingInBatch /\ PendingCovered /\ QuitCovered

\* doPendingFunctors against queueInLoop: at every moment the callbacks that
\* ran, those left in the batch and those still pending are, in this order,
\* exactly the callbacks pushed: none is lost, doubled or overtaken, whichever
\* thread pushed it and whatever the loop was doing.
InPushOrder == pushed = ran \o functors \o pendingFunctors

\* A queued callback is executed unless the loop is told to quit; an early one
\* may have to wait for the timeout of the first poll.
QueuedRunsUnlessQuit ==
    \A f \in Functors :
        (\E i \in 1..Len(pushed) : pushed[i] = f)
            ~> quit \/ (\E i \in 1..Len(ran) : ran[i] = f)

\* quit() on a running loop, from whatever thread, makes loop() return.
QuitStopsRunningLoop == (quit /\ looping) ~> (pc = "stopped")

\* EventLoop implements the executor its users rely on.
Executor == INSTANCE FunctorExecutor
              WITH queue <- functors \o pendingFunctors,
                   executed <- ran, stopping <- quit

ImplementsExecutor == Executor!Spec
=============================================================================
