--------------------------- MODULE FunctorExecutor ---------------------------
(***************************************************************************)
(* What muduo-mgkl's EventLoop promises to the threads that hand it work:  *)
(* callbacks given to queueInLoop are executed by one thread, in the order *)
(* in which they were queued, each at most once, and none waits for ever   *)
(* unless the loop has been told to quit (include/EventLoop.hpp:40 "put    *)
(* the callback in the queue, wake the loop's thread and execute it").     *)
(***************************************************************************)
EXTENDS Sequences

CONSTANT Functors      \* the callbacks that can be queued

VARIABLES queue,       \* callbacks queued and not yet executed
          executed,    \* callbacks executed, in order
          stopping     \* the loop has been asked to quit

vars == <<queue, executed, stopping>>

Init == queue = <<>> /\ executed = <<>> /\ stopping = FALSE

\* Some thread hands over a callback.
Post(f) ==
    /\ queue' = Append(queue, f)
    /\ UNCHANGED <<executed, stopping>>

\* The executor takes the oldest callback.
Execute ==
    /\ queue # <<>>
    /\ executed' = Append(executed, Head(queue))
    /\ queue' = Tail(queue)
    /\ UNCHANGED stopping

\* The executor is told to quit; a request made before loop() is entered is
\* forgotten, see EventLoop!EnterLoop.
SetStopping(b) ==
    /\ stopping' = b
    /\ UNCHANGED <<queue, executed>>

Next ==
    \/ \E f \in Functors : Post(f)
    \/ Execute
    \/ \E b \in BOOLEAN : SetStopping(b)

Safety == Init /\ [][Next]_vars

Spec == Safety /\ WF_vars(Execute /\ ~stopping)
=============================================================================
