--------------------------- MODULE EventLoopProofs ---------------------------
(***************************************************************************)
(* What EventLoop guarantees for any number of threads and callbacks and   *)
(* any capacity of the eventfd, proved with TLAPS.                         *)
(***************************************************************************)
EXTENDS EventLoop, TLAPS

\* The actions, with their parameters bound, for the case splits below.
USE DEF loopVars

\* Every field keeps its type, and the eventfd never exceeds its maximum: each
\* action of the loop's thread and of the other threads.
THEOREM TypeCorrect == Spec => []TypeOK
<1>1. Init => TypeOK
  <2> SUFFICES ASSUME Init PROVE TypeOK
    OBVIOUS
  <2>1. eventfd \in 0..MaxEventfd
    BY MaxEventfdAssumption DEF Init, MaxEventfdAssumption
  <2>2. tpc \in [Threads -> {"idle", "wake"}]
    BY DEF Init
  <2>3. /\ pendingFunctors \in Seq(Functors) /\ functors \in Seq(Functors)
        /\ pushed \in Seq(Functors) /\ ran \in Seq(Functors)
    BY DEF Init
  <2>4. /\ calling \in BOOLEAN /\ quit \in BOOLEAN /\ looping \in BOOLEAN
        /\ active \in SUBSET Channels /\ inlined \in SUBSET Functors
        /\ early \in SUBSET Functors /\ pc \in LoopPC
    BY DEF Init, LoopPC
  <2> QED
    BY <2>1, <2>2, <2>3, <2>4 DEF TypeOK
<1>2. TypeOK /\ [Next]_vars => TypeOK'
  <2> SUFFICES ASSUME TypeOK, [Next]_vars PROVE TypeOK'
    OBVIOUS
  <2> USE MaxEventfdAssumption DEF MaxEventfdAssumption, TypeOK, LoopPC
  <2>1. ASSUME NEW t \in Threads, NEW f \in Fresh, ThreadQueueInLoop(t, f)
        PROVE  TypeOK'
    BY <2>1 DEF ThreadQueueInLoop, Push, Fresh
  <2>2. ASSUME NEW t \in Threads, ThreadQuit(t) PROVE TypeOK'
    BY <2>2 DEF ThreadQuit
  <2>3. ASSUME NEW t \in Threads, ThreadWakeup(t) PROVE TypeOK'
    BY <2>3 DEF ThreadWakeup, Wakeup
  <2>4. CASE EnterLoop
    BY <2>4 DEF EnterLoop
  <2>5. CASE TestQuit
    BY <2>5 DEF TestQuit
  <2>6. ASSUME NEW ready \in SUBSET Channels, Poll(ready) PROVE TypeOK'
    BY <2>6 DEF Poll
  <2>7. CASE HandleRead
    BY <2>7 DEF HandleRead
  <2>8. CASE HandleIO
    BY <2>8 DEF HandleIO
  <2>9. CASE EndHandle
    BY <2>9 DEF EndHandle
  <2>10. CASE SwapPending
    BY <2>10 DEF SwapPending
  <2>11. CASE RunFunctor
    BY <2>11 DEF RunFunctor
  <2>12. CASE EndPending
    BY <2>12 DEF EndPending
  <2>13. ASSUME NEW f \in Fresh, LoopQueueInLoop(f) PROVE TypeOK'
    BY <2>13 DEF LoopQueueInLoop, Push, Fresh
  <2>14. CASE LoopWakeup
    BY <2>14 DEF LoopWakeup, Wakeup
  <2>15. ASSUME NEW f \in Fresh, LoopRunInLoop(f) PROVE TypeOK'
    BY <2>15 DEF LoopRunInLoop, Fresh
  <2>16. CASE LoopQuit
    BY <2>16 DEF LoopQuit
  <2>17. CASE EndCallback
    BY <2>17 DEF EndCallback
  <2>18. CASE UNCHANGED vars
    BY <2>18 DEF vars
  <2> QED
    BY <2>1, <2>2, <2>3, <2>4, <2>5, <2>6, <2>7, <2>8, <2>9, <2>10, <2>11,
       <2>12, <2>13, <2>14, <2>15, <2>16, <2>17, <2>18
       DEF Next, LoopNext, LoopProgress, ThreadNext
<1> QED
  BY <1>1, <1>2, PTL DEF Spec

-----------------------------------------------------------------------------
\* The wakeup invariant: the strengthening of NoLostWakeup is inductive.
LEMMA WakeupInductive ==
  ASSUME TypeOK, TypeOK', CallingInBatch, PendingCovered, QuitCovered, [Next]_vars
  PROVE  CallingInBatch' /\ PendingCovered' /\ QuitCovered'
<1> USE MaxEventfdAssumption
    DEF TypeOK, LoopPC, MaxEventfdAssumption, CallingInBatch, PendingCovered,
        QuitCovered, WakeupComing, OnlyEarly, InUserCode
<1>1. ASSUME NEW t \in Threads, NEW f \in Fresh, ThreadQueueInLoop(t, f)
      PROVE  CallingInBatch' /\ PendingCovered' /\ QuitCovered'
  <2>1. tpc'[t] = "wake"
    BY <1>1 DEF ThreadQueueInLoop
  <2> QED
    BY <1>1, <2>1 DEF ThreadQueueInLoop
<1>2. ASSUME NEW t \in Threads, ThreadQuit(t)
      PROVE  CallingInBatch' /\ PendingCovered' /\ QuitCovered'
  <2>1. tpc'[t] = "wake"
    BY <1>2 DEF ThreadQuit
  <2> QED
    BY <1>2, <2>1 DEF ThreadQuit
<1>3. ASSUME NEW t \in Threads, ThreadWakeup(t)
      PROVE  CallingInBatch' /\ PendingCovered' /\ QuitCovered'
  <2>1. eventfd' > 0
    BY <1>3 DEF ThreadWakeup, Wakeup
  <2> QED
    BY <1>3, <2>1 DEF ThreadWakeup
<1>4. CASE EnterLoop
  BY <1>4 DEF EnterLoop
<1>5. CASE TestQuit
  BY <1>5 DEF TestQuit
<1>6. ASSUME NEW ready \in SUBSET Channels, Poll(ready)
      PROVE  CallingInBatch' /\ PendingCovered' /\ QuitCovered'
  BY <1>6 DEF Poll
<1>7. CASE HandleRead
  BY <1>7 DEF HandleRead
<1>8. CASE HandleIO
  BY <1>8 DEF HandleIO
<1>9. CASE EndHandle
  BY <1>9 DEF EndHandle
<1>10. CASE SwapPending
  BY <1>10 DEF SwapPending
<1>11. CASE RunFunctor
  BY <1>11 DEF RunFunctor
<1>12. CASE EndPending
  BY <1>12 DEF EndPending
<1>13. ASSUME NEW f \in Fresh, LoopQueueInLoop(f)
       PROVE  CallingInBatch' /\ PendingCovered' /\ QuitCovered'
  <2>1. CASE pc = "callback"
    BY <1>13, <2>1 DEF LoopQueueInLoop
  <2>2. CASE pc = "out"
    <3>1. pendingFunctors' = Append(pendingFunctors, f) /\ early' = early \union {f}
      BY <1>13, <2>2 DEF LoopQueueInLoop, Push
    <3>2. OnlyEarly => OnlyEarly'
      BY <3>1 DEF Fresh
    <3>3. CallingInBatch' /\ QuitCovered'
      BY <1>13, <2>2 DEF LoopQueueInLoop
    <3> QED
      BY <1>13, <2>2, <3>2, <3>3 DEF LoopQueueInLoop
  <2> QED
    BY <1>13, <2>1, <2>2 DEF LoopQueueInLoop
<1>14. CASE LoopWakeup
  <2>1. calling => eventfd' > 0
    BY <1>14 DEF LoopWakeup, Wakeup
  <2> QED
    BY <1>14, <2>1 DEF LoopWakeup
<1>15. ASSUME NEW f \in Fresh, LoopRunInLoop(f)
       PROVE  CallingInBatch' /\ PendingCovered' /\ QuitCovered'
  BY <1>15 DEF LoopRunInLoop
<1>16. CASE LoopQuit
  BY <1>16 DEF LoopQuit
<1>17. CASE EndCallback
  BY <1>17 DEF EndCallback
<1>18. CASE UNCHANGED vars
  BY <1>18 DEF vars
<1> QED
  BY <1>1, <1>2, <1>3, <1>4, <1>5, <1>6, <1>7, <1>8, <1>9, <1>10, <1>11,
     <1>12, <1>13, <1>14, <1>15, <1>16, <1>17, <1>18
     DEF Next, LoopNext, LoopProgress, ThreadNext

\* queueInLoop and quit against loop(): the loop's thread never sleeps in
\* epoll_wait on work or on a quit whose wakeup is neither there nor coming.
THEOREM WakeupNeverLost == Spec => []NoLostWakeup
<1>1. Init => CallingInBatch /\ PendingCovered /\ QuitCovered
  BY DEF Init, CallingInBatch, PendingCovered, QuitCovered, OnlyEarly
<1>2. TypeOK /\ PendingCovered /\ QuitCovered => NoLostWakeup
  BY DEF NoLostWakeup, PendingCovered, QuitCovered
<1> QED
  BY <1>1, <1>2, TypeCorrect, WakeupInductive, PTL DEF Spec

-----------------------------------------------------------------------------
\* Queueing at the end of the last of two sequences.
LEMMA AppendConcat ==
  ASSUME NEW a \in Seq(Functors), NEW b \in Seq(Functors), NEW f \in Functors
  PROVE  Append(a \o b, f) = a \o Append(b, f)
  OBVIOUS

\* Moving the head of one sequence to the end of the one before it.
LEMMA MoveHead ==
  ASSUME NEW a \in Seq(Functors), NEW b \in Seq(Functors), b # <<>>
  PROVE  Append(a, Head(b)) \o Tail(b) = a \o b
  OBVIOUS

\* The head of two sequences is the head of the first that is not empty.
LEMMA HeadOfConcat ==
  ASSUME NEW a \in Seq(Functors), NEW b \in Seq(Functors), a # <<>>
  PROVE  /\ Head(a \o b) = Head(a)
         /\ Tail(a \o b) = Tail(a) \o b
         /\ a \o b # <<>>
  OBVIOUS

\* doPendingFunctors and queueInLoop keep the callbacks in one order: a push
\* extends both sides, the swap and the call of a functor move a callback from
\* one part to the part before it.
THEOREM OrderPreserved == Spec => []InPushOrder
<1>1. Init => InPushOrder
  BY DEF Init, InPushOrder
<1>2. ASSUME TypeOK, CallingInBatch, InPushOrder, [Next]_vars PROVE InPushOrder'
  <2> USE <1>2 DEF TypeOK, InPushOrder
  <2>1. ASSUME NEW f \in Fresh, Push(f), UNCHANGED <<ran, functors>>
        PROVE  InPushOrder'
    <3>1. /\ f \in Functors /\ ran \in Seq(Functors)
          /\ functors \in Seq(Functors) /\ pendingFunctors \in Seq(Functors)
      BY DEF Fresh
    <3>2. Append(ran \o functors \o pendingFunctors, f)
            = ran \o functors \o Append(pendingFunctors, f)
      <4>1. \A u \in Seq(Functors) :
              Append(u \o pendingFunctors, f) = u \o Append(pendingFunctors, f)
        BY ONLY <3>1, AppendConcat, Zenon
      <4>2. ran \o functors \in Seq(Functors)
        BY ONLY <3>1
      <4> QED BY ONLY <4>1, <4>2, Zenon
    <3>3. /\ pushed' = Append(pushed, f) /\ pendingFunctors' = Append(pendingFunctors, f)
          /\ ran' = ran /\ functors' = functors
      BY ONLY <2>1 DEF Push
    <3>4. pushed = ran \o functors \o pendingFunctors
      BY ONLY <1>2 DEF InPushOrder
    <3> QED
      BY ONLY <3>2, <3>3, <3>4, Zenon DEF InPushOrder
  <2>2. CASE SwapPending
    <3>1. functors = <<>>
      BY <2>2 DEF SwapPending, CallingInBatch
    <3>2. ran \o functors = ran /\ ran \o pendingFunctors \o <<>> = ran \o pendingFunctors
      BY <3>1
    <3> QED
      BY <2>2, <3>2 DEF SwapPending
  <2>3. CASE RunFunctor
    <3>1. Append(ran, Head(functors)) \o Tail(functors) = ran \o functors
      BY <2>3, MoveHead DEF RunFunctor
    <3> QED
      BY <2>3, <3>1 DEF RunFunctor
  <2>4. CASE UNCHANGED <<pushed, ran, functors, pendingFunctors>>
    BY <2>4
  <2> QED
    BY <2>1, <2>2, <2>3, <2>4
       DEF Next, LoopNext, LoopProgress, ThreadNext, vars, ThreadQueueInLoop,
           ThreadQuit, ThreadWakeup, EnterLoop, TestQuit, Poll, HandleRead,
           HandleIO, EndHandle, EndPending, LoopQueueInLoop, LoopWakeup,
           LoopRunInLoop, LoopQuit, EndCallback
<1>3. Init => CallingInBatch /\ PendingCovered /\ QuitCovered
  BY DEF Init, CallingInBatch, PendingCovered, QuitCovered, OnlyEarly
<1> QED
  BY <1>1, <1>2, <1>3, TypeCorrect, WakeupInductive, PTL DEF Spec

\* Every step of EventLoop is a step of the executor or leaves it unchanged:
\* queueInLoop posts, RunFunctor executes the oldest callback, quit() and the
\* entry of loop() set the request to stop.
THEOREM ExecutorImplemented == Spec => Executor!Safety
<1>1. Init => Executor!Init
  BY DEF Init, Executor!Init
<1>2. ASSUME TypeOK, CallingInBatch, [Next]_vars
      PROVE  [Executor!Next]_Executor!vars
  <2> USE <1>2 DEF TypeOK
  <2>1. ASSUME NEW f \in Fresh, Push(f), UNCHANGED <<ran, functors, quit>>
        PROVE  Executor!Next
    <3>1. f \in Functors
      BY DEF Fresh
    <3>2. Executor!Post(f)
      BY <2>1, <3>1, AppendConcat DEF Push, Executor!Post
    <3> QED
      BY <3>1, <3>2 DEF Executor!Next
  <2>2. CASE SwapPending
    <3>1. functors = <<>>
      BY <2>2 DEF SwapPending, CallingInBatch
    <3>2. functors' \o pendingFunctors' = functors \o pendingFunctors
      BY <2>2, <3>1 DEF SwapPending
    <3> QED
      BY <2>2, <3>2 DEF SwapPending, Executor!vars
  <2>3. CASE RunFunctor
    <3>1. Executor!Execute
      BY <2>3, HeadOfConcat DEF RunFunctor, Executor!Execute
    <3> QED
      BY <3>1 DEF Executor!Next
  <2>4. ASSUME UNCHANGED <<ran, functors, pendingFunctors>>, quit' \in BOOLEAN
        PROVE  Executor!Next
    <3>1. Executor!SetStopping(quit')
      BY <2>4 DEF Executor!SetStopping
    <3> QED
      BY <2>4, <3>1 DEF Executor!Next
  <2>5. CASE UNCHANGED vars
    BY <2>5 DEF vars, Executor!vars
  <2> QED
    BY <2>1, <2>2, <2>3, <2>4, <2>5
       DEF Next, LoopNext, LoopProgress, ThreadNext, ThreadQueueInLoop,
           ThreadQuit, ThreadWakeup, EnterLoop, TestQuit, Poll, HandleRead,
           HandleIO, EndHandle, EndPending, LoopQueueInLoop, LoopWakeup,
           LoopRunInLoop, LoopQuit, EndCallback
<1>3. Init => CallingInBatch /\ PendingCovered /\ QuitCovered
  BY DEF Init, CallingInBatch, PendingCovered, QuitCovered, OnlyEarly
<1> QED
  BY <1>1, <1>2, <1>3, TypeCorrect, WakeupInductive, PTL
     DEF Spec, Executor!Safety
=============================================================================
