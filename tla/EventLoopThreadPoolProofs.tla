---------------------- MODULE EventLoopThreadPoolProofs ----------------------
(***************************************************************************)
(* What EventLoopThreadPool guarantees for any number of threads, proved   *)
(* with TLAPS: its types, that the loops it has started exist, that it     *)
(* hands them out in turn, and that it leaves no thread behind.            *)
(***************************************************************************)
EXTENDS EventLoopThreadPool, TLAPS

\* The owner is inside start(), or inside the destructor.
Starting == opc \in {"start", "tid", "wait", "asleep"}
Destroying == opc \in {"check", "quit", "wakeup", "join"}

\* Where the owner is, what cur and started are there.
OwnerInv ==
    /\ Starting => started = cur - 1 /\ next = 0
    /\ ~Starting => started = NumThreads
    /\ opc \in {"tid", "wait", "asleep", "quit", "wakeup", "join"} => cur <= NumThreads

\* Where a thread is, what its loop is.
LoopInv ==
    \A i \in EventLoopThreads :
        /\ alive[i] <=> tpc[i] \in {"publish", "enter", "loop", "clear", "unwind"}
        /\ loop_[i] <=> tpc[i] \in {"enter", "loop", "clear"}
        /\ tpc[i] \in {"clear", "unwind", "done"} => quit[i]

\* A thread not yet started is new; a started one has published its loop.
StartInv ==
    /\ \A i \in EventLoopThreads :
          Starting /\ i >= cur /\ (i = cur => opc = "start") => tpc[i] = "new"
    /\ \A i \in 1..started : tpc[i] \in {"enter", "loop", "clear", "unwind", "done"}

\* The loops before next_ have been served once more than the others.
TurnInv ==
    /\ Starting => \A i \in EventLoopThreads : served[i] = 0
    /\ \A i, j \in 1..started :
          served[i] = IF i <= next /\ j > next THEN served[j] + 1
                      ELSE IF i > next /\ j <= next THEN served[j] - 1
                      ELSE served[j]

\* The destructor has not come to thread i yet.
Untouched(i) ==
    \/ Starting \/ opc = "ready"
    \/ Destroying /\ (i > cur \/ (i = cur /\ opc \in {"check", "quit"}))

\* A loop that was told to quit before the destructor came to it was told so by a
\* callback; the threads the destructor is done with have ended.
JoinInv ==
    \A i \in EventLoopThreads :
        /\ Untouched(i) /\ quit[i] => i \in selfQuit
        /\ (Destroying /\ i < cur) \/ opc = "gone" => i \in selfQuit \/ tpc[i] = "done"

Inv == TypeOK /\ OwnerInv /\ LoopInv /\ StartInv /\ TurnInv /\ JoinInv

\* The initial state satisfies every part of the invariant.
LEMMA Initially == Init => Inv
<1> SUFFICES ASSUME Init PROVE Inv
  OBVIOUS
<1> USE PoolAssumption DEF PoolAssumption, Init, Starting, Destroying, EventLoopThreads,
        BaseLoop
<1>1. TypeOK
  <2>1. opc \in OwnerPC /\ cur \in 1..(NumThreads + 1) /\ started \in 0..NumThreads
    BY DEF OwnerPC
  <2>2. /\ tpc \in [EventLoopThreads -> ThreadPC]
        /\ served \in [{BaseLoop} \union EventLoopThreads -> 0..MaxServed]
    BY DEF ThreadPC
  <2>3. /\ loop_ \in [EventLoopThreads -> BOOLEAN]
        /\ alive \in [EventLoopThreads -> BOOLEAN]
        /\ quit \in [EventLoopThreads -> BOOLEAN]
    OBVIOUS
  <2> QED
    BY <2>1, <2>2, <2>3 DEF TypeOK
<1>2. OwnerInv
  BY DEF OwnerInv
<1>3. LoopInv
  BY DEF LoopInv
<1>4. StartInv
  BY DEF StartInv
<1>5. TurnInv
  BY DEF TurnInv
<1>6. JoinInv
  BY DEF JoinInv, Untouched
<1> QED
  BY <1>1, <1>2, <1>3, <1>4, <1>5, <1>6 DEF Inv

\* Every step keeps the types.
LEMMA TypesKept ==
    ASSUME TypeOK, OwnerInv, [Next]_vars
    PROVE  TypeOK'
<1> USE PoolAssumption DEF PoolAssumption, TypeOK, OwnerPC, ThreadPC, EventLoopThreads, BaseLoop, OwnerInv, Starting
<1>1. CASE StartThread
  BY <1>1 DEF StartThread
<1>2. CASE TidKnown
  BY <1>2 DEF TidKnown
<1>3. CASE WaitForLoop
  BY <1>3 DEF WaitForLoop
<1>4. CASE StartReturns
  BY <1>4 DEF StartReturns
<1>5. CASE CheckLoop
  BY <1>5 DEF CheckLoop
<1>6. CASE QuitLoop
  BY <1>6 DEF QuitLoop
<1>7. CASE WakeupLoop
  BY <1>7 DEF WakeupLoop
<1>8. CASE Join
  BY <1>8 DEF Join
<1>9. CASE SpuriousWakeup
  BY <1>9 DEF SpuriousWakeup
<1>10. CASE GetNextLoop
  <2>1. /\ started' = started /\ next' \in Nat /\ (next' = 0 \/ next' < started')
    BY <1>10 DEF GetNextLoop
  <2>2. served' \in [{BaseLoop} \union EventLoopThreads -> 0..MaxServed]
    <3>1. ASSUME NEW l \in {BaseLoop} \union EventLoopThreads,
                 served[l] < MaxServed, Serve(l)
          PROVE  served' \in [{BaseLoop} \union EventLoopThreads -> 0..MaxServed]
      BY <3>1 DEF Serve
    <3>2. CASE started = 0
      BY <1>10, <3>1, <3>2 DEF GetNextLoop
    <3>3. CASE started # 0
      <4>1. next + 1 \in EventLoopThreads
        BY <3>3
      <4> QED
        BY <1>10, <3>1, <3>3, <4>1 DEF GetNextLoop
    <3> QED
      BY <3>2, <3>3
  <2> QED
    BY <1>10, <2>1, <2>2 DEF GetNextLoop
<1>11. CASE Destroy
  BY <1>11 DEF Destroy
<1>12. ASSUME NEW i \in EventLoopThreads, PostTid(i) PROVE TypeOK'
  BY <1>12 DEF PostTid, ownerVars
<1>13. ASSUME NEW i \in EventLoopThreads, ConstructLoop(i) PROVE TypeOK'
  BY <1>13 DEF ConstructLoop, ownerVars
<1>14. ASSUME NEW i \in EventLoopThreads, PublishLoop(i) PROVE TypeOK'
  BY <1>14 DEF PublishLoop, ownerVars
<1>15. ASSUME NEW i \in EventLoopThreads, EnterLoop(i) PROVE TypeOK'
  BY <1>15 DEF EnterLoop, ownerVars
<1>16. ASSUME NEW i \in EventLoopThreads, LeaveLoop(i) PROVE TypeOK'
  BY <1>16 DEF LeaveLoop, ownerVars
<1>17. ASSUME NEW i \in EventLoopThreads, ClearLoop(i) PROVE TypeOK'
  BY <1>17 DEF ClearLoop, ownerVars
<1>18. ASSUME NEW i \in EventLoopThreads, Unwind(i) PROVE TypeOK'
  BY <1>18 DEF Unwind, ownerVars
<1>19. ASSUME NEW i \in EventLoopThreads, SelfQuit(i) PROVE TypeOK'
  BY <1>19 DEF SelfQuit, ownerVars
<1>20. CASE UNCHANGED vars
  BY <1>20 DEF vars
<1> QED
  BY <1>1, <1>2, <1>3, <1>4, <1>5, <1>6, <1>7, <1>8, <1>9, <1>10,
     <1>11, <1>12, <1>13, <1>14, <1>15, <1>16, <1>17, <1>18, <1>19,
     <1>20
     DEF Next, OwnerNext, OwnerProgress, ThreadProgress

\* Every step keeps cur, started and next_ in step with where the owner is.
LEMMA OwnerKept ==
    ASSUME TypeOK, OwnerInv, [Next]_vars
    PROVE  OwnerInv'
<1> USE PoolAssumption DEF PoolAssumption, TypeOK, OwnerPC, ThreadPC, EventLoopThreads, BaseLoop, OwnerInv, Starting
<1>1. CASE StartThread
  BY <1>1 DEF StartThread
<1>2. CASE TidKnown
  BY <1>2 DEF TidKnown
<1>3. CASE WaitForLoop
  <2>1. CASE loop_[cur]
    <3>1. started = cur - 1 /\ next = 0 /\ cur \in Nat
      BY <1>3 DEF WaitForLoop
    <3>2. opc' = "start" /\ started' = started + 1 /\ cur' = cur + 1 /\ next' = next
      BY <1>3, <2>1 DEF WaitForLoop
    <3> QED
      BY <3>1, <3>2
  <2>2. CASE ~loop_[cur]
    BY <1>3, <2>2 DEF WaitForLoop
  <2> QED
    BY <2>1, <2>2
<1>4. CASE StartReturns
  BY <1>4 DEF StartReturns
<1>5. CASE CheckLoop
  BY <1>5 DEF CheckLoop
<1>6. CASE QuitLoop
  BY <1>6 DEF QuitLoop
<1>7. CASE WakeupLoop
  BY <1>7 DEF WakeupLoop
<1>8. CASE Join
  BY <1>8 DEF Join
<1>9. CASE SpuriousWakeup
  BY <1>9 DEF SpuriousWakeup
<1>10. CASE GetNextLoop
  BY <1>10 DEF GetNextLoop, Serve
<1>11. CASE Destroy
  BY <1>11 DEF Destroy
<1>12. ASSUME NEW i \in EventLoopThreads, PostTid(i) PROVE OwnerInv'
  BY <1>12 DEF PostTid, ownerVars
<1>13. ASSUME NEW i \in EventLoopThreads, ConstructLoop(i) PROVE OwnerInv'
  BY <1>13 DEF ConstructLoop, ownerVars
<1>14. ASSUME NEW i \in EventLoopThreads, PublishLoop(i) PROVE OwnerInv'
  BY <1>14 DEF PublishLoop, ownerVars
<1>15. ASSUME NEW i \in EventLoopThreads, EnterLoop(i) PROVE OwnerInv'
  BY <1>15 DEF EnterLoop, ownerVars
<1>16. ASSUME NEW i \in EventLoopThreads, LeaveLoop(i) PROVE OwnerInv'
  BY <1>16 DEF LeaveLoop, ownerVars
<1>17. ASSUME NEW i \in EventLoopThreads, ClearLoop(i) PROVE OwnerInv'
  BY <1>17 DEF ClearLoop, ownerVars
<1>18. ASSUME NEW i \in EventLoopThreads, Unwind(i) PROVE OwnerInv'
  BY <1>18 DEF Unwind, ownerVars
<1>19. ASSUME NEW i \in EventLoopThreads, SelfQuit(i) PROVE OwnerInv'
  BY <1>19 DEF SelfQuit, ownerVars
<1>20. CASE UNCHANGED vars
  BY <1>20 DEF vars
<1> QED
  BY <1>1, <1>2, <1>3, <1>4, <1>5, <1>6, <1>7, <1>8, <1>9, <1>10,
     <1>11, <1>12, <1>13, <1>14, <1>15, <1>16, <1>17, <1>18, <1>19,
     <1>20
     DEF Next, OwnerNext, OwnerProgress, ThreadProgress

\* Every step keeps the loops in step with their threads.
LEMMA LoopKept ==
    ASSUME TypeOK, OwnerInv, LoopInv, StartInv, [Next]_vars
    PROVE  LoopInv'
<1> USE PoolAssumption DEF PoolAssumption, TypeOK, OwnerPC, ThreadPC, EventLoopThreads, BaseLoop, OwnerInv, LoopInv, StartInv, Starting
<1>1. CASE StartThread
  BY <1>1 DEF StartThread
<1>2. CASE TidKnown
  BY <1>2 DEF TidKnown
<1>3. CASE WaitForLoop
  BY <1>3 DEF WaitForLoop
<1>4. CASE StartReturns
  BY <1>4 DEF StartReturns
<1>5. CASE CheckLoop
  BY <1>5 DEF CheckLoop
<1>6. CASE QuitLoop
  BY <1>6 DEF QuitLoop
<1>7. CASE WakeupLoop
  BY <1>7 DEF WakeupLoop
<1>8. CASE Join
  BY <1>8 DEF Join
<1>9. CASE SpuriousWakeup
  BY <1>9 DEF SpuriousWakeup
<1>10. CASE GetNextLoop
  BY <1>10 DEF GetNextLoop, Serve
<1>11. CASE Destroy
  BY <1>11 DEF Destroy
<1>12. ASSUME NEW i \in EventLoopThreads, PostTid(i) PROVE LoopInv'
  BY <1>12 DEF PostTid, ownerVars
<1>13. ASSUME NEW i \in EventLoopThreads, ConstructLoop(i) PROVE LoopInv'
  BY <1>13 DEF ConstructLoop, ownerVars
<1>14. ASSUME NEW i \in EventLoopThreads, PublishLoop(i) PROVE LoopInv'
  BY <1>14 DEF PublishLoop, ownerVars
<1>15. ASSUME NEW i \in EventLoopThreads, EnterLoop(i) PROVE LoopInv'
  BY <1>15 DEF EnterLoop, ownerVars
<1>16. ASSUME NEW i \in EventLoopThreads, LeaveLoop(i) PROVE LoopInv'
  BY <1>16 DEF LeaveLoop, ownerVars
<1>17. ASSUME NEW i \in EventLoopThreads, ClearLoop(i) PROVE LoopInv'
  BY <1>17 DEF ClearLoop, ownerVars
<1>18. ASSUME NEW i \in EventLoopThreads, Unwind(i) PROVE LoopInv'
  BY <1>18 DEF Unwind, ownerVars
<1>19. ASSUME NEW i \in EventLoopThreads, SelfQuit(i) PROVE LoopInv'
  BY <1>19 DEF SelfQuit, ownerVars
<1>20. CASE UNCHANGED vars
  BY <1>20 DEF vars
<1> QED
  BY <1>1, <1>2, <1>3, <1>4, <1>5, <1>6, <1>7, <1>8, <1>9, <1>10,
     <1>11, <1>12, <1>13, <1>14, <1>15, <1>16, <1>17, <1>18, <1>19,
     <1>20
     DEF Next, OwnerNext, OwnerProgress, ThreadProgress

\* Every step keeps the started threads apart from the new ones.
LEMMA StartKept ==
    ASSUME TypeOK, OwnerInv, LoopInv, StartInv, [Next]_vars
    PROVE  StartInv'
<1> USE PoolAssumption DEF PoolAssumption, TypeOK, OwnerPC, ThreadPC, EventLoopThreads, BaseLoop, OwnerInv, LoopInv, StartInv, Starting
<1>1. CASE StartThread
  BY <1>1 DEF StartThread
<1>2. CASE TidKnown
  BY <1>2 DEF TidKnown
<1>3. CASE WaitForLoop
  BY <1>3 DEF WaitForLoop
<1>4. CASE StartReturns
  BY <1>4 DEF StartReturns
<1>5. CASE CheckLoop
  BY <1>5 DEF CheckLoop
<1>6. CASE QuitLoop
  BY <1>6 DEF QuitLoop
<1>7. CASE WakeupLoop
  BY <1>7 DEF WakeupLoop
<1>8. CASE Join
  BY <1>8 DEF Join
<1>9. CASE SpuriousWakeup
  BY <1>9 DEF SpuriousWakeup
<1>10. CASE GetNextLoop
  BY <1>10 DEF GetNextLoop, Serve
<1>11. CASE Destroy
  BY <1>11 DEF Destroy
<1>12. ASSUME NEW i \in EventLoopThreads, PostTid(i) PROVE StartInv'
  BY <1>12 DEF PostTid, ownerVars
<1>13. ASSUME NEW i \in EventLoopThreads, ConstructLoop(i) PROVE StartInv'
  BY <1>13 DEF ConstructLoop, ownerVars
<1>14. ASSUME NEW i \in EventLoopThreads, PublishLoop(i) PROVE StartInv'
  BY <1>14 DEF PublishLoop, ownerVars
<1>15. ASSUME NEW i \in EventLoopThreads, EnterLoop(i) PROVE StartInv'
  BY <1>15 DEF EnterLoop, ownerVars
<1>16. ASSUME NEW i \in EventLoopThreads, LeaveLoop(i) PROVE StartInv'
  BY <1>16 DEF LeaveLoop, ownerVars
<1>17. ASSUME NEW i \in EventLoopThreads, ClearLoop(i) PROVE StartInv'
  BY <1>17 DEF ClearLoop, ownerVars
<1>18. ASSUME NEW i \in EventLoopThreads, Unwind(i) PROVE StartInv'
  BY <1>18 DEF Unwind, ownerVars
<1>19. ASSUME NEW i \in EventLoopThreads, SelfQuit(i) PROVE StartInv'
  BY <1>19 DEF SelfQuit, ownerVars
<1>20. CASE UNCHANGED vars
  BY <1>20 DEF vars
<1> QED
  BY <1>1, <1>2, <1>3, <1>4, <1>5, <1>6, <1>7, <1>8, <1>9, <1>10,
     <1>11, <1>12, <1>13, <1>14, <1>15, <1>16, <1>17, <1>18, <1>19,
     <1>20
     DEF Next, OwnerNext, OwnerProgress, ThreadProgress

\* Every step keeps the loops served in turn.
LEMMA TurnKept ==
    ASSUME TypeOK, OwnerInv, TurnInv, [Next]_vars
    PROVE  TurnInv'
<1> USE PoolAssumption DEF PoolAssumption, TypeOK, OwnerPC, ThreadPC, EventLoopThreads, BaseLoop, OwnerInv, TurnInv, Starting
<1>1. CASE StartThread
  BY <1>1 DEF StartThread
<1>2. CASE TidKnown
  BY <1>2 DEF TidKnown
<1>3. CASE WaitForLoop
  BY <1>3 DEF WaitForLoop
<1>4. CASE StartReturns
  BY <1>4 DEF StartReturns
<1>5. CASE CheckLoop
  BY <1>5 DEF CheckLoop
<1>6. CASE QuitLoop
  BY <1>6 DEF QuitLoop
<1>7. CASE WakeupLoop
  BY <1>7 DEF WakeupLoop
<1>8. CASE Join
  BY <1>8 DEF Join
<1>9. CASE SpuriousWakeup
  BY <1>9 DEF SpuriousWakeup
<1>10. CASE GetNextLoop
  <2>1. CASE started = 0
    BY <1>10, <2>1 DEF GetNextLoop
  <2>2. CASE started # 0
    <3>1. /\ opc = "ready" /\ opc' = "ready" /\ started' = started
          /\ served' = [served EXCEPT ![next + 1] = @ + 1]
          /\ next' = IF next + 1 >= started THEN 0 ELSE next + 1
      BY <1>10, <2>2 DEF GetNextLoop, Serve
    <3>2. next \in Nat /\ started \in Nat /\ next < started
      BY <2>2
    <3>3. ASSUME NEW i \in 1..started
          PROVE  /\ served[i] \in Nat
                 /\ served'[i] = IF i = next + 1 THEN served[i] + 1 ELSE served[i]
      BY <3>1, <3>3
    <3>4. ASSUME NEW i \in 1..started, NEW j \in 1..started
          PROVE  served'[i] = IF i <= next' /\ j > next' THEN served'[j] + 1
                              ELSE IF i > next' /\ j <= next' THEN served'[j] - 1
                              ELSE served'[j]
      <4>1. served[i] = IF i <= next /\ j > next THEN served[j] + 1
                        ELSE IF i > next /\ j <= next THEN served[j] - 1
                        ELSE served[j]
        OBVIOUS
      <4>2. /\ served[i] \in Nat /\ served[j] \in Nat
            /\ served'[i] = IF i = next + 1 THEN served[i] + 1 ELSE served[i]
            /\ served'[j] = IF j = next + 1 THEN served[j] + 1 ELSE served[j]
        BY <3>3
      <4> HIDE DEF TypeOK, TurnInv, OwnerInv
      <4>3. CASE next + 1 >= started
        BY <3>1, <3>2, <4>1, <4>2, <4>3
      <4>4. CASE next + 1 < started
        BY <3>1, <3>2, <4>1, <4>2, <4>4
      <4> QED
        BY <3>2, <4>3, <4>4
    <3> QED
      BY <3>1, <3>4
  <2> QED
    BY <2>1, <2>2
<1>11. CASE Destroy
  BY <1>11 DEF Destroy
<1>12. ASSUME NEW i \in EventLoopThreads, PostTid(i) PROVE TurnInv'
  BY <1>12 DEF PostTid, ownerVars
<1>13. ASSUME NEW i \in EventLoopThreads, ConstructLoop(i) PROVE TurnInv'
  BY <1>13 DEF ConstructLoop, ownerVars
<1>14. ASSUME NEW i \in EventLoopThreads, PublishLoop(i) PROVE TurnInv'
  BY <1>14 DEF PublishLoop, ownerVars
<1>15. ASSUME NEW i \in EventLoopThreads, EnterLoop(i) PROVE TurnInv'
  BY <1>15 DEF EnterLoop, ownerVars
<1>16. ASSUME NEW i \in EventLoopThreads, LeaveLoop(i) PROVE TurnInv'
  BY <1>16 DEF LeaveLoop, ownerVars
<1>17. ASSUME NEW i \in EventLoopThreads, ClearLoop(i) PROVE TurnInv'
  BY <1>17 DEF ClearLoop, ownerVars
<1>18. ASSUME NEW i \in EventLoopThreads, Unwind(i) PROVE TurnInv'
  BY <1>18 DEF Unwind, ownerVars
<1>19. ASSUME NEW i \in EventLoopThreads, SelfQuit(i) PROVE TurnInv'
  BY <1>19 DEF SelfQuit, ownerVars
<1>20. CASE UNCHANGED vars
  BY <1>20 DEF vars
<1> QED
  BY <1>1, <1>2, <1>3, <1>4, <1>5, <1>6, <1>7, <1>8, <1>9, <1>10,
     <1>11, <1>12, <1>13, <1>14, <1>15, <1>16, <1>17, <1>18, <1>19,
     <1>20
     DEF Next, OwnerNext, OwnerProgress, ThreadProgress

\* Every step keeps the threads the destructor is done with ended.
LEMMA JoinKept ==
    ASSUME TypeOK, OwnerInv, LoopInv, StartInv, JoinInv, [Next]_vars
    PROVE  JoinInv'
<1> USE PoolAssumption DEF PoolAssumption, TypeOK, OwnerPC, ThreadPC, EventLoopThreads, BaseLoop, OwnerInv, LoopInv, StartInv, JoinInv, Untouched, Starting, Destroying
<1>1. CASE StartThread
  BY <1>1 DEF StartThread
<1>2. CASE TidKnown
  BY <1>2 DEF TidKnown
<1>3. CASE WaitForLoop
  BY <1>3 DEF WaitForLoop
<1>4. CASE StartReturns
  BY <1>4 DEF StartReturns
<1>5. CASE CheckLoop
  BY <1>5 DEF CheckLoop
<1>6. CASE QuitLoop
  BY <1>6 DEF QuitLoop
<1>7. CASE WakeupLoop
  BY <1>7 DEF WakeupLoop
<1>8. CASE Join
  BY <1>8 DEF Join
<1>9. CASE SpuriousWakeup
  BY <1>9 DEF SpuriousWakeup
<1>10. CASE GetNextLoop
  BY <1>10 DEF GetNextLoop, Serve
<1>11. CASE Destroy
  BY <1>11 DEF Destroy
<1>12. ASSUME NEW i \in EventLoopThreads, PostTid(i) PROVE JoinInv'
  BY <1>12 DEF PostTid, ownerVars
<1>13. ASSUME NEW i \in EventLoopThreads, ConstructLoop(i) PROVE JoinInv'
  BY <1>13 DEF ConstructLoop, ownerVars
<1>14. ASSUME NEW i \in EventLoopThreads, PublishLoop(i) PROVE JoinInv'
  BY <1>14 DEF PublishLoop, ownerVars
<1>15. ASSUME NEW i \in EventLoopThreads, EnterLoop(i) PROVE JoinInv'
  BY <1>15 DEF EnterLoop, ownerVars
<1>16. ASSUME NEW i \in EventLoopThreads, LeaveLoop(i) PROVE JoinInv'
  BY <1>16 DEF LeaveLoop, ownerVars
<1>17. ASSUME NEW i \in EventLoopThreads, ClearLoop(i) PROVE JoinInv'
  BY <1>17 DEF ClearLoop, ownerVars
<1>18. ASSUME NEW i \in EventLoopThreads, Unwind(i) PROVE JoinInv'
  BY <1>18 DEF Unwind, ownerVars
<1>19. ASSUME NEW i \in EventLoopThreads, SelfQuit(i) PROVE JoinInv'
  BY <1>19 DEF SelfQuit, ownerVars
<1>20. CASE UNCHANGED vars
  BY <1>20 DEF vars
<1> QED
  BY <1>1, <1>2, <1>3, <1>4, <1>5, <1>6, <1>7, <1>8, <1>9, <1>10,
     <1>11, <1>12, <1>13, <1>14, <1>15, <1>16, <1>17, <1>18, <1>19,
     <1>20
     DEF Next, OwnerNext, OwnerProgress, ThreadProgress

\* The invariant is inductive.
LEMMA Invariant == Spec => []Inv
<1>1. Inv /\ [Next]_vars => Inv'
  BY TypesKept, OwnerKept, LoopKept, StartKept, TurnKept, JoinKept DEF Inv
<1> QED
  BY <1>1, Initially, PTL DEF Spec

\* Every field keeps its type, next_ included: getNextLoop() always indexes a loop
\* that is there.
THEOREM TypeCorrect == Spec => []TypeOK
<1>1. Inv => TypeOK
  BY DEF Inv
<1> QED
  BY <1>1, Invariant, PTL

\* startLoop() only returns loops that exist, and they exist until they are told to
\* quit.
THEOREM LoopsExist == Spec => []StartedLoopsExist
<1>1. Inv => StartedLoopsExist
  <2> SUFFICES ASSUME Inv, NEW i \in 1..started, ~quit[i]
               PROVE  alive[i] /\ loop_[i]
    BY DEF StartedLoopsExist
  <2>1. i \in EventLoopThreads
    BY PoolAssumption DEF PoolAssumption, Inv, TypeOK, EventLoopThreads
  <2>2. tpc[i] \in {"enter", "loop", "clear", "unwind", "done"}
    BY DEF Inv, StartInv
  <2>3. tpc[i] \in {"enter", "loop"}
    BY <2>1, <2>2 DEF Inv, LoopInv
  <2> QED
    BY <2>1, <2>3 DEF Inv, LoopInv
<1> QED
  BY <1>1, Invariant, PTL

\* getNextLoop() gives no loop two connections more than another.
THEOREM ServedInTurn == Spec => []RoundRobin
<1>1. Inv => RoundRobin
  <2> SUFFICES ASSUME Inv, NEW i \in 1..started, NEW j \in 1..started
               PROVE  served[i] <= served[j] + 1
    BY DEF RoundRobin
  <2>1. served[i] \in Nat /\ served[j] \in Nat
    BY PoolAssumption DEF PoolAssumption, Inv, TypeOK, EventLoopThreads, BaseLoop
  <2>2. \/ served[i] = served[j] \/ served[i] = served[j] + 1
        \/ served[i] = served[j] - 1
    BY DEF Inv, TurnInv
  <2> QED
    BY <2>1, <2>2
<1> QED
  BY <1>1, Invariant, PTL

\* The destructor leaves no thread behind but those a callback made quit.
THEOREM NoThreadLeft == Spec => []GoneMeansJoined
<1>1. Inv => GoneMeansJoined
  BY DEF Inv, TypeOK, LoopInv, JoinInv, GoneMeansJoined
<1> QED
  BY <1>1, Invariant, PTL
=============================================================================
