----------------------------- MODULE PoolsProofs -----------------------------
(***************************************************************************)
(* Proofs about the pools of MCPools: ConnectionPool for any threads that  *)
(* borrow and any minSize_ <= maxSize_, ThreadPool and EchoServer for any  *)
(* workers, tasks, clients and sizes, and that the specification in which  *)
(* they are together implements each.                                      *)
(***************************************************************************)
EXTENDS MCPools, Sequences, FiniteSetTheorems, TLAPS

-----------------------------------------------------------------------------
(* ConnectionPool: no connection is lost or made in excess, the producer   *)
(* is awake when it is wanted, and a closed pool is empty.                 *)

\* Where the main thread is, what exit_ is; it is cleared late, in start(), but for the
\* first time it is clear already.
ExitInv ==
    /\ main \in {"drain", "closed"} => exit
    /\ main \in {"new", "started"} => ~exit
    /\ starts = 1 /\ main \in {"spawn", "enable"} => ~exit

\* Before start() there is nothing.
NewInv ==
    /\ starts = 0 <=> main = "new"
    /\ starts = 0 => /\ idle = 0 /\ count = 0
                     /\ \A g \in Getters : getter[g] = "out"
                     /\ \A r \in Runs : producer[r] = "none" /\ scanner[r] = "none"

\* Every connection counted is idle or lent, and the scanner stops where more than
\* minSize_ are lent.
CountInv ==
    /\ starts = 1 /\ ~exit /\ ~crashed =>
           count = idle + Cardinality(Lent) /\ count \in minSize..maxSize
    /\ starts = 1 /\ crashed => Cardinality(Lent) > minSize

\* The producer lives, and only sleeps on a queue that is not empty.
ProducerInv ==
    starts = 1 /\ ~exit /\ ~crashed /\ main # "spawn" =>
        /\ producer[1] \in {"awake", "asleep"}
        /\ idle = 0 /\ ~scanned => producer[1] = "awake"

ConnectionInv == TypeOK /\ ExitInv /\ NewInv /\ CountInv /\ ProducerInv /\ ClosedIsEmpty

\* The steps of ConnectionPool; invariants need no fairness.
ConnectionSafety == Init /\ [][Next]_vars

\* notify_all() changes nothing but sleeping threads: the types stay, and whoever holds
\* a connection goes on holding it.
LEMMA WokenKeeps ==
    ASSUME TypeOK, NotifyAll(getter, producer, scanner)
    PROVE  /\ getter' \in [Getters -> {"out", "awake", "asleep", "holding"}]
           /\ producer' \in [Runs -> {"none", "awake", "asleep", "gone"}]
           /\ scanner' \in [Runs -> {"none", "awake", "asleep", "gone"}]
           /\ Lent' = Lent
           /\ \A r \in Runs : producer'[r] = IF producer[r] = "asleep" THEN "awake"
                                             ELSE producer[r]
           /\ \A r \in Runs : scanner[r] = "none" => scanner'[r] = "none"
           /\ \A g \in Getters : getter[g] = "out" => getter'[g] = "out"
  BY DEF TypeOK, NotifyAll, Woken, Lent

\* The same when thread g has just taken a connection.
LEMMA WokenKeepsTaker ==
    ASSUME TypeOK, NEW g \in Getters,
           NotifyAll([getter EXCEPT ![g] = "holding"], producer, scanner)
    PROVE  /\ getter' \in [Getters -> {"out", "awake", "asleep", "holding"}]
           /\ producer' \in [Runs -> {"none", "awake", "asleep", "gone"}]
           /\ scanner' \in [Runs -> {"none", "awake", "asleep", "gone"}]
           /\ Lent' = Lent \union {g}
           /\ \A r \in Runs : producer'[r] = IF producer[r] = "asleep" THEN "awake"
                                             ELSE producer[r]
  BY DEF TypeOK, NotifyAll, Woken, Lent

\* The borrowers are finitely many.
LEMMA LentFinite == IsFiniteSet(Lent) /\ Cardinality(Lent) \in Nat
<1>1. Lent \in SUBSET Getters
  BY DEF Lent
<1>2. IsFiniteSet(Lent)
  BY <1>1, PoolAssumption, FS_Subset DEF PoolAssumption
<1> QED
  BY <1>2, FS_CardinalityType

\* The initial state satisfies every part of the invariant.
LEMMA ConnectionInit == Init => ConnectionInv
<1> SUFFICES ASSUME Init PROVE ConnectionInv
  OBVIOUS
<1> USE PoolAssumption DEF PoolAssumption, Init, Runs
<1>1. TypeOK
  <2>1. /\ idle \in Nat /\ count \in Nat /\ starts \in 0..MaxStarts
        /\ main \in {"new", "spawn", "enable", "started", "drain", "closed"}
    OBVIOUS
  <2>2. exit \in BOOLEAN /\ scanned \in BOOLEAN /\ crashed \in BOOLEAN
    OBVIOUS
  <2>3. /\ getter \in [Getters -> {"out", "awake", "asleep", "holding"}]
        /\ producer \in [Runs -> {"none", "awake", "asleep", "gone"}]
        /\ scanner \in [Runs -> {"none", "awake", "asleep", "gone"}]
    OBVIOUS
  <2> QED
    BY <2>1, <2>2, <2>3 DEF TypeOK
<1>2. ExitInv /\ NewInv /\ CountInv /\ ProducerInv /\ ClosedIsEmpty
  BY DEF ExitInv, NewInv, CountInv, ProducerInv, ClosedIsEmpty
<1> QED
  BY <1>1, <1>2 DEF ConnectionInv

\* Every step keeps the types.
LEMMA ConnectionTypesKept ==
    ASSUME TypeOK, Next
    PROVE  TypeOK'
<1> USE PoolAssumption DEF PoolAssumption, TypeOK, mainVars
<1>1. CASE StartAdd
  BY <1>1 DEF StartAdd
<1>2. CASE StartSpawn
  BY <1>2 DEF StartSpawn
<1>3. CASE StartEnable
  BY <1>3, WokenKeeps DEF StartEnable
<1>4. CASE CloseSetExit
  BY <1>4 DEF CloseSetExit
<1>5. CASE CloseDrain
  BY <1>5, WokenKeeps DEF CloseDrain
<1>6. ASSUME NEW g \in Getters, GetConnection(g)
      PROVE  TypeOK'
  BY <1>6 DEF GetConnection
<1>7. ASSUME NEW g \in Getters, Take(g)
      PROVE  TypeOK'
  <2>1. idle' \in Nat /\ UNCHANGED <<count, mainVars, scanned, crashed>>
    BY <1>7 DEF Take
  <2>2. NotifyAll([getter EXCEPT ![g] = "holding"], producer, scanner)
    BY <1>7 DEF Take
  <2> QED
    BY <1>7, <2>1, <2>2, WokenKeepsTaker
<1>8. ASSUME NEW g \in Getters, Sleep(g)
      PROVE  TypeOK'
  BY <1>8 DEF Sleep
<1>9. ASSUME NEW g \in Getters, WakeUp(g)
      PROVE  TypeOK'
  BY <1>9 DEF WakeUp
<1>10. ASSUME NEW g \in Getters, TimeOut(g)
      PROVE  TypeOK'
  BY <1>10 DEF TimeOut
<1>11. ASSUME NEW g \in Getters, GiveBack(g)
      PROVE  TypeOK'
  BY <1>11 DEF GiveBack
<1>12. ASSUME NEW r \in Runs, ProducerExits(r)
      PROVE  TypeOK'
  BY <1>12 DEF ProducerExits
<1>13. ASSUME NEW r \in Runs, ProducerSleeps(r)
      PROVE  TypeOK'
  BY <1>13 DEF ProducerSleeps
<1>14. ASSUME NEW r \in Runs, Produces(r)
      PROVE  TypeOK'
  BY <1>14, WokenKeeps DEF Produces
<1>15. ASSUME NEW r \in Runs, ProducerWakesUp(r)
      PROVE  TypeOK'
  BY <1>15 DEF ProducerWakesUp
<1>16. ASSUME NEW r \in Runs, ScannerExits(r)
      PROVE  TypeOK'
  BY <1>16 DEF ScannerExits
<1>17. ASSUME NEW r \in Runs, ScannerSleeps(r)
      PROVE  TypeOK'
  BY <1>17 DEF ScannerSleeps
<1>18. ASSUME NEW r \in Runs, Scans(r)
      PROVE  TypeOK'
  BY <1>18 DEF Scans
<1> QED
  BY <1>1, <1>2, <1>3, <1>4, <1>5, <1>6, <1>7, <1>8, <1>9,
     <1>10, <1>11, <1>12, <1>13, <1>14, <1>15, <1>16, <1>17, <1>18
     DEF Next, Main, Getter, Producer, Scanner

\* Only the main thread touches exit_.
LEMMA ExitKept ==
    ASSUME ConnectionInv, Next
    PROVE  ExitInv'
<1> USE DEF ConnectionInv, ExitInv
<1>1. CASE Main
  BY <1>1, PoolAssumption DEF PoolAssumption, TypeOK, NewInv, Main, StartAdd, StartSpawn,
     StartEnable, CloseSetExit, CloseDrain
<1>2. CASE UNCHANGED mainVars
  BY <1>2 DEF mainVars
<1>3. ASSUME NEW g \in Getters, Getter(g)
      PROVE  UNCHANGED mainVars
  BY <1>3 DEF Getter, GetConnection, Take, Sleep, WakeUp, TimeOut, GiveBack
<1>4. ASSUME NEW r \in Runs, Producer(r) \/ Scanner(r)
      PROVE  UNCHANGED mainVars
  BY <1>4 DEF Producer, Scanner, ProducerExits, ProducerSleeps, Produces,
     ProducerWakesUp, ScannerExits, ScannerSleeps, Scans
<1> QED
  BY <1>1, <1>2, <1>3, <1>4 DEF Next

\* Only start() leaves the state in which there is nothing.
LEMMA NewKept ==
    ASSUME ConnectionInv, Next
    PROVE  NewInv'
<1> USE DEF ConnectionInv, TypeOK, NewInv
<1>1. CASE StartAdd
  BY <1>1, PoolAssumption DEF PoolAssumption, StartAdd
<1>2. CASE starts # 0 /\ starts' = starts /\ main' # "new"
  BY <1>2
<1>3. CASE StartSpawn \/ StartEnable \/ CloseSetExit \/ CloseDrain
  BY <1>2, <1>3 DEF StartSpawn, StartEnable, CloseSetExit, CloseDrain
<1>4. ASSUME NEW g \in Getters, Getter(g)
      PROVE  starts # 0 /\ starts' = starts /\ main' # "new"
  <2>1. GetConnection(g) \/ getter[g] # "out"
    BY <1>4 DEF Getter, Take, Sleep, WakeUp, TimeOut, GiveBack
  <2>2. starts' = starts /\ main' = main
    BY <1>4 DEF Getter, GetConnection, Take, Sleep, WakeUp, TimeOut, GiveBack, mainVars
  <2> QED
    BY <2>1, <2>2 DEF GetConnection
<1>5. ASSUME NEW r \in Runs, Producer(r) \/ Scanner(r)
      PROVE  starts # 0 /\ starts' = starts /\ main' # "new"
  <2>1. producer[r] # "none" \/ scanner[r] # "none"
    BY <1>5 DEF Producer, Scanner, ProducerExits, ProducerSleeps, Produces,
       ProducerWakesUp, ScannerExits, ScannerSleeps, Scans
  <2>2. starts' = starts /\ main' = main
    BY <1>5 DEF Producer, Scanner, ProducerExits, ProducerSleeps, Produces,
       ProducerWakesUp, ScannerExits, ScannerSleeps, Scans, mainVars
  <2> QED
    BY <2>1, <2>2
<1> QED
  BY <1>1, <1>2, <1>3, <1>4, <1>5 DEF Next, Main

\* Each step that moves, makes or destroys a connection counts it.
LEMMA CountKept ==
    ASSUME ConnectionInv, Next, starts' = 1, ~exit', ~crashed'
    PROVE  count' = idle' + Cardinality(Lent') /\ count' \in minSize..maxSize
<1> USE PoolAssumption DEF PoolAssumption
<1>1. Cardinality(Lent) \in Nat /\ idle \in Nat /\ count \in Nat
  BY LentFinite DEF ConnectionInv, TypeOK
<1>2. CASE StartAdd
  <2>1. starts = 0
    BY <1>2 DEF StartAdd, ConnectionInv, TypeOK
  <2>2. Lent' = {}
    BY <1>2, <2>1 DEF StartAdd, Lent, ConnectionInv, NewInv
  <2>3. Cardinality(Lent') = 0
    BY <2>2, FS_EmptySet
  <2>4. idle' = minSize /\ count' = minSize
    BY <1>2, <2>1 DEF StartAdd, ConnectionInv, NewInv
  <2> QED
    BY <2>3, <2>4
<1>3. ASSUME starts = 1, ~exit, UNCHANGED <<idle, count>>, Lent' = Lent
      PROVE  count' = idle' + Cardinality(Lent') /\ count' \in minSize..maxSize
  BY <1>3 DEF ConnectionInv, CountInv, Next
<1>4. CASE StartSpawn
  BY <1>3, <1>4 DEF StartSpawn, Lent
<1>5. CASE StartEnable
  BY <1>3, <1>5, WokenKeeps DEF StartEnable, ConnectionInv, ExitInv
<1>6. CASE CloseSetExit \/ CloseDrain
  BY <1>6 DEF CloseSetExit, CloseDrain, ConnectionInv, ExitInv
<1>7. ASSUME NEW g \in Getters, Getter(g)
      PROVE  count' = idle' + Cardinality(Lent') /\ count' \in minSize..maxSize
  <2>1. starts = 1 /\ ~exit /\ ~crashed
    BY <1>7 DEF Next, Getter, GetConnection, Take, Sleep, WakeUp, TimeOut, GiveBack,
       mainVars
  <2>2. count = idle + Cardinality(Lent) /\ count \in minSize..maxSize
    BY <2>1 DEF ConnectionInv, CountInv
  <2>3. CASE GetConnection(g) \/ Sleep(g) \/ WakeUp(g) \/ TimeOut(g)
    <3>1. Lent' = Lent
      BY <2>3 DEF GetConnection, Sleep, WakeUp, TimeOut, Lent, ConnectionInv, TypeOK
    <3> QED
      BY <1>3, <2>1, <2>3, <3>1 DEF GetConnection, Sleep, WakeUp, TimeOut
  <2>4. CASE Take(g)
    <3>1. Lent' = Lent \union {g} /\ g \notin Lent
      BY <2>4, WokenKeepsTaker DEF Take, Lent, ConnectionInv
    <3>2. Cardinality(Lent') = Cardinality(Lent) + 1
      BY <3>1, LentFinite, FS_AddElement
    <3> QED
      BY <1>1, <2>2, <2>4, <3>2 DEF Take
  <2>5. CASE GiveBack(g)
    <3>1. Lent' = Lent \ {g} /\ g \in Lent
      BY <2>5 DEF GiveBack, Lent, ConnectionInv, TypeOK
    <3>2. Cardinality(Lent') = Cardinality(Lent) - 1
      BY <3>1, LentFinite, FS_RemoveElement
    <3> QED
      BY <1>1, <2>1, <2>2, <2>5, <3>2 DEF GiveBack
  <2> QED
    BY <1>7, <2>3, <2>4, <2>5 DEF Getter
<1>8. ASSUME NEW r \in Runs, Producer(r) \/ Scanner(r)
      PROVE  count' = idle' + Cardinality(Lent') /\ count' \in minSize..maxSize
  <2>1. starts = 1 /\ ~exit /\ ~crashed
    BY <1>8 DEF Next, Producer, Scanner, ProducerExits, ProducerSleeps, Produces,
       ProducerWakesUp, ScannerExits, ScannerSleeps, Scans, mainVars
  <2>2. count = idle + Cardinality(Lent) /\ count \in minSize..maxSize
    BY <2>1 DEF ConnectionInv, CountInv
  <2>3. Lent' = Lent
    BY <1>8, WokenKeeps DEF Producer, Scanner, ProducerExits, ProducerSleeps, Produces,
       ProducerWakesUp, ScannerExits, ScannerSleeps, Scans, Lent, ConnectionInv
  <2>4. CASE Produces(r)
    BY <1>1, <2>2, <2>3, <2>4 DEF Produces
  <2>5. CASE Scans(r)
    <3>1. PICK k \in 0..idle : /\ k > 0 => count - k >= minSize
                               /\ idle' = idle - k /\ count' = count - k
      BY <2>5 DEF Scans
    <3> QED
      BY <1>1, <2>2, <2>3, <3>1
  <2>6. CASE UNCHANGED <<idle, count>>
    BY <1>3, <2>1, <2>3, <2>6
  <2> QED
    BY <1>8, <2>4, <2>5, <2>6 DEF Producer, Scanner, ProducerExits, ProducerSleeps,
       ProducerWakesUp, ScannerExits, ScannerSleeps
<1> QED
  BY <1>2, <1>4, <1>5, <1>6, <1>7, <1>8 DEF Next, Main

\* The scanner empties the queue with more than minSize_ counted: all of them are lent.
LEMMA CrashKept ==
    ASSUME ConnectionInv, Next, starts' = 1, crashed'
    PROVE  Cardinality(Lent') > minSize
<1>1. PICK r \in Runs : Scans(r)
  <2>1. ~crashed
    BY DEF Next
  <2> QED
    BY <2>1 DEF Next, Main, StartAdd, StartSpawn, StartEnable, CloseSetExit, CloseDrain,
       Getter, GetConnection, Take, Sleep, WakeUp, TimeOut, GiveBack,
       Producer, ProducerExits, ProducerSleeps, Produces, ProducerWakesUp,
       Scanner, ScannerExits, ScannerSleeps
<1>2. starts = 1 /\ ~exit /\ ~crashed /\ Lent' = Lent
  BY <1>1 DEF Scans, mainVars, Next, Lent
<1>3. PICK k \in 0..idle : k = idle /\ count - k > minSize
  BY <1>1 DEF Scans
<1>4. Cardinality(Lent) \in Nat /\ idle \in Nat /\ count \in Nat /\ minSize \in Nat
  BY LentFinite, PoolAssumption DEF ConnectionInv, TypeOK, PoolAssumption
<1> QED
  BY <1>2, <1>3, <1>4 DEF ConnectionInv, CountInv

\* Only taking the last connection, and the scanner, empty the queue; the taker wakes
\* the producer.
LEMMA ProducerKept ==
    ASSUME ConnectionInv, Next, starts' = 1, ~exit', ~crashed', main' # "spawn"
    PROVE  /\ producer'[1] \in {"awake", "asleep"}
           /\ idle' = 0 /\ ~scanned' => producer'[1] = "awake"
<1> DEFINE Goal == /\ producer'[1] \in {"awake", "asleep"}
                   /\ idle' = 0 /\ ~scanned' => producer'[1] = "awake"
<1>1. 1 \in Runs /\ idle \in Nat /\ starts \in Nat
  BY PoolAssumption DEF PoolAssumption, Runs, ConnectionInv, TypeOK
<1>2. ASSUME starts = 1, ~exit, main # "spawn"
      PROVE  /\ producer[1] \in {"awake", "asleep"}
             /\ idle = 0 /\ ~scanned => producer[1] = "awake"
  BY <1>2 DEF ConnectionInv, ProducerInv, Next
<1>3. CASE StartSpawn
  BY <1>1, <1>3 DEF StartSpawn, ConnectionInv, TypeOK
<1>4. CASE StartEnable
  BY <1>1, <1>2, <1>4, WokenKeeps DEF StartEnable, ConnectionInv, ExitInv
<1>5. CASE StartAdd \/ CloseSetExit \/ CloseDrain
  BY <1>5 DEF StartAdd, CloseSetExit, CloseDrain, ConnectionInv, ExitInv
<1>6. ASSUME NEW g \in Getters, Getter(g)
      PROVE  Goal
  <2>1. starts = 1 /\ ~exit /\ main # "spawn"
    BY <1>6 DEF Getter, GetConnection, Take, Sleep, WakeUp, TimeOut, GiveBack, mainVars
  <2>2. CASE Take(g)
    BY <1>1, <1>2, <2>1, <2>2, WokenKeepsTaker DEF Take, ConnectionInv
  <2>3. CASE GiveBack(g)
    BY <1>1, <1>2, <2>1, <2>3 DEF GiveBack
  <2>4. CASE UNCHANGED <<idle, producer, scanned>>
    BY <1>2, <2>1, <2>4
  <2> QED
    BY <1>6, <2>2, <2>3, <2>4 DEF Getter, GetConnection, Sleep, WakeUp, TimeOut
<1>7. ASSUME NEW r \in Runs, Producer(r)
      PROVE  Goal
  <2>1. starts = 1 /\ ~exit /\ main # "spawn"
    BY <1>7 DEF Producer, ProducerExits, ProducerSleeps, Produces, ProducerWakesUp,
       mainVars
  <2>2. CASE Produces(r)
    BY <1>1, <1>2, <2>1, <2>2, WokenKeeps DEF Produces, ConnectionInv
  <2>3. CASE ProducerSleeps(r)
    BY <1>1, <1>2, <2>1, <2>3 DEF ProducerSleeps, ConnectionInv, TypeOK
  <2>4. CASE ProducerWakesUp(r)
    BY <1>1, <1>2, <2>1, <2>4 DEF ProducerWakesUp, ConnectionInv, TypeOK
  <2> QED
    BY <1>7, <2>1, <2>2, <2>3, <2>4 DEF Producer, ProducerExits
<1>8. ASSUME NEW r \in Runs, Scanner(r)
      PROVE  Goal
  <2>1. starts = 1 /\ ~exit /\ main # "spawn" /\ producer' = producer
    BY <1>8 DEF Scanner, ScannerExits, ScannerSleeps, Scans, mainVars
  <2>2. CASE Scans(r)
    <3>1. PICK k \in 0..idle : idle' = idle - k /\ scanned' = (scanned \/ k > 0)
      BY <2>2 DEF Scans
    <3>2. ~scanned' => ~scanned /\ ~(k > 0)
      BY <3>1, Zenon
    <3>3. ~(k > 0) => idle' = idle
      BY <1>1, <3>1
    <3> QED
      BY <1>2, <2>1, <3>2, <3>3
  <2>3. CASE ~Scans(r)
    BY <1>2, <1>8, <2>1, <2>3 DEF Scanner, ScannerExits, ScannerSleeps
  <2> QED
    BY <2>2, <2>3
<1> QED
  BY <1>3, <1>4, <1>5, <1>6, <1>7, <1>8 DEF Next, Main

\* Once exit_ is set nothing is queued until start() is called again.
LEMMA ClosedKept ==
    ASSUME ConnectionInv, Next
    PROVE  ClosedIsEmpty'
<1> USE DEF ConnectionInv, ExitInv, ClosedIsEmpty
<1>1. CASE Main
  BY <1>1 DEF Main, StartAdd, StartSpawn, StartEnable, CloseSetExit, CloseDrain
<1>2. ASSUME NEW g \in Getters, Getter(g)
      PROVE  ClosedIsEmpty'
  BY <1>2 DEF Getter, GetConnection, Take, Sleep, WakeUp, TimeOut, GiveBack, mainVars
<1>3. ASSUME NEW r \in Runs, Producer(r) \/ Scanner(r)
      PROVE  ClosedIsEmpty'
  BY <1>3 DEF Producer, Scanner, ProducerExits, ProducerSleeps, Produces,
     ProducerWakesUp, ScannerExits, ScannerSleeps, Scans, mainVars
<1> QED
  BY <1>1, <1>2, <1>3 DEF Next

-----------------------------------------------------------------------------
\* The invariant is inductive.
LEMMA ConnectionInvariant == ConnectionSafety => []ConnectionInv
<1>1. ConnectionInv /\ [Next]_vars => ConnectionInv'
  <2> SUFFICES ASSUME ConnectionInv, [Next]_vars PROVE ConnectionInv'
    OBVIOUS
  <2>1. CASE Next
    <3>1. TypeOK' /\ ExitInv' /\ NewInv' /\ ClosedIsEmpty'
      BY <2>1, ConnectionTypesKept, ExitKept, NewKept, ClosedKept DEF ConnectionInv
    <3>2. CountInv'
      BY <2>1, CountKept, CrashKept DEF CountInv
    <3>3. ProducerInv'
      BY <2>1, ProducerKept DEF ProducerInv
    <3> QED
      BY <3>1, <3>2, <3>3 DEF ConnectionInv
  <2>2. CASE UNCHANGED vars
    BY <2>2 DEF vars, mainVars, ConnectionInv, TypeOK, ExitInv, NewInv, CountInv, ProducerInv,
       ClosedIsEmpty, Lent
  <2> QED
    BY <2>1, <2>2
<1> QED
  BY <1>1, ConnectionInit, PTL DEF ConnectionSafety

-----------------------------------------------------------------------------
(* ThreadPool: the destructor leaves no accepted task behind, and no       *)
(* worker sleeps while it is needed.                                       *)

\* The steps of ThreadPool; invariants need no fairness.
ThreadSafety == TP!Init /\ [][TP!Next]_(TP!vars)

ThreadConstants == IsFiniteSet(Workers) /\ Workers # {} /\ None \notin Tasks

-----------------------------------------------------------------------------
(* Types.                                                                  *)

\* An instance has operators of its own, Cardinality among them.
LEMMA ThreadCardinality == \A S : TP!Cardinality(S) = Cardinality(S)
BY DEF TP!Cardinality, Cardinality

LEMMA ThreadTypeInit == ASSUME ThreadConstants PROVE TP!Init => TP!TypeOK
<1> SUFFICES ASSUME TP!Init PROVE TP!TypeOK
  OBVIOUS
<1>1. tasks \in Seq(Tasks)
  BY DEF TP!Init
<1>2. exit_flag \in BOOLEAN
  BY DEF TP!Init
<1> QED BY <1>1, <1>2 DEF TP!Init, TP!TypeOK, ThreadConstants

LEMMA ThreadTypeStep ==
    ASSUME ThreadConstants, TP!TypeOK, [TP!Next]_(TP!vars)
    PROVE  TP!TypeOK'
<1> USE DEF TP!TypeOK, ThreadConstants
<1>1. ASSUME NEW k \in Tasks, TP!OwnerSubmits(k) PROVE TP!TypeOK'
  BY <1>1 DEF TP!OwnerSubmits, TP!Push
<1>2. ASSUME NEW w \in Workers, NEW k \in Tasks, TP!TaskSubmits(w, k) PROVE TP!TypeOK'
  BY <1>2 DEF TP!TaskSubmits, TP!Push
<1>3. ASSUME NEW k \in Tasks, TP!SubmitRefused(k) PROVE TP!TypeOK'
  BY <1>3 DEF TP!SubmitRefused, TP!Refuse
<1>4. CASE TP!OwnerNotifies
  <2>1. PICK S \in TP!Notified : pc' = TP!Woken(pc, S)
    BY <1>4 DEF TP!OwnerNotifies
  <2>2. S \subseteq TP!Sleepers
    BY DEF TP!Notified, TP!Sleepers
  <2> QED BY <1>4, <2>1, <2>2 DEF TP!OwnerNotifies, TP!Woken, TP!Sleepers
<1>5. ASSUME NEW w \in Workers, TP!TaskNotifies(w) PROVE TP!TypeOK'
  <2>1. PICK S \in TP!Notified : pc' = TP!Woken([pc EXCEPT ![w] = "run"], S)
    BY <1>5 DEF TP!TaskNotifies
  <2>2. S \subseteq TP!Sleepers
    BY DEF TP!Notified, TP!Sleepers
  <2> QED BY <1>5, <2>1, <2>2 DEF TP!TaskNotifies, TP!Woken, TP!Sleepers
<1>6. ASSUME NEW w \in Workers, TP!Sleep(w) \/ TP!WakeSpuriously(w) \/ TP!Leave(w)
      PROVE  TP!TypeOK'
  BY <1>6 DEF TP!Sleep, TP!WakeSpuriously, TP!Leave
<1>7. ASSUME NEW w \in Workers, TP!TakeTask(w) PROVE TP!TypeOK'
  BY <1>7 DEF TP!TakeTask
<1>8. ASSUME NEW w \in Workers, TP!EndTask(w) PROVE TP!TypeOK'
  BY <1>8 DEF TP!EndTask
<1>9. CASE TP!SetExit \/ TP!Join
  BY <1>9 DEF TP!SetExit, TP!Join
<1>10. CASE TP!NotifyExit
  BY <1>10 DEF TP!NotifyExit, TP!Woken, TP!Sleepers
<1>11. CASE UNCHANGED TP!vars
  BY <1>11 DEF TP!vars
<1> QED
  BY <1>1, <1>2, <1>3, <1>4, <1>5, <1>6, <1>7, <1>8, <1>9, <1>10, <1>11
     DEF TP!Next, TP!Works, TP!Destroys

\* Type correctness for any workers and tasks: a worker holds a task exactly while it
\* runs one.
LEMMA ThreadTypeCorrect ==
    ASSUME ThreadConstants
    PROVE  ThreadSafety => []TP!TypeOK
BY ThreadTypeInit, ThreadTypeStep, PTL DEF ThreadSafety

-----------------------------------------------------------------------------
(* The destructor.                                                         *)

\* Workers leave only a pool that ends.
LeftAtExit ==
    /\ \A w \in Workers : pc[w] = "gone" => exit_flag
    /\ owner \in {"exit", "join", "gone"} => exit_flag
    /\ edition = "mgkl" /\ owner \in {"use", "notify"} => ~exit_flag
    /\ owner = "gone" => \A w \in Workers : pc[w] = "gone"

\* The last one leaves an empty queue, to which nobody can add.
LastLeavesNothing == (\A w \in Workers : pc[w] = "gone") => tasks = <<>>

\* A task that has been accepted and not ended is in the queue or with a worker.
NoTaskAstray ==
    \A k \in Tasks :
        /\ status[k] = "queued" => \E i \in 1..Len(tasks) : tasks[i] = k
        /\ status[k] = "running" => \E w \in Workers : task[w] = k

DrainInv == LeftAtExit /\ LastLeavesNothing /\ NoTaskAstray

LEMMA DrainInit == ASSUME ThreadConstants PROVE TP!Init => DrainInv
BY DEF TP!Init, DrainInv, LeftAtExit, LastLeavesNothing, NoTaskAstray, ThreadConstants

LEMMA LeftAtExitStep ==
    ASSUME ThreadConstants, TP!TypeOK, LeftAtExit, [TP!Next]_(TP!vars)
    PROVE  LeftAtExit'
<1> USE DEF TP!TypeOK, LeftAtExit
<1>1. ASSUME NEW k \in Tasks, TP!OwnerSubmits(k) PROVE LeftAtExit'
  BY <1>1 DEF TP!OwnerSubmits, TP!Push
<1>2. ASSUME NEW w \in Workers, NEW k \in Tasks, TP!TaskSubmits(w, k) PROVE LeftAtExit'
  BY <1>2 DEF TP!TaskSubmits, TP!Push
<1>3. ASSUME NEW k \in Tasks, TP!SubmitRefused(k) PROVE LeftAtExit'
  BY <1>3 DEF TP!SubmitRefused, TP!Refuse
<1>4. CASE TP!OwnerNotifies
  BY <1>4 DEF TP!OwnerNotifies, TP!Woken
<1>5. ASSUME NEW w \in Workers, TP!TaskNotifies(w) PROVE LeftAtExit'
  BY <1>5 DEF TP!TaskNotifies, TP!Woken
<1>6. ASSUME NEW w \in Workers, TP!Sleep(w) \/ TP!WakeSpuriously(w) \/ TP!Leave(w)
      PROVE  LeftAtExit'
  BY <1>6 DEF TP!Sleep, TP!WakeSpuriously, TP!Leave
<1>7. ASSUME NEW w \in Workers, TP!TakeTask(w) PROVE LeftAtExit'
  BY <1>7 DEF TP!TakeTask
<1>8. ASSUME NEW w \in Workers, TP!EndTask(w) PROVE LeftAtExit'
  BY <1>8 DEF TP!EndTask
<1>9. CASE TP!SetExit \/ TP!Join
  BY <1>9 DEF TP!SetExit, TP!Join
<1>10. CASE TP!NotifyExit
  BY <1>10 DEF TP!NotifyExit, TP!Woken, TP!Sleepers
<1>11. CASE UNCHANGED TP!vars
  BY <1>11 DEF TP!vars
<1> QED
  BY <1>1, <1>2, <1>3, <1>4, <1>5, <1>6, <1>7, <1>8, <1>9, <1>10, <1>11
     DEF TP!Next, TP!Works, TP!Destroys

LEMMA LastLeavesNothingStep ==
    ASSUME ThreadConstants, TP!TypeOK, LeftAtExit, LastLeavesNothing, [TP!Next]_(TP!vars)
    PROVE  LastLeavesNothing'
<1> USE DEF TP!TypeOK, LeftAtExit, LastLeavesNothing, ThreadConstants
<1>1. ASSUME NEW k \in Tasks, TP!OwnerSubmits(k) PROVE LastLeavesNothing'
  BY <1>1 DEF TP!OwnerSubmits, TP!Push
<1>2. ASSUME NEW w \in Workers, NEW k \in Tasks, TP!TaskSubmits(w, k) PROVE LastLeavesNothing'
  BY <1>2 DEF TP!TaskSubmits, TP!Push
<1>3. ASSUME NEW k \in Tasks, TP!SubmitRefused(k) PROVE LastLeavesNothing'
  BY <1>3 DEF TP!SubmitRefused, TP!Refuse
<1>4. CASE TP!OwnerNotifies
  BY <1>4 DEF TP!OwnerNotifies, TP!Woken
<1>5. ASSUME NEW w \in Workers, TP!TaskNotifies(w) PROVE LastLeavesNothing'
  BY <1>5 DEF TP!TaskNotifies, TP!Woken
<1>6. ASSUME NEW w \in Workers, TP!Sleep(w) \/ TP!WakeSpuriously(w) \/ TP!Leave(w)
      PROVE  LastLeavesNothing'
  BY <1>6 DEF TP!Sleep, TP!WakeSpuriously, TP!Leave
<1>7. ASSUME NEW w \in Workers, TP!TakeTask(w) PROVE LastLeavesNothing'
  BY <1>7 DEF TP!TakeTask
<1>8. ASSUME NEW w \in Workers, TP!EndTask(w) PROVE LastLeavesNothing'
  BY <1>8 DEF TP!EndTask
<1>9. CASE TP!SetExit \/ TP!Join
  BY <1>9 DEF TP!SetExit, TP!Join
<1>10. CASE TP!NotifyExit
  BY <1>10 DEF TP!NotifyExit, TP!Woken, TP!Sleepers
<1>11. CASE UNCHANGED TP!vars
  BY <1>11 DEF TP!vars
<1> QED
  BY <1>1, <1>2, <1>3, <1>4, <1>5, <1>6, <1>7, <1>8, <1>9, <1>10, <1>11
     DEF TP!Next, TP!Works, TP!Destroys

\* What submit() appends does not hide what was queued before.
LEMMA NoTaskAstrayPush ==
    ASSUME TP!TypeOK, NoTaskAstray, NEW k \in Tasks, TP!Push(k)
    PROVE  NoTaskAstray'
<1> USE DEF TP!TypeOK, NoTaskAstray, TP!Push
<1>1. ASSUME NEW j \in Tasks, status'[j] = "queued"
      PROVE  \E i \in 1..Len(tasks') : tasks'[i] = j
  <2>1. CASE j = k
    <3>1. Len(tasks') = Len(tasks) + 1 /\ tasks'[Len(tasks) + 1] = k
      OBVIOUS
    <3> QED BY <2>1, <3>1
  <2>2. CASE j # k
    <3>1. PICK i \in 1..Len(tasks) : tasks[i] = j
      BY <1>1, <2>2
    <3>2. i \in 1..Len(tasks') /\ tasks'[i] = j
      BY <3>1
    <3> QED BY <3>2
  <2> QED BY <2>1, <2>2
<1>2. ASSUME NEW j \in Tasks, status'[j] = "running" PROVE \E w \in Workers : task'[w] = j
  BY <1>2
<1> QED BY <1>1, <1>2

LEMMA NoTaskAstrayStep ==
    ASSUME ThreadConstants, TP!TypeOK, NoTaskAstray, [TP!Next]_(TP!vars)
    PROVE  NoTaskAstray'
<1> USE DEF TP!TypeOK, ThreadConstants
<1>1. ASSUME NEW k \in Tasks, TP!OwnerSubmits(k) PROVE NoTaskAstray'
  BY <1>1, NoTaskAstrayPush DEF TP!OwnerSubmits
<1>2. ASSUME NEW w \in Workers, NEW k \in Tasks, TP!TaskSubmits(w, k) PROVE NoTaskAstray'
  BY <1>2, NoTaskAstrayPush DEF TP!TaskSubmits
<1>3. ASSUME NEW k \in Tasks, TP!SubmitRefused(k) PROVE NoTaskAstray'
  BY <1>3 DEF TP!SubmitRefused, TP!Refuse, NoTaskAstray
<1>4. CASE TP!OwnerNotifies
  BY <1>4 DEF TP!OwnerNotifies, NoTaskAstray
<1>5. ASSUME NEW w \in Workers, TP!TaskNotifies(w) PROVE NoTaskAstray'
  BY <1>5 DEF TP!TaskNotifies, NoTaskAstray
<1>6. ASSUME NEW w \in Workers, TP!Sleep(w) \/ TP!WakeSpuriously(w) \/ TP!Leave(w)
      PROVE  NoTaskAstray'
  BY <1>6 DEF TP!Sleep, TP!WakeSpuriously, TP!Leave, NoTaskAstray
<1>7. ASSUME NEW w \in Workers, TP!TakeTask(w) PROVE NoTaskAstray'
  <2>1. ASSUME NEW j \in Tasks, status'[j] = "queued"
        PROVE  \E i \in 1..Len(tasks') : tasks'[i] = j
    <3>1. j # Head(tasks) /\ status[j] = "queued"
      BY <1>7, <2>1 DEF TP!TakeTask
    <3>2. PICK i \in 1..Len(tasks) : tasks[i] = j
      BY <3>1 DEF NoTaskAstray
    <3>3. i - 1 \in 1..Len(tasks') /\ tasks'[i - 1] = j
      BY <1>7, <3>1, <3>2 DEF TP!TakeTask
    <3> QED BY <3>3
  <2>2. ASSUME NEW j \in Tasks, status'[j] = "running" PROVE \E v \in Workers : task'[v] = j
    <3>1. CASE j = Head(tasks)
      BY <1>7, <3>1 DEF TP!TakeTask
    <3>2. CASE j # Head(tasks)
      <4>1. PICK v \in Workers : task[v] = j
        BY <1>7, <2>2, <3>2 DEF TP!TakeTask, NoTaskAstray
      <4>2. v # w
        BY <1>7, <4>1 DEF TP!TakeTask
      <4> QED BY <1>7, <4>1, <4>2 DEF TP!TakeTask
    <3> QED BY <3>1, <3>2
  <2> QED BY <2>1, <2>2 DEF NoTaskAstray
<1>8. ASSUME NEW w \in Workers, TP!EndTask(w) PROVE NoTaskAstray'
  BY <1>8 DEF TP!EndTask, NoTaskAstray
<1>9. CASE TP!SetExit \/ TP!Join \/ TP!NotifyExit
  BY <1>9 DEF TP!SetExit, TP!Join, TP!NotifyExit, NoTaskAstray
<1>10. CASE UNCHANGED TP!vars
  BY <1>10 DEF TP!vars, NoTaskAstray
<1> QED
  BY <1>1, <1>2, <1>3, <1>4, <1>5, <1>6, <1>7, <1>8, <1>9, <1>10 DEF TP!Next, TP!Works,
                                                                     TP!Destroys

\* When the destructor returns, every accepted task has run to its end, with any number
\* of workers, whoever submits and however late.
LEMMA ThreadDestroyedDrained ==
    ASSUME ThreadConstants
    PROVE  ThreadSafety => []TP!DestroyedMeansDrained
<1>1. TP!TypeOK /\ DrainInv /\ [TP!Next]_(TP!vars) => DrainInv'
  BY LeftAtExitStep, LastLeavesNothingStep, NoTaskAstrayStep DEF DrainInv
<1>2. TP!TypeOK /\ DrainInv => TP!DestroyedMeansDrained
  <2> SUFFICES ASSUME TP!TypeOK, DrainInv, owner = "gone", NEW k \in Tasks
               PROVE  status[k] \in {"new", "refused", "done"}
    BY DEF TP!DestroyedMeansDrained
  <2>1. \A w \in Workers : pc[w] = "gone" /\ task[w] = None
    BY DEF DrainInv, LeftAtExit, TP!TypeOK
  <2>2. Len(tasks) = 0
    BY <2>1 DEF DrainInv, LastLeavesNothing
  <2> QED BY <2>1, <2>2 DEF DrainInv, NoTaskAstray, TP!TypeOK, ThreadConstants
<1> QED BY DrainInit, ThreadTypeCorrect, <1>1, <1>2, PTL DEF ThreadSafety

-----------------------------------------------------------------------------
(* The notifications.                                                      *)

\* The workers that will look at the queue.
Lookers == {w \in Workers : pc[w] \in {"lock", "notify"}}

LEMMA LookersFinite ==
    ASSUME ThreadConstants
    PROVE  IsFiniteSet(Lookers) /\ Cardinality(Lookers) \in Nat
BY FS_Subset, FS_CardinalityType DEF Lookers, ThreadConstants

LEMMA ComingIsLookers ==
    TP!Coming = Cardinality(Lookers) + (IF owner = "notify" THEN 1 ELSE 0)
BY ThreadCardinality DEF TP!Coming, Lookers

LEMMA OneMore ==
    ASSUME ThreadConstants, NEW w \in Workers, w \notin Lookers, Lookers' = Lookers \union {w}
    PROVE  Cardinality(Lookers') = Cardinality(Lookers) + 1
BY LookersFinite, FS_AddElement

LEMMA OneLess ==
    ASSUME ThreadConstants, NEW w \in Workers, w \in Lookers, Lookers' = Lookers \ {w}
    PROVE  Cardinality(Lookers') = Cardinality(Lookers) - 1
BY LookersFinite, FS_RemoveElement

LEMMA SleepersStep ==
    ASSUME ThreadConstants, TP!TypeOK, TP!SleepersNotNeeded, [TP!Next]_(TP!vars)
    PROVE  TP!SleepersNotNeeded'
<1> USE DEF TP!TypeOK, TP!Sleepers
<1> DEFINE extra == IF owner = "notify" THEN 1 ELSE 0
<1>c. /\ Cardinality(Lookers) \in Nat
      /\ TP!Coming = Cardinality(Lookers) + extra
      /\ TP!Coming' = Cardinality(Lookers') + extra'
  BY LookersFinite, ComingIsLookers, ThreadCardinality DEF TP!Coming, Lookers
<1>l. Len(tasks) \in Nat
  OBVIOUS
<1> SUFFICES ASSUME TP!Sleepers' # {} PROVE Len(tasks') <= TP!Coming'
  BY DEF TP!SleepersNotNeeded
<1> HIDE DEF extra
<1>e. extra = IF owner = "notify" THEN 1 ELSE 0
  BY DEF extra
<1>f. extra' = IF owner' = "notify" THEN 1 ELSE 0
  BY DEF extra
<1>x. extra \in Nat
  BY <1>e
<1>s. TP!Sleepers # {} => Len(tasks) <= TP!Coming
  BY DEF TP!SleepersNotNeeded
<1> HIDE DEF TP!Sleepers
<1>1. ASSUME NEW k \in Tasks, TP!OwnerSubmits(k) PROVE Len(tasks') <= TP!Coming'
  <2>1. Lookers' = Lookers /\ TP!Sleepers' = TP!Sleepers /\ Len(tasks') = Len(tasks) + 1
    BY <1>1 DEF TP!OwnerSubmits, TP!Push, Lookers, TP!Sleepers
  <2>2. extra = 0 /\ extra' = 1
    BY <1>1, <1>e, <1>f DEF TP!OwnerSubmits
  <2> QED BY <1>c, <1>l, <1>s, <2>1, <2>2
<1>2. ASSUME NEW w \in Workers, NEW k \in Tasks, TP!TaskSubmits(w, k)
      PROVE  Len(tasks') <= TP!Coming'
  <2>1. w \notin Lookers /\ Lookers' = Lookers \union {w}
    BY <1>2 DEF TP!TaskSubmits, TP!Push, Lookers
  <2>2. TP!Sleepers' = TP!Sleepers /\ Len(tasks') = Len(tasks) + 1 /\ extra' = extra
    BY <1>2, <1>e, <1>f DEF TP!TaskSubmits, TP!Push, TP!Sleepers
  <2>3. Cardinality(Lookers') = Cardinality(Lookers) + 1
    BY <2>1, OneMore
  <2> QED BY <1>c, <1>l, <1>s, <1>x, <2>2, <2>3
<1>3. ASSUME NEW k \in Tasks, TP!SubmitRefused(k) PROVE Len(tasks') <= TP!Coming'
  <2>1. Lookers' = Lookers /\ TP!Sleepers' = TP!Sleepers /\ tasks' = tasks /\ extra' = extra
    BY <1>3, <1>e, <1>f DEF TP!SubmitRefused, TP!Refuse, Lookers, TP!Sleepers
  <2> QED BY <1>c, <1>s, <2>1
<1>4. CASE TP!OwnerNotifies
  <2>1. PICK S \in TP!Notified : pc' = TP!Woken(pc, S)
    BY <1>4 DEF TP!OwnerNotifies
  <2>2. TP!Sleepers' = TP!Sleepers \ S /\ S \subseteq TP!Sleepers
    BY <2>1 DEF TP!Notified, TP!Woken, TP!Sleepers
  <2>3. PICK v \in TP!Sleepers : S = {v}
    BY <2>1, <2>2 DEF TP!Notified
  <2>4. v \in Workers /\ v \notin Lookers /\ Lookers' = Lookers \union {v}
    BY <2>1, <2>3 DEF TP!Woken, Lookers, TP!Sleepers
  <2>5. extra = 1 /\ extra' = 0 /\ tasks' = tasks
    BY <1>4, <1>e, <1>f DEF TP!OwnerNotifies
  <2>6. Cardinality(Lookers') = Cardinality(Lookers) + 1
    BY <2>4, OneMore
  <2> QED BY <1>c, <1>l, <1>s, <1>x, <2>3, <2>5, <2>6
<1>5. ASSUME NEW w \in Workers, TP!TaskNotifies(w) PROVE Len(tasks') <= TP!Coming'
  <2>1. PICK S \in TP!Notified : pc' = TP!Woken([pc EXCEPT ![w] = "run"], S)
    BY <1>5 DEF TP!TaskNotifies
  <2>2. TP!Sleepers' = TP!Sleepers \ S /\ S \subseteq TP!Sleepers
    BY <1>5, <2>1 DEF TP!Notified, TP!Woken, TP!Sleepers, TP!TaskNotifies
  <2>3. PICK v \in TP!Sleepers : S = {v}
    BY <2>1, <2>2 DEF TP!Notified
  <2>4. /\ v \in Workers /\ v \notin Lookers /\ v # w /\ w \in Lookers
        /\ Lookers' = (Lookers \ {w}) \union {v}
    <3>1. v \in Workers /\ pc[v] = "wait" /\ pc[w] = "notify"
      BY <1>5, <2>3 DEF TP!Sleepers, TP!TaskNotifies
    <3>2. pc' = [u \in Workers |-> IF u = v THEN "lock" ELSE IF u = w THEN "run" ELSE pc[u]]
      BY <2>1, <2>3, <3>1 DEF TP!Woken
    <3> QED BY <3>1, <3>2 DEF Lookers
  <2>5. Cardinality(Lookers \ {w}) = Cardinality(Lookers) - 1 /\ IsFiniteSet(Lookers \ {w})
    BY <2>4, LookersFinite, FS_RemoveElement
  <2>6. Cardinality(Lookers') = Cardinality(Lookers)
    <3>1. v \notin Lookers \ {w} /\ Lookers' = (Lookers \ {w}) \union {v}
      BY <2>4
    <3>2. Cardinality(Lookers') = Cardinality(Lookers \ {w}) + 1
      BY <2>5, <3>1, FS_AddElement
    <3> QED BY <1>c, <2>5, <3>2
  <2>7. extra' = extra /\ tasks' = tasks
    BY <1>5, <1>e, <1>f DEF TP!TaskNotifies
  <2> QED BY <1>c, <1>s, <2>3, <2>6, <2>7
<1>6. ASSUME NEW w \in Workers, TP!Sleep(w) \/ TP!Leave(w) PROVE Len(tasks') <= TP!Coming'
  <2>1. Len(tasks') = 0
    BY <1>6 DEF TP!Sleep, TP!Leave
  <2>2. Cardinality(Lookers') \in Nat
    <3>1. IsFiniteSet(Lookers')
      BY FS_Subset DEF Lookers, ThreadConstants
    <3> QED BY <3>1, FS_CardinalityType
  <2> QED BY <1>c, <1>f, <2>1, <2>2
<1>7. ASSUME NEW w \in Workers, TP!WakeSpuriously(w) PROVE Len(tasks') <= TP!Coming'
  <2>1. w \in TP!Sleepers /\ w \notin Lookers /\ Lookers' = Lookers \union {w}
    BY <1>7 DEF TP!WakeSpuriously, Lookers, TP!Sleepers
  <2>2. tasks' = tasks /\ extra' = extra
    BY <1>7, <1>e, <1>f DEF TP!WakeSpuriously
  <2>3. Cardinality(Lookers') = Cardinality(Lookers) + 1
    BY <2>1, OneMore
  <2> QED BY <1>c, <1>l, <1>s, <1>x, <2>1, <2>2, <2>3
<1>8. ASSUME NEW w \in Workers, TP!TakeTask(w) PROVE Len(tasks') <= TP!Coming'
  <2>1. w \in Lookers /\ Lookers' = Lookers \ {w}
    BY <1>8 DEF TP!TakeTask, Lookers
  <2>2. TP!Sleepers' = TP!Sleepers /\ Len(tasks') = Len(tasks) - 1 /\ extra' = extra
    BY <1>8, <1>e, <1>f DEF TP!TakeTask, TP!Sleepers
  <2>3. Cardinality(Lookers') = Cardinality(Lookers) - 1
    BY <2>1, OneLess
  <2> QED BY <1>c, <1>l, <1>s, <1>x, <2>2, <2>3
<1>9. ASSUME NEW w \in Workers, TP!EndTask(w) PROVE Len(tasks') <= TP!Coming'
  <2>1. w \notin Lookers /\ Lookers' = Lookers \union {w}
    BY <1>9 DEF TP!EndTask, Lookers
  <2>2. TP!Sleepers' = TP!Sleepers /\ tasks' = tasks /\ extra' = extra
    BY <1>9, <1>e, <1>f DEF TP!EndTask, TP!Sleepers
  <2>3. Cardinality(Lookers') = Cardinality(Lookers) + 1
    BY <2>1, OneMore
  <2> QED BY <1>c, <1>l, <1>s, <1>x, <2>2, <2>3
<1>10. CASE TP!SetExit \/ TP!Join
  <2>1. Lookers' = Lookers /\ TP!Sleepers' = TP!Sleepers /\ tasks' = tasks /\ extra' = extra
    BY <1>10, <1>e, <1>f DEF TP!SetExit, TP!Join, Lookers, TP!Sleepers
  <2> QED BY <1>c, <1>s, <2>1
<1>11. CASE TP!NotifyExit
  <2>1. TP!Sleepers' = {}
    BY <1>11 DEF TP!NotifyExit, TP!Woken, TP!Sleepers
  <2> QED BY <2>1
<1>12. CASE UNCHANGED TP!vars
  <2>1. Lookers' = Lookers /\ TP!Sleepers' = TP!Sleepers /\ tasks' = tasks /\ extra' = extra
    BY <1>12, <1>e, <1>f DEF TP!vars, Lookers, TP!Sleepers
  <2> QED BY <1>c, <1>s, <2>1
<1> QED
  BY <1>1, <1>2, <1>3, <1>4, <1>5, <1>6, <1>7, <1>8, <1>9, <1>10, <1>11, <1>12
     DEF TP!Next, TP!Works, TP!Destroys

\* One notification for each task is enough: no worker sleeps while the queue holds
\* more than those who are about to look at it can take.
LEMMA ThreadSleepersCorrect ==
    ASSUME ThreadConstants
    PROVE  ThreadSafety => []TP!SleepersNotNeeded
<1>1. TP!Init => TP!SleepersNotNeeded
  BY DEF TP!Init, TP!SleepersNotNeeded, TP!Sleepers
<1> QED BY <1>1, SleepersStep, ThreadTypeCorrect, PTL DEF ThreadSafety

-----------------------------------------------------------------------------
(* EchoServer: although an edge is reported once, bytes that wait are never*)
(* forgotten once the callback is set.                                     *)

EchoSafety == Echo!Init /\ [][Echo!Next]_(Echo!vars)

EchoConstants ==
    /\ IsFiniteSet(Conns) /\ None \notin Conns
    /\ Messages \in Nat /\ MsgLen \in Nat /\ BufSize \in Nat
    /\ MaxAccepts \in Nat /\ Acceptors \in Nat

-----------------------------------------------------------------------------
(* Types.                                                                  *)

\* An instance has operators of its own, Cardinality among them.
LEMMA EchoCardinality == \A S : Echo!Cardinality(S) = Cardinality(S)
BY DEF Echo!Cardinality, Cardinality

LEMMA EchoTypeInit == ASSUME EchoConstants PROVE Echo!Init => Echo!TypeOK
<1> SUFFICES ASSUME Echo!Init PROVE Echo!TypeOK
  OBVIOUS
<1>1. echoTasks \in Seq(Conns) /\ ready \subseteq Conns /\ active \subseteq Conns
  BY DEF Echo!Init
<1>2. /\ left \in [Conns -> 0..Messages]
      /\ fate \in [Conns -> SUBSET {"early", "erased", "full"}]
      /\ accepts \in 0..MaxAccepts /\ blocked \in 0..Acceptors
  BY DEF Echo!Init, EchoConstants
<1>3. /\ already \in [Conns -> Nat] /\ net \in [Conns -> Nat] /\ reply \in [Conns -> Nat]
      /\ sock \in [Conns -> Nat] /\ readBuffer \in [Conns -> Nat] /\ n \in [Threads -> Nat]
  BY DEF Echo!Init
<1>4. /\ client \in [Conns -> {"out", "write", "read", "closed"}]
      /\ stage \in [Conns -> {"none", "accepted", "added", "et", "callback", "ready"}]
      /\ echoPc \in [Threads -> {"idle", "read", "append", "send"}]
      /\ conn \in [Threads -> Conns \union {None}]
      /\ down \in BOOLEAN
  BY DEF Echo!Init
<1> QED BY <1>1, <1>2, <1>3, <1>4 DEF Echo!TypeOK

LEMMA ClientType ==
    ASSUME EchoConstants, Echo!TypeOK, NEW c \in Conns, Echo!Connect(c) \/ Echo!ClientStep(c)
    PROVE  Echo!TypeOK'
<1> USE DEF Echo!TypeOK, EchoConstants
<1>1. CASE Echo!Connect(c)
  BY <1>1 DEF Echo!Connect, Echo!acceptVars, Echo!loopVars, Echo!workVars
<1>2. CASE Echo!SendMessage(c)
  <2>1. left[c] - 1 \in 0..Messages /\ net[c] + MsgLen \in Nat
    BY <1>2 DEF Echo!SendMessage
  <2>2. left' \in [Conns -> 0..Messages] /\ net' \in [Conns -> Nat]
    BY <1>2, <2>1 DEF Echo!SendMessage
  <2>3. client' \in [Conns -> {"out", "write", "read", "closed"}] /\ already' \in [Conns -> Nat]
    BY <1>2 DEF Echo!SendMessage
  <2> QED BY <1>2, <2>2, <2>3 DEF Echo!SendMessage, Echo!acceptVars, Echo!loopVars,
                                  Echo!workVars
<1>3. CASE Echo!ReadReply(c)
  <2>1. reply[c] \in Nat /\ already[c] + reply[c] \in Nat
    OBVIOUS
  <2>2. already' \in [Conns -> Nat] /\ reply' \in [Conns -> Nat]
    BY <1>3, <2>1 DEF Echo!ReadReply
  <2>3. client' \in [Conns -> {"out", "write", "read", "closed"}]
    BY <1>3 DEF Echo!ReadReply
  <2>4. UNCHANGED <<left, net, sock, Echo!acceptVars, Echo!loopVars, Echo!workVars, down, fate>>
    BY <1>3 DEF Echo!ReadReply
  <2> QED BY <2>2, <2>3, <2>4 DEF Echo!acceptVars, Echo!loopVars, Echo!workVars
<1>4. CASE Echo!Close(c)
  BY <1>4 DEF Echo!Close, Echo!Edge, Echo!acceptVars, Echo!workVars
<1>5. CASE Echo!Arrive(c)
  <2>1. PICK k \in 1..net[c] : /\ net' = [net EXCEPT ![c] = @ - k]
                               /\ sock' = [sock EXCEPT ![c] = @ + k]
    BY <1>5 DEF Echo!Arrive
  <2>2. net[c] \in Nat /\ sock[c] \in Nat
    OBVIOUS
  <2>3. net[c] - k \in Nat /\ sock[c] + k \in Nat
    BY <2>1, <2>2
  <2>4. net' \in [Conns -> Nat] /\ sock' \in [Conns -> Nat]
    BY <2>1, <2>3
  <2> QED BY <1>5, <2>4 DEF Echo!Arrive, Echo!Edge, Echo!acceptVars, Echo!workVars
<1> QED BY <1>1, <1>2, <1>3, <1>4, <1>5 DEF Echo!ClientStep

LEMMA ServerType ==
    ASSUME EchoConstants, Echo!TypeOK, Echo!ServerStep
    PROVE  Echo!TypeOK'
<1> USE DEF Echo!TypeOK, EchoConstants
<1>1. CASE Echo!QueueAccept
  BY <1>1 DEF Echo!QueueAccept, Echo!clientVars, Echo!loopVars, Echo!workVars
<1>2. CASE Echo!StartAccept
  <2>1. Cardinality(Echo!Constructing) \in Nat
    BY FS_Subset, FS_CardinalityType DEF Echo!Constructing
  <2> QED BY <1>2, <2>1, EchoCardinality DEF Echo!StartAccept, Echo!clientVars, Echo!loopVars,
                                             Echo!workVars
<1>3. CASE Echo!Poll
  BY <1>3 DEF Echo!Poll, Echo!clientVars, Echo!acceptVars, Echo!workVars
<1>4. ASSUME NEW c \in Conns, Echo!Accept(c) PROVE Echo!TypeOK'
  <2>1. blocked' \in 0..Acceptors
    BY <1>4 DEF Echo!Accept
  <2>2. stage' \in [Conns -> {"none", "accepted", "added", "et", "callback", "ready"}]
    BY <1>4 DEF Echo!Accept
  <2>3. UNCHANGED <<Echo!clientVars, sock, accepts, Echo!loopVars, Echo!workVars, down, fate>>
    BY <1>4 DEF Echo!Accept
  <2> QED BY <2>1, <2>2, <2>3 DEF Echo!clientVars, Echo!loopVars, Echo!workVars
<1>5. ASSUME NEW c \in Conns, Echo!Construction(c) PROVE Echo!TypeOK'
  BY <1>5 DEF Echo!Construction, Echo!EnableReading, Echo!UseET, Echo!SetReadCallback,
              Echo!NewReadBuffer, Echo!Construct,
              Echo!Ctl, Echo!clientVars, Echo!workVars
<1>6. ASSUME NEW c \in Conns, Echo!HandleEvent(c) PROVE Echo!TypeOK'
  <2>1. echoTasks' \in Seq(Conns)
    <3>1. echoTasks \in Seq(Conns)
      OBVIOUS
    <3>2. Append(echoTasks, c) \in Seq(Conns)
      BY <3>1
    <3>3. echoTasks' = echoTasks \/ echoTasks' = Append(echoTasks, c)
      BY <1>6 DEF Echo!HandleEvent
    <3> QED BY <3>1, <3>2, <3>3
  <2>2. fate' \in [Conns -> SUBSET {"early", "erased", "full"}]
    <3>1. fate' = fate \/ fate' = [fate EXCEPT ![c] = @ \union {"early"}]
      BY <1>6 DEF Echo!HandleEvent
    <3>2. fate[c] \union {"early"} \subseteq {"early", "erased", "full"}
      OBVIOUS
    <3>3. [fate EXCEPT ![c] = fate[c] \union {"early"}]
            \in [Conns -> SUBSET {"early", "erased", "full"}]
      BY <3>2
    <3> QED BY <3>1, <3>3
  <2> QED BY <1>6, <2>1, <2>2 DEF Echo!HandleEvent, Echo!clientVars, Echo!acceptVars,
                                  Echo!workVars
<1> QED BY <1>1, <1>2, <1>3, <1>4, <1>5, <1>6 DEF Echo!ServerStep

\* A thread that is not idle works for a connection.
Employed == \A w \in Threads : echoPc[w] # "idle" => conn[w] \in Conns

LEMMA EmployedStep ==
    ASSUME EchoConstants, Echo!TypeOK, Employed, [Echo!Next]_(Echo!vars)
    PROVE  Employed'
<1> USE DEF Employed, Echo!TypeOK
<1>1. ASSUME NEW w \in Threads, Echo!StartEcho(w) PROVE Employed'
  <2>1. Head(echoTasks) \in Conns
    BY <1>1 DEF Echo!StartEcho
  <2> QED BY <1>1, <2>1 DEF Echo!StartEcho, Echo!Goto
<1>2. ASSUME NEW w \in Threads, Echo!ReadBytes(w) \/ Echo!AppendBytes(w) \/ Echo!ReadAll(w)
      PROVE  Employed'
  BY <1>2 DEF Echo!ReadBytes, Echo!AppendBytes, Echo!ReadAll, Echo!Goto
<1>3. ASSUME NEW w \in Threads, Echo!ReadEof(w) \/ Echo!Clear(w) PROVE Employed'
  <2>1. Echo!EndEcho(w)
    BY <1>3 DEF Echo!ReadEof, Echo!Clear
  <2> QED BY <2>1 DEF Echo!EndEcho, Echo!Goto
<1>4. ASSUME NEW w \in Threads, Echo!NullBuffer(w) \/ Echo!Write(w)
                                \/ Echo!WriteFull(w) \/ Echo!WriteClosed(w)
      PROVE  Employed'
  BY <1>4 DEF Echo!NullBuffer, Echo!Write, Echo!WriteFull, Echo!WriteClosed, Echo!workVars
<1>5. ASSUME NEW c \in Conns, Echo!Connect(c) \/ Echo!ClientStep(c) PROVE Employed'
  BY <1>5 DEF Echo!Connect, Echo!ClientStep, Echo!SendMessage, Echo!ReadReply, Echo!Close,
              Echo!Arrive, Echo!workVars
<1>6. CASE Echo!ServerStep
  BY <1>6 DEF Echo!ServerStep, Echo!QueueAccept, Echo!StartAccept, Echo!Poll, Echo!Accept,
              Echo!Construction, Echo!EnableReading,
              Echo!UseET, Echo!SetReadCallback, Echo!NewReadBuffer, Echo!Construct,
              Echo!HandleEvent, Echo!workVars
<1>7. CASE UNCHANGED Echo!vars
  BY <1>7 DEF Echo!vars, Echo!workVars
<1> QED BY <1>1, <1>2, <1>3, <1>4, <1>5, <1>6, <1>7 DEF Echo!Next, Echo!Echo

LEMMA EchoStepType ==
    ASSUME EchoConstants, Echo!TypeOK, Employed, NEW w \in Threads, Echo!Echo(w)
    PROVE  Echo!TypeOK'
<1> USE DEF Echo!TypeOK, EchoConstants, Echo!Goto
<1>c. echoPc[w] # "idle" => /\ conn[w] \in Conns
                        /\ sock[conn[w]] \in Nat /\ readBuffer[conn[w]] \in Nat
  BY DEF Employed
<1>1. CASE Echo!StartEcho(w)
  <2>1. Head(echoTasks) \in Conns /\ Tail(echoTasks) \in Seq(Conns)
    BY <1>1 DEF Echo!StartEcho
  <2> QED BY <1>1, <2>1 DEF Echo!StartEcho, Echo!clientVars, Echo!acceptVars
<1>2. CASE Echo!ReadBytes(w)
  <2> DEFINE k == IF sock[conn[w]] < BufSize THEN sock[conn[w]] ELSE BufSize
  <2>1. k \in Nat /\ sock[conn[w]] - k \in Nat /\ n' = [n EXCEPT ![w] = k]
    BY <1>2, <1>c DEF Echo!ReadBytes
  <2>2. sock' = [sock EXCEPT ![conn[w]] = @ - k]
    BY <1>2, <2>1 DEF Echo!ReadBytes
  <2>3. n' \in [Threads -> Nat] /\ sock' \in [Conns -> Nat]
    BY <2>1, <2>2
  <2> QED BY <1>2, <2>3 DEF Echo!ReadBytes, Echo!clientVars, Echo!acceptVars, Echo!loopVars
<1>3. CASE Echo!AppendBytes(w)
  <2>1. n' \in [Threads -> Nat] /\ readBuffer' \in [Conns -> Nat]
    BY <1>3, <1>c DEF Echo!AppendBytes
  <2>2. fate' \in [Conns -> SUBSET {"early", "erased", "full"}]
    BY <1>3 DEF Echo!AppendBytes
  <2> QED BY <1>3, <2>1, <2>2 DEF Echo!AppendBytes, Echo!clientVars, Echo!acceptVars,
                                  Echo!loopVars
<1>4. CASE Echo!ReadAll(w)
  BY <1>4, <1>c DEF Echo!ReadAll, Echo!clientVars, Echo!acceptVars, Echo!loopVars
<1>5. CASE Echo!NullBuffer(w) \/ Echo!WriteClosed(w)
  BY <1>5 DEF Echo!NullBuffer, Echo!WriteClosed, Echo!clientVars, Echo!acceptVars,
              Echo!loopVars, Echo!workVars
<1>6. CASE Echo!ReadEof(w) \/ Echo!Clear(w)
  <2>1. /\ conn' \in [Threads -> Conns \union {None}] /\ n' \in [Threads -> Nat]
        /\ echoPc' \in [Threads -> {"idle", "read", "append", "send"}]
    <3>1. Echo!EndEcho(w)
      BY <1>6 DEF Echo!ReadEof, Echo!Clear
    <3>2. conn' \in [Threads -> Conns \union {None}]
      BY <3>1 DEF Echo!EndEcho
    <3>3. n' \in [Threads -> Nat]
      BY <3>1 DEF Echo!EndEcho
    <3> QED BY <3>1, <3>2, <3>3 DEF Echo!EndEcho
  <2>2. readBuffer' \in [Conns -> Nat]
    BY <1>6, <1>c DEF Echo!ReadEof, Echo!Clear
  <2>3. UNCHANGED <<Echo!clientVars, sock, Echo!acceptVars, Echo!loopVars, down, fate>>
    BY <1>6 DEF Echo!ReadEof, Echo!Clear
  <2> QED BY <2>1, <2>2, <2>3 DEF Echo!clientVars, Echo!acceptVars, Echo!loopVars
<1>7. CASE Echo!Write(w)
  <2>1. PICK k \in 1..n[w] :
          /\ n' = [n EXCEPT ![w] = @ - k]
          /\ reply' = IF client[conn[w]] = "closed" THEN reply
                      ELSE [reply EXCEPT ![conn[w]] = @ + k]
    BY <1>7 DEF Echo!Write
  <2>2. n[w] \in Nat /\ n[w] - k \in Nat
    BY <1>7, <2>1
  <2>3. n' \in [Threads -> Nat]
    BY <2>1, <2>2
  <2>4. conn[w] \in Conns
    BY <1>7, <1>c DEF Echo!Write
  <2>5. reply[conn[w]] + k \in Nat
    BY <2>1, <2>2, <2>4
  <2>6. reply' \in [Conns -> Nat]
    BY <2>1, <2>5
  <2>7. UNCHANGED <<client, left, already, net, sock, Echo!acceptVars, Echo!loopVars,
                    echoPc, conn, readBuffer, down, fate>>
    BY <1>7 DEF Echo!Write
  <2> QED BY <2>3, <2>6, <2>7 DEF Echo!acceptVars, Echo!loopVars
<1>8. CASE Echo!WriteFull(w)
  <2>1. fate' \in [Conns -> SUBSET {"early", "erased", "full"}]
    BY <1>8 DEF Echo!WriteFull
  <2> QED BY <1>8, <2>1 DEF Echo!WriteFull, Echo!clientVars, Echo!acceptVars, Echo!loopVars
<1> QED BY <1>1, <1>2, <1>3, <1>4, <1>5, <1>6, <1>7, <1>8 DEF Echo!Echo

LEMMA TypeAndEmployed ==
    ASSUME EchoConstants
    PROVE  EchoSafety => [](Echo!TypeOK /\ Employed)
<1>1. Echo!Init => Echo!TypeOK /\ Employed
  BY EchoTypeInit DEF Echo!Init, Employed
<1>2. Echo!TypeOK /\ Employed /\ [Echo!Next]_(Echo!vars) => Echo!TypeOK' /\ Employed'
  <2>1. Echo!TypeOK /\ UNCHANGED Echo!vars => Echo!TypeOK'
    BY DEF Echo!TypeOK, Echo!vars, Echo!clientVars, Echo!acceptVars, Echo!loopVars,
           Echo!workVars
  <2> QED BY <2>1, ClientType, ServerType, EchoStepType, EmployedStep DEF Echo!Next
<1> QED BY <1>1, <1>2, PTL DEF EchoSafety

\* Type correctness for any clients, threads and sizes.
LEMMA EchoTypeCorrect ==
    ASSUME EchoConstants
    PROVE  EchoSafety => []Echo!TypeOK
BY TypeAndEmployed, PTL

-----------------------------------------------------------------------------
(* The edges.                                                              *)

\* What is ready or active is registered, and a descriptor that is polled while it is
\* level-triggered stays on the ready list.
Polled ==
    /\ \A c \in ready \union active : Echo!Registered(c)
    /\ \A c \in active : stage[c] = "added" => c \in ready

\* Somebody will read the bytes of c.
WillRead(c) ==
    \/ c \in ready \union active
    \/ \E i \in 1..Len(echoTasks) : echoTasks[i] = c
    \/ \E w \in Threads : conn[w] = c /\ echoPc[w] \in {"read", "append"}

EdgeInv == Polled /\ Echo!NoEdgeForgotten

LEMMA EdgeInit == Echo!Init => EdgeInv
BY DEF Echo!Init, EdgeInv, Polled, Echo!NoEdgeForgotten, Echo!Registered

\* A step that touches neither sockets nor readers.
LEMMA EdgeSame ==
    ASSUME EdgeInv, UNCHANGED <<sock, stage, ready, active, echoTasks, echoPc, conn>>,
           Echo!TypeOK, \A c \in Conns : fate[c] \subseteq fate'[c]
    PROVE  EdgeInv'
BY DEF EdgeInv, Polled, Echo!NoEdgeForgotten, Echo!Registered

LEMMA EdgeClient ==
    ASSUME Echo!TypeOK, EdgeInv, NEW c \in Conns, Echo!Connect(c) \/ Echo!ClientStep(c)
    PROVE  EdgeInv'
<1>1. CASE Echo!Connect(c) \/ Echo!SendMessage(c) \/ Echo!ReadReply(c)
  BY <1>1, EdgeSame DEF Echo!Connect, Echo!SendMessage, Echo!ReadReply, Echo!acceptVars,
                        Echo!loopVars, Echo!workVars
<1>2. CASE Echo!Close(c)
  <2>1. UNCHANGED <<sock, stage, active, echoTasks, echoPc, conn, fate>>
    BY <1>2 DEF Echo!Close, Echo!acceptVars, Echo!workVars
  <2>2. ready' = IF Echo!Registered(c) THEN ready \union {c} ELSE ready
    BY <1>2 DEF Echo!Close, Echo!Edge
  <2> QED BY <2>1, <2>2 DEF EdgeInv, Polled, Echo!NoEdgeForgotten, Echo!Registered
<1>3. CASE Echo!Arrive(c)
  <2>1. UNCHANGED <<stage, active, echoTasks, echoPc, conn, fate>>
    BY <1>3 DEF Echo!Arrive, Echo!acceptVars, Echo!workVars
  <2>2. ready' = IF Echo!Registered(c) THEN ready \union {c} ELSE ready
    BY <1>3 DEF Echo!Arrive, Echo!Edge
  <2>3. \A d \in Conns : d # c => sock'[d] = sock[d]
    BY <1>3 DEF Echo!Arrive, Echo!TypeOK
  <2> QED BY <2>1, <2>2, <2>3 DEF EdgeInv, Polled, Echo!NoEdgeForgotten, Echo!Registered
<1> QED BY <1>1, <1>2, <1>3 DEF Echo!ClientStep

LEMMA EdgeServer ==
    ASSUME Echo!TypeOK, EdgeInv, Echo!ServerStep
    PROVE  EdgeInv'
<1>1. CASE Echo!QueueAccept \/ Echo!StartAccept
  BY <1>1, EdgeSame DEF Echo!QueueAccept, Echo!StartAccept, Echo!loopVars, Echo!workVars
<1>2. CASE Echo!Poll
  <2>1. UNCHANGED <<sock, stage, echoTasks, echoPc, conn, fate>>
    BY <1>2 DEF Echo!Poll, Echo!acceptVars, Echo!workVars
  <2>2. active = {} /\ active' = ready /\ ready' = {c \in ready : stage[c] = "added"}
    BY <1>2 DEF Echo!Poll
  <2> QED BY <2>1, <2>2 DEF EdgeInv, Polled, Echo!NoEdgeForgotten, Echo!Registered
<1>3. ASSUME NEW c \in Conns, Echo!Accept(c) PROVE EdgeInv'
  <2>1. UNCHANGED <<sock, ready, active, echoTasks, echoPc, conn, fate>>
    BY <1>3 DEF Echo!Accept, Echo!loopVars, Echo!workVars
  <2>2. stage[c] = "none" /\ stage' = [stage EXCEPT ![c] = "accepted"]
    BY <1>3 DEF Echo!Accept, Echo!Backlog
  <2>3. \A d \in Conns : Echo!Registered(d)' <=> Echo!Registered(d)
    BY <2>2 DEF Echo!Registered, Echo!TypeOK
  <2>4. ~Echo!Registered(c)
    BY <2>2 DEF Echo!Registered
  <2>5. Polled'
    BY <2>1, <2>2, <2>3, <2>4 DEF EdgeInv, Polled, Echo!TypeOK
  <2>6. \A d \in Conns : WillRead(d) => WillRead(d)'
    BY <2>1 DEF WillRead
  <2> QED BY <2>1, <2>3, <2>5, <2>6 DEF EdgeInv, Echo!NoEdgeForgotten, WillRead, Echo!Registered
<1>4. ASSUME NEW c \in Conns, Echo!EnableReading(c) PROVE EdgeInv'
  <2>1. UNCHANGED <<sock, active, echoTasks, echoPc, conn, fate>>
    BY <1>4 DEF Echo!EnableReading, Echo!Construct, Echo!workVars
  <2>2. stage[c] = "accepted" /\ stage' = [stage EXCEPT ![c] = "added"]
    BY <1>4 DEF Echo!EnableReading, Echo!Construct
  <2>3. ready \subseteq ready' /\ ready' \subseteq ready \union {c}
        /\ (sock[c] > 0 => c \in ready')
    BY <1>4 DEF Echo!EnableReading, Echo!Ctl
  <2>4. c \notin active
    BY <2>2 DEF EdgeInv, Polled, Echo!Registered
  <2>5. \A d \in Conns : d # c => stage'[d] = stage[d]
    BY <2>2 DEF Echo!TypeOK
  <2>6. stage'[c] = "added"
    BY <2>2 DEF Echo!TypeOK
  <2>7. Polled'
    BY <2>1, <2>3, <2>4, <2>5, <2>6 DEF EdgeInv, Polled, Echo!Registered, Echo!TypeOK
  <2>8. \A d \in Conns : WillRead(d) => WillRead(d)'
    BY <2>1, <2>3 DEF WillRead
  <2>9. sock[c] > 0 => WillRead(c)'
    BY <2>3 DEF WillRead
  <2> QED
    BY <2>1, <2>5, <2>7, <2>8, <2>9 DEF EdgeInv, Echo!NoEdgeForgotten, WillRead, Echo!Registered
<1>5. ASSUME NEW c \in Conns, Echo!UseET(c) \/ Echo!SetReadCallback(c) \/ Echo!NewReadBuffer(c)
      PROVE  EdgeInv'
  <2>1. UNCHANGED <<sock, active, echoTasks, echoPc, conn, fate>>
    BY <1>5 DEF Echo!UseET, Echo!SetReadCallback, Echo!NewReadBuffer, Echo!Construct,
                Echo!workVars
  <2>2. /\ Echo!Registered(c) /\ stage' = [stage EXCEPT ![c] = stage'[c]]
        /\ stage'[c] \in {"et", "callback", "ready"}
    BY <1>5 DEF Echo!UseET, Echo!SetReadCallback, Echo!NewReadBuffer, Echo!Construct,
                Echo!Registered, Echo!TypeOK
  <2>3. ready \subseteq ready' /\ ready' \subseteq ready \union {c}
    BY <1>5 DEF Echo!UseET, Echo!SetReadCallback, Echo!NewReadBuffer, Echo!Ctl
  <2>4. \A d \in Conns : d # c => stage'[d] = stage[d]
    BY <2>2 DEF Echo!TypeOK
  <2>5. \A d \in Conns : Echo!Registered(d)' <=> Echo!Registered(d)
    BY <2>2, <2>4 DEF Echo!Registered
  <2>6. Polled'
    <3>1. stage'[c] # "added" /\ Echo!Registered(c)
      BY <2>2
    <3>2. \A d \in ready' \union active' : Echo!Registered(d)'
      BY <2>1, <2>3, <2>5, <3>1 DEF EdgeInv, Polled, Echo!TypeOK
    <3>3. \A d \in active' : stage'[d] = "added" => d \in ready'
      BY <2>1, <2>3, <2>4, <3>1 DEF EdgeInv, Polled, Echo!TypeOK
    <3> QED BY <3>2, <3>3 DEF Polled
  <2>7. \A d \in Conns : WillRead(d) => WillRead(d)'
    BY <2>1, <2>3 DEF WillRead
  <2> QED BY <2>1, <2>5, <2>6, <2>7 DEF EdgeInv, Echo!NoEdgeForgotten, WillRead, Echo!Registered
<1>6. ASSUME NEW c \in Conns, Echo!HandleEvent(c) PROVE EdgeInv'
  <2>1. UNCHANGED <<sock, stage, ready, echoPc, conn>> /\ active' = active \ {c} /\ c \in active
    BY <1>6 DEF Echo!HandleEvent, Echo!acceptVars, Echo!workVars
  <2>2. Polled'
    BY <2>1 DEF EdgeInv, Polled, Echo!Registered
  <2>3. ASSUME NEW d \in Conns, sock[d] > 0, Echo!Registered(d), "early" \notin fate'[d]
        PROVE  WillRead(d)'
    <3>1. fate[d] \subseteq fate'[d]
      BY <1>6 DEF Echo!HandleEvent, Echo!TypeOK
    <3>2. WillRead(d)
      BY <2>3, <3>1 DEF EdgeInv, Echo!NoEdgeForgotten, WillRead
    <3>3. echoTasks' = echoTasks \/ echoTasks' = Append(echoTasks, c)
      BY <1>6 DEF Echo!HandleEvent
    <3>4. (\E i \in 1..Len(echoTasks) : echoTasks[i] = d) =>
            \E i \in 1..Len(echoTasks') : echoTasks'[i] = d
      <4>1. SUFFICES ASSUME NEW i \in 1..Len(echoTasks), echoTasks[i] = d
                     PROVE  i \in 1..Len(echoTasks') /\ echoTasks'[i] = d
        OBVIOUS
      <4>2. CASE echoTasks' = echoTasks
        BY <4>1, <4>2
      <4>3. CASE echoTasks' = Append(echoTasks, c)
        BY <4>1, <4>3 DEF Echo!TypeOK
      <4> QED BY <3>3, <4>2, <4>3
    <3>5. CASE d # c
      BY <2>1, <3>2, <3>4, <3>5 DEF WillRead
    <3>6. CASE d = c /\ stage[c] \in {"callback", "ready"}
      <4>1. echoTasks' = Append(echoTasks, c)
        BY <1>6, <3>6 DEF Echo!HandleEvent
      <4>2. Len(echoTasks) + 1 \in 1..Len(echoTasks') /\ echoTasks'[Len(echoTasks) + 1] = c
        BY <4>1 DEF Echo!TypeOK
      <4> QED BY <3>6, <4>2 DEF WillRead
    <3>7. CASE d = c /\ stage[c] = "added"
      BY <2>1, <3>7 DEF EdgeInv, Polled, WillRead
    <3>8. CASE d = c /\ stage[c] = "et"
      BY <1>6, <2>3, <3>8 DEF Echo!HandleEvent, Echo!TypeOK
    <3> QED BY <2>3, <3>5, <3>6, <3>7, <3>8 DEF Echo!Registered, Echo!TypeOK
  <2> QED BY <2>1, <2>2, <2>3 DEF EdgeInv, Echo!NoEdgeForgotten, WillRead, Echo!Registered
<1> QED BY <1>1, <1>2, <1>3, <1>4, <1>5, <1>6 DEF Echo!ServerStep, Echo!Construction

LEMMA EdgeEcho ==
    ASSUME Echo!TypeOK, Employed, EdgeInv, NEW w \in Threads, Echo!Echo(w)
    PROVE  EdgeInv'
<1> USE DEF Echo!Goto
<1>1. CASE Echo!StartEcho(w)
  <2>1. UNCHANGED <<sock, stage, ready, active, fate>>
    BY <1>1 DEF Echo!StartEcho, Echo!acceptVars
  <2>2. /\ echoPc[w] = "idle" /\ echoTasks # <<>> /\ echoTasks' = Tail(echoTasks)
        /\ conn' = [conn EXCEPT ![w] = Head(echoTasks)] /\ echoPc' = [echoPc EXCEPT ![w] = "read"]
    BY <1>1 DEF Echo!StartEcho
  <2>3. ASSUME NEW d \in Conns, WillRead(d) PROVE WillRead(d)'
    <3>1. CASE d \in ready \union active
      BY <2>1, <3>1 DEF WillRead
    <3>2. CASE \E i \in 1..Len(echoTasks) : echoTasks[i] = d
      <4>1. PICK i \in 1..Len(echoTasks) : echoTasks[i] = d
        BY <3>2
      <4>2. CASE i = 1
        BY <2>2, <4>1, <4>2 DEF WillRead, Echo!TypeOK
      <4>3. CASE i # 1
        <5>1. i - 1 \in 1..Len(echoTasks') /\ echoTasks'[i - 1] = d
          BY <2>2, <4>1, <4>3 DEF Echo!TypeOK
        <5> QED BY <5>1 DEF WillRead
      <4> QED BY <4>2, <4>3
    <3>3. CASE \E v \in Threads : conn[v] = d /\ echoPc[v] \in {"read", "append"}
      BY <2>2, <3>3 DEF WillRead, Echo!TypeOK
    <3> QED BY <2>3, <3>1, <3>2, <3>3 DEF WillRead
  <2> QED BY <2>1, <2>3 DEF EdgeInv, Polled, Echo!NoEdgeForgotten, WillRead, Echo!Registered
<1>2. CASE Echo!ReadBytes(w)
  <2>1. UNCHANGED <<stage, ready, active, echoTasks, conn, fate>>
    BY <1>2 DEF Echo!ReadBytes, Echo!acceptVars, Echo!loopVars
  <2>2. /\ echoPc[w] = "read" /\ echoPc' = [echoPc EXCEPT ![w] = "append"]
        /\ \A d \in Conns : d # conn[w] => sock'[d] = sock[d]
    BY <1>2 DEF Echo!ReadBytes, Echo!TypeOK
  <2>3. ASSUME NEW d \in Conns, d # conn[w], WillRead(d) PROVE WillRead(d)'
    BY <2>1, <2>2, <2>3 DEF WillRead, Echo!TypeOK
  <2>4. WillRead(conn[w])'
    BY <2>1, <2>2 DEF WillRead, Echo!TypeOK
  <2> QED BY <2>1, <2>2, <2>3, <2>4 DEF EdgeInv, Polled, Echo!NoEdgeForgotten, WillRead,
                                        Echo!Registered
<1>3. CASE Echo!AppendBytes(w)
  <2>1. UNCHANGED <<sock, stage, ready, active, echoTasks, conn>>
    BY <1>3 DEF Echo!AppendBytes, Echo!acceptVars, Echo!loopVars
  <2>2. /\ echoPc[w] = "append" /\ echoPc' = [echoPc EXCEPT ![w] = "read"]
        /\ \A d \in Conns : fate[d] \subseteq fate'[d]
    BY <1>3 DEF Echo!AppendBytes, Echo!TypeOK
  <2>3. ASSUME NEW d \in Conns, WillRead(d) PROVE WillRead(d)'
    BY <2>1, <2>2, <2>3 DEF WillRead, Echo!TypeOK
  <2> QED BY <2>1, <2>2, <2>3 DEF EdgeInv, Polled, Echo!NoEdgeForgotten, WillRead,
                                  Echo!Registered
<1>4. CASE Echo!ReadAll(w) \/ Echo!ReadEof(w)
  <2>1. UNCHANGED <<sock, stage, ready, active, echoTasks, fate>>
    BY <1>4 DEF Echo!ReadAll, Echo!ReadEof, Echo!acceptVars, Echo!loopVars
  <2>2. sock[conn[w]] = 0 /\ \A v \in Threads \ {w} : echoPc'[v] = echoPc[v] /\ conn'[v] = conn[v]
    BY <1>4 DEF Echo!ReadAll, Echo!ReadEof, Echo!EndEcho, Echo!TypeOK
  <2>3. ASSUME NEW d \in Conns, d # conn[w], WillRead(d) PROVE WillRead(d)'
    BY <2>1, <2>2, <2>3 DEF WillRead
  <2> QED BY <2>1, <2>2, <2>3 DEF EdgeInv, Polled, Echo!NoEdgeForgotten, WillRead,
                                  Echo!Registered
<1>5. CASE Echo!NullBuffer(w) \/ Echo!Write(w) \/ Echo!WriteClosed(w)
  BY <1>5, EdgeSame DEF Echo!NullBuffer, Echo!Write, Echo!WriteClosed, Echo!acceptVars,
                        Echo!loopVars, Echo!workVars
<1>6. CASE Echo!WriteFull(w)
  <2>1. \A d \in Conns : fate[d] \subseteq fate'[d]
    BY <1>6 DEF Echo!WriteFull, Echo!TypeOK
  <2> QED BY <1>6, <2>1, EdgeSame DEF Echo!WriteFull, Echo!acceptVars, Echo!loopVars
<1>7. CASE Echo!Clear(w)
  <2>1. UNCHANGED <<sock, stage, ready, active, echoTasks, fate>>
    BY <1>7 DEF Echo!Clear, Echo!acceptVars, Echo!loopVars
  <2>2. echoPc[w] = "send" /\ \A v \in Threads \ {w} : echoPc'[v] = echoPc[v] /\ conn'[v] = conn[v]
    BY <1>7 DEF Echo!Clear, Echo!EndEcho, Echo!TypeOK
  <2>3. ASSUME NEW d \in Conns, WillRead(d) PROVE WillRead(d)'
    BY <2>1, <2>2, <2>3 DEF WillRead
  <2> QED BY <2>1, <2>3 DEF EdgeInv, Polled, Echo!NoEdgeForgotten, WillRead, Echo!Registered
<1> QED BY <1>1, <1>2, <1>3, <1>4, <1>5, <1>6, <1>7 DEF Echo!Echo

\* An edge is reported once, and yet bytes that wait in a socket have an event, a queued
\* echo() or a running one, unless the event came before the callback.
LEMMA EchoEdgesRemembered ==
    ASSUME EchoConstants
    PROVE  EchoSafety => []Echo!NoEdgeForgotten
<1>1. Echo!TypeOK /\ Employed /\ EdgeInv /\ [Echo!Next]_(Echo!vars) => EdgeInv'
  <2>1. Echo!TypeOK /\ EdgeInv /\ UNCHANGED Echo!vars => EdgeInv'
    BY EdgeSame DEF Echo!vars, Echo!acceptVars, Echo!loopVars, Echo!workVars
  <2> QED BY <2>1, EdgeClient, EdgeServer, EdgeEcho DEF Echo!Next
<1>2. EdgeInv => Echo!NoEdgeForgotten
  BY DEF EdgeInv
<1> QED BY EdgeInit, TypeAndEmployed, <1>1, <1>2, PTL DEF EchoSafety

-----------------------------------------------------------------------------
(* The pools together.                                                     *)

\* The specification in which the pools are together has each of them as an abstraction:
\* the steps of the other parts are stuttering steps of this one.
THEOREM PoolsImplementEach ==
    PoolsSpec => ConnectionSafety /\ ThreadSafety /\ EchoSafety
<1>1. PoolsInit => Init /\ TP!Init /\ Echo!Init
  BY DEF PoolsInit
<1>2. [PoolsNext]_allVars => [Next]_vars
  BY DEF PoolsNext, allVars, dbcpVars
<1>3. [PoolsNext]_allVars => [TP!Next]_(TP!vars)
  BY DEF PoolsNext, allVars, threadVars, TP!vars
<1>4. [PoolsNext]_allVars => [Echo!Next]_(Echo!vars)
  BY DEF PoolsNext, allVars, echoVars, Echo!vars, Echo!clientVars, Echo!acceptVars,
         Echo!loopVars, Echo!workVars
<1> QED
  BY <1>1, <1>2, <1>3, <1>4, PTL DEF PoolsSpec, ConnectionSafety, ThreadSafety, EchoSafety

\* Every variable keeps its type; the length of the queue and the count of connections
\* never go below zero.
THEOREM ConnectionTypeCorrect == PoolsSpec => []TypeOK
<1>1. ConnectionInv => TypeOK
  BY DEF ConnectionInv
<1> QED
  BY <1>1, ConnectionInvariant, PoolsImplementEach, PTL

\* connectionCount_ counts the idle and the lent connections.
THEOREM ConnectionsCounted == PoolsSpec => []CountIsIdlePlusLent
<1>1. ConnectionInv => CountIsIdlePlusLent
  BY DEF ConnectionInv, CountInv, CountIsIdlePlusLent, FirstRun
<1> QED
  BY <1>1, ConnectionInvariant, PoolsImplementEach, PTL

\* There are between minSize_ and maxSize_ connections.
THEOREM CountBounded == PoolsSpec => []CountBetweenMinAndMax
<1>1. ConnectionInv => CountBetweenMinAndMax
  BY DEF ConnectionInv, CountInv, CountBetweenMinAndMax, FirstRun
<1> QED
  BY <1>1, ConnectionInvariant, PoolsImplementEach, PTL

\* The producer is awake whenever the queue is empty, unless the scanner emptied it.
THEOREM ProducerNotMissed == PoolsSpec => []ProducerAwakeWhenEmpty
<1>1. ConnectionInv => ProducerAwakeWhenEmpty
  BY DEF ConnectionInv, ProducerInv, ProducerAwakeWhenEmpty, FirstRun
<1> QED
  BY <1>1, ConnectionInvariant, PoolsImplementEach, PTL

\* A closed pool keeps no connection, whenever it was closed.
THEOREM EmptyWhenClosed == PoolsSpec => []ClosedIsEmpty
<1>1. ConnectionInv => ClosedIsEmpty
  BY DEF ConnectionInv
<1> QED
  BY <1>1, ConnectionInvariant, PoolsImplementEach, PTL

\* Type correctness of both task pools for any workers and tasks, and of the echo server
\* for any clients, threads and sizes; a worker holds a task exactly while it runs one.
THEOREM PoolsTyped ==
    ASSUME ThreadConstants, EchoConstants
    PROVE  PoolsSpec => []TP!TypeOK /\ []Echo!TypeOK
BY ThreadTypeCorrect, EchoTypeCorrect, PoolsImplementEach, PTL

\* When the destructor returns, every accepted task has run to its end, with any number
\* of workers, whoever submits and however late.
THEOREM DestroyedDrained ==
    ASSUME ThreadConstants
    PROVE  PoolsSpec => []DestroyedMeansDrained
<1>1. TP!DestroyedMeansDrained => DestroyedMeansDrained
  BY DEF DestroyedMeansDrained
<1> QED BY <1>1, ThreadDestroyedDrained, PoolsImplementEach, PTL

\* One notification for each task is enough: no worker sleeps while the queue holds
\* more than those who are about to look at it can take.
THEOREM SleepersCorrect ==
    ASSUME ThreadConstants
    PROVE  PoolsSpec => []SleepersNotNeeded
<1>1. TP!SleepersNotNeeded => SleepersNotNeeded
  BY DEF SleepersNotNeeded
<1> QED BY <1>1, ThreadSleepersCorrect, PoolsImplementEach, PTL

\* An edge is reported once, and yet bytes that wait in a socket have an event, a queued
\* echo() or a running one, unless the event came before the callback.
THEOREM EdgesRemembered ==
    ASSUME EchoConstants
    PROVE  PoolsSpec => []NoEdgeForgotten
<1>1. Echo!NoEdgeForgotten => NoEdgeForgotten
  BY DEF NoEdgeForgotten
<1> QED BY <1>1, EchoEdgesRemembered, PoolsImplementEach, PTL
=============================================================================
