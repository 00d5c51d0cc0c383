-------------------------- MODULE ConnectionPool --------------------------
(***************************************************************************)
(* DBCP-mgkl: the pool of database connections.  Threads borrow connections*)
(* (GetConnection) and give them back when the last copy of the shared_ptr *)
(* goes (its deleter); a producer thread makes connections when none is    *)
(* idle, a scanner thread destroys those idle for too long, and the main   *)
(* thread starts and closes the pool, again and again (main.cpp).          *)
(*                                                                         *)
(* mtx_ is held for the whole of each critical section, which is one step; *)
(* what is done outside it (exit_, the connections start() adds) has steps *)
(* of its own.  All threads wait on the one condition variable cv_.        *)
(* A connection is only counted: the queue is first in, first out, and     *)
(* whether the front one has been idle for maxIdleTime_ is left open.      *)
(***************************************************************************)
EXTENDS Integers, FiniteSets

CONSTANTS
    Getters,           \* threads that borrow connections
    minSize, maxSize,  \* minSize_, maxSize_
    MaxStarts          \* bound: how many times the pool is started

ASSUME PoolAssumption ==
    /\ IsFiniteSet(Getters)
    /\ minSize \in Nat /\ maxSize \in Nat /\ minSize <= maxSize
    /\ MaxStarts \in Nat \ {0}

Runs == 1..MaxStarts   \* each start() makes a producer and a scanner

VARIABLES
    idle,       \* the length of connectionQueue_
    count,      \* connectionCount_
    exit,       \* exit_
    main,       \* where the main thread is in start() and close()
    starts,     \* how many times start() was called
    getter,     \* where each borrowing thread is
    producer,   \* where each producer is
    scanner,    \* where each scanner is
    scanned,    \* history: a scanner has destroyed a connection
    crashed     \* front() was called on the empty queue

mainVars == <<exit, main, starts>>
vars == <<idle, count, mainVars, getter, producer, scanner, scanned, crashed>>

Init ==
    /\ idle = 0 /\ count = 0
    /\ exit = FALSE
    /\ main = "new" /\ starts = 0
    /\ getter = [g \in Getters |-> "out"]
    /\ producer = [r \in Runs |-> "none"]
    /\ scanner = [r \in Runs |-> "none"]
    /\ scanned = FALSE /\ crashed = FALSE

\* cv_.notify_all(): whoever sleeps will test its predicate again.
Woken(f) == [i \in DOMAIN f |-> IF f[i] = "asleep" THEN "awake" ELSE f[i]]

NotifyAll(g, p, s) ==
    /\ getter' = Woken(g) /\ producer' = Woken(p) /\ scanner' = Woken(s)

-----------------------------------------------------------------------------
(* The main thread: start() and close().                                   *)

\* start(): the first connections, added without the lock, ...
StartAdd ==
    /\ main \in {"new", "closed"} /\ starts < MaxStarts
    /\ starts' = starts + 1
    /\ idle' = idle + minSize /\ count' = count + minSize
    /\ main' = "spawn"
    /\ UNCHANGED <<exit, getter, producer, scanner, scanned, crashed>>

\* ... the two threads, ...
StartSpawn ==
    /\ main = "spawn"
    /\ producer' = [producer EXCEPT ![starts] = "awake"]
    /\ scanner' = [scanner EXCEPT ![starts] = "awake"]
    /\ main' = "enable"
    /\ UNCHANGED <<idle, count, exit, starts, getter, scanned, crashed>>

\* ... and only then exit_ is cleared.
StartEnable ==
    /\ main = "enable"
    /\ exit' = FALSE /\ main' = "started"
    /\ NotifyAll(getter, producer, scanner)
    /\ UNCHANGED <<idle, count, starts, scanned, crashed>>

\* close(): exit_ is set before the lock is taken, ...
CloseSetExit ==
    /\ main = "started"
    /\ exit' = TRUE /\ main' = "drain"
    /\ UNCHANGED <<idle, count, starts, getter, producer, scanner, scanned, crashed>>

\* Bug: nobody is woken.
BugCloseDrainSilently ==
    /\ main = "drain"
    /\ idle' = 0 /\ main' = "closed"
    /\ UNCHANGED <<count, exit, starts, getter, producer, scanner, scanned, crashed>>

\* ... and the idle connections are destroyed; connectionCount_ is not touched.
CloseDrain ==
    /\ main = "drain"
    /\ idle' = 0 /\ main' = "closed"
    /\ NotifyAll(getter, producer, scanner)
    /\ UNCHANGED <<count, exit, starts, scanned, crashed>>

-----------------------------------------------------------------------------
(* GetConnection() and the deleter.                                        *)

GetConnection(g) ==
    /\ getter[g] = "out" /\ main = "started"
    /\ getter' = [getter EXCEPT ![g] = "awake"]
    /\ UNCHANGED <<idle, count, mainVars, producer, scanner, scanned, crashed>>

\* Bug: the taker tells nobody that the queue may be empty now.
BugTakeSilently(g) ==
    /\ getter[g] = "awake" /\ idle > 0
    /\ idle' = idle - 1
    /\ getter' = [getter EXCEPT ![g] = "holding"]
    /\ UNCHANGED <<count, mainVars, producer, scanner, scanned, crashed>>

Take(g) ==
    /\ getter[g] = "awake" /\ idle > 0
    /\ idle' = idle - 1
    /\ NotifyAll([getter EXCEPT ![g] = "holding"], producer, scanner)
    /\ UNCHANGED <<count, mainVars, scanned, crashed>>

Sleep(g) ==
    /\ getter[g] = "awake" /\ idle = 0
    /\ getter' = [getter EXCEPT ![g] = "asleep"]
    /\ UNCHANGED <<idle, count, mainVars, producer, scanner, scanned, crashed>>

\* wait_for() returns at the timeout, or spuriously, and tests the predicate.
WakeUp(g) ==
    /\ getter[g] = "asleep"
    /\ getter' = [getter EXCEPT ![g] = "awake"]
    /\ UNCHANGED <<idle, count, mainVars, producer, scanner, scanned, crashed>>

\* At the timeout with nothing idle, nullptr is returned.
TimeOut(g) ==
    /\ getter[g] = "asleep" /\ idle = 0
    /\ getter' = [getter EXCEPT ![g] = "out"]
    /\ UNCHANGED <<idle, count, mainVars, producer, scanner, scanned, crashed>>

\* Bug: a connection given back to a closed pool is queued.
BugGiveBackAlwaysQueues(g) ==
    /\ getter[g] = "holding"
    /\ idle' = idle + 1
    /\ getter' = [getter EXCEPT ![g] = "out"]
    /\ UNCHANGED <<count, mainVars, producer, scanner, scanned, crashed>>

\* The deleter: the connection is queued again, and nobody is told, or destroyed if
\* the pool is closing.
GiveBack(g) ==
    /\ getter[g] = "holding"
    /\ idle' = IF exit THEN idle ELSE idle + 1
    /\ getter' = [getter EXCEPT ![g] = "out"]
    /\ UNCHANGED <<count, mainVars, producer, scanner, scanned, crashed>>

-----------------------------------------------------------------------------
(* The producer and the scanner.                                           *)

ProducerExits(r) ==
    /\ producer[r] = "awake" /\ exit
    /\ producer' = [producer EXCEPT ![r] = "gone"]
    /\ UNCHANGED <<idle, count, mainVars, getter, scanner, scanned, crashed>>

ProducerSleeps(r) ==
    /\ producer[r] = "awake" /\ ~exit /\ idle > 0
    /\ producer' = [producer EXCEPT ![r] = "asleep"]
    /\ UNCHANGED <<idle, count, mainVars, getter, scanner, scanned, crashed>>

\* Bug: one connection more than maxSize_.
BugProducesOffByOne(r) ==
    /\ producer[r] = "awake" /\ ~exit /\ idle = 0
    /\ IF count <= maxSize
       THEN idle' = idle + 1 /\ count' = count + 1
       ELSE UNCHANGED <<idle, count>>
    /\ NotifyAll(getter, producer, scanner)
    /\ UNCHANGED <<mainVars, scanned, crashed>>

\* A connection is made if there may be one more, and everybody is told.
Produces(r) ==
    /\ producer[r] = "awake" /\ ~exit /\ idle = 0
    /\ IF count < maxSize
       THEN idle' = idle + 1 /\ count' = count + 1
       ELSE UNCHANGED <<idle, count>>
    /\ NotifyAll(getter, producer, scanner)
    /\ UNCHANGED <<mainVars, scanned, crashed>>

ProducerWakesUp(r) ==
    /\ producer[r] = "asleep"
    /\ producer' = [producer EXCEPT ![r] = "awake"]
    /\ UNCHANGED <<idle, count, mainVars, getter, scanner, scanned, crashed>>

ScannerExits(r) ==
    /\ scanner[r] = "awake" /\ exit
    /\ scanner' = [scanner EXCEPT ![r] = "gone"]
    /\ UNCHANGED <<idle, count, mainVars, getter, producer, scanned, crashed>>

\* Woken before its time, the scanner goes on waiting.
ScannerSleeps(r) ==
    /\ scanner[r] = "awake" /\ ~exit
    /\ scanner' = [scanner EXCEPT ![r] = "asleep"]
    /\ UNCHANGED <<idle, count, mainVars, getter, producer, scanned, crashed>>

\* Bug: a destroyed connection is still counted.
BugScansWithoutCounting(r) ==
    /\ scanner[r] = "asleep" /\ ~exit
    /\ \E n \in 0..idle : /\ count - n >= minSize
                          /\ idle' = idle - n /\ scanned' = (scanned \/ n > 0)
    /\ scanner' = [scanner EXCEPT ![r] = "awake"]
    /\ UNCHANGED <<count, mainVars, getter, producer, crashed>>

\* maxIdleTime_ has passed.  Connections are destroyed from the front of the queue
\* while more than minSize_ are counted, until one is not old enough; nobody is told.
\* If the queue empties first, front() is called on nothing.
Scans(r) ==
    /\ scanner[r] = "asleep" /\ ~exit
    /\ \E n \in 0..idle :
          /\ n > 0 => count - n >= minSize
          /\ idle' = idle - n /\ count' = count - n
          /\ scanned' = (scanned \/ n > 0)
          /\ crashed' = (n = idle /\ count - n > minSize)
    /\ scanner' = [scanner EXCEPT ![r] = "awake"]
    /\ UNCHANGED <<mainVars, getter, producer>>

-----------------------------------------------------------------------------
Main == StartAdd \/ StartSpawn \/ StartEnable \/ CloseSetExit \/ CloseDrain

Getter(g) == \/ GetConnection(g) \/ Take(g) \/ Sleep(g)
             \/ WakeUp(g) \/ TimeOut(g) \/ GiveBack(g)

Producer(r) == \/ ProducerExits(r) \/ ProducerSleeps(r)
               \/ Produces(r) \/ ProducerWakesUp(r)

Scanner(r) == ScannerExits(r) \/ ScannerSleeps(r) \/ Scans(r)

Next ==
    /\ ~crashed
    /\ \/ Main
       \/ \E g \in Getters : Getter(g)
       \/ \E r \in Runs : Producer(r) \/ Scanner(r)

\* Started calls return and threads that are awake get the lock; nothing obliges a
\* sleeping thread to wake up without being told.
Fairness ==
    /\ WF_vars(~crashed /\ (StartSpawn \/ StartEnable \/ CloseDrain))
    /\ \A g \in Getters : WF_vars(~crashed /\ (Take(g) \/ Sleep(g)))
    /\ \A r \in Runs :
          /\ WF_vars(~crashed /\ (ProducerExits(r) \/ ProducerSleeps(r) \/ Produces(r)))
          /\ WF_vars(~crashed /\ (ScannerExits(r) \/ ScannerSleeps(r)))

Spec == Init /\ [][Next]_vars /\ Fairness

-----------------------------------------------------------------------------
(* Properties.                                                             *)

Lent == {g \in Getters : getter[g] = "holding"}

\* The pool is running for the first time; main.cpp starts it again after close().
FirstRun == starts = 1 /\ main # "spawn" /\ ~exit /\ ~crashed

\* Every variable has its type.
TypeOK ==
    /\ idle \in Nat /\ count \in Nat
    /\ exit \in BOOLEAN /\ scanned \in BOOLEAN /\ crashed \in BOOLEAN
    /\ main \in {"new", "spawn", "enable", "started", "drain", "closed"}
    /\ starts \in 0..MaxStarts
    /\ getter \in [Getters -> {"out", "awake", "asleep", "holding"}]
    /\ producer \in [Runs -> {"none", "awake", "asleep", "gone"}]
    /\ scanner \in [Runs -> {"none", "awake", "asleep", "gone"}]

\* connectionCount_ is the number of connections there are, idle or lent, as long as
\* the pool runs for the first time: none is lost, whoever takes, makes or destroys.
\* So the scanner calls front() on the empty queue only when more than minSize_
\* connections are lent at a time.
CountIsIdlePlusLent ==
    /\ FirstRun => count = idle + Cardinality(Lent)
    /\ starts = 1 /\ crashed => Cardinality(Lent) > minSize

\* There are never more than maxSize_ connections counted, nor fewer than minSize_.
CountBetweenMinAndMax == FirstRun => count \in minSize..maxSize

\* While the pool runs and the scanner has destroyed nothing, the producer never
\* sleeps on an empty queue: whoever takes the last connection wakes it, so that a
\* waiting GetConnection() is served as soon as there may be one more connection.
ProducerAwakeWhenEmpty ==
    FirstRun /\ idle = 0 /\ ~scanned /\ main = "started" => producer[1] = "awake"

\* A closed pool keeps no connection, even if one is given back or made while close()
\* is on its way.
ClosedIsEmpty == main = "closed" => idle = 0

\* close() ends the producer and the scanner, although it sets exit_ without the lock
\* they test it under (unless start() clears exit_ again before they look).
CloseEndsThreads ==
    main = "closed" ~> \/ \A r \in 1..starts : {producer[r], scanner[r]} = {"gone"}
                       \/ main # "closed"
=============================================================================
