------------------------------- MODULE MCPools -------------------------------
(***************************************************************************)
(* The pools whose threads must come to an end of what they do, in one run:*)
(* a behaviour is one of ConnectionPool, of ThreadPool or of EchoServer.   *)
(* Each part has the fairness of its module, while it is the one chosen.   *)
(***************************************************************************)
EXTENDS MCConnectionPool

CONSTANTS
    Workers, Tasks, None,                                            \* of ThreadPool
    Conns, Threads, Acceptors, MsgLen, BufSize, Messages, MaxAccepts \* of EchoServer

VARIABLES
    part,    \* which part the behaviour is of
    edition, tasks, exit_flag, pc, task, owner, status,
    client, left, already, net, reply, sock, accepts, blocked, stage, ready, active,
    echoTasks, echoPc, conn, n, readBuffer, down, fate

TP == INSTANCE ThreadPool
Echo == INSTANCE EchoServer WITH tasks <- echoTasks, pc <- echoPc, Workers <- Threads

dbcpVars == vars
threadVars == <<edition, tasks, exit_flag, pc, task, owner, status>>
echoVars == <<client, left, already, net, reply, sock, accepts, blocked, stage, ready, active,
              echoTasks, echoPc, conn, n, readBuffer, down, fate>>
allVars == <<part, dbcpVars, threadVars, echoVars>>

PoolsInit ==
    /\ part \in {"connections", "threads", "echo"}
    /\ Init /\ TP!Init /\ Echo!Init
    /\ part # "threads" => edition = "mgkl"

PoolsNext ==
    /\ UNCHANGED part
    /\ \/ part = "connections" /\ Next /\ UNCHANGED <<threadVars, echoVars>>
       \/ part = "threads" /\ TP!Next /\ UNCHANGED <<dbcpVars, echoVars>>
       \/ part = "echo" /\ Echo!Next /\ UNCHANGED <<dbcpVars, threadVars>>

\* The fairness of ConnectionPool, of ThreadPool and of EchoServer, each for its part.
DbcpFairness ==
    LET Live(A) == part = "connections" /\ ~crashed /\ A
    IN /\ WF_dbcpVars(Live(StartSpawn \/ StartEnable \/ CloseDrain))
       /\ \A g \in Getters : WF_dbcpVars(Live(Take(g) \/ Sleep(g)))
       /\ \A r \in Runs :
             /\ WF_dbcpVars(Live(ProducerExits(r) \/ ProducerSleeps(r) \/ Produces(r)))
             /\ WF_dbcpVars(Live(ScannerExits(r) \/ ScannerSleeps(r)))

ThreadFairness ==
    /\ \A w \in Workers :
          /\ WF_threadVars(part = "threads" /\ TP!Works(w))
          /\ WF_threadVars(part = "threads" /\ TP!EndTask(w))
    /\ WF_threadVars(part = "threads" /\ TP!OwnerNotifies)
    /\ WF_threadVars(part = "threads" /\ TP!Destroys)

EchoFairness ==
    LET Live(A) == part = "echo" /\ ~down /\ A
    IN /\ \A c \in Conns :
             /\ WF_echoVars(Live(Echo!ClientStep(c)))
             /\ WF_echoVars(Live(Echo!HandleEvent(c)))
             /\ WF_echoVars(Live(Echo!Accept(c)))
             /\ WF_echoVars(Live(Echo!Construction(c)))
       /\ WF_echoVars(Live(Echo!Poll))
       /\ WF_echoVars(Live(Echo!QueueAccept))
       /\ WF_echoVars(Live(Echo!StartAccept))
       /\ \A w \in Threads : WF_echoVars(Live(Echo!Echo(w)))

PoolsSpec ==
    /\ PoolsInit /\ [][PoolsNext]_allVars
    /\ DbcpFairness /\ ThreadFairness /\ EchoFairness

\* Each of these is the property of its module, see there: ThreadPool, ...
SleepersNotNeeded == TP!SleepersNotNeeded

\* ... ThreadPool, ...
DestroyedMeansDrained == TP!DestroyedMeansDrained

\* ... ThreadPool, ...
PoolProgress == TP!PoolProgress

\* ... EchoServer, ...
NoEdgeForgotten == Echo!NoEdgeForgotten

\* ... and EchoServer.
AnsweredUnlessKnown == Echo!AnsweredUnlessKnown
=============================================================================
