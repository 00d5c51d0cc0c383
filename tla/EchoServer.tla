------------------------------ MODULE EchoServer ------------------------------
(***************************************************************************)
(* 30dayMakeCppServer/day12: the echo server.  Its main reactor hands      *)
(* accept() to a pool of threads; a connection made there joins a sub      *)
(* reactor, which polls it edge-triggered and hands echo() to a pool of its*)
(* own (module ThreadPool).  So a descriptor may be read by several        *)
(* threads at a time, which share the readBuffer of the connection, and an *)
(* edge may come while the connection is still being constructed.          *)
(*                                                                         *)
(* One sub reactor is modelled: they share nothing.  Its clients are those *)
(* of test.cpp, which send a message and wait for as many bytes.  Bytes    *)
(* are counted, not told apart.  The operations of readBuffer are single   *)
(* steps, although nothing makes them so.                                  *)
(***************************************************************************)
EXTENDS Naturals, Sequences, FiniteSets

CONSTANTS
    Conns,      \* the clients and their connections
    Workers,    \* the threads of the sub reactor's pool
    Acceptors,  \* how many threads the main reactor's pool has
    MsgLen,     \* bytes of a message
    BufSize,    \* sizeof(buf) in echo()
    Messages,   \* messages of a client: msgs
    MaxAccepts, \* bound: accept tasks queued at a time
    None

VARIABLES
    client,   \* where the client of each connection is
    left,     \* messages it has still to send
    already,  \* already_read of its present message
    net,      \* bytes on their way to the server
    reply,    \* bytes on their way back
    sock,     \* bytes to be read from the server's socket
    accepts,  \* accept tasks queued in the main reactor's pool
    blocked,  \* its threads that are in accept()
    stage,    \* how far the construction of each Connection is
    ready,    \* descriptors on the ready list of the sub reactor's epoll
    active,   \* activeChannels of its loop
    tasks,    \* the queue of its pool
    pc, conn, n,  \* of each thread of that pool: where it is, for whom, how many bytes
    readBuffer,   \* bytes in each readBuffer
    down,     \* the process has died
    fate      \* history: what has happened to a connection that may cost a reply

clientVars == <<client, left, already, net, reply>>
acceptVars == <<accepts, blocked, stage>>
loopVars == <<ready, active, tasks>>
workVars == <<pc, conn, n, readBuffer>>
vars == <<clientVars, sock, acceptVars, loopVars, workVars, down, fate>>

Init ==
    /\ client = [c \in Conns |-> "out"]
    /\ left = [c \in Conns |-> Messages]
    /\ already = [c \in Conns |-> 0]
    /\ net = [c \in Conns |-> 0] /\ reply = [c \in Conns |-> 0]
    /\ sock = [c \in Conns |-> 0]
    /\ accepts = 0 /\ blocked = 0
    /\ stage = [c \in Conns |-> "none"]
    /\ ready = {} /\ active = {} /\ tasks = <<>>
    /\ pc = [w \in Workers |-> "idle"]
    /\ conn = [w \in Workers |-> None]
    /\ n = [w \in Workers |-> 0]
    /\ readBuffer = [c \in Conns |-> 0]
    /\ down = FALSE
    /\ fate = [c \in Conns |-> {}]

Registered(c) == stage[c] \notin {"none", "accepted"}

\* New input on a descriptor puts it on the ready list.
Edge(c) == ready' = IF Registered(c) THEN ready \union {c} ELSE ready

-----------------------------------------------------------------------------
(* oneClient() of test.cpp, and the network.                               *)

Connect(c) ==
    /\ client[c] = "out"
    /\ client' = [client EXCEPT ![c] = "write"]
    /\ UNCHANGED <<left, already, net, reply, sock, acceptVars, loopVars, workVars, down, fate>>

SendMessage(c) ==
    /\ client[c] = "write" /\ left[c] > 0
    /\ client' = [client EXCEPT ![c] = "read"]
    /\ left' = [left EXCEPT ![c] = @ - 1]
    /\ already' = [already EXCEPT ![c] = 0]
    /\ net' = [net EXCEPT ![c] = @ + MsgLen]
    /\ UNCHANGED <<reply, sock, acceptVars, loopVars, workVars, down, fate>>

ReadReply(c) ==
    /\ client[c] = "read" /\ reply[c] > 0
    /\ already' = [already EXCEPT ![c] = @ + reply[c]]
    /\ reply' = [reply EXCEPT ![c] = 0]
    /\ client' = [client EXCEPT ![c] = IF already'[c] >= MsgLen THEN "write" ELSE "read"]
    /\ UNCHANGED <<left, net, sock, acceptVars, loopVars, workVars, down, fate>>

\* The client closes its socket, which is input for the server.
Close(c) ==
    /\ client[c] = "write" /\ left[c] = 0
    /\ client' = [client EXCEPT ![c] = "closed"]
    /\ Edge(c)
    /\ UNCHANGED <<left, already, net, reply, sock, acceptVars, active, tasks, workVars,
                   down, fate>>

\* The bytes of a message may arrive in parts.
Arrive(c) ==
    /\ net[c] > 0
    /\ \E k \in 1..net[c] :
         /\ net' = [net EXCEPT ![c] = @ - k]
         /\ sock' = [sock EXCEPT ![c] = @ + k]
    /\ Edge(c)
    /\ UNCHANGED <<client, left, already, reply, acceptVars, active, tasks, workVars, down, fate>>

-----------------------------------------------------------------------------
(* The main reactor.                                                       *)

Backlog == {c \in Conns : client[c] # "out" /\ stage[c] = "none"}
Constructing == {c \in Conns : stage[c] \notin {"none", "ready"}}

\* The listening socket is level-triggered: each poll queues another accept while
\* none has emptied the backlog.
QueueAccept ==
    /\ Backlog # {} /\ accepts < MaxAccepts
    /\ accepts' = accepts + 1
    /\ UNCHANGED <<clientVars, sock, blocked, stage, loopVars, workVars, down, fate>>

\* acceptConnection() on a thread of the pool: the socket is blocking.
StartAccept ==
    /\ accepts > 0 /\ blocked + Cardinality(Constructing) < Acceptors
    /\ accepts' = accepts - 1
    /\ blocked' = blocked + 1
    /\ UNCHANGED <<clientVars, sock, stage, loopVars, workVars, down, fate>>

Accept(c) ==
    /\ blocked > 0 /\ c \in Backlog
    /\ blocked' = blocked - 1
    /\ stage' = [stage EXCEPT ![c] = "accepted"]
    /\ UNCHANGED <<clientVars, sock, accepts, loopVars, workVars, down, fate>>

\* newConnection() and the constructor of Connection.
Construct(c, from, to) ==
    /\ stage[c] = from
    /\ stage' = [stage EXCEPT ![c] = to]
    /\ UNCHANGED <<clientVars, sock, accepts, blocked, active, tasks, workVars, down, fate>>

\* epoll_ctl puts a descriptor that has input on the ready list.
Ctl(c) ==
    ready' = IF sock[c] > 0 \/ client[c] = "closed" THEN ready \union {c} ELSE ready

EnableReading(c) == Construct(c, "accepted", "added") /\ Ctl(c)
UseET(c) == Construct(c, "added", "et") /\ Ctl(c)
SetReadCallback(c) == Construct(c, "et", "callback") /\ UNCHANGED ready
NewReadBuffer(c) == Construct(c, "callback", "ready") /\ UNCHANGED ready

-----------------------------------------------------------------------------
(* The loop of the sub reactor.                                            *)

\* A descriptor stays on the ready list while it is level-triggered.
Poll ==
    /\ active = {} /\ ready # {}
    /\ active' = ready
    /\ ready' = {c \in ready : stage[c] = "added"}
    /\ UNCHANGED <<clientVars, sock, acceptVars, tasks, workVars, down, fate>>

\* handleEvent() queues a copy of readCallback.  A copy made before the callback is
\* set throws when it runs, which the task's future keeps to itself.
HandleEvent(c) ==
    /\ c \in active
    /\ active' = active \ {c}
    /\ IF stage[c] \in {"callback", "ready"}
       THEN tasks' = Append(tasks, c) /\ UNCHANGED fate
       ELSE /\ fate' = [fate EXCEPT ![c] = IF stage[c] = "et" THEN @ \union {"early"} ELSE @]
            /\ UNCHANGED tasks
    /\ UNCHANGED <<clientVars, sock, acceptVars, ready, workVars, down>>

-----------------------------------------------------------------------------
(* echo() on a thread of the pool.                                         *)

Goto(w, l) == pc' = [pc EXCEPT ![w] = l]

StartEcho(w) ==
    LET c == Head(tasks)
    IN /\ pc[w] = "idle" /\ tasks # <<>>
       /\ tasks' = Tail(tasks)
       /\ conn' = [conn EXCEPT ![w] = c]
       /\ Goto(w, "read")
       /\ UNCHANGED <<clientVars, sock, acceptVars, ready, active, n, readBuffer, down, fate>>

\* read() returns bytes, BufSize at most.
ReadBytes(w) ==
    LET c == conn[w]
    IN /\ pc[w] = "read" /\ sock[c] > 0
       /\ n' = [n EXCEPT ![w] = IF sock[c] < BufSize THEN sock[c] ELSE BufSize]
       /\ sock' = [sock EXCEPT ![c] = @ - n'[w]]
       /\ Goto(w, "append")
       /\ UNCHANGED <<clientVars, acceptVars, loopVars, conn, readBuffer, down, fate>>

\* Bug: one read for each edge.
BugAppendBytes(w) ==
    LET c == conn[w]
    IN /\ pc[w] = "append" /\ stage[c] = "ready"
       /\ readBuffer' = [readBuffer EXCEPT ![c] = @ + n[w]]
       /\ n' = [n EXCEPT ![w] = readBuffer'[c]]
       /\ Goto(w, "send")
       /\ UNCHANGED <<clientVars, sock, acceptVars, loopVars, conn, down, fate>>

\* A thread between its copy of the buffer and clear() will erase the bytes.
AppendBytes(w) ==
    LET c == conn[w]
        erased == \E v \in Workers : conn[v] = c /\ pc[v] = "send"
    IN /\ pc[w] = "append" /\ stage[c] = "ready"
       /\ readBuffer' = [readBuffer EXCEPT ![c] = @ + n[w]]
       /\ n' = [n EXCEPT ![w] = 0]
       /\ Goto(w, "read")
       /\ fate' = [fate EXCEPT ![c] = IF erased THEN @ \union {"erased"} ELSE @]
       /\ UNCHANGED <<clientVars, sock, acceptVars, loopVars, conn, down>>

\* Bug: the buffer is cleared before it is copied.
BugReadAll(w) ==
    LET c == conn[w]
    IN /\ pc[w] = "read" /\ sock[c] = 0 /\ client[c] # "closed" /\ stage[c] = "ready"
       /\ readBuffer' = [readBuffer EXCEPT ![c] = 0]
       /\ n' = [n EXCEPT ![w] = 0]
       /\ Goto(w, "send")
       /\ UNCHANGED <<clientVars, sock, acceptVars, loopVars, conn, down, fate>>

\* read() returns EAGAIN: send() copies the buffer.
ReadAll(w) ==
    LET c == conn[w]
    IN /\ pc[w] = "read" /\ sock[c] = 0 /\ client[c] # "closed" /\ stage[c] = "ready"
       /\ n' = [n EXCEPT ![w] = readBuffer[c]]
       /\ Goto(w, "send")
       /\ UNCHANGED <<clientVars, sock, acceptVars, loopVars, conn, readBuffer, down, fate>>

\* Either of them, when readBuffer is still nullptr.
NullBuffer(w) ==
    /\ pc[w] = "append" \/ (pc[w] = "read" /\ sock[conn[w]] = 0)
    /\ stage[conn[w]] = "callback"
    /\ down' = TRUE
    /\ UNCHANGED <<clientVars, sock, acceptVars, loopVars, workVars, fate>>

EndEcho(w) ==
    /\ conn' = [conn EXCEPT ![w] = None]
    /\ n' = [n EXCEPT ![w] = 0]
    /\ Goto(w, "idle")

\* read() returns 0, or an error.
ReadEof(w) ==
    /\ pc[w] = "read" /\ sock[conn[w]] = 0 /\ client[conn[w]] = "closed"
    /\ EndEcho(w)
    /\ UNCHANGED <<clientVars, sock, acceptVars, loopVars, readBuffer, down, fate>>

\* write() takes some of the bytes, ...
Write(w) ==
    LET c == conn[w]
    IN /\ pc[w] = "send" /\ n[w] > 0
       /\ \E k \in 1..n[w] :
            /\ n' = [n EXCEPT ![w] = @ - k]
            /\ reply' = IF client[c] = "closed" THEN reply
                        ELSE [reply EXCEPT ![c] = @ + k]
       /\ UNCHANGED <<client, left, already, net, sock, acceptVars, loopVars, pc, conn,
                      readBuffer, down, fate>>

\* ... or none: the rest is given up, ...
WriteFull(w) ==
    /\ pc[w] = "send" /\ n[w] > 0
    /\ n' = [n EXCEPT ![w] = 0]
    /\ fate' = [fate EXCEPT ![conn[w]] = @ \union {"full"}]
    /\ UNCHANGED <<clientVars, sock, acceptVars, loopVars, pc, conn, readBuffer, down>>

\* ... or the peer has closed, and SIGPIPE ends the process.
WriteClosed(w) ==
    /\ pc[w] = "send" /\ n[w] > 0 /\ client[conn[w]] = "closed"
    /\ down' = TRUE
    /\ UNCHANGED <<clientVars, sock, acceptVars, loopVars, workVars, fate>>

\* readBuffer->clear(), whatever has been appended since the copy.
Clear(w) ==
    /\ pc[w] = "send" /\ n[w] = 0
    /\ readBuffer' = [readBuffer EXCEPT ![conn[w]] = 0]
    /\ EndEcho(w)
    /\ UNCHANGED <<clientVars, sock, acceptVars, loopVars, down, fate>>

-----------------------------------------------------------------------------
ClientStep(c) == SendMessage(c) \/ ReadReply(c) \/ Close(c) \/ Arrive(c)

Construction(c) == EnableReading(c) \/ UseET(c) \/ SetReadCallback(c) \/ NewReadBuffer(c)

ServerStep ==
    \/ QueueAccept \/ StartAccept \/ Poll
    \/ \E c \in Conns :
         Accept(c) \/ Construction(c) \/ HandleEvent(c)

Echo(w) ==
    \/ StartEcho(w) \/ ReadBytes(w) \/ AppendBytes(w) \/ ReadAll(w) \/ NullBuffer(w)
    \/ ReadEof(w) \/ Write(w) \/ WriteFull(w) \/ WriteClosed(w) \/ Clear(w)

Next ==
    /\ ~down
    /\ \/ \E c \in Conns : Connect(c) \/ ClientStep(c)
       \/ ServerStep
       \/ \E w \in Workers : Echo(w)

\* Threads that can run do, the network delivers, a client goes on once it has
\* connected.  A descriptor that is on the ready list is polled in the end.
Fairness ==
    /\ \A c \in Conns : WF_vars(~down /\ ClientStep(c))
    /\ \A c \in Conns : WF_vars(~down /\ HandleEvent(c))
    /\ \A c \in Conns : WF_vars(~down /\ Accept(c))
    /\ \A c \in Conns : WF_vars(~down /\ Construction(c))
    /\ WF_vars(~down /\ Poll) /\ WF_vars(~down /\ QueueAccept) /\ WF_vars(~down /\ StartAccept)
    /\ \A w \in Workers : WF_vars(~down /\ Echo(w))

Spec == Init /\ [][Next]_vars /\ Fairness

-----------------------------------------------------------------------------
(* Properties.                                                             *)

\* Every variable has its type.
TypeOK ==
    /\ client \in [Conns -> {"out", "write", "read", "closed"}]
    /\ left \in [Conns -> 0..Messages]
    /\ already \in [Conns -> Nat] /\ net \in [Conns -> Nat] /\ reply \in [Conns -> Nat]
    /\ sock \in [Conns -> Nat] /\ readBuffer \in [Conns -> Nat]
    /\ accepts \in 0..MaxAccepts /\ blocked \in 0..Acceptors
    /\ stage \in [Conns -> {"none", "accepted", "added", "et", "callback", "ready"}]
    /\ ready \subseteq Conns /\ active \subseteq Conns /\ tasks \in Seq(Conns)
    /\ pc \in [Workers -> {"idle", "read", "append", "send"}]
    /\ conn \in [Workers -> Conns \union {None}] /\ n \in [Workers -> Nat]
    /\ down \in BOOLEAN
    /\ fate \in [Conns -> SUBSET {"early", "erased", "full"}]

\* An edge is reported once.  Bytes that wait in a socket are never forgotten for
\* that: there is an event, a queued echo() or a running one that will read them,
\* unless the event came before the connection had its callback.
NoEdgeForgotten ==
    \A c \in Conns : sock[c] > 0 /\ Registered(c) /\ "early" \notin fate[c] =>
        \/ c \in ready \union active
        \/ \E i \in 1..Len(tasks) : tasks[i] = c
        \/ \E w \in Workers : conn[w] = c /\ pc[w] \in {"read", "append"}

\* A client that waits is answered, unless one of three things has happened to its
\* connection: an edge came before the callback was set, one thread cleared what
\* another had just read, or write() found the socket full.  The pool that runs echo() is
\* one whose `stop', which nothing initialises, happens to be false: else ThreadPool::add()
\* throws, and the event is lost with the process (see Refuse in ThreadPool).
AnsweredUnlessKnown ==
    \A c \in Conns : client[c] = "read" ~> client[c] # "read" \/ fate[c] # {} \/ down
=============================================================================
