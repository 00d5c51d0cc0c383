------------------------------ MODULE TcpServer ------------------------------
(***************************************************************************)
(* muduo-mgkl: TcpServer and its TcpConnections over the loops of its      *)
(* thread pool.  The base loop accepts connections and owns the map        *)
(* connections_; the I/O of a connection happens in the loop it was given  *)
(* to; the two exchange functors (queueInLoop).  A connection lives as long*)
(* as something holds a shared_ptr to it: the map, a functor bound to it,  *)
(* the guard of a running handler, or the user.                            *)
(*                                                                         *)
(* A loop is the FIFO executor that EventLoop implements: it polls, handles*)
(* the active channels one by one, then runs a batch of queued functors.   *)
(* Functors bound to a raw `this' (send() and shutdown() called from       *)
(* another thread) do not keep the connection alive.                       *)
(***************************************************************************)
EXTENDS Naturals, Sequences, FiniteSets

CONSTANTS
    Conns,      \* connections that may be made
    Base,       \* the base loop
    SubLoops,   \* the loops of the thread pool, if it has threads
    Users,      \* threads of the user that call send() and shutdown()
    SendsFiles, \* whether the user calls sendFile()
    MaxOut,     \* bound: most bytes waiting in an outputBuffer_
    MaxQueue,   \* bound: most functors in a queue a user's thread adds to
    NoConn,     \* the loop is not inside a handler
    NotWatched  \* see Channel

ASSUME ServerAssumption ==
    /\ Base \notin SubLoops /\ NoConn \notin Conns
    /\ SendsFiles \in BOOLEAN /\ MaxOut \in Nat \ {0} /\ MaxQueue \in Nat \ {0}

INSTANCE Channel

Loops == {Base} \union SubLoops

VARIABLES
    ioLoops,      \* the loops getNextLoop() gives out, set by setThreadNum()
    state,        \* state_, "none" before the constructor
    channel,      \* the connection's Channel
    out,          \* bytes in outputBuffer_
    wrShut,       \* shutdownWrite() was called on the socket
    peer,         \* "open", or "closed" once the peer has ended its side
    ioLoop,       \* the loop of each connection
    connections,  \* connections_
    queue,        \* functors waiting in each loop
    batch,        \* functors the loop is still to run in this round
    pinned,       \* connections held by the functors it has already run
    lpc,          \* where each loop is
    active,       \* what is left of activeChannels_: [c, re] records
    cur,          \* the handler that is running and the revents it has left
    held,         \* connections the user holds a TcpConnectionPtr to
    upc,          \* what each user thread is in the middle of
    ups, downs,   \* history: connectionCallback_ calls for each connection
    late,         \* history: connections a user's functor reached too late
    freed         \* history: dead connections that were used

connVars == <<state, channel, out, wrShut>>
loopVars == <<queue, batch, pinned, lpc, active, cur>>
userVars == <<held, upc>>
historyVars == <<ups, downs, late, freed>>
choiceVars == <<ioLoop, ioLoops>>
vars == <<connVars, peer, choiceVars, connections, loopVars, userVars, historyVars>>

States == {"none", "kConnecting", "kConnected", "kDisconnecting", "kDisconnected"}

\* A functor is the member function bound and the connection it is bound to.
Strong == {"connectEstablished", "connectDestroyed", "removeConnectionInLoop",
           "sendFileInLoop"}
Raw == {"sendInLoop", "shutdownInLoop"}
Functor == [op : Strong \union Raw, c : Conns]

\* What the user's threads can be in the middle of.
UserOps == Raw \union {"idle", "setState", "sendFileInLoop"}

\* An active channel, and what epoll has reported of it.
Event == [c : Conns \union {NoConn}, re : SUBSET (Events \union {"hup"})]

Idle == [c |-> NoConn, re |-> {}]

Init ==
    /\ ioLoops \in {{Base}, SubLoops} \ {{}}
    /\ state = [c \in Conns |-> "none"]
    /\ channel = [c \in Conns |-> NewChannel]
    /\ out = [c \in Conns |-> 0]
    /\ wrShut = [c \in Conns |-> FALSE]
    /\ peer = [c \in Conns |-> "open"]
    /\ ioLoop = [c \in Conns |-> Base]
    /\ connections = {}
    /\ queue = [l \in Loops |-> <<>>]
    /\ batch = [l \in Loops |-> <<>>]
    /\ pinned = [l \in Loops |-> {}]
    /\ lpc = [l \in Loops |-> "poll"]
    /\ active = [l \in Loops |-> {}]
    /\ cur = [l \in Loops |-> Idle]
    /\ held = {}
    /\ upc = [u \in Users |-> [op |-> "idle", c |-> NoConn]]
    /\ ups = [c \in Conns |-> 0]
    /\ downs = [c \in Conns |-> 0]
    /\ late = {}
    /\ freed = {}

-----------------------------------------------------------------------------
(* shared_ptr: what keeps a connection alive.                              *)

Created(c) == state[c] # "none"

\* Bug: connectDestroyed is bound to the raw pointer.
BugBoundRaw(fs, c) ==
    \E i \in 1..Len(fs) : fs[i].c = c /\ fs[i].op \in Strong \ {"connectDestroyed"}

\* A functor of the sequence holds the connection.
Bound(fs, c) == \E i \in 1..Len(fs) : fs[i].c = c /\ fs[i].op \in Strong

Alive(c) ==
    /\ Created(c)
    /\ \/ c \in connections \/ c \in held
       \/ \E l \in Loops : \/ Bound(queue[l], c) \/ Bound(batch[l], c)
                           \/ c \in pinned[l] \/ cur[l].c = c

\* The functor f waits in the loop of its connection.
Waits(f) == \E fs \in {queue[ioLoop[f.c]], batch[ioLoop[f.c]]} :
                \E i \in DOMAIN fs : fs[i] = f

\* Bound: a user sends one file at a time on a connection.
FileWaits(c) == Waits([op |-> "sendFileInLoop", c |-> c])

Queued(q, l, f) == [q EXCEPT ![l] = Append(@, f)]

-----------------------------------------------------------------------------
(* TcpConnection, called in the connection's loop.                         *)

\* connectEstablished(); the user may keep the pointer it is given.
ConnectEstablished(c) ==
    /\ state' = [state EXCEPT ![c] = "kConnected"]
    /\ channel' = [channel EXCEPT ![c] = EnableReading(@)]
    /\ ups' = [ups EXCEPT ![c] = @ + 1]
    /\ held' \in {held, IF Users = {} THEN held ELSE held \union {c}}
    /\ UNCHANGED <<out, wrShut, downs>>

\* Bug: connectDestroyed() calls back even if the connection is down already.
BugConnectDestroyedAlways(c) ==
    /\ state' = [state EXCEPT ![c] = "kDisconnected"]
    /\ channel' = [channel EXCEPT ![c] = DisableAll(@)]
    /\ downs' = [downs EXCEPT ![c] = @ + 1]
    /\ UNCHANGED <<out, wrShut, ups, held>>

\* connectDestroted(): nothing unless the connection is still up.
ConnectDestroyed(c) ==
    /\ IF state[c] = "kConnected"
       THEN /\ state' = [state EXCEPT ![c] = "kDisconnected"]
            /\ channel' = [channel EXCEPT ![c] = DisableAll(@)]
            /\ downs' = [downs EXCEPT ![c] = @ + 1]
       ELSE UNCHANGED <<state, channel, downs>>
    /\ UNCHANGED <<out, wrShut, ups, held>>

\* removeConnection(): runInLoop of removeConnectionInLoop in the base loop,
\* which erases the map entry and queues connectDestroyed in the I/O loop.
RemoveConnection(l, c) ==
    IF l = Base
    THEN /\ connections' = connections \ {c}
         /\ queue' = Queued(queue, ioLoop[c], [op |-> "connectDestroyed", c |-> c])
    ELSE /\ queue' = Queued(queue, Base, [op |-> "removeConnectionInLoop", c |-> c])
         /\ UNCHANGED connections

\* Bug: the channel stays in the epoll set.
BugHandleCloseKeepsChannel(l, c) ==
    /\ state' = [state EXCEPT ![c] = "kDisconnected"]
    /\ downs' = [downs EXCEPT ![c] = @ + 1]
    /\ RemoveConnection(l, c)
    /\ UNCHANGED <<channel, out, wrShut, ups, held>>

\* Bug: closeCallback_ is not called.
BugHandleCloseKeepsInMap(l, c) ==
    /\ state' = [state EXCEPT ![c] = "kDisconnected"]
    /\ channel' = [channel EXCEPT ![c] = DisableAll(@)]
    /\ downs' = [downs EXCEPT ![c] = @ + 1]
    /\ UNCHANGED <<connections, queue, out, wrShut, ups, held>>

\* handleClose().
HandleClose(l, c) ==
    /\ state' = [state EXCEPT ![c] = "kDisconnected"]
    /\ channel' = [channel EXCEPT ![c] = DisableAll(@)]
    /\ downs' = [downs EXCEPT ![c] = @ + 1]
    /\ RemoveConnection(l, c)
    /\ UNCHANGED <<out, wrShut, ups, held>>

\* Bug: the write side is shut while bytes are still waiting.
BugShutdownInLoop(c) ==
    /\ wrShut' = [wrShut EXCEPT ![c] = TRUE]
    /\ UNCHANGED <<channel, out>>

\* shutdownInLoop(): left to handleWrite() while there is output.
ShutdownInLoop(c) ==
    /\ wrShut' = [wrShut EXCEPT ![c] = @ \/ ~IsWriting(channel[c])]
    /\ UNCHANGED <<channel, out>>

\* sendInLoop() of one byte.  It is written at once if nothing is waiting; what
\* the socket does not take is kept and written when the socket is writable.
\* A write can fail (EPIPE, ECONNRESET) once either side has been shut, and then
\* the byte is dropped.
SendInLoop(c) ==
    LET direct == ~IsWriting(channel[c]) /\ out[c] = 0
    IN /\ \/ /\ direct /\ UNCHANGED <<out, channel>>
          \/ /\ ~(direct /\ wrShut[c])
             /\ out' = [out EXCEPT ![c] = IF @ < MaxOut THEN @ + 1 ELSE @]
             /\ channel' = [channel EXCEPT ![c] =
                              IF IsWriting(@) THEN @ ELSE EnableWriting(@)]
       /\ UNCHANGED wrShut

\* Bug: the shutdown left waiting is forgotten.
BugHandleWriteForgetsShutdown(c) ==
    IF IsWriting(channel[c])
    THEN \E n \in 0..out[c] :
            LET done == n > 0 /\ n = out[c]
            IN /\ out' = [out EXCEPT ![c] = @ - n]
               /\ channel' = [channel EXCEPT ![c] =
                                IF done THEN DisableWriting(@) ELSE @]
               /\ UNCHANGED wrShut
    ELSE UNCHANGED <<out, channel, wrShut>>

\* Bug: one byte too many is retrieved from the buffer.
BugHandleWriteRetrievesTooMuch(c) ==
    /\ \E n \in 0..out[c] : out' = [out EXCEPT ![c] = @ - n - 1]
    /\ UNCHANGED <<channel, wrShut>>

\* handleWrite(): ::write takes n bytes (none on an error).  When the last byte
\* is gone, write events are disabled and a shutdown() left waiting is done.
HandleWrite(c) ==
    IF IsWriting(channel[c])
    THEN \E n \in 0..out[c] :
            LET done == n > 0 /\ n = out[c]
            IN /\ out' = [out EXCEPT ![c] = @ - n]
               /\ channel' = [channel EXCEPT ![c] =
                                IF done THEN DisableWriting(@) ELSE @]
               /\ wrShut' = [wrShut EXCEPT ![c] =
                               @ \/ (done /\ state[c] = "kDisconnecting")]
    ELSE UNCHANGED <<out, channel, wrShut>>

\* sendFileInLoop(): nothing may be waiting before the file.  What the socket does
\* not take is tried again by the functor queueing itself; the file is finished
\* when all of it is sent or the socket fails for good.
FileMayGo(c) == ~IsWriting(channel[c]) /\ out[c] = 0
SendFileEnds(c) == state[c] = "kDisconnecting" \/ FileMayGo(c)
SendFileAgain(l, c) ==
    /\ state[c] # "kDisconnecting" /\ ~(FileMayGo(c) /\ wrShut[c])
    /\ queue' = Queued(queue, l, [op |-> "sendFileInLoop", c |-> c])

-----------------------------------------------------------------------------
(* The base loop's handlers and the user's threads.                        *)

ServerUp == lpc[Base] \notin {"destroying", "stopped"}

\* In activeChannels_, the Acceptor's channel stands as a record of no connection.
AcceptEvent == [c |-> NoConn, re |-> {"read"}]

\* Bug: the connection is not entered in the map.
BugNewConnectionNotInMap(c, l) ==
    /\ lpc[Base] = "handle" /\ cur[Base] = Idle /\ AcceptEvent \in active[Base]
    /\ ~Created(c) /\ l # Base
    /\ active' = [active EXCEPT ![Base] = @ \ {AcceptEvent}]
    /\ ioLoop' = [ioLoop EXCEPT ![c] = l]
    /\ state' = [state EXCEPT ![c] = "kConnecting"]
    /\ queue' = Queued(queue, l, [op |-> "connectEstablished", c |-> c])
    /\ UNCHANGED <<channel, out, wrShut, userVars, ups, downs, connections, peer,
                   ioLoops, batch, pinned, lpc, cur, late, freed>>

\* Acceptor::handleRead and newConnection(): the connection is made, entered
\* in the map and established in its loop, at once if that is this loop.
NewConnection(c, l) ==
    /\ lpc[Base] = "handle" /\ cur[Base] = Idle /\ AcceptEvent \in active[Base]
    /\ active' = [active EXCEPT ![Base] = @ \ {AcceptEvent}]
    /\ ~Created(c)
    /\ ioLoop' = [ioLoop EXCEPT ![c] = l]
    /\ connections' = connections \union {c}
    /\ IF l = Base
       THEN /\ ConnectEstablished(c)
            /\ UNCHANGED queue
       ELSE /\ state' = [state EXCEPT ![c] = "kConnecting"]
            /\ queue' = Queued(queue, l, [op |-> "connectEstablished", c |-> c])
            /\ UNCHANGED <<channel, out, wrShut, held, ups, downs>>
    /\ UNCHANGED <<peer, ioLoops, batch, pinned, lpc, cur, upc, late, freed>>

\* The peer closes its side, or resets the connection.
PeerCloses(c) ==
    /\ Created(c) /\ peer[c] = "open"
    /\ peer' = [peer EXCEPT ![c] = "closed"]
    /\ UNCHANGED <<connVars, choiceVars, connections, loopVars, userVars, historyVars>>

\* send(), sendFile() or shutdown() in a user's thread: state_ is tested.  Users do
\* not call into a server they are destroying.
UserCall(u, c, next) ==
    /\ upc[u].op = "idle" /\ c \in held
    /\ state[c] = "kConnected" /\ ServerUp
    /\ Len(queue[ioLoop[c]]) < MaxQueue
    /\ upc' = [upc EXCEPT ![u] = [op |-> next, c |-> c]]
    /\ UNCHANGED <<connVars, peer, choiceVars, connections, loopVars, held, historyVars>>

\* shutdown(): setState(kDisconnecting), whatever state_ has become meanwhile.
UserSetState(u) ==
    /\ upc[u].op = "setState"
    /\ state' = [state EXCEPT ![upc[u].c] = "kDisconnecting"]
    /\ upc' = [upc EXCEPT ![u].op = "shutdownInLoop"]
    /\ UNCHANGED <<channel, out, wrShut, peer, choiceVars, connections, loopVars, held,
                   historyVars>>

\* The functor is queued in the connection's loop, bound to the raw `this' (or, for
\* sendFile(), to a shared_ptr).
UserPost(u) ==
    /\ upc[u].op \in Raw \union {"sendFileInLoop"}
    /\ queue' = Queued(queue, ioLoop[upc[u].c], upc[u])
    /\ upc' = [upc EXCEPT ![u] = [op |-> "idle", c |-> NoConn]]
    /\ UNCHANGED <<connVars, peer, choiceVars, connections, batch, pinned, lpc, active,
                   cur, held, historyVars>>

\* The user gives its pointer up.
Release(c) ==
    /\ c \in held /\ \A u \in Users : upc[u].c # c
    /\ held' = held \ {c}
    /\ UNCHANGED <<connVars, peer, choiceVars, connections, loopVars, upc, historyVars>>

-----------------------------------------------------------------------------
(* A loop.                                                                 *)

\* What epoll may report of a watched channel: events it is registered for, and
\* EPOLLHUP, which for TCP comes with EPOLLIN if reading is registered.  It is
\* level-triggered: a closed peer is reported every time.
Reports(c) ==
    LET closed == peer[c] = "closed"
        hup == IF closed /\ "read" \notin channel[c].epoll THEN {"hup"} ELSE {}
    IN {re \in SUBSET (channel[c].epoll \union hup) :
           closed /\ "read" \in channel[c].epoll => "read" \in re}

Watched(l) == {c \in Conns : /\ Alive(c) /\ ioLoop[c] = l
                             /\ channel[c].epoll # NotWatched}

\* epoll_wait returns: something happened on the watched channels, there is a
\* connection to accept, or the loop was woken up.
Poll(l) ==
    /\ lpc[l] = "poll"
    /\ \E f \in [Watched(l) -> SUBSET (Events \union {"hup"})],
          accepts \in SUBSET (IF l = Base /\ \E c \in Conns : ~Created(c)
                             THEN {AcceptEvent} ELSE {}) :
          LET events == {[c |-> c, re |-> f[c]] : c \in {d \in Watched(l) : f[d] # {}}}
                        \union accepts
          IN /\ \A c \in Watched(l) : f[c] \in Reports(c)
             /\ events # {} \/ queue[l] # <<>> \/ ~ServerUp
             /\ active' = [active EXCEPT ![l] = events]
    /\ lpc' = [lpc EXCEPT ![l] = "handle"]
    /\ UNCHANGED <<connVars, peer, choiceVars, connections, queue, batch, pinned, cur,
                   userVars, historyVars>>

\* Channel::handleEvent of the next active channel: its tie_ is locked for as
\* long as the handlers run.  A dead connection has taken its Channel with it.
StartHandler(l, a) ==
    /\ lpc[l] = "handle" /\ cur[l] = Idle /\ a \in active[l] /\ a.c # NoConn
    /\ active' = [active EXCEPT ![l] = @ \ {a}]
    /\ IF Alive(a.c)
       THEN cur' = [cur EXCEPT ![l] = a] /\ UNCHANGED freed
       ELSE freed' = freed \union {a.c} /\ UNCHANGED cur
    /\ UNCHANGED <<connVars, peer, choiceVars, connections, queue, batch, pinned, lpc,
                   userVars, ups, downs, late>>

\* The handlers of one channel, in the order of handleEventWithGuard.
Took(l, e) == cur' = [cur EXCEPT ![l].re = @ \ {e}]

OnHup(l) ==
    /\ "hup" \in cur[l].re
    /\ HandleClose(l, cur[l].c) /\ Took(l, "hup")
    /\ UNCHANGED <<peer, choiceVars, batch, pinned, lpc, active, upc, late, freed>>

\* handleRead() reads 0 bytes: the peer has closed and its data is consumed.
OnReadClosed(l) ==
    /\ "hup" \notin cur[l].re /\ "read" \in cur[l].re
    /\ peer[cur[l].c] = "closed"
    /\ HandleClose(l, cur[l].c) /\ Took(l, "read")
    /\ UNCHANGED <<peer, choiceVars, batch, pinned, lpc, active, upc, late, freed>>

\* handleRead() reads a message (or an error, which is only logged).  The user's
\* messageCallback_ does nothing, answers, or shuts the connection down.
OnMessage(l) ==
    LET c == cur[l].c
    IN /\ "hup" \notin cur[l].re /\ "read" \in cur[l].re
       /\ \/ UNCHANGED <<connVars, queue>>
          \/ state[c] = "kConnected" /\ SendInLoop(c) /\ UNCHANGED <<state, queue>>
          \/ /\ state[c] = "kConnected"
             /\ state' = [state EXCEPT ![c] = "kDisconnecting"]
             /\ ShutdownInLoop(c)
             /\ UNCHANGED queue
          \/ /\ SendsFiles /\ state[c] = "kConnected" /\ ~FileWaits(c)
             /\ SendFileAgain(l, c)   \* sent at once is no change at all
             /\ UNCHANGED connVars
       /\ Took(l, "read")
       /\ UNCHANGED <<peer, choiceVars, connections, batch, pinned, lpc, active, userVars,
                      historyVars>>

OnWrite(l) ==
    /\ cur[l].re = {"write"}
    /\ HandleWrite(cur[l].c) /\ Took(l, "write")
    /\ UNCHANGED <<state, peer, choiceVars, connections, queue, batch, pinned, lpc,
                   active, userVars, historyVars>>

\* The guard is released.
EndHandler(l) ==
    /\ cur[l].c # NoConn /\ cur[l].re = {}
    /\ cur' = [cur EXCEPT ![l] = Idle]
    /\ UNCHANGED <<connVars, peer, choiceVars, connections, queue, batch, pinned, lpc,
                   active, userVars, historyVars>>

\* The active channels are done: doPendingFunctors() takes the queue.
TakeBatch(l) ==
    /\ lpc[l] = "handle" /\ cur[l] = Idle /\ active[l] = {}
    /\ batch' = [batch EXCEPT ![l] = queue[l]]
    /\ queue' = [queue EXCEPT ![l] = <<>>]
    /\ lpc' = [lpc EXCEPT ![l] = "run"]
    /\ UNCHANGED <<connVars, peer, choiceVars, connections, pinned, active, cur,
                   userVars, historyVars>>

\* The next functor of the batch, op on connection c.  What it has bound lives on
\* until the whole batch is destroyed.
Running(l, op, c) ==
    /\ lpc[l] = "run" /\ batch[l] # <<>> /\ Head(batch[l]) = [op |-> op, c |-> c]
    /\ batch' = [batch EXCEPT ![l] = Tail(@)]
    /\ pinned' = IF op \in Strong THEN [pinned EXCEPT ![l] = @ \union {c}] ELSE pinned
    /\ freed' = IF Alive(c) THEN freed ELSE freed \union {c}
    /\ UNCHANGED <<peer, choiceVars, lpc, active, cur, upc>>

RunConnectEstablished(l, c) ==
    /\ Running(l, "connectEstablished", c)
    /\ ConnectEstablished(c)
    /\ UNCHANGED <<connections, queue, late>>

RunConnectDestroyed(l, c) ==
    /\ Running(l, "connectDestroyed", c)
    /\ ConnectDestroyed(c)
    /\ UNCHANGED <<connections, queue, late>>

RunRemoveConnection(c) ==
    /\ Running(Base, "removeConnectionInLoop", c)
    /\ RemoveConnection(Base, c)
    /\ UNCHANGED <<connVars, held, ups, downs, late>>

\* A user's functor; nothing is said of what it does to a dead connection.
RunRaw(l, op, c) ==
    /\ op \in Raw
    /\ Running(l, op, c)
    /\ IF ~Alive(c) THEN UNCHANGED <<channel, out, wrShut>>
       ELSE IF op = "sendInLoop" THEN SendInLoop(c) ELSE ShutdownInLoop(c)
    /\ late' = IF downs[c] > 0 THEN late \union {c} ELSE late
    /\ UNCHANGED <<state, connections, queue, held, ups, downs>>

RunSendFileEnds(l, c) ==
    /\ Running(l, "sendFileInLoop", c)
    /\ SendFileEnds(c)
    /\ UNCHANGED <<connVars, connections, queue, held, ups, downs, late>>

RunSendFileAgain(l, c) ==
    /\ Running(l, "sendFileInLoop", c)
    /\ SendFileAgain(l, c)
    /\ UNCHANGED <<connVars, connections, held, ups, downs, late>>

\* The batch is done and destroyed; the loop goes round, or finds quit_ set and
\* drops what is queued.
EndBatch(l) ==
    /\ lpc[l] = "run" /\ batch[l] = <<>>
    /\ pinned' = [pinned EXCEPT ![l] = {}]
    /\ \/ /\ lpc' = [lpc EXCEPT ![l] = "poll"]
          /\ UNCHANGED queue
       \/ /\ l # Base /\ lpc[Base] = "stopped"
          /\ lpc' = [lpc EXCEPT ![l] = "stopped"]
          /\ queue' = [queue EXCEPT ![l] = <<>>]
    /\ UNCHANGED <<connVars, peer, choiceVars, connections, batch, active, cur, userVars,
                   historyVars>>

-----------------------------------------------------------------------------
(* ~TcpServer, in the base thread once the base loop has returned.         *)

BeginStop ==
    /\ lpc[Base] = "poll" /\ \A u \in Users : upc[u].op = "idle"
    /\ lpc' = [lpc EXCEPT ![Base] = "destroying"]
    /\ UNCHANGED <<connVars, peer, choiceVars, connections, queue, batch, pinned, active,
                   cur, userVars, historyVars>>

\* One item of the map: its pointer is reset and the connection destroyed in its
\* loop, at once if that is the base loop.
DestroyItem(c) ==
    /\ lpc[Base] = "destroying" /\ c \in connections
    /\ connections' = connections \ {c}
    /\ IF ioLoop[c] = Base
       THEN ConnectDestroyed(c) /\ UNCHANGED queue
       ELSE /\ queue' = Queued(queue, ioLoop[c], [op |-> "connectDestroyed", c |-> c])
            /\ UNCHANGED <<connVars, ups, downs, held>>
    /\ UNCHANGED <<peer, choiceVars, batch, pinned, lpc, active, cur, upc, late, freed>>

\* The members go: the thread pool tells its loops to quit.
EndStop ==
    /\ lpc[Base] = "destroying" /\ connections = {}
    /\ lpc' = [lpc EXCEPT ![Base] = "stopped"]
    /\ UNCHANGED <<connVars, peer, choiceVars, connections, queue, batch, pinned, active,
                   cur, userVars, historyVars>>

-----------------------------------------------------------------------------
Handle(l) ==
    \/ \E a \in active[l] : StartHandler(l, a)
    \/ OnHup(l) \/ OnReadClosed(l) \/ OnMessage(l) \/ OnWrite(l)
    \/ EndHandler(l)

RunFunctor(l) ==
    \E c \in Conns : \/ RunConnectEstablished(l, c)
                     \/ RunConnectDestroyed(l, c)
                     \/ l = Base /\ RunRemoveConnection(c)
                     \/ \E op \in Raw : RunRaw(l, op, c)
                     \/ RunSendFileEnds(l, c) \/ RunSendFileAgain(l, c)

\* getNextLoop() goes round the loops (EventLoopThreadPool); which of them a
\* connection gets does not matter here.
Accept == \E c \in Conns, l \in ioLoops : NewConnection(c, l)

LoopStep(l) ==
    \/ l = Base /\ Accept
    \/ Poll(l) \/ Handle(l) \/ TakeBatch(l) \/ RunFunctor(l) \/ EndBatch(l)

UserStep(u) ==
    \/ \E c \in Conns : \/ UserCall(u, c, "sendInLoop")
                        \/ UserCall(u, c, "setState")
                        \/ /\ SendsFiles /\ ~FileWaits(c)
                           /\ UserCall(u, c, "sendFileInLoop")
    \/ UserSetState(u) \/ UserPost(u)

Next ==
    \/ \E l \in Loops : LoopStep(l)
    \/ \E u \in Users : UserStep(u)
    \/ \E c \in Conns : PeerCloses(c) \/ Release(c) \/ DestroyItem(c)
    \/ BeginStop \/ EndStop

\* Every loop keeps running; what the peer sent before it closed is finite; a
\* socket takes data again or fails for good; the user returns from its calls and
\* gives up its pointers.
Fairness ==
    /\ \A l \in Loops : WF_vars(LoopStep(l)) /\ SF_vars(OnReadClosed(l))
    /\ SendsFiles => \A l \in Loops : SF_vars(\E c \in Conns : RunSendFileEnds(l, c))
    /\ \A u \in Users : WF_vars(UserSetState(u) \/ UserPost(u))
    /\ Users # {} => \A c \in Conns : SF_vars(Release(c))

Spec == Init /\ [][Next]_vars /\ Fairness

-----------------------------------------------------------------------------
(* Properties.                                                             *)

\* Every variable has its type.
TypeOK ==
    /\ state \in [Conns -> States]
    /\ channel \in [Conns -> ChannelType]
    /\ out \in [Conns -> 0..MaxOut]
    /\ wrShut \in [Conns -> BOOLEAN]
    /\ peer \in [Conns -> {"open", "closed"}]
    /\ ioLoop \in [Conns -> Loops] /\ ioLoops \subseteq Loops
    /\ connections \subseteq Conns
    /\ queue \in [Loops -> Seq(Functor)] /\ batch \in [Loops -> Seq(Functor)]
    /\ pinned \in [Loops -> SUBSET Conns]
    /\ active \in [Loops -> SUBSET Event] /\ cur \in [Loops -> Event]
    /\ lpc \in [Loops -> {"poll", "handle", "run", "destroying", "stopped"}]
    /\ held \subseteq Conns
    /\ upc \in [Users -> [op : UserOps, c : Conns \union {NoConn}]]
    /\ ups \in [Conns -> Nat] /\ downs \in [Conns -> Nat]
    /\ late \subseteq Conns /\ freed \subseteq Conns

Down(c) == downs[c] > 0

\* The user hears UP once and DOWN at most once after it, whichever way the
\* connection ends (the peer, the server's destruction, or both at once), unless
\* a functor of its own reached the connection after DOWN.
UpThenDownOnce ==
    \A c \in Conns : /\ ups[c] <= 1
                     /\ c \notin late => downs[c] <= ups[c]

\* A connection that is down is out of the epoll set and stays out: no event will
\* be dispatched to the Channel of a connection about to be destroyed.
DownIsUnwatched ==
    \A c \in Conns : Down(c) /\ c \notin late => channel[c].epoll = NotWatched

\* Bytes the socket did not take are never forgotten: while the connection is up
\* and has output, the kernel watches it for writing.
OutputIsWatched ==
    \A c \in Conns : state[c] \in {"kConnected", "kDisconnecting"} /\ ~Down(c) =>
        /\ channel[c].index = "kAdded" /\ WatchedAsWanted(channel[c])
        /\ out[c] > 0 <=> "write" \in channel[c].epoll

\* A shutdown() is never forgotten: until the write side is shut, either output is
\* still being written (handleWrite will do it) or shutdownInLoop is on its way,
\* as long as the connection's loop has not quit and dropped its queue.
ShutdownIsPending ==
    \A c \in Conns : state[c] = "kDisconnecting" /\ ~Down(c) =>
        \/ wrShut[c] \/ IsWriting(channel[c]) \/ lpc[ioLoop[c]] = "stopped"
        \/ \E u \in Users : upc[u] = [op |-> "shutdownInLoop", c |-> c]
        \/ Waits([op |-> "shutdownInLoop", c |-> c])

\* A connection is destroyed only when its user has been told it is down, unless
\* the server itself is being destroyed.
DestroyedAfterDown ==
    \A c \in Conns : Created(c) /\ ~Alive(c) => Down(c) \/ ~ServerUp

\* While send() and shutdown() are only called in the connection's loop, no
\* handler and no functor ever reaches a connection that has been destroyed.
NoUseAfterFree == freed = {}

\* shutdownInLoop() and handleWrite(): the write side of a connection that is up is
\* only shut when its outputBuffer_ has been written out.  It does not cover what is
\* not in outputBuffer_ yet: a send() whose functor got behind that of shutdown(), and
\* the rest of a file, which sendFileInLoop gives up once the state is kDisconnecting.
OutputBeforeShutdown ==
    [][\A c \in Conns : wrShut'[c] # wrShut[c] /\ ~Down(c) => out'[c] = 0]_vars

\* A connection whose peer has closed is in the end destroyed (its socket closed),
\* if the user does not keep it and the server runs on.
ClosedIsDestroyed ==
    \A c \in Conns : (Created(c) /\ peer[c] = "closed") ~> (~Alive(c) \/ ~ServerUp)

\* What sendFileInLoop says ("disconnected, give up writing"): it does not go on
\* trying on a connection that is disconnected, if the loops run on.
SendFileGivesUp ==
    \A c \in Conns : state[c] = "kDisconnected" ~> (~FileWaits(c) \/ ~ServerUp)

\* What sendInLoop says ("disconnected, give up writing"): a connection that is
\* disconnected accepts no more output.
GivesUpWriting ==
    [][\A c \in Conns : state[c] = "kDisconnected" => out'[c] <= out[c]]_vars
=============================================================================
