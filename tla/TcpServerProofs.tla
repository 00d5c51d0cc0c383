--------------------------- MODULE TcpServerProofs ---------------------------
(***************************************************************************)
(* What TcpServer guarantees for any connections, loops and users, proved  *)
(* with TLAPS: the user hears UP and DOWN once each, a connection is       *)
(* watched by epoll for exactly what it waits for, a shutdown is never     *)
(* forgotten and never done while outputBuffer_ holds output, and nothing  *)
(* is destroyed that is still up.                                          *)
(*                                                                         *)
(* Loops exchange functors, so the invariants say what a waiting functor   *)
(* means for the connection it is bound to.                                *)
(***************************************************************************)
EXTENDS TcpServer, Functions, TLAPS

\* The functors the server queues itself.
Est(c) == [op |-> "connectEstablished", c |-> c]
Des(c) == [op |-> "connectDestroyed", c |-> c]
Rem(c) == [op |-> "removeConnectionInLoop", c |-> c]

\* The functors a loop is still to run.
Waiting(l) == Range(batch[l]) \union Range(queue[l])

\* f occurs at most once in the sequence.
Single(fs, f) == \A i, j \in DOMAIN fs : fs[i] = f /\ fs[j] = f => i = j

\* A send or shutdown of c in the sequence has a connectDestroyed of c behind it.
Followed(fs, c) ==
    \A i \in DOMAIN fs : fs[i].c = c /\ fs[i].op \in Raw =>
        \E j \in DOMAIN fs : j > i /\ fs[j] = Des(c)

\* The connection has not been established.
New(c) == state[c] \in {"none", "kConnecting"}

\* The channel after disableAll().
Deleted == [events |-> {}, index |-> "kDeleted", epoll |-> NotWatched]

-----------------------------------------------------------------------------
(* The inductive invariant.                                                *)

\* Where a loop is, what it has in hand.
LoopInv ==
    \A l \in Loops :
        /\ lpc[l] # "handle" => active[l] = {} /\ cur[l] = Idle
        /\ lpc[l] # "run" => batch[l] = <<>> /\ pinned[l] = {}
        /\ lpc[l] = "destroying" => l = Base
        /\ cur[l].c = NoConn => cur[l] = Idle
        /\ \A a, b \in active[l] : a.c = b.c => a = b
        /\ \A a \in active[l] : a.c # NoConn => a.c # cur[l].c

\* A loop handles its own connections.  One that is about to be closed is still up.
EventInv ==
    \A l \in Loops : \A e \in active[l] \union {cur[l]} : e.c # NoConn =>
        /\ ioLoop[e.c] = l /\ ~New(e.c)
        /\ ~({"hup", "read"} \subseteq e.re)
        /\ e \in active[l] \/ ~(e.re \subseteq {"write"}) => e.c \in late \/ downs[e.c] = 0

\* What a waiting functor says of its connection.
FunctorInv ==
    \A l \in Loops : \A f \in Waiting(l) :
        /\ l = IF f.op = "removeConnectionInLoop" THEN Base ELSE ioLoop[f.c]
        /\ Created(f.c)
        /\ New(f.c) => f.op \in {"connectEstablished", "connectDestroyed"}
        /\ f.op = "connectEstablished" => New(f.c)
        /\ f.op = "removeConnectionInLoop" => downs[f.c] > 0

\* A connection is established once.
OnceInv ==
    \A l \in Loops, c \in Conns :
        /\ Single(queue[l], Est(c)) /\ Single(batch[l], Est(c))
        /\ ~(Est(c) \in Range(queue[l]) /\ Est(c) \in Range(batch[l]))

\* The life of a connection, and what its user has been told.
LifeInv ==
    \A c \in Conns :
        /\ New(c) => /\ channel[c] = NewChannel /\ out[c] = 0
                     /\ ups[c] = 0 /\ downs[c] = 0 /\ c \notin held /\ c \notin late
                     /\ \A u \in Users : upc[u].c # c
        /\ ~Created(c) => c \notin connections
        /\ ~New(c) => ups[c] = 1
        /\ state[c] = "kConnected" => downs[c] = 0
        /\ state[c] = "kDisconnected" => downs[c] > 0
        /\ c \notin late => downs[c] <= 1

\* What a user's thread is in the middle of, and that the server outlives it.
UserInv ==
    \A u \in Users : /\ upc[u].op = "idle" \/ upc[u].c \in Conns
                     /\ ~ServerUp => upc[u].op = "idle"

\* The poller and the output of a connection.
ChannelInv ==
    \A c \in Conns :
        /\ ~New(c) /\ downs[c] = 0 =>
              /\ channel[c].index = "kAdded" /\ channel[c].epoll = channel[c].events
              /\ "read" \in channel[c].events
              /\ out[c] > 0 <=> "write" \in channel[c].events
        /\ downs[c] > 0 /\ c \notin late => channel[c] = Deleted

\* The map has the connections that are up.
MapInv == \A c \in Conns : ServerUp /\ Created(c) /\ downs[c] = 0 => c \in connections

\* When ~TcpServer has taken one from it, connectDestroyed comes after what its users
\* have queued.
OrderInv ==
    \A c \in Conns : Created(c) /\ downs[c] = 0 /\ c \notin connections /\ ioLoop[c] # Base =>
        LET l == ioLoop[c]
        IN /\ Followed(queue[l], c)
           /\ Des(c) \in Range(queue[l]) \/ Followed(batch[l], c)

Inv ==
    /\ TypeOK /\ LoopInv /\ EventInv /\ FunctorInv /\ OnceInv /\ LifeInv /\ UserInv
    /\ ChannelInv /\ MapInv /\ OrderInv /\ ShutdownIsPending

\* Without other threads there is no functor that does not own its connection, and the
\* active channels are those of living connections.
AloneInv ==
    /\ held = {} /\ late = {} /\ freed = {}
    /\ \A l \in Loops :
        /\ \A f \in Waiting(l) : f.op \in Strong
        /\ \A c \in pinned[l] : Created(c) /\ (ioLoop[c] = l \/ downs[c] > 0)
        /\ \A a \in active[l] : a.c # NoConn =>
              a.c \in connections \/ \E f \in Range(queue[l]) : f.c = a.c /\ f.op \in Strong

-----------------------------------------------------------------------------
(* Sequences of functors.                                                  *)

\* A functor is determined by what it is bound to.
LEMMA FunctorRecord ==
    ASSUME NEW c \in Conns, NEW op \in Strong \union Raw
    PROVE  [op |-> op, c |-> c] \in Functor
BY DEF Functor

LEMMA RangeAppend ==
    ASSUME NEW s \in Seq(Functor), NEW f \in Functor
    PROVE  /\ Append(s, f) \in Seq(Functor)
           /\ Range(Append(s, f)) = Range(s) \union {f}
<1>1. /\ Append(s, f) \in Seq(Functor) /\ Len(Append(s, f)) = Len(s) + 1
      /\ DOMAIN s = 1..Len(s) /\ DOMAIN Append(s, f) = 1..(Len(s) + 1)
      /\ \A i \in 1..Len(s) : Append(s, f)[i] = s[i]
      /\ Append(s, f)[Len(s) + 1] = f
      /\ Len(s) \in Nat
  OBVIOUS
<1>2. ASSUME NEW x \in Range(Append(s, f)) PROVE x \in Range(s) \union {f}
  <2>1. PICK i \in 1..(Len(s) + 1) : x = Append(s, f)[i]
    BY <1>1, <1>2 DEF Range
  <2>2. CASE i = Len(s) + 1
    BY <1>1, <2>1, <2>2
  <2>3. CASE i \in 1..Len(s)
    BY <1>1, <2>1, <2>3 DEF Range
  <2> QED BY <1>1, <2>2, <2>3
<1>3. ASSUME NEW x \in Range(s) PROVE x \in Range(Append(s, f))
  BY <1>1, <1>3 DEF Range
<1>4. f \in Range(Append(s, f))
  BY <1>1 DEF Range
<1> QED BY <1>1, <1>2, <1>3, <1>4

LEMMA RangeTail ==
    ASSUME NEW s \in Seq(Functor), s # <<>>
    PROVE  /\ Tail(s) \in Seq(Functor) /\ Head(s) \in Functor /\ Head(s) \in Range(s)
           /\ Range(s) = {Head(s)} \union Range(Tail(s))
<1>1. /\ Tail(s) \in Seq(Functor) /\ Head(s) \in Functor /\ Head(s) = s[1]
      /\ Len(s) \in Nat \ {0} /\ DOMAIN s = 1..Len(s)
      /\ DOMAIN Tail(s) = 1..(Len(s) - 1)
      /\ \A i \in 1..(Len(s) - 1) : Tail(s)[i] = s[i + 1]
  OBVIOUS
<1>2. ASSUME NEW x \in Range(s), x # Head(s) PROVE x \in Range(Tail(s))
  <2>1. PICK i \in 1..Len(s) : x = s[i]
    BY <1>1, <1>2 DEF Range
  <2>2. i - 1 \in 1..(Len(s) - 1) /\ Tail(s)[i - 1] = s[i]
    BY <1>1, <1>2, <2>1
  <2> QED BY <1>1, <2>1, <2>2 DEF Range
<1>3. ASSUME NEW x \in Range(Tail(s)) PROVE x \in Range(s)
  <2>1. PICK i \in 1..(Len(s) - 1) : x = s[i + 1]
    BY <1>1, <1>3 DEF Range
  <2> QED BY <1>1, <2>1 DEF Range
<1>4. Head(s) \in Range(s)
  BY <1>1 DEF Range
<1> QED BY <1>1, <1>2, <1>3, <1>4

LEMMA RangeEmpty == Range(<<>>) = {}
BY DEF Range

LEMMA SingleAppend ==
    ASSUME NEW s \in Seq(Functor), NEW g \in Functor, NEW f, Single(s, f),
           g # f \/ f \notin Range(s)
    PROVE  Single(Append(s, g), f)
<1>1. /\ DOMAIN s = 1..Len(s) /\ DOMAIN Append(s, g) = 1..(Len(s) + 1)
      /\ \A i \in 1..Len(s) : Append(s, g)[i] = s[i]
      /\ Append(s, g)[Len(s) + 1] = g
      /\ Len(s) \in Nat
  OBVIOUS
<1>2. \A i \in 1..(Len(s) + 1) : i \in 1..Len(s) \/ i = Len(s) + 1
  BY <1>1
<1> QED BY <1>1, <1>2 DEF Single, Range

LEMMA SingleTail ==
    ASSUME NEW s \in Seq(Functor), s # <<>>, NEW f, Single(s, f)
    PROVE  /\ Single(Tail(s), f)
           /\ Head(s) = f => f \notin Range(Tail(s))
<1>1. /\ Head(s) = s[1] /\ Len(s) \in Nat \ {0} /\ DOMAIN s = 1..Len(s)
      /\ DOMAIN Tail(s) = 1..(Len(s) - 1)
      /\ \A i \in 1..(Len(s) - 1) : Tail(s)[i] = s[i + 1]
  OBVIOUS
<1>2. \A i \in 1..(Len(s) - 1) : i + 1 \in DOMAIN s /\ i + 1 # 1
  BY <1>1
<1>3. 1 \in DOMAIN s
  BY <1>1
<1>4. Single(Tail(s), f)
  BY <1>1, <1>2 DEF Single
<1>5. ASSUME Head(s) = f, f \in Range(Tail(s)) PROVE FALSE
  <2>1. PICK i \in 1..(Len(s) - 1) : s[i + 1] = f
    BY <1>1, <1>5 DEF Range
  <2> QED BY <1>1, <1>2, <1>3, <1>5, <2>1 DEF Single
<1> QED BY <1>4, <1>5

LEMMA FollowedAppend ==
    ASSUME NEW s \in Seq(Functor), NEW f \in Functor, NEW c
    PROVE  /\ f.c # c \/ f.op \notin Raw => (Followed(s, c) => Followed(Append(s, f), c))
           /\ f = Des(c) => Followed(Append(s, f), c)
<1>1. /\ DOMAIN s = 1..Len(s) /\ DOMAIN Append(s, f) = 1..(Len(s) + 1)
      /\ \A i \in 1..Len(s) : Append(s, f)[i] = s[i]
      /\ Append(s, f)[Len(s) + 1] = f
      /\ Len(s) \in Nat
  OBVIOUS
<1>2. \A i \in 1..(Len(s) + 1) : i \in 1..Len(s) \/ i = Len(s) + 1
  BY <1>1
<1>3. 1..Len(s) \subseteq 1..(Len(s) + 1) /\ Len(s) + 1 \in 1..(Len(s) + 1)
  BY <1>1
<1>4. ASSUME f.c # c \/ f.op \notin Raw, Followed(s, c) PROVE Followed(Append(s, f), c)
  <2> SUFFICES ASSUME NEW i \in 1..(Len(s) + 1),
                      Append(s, f)[i].c = c, Append(s, f)[i].op \in Raw
               PROVE  \E j \in 1..(Len(s) + 1) : j > i /\ Append(s, f)[j] = Des(c)
    BY <1>1 DEF Followed
  <2>1. i \in 1..Len(s) /\ s[i].c = c /\ s[i].op \in Raw
    BY <1>1, <1>2, <1>4
  <2>2. PICK j \in 1..Len(s) : j > i /\ s[j] = Des(c)
    BY <1>1, <1>4, <2>1 DEF Followed
  <2> QED BY <1>1, <1>3, <2>2
<1>5. ASSUME f = Des(c) PROVE Followed(Append(s, f), c)
  <2>1. f.op \notin Raw
    BY <1>5 DEF Des, Raw
  <2> SUFFICES ASSUME NEW i \in 1..(Len(s) + 1),
                      Append(s, f)[i].c = c, Append(s, f)[i].op \in Raw
               PROVE  \E j \in 1..(Len(s) + 1) : j > i /\ Append(s, f)[j] = Des(c)
    BY <1>1 DEF Followed
  <2>2. i \in 1..Len(s)
    BY <1>1, <1>2, <2>1
  <2>3. Len(s) + 1 > i
    BY <1>1, <2>2
  <2> QED BY <1>1, <1>3, <1>5, <2>3
<1> QED BY <1>4, <1>5

LEMMA FollowedTail ==
    ASSUME NEW s \in Seq(Functor), s # <<>>, NEW c, Followed(s, c)
    PROVE  /\ Followed(Tail(s), c)
           /\ Head(s).c = c /\ Head(s).op \in Raw => Des(c) \in Range(Tail(s))
<1>1. /\ Head(s) = s[1] /\ Len(s) \in Nat \ {0} /\ DOMAIN s = 1..Len(s)
      /\ DOMAIN Tail(s) = 1..(Len(s) - 1)
      /\ \A i \in 1..(Len(s) - 1) : Tail(s)[i] = s[i + 1]
  OBVIOUS
<1>2. Followed(Tail(s), c)
  <2> SUFFICES ASSUME NEW i \in 1..(Len(s) - 1),
                      Tail(s)[i].c = c, Tail(s)[i].op \in Raw
               PROVE  \E j \in 1..(Len(s) - 1) : j > i /\ Tail(s)[j] = Des(c)
    BY <1>1 DEF Followed
  <2>1. i + 1 \in DOMAIN s /\ s[i + 1].c = c /\ s[i + 1].op \in Raw
    BY <1>1
  <2>2. PICK j \in 1..Len(s) : j > i + 1 /\ s[j] = Des(c)
    BY <1>1, <2>1 DEF Followed
  <2>3. j - 1 \in 1..(Len(s) - 1) /\ j - 1 > i /\ (j - 1) + 1 = j
    BY <1>1, <2>2
  <2>4. Tail(s)[j - 1] = s[j]
    BY <1>1, <2>3
  <2> QED BY <2>2, <2>3, <2>4
<1>3. ASSUME Head(s).c = c, Head(s).op \in Raw PROVE Des(c) \in Range(Tail(s))
  <2>1. 1 \in DOMAIN s /\ s[1].c = c /\ s[1].op \in Raw
    BY <1>1, <1>3
  <2>2. PICK j \in 1..Len(s) : j > 1 /\ s[j] = Des(c)
    BY <1>1, <2>1 DEF Followed
  <2>3. j - 1 \in 1..(Len(s) - 1) /\ (j - 1) + 1 = j
    BY <1>1, <2>2
  <2>4. Tail(s)[j - 1] = s[j]
    BY <1>1, <2>3
  <2> QED BY <1>1, <2>2, <2>3, <2>4 DEF Range
<1> QED BY <1>2, <1>3

-----------------------------------------------------------------------------
(* Types.                                                                  *)

LEMMA QueuedType ==
    ASSUME NEW q \in [Loops -> Seq(Functor)], NEW l \in Loops, NEW f \in Functor
    PROVE  /\ Queued(q, l, f) \in [Loops -> Seq(Functor)]
           /\ Queued(q, l, f)[l] = Append(q[l], f)
           /\ \A k \in Loops \ {l} : Queued(q, l, f)[k] = q[k]
BY RangeAppend DEF Queued

LEMMA ChannelTypes ==
    ASSUME NEW ch \in ChannelType
    PROVE  /\ EnableReading(ch) \in ChannelType /\ EnableWriting(ch) \in ChannelType
           /\ DisableWriting(ch) \in ChannelType /\ DisableAll(ch) \in ChannelType
<1>1. ASSUME NEW es \in SUBSET Events PROVE UpdateChannel(ch, es) \in ChannelType
  BY <1>1 DEF UpdateChannel, ChannelType
<1>2. /\ ch.events \union {"read"} \in SUBSET Events
      /\ ch.events \union {"write"} \in SUBSET Events
      /\ ch.events \ {"write"} \in SUBSET Events /\ {} \in SUBSET Events
  BY DEF ChannelType, Events
<1> QED BY <1>1, <1>2 DEF EnableReading, EnableWriting, DisableWriting, DisableAll

LEMMA Initially == Init => Inv
<1> SUFFICES ASSUME Init PROVE Inv
  OBVIOUS
<1> USE ServerAssumption DEF ServerAssumption, Init
<1>1. Idle \in Event /\ NewChannel \in ChannelType /\ Base \in Loops
  BY DEF Idle, Event, NewChannel, ChannelType, Loops
<1>2. TypeOK
  <2>1. /\ queue \in [Loops -> Seq(Functor)] /\ batch \in [Loops -> Seq(Functor)]
        /\ pinned \in [Loops -> SUBSET Conns]
    OBVIOUS
  <2>2. active \in [Loops -> SUBSET Event] /\ cur \in [Loops -> Event]
    BY <1>1
  <2>3. upc \in [Users -> [op : UserOps, c : Conns \union {NoConn}]]
    BY DEF UserOps
  <2>4. ioLoops \subseteq Loops /\ ioLoop \in [Conns -> Loops]
    BY <1>1 DEF Loops
  <2> QED BY <1>1, <2>1, <2>2, <2>3, <2>4 DEF TypeOK, States
<1>3. \A l \in Loops : Waiting(l) = {} /\ queue[l] = <<>> /\ batch[l] = <<>>
  BY RangeEmpty DEF Waiting
<1>4. LoopInv
  BY DEF LoopInv, Idle
<1>5. EventInv
  BY DEF EventInv, Idle
<1>6. FunctorInv
  BY <1>3 DEF FunctorInv
<1>7. OnceInv
  BY <1>3, RangeEmpty DEF OnceInv, Single
<1>8. LifeInv
  BY DEF LifeInv, New, Created
<1>9. UserInv
  BY DEF UserInv
<1>10. ChannelInv
  BY DEF ChannelInv, New
<1>11. MapInv /\ OrderInv /\ ShutdownIsPending
  BY DEF MapInv, OrderInv, Created, ShutdownIsPending
<1> QED
  BY <1>2, <1>4, <1>5, <1>6, <1>7, <1>8, <1>9, <1>10, <1>11 DEF Inv

ConnTypes ==
    /\ state \in [Conns -> States] /\ channel \in [Conns -> ChannelType]
    /\ out \in [Conns -> 0..MaxOut] /\ wrShut \in [Conns -> BOOLEAN]
    /\ held \subseteq Conns
    /\ ups \in [Conns -> Nat] /\ downs \in [Conns -> Nat]

\* What the member functions of TcpConnection do to one connection keeps the types.
LEMMA ConnTypesKept ==
    ASSUME TypeOK, NEW c \in Conns
    PROVE  /\ ConnectEstablished(c) => ConnTypes'
           /\ ConnectDestroyed(c) => ConnTypes'
           /\ \A l \in Loops : HandleClose(l, c) => ConnTypes'
           /\ SendInLoop(c) /\ UNCHANGED <<state, held, ups, downs>> => ConnTypes'
           /\ HandleWrite(c) /\ UNCHANGED <<state, held, ups, downs>> => ConnTypes'
           /\ ShutdownInLoop(c) /\ state' \in [Conns -> States]
                /\ UNCHANGED <<held, ups, downs>> => ConnTypes'
<1> USE DEF TypeOK, ConnTypes, States
<1>1. \A ch \in ChannelType : /\ EnableReading(ch) \in ChannelType
                              /\ EnableWriting(ch) \in ChannelType
                              /\ DisableWriting(ch) \in ChannelType
                              /\ DisableAll(ch) \in ChannelType
  BY ChannelTypes
<1>2. ConnectEstablished(c) => ConnTypes'
  BY <1>1 DEF ConnectEstablished
<1>d. /\ [channel EXCEPT ![c] = DisableAll(@)] \in [Conns -> ChannelType]
      /\ [state EXCEPT ![c] = "kDisconnected"] \in [Conns -> States]
      /\ [downs EXCEPT ![c] = @ + 1] \in [Conns -> Nat]
  BY <1>1
<1>3. ASSUME ConnectDestroyed(c) PROVE ConnTypes'
  <2>1. /\ channel' \in [Conns -> ChannelType]
        /\ state' \in [Conns -> States] /\ downs' \in [Conns -> Nat]
        /\ UNCHANGED <<out, wrShut, ups, held>>
    BY <1>3, <1>d DEF ConnectDestroyed
  <2> QED BY <2>1
<1>4. ASSUME NEW l \in Loops, HandleClose(l, c) PROVE ConnTypes'
  <2>2. channel' \in [Conns -> ChannelType]
    BY <1>4, <1>d DEF HandleClose
  <2>3. /\ state' \in [Conns -> States] /\ downs' \in [Conns -> Nat]
        /\ UNCHANGED <<out, wrShut, ups, held>>
    BY <1>4 DEF HandleClose
  <2> QED BY <2>2, <2>3
<1>5. ASSUME SendInLoop(c), UNCHANGED <<state, held, ups, downs>> PROVE ConnTypes'
  <2>1. out[c] \in 0..MaxOut /\ (out[c] < MaxOut => out[c] + 1 \in 0..MaxOut)
    BY ServerAssumption DEF ServerAssumption
  <2>2. CASE UNCHANGED <<out, channel>>
    BY <1>5, <2>2 DEF SendInLoop
  <2>3. CASE /\ out' = [out EXCEPT ![c] = IF @ < MaxOut THEN @ + 1 ELSE @]
             /\ channel' = [channel EXCEPT ![c] =
                              IF IsWriting(@) THEN @ ELSE EnableWriting(@)]
    <3>1. out' \in [Conns -> 0..MaxOut]
      BY <2>1, <2>3
    <3>2. channel[c] \in ChannelType
      OBVIOUS
    <3>3. channel' \in [Conns -> ChannelType]
      BY <1>1, <2>3, <3>2
    <3> QED BY <1>5, <3>1, <3>3 DEF SendInLoop
  <2> QED BY <1>5, <2>2, <2>3 DEF SendInLoop
<1>6. ASSUME HandleWrite(c), UNCHANGED <<state, held, ups, downs>> PROVE ConnTypes'
  <2>1. CASE ~IsWriting(channel[c])
    BY <1>6, <2>1 DEF HandleWrite
  <2>2. CASE IsWriting(channel[c])
    <3>1. PICK n \in 0..out[c] :
            /\ out' = [out EXCEPT ![c] = @ - n]
            /\ channel' = [channel EXCEPT ![c] =
                             IF n > 0 /\ n = out[c] THEN DisableWriting(@) ELSE @]
            /\ wrShut' = [wrShut EXCEPT ![c] =
                            @ \/ (n > 0 /\ n = out[c] /\ state[c] = "kDisconnecting")]
      BY <1>6, <2>2 DEF HandleWrite
    <3>2. out[c] \in 0..MaxOut /\ out[c] - n \in 0..MaxOut
      BY ServerAssumption, <3>1 DEF ServerAssumption
    <3>3. out' \in [Conns -> 0..MaxOut]
      BY <3>1, <3>2
    <3>4. channel' \in [Conns -> ChannelType]
      BY <1>1, <3>1
    <3>5. wrShut' \in [Conns -> BOOLEAN]
      BY <3>1
    <3> QED BY <1>6, <3>3, <3>4, <3>5
  <2> QED BY <2>1, <2>2
<1>7. ASSUME ShutdownInLoop(c), state' \in [Conns -> States], UNCHANGED <<held, ups, downs>>
      PROVE  ConnTypes'
  BY <1>7 DEF ShutdownInLoop
<1> QED BY <1>2, <1>3, <1>4, <1>5, <1>6, <1>7

\* What the loops and the user's threads have in hand.
LoopTypes ==
    /\ queue \in [Loops -> Seq(Functor)] /\ batch \in [Loops -> Seq(Functor)]
    /\ pinned \in [Loops -> SUBSET Conns]
    /\ active \in [Loops -> SUBSET Event] /\ cur \in [Loops -> Event]
    /\ lpc \in [Loops -> {"poll", "handle", "run", "destroying", "stopped"}]

OtherTypes ==
    /\ peer \in [Conns -> {"open", "closed"}]
    /\ ioLoop \in [Conns -> Loops] /\ ioLoops \subseteq Loops
    /\ connections \subseteq Conns
    /\ upc \in [Users -> [op : UserOps, c : Conns \union {NoConn}]]
    /\ late \subseteq Conns /\ freed \subseteq Conns

LEMMA TypeParts ==
    /\ TypeOK <=> ConnTypes /\ LoopTypes /\ OtherTypes
    /\ TypeOK' <=> ConnTypes' /\ LoopTypes' /\ OtherTypes'
BY DEF TypeOK, ConnTypes, LoopTypes, OtherTypes

LEMMA ServerFunctors ==
    ASSUME NEW c \in Conns
    PROVE  Est(c) \in Functor /\ Des(c) \in Functor /\ Rem(c) \in Functor
BY DEF Est, Des, Rem, Functor, Strong

LEMMA RemoveTypes ==
    ASSUME TypeOK, NEW l \in Loops, NEW c \in Conns, RemoveConnection(l, c)
    PROVE  connections' \subseteq Conns /\ queue' \in [Loops -> Seq(Functor)]
<1>1. Base \in Loops /\ ioLoop[c] \in Loops /\ queue \in [Loops -> Seq(Functor)]
  BY DEF TypeOK, Loops
<1>2. Queued(queue, ioLoop[c], Des(c)) \in [Loops -> Seq(Functor)]
  BY <1>1, ServerFunctors, QueuedType
<1>3. Queued(queue, Base, Rem(c)) \in [Loops -> Seq(Functor)]
  BY <1>1, ServerFunctors, QueuedType
<1> QED BY <1>2, <1>3 DEF RemoveConnection, Des, Rem, TypeOK

LEMMA SendFileTypes ==
    ASSUME TypeOK, NEW l \in Loops, NEW c \in Conns, SendFileAgain(l, c)
    PROVE  queue' \in [Loops -> Seq(Functor)]
<1> DEFINE f == [op |-> "sendFileInLoop", c |-> c]
<1>1. f \in Functor /\ queue \in [Loops -> Seq(Functor)]
  BY DEF Functor, Strong, TypeOK
<1>2. queue' = Queued(queue, l, f)
  BY DEF SendFileAgain
<1> HIDE DEF f
<1> QED BY <1>1, <1>2, QueuedType

\* A loop inside a handler has a connection in hand.
LEMMA InHand ==
    ASSUME TypeOK, LoopInv, NEW l \in Loops, cur[l].re # {} \/ cur[l].c # NoConn
    PROVE  cur[l].c \in Conns /\ cur[l] # Idle /\ lpc[l] = "handle"
BY DEF TypeOK, LoopInv, Event, Idle

\* A functor that is run, where it was and what is left.
LEMMA RunningTypes ==
    ASSUME TypeOK, NEW l \in Loops, NEW c \in Conns, NEW op \in Strong \union Raw,
           Running(l, op, c)
    PROVE  /\ batch' \in [Loops -> Seq(Functor)] /\ pinned' \in [Loops -> SUBSET Conns]
           /\ freed' \subseteq Conns
<1>1. Tail(batch[l]) \in Seq(Functor)
  BY RangeTail DEF Running, TypeOK
<1>2. batch' \in [Loops -> Seq(Functor)]
  BY <1>1 DEF Running, TypeOK
<1>3. pinned' \in [Loops -> SUBSET Conns]
  <2>1. [pinned EXCEPT ![l] = @ \union {c}] \in [Loops -> SUBSET Conns]
    BY DEF TypeOK
  <2> QED BY <2>1 DEF Running, TypeOK
<1>4. freed' \subseteq Conns
  BY DEF Running, TypeOK
<1> QED BY <1>2, <1>3, <1>4

LEMMA HandlerTypes ==
    ASSUME TypeOK, LoopInv, NEW l \in Loops, Handle(l)
    PROVE  TypeOK'
<1> USE TypeParts DEF LoopTypes, OtherTypes
<1>1. ASSUME NEW a \in active[l], StartHandler(l, a) PROVE TypeOK'
  <2>1. ConnTypes'
    BY <1>1 DEF StartHandler, connVars, userVars, ConnTypes
  <2>2. a \in Event /\ active[l] \ {a} \in SUBSET Event
    OBVIOUS
  <2>3. active' \in [Loops -> SUBSET Event] /\ cur' \in [Loops -> Event]
    BY <1>1, <2>2 DEF StartHandler
  <2>4. freed' \subseteq Conns
    BY <1>1, <2>2 DEF StartHandler, Event
  <2> QED BY <1>1, <2>1, <2>3, <2>4 DEF StartHandler, choiceVars, userVars
<1>t. \A e : Took(l, e) => cur' \in [Loops -> Event]
  <2> SUFFICES ASSUME NEW e, Took(l, e) PROVE cur' \in [Loops -> Event]
    OBVIOUS
  <2>1. cur[l] \in Event /\ cur[l].re \ {e} \subseteq cur[l].re
    OBVIOUS
  <2>2. [cur[l] EXCEPT !.re = @ \ {e}] \in Event
    BY <2>1 DEF Event
  <2> QED BY <2>2 DEF Took
<1>2. ASSUME OnHup(l) \/ OnReadClosed(l) PROVE TypeOK'
  <2>1. cur[l].c \in Conns /\ HandleClose(l, cur[l].c)
    BY <1>2, InHand DEF OnHup, OnReadClosed
  <2>2. ConnTypes'
    BY <2>1, ConnTypesKept
  <2>3. connections' \subseteq Conns /\ queue' \in [Loops -> Seq(Functor)]
    BY <2>1, RemoveTypes DEF HandleClose
  <2>4. cur' \in [Loops -> Event]
    BY <1>2, <1>t DEF OnHup, OnReadClosed
  <2>5. UNCHANGED <<peer, choiceVars, batch, pinned, lpc, active, upc, late, freed>>
    BY <1>2 DEF OnHup, OnReadClosed
  <2> QED BY <2>2, <2>3, <2>4, <2>5 DEF choiceVars
<1>3. ASSUME OnMessage(l) PROVE TypeOK'
  <2> DEFINE c == cur[l].c
  <2>1. c \in Conns /\ ioLoop[c] \in Loops
    BY <1>3, InHand DEF OnMessage, TypeOK
  <2>2. ConnTypes' /\ (UNCHANGED queue \/ SendFileAgain(l, c))
    <3>1. CASE UNCHANGED <<connVars, queue>>
      BY <1>3, <3>1 DEF OnMessage, ConnTypes, connVars, userVars, historyVars
    <3>2. CASE SendInLoop(c) /\ UNCHANGED <<state, queue>>
      BY <1>3, <2>1, <3>2, ConnTypesKept DEF OnMessage, userVars, historyVars
    <3>3. CASE state' = [state EXCEPT ![c] = "kDisconnecting"] /\ ShutdownInLoop(c) /\ UNCHANGED queue
      <4>1. state' \in [Conns -> States]
        BY <3>3 DEF ConnTypes, States
      <4> QED BY <1>3, <2>1, <3>3, <4>1, ConnTypesKept DEF OnMessage, userVars, historyVars
    <3>4. CASE SendFileAgain(l, c) /\ UNCHANGED connVars
      BY <1>3, <3>4 DEF OnMessage, ConnTypes, connVars, userVars, historyVars
    <3> QED BY <1>3, <3>1, <3>2, <3>3, <3>4 DEF OnMessage
  <2>3. queue' \in [Loops -> Seq(Functor)]
    <3>1. CASE UNCHANGED queue
      BY <3>1
    <3>2. CASE SendFileAgain(l, c)
      BY <2>1, <3>2, SendFileTypes
    <3> QED BY <2>2, <3>1, <3>2
  <2>4. cur' \in [Loops -> Event]
    BY <1>3, <1>t DEF OnMessage
  <2> QED BY <1>3, <2>2, <2>3, <2>4 DEF OnMessage, choiceVars, userVars, historyVars
<1>4. ASSUME OnWrite(l) PROVE TypeOK'
  <2>1. ConnTypes'
    BY <1>4, InHand, ConnTypesKept DEF OnWrite, userVars, historyVars
  <2>2. cur' \in [Loops -> Event]
    BY <1>4, <1>t DEF OnWrite
  <2> QED BY <1>4, <2>1, <2>2 DEF OnWrite, choiceVars, userVars, historyVars
<1>5. ASSUME EndHandler(l) PROVE TypeOK'
  <2>1. Idle \in Event
    BY DEF Idle, Event
  <2>2. ConnTypes'
    BY <1>5 DEF EndHandler, connVars, userVars, historyVars, ConnTypes
  <2> QED BY <1>5, <2>1, <2>2 DEF EndHandler, choiceVars, userVars, historyVars
<1> QED BY <1>1, <1>2, <1>3, <1>4, <1>5 DEF Handle

LEMMA RunTypes ==
    ASSUME TypeOK, LoopInv, NEW l \in Loops, RunFunctor(l)
    PROVE  TypeOK'
<1> USE TypeParts DEF LoopTypes, OtherTypes
<1>1. ASSUME NEW c \in Conns, RunConnectEstablished(l, c) \/ RunConnectDestroyed(l, c)
      PROVE  TypeOK'
  <2>1. ConnTypes'
    BY <1>1, ConnTypesKept DEF RunConnectEstablished, RunConnectDestroyed
  <2>2. PICK op \in Strong \union Raw : Running(l, op, c)
    BY <1>1 DEF RunConnectEstablished, RunConnectDestroyed, Strong
  <2>3. UNCHANGED <<connections, queue, late>>
    BY <1>1 DEF RunConnectEstablished, RunConnectDestroyed
  <2> QED BY <2>1, <2>2, <2>3, RunningTypes DEF Running, choiceVars
<1>2. ASSUME NEW c \in Conns, l = Base, RunRemoveConnection(c) PROVE TypeOK'
  <2>1. ConnTypes'
    BY <1>2 DEF RunRemoveConnection, connVars, ConnTypes
  <2>2. connections' \subseteq Conns /\ queue' \in [Loops -> Seq(Functor)]
    BY <1>2, RemoveTypes DEF RunRemoveConnection
  <2>3. Running(l, "removeConnectionInLoop", c) /\ "removeConnectionInLoop" \in Strong
    BY <1>2 DEF RunRemoveConnection, Strong
  <2>4. UNCHANGED late
    BY <1>2 DEF RunRemoveConnection
  <2> QED BY <2>1, <2>2, <2>3, <2>4, RunningTypes DEF Running, choiceVars
<1>3. ASSUME NEW c \in Conns, NEW op \in Raw, RunRaw(l, op, c) PROVE TypeOK'
  <2>1. ConnTypes'
    <3>1. CASE UNCHANGED <<channel, out, wrShut>>
      BY <1>3, <3>1 DEF RunRaw, ConnTypes
    <3>2. CASE SendInLoop(c)
      BY <1>3, <3>2, ConnTypesKept DEF RunRaw
    <3>3. CASE ShutdownInLoop(c)
      <4>1. state' \in [Conns -> States]
        BY <1>3 DEF RunRaw, ConnTypes
      <4> QED BY <1>3, <3>3, <4>1, ConnTypesKept DEF RunRaw
    <3> QED BY <1>3, <3>1, <3>2, <3>3 DEF RunRaw
  <2>2. Running(l, op, c) /\ UNCHANGED <<connections, queue>> /\ late' \subseteq Conns
    BY <1>3 DEF RunRaw
  <2> QED BY <1>3, <2>1, <2>2, RunningTypes DEF Running, choiceVars
<1>4. ASSUME NEW c \in Conns, RunSendFileEnds(l, c) \/ RunSendFileAgain(l, c) PROVE TypeOK'
  <2>1. ConnTypes' /\ UNCHANGED <<connections, late>>
    BY <1>4 DEF RunSendFileEnds, RunSendFileAgain, connVars, ConnTypes
  <2>2. queue' \in [Loops -> Seq(Functor)]
    <3>1. CASE RunSendFileEnds(l, c)
      BY <3>1 DEF RunSendFileEnds
    <3>2. CASE RunSendFileAgain(l, c)
      BY <3>2, SendFileTypes DEF RunSendFileAgain
    <3> QED BY <1>4, <3>1, <3>2
  <2>3. Running(l, "sendFileInLoop", c) /\ "sendFileInLoop" \in Strong
    BY <1>4 DEF RunSendFileEnds, RunSendFileAgain, Strong
  <2> QED BY <2>1, <2>2, <2>3, RunningTypes DEF Running, choiceVars
<1> QED BY <1>1, <1>2, <1>3, <1>4 DEF RunFunctor

LEMMA TypeStep ==
    ASSUME TypeOK, LoopInv, UserInv, [Next]_vars
    PROVE  TypeOK'
<1> USE TypeParts DEF LoopTypes, OtherTypes
<1>b. Base \in Loops /\ ioLoops \subseteq Loops
  BY DEF Loops
<1>1. ASSUME NEW c \in Conns, NEW l \in ioLoops, NewConnection(c, l) PROVE TypeOK'
  <2>1. l \in Loops
    BY <1>b
  <2>2. ConnTypes' /\ queue' \in [Loops -> Seq(Functor)]
    <3>1. CASE l = Base
      BY <1>1, <3>1, ConnTypesKept DEF NewConnection
    <3>2. CASE l # Base
      <4>1. queue' = Queued(queue, l, Est(c))
        BY <1>1, <3>2 DEF NewConnection, Est
      <4>2. ConnTypes'
        BY <1>1, <3>2 DEF NewConnection, ConnTypes, States
      <4> QED BY <2>1, <4>1, <4>2, ServerFunctors, QueuedType
    <3> QED BY <3>1, <3>2
  <2>3. /\ ioLoop' \in [Conns -> Loops] /\ connections' \subseteq Conns
        /\ active' \in [Loops -> SUBSET Event]
    BY <1>1, <2>1, <1>b DEF NewConnection
  <2>4. UNCHANGED <<peer, ioLoops, batch, pinned, lpc, cur, upc, late, freed>>
    BY <1>1 DEF NewConnection
  <2> QED BY <2>2, <2>3, <2>4
<1>2. ASSUME NEW l \in Loops, Poll(l) PROVE TypeOK'
  <2>1. active' \in [Loops -> SUBSET Event]
    <3>1. PICK f \in [Watched(l) -> SUBSET (Events \union {"hup"})],
               accepts \in SUBSET {AcceptEvent} :
            active' = [active EXCEPT ![l] =
                         {[c |-> c, re |-> f[c]] : c \in {d \in Watched(l) : f[d] # {}}}
                           \union accepts]
      BY <1>2 DEF Poll
    <3>2. AcceptEvent \in Event
      BY DEF AcceptEvent, Event, Events
    <3>3. {[c |-> c, re |-> f[c]] : c \in {d \in Watched(l) : f[d] # {}}} \subseteq Event
      BY DEF Event, Watched
    <3> QED BY <3>1, <3>2, <3>3
  <2>2. ConnTypes'
    BY <1>2 DEF Poll, connVars, userVars, historyVars, ConnTypes
  <2> QED BY <1>2, <2>1, <2>2 DEF Poll, choiceVars, userVars, historyVars
<1>3. ASSUME NEW l \in Loops, TakeBatch(l) \/ EndBatch(l) PROVE TypeOK'
  <2>1. ConnTypes'
    BY <1>3 DEF TakeBatch, EndBatch, connVars, userVars, historyVars, ConnTypes
  <2>2. <<>> \in Seq(Functor)
    OBVIOUS
  <2>3. queue' \in [Loops -> Seq(Functor)] /\ batch' \in [Loops -> Seq(Functor)]
    <3>1. [queue EXCEPT ![l] = <<>>] \in [Loops -> Seq(Functor)]
      BY <2>2
    <3>2. [batch EXCEPT ![l] = queue[l]] \in [Loops -> Seq(Functor)]
      OBVIOUS
    <3> QED BY <1>3, <3>1, <3>2 DEF TakeBatch, EndBatch
  <2>4. pinned' \in [Loops -> SUBSET Conns]
    BY <1>3 DEF TakeBatch, EndBatch
  <2>5. lpc' \in [Loops -> {"poll", "handle", "run", "destroying", "stopped"}]
    BY <1>3 DEF TakeBatch, EndBatch
  <2>6. UNCHANGED <<peer, choiceVars, connections, active, cur, userVars, historyVars>>
    BY <1>3 DEF TakeBatch, EndBatch
  <2> QED BY <2>1, <2>3, <2>4, <2>5, <2>6 DEF choiceVars, userVars, historyVars
<1>4. ASSUME NEW u \in Users, NEW c \in Conns,
             NEW op \in {"sendInLoop", "setState", "sendFileInLoop"}, UserCall(u, c, op)
      PROVE  TypeOK'
  <2>1. [op |-> op, c |-> c] \in [op : UserOps, c : Conns \union {NoConn}]
    BY DEF UserOps, Raw
  <2>2. upc' \in [Users -> [op : UserOps, c : Conns \union {NoConn}]]
    BY <1>4, <2>1 DEF UserCall
  <2>3. ConnTypes'
    BY <1>4 DEF UserCall, connVars, historyVars, ConnTypes
  <2> QED BY <1>4, <2>2, <2>3 DEF UserCall, choiceVars, loopVars, historyVars
<1>5. ASSUME NEW u \in Users, UserSetState(u) PROVE TypeOK'
  <2>0. "shutdownInLoop" \in UserOps /\ upc[u] \in [op : UserOps, c : Conns \union {NoConn}]
    BY DEF UserOps, Raw
  <2>1. [upc[u] EXCEPT !.op = "shutdownInLoop"] \in [op : UserOps, c : Conns \union {NoConn}]
    BY <2>0
  <2>2. upc' \in [Users -> [op : UserOps, c : Conns \union {NoConn}]]
    BY <1>5, <2>1 DEF UserSetState
  <2>3. ConnTypes'
    BY <1>5 DEF UserSetState, historyVars, ConnTypes, States
  <2> QED BY <1>5, <2>2, <2>3 DEF UserSetState, choiceVars, loopVars, historyVars
<1>6. ASSUME NEW u \in Users, UserPost(u) PROVE TypeOK'
  <2>1. upc[u] \in Functor /\ ioLoop[upc[u].c] \in Loops
    BY <1>6 DEF UserPost, UserInv, Functor, Strong, Raw
  <2>2. queue' \in [Loops -> Seq(Functor)]
    BY <1>6, <2>1, QueuedType DEF UserPost
  <2>3. [op |-> "idle", c |-> NoConn] \in [op : UserOps, c : Conns \union {NoConn}]
    BY DEF UserOps
  <2>4. upc' \in [Users -> [op : UserOps, c : Conns \union {NoConn}]]
    BY <1>6, <2>3 DEF UserPost
  <2>5. ConnTypes'
    BY <1>6 DEF UserPost, connVars, historyVars, ConnTypes
  <2> QED BY <1>6, <2>2, <2>4, <2>5 DEF UserPost, choiceVars, historyVars
<1>7. ASSUME NEW c \in Conns, PeerCloses(c) \/ Release(c) PROVE TypeOK'
  <2>1. ConnTypes'
    BY <1>7 DEF PeerCloses, Release, connVars, userVars, historyVars, ConnTypes
  <2> QED BY <1>7, <2>1 DEF PeerCloses, Release, choiceVars, loopVars, userVars, historyVars
<1>8. ASSUME NEW c \in Conns, DestroyItem(c) PROVE TypeOK'
  <2>1. ConnTypes' /\ queue' \in [Loops -> Seq(Functor)]
    <3>1. CASE ioLoop[c] = Base
      BY <1>8, <3>1, ConnTypesKept DEF DestroyItem
    <3>2. CASE ioLoop[c] # Base
      <4>1. queue' = Queued(queue, ioLoop[c], Des(c))
        BY <1>8, <3>2 DEF DestroyItem, Des
      <4>2. ConnTypes'
        BY <1>8, <3>2 DEF DestroyItem, connVars, ConnTypes
      <4> QED BY <4>1, <4>2, ServerFunctors, QueuedType
    <3> QED BY <3>1, <3>2
  <2> QED BY <1>8, <2>1 DEF DestroyItem, choiceVars
<1>9. ASSUME BeginStop \/ EndStop PROVE TypeOK'
  <2>1. ConnTypes'
    BY <1>9 DEF BeginStop, EndStop, connVars, userVars, historyVars, ConnTypes
  <2>2. lpc' \in [Loops -> {"poll", "handle", "run", "destroying", "stopped"}]
    BY <1>9 DEF BeginStop, EndStop
  <2> QED BY <1>9, <2>1, <2>2 DEF BeginStop, EndStop, choiceVars, userVars, historyVars
<1>10. CASE UNCHANGED vars
  BY <1>10 DEF vars, connVars, choiceVars, loopVars, userVars, historyVars, TypeOK
<1> QED
  BY <1>1, <1>2, <1>3, <1>4, <1>5, <1>6, <1>7, <1>8, <1>9, <1>10, HandlerTypes, RunTypes
  DEF Next, LoopStep, Accept, UserStep

-----------------------------------------------------------------------------
(* What a step does to a connection and to the functors of a loop.         *)

\* Nothing of the connection but who points to it.
Unmoved(c) ==
    /\ state'[c] = state[c] /\ channel'[c] = channel[c] /\ out'[c] = out[c]
    /\ wrShut'[c] = wrShut[c] /\ ups'[c] = ups[c] /\ downs'[c] = downs[c]

\* newConnection() for another loop.
Made(c) ==
    /\ ~Created(c) /\ state'[c] = "kConnecting"
    /\ channel'[c] = channel[c] /\ out'[c] = out[c] /\ wrShut'[c] = wrShut[c]
    /\ ups'[c] = ups[c] /\ downs'[c] = downs[c]

\* connectEstablished(), by newConnection() or by the functor it has queued.
Established(c) ==
    /\ Created(c) => \E l \in Loops : Running(l, "connectEstablished", c)
    /\ New(c) /\ state'[c] = "kConnected" /\ channel'[c] = EnableReading(channel[c])
    /\ out'[c] = out[c] /\ wrShut'[c] = wrShut[c]
    /\ ups'[c] = ups[c] + 1 /\ downs'[c] = downs[c]

\* handleClose() or connectDestroyed(), in the connection's loop: its events are
\* done with.
GoesDown(c) ==
    /\ ~New(c) /\ state'[c] = "kDisconnected" /\ channel'[c] = DisableAll(channel[c])
    /\ out'[c] = out[c] /\ wrShut'[c] = wrShut[c]
    /\ ups'[c] = ups[c] /\ downs'[c] = downs[c] + 1
    /\ downs[c] = 0 \/ c \in late
    /\ \/ lpc[ioLoop[c]] # "handle"
       \/ cur[ioLoop[c]].c = c /\ cur'[ioLoop[c]].re \subseteq {"write"}

\* shutdown(): the write side is shut, or what will shut it is there.
Disconnecting(c) ==
    /\ ~New(c) /\ state'[c] = "kDisconnecting"
    /\ channel'[c] = channel[c] /\ out'[c] = out[c]
    /\ ups'[c] = ups[c] /\ downs'[c] = downs[c]
    /\ \/ wrShut'[c] = (wrShut[c] \/ ~IsWriting(channel[c]))
       \/ /\ wrShut'[c] = wrShut[c]
          /\ \E u \in Users : upc'[u] = [op |-> "shutdownInLoop", c |-> c]

\* sendInLoop(), shutdownInLoop(): on a connection that is down only if a user's
\* functor comes late.
Writing(c) ==
    /\ ~New(c) /\ state'[c] = state[c] /\ ups'[c] = ups[c] /\ downs'[c] = downs[c]
    /\ downs[c] = 0 \/ c \in late'
    /\ \/ /\ wrShut'[c] = (wrShut[c] \/ ~IsWriting(channel[c]))
          /\ channel'[c] = channel[c] /\ out'[c] = out[c]
       \/ /\ wrShut'[c] = wrShut[c] /\ channel'[c] = channel[c] /\ out'[c] = out[c]
       \/ /\ wrShut'[c] = wrShut[c]
          /\ out'[c] = IF out[c] < MaxOut THEN out[c] + 1 ELSE out[c]
          /\ channel'[c] = IF IsWriting(channel[c]) THEN channel[c]
                                                    ELSE EnableWriting(channel[c])

\* handleWrite().
Written(c) ==
    /\ ~New(c) /\ IsWriting(channel[c])
    /\ state'[c] = state[c] /\ ups'[c] = ups[c] /\ downs'[c] = downs[c]
    /\ downs[c] = 0 \/ c \in late
    /\ \E n \in 0..out[c] :
          LET done == n > 0 /\ n = out[c]
          IN /\ out'[c] = out[c] - n
             /\ channel'[c] = IF done THEN DisableWriting(channel[c]) ELSE channel[c]
             /\ wrShut'[c] = (wrShut[c] \/ (done /\ state[c] = "kDisconnecting"))

ConnStep(c) ==
    \/ Unmoved(c) \/ Made(c) \/ Established(c) \/ GoesDown(c) \/ Disconnecting(c)
    \/ Writing(c) \/ Written(c)

\* What it means that f is queued in the loop.
Posted(l, f) ==
    \/ /\ f.op = "connectEstablished"
       /\ ~Created(f.c) /\ state'[f.c] = "kConnecting" /\ ioLoop'[f.c] = l
    \/ f.op = "connectDestroyed" /\ Created(f.c) /\ ioLoop[f.c] = l
    \/ f.op = "removeConnectionInLoop" /\ ~New(f.c) /\ l = Base /\ downs'[f.c] > 0
    \/ f.op = "sendFileInLoop" /\ ~New(f.c) /\ ioLoop[f.c] = l
    \/ /\ f.op \in Raw /\ ~New(f.c) /\ ioLoop[f.c] = l
       /\ ServerUp /\ \E u \in Users : upc[u] = f

Adds(l) ==
    \/ queue'[l] = queue[l]
    \/ \E f \in Functor : Posted(l, f) /\ queue'[l] = Append(queue[l], f)

QueueStep(l) ==
    \/ batch'[l] = batch[l] /\ Adds(l)
    \/ lpc[l] = "handle" /\ active[l] = {} /\ batch'[l] = queue[l] /\ queue'[l] = <<>>
    \/ /\ lpc[l] = "run" /\ batch[l] # <<>> /\ batch'[l] = Tail(batch[l]) /\ Adds(l)
       /\ Head(batch[l]).op = "connectEstablished" => state'[Head(batch[l]).c] = "kConnected"
    \/ /\ lpc[l] = "run" /\ batch[l] = <<>> /\ batch'[l] = batch[l]
       /\ lpc'[l] = "stopped" /\ queue'[l] = <<>>

\* What stays as it is.
Lasting ==
    /\ ServerUp' => ServerUp
    /\ late \subseteq late'
    /\ \A c \in Conns : Created(c) => ioLoop'[c] = ioLoop[c]
    /\ \A l \in Loops : lpc[l] = "stopped" => lpc'[l] = "stopped"

-----------------------------------------------------------------------------
\* Actions that leave the connections themselves alone.
LEMMA UnmovedAll ==
    ASSUME UNCHANGED connVars, UNCHANGED <<ups, downs>>
    PROVE  \A c \in Conns : ConnStep(c)
BY DEF connVars, ConnStep, Unmoved

LEMMA EstablishedStep ==
    ASSUME TypeOK, NEW c \in Conns, New(c), ConnectEstablished(c),
           Created(c) => \E l \in Loops : Running(l, "connectEstablished", c)
    PROVE  \A d \in Conns : ConnStep(d)
<1>1. Established(c)
  BY DEF ConnectEstablished, Established, TypeOK
<1>2. ASSUME NEW d \in Conns, d # c PROVE Unmoved(d)
  BY <1>2 DEF ConnectEstablished, Unmoved, TypeOK
<1> QED BY <1>1, <1>2 DEF ConnStep

\* handleClose(), and connectDestroyed() of a connection that is up.
LEMMA DownStep ==
    ASSUME TypeOK, NEW c \in Conns, ~New(c), downs[c] = 0 \/ c \in late,
           state' = [state EXCEPT ![c] = "kDisconnected"],
           channel' = [channel EXCEPT ![c] = DisableAll(@)],
           downs' = [downs EXCEPT ![c] = @ + 1],
           UNCHANGED <<out, wrShut, ups>>,
           \/ lpc[ioLoop[c]] # "handle"
           \/ cur[ioLoop[c]].c = c /\ cur'[ioLoop[c]].re \subseteq {"write"}
    PROVE  \A d \in Conns : ConnStep(d)
<1>1. GoesDown(c)
  BY DEF GoesDown, TypeOK
<1>2. ASSUME NEW d \in Conns, d # c PROVE Unmoved(d)
  BY <1>2 DEF Unmoved, TypeOK
<1> QED BY <1>1, <1>2 DEF ConnStep

LEMMA DestroyedStep ==
    ASSUME TypeOK, LifeInv, NEW c \in Conns, ConnectDestroyed(c), lpc[ioLoop[c]] # "handle"
    PROVE  \A d \in Conns : ConnStep(d)
<1>1. CASE state[c] = "kConnected"
  <2>1. ~New(c) /\ downs[c] = 0
    BY <1>1 DEF New, LifeInv
  <2> QED BY <1>1, <2>1, DownStep DEF ConnectDestroyed
<1>2. CASE state[c] # "kConnected"
  BY <1>2, UnmovedAll DEF ConnectDestroyed, connVars
<1> QED BY <1>1, <1>2

LEMMA SendStep ==
    ASSUME TypeOK, NEW c \in Conns, ~New(c), downs[c] = 0 \/ c \in late',
           SendInLoop(c), UNCHANGED <<state, ups, downs>>
    PROVE  \A d \in Conns : ConnStep(d)
<1>1. Writing(c)
  <2>1. CASE UNCHANGED <<out, channel>>
    BY <2>1 DEF SendInLoop, Writing
  <2>2. CASE /\ out' = [out EXCEPT ![c] = IF @ < MaxOut THEN @ + 1 ELSE @]
             /\ channel' = [channel EXCEPT ![c] =
                              IF IsWriting(@) THEN @ ELSE EnableWriting(@)]
    <3>1. /\ out'[c] = IF out[c] < MaxOut THEN out[c] + 1 ELSE out[c]
          /\ channel'[c] = IF IsWriting(channel[c]) THEN channel[c]
                                                    ELSE EnableWriting(channel[c])
      BY <2>2 DEF TypeOK
    <3> QED BY <3>1 DEF SendInLoop, Writing
  <2> QED BY <2>1, <2>2 DEF SendInLoop
<1>2. ASSUME NEW d \in Conns, d # c PROVE Unmoved(d)
  BY <1>2 DEF SendInLoop, Unmoved, TypeOK
<1> QED BY <1>1, <1>2 DEF ConnStep

LEMMA ShutStep ==
    ASSUME TypeOK, NEW c \in Conns, ~New(c), downs[c] = 0 \/ c \in late',
           ShutdownInLoop(c), UNCHANGED <<state, ups, downs>>
    PROVE  \A d \in Conns : ConnStep(d)
<1>1. Writing(c)
  BY DEF ShutdownInLoop, Writing, TypeOK
<1>2. ASSUME NEW d \in Conns, d # c PROVE Unmoved(d)
  BY <1>2 DEF ShutdownInLoop, Unmoved, TypeOK
<1> QED BY <1>1, <1>2 DEF ConnStep

LEMMA WriteStep ==
    ASSUME TypeOK, ChannelInv, NEW c \in Conns, ~New(c),
           HandleWrite(c), UNCHANGED <<state, ups, downs>>
    PROVE  \A d \in Conns : ConnStep(d)
<1>1. CASE ~IsWriting(channel[c])
  BY <1>1, UnmovedAll DEF HandleWrite, connVars
<1>2. CASE IsWriting(channel[c])
  <2>1. downs[c] = 0 \/ c \in late
    <3>1. ~IsWriting(Deleted)
      BY DEF IsWriting, Deleted
    <3>2. downs[c] = 0 \/ downs[c] > 0
      BY DEF TypeOK
    <3> QED BY <1>2, <3>1, <3>2 DEF ChannelInv
  <2>2. PICK n \in 0..out[c] :
          /\ out' = [out EXCEPT ![c] = @ - n]
          /\ channel' = [channel EXCEPT ![c] =
                           IF n > 0 /\ n = out[c] THEN DisableWriting(@) ELSE @]
          /\ wrShut' = [wrShut EXCEPT ![c] =
                          @ \/ (n > 0 /\ n = out[c] /\ state[c] = "kDisconnecting")]
    BY <1>2 DEF HandleWrite
  <2>3. /\ out'[c] = out[c] - n
        /\ channel'[c] = IF n > 0 /\ n = out[c] THEN DisableWriting(channel[c]) ELSE channel[c]
        /\ wrShut'[c] = (wrShut[c] \/ (n > 0 /\ n = out[c] /\ state[c] = "kDisconnecting"))
    BY <2>2 DEF TypeOK
  <2>4. Written(c)
    BY <1>2, <2>1, <2>3 DEF Written
  <2>5. ASSUME NEW d \in Conns, d # c PROVE Unmoved(d)
    BY <2>2, <2>5 DEF Unmoved, TypeOK
  <2> QED BY <2>4, <2>5 DEF ConnStep
<1> QED BY <1>1, <1>2

LEMMA HandlerSteps ==
    ASSUME Inv, NEW l \in Loops, Handle(l)
    PROVE  \A d \in Conns : ConnStep(d)
<1> USE DEF Inv
<1>1. ASSUME (\E a \in active[l] : StartHandler(l, a)) \/ EndHandler(l)
      PROVE  \A d \in Conns : ConnStep(d)
  BY <1>1, UnmovedAll DEF StartHandler, EndHandler, historyVars
<1>2. ASSUME cur[l].re # {} \/ cur[l].c # NoConn
      PROVE  cur[l].c \in Conns /\ ioLoop[cur[l].c] = l /\ ~New(cur[l].c)
  <2>1. cur[l].c \in Conns
    BY <1>2, InHand
  <2>2. cur[l].c # NoConn /\ cur[l] \in active[l] \union {cur[l]}
    BY <2>1, ServerAssumption DEF ServerAssumption
  <2> QED BY <2>1, <2>2 DEF EventInv
<1>3. ASSUME OnHup(l) \/ OnReadClosed(l) PROVE \A d \in Conns : ConnStep(d)
  <2> DEFINE c == cur[l].c
  <2>1. c \in Conns /\ ioLoop[c] = l /\ ~New(c)
    BY <1>2, <1>3 DEF OnHup, OnReadClosed
  <2>2. downs[c] = 0 \/ c \in late
    BY <1>3, <2>1, ServerAssumption DEF OnHup, OnReadClosed, EventInv, ServerAssumption
  <2>3. cur'[l].re \subseteq {"write"}
    <3>1. cur[l].re \subseteq {"read", "write", "hup"}
      BY DEF TypeOK, Event, Events
    <3>2. ~({"hup", "read"} \subseteq cur[l].re)
      BY <2>1, ServerAssumption DEF EventInv, ServerAssumption
    <3>3. CASE OnHup(l)
      BY <3>1, <3>2, <3>3 DEF OnHup, Took, TypeOK, Event
    <3>4. CASE OnReadClosed(l)
      BY <3>1, <3>4 DEF OnReadClosed, Took, TypeOK, Event
    <3> QED BY <1>3, <3>3, <3>4
  <2>4. HandleClose(l, c)
    BY <1>3 DEF OnHup, OnReadClosed
  <2> QED BY <2>1, <2>2, <2>3, <2>4, DownStep DEF HandleClose
<1>4. ASSUME OnMessage(l) PROVE \A d \in Conns : ConnStep(d)
  <2> DEFINE c == cur[l].c
  <2>1. c \in Conns /\ ~New(c)
    BY <1>2, <1>4 DEF OnMessage
  <2>2. state[c] = "kConnected" => downs[c] = 0
    BY <2>1 DEF LifeInv
  <2>3. UNCHANGED <<ups, downs>>
    BY <1>4 DEF OnMessage, historyVars
  <2>4. CASE UNCHANGED connVars
    BY <2>3, <2>4, UnmovedAll
  <2>5. CASE state[c] = "kConnected" /\ SendInLoop(c) /\ UNCHANGED state
    BY <2>1, <2>2, <2>3, <2>5, SendStep
  <2>6. CASE state' = [state EXCEPT ![c] = "kDisconnecting"] /\ ShutdownInLoop(c)
    <3>1. Disconnecting(c)
      BY <2>1, <2>3, <2>6 DEF ShutdownInLoop, Disconnecting, TypeOK
    <3>2. ASSUME NEW d \in Conns, d # c PROVE Unmoved(d)
      BY <2>3, <2>6, <3>2 DEF ShutdownInLoop, Unmoved, TypeOK
    <3> QED BY <3>1, <3>2 DEF ConnStep
  <2> QED BY <1>4, <2>4, <2>5, <2>6 DEF OnMessage
<1>5. ASSUME OnWrite(l) PROVE \A d \in Conns : ConnStep(d)
  BY <1>2, <1>5, WriteStep DEF OnWrite, historyVars
<1> QED BY <1>1, <1>3, <1>4, <1>5 DEF Handle

\* What the loop knows of a connection when it runs a functor bound to it.
LEMMA RunsWaiting ==
    ASSUME Inv, NEW l \in Loops, NEW c \in Conns, NEW op \in Strong \union Raw,
           Running(l, op, c)
    PROVE  /\ lpc[l] = "run" /\ Created(c)
           /\ l = IF op = "removeConnectionInLoop" THEN Base ELSE ioLoop[c]
           /\ New(c) => op \in {"connectEstablished", "connectDestroyed"}
           /\ op = "connectEstablished" => New(c)
           /\ op = "removeConnectionInLoop" => downs[c] > 0
<1>1. lpc[l] = "run" /\ batch[l] # <<>> /\ Head(batch[l]) = [op |-> op, c |-> c]
  BY DEF Running
<1>2. [op |-> op, c |-> c] \in Waiting(l)
  BY <1>1, RangeTail DEF Waiting, Inv, TypeOK
<1> QED BY <1>1, <1>2 DEF Inv, FunctorInv

LEMMA RunSteps ==
    ASSUME Inv, NEW l \in Loops, RunFunctor(l)
    PROVE  \A d \in Conns : ConnStep(d)
<1> USE DEF Inv
<1>1. ASSUME NEW c \in Conns, RunConnectEstablished(l, c) PROVE \A d \in Conns : ConnStep(d)
  <2>1. New(c)
    BY <1>1, RunsWaiting DEF RunConnectEstablished, Strong
  <2> QED BY <1>1, <2>1, EstablishedStep DEF RunConnectEstablished
<1>2. ASSUME NEW c \in Conns, RunConnectDestroyed(l, c) PROVE \A d \in Conns : ConnStep(d)
  <2>1. lpc[ioLoop[c]] # "handle"
    BY <1>2, RunsWaiting DEF RunConnectDestroyed, Strong
  <2> QED BY <1>2, <2>1, DestroyedStep DEF RunConnectDestroyed
<1>3. ASSUME NEW c \in Conns,
             RunRemoveConnection(c) \/ RunSendFileEnds(l, c) \/ RunSendFileAgain(l, c)
      PROVE  \A d \in Conns : ConnStep(d)
  BY <1>3, UnmovedAll DEF RunRemoveConnection, RunSendFileEnds, RunSendFileAgain
<1>4. ASSUME NEW c \in Conns, NEW op \in Raw, RunRaw(l, op, c)
      PROVE  \A d \in Conns : ConnStep(d)
  <2>1. ~New(c)
    BY <1>4, RunsWaiting DEF RunRaw, Raw
  <2>2. downs[c] = 0 \/ c \in late'
    <3>1. downs[c] = 0 \/ downs[c] > 0
      BY DEF TypeOK
    <3> QED BY <1>4, <3>1 DEF RunRaw
  <2>3. UNCHANGED <<state, ups, downs>>
    BY <1>4 DEF RunRaw
  <2>4. CASE UNCHANGED <<channel, out, wrShut>>
    BY <2>3, <2>4, UnmovedAll DEF connVars
  <2>5. CASE SendInLoop(c)
    BY <2>1, <2>2, <2>3, <2>5, SendStep
  <2>6. CASE ShutdownInLoop(c)
    BY <2>1, <2>2, <2>3, <2>6, ShutStep
  <2> QED BY <1>4, <2>4, <2>5, <2>6 DEF RunRaw
<1> QED BY <1>1, <1>2, <1>3, <1>4 DEF RunFunctor

\* Every step of the server is, for each connection, one of those of ConnStep.
LEMMA ConnSteps ==
    ASSUME Inv, [Next]_vars
    PROVE  \A d \in Conns : ConnStep(d)
<1> USE DEF Inv
<1>1. ASSUME NEW c \in Conns, NEW l \in ioLoops, NewConnection(c, l)
      PROVE  \A d \in Conns : ConnStep(d)
  <2>1. CASE l = Base
    <3>1. New(c) /\ ~Created(c)
      BY <1>1 DEF NewConnection, New, Created
    <3> QED BY <1>1, <2>1, <3>1, EstablishedStep DEF NewConnection
  <2>2. CASE l # Base
    <3>1. Made(c)
      BY <1>1, <2>2 DEF NewConnection, Made, TypeOK
    <3>2. ASSUME NEW d \in Conns, d # c PROVE Unmoved(d)
      BY <1>1, <2>2, <3>2 DEF NewConnection, Unmoved, TypeOK
    <3> QED BY <3>1, <3>2 DEF ConnStep
  <2> QED BY <2>1, <2>2
<1>2. ASSUME NEW l \in Loops, Poll(l) \/ TakeBatch(l) \/ EndBatch(l)
      PROVE  \A d \in Conns : ConnStep(d)
  BY <1>2, UnmovedAll DEF Poll, TakeBatch, EndBatch, historyVars
<1>3. ASSUME NEW c \in Conns, PeerCloses(c) \/ Release(c) PROVE \A d \in Conns : ConnStep(d)
  BY <1>3, UnmovedAll DEF PeerCloses, Release, historyVars
<1>4. ASSUME NEW u \in Users, (\E c \in Conns, op \in UserOps : UserCall(u, c, op)) \/ UserPost(u)
      PROVE  \A d \in Conns : ConnStep(d)
  BY <1>4, UnmovedAll DEF UserCall, UserPost, historyVars
<1>5. ASSUME NEW u \in Users, UserSetState(u) PROVE \A d \in Conns : ConnStep(d)
  <2> DEFINE c == upc[u].c
  <2>1. c \in Conns
    BY <1>5 DEF UserSetState, UserInv
  <2>2. ~New(c)
    BY <2>1 DEF LifeInv
  <2>3. upc'[u] = [op |-> "shutdownInLoop", c |-> c]
    BY <1>5 DEF UserSetState, TypeOK
  <2>4. Disconnecting(c)
    BY <1>5, <2>1, <2>2, <2>3 DEF UserSetState, Disconnecting, historyVars, TypeOK
  <2>5. ASSUME NEW d \in Conns, d # c PROVE Unmoved(d)
    BY <1>5, <2>5 DEF UserSetState, Unmoved, historyVars, TypeOK
  <2> QED BY <2>1, <2>4, <2>5 DEF ConnStep
<1>6. ASSUME NEW c \in Conns, DestroyItem(c) PROVE \A d \in Conns : ConnStep(d)
  <2>1. CASE ioLoop[c] = Base
    BY <1>6, <2>1, DestroyedStep DEF DestroyItem
  <2>2. CASE ioLoop[c] # Base
    BY <1>6, <2>2, UnmovedAll DEF DestroyItem
  <2> QED BY <2>1, <2>2
<1>7. ASSUME BeginStop \/ EndStop \/ UNCHANGED vars PROVE \A d \in Conns : ConnStep(d)
  BY <1>7, UnmovedAll DEF BeginStop, EndStop, vars, historyVars
<1>8. "sendInLoop" \in UserOps /\ "setState" \in UserOps /\ "sendFileInLoop" \in UserOps
  BY DEF UserOps, Raw
<1> QED
  BY <1>1, <1>2, <1>3, <1>4, <1>5, <1>6, <1>7, <1>8, HandlerSteps, RunSteps
  DEF Next, LoopStep, Accept, UserStep

LEMMA Quiet ==
    ASSUME UNCHANGED <<queue, batch>>
    PROVE  \A l \in Loops : QueueStep(l)
BY DEF QueueStep, Adds

LEMMA PostAdds ==
    ASSUME TypeOK, NEW k \in Loops, NEW f \in Functor, Posted(k, f),
           queue' = Queued(queue, k, f)
    PROVE  \A l \in Loops : Adds(l)
<1>1. queue \in [Loops -> Seq(Functor)]
  BY DEF TypeOK
<1>2. queue'[k] = Append(queue[k], f) /\ \A l \in Loops \ {k} : queue'[l] = queue[l]
  BY <1>1, QueuedType
<1> QED BY <1>2 DEF Adds

LEMMA RemoveAdds ==
    ASSUME TypeOK, NEW l \in Loops, NEW c \in Conns, ~New(c), downs'[c] > 0,
           RemoveConnection(l, c)
    PROVE  \A k \in Loops : Adds(k)
<1>1. Base \in Loops /\ ioLoop[c] \in Loops /\ Created(c)
  BY DEF Loops, TypeOK, New, Created
<1>2. CASE l = Base
  <2>1. queue' = Queued(queue, ioLoop[c], Des(c))
    BY <1>2 DEF RemoveConnection, Des
  <2>2. Posted(ioLoop[c], Des(c))
    BY <1>1 DEF Posted, Des
  <2> QED BY <1>1, <2>1, <2>2, ServerFunctors, PostAdds
<1>3. CASE l # Base
  <2>1. queue' = Queued(queue, Base, Rem(c))
    BY <1>3 DEF RemoveConnection, Rem
  <2>2. Posted(Base, Rem(c))
    BY <1>1 DEF Posted, Rem
  <2> QED BY <1>1, <2>1, <2>2, ServerFunctors, PostAdds
<1> QED BY <1>2, <1>3

LEMMA FileAdds ==
    ASSUME TypeOK, NEW l \in Loops, NEW c \in Conns, ~New(c), ioLoop[c] = l,
           SendFileAgain(l, c)
    PROVE  \A k \in Loops : Adds(k)
<1> DEFINE f == [op |-> "sendFileInLoop", c |-> c]
<1>1. f \in Functor /\ Posted(l, f)
  BY DEF Functor, Strong, Posted
<1>2. queue' = Queued(queue, l, f)
  BY DEF SendFileAgain
<1> HIDE DEF f
<1> QED BY <1>1, <1>2, PostAdds

LEMMA RunAdds ==
    ASSUME TypeOK, NEW l \in Loops, NEW c \in Conns, NEW op, Running(l, op, c),
           op = "connectEstablished" => state'[c] = "kConnected",
           \A k \in Loops : Adds(k)
    PROVE  \A k \in Loops : QueueStep(k)
<1>1. batch'[l] = Tail(batch[l]) /\ \A k \in Loops \ {l} : batch'[k] = batch[k]
  BY DEF Running, TypeOK
<1> QED BY <1>1 DEF Running, QueueStep

\* Every step changes the functors of each loop in one of the ways of QueueStep.
LEMMA QueueSteps ==
    ASSUME Inv, [Next]_vars
    PROVE  \A l \in Loops : QueueStep(l)
<1> USE DEF Inv
<1>1. ASSUME NEW c \in Conns, NEW l \in ioLoops, NewConnection(c, l)
      PROVE  \A k \in Loops : QueueStep(k)
  <2>1. CASE l = Base
    BY <1>1, <2>1, Quiet DEF NewConnection
  <2>2. CASE l # Base
    <3>1. l \in Loops /\ queue' = Queued(queue, l, Est(c)) /\ UNCHANGED batch
      BY <1>1, <2>2 DEF NewConnection, Est, TypeOK
    <3>2. Posted(l, Est(c))
      BY <1>1, <2>2 DEF NewConnection, Posted, Est, TypeOK
    <3>3. \A k \in Loops : Adds(k)
      BY <3>1, <3>2, ServerFunctors, PostAdds
    <3> QED BY <3>1, <3>3 DEF QueueStep
  <2> QED BY <2>1, <2>2
<1>2. ASSUME NEW l \in Loops, OnHup(l) \/ OnReadClosed(l) PROVE \A k \in Loops : QueueStep(k)
  <2> DEFINE c == cur[l].c
  <2>1. c \in Conns
    BY <1>2, InHand DEF OnHup, OnReadClosed
  <2>2. ~New(c)
    BY <2>1, ServerAssumption DEF EventInv, ServerAssumption
  <2>3. downs'[c] > 0
    BY <1>2, <2>1 DEF OnHup, OnReadClosed, HandleClose, TypeOK
  <2>4. RemoveConnection(l, c) /\ UNCHANGED batch
    BY <1>2 DEF OnHup, OnReadClosed, HandleClose
  <2> QED BY <2>1, <2>2, <2>3, <2>4, RemoveAdds DEF QueueStep
<1>3. ASSUME NEW l \in Loops, OnMessage(l) PROVE \A k \in Loops : QueueStep(k)
  <2> DEFINE c == cur[l].c
  <2>1. c \in Conns
    BY <1>3, InHand DEF OnMessage
  <2>2. ~New(c) /\ ioLoop[c] = l
    BY <2>1, ServerAssumption DEF EventInv, ServerAssumption
  <2>3. CASE UNCHANGED queue
    BY <1>3, <2>3, Quiet DEF OnMessage
  <2>4. CASE SendFileAgain(l, c)
    BY <1>3, <2>1, <2>2, <2>4, FileAdds DEF OnMessage, QueueStep
  <2> QED BY <1>3, <2>3, <2>4 DEF OnMessage
<1>4. ASSUME NEW l \in Loops, RunFunctor(l) PROVE \A k \in Loops : QueueStep(k)
  <2>1. CASE UNCHANGED queue
    <3>1. PICK c \in Conns, op \in Strong \union Raw :
            Running(l, op, c) /\ (op = "connectEstablished" => ConnectEstablished(c))
      BY <1>4, <2>1
      DEF RunFunctor, RunConnectEstablished, RunConnectDestroyed, RunRemoveConnection,
          RunRaw, RunSendFileEnds, RunSendFileAgain, Strong, Raw
    <3>2. op = "connectEstablished" => state'[c] = "kConnected"
      BY <3>1 DEF ConnectEstablished, TypeOK
    <3> QED BY <2>1, <3>1, <3>2, RunAdds DEF Adds
  <2>2. ASSUME NEW c \in Conns, l = Base, RunRemoveConnection(c)
        PROVE  \A k \in Loops : QueueStep(k)
    <3>1. Running(l, "removeConnectionInLoop", c) /\ RemoveConnection(l, c) /\ UNCHANGED downs
      BY <2>2 DEF RunRemoveConnection
    <3>2. downs[c] > 0 /\ ~New(c)
      BY <3>1, RunsWaiting DEF Strong
    <3>3. \A k \in Loops : Adds(k)
      BY <3>1, <3>2, RemoveAdds
    <3> QED BY <3>1, <3>3, RunAdds
  <2>3. ASSUME NEW c \in Conns, RunSendFileAgain(l, c) PROVE \A k \in Loops : QueueStep(k)
    <3>1. Running(l, "sendFileInLoop", c) /\ SendFileAgain(l, c)
      BY <2>3 DEF RunSendFileAgain
    <3>2. ~New(c) /\ ioLoop[c] = l
      BY <3>1, RunsWaiting DEF Strong
    <3>3. \A k \in Loops : Adds(k)
      BY <3>1, <3>2, FileAdds
    <3> QED BY <3>1, <3>3, RunAdds
  <2> QED BY <1>4, <2>1, <2>2, <2>3
          DEF RunFunctor, RunConnectEstablished, RunConnectDestroyed, RunRaw, RunSendFileEnds
<1>5. ASSUME NEW l \in Loops, TakeBatch(l) PROVE \A k \in Loops : QueueStep(k)
  <2>1. /\ batch'[l] = queue[l] /\ queue'[l] = <<>> /\ lpc[l] = "handle" /\ active[l] = {}
        /\ \A k \in Loops \ {l} : batch'[k] = batch[k] /\ queue'[k] = queue[k]
    BY <1>5 DEF TakeBatch, TypeOK
  <2> QED BY <2>1 DEF QueueStep, Adds
<1>6. ASSUME NEW l \in Loops, EndBatch(l) PROVE \A k \in Loops : QueueStep(k)
  <2>1. CASE UNCHANGED queue
    BY <1>6, <2>1, Quiet DEF EndBatch
  <2>2. CASE lpc' = [lpc EXCEPT ![l] = "stopped"] /\ queue' = [queue EXCEPT ![l] = <<>>]
    <3>1. /\ queue'[l] = <<>> /\ lpc'[l] = "stopped"
          /\ \A k \in Loops \ {l} : queue'[k] = queue[k]
      BY <2>2 DEF TypeOK
    <3> QED BY <1>6, <3>1 DEF EndBatch, QueueStep, Adds
  <2> QED BY <1>6, <2>1, <2>2 DEF EndBatch
<1>7. ASSUME NEW u \in Users, UserPost(u) PROVE \A k \in Loops : QueueStep(k)
  <2> DEFINE f == upc[u]
  <2>1. f.c \in Conns /\ ServerUp
    BY <1>7 DEF UserPost, UserInv, Raw
  <2>2. ~New(f.c) /\ ioLoop[f.c] \in Loops
    BY <2>1 DEF LifeInv, TypeOK
  <2>3. f \in Functor
    BY <1>7, <2>1 DEF UserPost, Functor, Strong, TypeOK
  <2>4. Posted(ioLoop[f.c], f)
    BY <1>7, <2>1, <2>2 DEF UserPost, Posted
  <2>5. queue' = Queued(queue, ioLoop[f.c], f) /\ UNCHANGED batch
    BY <1>7 DEF UserPost
  <2> QED BY <2>2, <2>3, <2>4, <2>5, PostAdds DEF QueueStep
<1>8. ASSUME NEW c \in Conns, DestroyItem(c) PROVE \A k \in Loops : QueueStep(k)
  <2>1. CASE ioLoop[c] = Base
    BY <1>8, <2>1, Quiet DEF DestroyItem
  <2>2. CASE ioLoop[c] # Base
    <3>1. Created(c) /\ ioLoop[c] \in Loops
      BY <1>8 DEF DestroyItem, LifeInv, TypeOK
    <3>2. queue' = Queued(queue, ioLoop[c], Des(c)) /\ UNCHANGED batch
      BY <1>8, <2>2 DEF DestroyItem, Des
    <3>3. Posted(ioLoop[c], Des(c))
      BY <3>1 DEF Posted, Des
    <3> QED BY <3>1, <3>2, <3>3, ServerFunctors, PostAdds DEF QueueStep
  <2> QED BY <2>1, <2>2
<1>9. CASE UNCHANGED <<queue, batch>>
  BY <1>9, Quiet
<1>10. ASSUME NEW l \in Loops,
              Poll(l) \/ (\E a \in active[l] : StartHandler(l, a)) \/ OnWrite(l) \/ EndHandler(l)
       PROVE  UNCHANGED <<queue, batch>>
  BY <1>10 DEF Poll, StartHandler, OnWrite, EndHandler
<1>11. ASSUME NEW u \in Users, (\E c \in Conns, op \in UserOps : UserCall(u, c, op)) \/ UserSetState(u)
       PROVE  UNCHANGED <<queue, batch>>
  BY <1>11 DEF UserCall, UserSetState, loopVars
<1>12. ASSUME (\E c \in Conns : PeerCloses(c) \/ Release(c)) \/ BeginStop \/ EndStop \/ UNCHANGED vars
       PROVE  UNCHANGED <<queue, batch>>
  BY <1>12 DEF PeerCloses, Release, BeginStop, EndStop, vars, loopVars
<1>13. "sendInLoop" \in UserOps /\ "setState" \in UserOps /\ "sendFileInLoop" \in UserOps
  BY DEF UserOps, Raw
<1> HIDE DEF Inv
<1> QED
  BY <1>1, <1>2, <1>3, <1>4, <1>5, <1>6, <1>7, <1>8, <1>9, <1>10, <1>11, <1>12, <1>13
  DEF Next, LoopStep, Accept, Handle, UserStep

\* What no step undoes.
LEMMA Lasts ==
    ASSUME Inv, [Next]_vars
    PROVE  Lasting
<1> USE DEF Inv
<1>1. CASE UNCHANGED <<lpc, late, ioLoop>>
  BY <1>1 DEF Lasting, ServerUp
<1>2. ASSUME NEW c \in Conns, NEW l \in ioLoops, NewConnection(c, l) PROVE Lasting
  BY <1>2 DEF NewConnection, Lasting, ServerUp, TypeOK
<1>3. ASSUME NEW l \in Loops, Poll(l) \/ TakeBatch(l) \/ EndBatch(l) PROVE Lasting
  <2>1. UNCHANGED <<late, ioLoop>>
    BY <1>3 DEF Poll, TakeBatch, EndBatch, historyVars, choiceVars
  <2>2. lpc[l] \in {"poll", "handle", "run"} /\ \A k \in Loops \ {l} : lpc'[k] = lpc[k]
    BY <1>3 DEF Poll, TakeBatch, EndBatch, TypeOK
  <2>3. Base \in Loops
    BY DEF Loops
  <2> QED BY <2>1, <2>2, <2>3 DEF Lasting, ServerUp
<1>4. ASSUME BeginStop \/ EndStop PROVE Lasting
  <2>1. UNCHANGED <<late, ioLoop>>
    BY <1>4 DEF BeginStop, EndStop, historyVars, choiceVars
  <2>2. /\ lpc[Base] \in {"poll", "destroying"} /\ ~ServerUp'
        /\ \A k \in Loops \ {Base} : lpc'[k] = lpc[k]
    <3>1. Base \in Loops
      BY DEF Loops
    <3> QED BY <1>4, <3>1 DEF BeginStop, EndStop, ServerUp, TypeOK
  <2> QED BY <2>1, <2>2 DEF Lasting
<1>5. ASSUME NEW l \in Loops, RunFunctor(l) PROVE Lasting
  <2>1. late \subseteq late'
    BY <1>5
    DEF RunFunctor, RunConnectEstablished, RunConnectDestroyed, RunRemoveConnection,
        RunRaw, RunSendFileEnds, RunSendFileAgain
  <2>2. UNCHANGED <<lpc, ioLoop>>
    BY <1>5
    DEF RunFunctor, RunConnectEstablished, RunConnectDestroyed, RunRemoveConnection,
        RunRaw, RunSendFileEnds, RunSendFileAgain, Running, choiceVars
  <2> QED BY <2>1, <2>2 DEF Lasting, ServerUp
<1>6. ASSUME NEW l \in Loops, Handle(l) PROVE UNCHANGED <<lpc, late, ioLoop>>
  BY <1>6 DEF Handle, StartHandler, OnHup, OnReadClosed, OnMessage, OnWrite, EndHandler,
              choiceVars, historyVars
<1>7. ASSUME NEW u \in Users, UserStep(u) PROVE UNCHANGED <<lpc, late, ioLoop>>
  BY <1>7 DEF UserStep, UserCall, UserSetState, UserPost, choiceVars, loopVars, historyVars
<1>8. ASSUME (\E c \in Conns : PeerCloses(c) \/ Release(c) \/ DestroyItem(c)) \/ UNCHANGED vars
      PROVE  UNCHANGED <<lpc, late, ioLoop>>
  BY <1>8 DEF PeerCloses, Release, DestroyItem, vars, choiceVars, loopVars, historyVars
<1> HIDE DEF Inv
<1> QED
  BY <1>1, <1>2, <1>3, <1>4, <1>5, <1>6, <1>7, <1>8
  DEF Next, LoopStep, Accept

-----------------------------------------------------------------------------
(* The invariant is inductive: one lemma for each part of it.              *)

\* A connection that was established, or is down, is so for good.
LEMMA OnlyForward ==
    ASSUME Inv, [Next]_vars, NEW c \in Conns
    PROVE  /\ Created(c) => Created(c)' /\ ioLoop'[c] = ioLoop[c]
           /\ New(c)' => New(c) /\ channel'[c] = channel[c] /\ out'[c] = out[c]
                         /\ ups'[c] = ups[c] /\ downs'[c] = downs[c]
           /\ downs'[c] = 0 => downs[c] = 0
           /\ downs'[c] \in Nat /\ downs[c] \in Nat /\ ups[c] \in Nat
           /\ downs[c] > 0 => downs'[c] > 0
           /\ wrShut[c] => wrShut'[c]
<1>1. ConnStep(c) /\ Lasting
  BY ConnSteps, Lasts
<1>2. TypeOK' /\ TypeOK
  BY TypeStep DEF Inv
<1>3. downs'[c] \in Nat /\ downs[c] \in Nat /\ ups[c] \in Nat
  BY <1>2 DEF TypeOK
<1>4. Created(c) => ioLoop'[c] = ioLoop[c]
  BY <1>1 DEF Lasting
<1>5. Created(c) => Created(c)'
  BY <1>1
  DEF ConnStep, Unmoved, Made, Established, GoesDown, Disconnecting, Writing, Written,
      Created, New
<1>6. New(c)' => New(c) /\ channel'[c] = channel[c] /\ out'[c] = out[c]
                        /\ ups'[c] = ups[c] /\ downs'[c] = downs[c]
  BY <1>1
  DEF ConnStep, Unmoved, Made, Established, GoesDown, Disconnecting, Writing, Written,
      Created, New
<1>7. downs'[c] = downs[c] \/ downs'[c] = downs[c] + 1
  BY <1>1
  DEF ConnStep, Unmoved, Made, Established, GoesDown, Disconnecting, Writing, Written
<1>8. wrShut[c] => wrShut'[c]
  BY <1>1
  DEF ConnStep, Unmoved, Made, Established, GoesDown, Disconnecting, Writing, Written
<1> QED BY <1>3, <1>4, <1>5, <1>6, <1>7, <1>8

LEMMA ChannelStep ==
    ASSUME Inv, [Next]_vars
    PROVE  ChannelInv'
<1> SUFFICES ASSUME NEW c \in Conns
             PROVE  /\ ~New(c)' /\ downs'[c] = 0 =>
                         /\ channel'[c].index = "kAdded"
                         /\ channel'[c].epoll = channel'[c].events
                         /\ "read" \in channel'[c].events
                         /\ out'[c] > 0 <=> "write" \in channel'[c].events
                    /\ downs'[c] > 0 /\ c \notin late' => channel'[c] = Deleted
  BY DEF ChannelInv
<1>1. ConnStep(c) /\ Lasting
  BY ConnSteps, Lasts
<1>2. /\ ~New(c) /\ downs[c] = 0 =>
            /\ channel[c].index = "kAdded" /\ channel[c].epoll = channel[c].events
            /\ "read" \in channel[c].events
            /\ out[c] > 0 <=> "write" \in channel[c].events
      /\ downs[c] > 0 /\ c \notin late => channel[c] = Deleted
      /\ New(c) => channel[c] = NewChannel /\ out[c] = 0 /\ downs[c] = 0
  BY DEF Inv, ChannelInv, LifeInv
<1>3. /\ downs[c] \in Nat /\ out[c] \in Nat /\ MaxOut \in Nat \ {0} /\ late \subseteq late'
      /\ out[c] <= MaxOut
  BY <1>1, ServerAssumption DEF Inv, TypeOK, Lasting, ServerAssumption
<1>4. CASE Unmoved(c)
  BY <1>2, <1>3, <1>4 DEF Unmoved, New
<1>5. CASE Made(c)
  BY <1>2, <1>3, <1>5 DEF Made, New, Created
<1>6. CASE Established(c)
  <2>1. EnableReading(NewChannel) = [events |-> {"read"}, index |-> "kAdded", epoll |-> {"read"}]
    BY DEF EnableReading, UpdateChannel, NewChannel
  <2>2. channel'[c] = EnableReading(NewChannel) /\ out'[c] = 0 /\ downs'[c] = 0
    BY <1>2, <1>6 DEF Established
  <2> QED BY <2>1, <2>2
<1>7. CASE GoesDown(c)
  <2>1. channel[c].index = "kAdded" => DisableAll(channel[c]) = Deleted
    BY DEF DisableAll, UpdateChannel, Deleted
  <2>2. downs'[c] > 0
    BY <1>3, <1>7 DEF GoesDown
  <2> QED BY <1>2, <1>3, <1>7, <2>1, <2>2 DEF GoesDown
<1>8. CASE Disconnecting(c)
  BY <1>2, <1>3, <1>8 DEF Disconnecting
<1>9. CASE Writing(c)
  <2>1. channel[c].index = "kAdded" =>
          LET ch == EnableWriting(channel[c])
          IN ch.index = "kAdded" /\ ch.epoll = ch.events
             /\ ch.events = channel[c].events \union {"write"}
    BY DEF EnableWriting, UpdateChannel
  <2>2. IF out[c] < MaxOut THEN out[c] + 1 > 0 ELSE out[c] > 0
    BY <1>3
  <2>3. CASE downs[c] > 0
    BY <1>9, <2>3 DEF Writing
  <2>4. CASE downs[c] = 0 /\ channel'[c] = channel[c] /\ out'[c] = out[c]
    BY <1>2, <1>9, <2>4 DEF Writing, New
  <2>5. CASE /\ downs[c] = 0
             /\ out'[c] = IF out[c] < MaxOut THEN out[c] + 1 ELSE out[c]
             /\ channel'[c] = IF IsWriting(channel[c]) THEN channel[c]
                                                       ELSE EnableWriting(channel[c])
    BY <1>2, <1>3, <1>9, <2>1, <2>2, <2>5 DEF Writing, New, IsWriting
  <2> QED BY <1>3, <1>9, <2>3, <2>4, <2>5 DEF Writing
<1>10. CASE Written(c)
  <2>1. "read" \in channel[c].events /\ channel[c].index = "kAdded" =>
          LET ch == DisableWriting(channel[c])
          IN ch.index = "kAdded" /\ ch.epoll = ch.events
             /\ ch.events = channel[c].events \ {"write"}
    BY DEF DisableWriting, UpdateChannel
  <2>2. CASE downs[c] = 0
    BY <1>2, <1>3, <1>10, <2>1, <2>2 DEF Written, New, IsWriting
  <2>3. CASE c \in late
    BY <1>2, <1>3, <1>10, <2>1, <2>2, <2>3 DEF Written, New
  <2> QED BY <1>10, <2>2, <2>3 DEF Written
<1> QED BY <1>1, <1>4, <1>5, <1>6, <1>7, <1>8, <1>9, <1>10 DEF ConnStep

\* Who may get hold of a connection, and when.
LEMMA Pointers ==
    ASSUME Inv, [Next]_vars, NEW c \in Conns
    PROVE  /\ c \in held' => c \in held \/ ~New(c)'
           /\ c \in late' => c \in late \/ downs[c] > 0
           /\ c \in connections' => c \in connections \/ Created(c)'
           /\ \A u \in Users : upc'[u].c = c => upc[u].c = c \/ c \in held
<1> DEFINE G == /\ c \in held' => c \in held \/ ~New(c)'
                /\ c \in late' => c \in late \/ downs[c] > 0
                /\ c \in connections' => c \in connections \/ Created(c)'
                /\ \A u \in Users : upc'[u].c = c => upc[u].c = c \/ c \in held
<1> SUFFICES G
  OBVIOUS
<1>e. ASSUME NEW d \in Conns, ConnectEstablished(d)
      PROVE  (c \in held' => c \in held \/ ~New(c)') /\ (c = d => Created(c)')
  <2>1. c = d => ~New(c)' /\ Created(c)'
    BY <1>e DEF ConnectEstablished, Inv, TypeOK, New, Created
  <2> QED BY <1>e, <2>1 DEF ConnectEstablished
<1>1. ASSUME NEW d \in Conns, NEW l \in ioLoops, NewConnection(d, l) PROVE G
  <2>1. CASE l = Base
    BY <1>1, <1>e, <2>1 DEF NewConnection
  <2>2. CASE l # Base
    <3>1. c = d => Created(c)'
      BY <1>1, <2>2 DEF NewConnection, Created, Inv, TypeOK
    <3> QED BY <1>1, <2>2, <3>1 DEF NewConnection
  <2> QED BY <2>1, <2>2
<1>2. ASSUME NEW l \in Loops, RunFunctor(l) PROVE G
  <2>1. \A d \in Conns : RunConnectEstablished(l, d) => G
    BY <1>e DEF RunConnectEstablished, Running
  <2>2. \A d \in Conns : RunConnectDestroyed(l, d) => G
    BY DEF RunConnectDestroyed, ConnectDestroyed, Running
  <2>3. \A d \in Conns : l = Base /\ RunRemoveConnection(d) => G
    BY DEF RunRemoveConnection, RemoveConnection, Running
  <2>4. \A d \in Conns, op \in Raw : RunRaw(l, op, d) => G
    BY DEF RunRaw, Running
  <2>5. \A d \in Conns : RunSendFileEnds(l, d) \/ RunSendFileAgain(l, d) => G
    BY DEF RunSendFileEnds, RunSendFileAgain, Running
  <2> HIDE DEF G
  <2> QED BY <1>2, <2>1, <2>2, <2>3, <2>4, <2>5 DEF RunFunctor
<1>3. ASSUME NEW l \in Loops, Handle(l) PROVE G
  <2>1. UNCHANGED <<held, late, upc>>
    BY <1>3 DEF Handle, StartHandler, OnHup, OnReadClosed, OnMessage, OnWrite, EndHandler,
                HandleClose, userVars, historyVars
  <2>2. connections' \subseteq connections
    BY <1>3 DEF Handle, StartHandler, OnHup, OnReadClosed, OnMessage, OnWrite, EndHandler,
                HandleClose, RemoveConnection
  <2> QED BY <2>1, <2>2
<1>4. ASSUME NEW u \in Users, UserStep(u) PROVE G
  <2>1. UNCHANGED <<held, late, connections>>
    BY <1>4 DEF UserStep, UserCall, UserSetState, UserPost, historyVars
  <2>2. ASSUME NEW v \in Users PROVE upc'[v].c = c => upc[v].c = c \/ c \in held
    <3>1. CASE UserPost(u)
      <4>1. upc'[v] = upc[v] \/ upc'[v].c = NoConn
        BY <3>1 DEF UserPost, Inv, TypeOK
      <4> QED BY <4>1, ServerAssumption DEF ServerAssumption
    <3>2. CASE UserSetState(u)
      <4>1. upc'[v].c = upc[v].c
        BY <3>2 DEF UserSetState, Inv, TypeOK
      <4> QED BY <4>1
    <3>3. ASSUME NEW d \in Conns, NEW op, UserCall(u, d, op)
          PROVE  upc'[v].c = c => upc[v].c = c \/ c \in held
      BY <3>3 DEF UserCall, Inv, TypeOK
    <3> QED BY <1>4, <3>1, <3>2, <3>3 DEF UserStep
  <2> QED BY <2>1, <2>2
<1>5. ASSUME NEW d \in Conns, PeerCloses(d) \/ Release(d) \/ DestroyItem(d) PROVE G
  BY <1>5 DEF PeerCloses, Release, DestroyItem, ConnectDestroyed, userVars, historyVars
<1>6. ASSUME (\E l \in Loops : Poll(l) \/ TakeBatch(l) \/ EndBatch(l))
               \/ BeginStop \/ EndStop \/ UNCHANGED vars
      PROVE  G
  BY <1>6 DEF Poll, TakeBatch, EndBatch, BeginStop, EndStop, vars, userVars, historyVars
<1> HIDE DEF G
<1> QED BY <1>1, <1>2, <1>3, <1>4, <1>5, <1>6 DEF Next, LoopStep, Accept

LEMMA LifeStep ==
    ASSUME Inv, [Next]_vars
    PROVE  LifeInv'
<1>1. ASSUME NEW c \in Conns
      PROVE  /\ New(c)' => /\ channel'[c] = NewChannel /\ out'[c] = 0
                           /\ ups'[c] = 0 /\ downs'[c] = 0 /\ c \notin held' /\ c \notin late'
                           /\ \A u \in Users : upc'[u].c # c
             /\ ~Created(c)' => c \notin connections'
  BY OnlyForward, Pointers DEF Inv, LifeInv
<1>2. ASSUME NEW c \in Conns
      PROVE  /\ ~New(c)' => ups'[c] = 1
             /\ state'[c] = "kConnected" => downs'[c] = 0
             /\ state'[c] = "kDisconnected" => downs'[c] > 0
             /\ c \notin late' => downs'[c] <= 1
  <2>1. ConnStep(c) /\ Lasting
    BY ConnSteps, Lasts
  <2>2. /\ New(c) => ups[c] = 0 /\ downs[c] = 0
        /\ ~New(c) => ups[c] = 1
        /\ state[c] = "kConnected" => downs[c] = 0
        /\ state[c] = "kDisconnected" => downs[c] > 0
        /\ c \notin late => downs[c] <= 1
        /\ c \notin late' => c \notin late
        /\ downs[c] \in Nat
    BY <2>1 DEF Inv, LifeInv, TypeOK, Lasting
  <2>3. CASE Unmoved(c)
    BY <2>2, <2>3 DEF Unmoved, New
  <2>4. CASE Made(c)
    BY <2>2, <2>4 DEF Made, New, Created
  <2>5. CASE Established(c)
    BY <2>2, <2>5 DEF Established, New
  <2>6. CASE GoesDown(c)
    BY <2>2, <2>6 DEF GoesDown, New
  <2>7. CASE Disconnecting(c) \/ Writing(c) \/ Written(c)
    BY <2>2, <2>7 DEF Disconnecting, Writing, Written, New
  <2> QED BY <2>1, <2>3, <2>4, <2>5, <2>6, <2>7 DEF ConnStep
<1> QED BY <1>1, <1>2 DEF LifeInv

LEMMA UserStays ==
    ASSUME Inv, [Next]_vars
    PROVE  UserInv'
<1> USE DEF Inv
<1>1. ASSUME NEW u \in Users, UserStep(u) PROVE UserInv'
  <2>1. ServerUp /\ UNCHANGED lpc
    <3>1. UserPost(u) \/ UserSetState(u) => ServerUp
      BY DEF UserPost, UserSetState, UserInv, Raw
    <3> QED BY <1>1, <3>1 DEF UserStep, UserCall, UserSetState, UserPost, loopVars
  <2>2. ServerUp'
    BY <2>1 DEF ServerUp
  <2>3. ASSUME NEW v \in Users PROVE upc'[v].op = "idle" \/ upc'[v].c \in Conns
    <3>1. CASE UserPost(u)
      <4>1. upc'[v] = upc[v] \/ upc'[v].op = "idle"
        BY <3>1 DEF UserPost, TypeOK
      <4> QED BY <4>1 DEF UserInv
    <3>2. CASE UserSetState(u)
      <4>1. upc'[v].c = upc[v].c /\ (upc'[v] = upc[v] \/ upc[v].op # "idle")
        BY <3>2 DEF UserSetState, TypeOK
      <4> QED BY <4>1 DEF UserInv
    <3>3. ASSUME NEW d \in Conns, NEW op, UserCall(u, d, op)
          PROVE  upc'[v].op = "idle" \/ upc'[v].c \in Conns
      BY <3>3 DEF UserCall, TypeOK, UserInv
    <3> QED BY <1>1, <3>1, <3>2, <3>3 DEF UserStep
  <2> QED BY <2>2, <2>3 DEF UserInv
<1>2. CASE UNCHANGED upc /\ (ServerUp <=> ServerUp')
  BY <1>2 DEF UserInv
<1>3. CASE BeginStop
  BY <1>3 DEF BeginStop, UserInv, userVars
<1>4. ASSUME EndStop PROVE UNCHANGED upc /\ (ServerUp <=> ServerUp')
  BY <1>4 DEF EndStop, ServerUp, userVars, TypeOK, Loops
<1>5. ASSUME NEW l \in Loops, Poll(l) \/ TakeBatch(l) \/ EndBatch(l)
      PROVE  UNCHANGED upc /\ (ServerUp <=> ServerUp')
  <2>1. /\ UNCHANGED upc /\ \A k \in Loops \ {l} : lpc'[k] = lpc[k]
        /\ lpc[l] \in {"poll", "handle", "run"}
        /\ lpc'[l] \in {"poll", "handle", "run"} \/ l # Base
    BY <1>5 DEF Poll, TakeBatch, EndBatch, userVars, TypeOK
  <2>2. Base \in Loops
    BY DEF Loops
  <2> QED BY <2>1, <2>2 DEF ServerUp
<1>6. ASSUME NEW l \in Loops, Handle(l) \/ RunFunctor(l)
      PROVE  UNCHANGED upc /\ (ServerUp <=> ServerUp')
  BY <1>6
  DEF Handle, StartHandler, OnHup, OnReadClosed, OnMessage, OnWrite, EndHandler, RunFunctor,
      RunConnectEstablished, RunConnectDestroyed, RunRemoveConnection, RunRaw,
      RunSendFileEnds, RunSendFileAgain, Running, ServerUp, userVars
<1>7. ASSUME (\E c \in Conns : PeerCloses(c) \/ Release(c) \/ DestroyItem(c))
               \/ (\E c \in Conns, l \in ioLoops : NewConnection(c, l)) \/ UNCHANGED vars
      PROVE  UNCHANGED upc /\ (ServerUp <=> ServerUp')
  <2>1. UNCHANGED <<upc, lpc>>
    BY <1>7 DEF PeerCloses, Release, DestroyItem, NewConnection, vars, loopVars, userVars
  <2> QED BY <2>1 DEF ServerUp
<1> HIDE DEF Inv
<1> QED BY <1>1, <1>2, <1>3, <1>4, <1>5, <1>6, <1>7 DEF Next, LoopStep, Accept

\* A connection leaves the map when it is down, or when the server is destroyed.
LEMMA Leaves ==
    ASSUME Inv, [Next]_vars, NEW c \in Conns, c \in connections, c \notin connections'
    PROVE  downs'[c] > 0 \/ DestroyItem(c)
<1> USE DEF Inv
<1>1. ASSUME NEW l \in Loops, OnHup(l) \/ OnReadClosed(l) PROVE downs'[c] > 0
  <2>1. cur[l].c \in Conns /\ HandleClose(l, cur[l].c)
    BY <1>1, InHand DEF OnHup, OnReadClosed
  <2>2. cur[l].c = c
    BY <2>1 DEF HandleClose, RemoveConnection
  <2> QED BY <2>1, <2>2 DEF HandleClose, TypeOK
<1>2. ASSUME NEW d \in Conns, RunRemoveConnection(d) PROVE downs'[c] > 0
  <2>1. Base \in Loops /\ Running(Base, "removeConnectionInLoop", d)
    BY <1>2 DEF RunRemoveConnection, Loops
  <2>2. d = c
    BY <1>2 DEF RunRemoveConnection, RemoveConnection
  <2> QED BY <1>2, <2>1, <2>2, RunsWaiting DEF RunRemoveConnection, Strong
<1>3. ASSUME NEW d \in Conns, DestroyItem(d) PROVE DestroyItem(c)
  BY <1>3 DEF DestroyItem
<1>4. ASSUME NEW l \in Loops, RunFunctor(l), ~\E d \in Conns : RunRemoveConnection(d)
      PROVE  connections' = connections
  BY <1>4
  DEF RunFunctor, RunConnectEstablished, RunConnectDestroyed, RunRaw,
      RunSendFileEnds, RunSendFileAgain
<1>5. ASSUME NEW l \in Loops, Handle(l), ~OnHup(l), ~OnReadClosed(l)
      PROVE  connections' = connections
  BY <1>5 DEF Handle, StartHandler, OnMessage, OnWrite, EndHandler
<1>6. ASSUME NEW u \in Users, UserStep(u) PROVE connections' = connections
  BY <1>6 DEF UserStep, UserCall, UserSetState, UserPost
<1>7. ASSUME (\E d \in Conns : PeerCloses(d) \/ Release(d))
               \/ (\E l \in Loops : Poll(l) \/ TakeBatch(l) \/ EndBatch(l))
               \/ BeginStop \/ EndStop \/ UNCHANGED vars
      PROVE  connections' = connections
  BY <1>7 DEF PeerCloses, Release, Poll, TakeBatch, EndBatch, BeginStop, EndStop, vars
<1>8. \A d \in Conns, l \in ioLoops : ~NewConnection(d, l)
  BY DEF NewConnection
<1> HIDE DEF Inv
<1> QED BY <1>1, <1>2, <1>3, <1>4, <1>5, <1>6, <1>7, <1>8 DEF Next, LoopStep, Accept

LEMMA Enters ==
    ASSUME Inv, [Next]_vars, NEW c \in Conns, ~Created(c), Created(c)'
    PROVE  c \in connections'
<1> USE DEF Inv
<1>1. ASSUME NEW l \in Loops, RunFunctor(l) PROVE FALSE
  <2>1. PICK d \in Conns, op \in Strong \union Raw :
          Running(l, op, d) /\ (d # c => state'[c] = state[c])
    BY <1>1
    DEF RunFunctor, RunConnectEstablished, RunConnectDestroyed, RunRemoveConnection, RunRaw,
        RunSendFileEnds, RunSendFileAgain, ConnectEstablished, ConnectDestroyed, connVars,
        Strong, Raw, TypeOK
  <2> QED BY <2>1, RunsWaiting DEF Created
<1>2. ASSUME NEW l \in Loops, Handle(l) PROVE FALSE
  <2>1. CASE UNCHANGED state
    BY <2>1 DEF Created
  <2>2. CASE OnHup(l) \/ OnReadClosed(l) \/ OnMessage(l)
    <3>1. cur[l].c \in Conns
      BY <2>2, InHand DEF OnHup, OnReadClosed, OnMessage
    <3>2. Created(cur[l].c)
      BY <3>1, ServerAssumption DEF EventInv, ServerAssumption, New, Created
    <3>3. cur[l].c # c => state'[c] = state[c]
      BY <2>2 DEF OnHup, OnReadClosed, HandleClose, OnMessage, connVars, TypeOK
    <3> QED BY <3>2, <3>3 DEF Created
  <2> QED BY <1>2, <2>1, <2>2 DEF Handle, StartHandler, OnWrite, EndHandler, connVars
<1>3. ASSUME NEW u \in Users, UserStep(u) PROVE FALSE
  <2>1. CASE UNCHANGED state
    BY <2>1 DEF Created
  <2>2. CASE UserSetState(u)
    <3>1. upc[u].c \in Conns /\ Created(upc[u].c)
      BY <2>2 DEF UserSetState, UserInv, LifeInv, New, Created
    <3> QED BY <2>2, <3>1 DEF UserSetState, Created, TypeOK
  <2> QED BY <1>3, <2>1, <2>2 DEF UserStep, UserCall, UserPost, connVars
<1>4. ASSUME NEW d \in Conns, DestroyItem(d) PROVE FALSE
  <2>1. Created(d)
    BY <1>4 DEF DestroyItem, LifeInv
  <2>2. d # c => state'[c] = state[c]
    BY <1>4 DEF DestroyItem, ConnectDestroyed, connVars, TypeOK
  <2> QED BY <2>1, <2>2 DEF Created
<1>5. ASSUME (\E d \in Conns : PeerCloses(d) \/ Release(d))
               \/ (\E l \in Loops : Poll(l) \/ TakeBatch(l) \/ EndBatch(l))
               \/ BeginStop \/ EndStop \/ UNCHANGED vars
      PROVE  FALSE
  <2>1. UNCHANGED state
    BY <1>5 DEF PeerCloses, Release, Poll, TakeBatch, EndBatch, BeginStop, EndStop, vars,
                connVars
  <2> QED BY <2>1 DEF Created
<1>6. ASSUME NEW d \in Conns, NEW l \in ioLoops, NewConnection(d, l) PROVE c \in connections'
  <2>1. c = d
    BY <1>6 DEF NewConnection, ConnectEstablished, Created, TypeOK
  <2> QED BY <1>6, <2>1 DEF NewConnection
<1> HIDE DEF Inv
<1> QED BY <1>1, <1>2, <1>3, <1>4, <1>5, <1>6 DEF Next, LoopStep, Accept

LEMMA MapStep ==
    ASSUME Inv, [Next]_vars
    PROVE  MapInv'
<1> SUFFICES ASSUME NEW c \in Conns, ServerUp', Created(c)', downs'[c] = 0
             PROVE  c \in connections'
  BY DEF MapInv
<1>1. CASE ~Created(c)
  BY <1>1, Enters
<1>2. CASE Created(c)
  <2>1. ServerUp
    BY Lasts DEF Lasting
  <2>2. c \in connections
    BY <1>2, <2>1, OnlyForward DEF Inv, MapInv
  <2>3. ~DestroyItem(c)
    BY <2>1 DEF DestroyItem, ServerUp
  <2>4. ~(downs'[c] > 0)
    OBVIOUS
  <2> QED BY <2>2, <2>3, <2>4, Leaves
<1> QED BY <1>1, <1>2

\* A loop is at a safe place after each of its own steps, and others do not disturb it.
LEMMA LoopStays ==
    ASSUME Inv, [Next]_vars
    PROVE  LoopInv'
<1> USE DEF Inv
<1>i. Base \in Loops /\ Idle.c = NoConn
  BY DEF Loops, Idle
<1>1. CASE UNCHANGED <<lpc, active, cur, batch, pinned>>
  BY <1>1 DEF LoopInv
<1>2. ASSUME NEW c \in Conns, NEW l \in ioLoops, NewConnection(c, l) PROVE LoopInv'
  <2>1. /\ active'[Base] \subseteq active[Base]
        /\ \A k \in Loops \ {Base} : active'[k] = active[k]
        /\ UNCHANGED <<lpc, cur, batch, pinned>>
    BY <1>2, <1>i DEF NewConnection, TypeOK
  <2>2. \A k \in Loops : active'[k] \subseteq active[k]
    BY <2>1
  <2> QED BY <2>1, <2>2 DEF LoopInv
<1>3. ASSUME NEW l \in Loops, Poll(l) PROVE LoopInv'
  <2>1. PICK f \in [Watched(l) -> SUBSET (Events \union {"hup"})],
             accepts \in SUBSET {AcceptEvent} :
          active' = [active EXCEPT ![l] =
                       {[c |-> c, re |-> f[c]] : c \in {d \in Watched(l) : f[d] # {}}}
                         \union accepts]
    BY <1>3 DEF Poll
  <2>2. active'[l] = {[c |-> c, re |-> f[c]] : c \in {d \in Watched(l) : f[d] # {}}}
                       \union accepts
    BY <2>1 DEF TypeOK
  <2>3. \A a \in active'[l] : a = AcceptEvent \/ (a.c \in Conns /\ a = [c |-> a.c, re |-> f[a.c]])
    BY <2>2 DEF Watched
  <2>4. AcceptEvent.c = NoConn /\ NoConn \notin Conns
    BY ServerAssumption DEF ServerAssumption, AcceptEvent
  <2>5. \A a, b \in active'[l] : a.c = b.c => a = b
    BY <2>3, <2>4
  <2>6. /\ cur[l] = Idle /\ batch[l] = <<>> /\ pinned[l] = {} /\ lpc'[l] = "handle"
        /\ UNCHANGED <<cur, batch, pinned>>
        /\ \A k \in Loops \ {l} : lpc'[k] = lpc[k] /\ active'[k] = active[k]
    BY <1>3, <2>1 DEF Poll, LoopInv, TypeOK
  <2>7. \A k \in Loops \ {l} :
          /\ lpc'[k] # "handle" => active'[k] = {} /\ cur'[k] = Idle
          /\ lpc'[k] # "run" => batch'[k] = <<>> /\ pinned'[k] = {}
          /\ lpc'[k] = "destroying" => k = Base
          /\ cur'[k].c = NoConn => cur'[k] = Idle
          /\ \A a, b \in active'[k] : a.c = b.c => a = b
          /\ \A a \in active'[k] : a.c # NoConn => a.c # cur'[k].c
    BY <2>6 DEF LoopInv
  <2>8. /\ lpc'[l] = "handle" /\ batch'[l] = <<>> /\ pinned'[l] = {}
        /\ cur'[l] = Idle
    BY <2>6
  <2> QED BY <1>i, <2>5, <2>7, <2>8 DEF LoopInv
<1>4. ASSUME NEW l \in Loops, NEW a \in active[l], StartHandler(l, a) PROVE LoopInv'
  <2>1. /\ lpc[l] = "handle" /\ cur[l] = Idle /\ a.c # NoConn
        /\ UNCHANGED <<lpc, batch, pinned>>
        /\ active'[l] = active[l] \ {a} /\ cur'[l] \in {a, Idle}
        /\ \A k \in Loops \ {l} : active'[k] = active[k] /\ cur'[k] = cur[k]
    BY <1>4 DEF StartHandler, TypeOK
  <2>2. \A b \in active'[l] : b.c # a.c
    BY <2>1 DEF LoopInv
  <2>3. \A b \in active'[l] : b.c # NoConn => b.c # cur'[l].c
    BY <1>i, <2>1, <2>2
  <2> QED BY <1>i, <2>1, <2>3 DEF LoopInv
<1>5. ASSUME NEW l \in Loops, OnHup(l) \/ OnReadClosed(l) \/ OnMessage(l) \/ OnWrite(l)
      PROVE  LoopInv'
  <2>1. cur[l].c \in Conns /\ cur[l] # Idle /\ lpc[l] = "handle"
    BY <1>5, InHand DEF OnHup, OnReadClosed, OnMessage, OnWrite
  <2>2. PICK e : Took(l, e)
    BY <1>5 DEF OnHup, OnReadClosed, OnMessage, OnWrite
  <2>3. cur'[l].c = cur[l].c /\ \A k \in Loops \ {l} : cur'[k] = cur[k]
    BY <2>2 DEF Took, TypeOK, Event
  <2>4. UNCHANGED <<lpc, active, batch, pinned>>
    BY <1>5 DEF OnHup, OnReadClosed, OnMessage, OnWrite
  <2>5. cur[l].c # NoConn
    BY <2>1, ServerAssumption DEF ServerAssumption
  <2> QED BY <2>1, <2>3, <2>4, <2>5 DEF LoopInv
<1>6. ASSUME NEW l \in Loops, EndHandler(l) PROVE LoopInv'
  <2>1. /\ cur'[l] = Idle /\ UNCHANGED <<lpc, active, batch, pinned>>
        /\ \A k \in Loops \ {l} : cur'[k] = cur[k]
    BY <1>6 DEF EndHandler, TypeOK
  <2> QED BY <1>i, <2>1 DEF LoopInv
<1>7. ASSUME NEW l \in Loops, TakeBatch(l) PROVE LoopInv'
  <2>1. /\ lpc[l] = "handle" /\ cur[l] = Idle /\ active[l] = {} /\ lpc'[l] = "run"
        /\ UNCHANGED <<active, cur, pinned>>
        /\ \A k \in Loops \ {l} : lpc'[k] = lpc[k] /\ batch'[k] = batch[k]
    BY <1>7 DEF TakeBatch, TypeOK
  <2> QED BY <2>1 DEF LoopInv
<1>8. ASSUME NEW l \in Loops, NEW c, NEW op, Running(l, op, c) PROVE LoopInv'
  <2>1. /\ lpc[l] = "run" /\ UNCHANGED <<lpc, active, cur>>
        /\ \A k \in Loops \ {l} : batch'[k] = batch[k] /\ pinned'[k] = pinned[k]
    BY <1>8 DEF Running, TypeOK
  <2> QED BY <2>1 DEF LoopInv
<1>9. ASSUME NEW l \in Loops, EndBatch(l) PROVE LoopInv'
  <2>1. /\ lpc[l] = "run" /\ lpc'[l] \in {"poll", "stopped"} /\ batch[l] = <<>>
        /\ pinned'[l] = {} /\ UNCHANGED <<active, cur, batch>>
        /\ \A k \in Loops \ {l} : lpc'[k] = lpc[k] /\ pinned'[k] = pinned[k]
    BY <1>9 DEF EndBatch, TypeOK
  <2> QED BY <2>1 DEF LoopInv
<1>10. ASSUME BeginStop \/ EndStop PROVE LoopInv'
  <2>1. /\ lpc[Base] \in {"poll", "destroying"} /\ lpc'[Base] \in {"destroying", "stopped"}
        /\ UNCHANGED <<active, cur, batch, pinned>>
        /\ \A k \in Loops \ {Base} : lpc'[k] = lpc[k]
    BY <1>10, <1>i DEF BeginStop, EndStop, TypeOK
  <2> QED BY <1>i, <2>1 DEF LoopInv
<1>11. ASSUME NEW u \in Users, UserStep(u) PROVE UNCHANGED <<lpc, active, cur, batch, pinned>>
  BY <1>11 DEF UserStep, UserCall, UserSetState, UserPost, loopVars
<1>12. ASSUME (\E c \in Conns : PeerCloses(c) \/ Release(c) \/ DestroyItem(c)) \/ UNCHANGED vars
       PROVE  UNCHANGED <<lpc, active, cur, batch, pinned>>
  BY <1>12 DEF PeerCloses, Release, DestroyItem, vars, loopVars
<1>13. ASSUME NEW l \in Loops, RunFunctor(l) PROVE \E c \in Conns : \E op : Running(l, op, c)
  BY <1>13 DEF RunFunctor, RunConnectEstablished, RunConnectDestroyed, RunRemoveConnection,
               RunRaw, RunSendFileEnds, RunSendFileAgain
<1>14. ASSUME NEW l \in Loops, Handle(l) PROVE LoopInv'
  BY <1>4, <1>5, <1>6, <1>14 DEF Handle
<1> HIDE DEF Inv
<1> QED
  BY <1>1, <1>2, <1>3, <1>7, <1>8, <1>9, <1>10, <1>11, <1>12, <1>13, <1>14
  DEF Next, LoopStep, Accept

\* Where an event that a loop has after a step comes from.
LEMMA EventSource ==
    ASSUME Inv, [Next]_vars, NEW l \in Loops, NEW e \in active'[l] \union {cur'[l]},
           e.c # NoConn
    PROVE  \/ e \in active[l]
           \/ e = cur'[l] /\ cur[l].c = e.c /\ e.re \subseteq cur[l].re
           \/ Poll(l) /\ e \in active'[l]
<1> DEFINE G == \/ e \in active[l]
                \/ e = cur'[l] /\ cur[l].c = e.c /\ e.re \subseteq cur[l].re
                \/ Poll(l) /\ e \in active'[l]
<1> SUFFICES G
  OBVIOUS
<1> USE DEF Inv
<1>i. Base \in Loops /\ Idle.c = NoConn
  BY DEF Loops, Idle
<1>1. CASE active'[l] \subseteq active[l] /\ cur'[l] = cur[l]
  BY <1>1
<1>2. ASSUME NEW c \in Conns, NEW k \in ioLoops, NewConnection(c, k) PROVE G
  <2>1. active'[l] \subseteq active[l] /\ cur'[l] = cur[l]
    BY <1>2, <1>i DEF NewConnection, TypeOK
  <2> QED BY <1>1, <2>1
<1>3. ASSUME NEW k \in Loops, Poll(k) PROVE G
  <2>1. UNCHANGED cur /\ (k # l => active'[l] = active[l])
    BY <1>3 DEF Poll, TypeOK
  <2> QED BY <1>3, <2>1
<1>4. ASSUME NEW k \in Loops, NEW a \in active[k], StartHandler(k, a) PROVE G
  <2>1. active'[l] \subseteq active[l] /\ (cur'[l] = cur[l] \/ cur'[l] \in active[l])
    BY <1>4 DEF StartHandler, TypeOK
  <2> QED BY <2>1
<1>5. ASSUME NEW k \in Loops, OnHup(k) \/ OnReadClosed(k) \/ OnMessage(k) \/ OnWrite(k) PROVE G
  <2>1. PICK x : Took(k, x)
    BY <1>5 DEF OnHup, OnReadClosed, OnMessage, OnWrite
  <2>2. cur'[l].c = cur[l].c /\ cur'[l].re \subseteq cur[l].re
    BY <2>1 DEF Took, TypeOK, Event
  <2>3. UNCHANGED active
    BY <1>5 DEF OnHup, OnReadClosed, OnMessage, OnWrite
  <2> QED BY <2>2, <2>3
<1>6. ASSUME NEW k \in Loops, EndHandler(k) PROVE G
  <2>1. UNCHANGED active /\ (cur'[l] = cur[l] \/ cur'[l] = Idle)
    BY <1>6 DEF EndHandler, TypeOK
  <2> QED BY <1>i, <2>1
<1>7. ASSUME NEW k \in Loops, TakeBatch(k) \/ EndBatch(k) \/ RunFunctor(k)
      PROVE  UNCHANGED <<active, cur>>
  BY <1>7
  DEF TakeBatch, EndBatch, RunFunctor, RunConnectEstablished, RunConnectDestroyed,
      RunRemoveConnection, RunRaw, RunSendFileEnds, RunSendFileAgain, Running
<1>8. ASSUME NEW u \in Users, UserStep(u) PROVE UNCHANGED <<active, cur>>
  BY <1>8 DEF UserStep, UserCall, UserSetState, UserPost, loopVars
<1>9. ASSUME (\E c \in Conns : PeerCloses(c) \/ Release(c) \/ DestroyItem(c))
               \/ BeginStop \/ EndStop \/ UNCHANGED vars
      PROVE  UNCHANGED <<active, cur>>
  BY <1>9 DEF PeerCloses, Release, DestroyItem, BeginStop, EndStop, vars, loopVars
<1>10. ASSUME NEW k \in Loops, Handle(k) PROVE G
  BY <1>4, <1>5, <1>6, <1>10 DEF Handle
<1> HIDE DEF Inv, G
<1>11. CASE UNCHANGED <<active, cur>>
  BY <1>1, <1>11
<1> QED
  BY <1>2, <1>3, <1>7, <1>8, <1>9, <1>10, <1>11 DEF Next, LoopStep, Accept

LEMMA PollEvents ==
    ASSUME Inv, NEW l \in Loops, Poll(l), NEW e \in active'[l], e.c # NoConn
    PROVE  /\ e.c \in Conns /\ ioLoop[e.c] = l /\ ~New(e.c)
           /\ ~({"hup", "read"} \subseteq e.re)
           /\ e.c \in late \/ downs[e.c] = 0
<1>1. PICK f \in [Watched(l) -> SUBSET (Events \union {"hup"})],
           accepts \in SUBSET {AcceptEvent} :
        /\ active' = [active EXCEPT ![l] =
                        {[c |-> c, re |-> f[c]] : c \in {d \in Watched(l) : f[d] # {}}}
                          \union accepts]
        /\ \A c \in Watched(l) : f[c] \in Reports(c)
  BY DEF Poll
<1>2. e \in {[c |-> c, re |-> f[c]] : c \in {d \in Watched(l) : f[d] # {}}} \union accepts
  BY <1>1 DEF Inv, TypeOK
<1>3. AcceptEvent.c = NoConn
  BY DEF AcceptEvent
<1>4. PICK c \in Watched(l) : e = [c |-> c, re |-> f[c]]
  BY <1>2, <1>3
<1>5. e.c = c /\ e.re \in Reports(c)
  BY <1>1, <1>4
<1>6. c \in Conns /\ ioLoop[c] = l /\ channel[c].epoll # NotWatched
  BY DEF Watched
<1>7. ~New(c)
  BY <1>6 DEF Inv, LifeInv, NewChannel
<1>8. c \in late \/ downs[c] = 0
  <2>1. downs[c] = 0 \/ downs[c] > 0
    BY <1>6 DEF Inv, TypeOK
  <2>2. Deleted.epoll = NotWatched
    BY DEF Deleted
  <2> QED BY <1>6, <2>1, <2>2 DEF Inv, ChannelInv
<1>9. ~({"hup", "read"} \subseteq e.re)
  <2>1. channel[c].epoll \subseteq Events
    BY <1>6 DEF Inv, TypeOK, ChannelType
  <2> QED BY <1>5, <2>1 DEF Reports, Events
<1> QED BY <1>5, <1>6, <1>7, <1>8, <1>9

LEMMA EventStep ==
    ASSUME Inv, [Next]_vars
    PROVE  EventInv'
<1> SUFFICES ASSUME NEW l \in Loops, NEW e \in active'[l] \union {cur'[l]}, e.c # NoConn
             PROVE  /\ ioLoop'[e.c] = l /\ ~New(e.c)'
                    /\ ~({"hup", "read"} \subseteq e.re)
                    /\ e \in active'[l] \/ ~(e.re \subseteq {"write"})
                         => e.c \in late' \/ downs'[e.c] = 0
  BY DEF EventInv
<1>t. TypeOK /\ TypeOK' /\ LoopInv'
  BY TypeStep, LoopStays DEF Inv
<1>1. e.c \in Conns
  BY <1>t DEF TypeOK, Event
<1>2. ConnStep(e.c) /\ late \subseteq late'
  BY <1>1, ConnSteps, Lasts DEF Lasting
<1>3. downs'[e.c] = downs[e.c] \/ GoesDown(e.c)
  BY <1>2 DEF ConnStep, Unmoved, Made, Established, Disconnecting, Writing, Written
<1>4. ~New(e.c) => ~New(e.c)' /\ ioLoop'[e.c] = ioLoop[e.c]
  BY <1>1, OnlyForward DEF New, Created
<1>5. CASE Poll(l) /\ e \in active'[l]
  <2>1. /\ ioLoop[e.c] = l /\ ~New(e.c)
        /\ ~({"hup", "read"} \subseteq e.re)
        /\ e.c \in late \/ downs[e.c] = 0
    BY <1>5, PollEvents
  <2>2. UNCHANGED downs
    BY <1>5 DEF Poll, historyVars
  <2> QED BY <1>2, <1>4, <2>1, <2>2
<1>6. CASE e \in active[l]
  <2>1. /\ ioLoop[e.c] = l /\ ~New(e.c)
        /\ ~({"hup", "read"} \subseteq e.re)
        /\ e.c \in late \/ downs[e.c] = 0
    BY <1>6 DEF Inv, EventInv
  <2>2. lpc[l] = "handle" /\ cur[l].c # e.c
    BY <1>6 DEF Inv, LoopInv
  <2>3. ~GoesDown(e.c)
    BY <2>1, <2>2 DEF GoesDown
  <2> QED BY <1>2, <1>3, <1>4, <2>1, <2>3
<1>7. CASE e = cur'[l] /\ cur[l].c = e.c /\ e.re \subseteq cur[l].re
  <2>1. /\ ioLoop[e.c] = l /\ ~New(e.c)
        /\ ~({"hup", "read"} \subseteq e.re)
        /\ ~(e.re \subseteq {"write"}) => e.c \in late \/ downs[e.c] = 0
    BY <1>7 DEF Inv, EventInv
  <2>2. lpc[l] = "handle"
    BY <1>7 DEF Inv, LoopInv, Idle
  <2>3. e \notin active'[l]
    BY <1>t, <1>7 DEF LoopInv
  <2>4. GoesDown(e.c) => e.re \subseteq {"write"}
    BY <1>7, <2>1, <2>2 DEF GoesDown
  <2> QED BY <1>2, <1>3, <1>4, <2>1, <2>3, <2>4
<1> QED BY <1>5, <1>6, <1>7, EventSource

\* A functor that waits after a step waited before it or was queued by it.
LEMMA WaitingSource ==
    ASSUME Inv, [Next]_vars, NEW l \in Loops, NEW f \in Waiting(l)'
    PROVE  f \in Waiting(l) \/ Posted(l, f)
<1>1. /\ queue[l] \in Seq(Functor) /\ batch[l] \in Seq(Functor)
      /\ f \in Range(batch'[l]) \union Range(queue'[l])
  BY DEF Inv, TypeOK, Waiting
<1>2. QueueStep(l)
  BY QueueSteps
<1>3. ASSUME Adds(l), f \in Range(queue'[l])
      PROVE  f \in Range(queue[l]) \/ Posted(l, f)
  <2>1. ASSUME NEW g \in Functor, Posted(l, g), queue'[l] = Append(queue[l], g)
        PROVE  f \in Range(queue[l]) \/ Posted(l, f)
    <3>1. Range(queue'[l]) = Range(queue[l]) \union {g}
      BY <1>1, <2>1, RangeAppend
    <3> QED BY <1>3, <2>1, <3>1
  <2>2. CASE queue'[l] = queue[l]
    BY <1>3, <2>2
  <2> QED BY <1>3, <2>1, <2>2 DEF Adds
<1>4. CASE batch'[l] = batch[l] /\ Adds(l)
  BY <1>1, <1>3, <1>4 DEF Waiting
<1>5. CASE batch'[l] = queue[l] /\ queue'[l] = <<>>
  BY <1>1, <1>5, RangeEmpty DEF Waiting
<1>6. CASE batch[l] # <<>> /\ batch'[l] = Tail(batch[l]) /\ Adds(l)
  BY <1>1, <1>3, <1>6, RangeTail DEF Waiting
<1>7. CASE batch'[l] = batch[l] /\ queue'[l] = <<>>
  BY <1>1, <1>7, RangeEmpty DEF Waiting
<1> QED BY <1>2, <1>4, <1>5, <1>6, <1>7 DEF QueueStep

\* The functor that establishes a connection is gone once it has been run.
LEMMA EstIsLast ==
    ASSUME Inv, [Next]_vars, NEW l \in Loops, NEW c \in Conns,
           Running(l, "connectEstablished", c)
    PROVE  Est(c) \notin Waiting(l)'
<1>1. /\ queue[l] \in Seq(Functor) /\ batch[l] \in Seq(Functor)
      /\ batch'[l] = Tail(batch[l]) /\ batch[l] # <<>> /\ Head(batch[l]) = Est(c)
      /\ lpc[l] = "run"
  BY DEF Inv, TypeOK, Running, Est
<1>2. Est(c) \in Range(batch[l]) /\ Est(c) \notin Range(queue[l])
  BY <1>1, RangeTail DEF Inv, OnceInv
<1>3. Est(c) \notin Range(batch'[l])
  BY <1>1, SingleTail DEF Inv, OnceInv
<1>4. Created(c)
  BY RunsWaiting DEF Strong
<1>5. Adds(l)
  BY <1>1, QueueSteps DEF QueueStep
<1>6. Est(c) \notin Range(queue'[l])
  <2>1. ~Posted(l, Est(c))
    BY <1>4 DEF Posted, Est, Raw
  <2>2. ASSUME NEW g \in Functor, Posted(l, g), queue'[l] = Append(queue[l], g)
        PROVE  Est(c) \notin Range(queue'[l])
    <3>1. Range(queue'[l]) = Range(queue[l]) \union {g}
      BY <1>1, <2>2, RangeAppend
    <3> QED BY <1>2, <2>1, <2>2, <3>1
  <2>3. CASE queue'[l] = queue[l]
    BY <1>2, <2>3
  <2> QED BY <1>5, <2>2, <2>3 DEF Adds
<1> QED BY <1>3, <1>6 DEF Waiting

LEMMA FunctorStep ==
    ASSUME Inv, [Next]_vars
    PROVE  FunctorInv'
<1> SUFFICES ASSUME NEW l \in Loops, NEW f \in Waiting(l)'
             PROVE  /\ l = IF f.op = "removeConnectionInLoop" THEN Base ELSE ioLoop'[f.c]
                    /\ Created(f.c)'
                    /\ New(f.c)' => f.op \in {"connectEstablished", "connectDestroyed"}
                    /\ f.op = "connectEstablished" => New(f.c)'
                    /\ f.op = "removeConnectionInLoop" => downs'[f.c] > 0
  BY DEF FunctorInv
<1>1. f \in Functor /\ f.c \in Conns /\ f.op \in Strong \union Raw
  <2>1. TypeOK'
    BY TypeStep DEF Inv
  <2>2. queue'[l] \in Seq(Functor) /\ batch'[l] \in Seq(Functor)
    BY <2>1 DEF TypeOK
  <2>3. f \in Functor
    BY <2>2 DEF Waiting, Range
  <2> QED BY <2>3 DEF Functor
<1>2. /\ Created(f.c) => Created(f.c)' /\ ioLoop'[f.c] = ioLoop[f.c]
      /\ ~New(f.c) => ~New(f.c)'
      /\ downs[f.c] > 0 => downs'[f.c] > 0
  BY <1>1, OnlyForward
<1>3. CASE f \in Waiting(l)
  <2>1. /\ l = IF f.op = "removeConnectionInLoop" THEN Base ELSE ioLoop[f.c]
        /\ Created(f.c)
        /\ New(f.c) => f.op \in {"connectEstablished", "connectDestroyed"}
        /\ f.op = "connectEstablished" => New(f.c)
        /\ f.op = "removeConnectionInLoop" => downs[f.c] > 0
    BY <1>3 DEF Inv, FunctorInv
  <2>2. ASSUME f.op = "connectEstablished" PROVE New(f.c)'
    <3>1. f = Est(f.c) /\ l = ioLoop[f.c] /\ New(f.c)
      BY <1>1, <2>1, <2>2 DEF Functor, Est
    <3>2. ~Established(f.c)
      <4> SUFFICES ASSUME NEW k \in Loops, Running(k, "connectEstablished", f.c) PROVE FALSE
        BY <2>1 DEF Established
      <4>1. k = l
        BY <1>1, <3>1, RunsWaiting DEF Strong
      <4> QED BY <1>1, <3>1, <4>1, EstIsLast
    <3>3. ConnStep(f.c)
      BY <1>1, ConnSteps
    <3> QED BY <3>1, <3>2, <3>3
            DEF ConnStep, Unmoved, Made, GoesDown, Disconnecting, Writing, Written, New
  <2> QED BY <1>2, <2>1, <2>2
<1>4. CASE Posted(l, f)
  <2>1. CASE /\ f.op = "connectEstablished"
             /\ ~Created(f.c) /\ state'[f.c] = "kConnecting" /\ ioLoop'[f.c] = l
    BY <2>1 DEF Created, New
  <2>2. CASE f.op = "connectDestroyed" /\ Created(f.c) /\ ioLoop[f.c] = l
    BY <1>2, <2>2
  <2>3. CASE f.op = "removeConnectionInLoop" /\ ~New(f.c) /\ l = Base /\ downs'[f.c] > 0
    BY <1>2, <2>3 DEF New, Created
  <2>4. CASE f.op \in Raw \union {"sendFileInLoop"} /\ ~New(f.c) /\ ioLoop[f.c] = l
    BY <1>2, <2>4 DEF New, Created, Raw
  <2> QED BY <1>4, <2>1, <2>2, <2>3, <2>4 DEF Posted
<1> QED BY <1>3, <1>4, WaitingSource

LEMMA OnceStep ==
    ASSUME Inv, [Next]_vars
    PROVE  OnceInv'
<1> SUFFICES ASSUME NEW l \in Loops, NEW c \in Conns
             PROVE  /\ Single(queue'[l], Est(c)) /\ Single(batch'[l], Est(c))
                    /\ ~(Est(c) \in Range(queue'[l]) /\ Est(c) \in Range(batch'[l]))
  BY DEF OnceInv
<1>1. /\ Single(queue[l], Est(c)) /\ Single(batch[l], Est(c))
      /\ ~(Est(c) \in Range(queue[l]) /\ Est(c) \in Range(batch[l]))
      /\ queue[l] \in Seq(Functor) /\ batch[l] \in Seq(Functor)
  BY DEF Inv, OnceInv, TypeOK
<1>2. QueueStep(l)
  BY QueueSteps
<1>3. ASSUME Adds(l)
      PROVE  /\ Single(queue'[l], Est(c))
             /\ Est(c) \in Range(queue'[l]) =>
                  Est(c) \in Range(queue[l]) \/ Est(c) \notin Range(batch[l])
  <2>1. CASE queue'[l] = queue[l]
    BY <1>1, <2>1
  <2>2. ASSUME NEW f \in Functor, Posted(l, f), queue'[l] = Append(queue[l], f)
        PROVE  /\ Single(queue'[l], Est(c))
               /\ Est(c) \in Range(queue'[l]) =>
                    Est(c) \in Range(queue[l]) \/ Est(c) \notin Range(batch[l])
    <3>1. f = Est(c) => Est(c) \notin Waiting(l)
      BY <2>2 DEF Posted, Est, Inv, FunctorInv, Raw
    <3> QED BY <1>1, <2>2, <3>1, SingleAppend, RangeAppend DEF Waiting
  <2> QED BY <1>3, <2>1, <2>2 DEF Adds
<1>4. CASE batch'[l] = batch[l] /\ Adds(l)
  BY <1>1, <1>3, <1>4
<1>5. CASE batch'[l] = queue[l] /\ queue'[l] = <<>>
  BY <1>1, <1>5, RangeEmpty DEF Single
<1>6. CASE batch[l] # <<>> /\ batch'[l] = Tail(batch[l]) /\ Adds(l)
  BY <1>1, <1>3, <1>6, SingleTail, RangeTail
<1>7. CASE batch'[l] = batch[l] /\ queue'[l] = <<>>
  BY <1>1, <1>7, RangeEmpty DEF Single
<1> QED BY <1>2, <1>4, <1>5, <1>6, <1>7 DEF QueueStep

\* When the server is gone and the connection is not in the map, what is queued for it
\* does not move before connectDestroyed.
LEMMA OrderStep ==
    ASSUME Inv, [Next]_vars
    PROVE  OrderInv'
<1> SUFFICES ASSUME NEW c \in Conns, Created(c)', downs'[c] = 0, c \notin connections',
                    ioLoop'[c] # Base
             PROVE  /\ Followed(queue'[ioLoop'[c]], c)
                    /\ \/ Des(c) \in Range(queue'[ioLoop'[c]])
                       \/ Followed(batch'[ioLoop'[c]], c)
  BY DEF OrderInv
<1> DEFINE l == ioLoop[c]
<1>1. Created(c) /\ downs[c] = 0 /\ ioLoop'[c] = l /\ l # Base
  BY Enters, OnlyForward
<1>2. /\ l \in Loops /\ Des(c) \in Functor /\ Followed(<<>>, c)
      /\ queue \in [Loops -> Seq(Functor)]
      /\ queue[l] \in Seq(Functor) /\ batch[l] \in Seq(Functor)
  BY ServerFunctors DEF Inv, TypeOK, Followed
<1>3. CASE c \in connections
  <2>1. DestroyItem(c)
    BY <1>3, Leaves
  <2>2. queue' = Queued(queue, l, Des(c))
    BY <1>1, <2>1 DEF DestroyItem, Des
  <2>3. queue'[l] = Append(queue[l], Des(c))
    BY <1>2, <2>2, QueuedType
  <2> QED BY <1>1, <1>2, <2>3, FollowedAppend, RangeAppend
<1>4. CASE c \notin connections
  <2>1. /\ Followed(queue[l], c)
        /\ Des(c) \in Range(queue[l]) \/ Followed(batch[l], c)
    BY <1>1, <1>4 DEF Inv, OrderInv
  <2>2. ~ServerUp
    BY <1>1, <1>4 DEF Inv, MapInv
  <2>3. ASSUME Adds(l)
        PROVE  /\ Followed(queue'[l], c)
               /\ Range(queue[l]) \subseteq Range(queue'[l])
    <3>1. ASSUME NEW f \in Functor, Posted(l, f), queue'[l] = Append(queue[l], f)
          PROVE  /\ Followed(queue'[l], c)
                 /\ Range(queue[l]) \subseteq Range(queue'[l])
      <4>1. f.op \notin Raw
        BY <2>2, <3>1 DEF Posted, Raw
      <4> QED BY <1>2, <2>1, <3>1, <4>1, FollowedAppend, RangeAppend
    <3> QED BY <2>1, <2>3, <3>1 DEF Adds
  <2>4. QueueStep(l)
    BY <1>2, QueueSteps
  <2>5. CASE batch'[l] = batch[l] /\ Adds(l)
    BY <1>1, <2>1, <2>3, <2>5
  <2>6. CASE batch'[l] = queue[l] /\ queue'[l] = <<>>
    BY <1>1, <1>2, <2>1, <2>6
  <2>7. CASE batch[l] # <<>> /\ batch'[l] = Tail(batch[l]) /\ Adds(l)
    BY <1>1, <1>2, <2>1, <2>3, <2>7, FollowedTail
  <2>8. CASE batch[l] = <<>> /\ batch'[l] = batch[l] /\ queue'[l] = <<>>
    BY <1>1, <1>2, <2>8
  <2> QED BY <2>4, <2>5, <2>6, <2>7, <2>8 DEF QueueStep
<1> QED BY <1>3, <1>4

LEMMA BoundByDes ==
    ASSUME NEW s \in Seq(Functor), NEW c \in Conns, Des(c) \in Range(s)
    PROVE  Bound(s, c)
<1>1. PICK i \in DOMAIN s : s[i] = Des(c)
  BY DEF Range
<1>2. i \in 1..Len(s)
  OBVIOUS
<1> QED BY <1>1, <1>2 DEF Bound, Des, Strong

\* A functor bound to a raw pointer finds a connection that is up alive.
LEMMA UpIsAlive ==
    ASSUME Inv, NEW l \in Loops, NEW c \in Conns, NEW op \in Raw, Running(l, op, c),
           downs[c] = 0
    PROVE  Alive(c)
<1>1. lpc[l] = "run" /\ Created(c) /\ ioLoop[c] = l
  BY RunsWaiting DEF Raw
<1>2. queue[l] \in Seq(Functor) /\ batch[l] \in Seq(Functor)
  BY DEF Inv, TypeOK
<1>3. CASE c \in connections
  BY <1>1, <1>3 DEF Alive
<1>4. CASE c \notin connections
  <2>1. l # Base
    BY <1>1, <1>4 DEF Inv, MapInv, ServerUp
  <2>2. Des(c) \in Range(queue[l]) \/ Followed(batch[l], c)
    BY <1>1, <1>4, <2>1 DEF Inv, OrderInv
  <2>3. CASE Des(c) \in Range(queue[l])
    BY <1>1, <1>2, <2>3, BoundByDes DEF Alive
  <2>4. CASE Followed(batch[l], c)
    <3>1. batch[l] # <<>> /\ Head(batch[l]) = [op |-> op, c |-> c]
      BY DEF Running
    <3>2. Des(c) \in Range(Tail(batch[l]))
      BY <1>2, <2>4, <3>1, FollowedTail
    <3>3. Des(c) \in Range(batch[l])
      BY <1>2, <3>1, <3>2, RangeTail
    <3> QED BY <1>1, <1>2, <3>3, BoundByDes DEF Alive
  <2> QED BY <2>2, <2>3, <2>4
<1> QED BY <1>3, <1>4

LEMMA BatchStep ==
    ASSUME Inv, [Next]_vars, NEW l \in Loops, lpc[l] = "run", batch'[l] # batch[l]
    PROVE  RunFunctor(l)
<1> USE DEF Inv
<1>1. ASSUME UNCHANGED batch PROVE FALSE
  BY <1>1
<1>2. ASSUME NEW k \in Loops, TakeBatch(k) PROVE FALSE
  BY <1>2 DEF TakeBatch, TypeOK
<1>3. ASSUME NEW k \in Loops, RunFunctor(k) PROVE k = l
  <2>1. PICK c \in Conns : \E op : Running(k, op, c)
    BY <1>3
    DEF RunFunctor, RunConnectEstablished, RunConnectDestroyed, RunRemoveConnection, RunRaw,
        RunSendFileEnds, RunSendFileAgain
  <2> QED BY <2>1 DEF Running, TypeOK
<1>4. ASSUME NEW k \in Loops, Poll(k) \/ Handle(k) \/ EndBatch(k) PROVE UNCHANGED batch
  BY <1>4 DEF Poll, Handle, StartHandler, OnHup, OnReadClosed, OnMessage, OnWrite, EndHandler,
              EndBatch
<1>5. ASSUME NEW u \in Users, UserStep(u) PROVE UNCHANGED batch
  BY <1>5 DEF UserStep, UserCall, UserSetState, UserPost, loopVars
<1>6. ASSUME (\E c \in Conns : PeerCloses(c) \/ Release(c) \/ DestroyItem(c))
               \/ (\E c \in Conns, k \in ioLoops : NewConnection(c, k))
               \/ BeginStop \/ EndStop \/ UNCHANGED vars
      PROVE  UNCHANGED batch
  BY <1>6 DEF PeerCloses, Release, DestroyItem, NewConnection, BeginStop, EndStop, vars,
              loopVars
<1> HIDE DEF Inv
<1> QED BY <1>1, <1>2, <1>3, <1>4, <1>5, <1>6 DEF Next, LoopStep, Accept

\* A shutdown() on its way shuts the write side or leaves it to handleWrite().
LEMMA ShutdownRuns ==
    ASSUME Inv, [Next]_vars, NEW l \in Loops, NEW c \in Conns, lpc[l] = "run",
           batch[l] # <<>>, Head(batch[l]) = [op |-> "shutdownInLoop", c |-> c],
           batch'[l] = Tail(batch[l]), downs[c] = 0
    PROVE  wrShut'[c] \/ IsWriting(channel'[c])
<1>1. batch'[l] # batch[l]
  <2>1. batch[l] \in Seq(Functor)
    BY DEF Inv, TypeOK
  <2>2. \A s \in Seq(Functor) : s # <<>> => Tail(s) # s
    <3> TAKE s \in Seq(Functor)
    <3> HAVE s # <<>>
    <3>1. DOMAIN s = 1..Len(s) /\ DOMAIN Tail(s) = 1..(Len(s) - 1) /\ Len(s) \in Nat \ {0}
      OBVIOUS
    <3>2. Len(s) \in DOMAIN s /\ Len(s) \notin DOMAIN Tail(s)
      BY <3>1
    <3> QED BY <3>2
  <2> QED BY <2>1, <2>2
<1>2. RunFunctor(l)
  BY <1>1, BatchStep
<1>3. RunRaw(l, "shutdownInLoop", c)
  <2>1. ASSUME NEW d, NEW op, Running(l, op, d) PROVE op = "shutdownInLoop" /\ d = c
    BY <2>1 DEF Running
  <2>2. PICK d \in Conns : \E op \in Raw : RunRaw(l, op, d)
    BY <1>2, <2>1
    DEF RunFunctor, RunConnectEstablished, RunConnectDestroyed, RunRemoveConnection,
        RunSendFileEnds, RunSendFileAgain
  <2>3. PICK op \in Raw : RunRaw(l, op, d)
    BY <2>2
  <2>4. op = "shutdownInLoop" /\ d = c
    BY <2>1, <2>3 DEF RunRaw
  <2> QED BY <2>3, <2>4
<1>4. Alive(c)
  BY <1>3, UpIsAlive DEF RunRaw
<1>5. ShutdownInLoop(c)
  BY <1>3, <1>4 DEF RunRaw
<1> QED BY <1>5 DEF ShutdownInLoop, Inv, TypeOK

LEMMA WaitsIsWaiting ==
    ASSUME NEW f
    PROVE  /\ Waits(f) <=> f \in Waiting(ioLoop[f.c])
           /\ Waits(f)' <=> f \in Range(batch'[ioLoop'[f.c]]) \union Range(queue'[ioLoop'[f.c]])
BY DEF Waits, Waiting, Range

LEMMA UserPosts ==
    ASSUME Inv, [Next]_vars, NEW u \in Users, NEW f \in Functor, upc[u] = f, f.op \in Raw
    PROVE  upc'[u] = f \/ f \in Range(queue'[ioLoop[f.c]])
<1> USE DEF Inv
<1>1. ASSUME NEW v \in Users, UserStep(v) PROVE upc'[u] = f \/ f \in Range(queue'[ioLoop[f.c]])
  <2>1. CASE v # u
    <3>1. upc'[u] = upc[u]
      BY <1>1, <2>1 DEF UserStep, UserCall, UserSetState, UserPost, TypeOK
    <3> QED BY <3>1
  <2>2. CASE v = u
    <3>1. UserPost(u)
      BY <1>1, <2>2 DEF UserStep, UserCall, UserSetState, Raw
    <3>2. f.c \in Conns /\ ioLoop[f.c] \in Loops /\ queue \in [Loops -> Seq(Functor)]
      BY DEF Functor, TypeOK
    <3>3. queue'[ioLoop[f.c]] = Append(queue[ioLoop[f.c]], f)
      BY <3>1, <3>2, QueuedType DEF UserPost
    <3> QED BY <3>2, <3>3, RangeAppend
  <2> QED BY <2>1, <2>2
<1>2. ASSUME NEW l \in Loops, Poll(l) \/ Handle(l) \/ TakeBatch(l) \/ RunFunctor(l) \/ EndBatch(l)
      PROVE  UNCHANGED upc
  BY <1>2
  DEF Poll, Handle, StartHandler, OnHup, OnReadClosed, OnMessage, OnWrite, EndHandler,
      TakeBatch, EndBatch, RunFunctor, RunConnectEstablished, RunConnectDestroyed,
      RunRemoveConnection, RunRaw, RunSendFileEnds, RunSendFileAgain, Running, userVars
<1>3. ASSUME (\E c \in Conns : PeerCloses(c) \/ Release(c) \/ DestroyItem(c))
               \/ (\E c \in Conns, k \in ioLoops : NewConnection(c, k))
               \/ BeginStop \/ EndStop \/ UNCHANGED vars
      PROVE  UNCHANGED upc
  BY <1>3 DEF PeerCloses, Release, DestroyItem, NewConnection, BeginStop, EndStop, vars,
              userVars
<1> HIDE DEF Inv
<1> QED BY <1>1, <1>2, <1>3 DEF Next, LoopStep, Accept

LEMMA ShutdownStep ==
    ASSUME Inv, [Next]_vars
    PROVE  ShutdownIsPending'
<1> SUFFICES ASSUME NEW c \in Conns, state'[c] = "kDisconnecting", ~(downs'[c] > 0)
             PROVE  \/ wrShut'[c] \/ IsWriting(channel'[c]) \/ lpc'[ioLoop'[c]] = "stopped"
                    \/ \E u \in Users : upc'[u] = [op |-> "shutdownInLoop", c |-> c]
                    \/ Waits([op |-> "shutdownInLoop", c |-> c])'
  BY DEF ShutdownIsPending, Down, Waits
<1>0. downs'[c] = 0
  BY OnlyForward
<1> DEFINE f == [op |-> "shutdownInLoop", c |-> c]
           l == ioLoop[c]
           G == \/ wrShut'[c] \/ IsWriting(channel'[c]) \/ lpc'[l] = "stopped"
                \/ \E u \in Users : upc'[u] = f
                \/ f \in Range(batch'[l]) \union Range(queue'[l])
<1>1. ConnStep(c) /\ Lasting
  BY ConnSteps, Lasts
<1>2. ~New(c) /\ downs[c] = 0 /\ (wrShut[c] => wrShut'[c])
  <2>1. ~New(c)
    BY <1>1
    DEF ConnStep, Unmoved, Made, Established, GoesDown, Disconnecting, Writing, Written, New
  <2> QED BY <1>0, <2>1, OnlyForward
<1>3. ioLoop'[c] = l /\ l \in Loops /\ f \in Functor /\ f.op \in Raw /\ f.c = c
  BY <1>2, OnlyForward DEF New, Created, Inv, TypeOK, Functor, Raw
<1>4. SUFFICES G
  BY <1>3, WaitsIsWaiting
<1>5. CASE Disconnecting(c)
  BY <1>5 DEF Disconnecting
<1>6. CASE Written(c)
  BY <1>6 DEF Written
<1>7. CASE Unmoved(c) \/ Writing(c)
  <2>1. state[c] = "kDisconnecting" /\ (IsWriting(channel[c]) => IsWriting(channel'[c]))
    BY <1>7 DEF Unmoved, Writing
  <2>2. \/ wrShut[c] \/ IsWriting(channel[c]) \/ lpc[l] = "stopped"
        \/ \E u \in Users : upc[u] = f
        \/ f \in Waiting(l)
    BY <1>2, <1>3, <2>1, WaitsIsWaiting DEF Inv, ShutdownIsPending, Down
  <2>3. CASE wrShut[c] \/ IsWriting(channel[c]) \/ lpc[l] = "stopped"
    BY <1>1, <1>2, <1>3, <2>1, <2>3 DEF Lasting
  <2>4. CASE \E u \in Users : upc[u] = f
    BY <1>3, <2>4, UserPosts
  <2>5. CASE f \in Waiting(l)
    <3> HIDE DEF f
    <3>1. queue[l] \in Seq(Functor) /\ batch[l] \in Seq(Functor) /\ QueueStep(l)
      BY <1>3, QueueSteps DEF Inv, TypeOK
    <3>2. f \in Range(batch[l]) \/ f \in Range(queue[l])
      BY <2>5 DEF Waiting
    <3>3. Adds(l) => Range(queue[l]) \subseteq Range(queue'[l])
      BY <3>1, RangeAppend DEF Adds
    <3>4. CASE batch'[l] = batch[l] /\ Adds(l)
      BY <3>2, <3>3, <3>4
    <3>5. CASE lpc[l] = "handle" /\ batch'[l] = queue[l]
      <4>1. batch[l] = <<>>
        BY <1>3, <3>5 DEF Inv, LoopInv
      <4> QED BY <3>2, <3>5, <4>1, RangeEmpty
    <3>6. CASE lpc[l] = "run" /\ batch[l] # <<>> /\ batch'[l] = Tail(batch[l]) /\ Adds(l)
      <4>1. CASE f = Head(batch[l])
        BY <1>2, <1>3, <3>6, <4>1, ShutdownRuns DEF f
      <4>2. CASE f # Head(batch[l])
        BY <3>1, <3>2, <3>3, <3>6, <4>2, RangeTail
      <4> QED BY <4>1, <4>2
    <3>7. CASE lpc'[l] = "stopped"
      BY <3>7
    <3> QED BY <3>1, <3>4, <3>5, <3>6, <3>7 DEF QueueStep
  <2> QED BY <2>2, <2>3, <2>4, <2>5
<1> QED BY <1>1, <1>5, <1>6, <1>7 DEF ConnStep, Made, Established, GoesDown

-----------------------------------------------------------------------------
(* The theorems.                                                           *)

\* The invariant is inductive.
LEMMA InvStep ==
    ASSUME Inv, [Next]_vars
    PROVE  Inv'
<1>1. TypeOK'
  BY TypeStep DEF Inv
<1> QED
  BY <1>1, LoopStays, EventStep, FunctorStep, OnceStep, LifeStep, UserStays, ChannelStep,
     MapStep, OrderStep, ShutdownStep
  DEF Inv

LEMMA InvHolds == Spec => []Inv
<1>1. Inv /\ [Next]_vars => Inv'
  BY InvStep
<1> QED BY Initially, <1>1, PTL DEF Spec

\* Every variable of the server keeps its type: no functor is queued for a loop that is not
\* one, and no outputBuffer_ has a negative size.
THEOREM TypeCorrect == Spec => []TypeOK
<1>1. Inv => TypeOK
  BY DEF Inv
<1> QED BY <1>1, InvHolds, PTL

\* connectionCallback_ is called once with UP and at most once with DOWN, whichever of
\* handleClose(), connectDestroyed() and ~TcpServer comes first.
THEOREM CalledBackOnce == Spec => []UpThenDownOnce
<1>1. Inv => UpThenDownOnce
  <2> SUFFICES ASSUME Inv, NEW c \in Conns
               PROVE  ups[c] <= 1 /\ (c \notin late => downs[c] <= ups[c])
    BY DEF UpThenDownOnce
  <2>1. /\ New(c) => ups[c] = 0 /\ downs[c] = 0
        /\ ~New(c) => ups[c] = 1
        /\ c \notin late => downs[c] <= 1
    BY DEF Inv, LifeInv
  <2> QED BY <2>1
<1> QED BY <1>1, InvHolds, PTL

\* A connection that is down has left the epoll set: disableAll() is the last thing done
\* to its Channel.
THEOREM DownLeavesEpoll == Spec => []DownIsUnwatched
<1>1. Inv => DownIsUnwatched
  BY DEF Inv, ChannelInv, Deleted, DownIsUnwatched, Down
<1> QED BY <1>1, InvHolds, PTL

\* What sendInLoop() could not write is written when the socket is writable: epoll watches
\* for that exactly while the outputBuffer_ is not empty.
THEOREM OutputIsNotForgotten == Spec => []OutputIsWatched
<1>1. Inv => OutputIsWatched
  <2> SUFFICES ASSUME Inv, NEW c \in Conns, state[c] \in {"kConnected", "kDisconnecting"},
                      ~Down(c)
               PROVE  /\ channel[c].index = "kAdded" /\ WatchedAsWanted(channel[c])
                      /\ out[c] > 0 <=> "write" \in channel[c].epoll
    BY DEF OutputIsWatched
  <2>1. ~New(c) /\ downs[c] = 0
    BY DEF New, Down, Inv, TypeOK
  <2> QED BY <2>1 DEF Inv, ChannelInv, WatchedAsWanted
<1> QED BY <1>1, InvHolds, PTL

\* A shutdown() made while there was output is carried out by handleWrite(); one made from
\* another thread is on its way, and what it is bound to is there when it comes.
THEOREM ShutdownIsNotForgotten == Spec => []ShutdownIsPending
<1>1. Inv => ShutdownIsPending
  BY DEF Inv
<1> QED BY <1>1, InvHolds, PTL

\* The map keeps a connection alive until its user has been told that it is down.
THEOREM DestroyedWhenDown == Spec => []DestroyedAfterDown
<1>1. Inv => DestroyedAfterDown
  <2> SUFFICES ASSUME Inv, NEW c \in Conns, Created(c), ~Alive(c), ServerUp PROVE Down(c)
    BY DEF DestroyedAfterDown
  <2>1. c \notin connections
    BY DEF Alive
  <2>2. downs[c] # 0 /\ downs[c] \in Nat
    BY <2>1 DEF Inv, MapInv, TypeOK
  <2> QED BY <2>2 DEF Down
<1> QED BY <1>1, InvHolds, PTL

\* shutdownInLoop() and handleWrite() shut the write side only when the outputBuffer_ of
\* a connection that is up is empty.
THEOREM OutputComesFirst == Spec => OutputBeforeShutdown
<1>1. Inv /\ [Next]_vars =>
        [\A c \in Conns : wrShut'[c] # wrShut[c] /\ ~Down(c) => out'[c] = 0]_vars
  <2> SUFFICES ASSUME Inv, [Next]_vars, NEW c \in Conns, wrShut'[c] # wrShut[c], ~Down(c)
               PROVE  out'[c] = 0
    OBVIOUS
  <2>1. ConnStep(c) /\ downs[c] = 0 /\ out[c] \in Nat
    <3>1. downs[c] \in Nat /\ out[c] \in 0..MaxOut /\ MaxOut \in Nat
      BY ServerAssumption DEF Inv, TypeOK, ServerAssumption
    <3>2. downs[c] = 0 /\ out[c] \in Nat
      BY <3>1 DEF Down
    <3> QED BY <3>2, ConnSteps
  <2>2. wrShut[c] \in BOOLEAN
    BY DEF Inv, TypeOK
  <2>3. ~New(c) /\ ~IsWriting(channel[c]) => out[c] = 0
    BY <2>1 DEF Inv, ChannelInv, IsWriting
  <2>4. CASE Disconnecting(c)
    BY <2>2, <2>3, <2>4 DEF Disconnecting
  <2>5. CASE Writing(c)
    BY <2>2, <2>3, <2>5 DEF Writing
  <2>6. CASE Written(c)
    BY <2>1, <2>2, <2>6 DEF Written
  <2> QED BY <2>1, <2>4, <2>5, <2>6 DEF ConnStep, Unmoved, Made, Established, GoesDown
<1> QED BY <1>1, InvHolds, PTL DEF Spec, OutputBeforeShutdown

-----------------------------------------------------------------------------
(* Without other threads no destroyed connection is ever used.             *)

\* A functor that owns its connection keeps it alive.
LEMMA StrongBinds ==
    ASSUME NEW s \in Seq(Functor), NEW f \in Range(s), f.op \in Strong
    PROVE  Bound(s, f.c)
<1>1. PICK i \in DOMAIN s : s[i] = f
  BY DEF Range
<1>2. i \in 1..Len(s)
  OBVIOUS
<1> QED BY <1>1, <1>2 DEF Bound

LEMMA BoundIsWaiting ==
    ASSUME NEW s \in Seq(Functor), NEW c, Bound(s, c)
    PROVE  \E f \in Range(s) : f.c = c /\ f.op \in Strong
<1>1. PICK i \in 1..Len(s) : s[i].c = c /\ s[i].op \in Strong
  BY DEF Bound
<1>2. i \in DOMAIN s
  OBVIOUS
<1> QED BY <1>1, <1>2 DEF Range

\* Every channel that a loop is to handle, and every functor it is to run, is one of a
\* living connection.
LEMMA ActiveAlive ==
    ASSUME Inv, AloneInv, NEW l \in Loops, NEW a \in active[l], a.c # NoConn
    PROVE  Alive(a.c)
<1>1. a.c \in Conns
  BY DEF Inv, TypeOK, Event
<1>2. CASE a.c \in connections
  BY <1>1, <1>2 DEF Alive, Inv, LifeInv
<1>3. ASSUME NEW f \in Range(queue[l]), f.c = a.c, f.op \in Strong PROVE Alive(a.c)
  <2>1. queue[l] \in Seq(Functor) /\ f \in Waiting(l)
    BY DEF Inv, TypeOK, Waiting
  <2>2. Created(a.c)
    BY <1>3, <2>1 DEF Inv, FunctorInv
  <2> QED BY <1>3, <2>1, <2>2, StrongBinds DEF Alive
<1> QED BY <1>2, <1>3 DEF AloneInv

LEMMA RunningAlive ==
    ASSUME Inv, AloneInv, NEW l \in Loops, NEW c \in Conns, NEW op, Running(l, op, c)
    PROVE  op \in Strong /\ op \notin Raw /\ Alive(c)
<1>1. /\ batch[l] \in Seq(Functor) /\ batch[l] # <<>>
      /\ Head(batch[l]) = [op |-> op, c |-> c]
  BY DEF Running, Inv, TypeOK
<1> DEFINE f == [op |-> op, c |-> c]
<1>2. f \in Range(batch[l]) /\ f \in Waiting(l) /\ f.op = op /\ f.c = c
  BY <1>1, RangeTail DEF Waiting
<1>3. f.op \in Strong /\ Created(f.c)
  BY <1>2 DEF AloneInv, Inv, FunctorInv
<1>4. Bound(batch[l], f.c)
  BY <1>1, <1>2, <1>3, StrongBinds
<1> QED BY <1>2, <1>3, <1>4 DEF Alive, Strong, Raw

LEMMA AloneHistory ==
    ASSUME Users = {}, Inv, AloneInv, [Next]_vars
    PROVE  held' = {} /\ late' = {} /\ freed' = {}
<1> USE DEF AloneInv
<1>e. \A c \in Conns : ConnectEstablished(c) => held' = {}
  BY DEF ConnectEstablished
<1>1. ASSUME NEW c \in Conns, NEW l \in ioLoops, NewConnection(c, l)
      PROVE  held' = {} /\ late' = {} /\ freed' = {}
  BY <1>1, <1>e DEF NewConnection
<1>2. ASSUME NEW l \in Loops, RunFunctor(l) PROVE held' = {} /\ late' = {} /\ freed' = {}
  <2>1. \A c \in Conns : \A op : Running(l, op, c) => freed' = {} /\ op \notin Raw
    BY RunningAlive DEF Running
  <2>2. \A c \in Conns : RunConnectEstablished(l, c) => held' = {} /\ late' = {} /\ freed' = {}
    BY <1>e, <2>1 DEF RunConnectEstablished
  <2>3. \A c \in Conns : RunConnectDestroyed(l, c) => held' = {} /\ late' = {} /\ freed' = {}
    BY <2>1 DEF RunConnectDestroyed, ConnectDestroyed
  <2>4. \A c \in Conns : l = Base /\ RunRemoveConnection(c) => held' = {} /\ late' = {} /\ freed' = {}
    BY <2>1 DEF RunRemoveConnection
  <2>5. \A c \in Conns, op \in Raw : ~RunRaw(l, op, c)
    BY <2>1 DEF RunRaw
  <2>6. \A c \in Conns : RunSendFileEnds(l, c) \/ RunSendFileAgain(l, c)
          => held' = {} /\ late' = {} /\ freed' = {}
    BY <2>1 DEF RunSendFileEnds, RunSendFileAgain
  <2> QED BY <1>2, <2>2, <2>3, <2>4, <2>5, <2>6 DEF RunFunctor
<1>3. ASSUME NEW l \in Loops, Handle(l) PROVE held' = {} /\ late' = {} /\ freed' = {}
  <2>1. UNCHANGED <<held, late>>
    BY <1>3 DEF Handle, StartHandler, OnHup, OnReadClosed, OnMessage, OnWrite, EndHandler,
                HandleClose, userVars, historyVars
  <2>2. ASSUME NEW a \in active[l], StartHandler(l, a) PROVE UNCHANGED freed
    BY <2>2, ActiveAlive DEF StartHandler
  <2> QED BY <1>3, <2>1, <2>2
          DEF Handle, OnHup, OnReadClosed, OnMessage, OnWrite, EndHandler, historyVars
<1>4. ASSUME NEW c \in Conns, PeerCloses(c) \/ Release(c) \/ DestroyItem(c)
      PROVE  held' = {} /\ late' = {} /\ freed' = {}
  BY <1>4 DEF PeerCloses, Release, DestroyItem, ConnectDestroyed, userVars, historyVars
<1>5. ASSUME (\E l \in Loops : Poll(l) \/ TakeBatch(l) \/ EndBatch(l))
               \/ BeginStop \/ EndStop \/ UNCHANGED vars
      PROVE  held' = {} /\ late' = {} /\ freed' = {}
  BY <1>5 DEF Poll, TakeBatch, EndBatch, BeginStop, EndStop, vars, userVars, historyVars
<1> HIDE DEF AloneInv
<1> QED BY <1>1, <1>2, <1>3, <1>4, <1>5 DEF Next, LoopStep, Accept

\* The connections that epoll reports are in the map, or on their way out of it.
LEMMA PolledIsOwned ==
    ASSUME Inv, AloneInv, NEW l \in Loops, lpc[l] = "poll", NEW c \in Watched(l)
    PROVE  c \in connections \/ \E f \in Range(queue[l]) : f.c = c /\ f.op \in Strong
<1>1. c \in Conns /\ Alive(c) /\ ioLoop[c] = l /\ channel[c].epoll # NotWatched
  BY DEF Watched
<1>2. ~New(c) /\ downs[c] = 0
  <2>1. downs[c] = 0 \/ downs[c] > 0
    BY <1>1 DEF Inv, TypeOK
  <2>2. c \notin late
    BY DEF AloneInv
  <2> QED BY <1>1, <2>1, <2>2 DEF Inv, LifeInv, NewChannel, ChannelInv, Deleted
<1>3. ASSUME NEW k \in Loops, c \in pinned[k] PROVE FALSE
  <2>1. k = l
    BY <1>1, <1>2, <1>3 DEF AloneInv
  <2> QED BY <1>3, <2>1 DEF Inv, LoopInv
<1>4. ASSUME NEW k \in Loops, cur[k].c = c PROVE FALSE
  <2>1. k = l
    BY <1>1, <1>4, ServerAssumption DEF Inv, EventInv, ServerAssumption
  <2> QED BY <1>1, <1>4, <2>1, ServerAssumption DEF Inv, LoopInv, Idle, ServerAssumption
<1>5. ASSUME NEW k \in Loops, Bound(queue[k], c) \/ Bound(batch[k], c)
      PROVE  \E f \in Range(queue[l]) : f.c = c /\ f.op \in Strong
  <2>1. queue[k] \in Seq(Functor) /\ batch[k] \in Seq(Functor)
    BY DEF Inv, TypeOK
  <2>2. PICK f \in Waiting(k) : f.c = c /\ f.op \in Strong
    BY <1>5, <2>1, BoundIsWaiting DEF Waiting
  <2>3. k = l
    BY <1>1, <1>2, <2>2 DEF Inv, FunctorInv
  <2>4. batch[l] = <<>>
    BY DEF Inv, LoopInv
  <2> QED BY <2>2, <2>3, <2>4, RangeEmpty DEF Waiting
<1>6. c \notin held
  BY DEF AloneInv
<1> QED BY <1>1, <1>3, <1>4, <1>5, <1>6 DEF Alive

LEMMA PinnedStep ==
    ASSUME Inv, [Next]_vars, NEW l \in Loops, NEW c \in pinned'[l]
    PROVE  \/ c \in pinned[l]
           \/ c \in Conns /\ \E op \in Strong : Running(l, op, c)
<1> USE DEF Inv
<1>1. ASSUME UNCHANGED pinned PROVE c \in pinned[l]
  BY <1>1
<1>2. ASSUME NEW k \in Loops, RunFunctor(k)
      PROVE  c \in pinned[l] \/ (c \in Conns /\ \E op \in Strong : Running(l, op, c))
  <2>1. PICK d \in Conns : \E op : Running(k, op, d)
    BY <1>2
    DEF RunFunctor, RunConnectEstablished, RunConnectDestroyed, RunRemoveConnection, RunRaw,
        RunSendFileEnds, RunSendFileAgain
  <2>2. PICK op : Running(k, op, d)
    BY <2>1
  <2>3. CASE op \in Strong
    <3>1. pinned' = [pinned EXCEPT ![k] = @ \union {d}]
      BY <2>2, <2>3 DEF Running
    <3>2. c \in pinned[l] \/ (k = l /\ c = d)
      BY <3>1 DEF TypeOK
    <3> QED BY <2>2, <2>3, <3>2
  <2>4. CASE op \notin Strong
    BY <2>2, <2>4 DEF Running
  <2> QED BY <2>3, <2>4
<1>3. ASSUME NEW k \in Loops, EndBatch(k) PROVE c \in pinned[l]
  BY <1>3 DEF EndBatch, TypeOK
<1>4. ASSUME NEW k \in Loops, Poll(k) \/ Handle(k) \/ TakeBatch(k) PROVE UNCHANGED pinned
  BY <1>4 DEF Poll, Handle, StartHandler, OnHup, OnReadClosed, OnMessage, OnWrite, EndHandler,
              TakeBatch
<1>5. ASSUME NEW u \in Users, UserStep(u) PROVE UNCHANGED pinned
  BY <1>5 DEF UserStep, UserCall, UserSetState, UserPost, loopVars
<1>6. ASSUME (\E d \in Conns : PeerCloses(d) \/ Release(d) \/ DestroyItem(d))
               \/ (\E d \in Conns, k \in ioLoops : NewConnection(d, k))
               \/ BeginStop \/ EndStop \/ UNCHANGED vars
      PROVE  UNCHANGED pinned
  BY <1>6 DEF PeerCloses, Release, DestroyItem, NewConnection, BeginStop, EndStop, vars,
              loopVars
<1> HIDE DEF Inv
<1> QED BY <1>1, <1>2, <1>3, <1>4, <1>5, <1>6 DEF Next, LoopStep, Accept

LEMMA PolledIsActive ==
    ASSUME Inv, NEW l \in Loops, Poll(l), NEW a \in active'[l], a.c # NoConn
    PROVE  a.c \in Watched(l) /\ lpc[l] = "poll" /\ UNCHANGED <<queue, connections>>
<1>1. PICK f \in [Watched(l) -> SUBSET (Events \union {"hup"})],
           accepts \in SUBSET {AcceptEvent} :
        active' = [active EXCEPT ![l] =
                     {[c |-> c, re |-> f[c]] : c \in {d \in Watched(l) : f[d] # {}}}
                       \union accepts]
  BY DEF Poll
<1>2. a \in {[c |-> c, re |-> f[c]] : c \in {d \in Watched(l) : f[d] # {}}} \union accepts
  BY <1>1 DEF Inv, TypeOK
<1>3. a.c \in Watched(l)
  BY <1>2 DEF AcceptEvent
<1> QED BY <1>3 DEF Poll

LEMMA AloneStep ==
    ASSUME Users = {}, Inv, AloneInv, [Next]_vars
    PROVE  AloneInv'
<1>i. TypeOK' /\ LoopInv' /\ EventInv' /\ late' = {}
  BY InvStep, AloneHistory DEF Inv
<1>1. ASSUME NEW l \in Loops, NEW f \in Waiting(l)' PROVE f.op \in Strong
  <2>1. f \in Functor
    BY <1>i DEF TypeOK, Waiting, Range
  <2>2. Posted(l, f) => f.op \notin Raw
    BY DEF Posted, Raw
  <2> QED BY <2>1, <2>2, WaitingSource DEF AloneInv, Functor
<1>2. ASSUME NEW l \in Loops, NEW c \in pinned'[l]
      PROVE  Created(c)' /\ (ioLoop'[c] = l \/ downs'[c] > 0)
  <2>1. c \in Conns
    BY <1>i DEF TypeOK
  <2>2. Created(c) /\ (ioLoop[c] = l \/ downs[c] > 0)
    <3>1. ASSUME NEW op \in Strong, Running(l, op, c)
          PROVE  Created(c) /\ (ioLoop[c] = l \/ downs[c] > 0)
      BY <2>1, <3>1, RunsWaiting
    <3> QED BY <3>1, PinnedStep DEF AloneInv
  <2> QED BY <2>1, <2>2, OnlyForward
<1>3. ASSUME NEW l \in Loops, NEW a \in active'[l], a.c # NoConn
      PROVE  a.c \in connections' \/ \E f \in Range(queue'[l]) : f.c = a.c /\ f.op \in Strong
  <2>1. CASE Poll(l)
    BY <1>3, <2>1, PolledIsActive, PolledIsOwned
  <2>2. CASE a \in active[l]
    <3>1. a.c \in Conns /\ downs'[a.c] = 0 /\ ioLoop[a.c] = l
      <4>1. a.c \in Conns
        BY <1>3, <1>i DEF TypeOK, Event
      <4>2. downs'[a.c] = 0
        BY <1>3, <1>i DEF EventInv
      <4>3. ioLoop[a.c] = l
        BY <1>3, <2>2 DEF Inv, EventInv
      <4> QED BY <4>1, <4>2, <4>3
    <3>2. lpc[l] = "handle"
      BY <2>2 DEF Inv, LoopInv
    <3>3. CASE a.c \in connections
      <4>1. CASE DestroyItem(a.c)
        <5>1. l # Base
          BY <3>2, <4>1 DEF DestroyItem
        <5>2. queue' = Queued(queue, l, Des(a.c))
          BY <3>1, <4>1, <5>1 DEF DestroyItem, Des
        <5>3. /\ queue \in [Loops -> Seq(Functor)] /\ queue[l] \in Seq(Functor)
              /\ Des(a.c) \in Functor
          BY <3>1, ServerFunctors DEF Inv, TypeOK
        <5>4. queue'[l] = Append(queue[l], Des(a.c))
          BY <5>2, <5>3, QueuedType
        <5>5. Des(a.c) \in Range(queue'[l])
          BY <5>3, <5>4, RangeAppend
        <5> QED BY <5>5 DEF Des, Strong
      <4>2. CASE ~DestroyItem(a.c)
        BY <3>1, <3>3, <4>2, Leaves
      <4> QED BY <4>1, <4>2
    <3>4. ASSUME NEW f \in Range(queue[l]), f.c = a.c, f.op \in Strong
          PROVE  f \in Range(queue'[l])
      <4>1. Adds(l)
        BY <2>2, <3>2, QueueSteps DEF QueueStep
      <4>2. queue[l] \in Seq(Functor)
        BY DEF Inv, TypeOK
      <4> QED BY <4>1, <4>2, RangeAppend DEF Adds
    <3> QED BY <1>3, <2>2, <3>3, <3>4 DEF AloneInv
  <2>3. CASE a = cur'[l]
    BY <1>3, <1>i, <2>3 DEF LoopInv
  <2> QED BY <1>3, <2>1, <2>2, <2>3, EventSource
<1> QED BY <1>1, <1>2, <1>3, AloneHistory DEF AloneInv

\* If send() and shutdown() are only called in the loop of their connection, no functor and
\* no handler ever runs on a TcpConnection that has been destroyed, whatever the order in
\* which the peer, handleClose() and ~TcpServer end it.
THEOREM NoUseAfterFreeAlone ==
    ASSUME Users = {}
    PROVE  Spec => []NoUseAfterFree
<1>1. Init => AloneInv
  BY RangeEmpty DEF Init, AloneInv, Waiting
<1>2. Inv /\ AloneInv /\ [Next]_vars => AloneInv'
  BY AloneStep
<1>3. AloneInv => NoUseAfterFree
  BY DEF AloneInv, NoUseAfterFree
<1> QED BY <1>1, <1>2, <1>3, InvHolds, PTL DEF Spec
=============================================================================
