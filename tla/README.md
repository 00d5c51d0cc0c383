# TLA+ models of the programs in learn-note

The repository is a collection of C++ study projects. Four of them are systems with threads,
callbacks and shared state: **muduo-mgkl** (a reactor network library), **memory-mgkl** (a
thread-caching allocator), **DBCP-mgkl** (a pool of database connections) and
**30dayMakeCppServer/day12** (an echo server on thread pools). Beside them are smaller concurrent
programs (`src/CppConcurrencyProgramming`) and sequential code (`src/Algorithm`, `src/misc`). The
models are written from that code; `PROJECT.json` maps every definition to the lines it
stands for.

## 1. Inventory

Paths are below `src/cpp_learning_projects/` unless they start elsewhere.

### muduo-mgkl

One *loop* per thread. The base loop accepts connections; each connection belongs to one I/O
loop, in which all its handlers run. Other threads only *queue functors* in a loop and wake it.

| Component | State | Operations | Interacts with |
|---|---|---|---|
| `EventLoop` | `pendingFunctors_` (under `mutex_`), `callingPendingFunctors_`, `quit_`, `looping_`, the eventfd, `activeChannels_` | `loop`, `runInLoop`, `queueInLoop`, `wakeup`, `handleRead`, `quit`, `doPendingFunctors` | every other component, through functors and channels |
| `EventLoopThread`, `Thread` | `loop_` (under `mutex_`, with `cond_`), the thread, its `tid_` and semaphore | `startLoop`, `threadFunc`, destructor | owns an `EventLoop` on its thread's stack |
| `EventLoopThreadPool` | `threads_`, `loops_`, `next_` | `start`, `getNextLoop`, destructor | starts and joins `EventLoopThread`s |
| `Channel`, `EPollPoller` | `events_`, `revents_`, `index_`; the map of channels and the kernel's epoll set | `enable…`, `disable…`, `handleEvent`, `updateChannel`, `poll` | the handlers of a connection |
| `Acceptor`, `TcpServer` | `connections_`, the pool of loops, the listening channel | `newConnection`, `removeConnection(InLoop)`, destructor | creates `TcpConnection`s in the base loop, hands them to I/O loops |
| `TcpConnection` | `state_`, its channel, two buffers, the socket | `send`, `shutdown`, `sendFile` (any thread), `…InLoop`, `handleRead/Write/Close`, `connectEstablished`, `connectDestroted` | its loop; the map and queued functors share its ownership |
| `Buffer` | the vector, `readerIndex_`, `writerIndex_` | `append`, `retrieve`, `makeSpace`, `readFd`, `writeFd` | one connection |
| `Socket`, `InetAddress`, `Logger`, `Timestamp`, `CurrentThread` | none that a property needs | wrappers | – |

What is hard here: a wakeup lost between a push and `epoll_wait`; `quit` racing with the start
of a loop and with its end; a connection that closes in its loop while the base loop, the
destructor and user threads hold or use it; `send` and `shutdown`, which look at `state_` in
one thread and act in another; output left over when a socket is full.

### memory-mgkl

| Component | State | Operations |
|---|---|---|
| `ThreadCache` | per thread and size class: `freeList_`, `freeListSize_` | `allocate`, `deallocate`, `fetchFromCentralCache`, `returnToCentralCache` |
| `CentralCache` | per size class: `centralFreeList_` under a spin lock | `fetchRange`, `returnRange`, `fetchFromPageCache` |
| `PageCache` | `freeSpans_`, `spanMap_`, under one mutex | `allocateSpan`, `deallocateSpan` |
| `MemoryPool`, `HashBucket` | the older pool: blocks of slots, a lock-free free list | `allocate`, `deallocate`, `allocateNewBlock` |

What is hard here: free lists are links *inside* the blocks, so a block in two lists, or a list
that runs through a block in use, destroys memory silently; lists are cut by counters that may
not be their lengths; blocks travel between caches with no lock held.

### DBCP-mgkl

`ConnectionPool`: `connectionQueue_`, `connectionCount_`, `exit_`, one mutex and one condition
variable for borrowers, the producer and the scanner. `start`, `close`, `GetConnection` (with a
timeout) and the deleter of the `shared_ptr` it returns. Hard: one condition variable for
everybody, `exit_` written without the lock, a pool that is started again.

### 30dayMakeCppServer/day12

| Component | State | Operations |
|---|---|---|
| `ThreadPool` | `tasks`, `stop`, under `tasks_mtx` with `cond` | `add`, the loop of a thread, destructor |
| `EventLoop`, `Epoll`, `Channel` | the epoll set, `events`, `revents`, a pool of threads per loop | `loop`, `poll`, `updateChannel`, `handleEvent`, `enableReading`, `useET` |
| `Acceptor`, `Server` | the blocking listening socket, the map of connections | `acceptConnection`, `newConnection` |
| `Connection` | its channel, `readBuffer` | constructor, `echo`, `send` |

What is hard here: an edge-triggered descriptor is read by a pool of threads, so two of them may
run `echo()` on one `readBuffer`; the descriptor is in epoll before its callback is set and before
its buffer exists; everything else depends on reading until `EAGAIN`.

### Small programs

| Component | State | Hard |
|---|---|---|
| `CppConcurrencyProgramming/ThreadPool` | as above, with `exit_flag` and `notify_all` | the destructor against queued tasks and tasks that submit tasks |
| bank transfers (09, 10, 11) | two accounts, a lock each, a condition variable each in 11 | the order of locks; waits that nobody ends |
| counters (06, 07, 08, 13, 14) | a shared sum, ranges of terms, futures | what each range has at its ends; a data race in 06 |
| `misc/my_shared_ptr` | pointers and counts | assignment, moves; no destructor is declared |
| `Algorithm`, `misc/reverse_linked_table` | none, or globals that outlive a call | boundaries; globals that are not reset |

### Not modelled

`Timer-mgkl` (does not compile), day01–day11 (earlier stages of day12), `BoostLearn` (retyped tutorial),
one-feature examples, `json.hpp` (third party), notes and pictures; see section 6.

## 2. Modules

| Module | Models | Properties |
|---|---|---|
| `FunctorExecutor` | what a loop promises to those who queue work: first in first out, once, not never | abstract specification |
| `EventLoop` | `EventLoop.cpp`: the loop's thread and any other threads | `NoLostWakeup`, `InPushOrder`, `QueuedRunsUnlessQuit`, `QuitStopsRunningLoop`, `ImplementsExecutor` |
| `EventLoopThreadPool` | the pool, its threads, `startLoop`/`threadFunc`/destructor handshakes | `StartedLoopsExist`, `GoneMeansJoined`, `StartTerminates`, `DestroyTerminatesWhenLooping`; `RoundRobin` is proved |
| `Channel` | wanted events, epoll state and `index_` of one descriptor | used by `TcpServer` |
| `TcpServer` | `TcpServer`, `TcpConnection`, `Acceptor` and the polling of the loops | see below |
| `Buffer` | `Buffer.hpp/.cpp`, byte by byte | `BytesKept` |
| `Allocator` | what an allocator promises | abstract specification |
| `ThreadCache` | `ThreadCache`, `CentralCache` for one size class, with the links in the blocks | `EveryBlockInOnePlace`, `BothImplementAllocator` |
| `ConnectionPool` | DBCP's pool with borrowers, producer, scanner and main thread | `CountIsIdlePlusLent`, `CountBetweenMinAndMax`, `ProducerAwakeWhenEmpty`, `ClosedIsEmpty`, `CloseEndsThreads` |
| `PageCache` | `PageCache.cpp`: spans of pages, split and merged | `EveryPageInOneSpan` |
| `MemoryPool` | `MemoryPool.cpp`: the lock-free stack of slots and the blocks | `EverySlotInOnePlace`, `BothImplementAllocator` |
| `ThreadPool` | both task pools | `SleepersNotNeeded`, `DestroyedMeansDrained`, `PoolProgress` |
| `EchoServer` | day12 from a client's `connect` to the reply | `NoEdgeForgotten`, `AnsweredUnlessKnown` |
| `BankTransfer` | programs 09, 10 and 11 | `MoneyKept`, `StuckOnlyAsKnown` |
| `Counters` | programs 06, 07, 08, 13 and 14 | `SumOfRanges` |
| `SharedPtr` | `my_shared_ptr.cpp` | `OwnersCounted` |
| `Lists` | `Sort.cpp`, `LinkedList.cpp`, `reverse_linked_table.cpp` | `ListsRight` |
| `Searches` | `graphy.cpp`, `BackTrack.cpp`, `DynamicProgramming.cpp`, `greedy.cpp` | `SearchesRight` |
| `EventLoopProofs`, `EventLoopThreadPoolProofs`, `TcpServerProofs`, `ThreadCacheProofs`, `ListsProofs` | theorems about the module of that name | section 5 |
| `PoolsProofs` | theorems about `ConnectionPool`, `ThreadPool` and `EchoServer`, and about `MCPools` | section 5 |
| `ProgramsProofs` | theorems about `Buffer`, `SharedPtr`, `BankTransfer` and `Counters`, and about `MCPrograms`, which has `Lists` too | section 5 |
| `MemoryProofs` | theorems about `PageCache` and `MemoryPool`, and about `MCMemory` | section 5 |
| `MCEventLoop`, `MCTcpServer`, `MCConnectionPool`, `MCThreadCache` | model values and small sets for TLC | – |
| `MCMemory`, `MCPools`, `MCPrograms` | several modules in one specification: a variable `part`, chosen at first, says which of them the behaviour is of | the properties of those modules, under their names |
| `MCAlgorithms` | `MCPrograms`, with `Searches` as one more part. It has recursive operators, and no theorem is about it, so the theorems are about `MCPrograms` without it | `SearchesRight` |

Operators called `Bug…` are variants of the definition that follows them, with one plausible
mistake each. They belong to no specification; each property is violated when one of them takes
the place of the definition, which shows that the property depends on the code being right.

### How actions correspond to the code

*EventLoop.* One action per stretch of code between two points where another thread can see or
change shared state. A push and the swap are critical sections of `mutex_`, so one step each.
The write to the eventfd that follows a push (or `quit_ = true`) is its own step, as is each
test in `loop()`. The eventfd is a counter with a maximum, because a write to a full one fails
and `wakeup()` only logs it. The loop's own callbacks may queue, run and quit too; whether they
write the eventfd depends on `callingPendingFunctors_`, as in `queueInLoop`. Before `loop()` the same
thread may call all three as well (`main`, or the `ThreadInitCallback` of `EventLoopThread`); for what it
queues then no eventfd is written, and the history variable `early` has those callbacks. `FunctorExecutor` is
refined with `queue <- functors \o pendingFunctors`: what is pending is the rest of the batch
followed by what has been pushed since.

*EventLoopThreadPool.* The owner's program counter follows `start()` and the destructor. Every
read of `loop_` in `~EventLoopThread` is a step, since it takes no lock there, and so are
the two halves of `quit()` (set `quit_`, then `wakeup()`). The inside of a loop is its `quit_`,
cleared on entry; that a running loop told to quit does leave is `EventLoop!QuitStopsRunningLoop`.

*TcpServer.* A loop is a FIFO executor (that is what `EventLoop` is proved to be): it polls, handles
active channels one by one, takes a batch of functors and runs them. Handlers are one step
each between the points where another loop or a user thread could act. `shared_ptr` ownership
is a predicate (`Alive`) over the map, queued functors, the guard of a running handler, and the
user; functors bound to a raw `this` (`send`, `shutdown`) do not own. Using a connection that
is not alive puts it into `freed`. The kernel chooses how much of a write it takes and which
events it reports. `send`, `shutdown` and `sendFile` of user threads are split between reading
`state_` and queueing the functor. Payload bytes, names and addresses are left out.

*Buffer.* Each member function is one action on a real array of bytes with both indices, and the
history variable `content` holds what a queue given the same calls would hold.

*ThreadCache.* `next` is the first word of every block; a user overwrites it with `Junk`. A
thread's own list needs no lock, but each step on shared state is separate: blocks that have
been cut off a list and not yet returned are in `arg`. `freeListSize` wraps like the `size_t` it
is. The code's mismatches (a byte count compared with a block count in `returnRange`, the
decrement before the test in `allocate`, the cut after `keepNum + 1` blocks) are kept. They
combine: each fetch that fails leaves the counter one further below the length of the list, what a
thread says it returns is counted with it, and `returnRange` loses what is more than it was
told. It is told in bytes, the number of blocks times `alignedSize`, and that is 0 where a block of the first
class is freed with the size 0, with which `allocate(0)` may have been asked for it (`Common.hpp:22`): then
`returnRange` loses all it is given but the first block. The history variables `refused`, `lost` and `unsized`
record that a fetch has failed, which blocks were lost, and which of them in a return of 0 bytes.

*ConnectionPool.* Each critical section of `mtx_` is one step; what is done without it has its own
steps (`exit_`, the first connections, the two threads). `cv_.notify_all()` makes every
sleeping thread test its predicate again. `front()` of the empty queue is undefined: the model
sets `crashed` and stops.

*PageCache.* A call is one step, under its mutex. `freeSpans` keeps the empty lists that
`operator[]` leaves behind; `lower_bound` may find one, and then the null head is
dereferenced (`crashed`). `spanMap` does not learn of the remainder of a split, so that only spans
that were handed out once can be merged. The system gives any pages that are free.

*MemoryPool.* Each load, store and `compare_exchange_weak` is a step, and the last may fail for no
reason. The links are in the slots, and a user writes `Junk` over them. Two things the code
does are recorded in history variables: `aba`, a pop that installed a link out of date, after
which the model stops, and `dropped`, the slots `allocateNewBlock()` threw away by resetting
`freeList_`.

*ThreadPool.* The two editions differ in three places, which test `edition`: how many are notified,
whether a stopped pool refuses, and whether the flag is initialised. A notification is a step of
its own, since both submit functions send it after releasing the mutex.

*EchoServer.* The kernel's ready list (`ready`) and the loop's `activeChannels` (`active`) are apart
from the pool's queue (`tasks`), because an edge can come between any two of them. The constructor of
`Connection` is four steps, since the sub reactor runs beside it. `echo()` is split at each
`read`, `append`, copy, `write` and `clear()`. Clients are those of `test.cpp`: each waits for as many
bytes as it sent. `fate` records the three things that can cost a reply, `down` the two
that end the process (a null `readBuffer`, `SIGPIPE`). The strings are counted, and the
operations on `readBuffer` and on the `std::function` of a channel are single steps although
nothing makes them so: inside them anything can happen.

*BankTransfer.* `money_ += amount` is a read and a write where it holds locks of its own making (09 and
10), and one critical section in 11, in which a thread may sleep. *Counters.* A sum is the number of
times each term is in it, so that lost and doubled terms can be told apart.

*SharedPtr.* One action per constructor and assignment. Without a destructor the end of a pointer
leaves the count alone; `ended` counts those.

*Lists.* A behaviour is one call, with any input of bounded size, and a step is one turn of the loop
the call is in (`loop` says which). Nearly every one of these functions moves two pointers, so `left`
and `right` are those of whichever runs (`i` and `j`, `slow` and `fast`, `p` and `q`), `output` is the array
or list it works on and in the end what it returns, and `locals` holds what else it keeps: the
counts of the window, the heads in the priority queue, the pivot and, for `quick_sort`, the ranges of
the calls that are still to come. `mergeRecursive` does nothing after its call of itself but link what
it has, so it is a loop. A list is the sequence of its values, except in `hasCycle` and `detectCycle`,
where it is its links. `turns` is a history variable, by which the property bounds what the code may take.

*Searches.* Each function is an operator, written as the code computes (loops as folds or
recursion with the loop's variables); `call` holds one call with its result, over every input of
bounded size. The globals of `graphy.cpp` and `BackTrack.cpp` outlive calls, so a behaviour has two.
The repetition of names in those files (several exercises, one after another) is taken as one
program per exercise.

## 3. Runs

| Run | Instance | Shows |
|---|---|---|
| `eventloop` | 2 other threads, 3 functors, eventfd of at most 2 | no wakeup is lost but for what the own thread queued before `loop()`, functors run once and in order of their push, queued functors run unless the loop quits, `quit` ends a running loop, the loop implements `FunctorExecutor` |
| `pool` | 3 threads, 3 calls of `getNextLoop` per loop | started loops exist, and no thread is left behind; `start` returns, and the destructor too when all threads are inside `loop()` |
| `pool_lost_quit` | 1 thread | **violation**: `quit()` before `loop()` is forgotten and the join never returns |
| `pool_dangling_quit` | 1 thread | **violation**: between the store of `quit()` and its `wakeup()` the thread leaves `loop()` on that store and destroys the `EventLoop` |
| `tcp_loops` | 2 connections, base loop and 1 sub loop or the base loop alone, no user thread | nothing reaches a destroyed connection, the server's destruction included; a connection whose peer has closed is destroyed in the end |
| `tcp_users` | 1 connection, 2 user threads, 2 bytes of output, 2 functors, files | UP once and DOWN at most once; down connections are not watched; left-over output is watched; a shutdown is never forgotten, nor done while `outputBuffer_` holds output; destruction only after DOWN |
| `tcp_give_up` | 1 connection, 1 user thread | **violation**: a disconnected connection goes on accepting output |
| `tcp_send_file` | 1 connection, files sent from its loop | **violation**: `sendFileInLoop` retries for ever on a disconnected connection |
| `memory` | caches: 2 threads, 1 span of 5 blocks, threshold 2, sizes 0 and 1; page cache: 5 pages; pool: 2 threads, 2 blocks of 2 slots | no block is in two places, none is lost before a fetch has failed but by a return of 0 bytes; every page stays in one span; until ABA, every slot is in one place or was dropped by a new block; caches and pool both implement `Allocator` |
| `thread_cache_length` | 1 thread, 3 spans of 3 blocks, threshold 2 | **violation**: `freeListSize_` is not the length of the list |
| `pools` | DBCP: 2 borrowers, sizes 1 to 2, 2 lives; task pools: 3 workers, 3 tasks; echo server: 1 client, 2 messages of 2 bytes, a buffer of 1, 2 threads | connections are counted right and bounded, the producer is awake when needed, a closed pool is empty and its threads end; no task's notification is lost, accepted tasks run, the destructor returns after them; no edge is forgotten, the client is answered |
| `programs` | buffer: bytes 0 and 1, size 3 to 8, calls of at most 3 bytes; 3 pointers, 2 objects; balances of 3; 2 counting threads, 6 terms; sequences of up to 4 of 3 values, up to 3 lists of 2 to merge; 3 graph nodes, 3 edges | the readable bytes are the bytes put in and not taken out; owners are counted; money is kept, and threads are stuck only in two known ways, never in program 10; sums have the terms of their ranges; the functions on arrays and lists, turn by turn, and the searches are right on every small input, the former within a bound on their turns |

### Why these bounds

- *eventloop*: the loss of a wakeup needs one functor left behind while another batch runs and a
  second thread acts: three functors and two threads give every order of that. A maximum of 2
  lets the eventfd fill up.
- *pool*: with three threads one has been joined, one is being joined and one runs; three turns
  let `next_` wrap. The two violations need one thread only.
- *buffer*: `makeSpace` has three outcomes (room left, move, grow) and `readFd` two; sizes 1–8
  with a prepend of 1 reach every boundary between them, including an empty and a full buffer.
- *tcp*: connections share only the map, the poll set of their loop and the queues; two of
  them give every order of two removals. One connection with two user threads gives the races of
  a `send`, a `shutdown` and a close. `MaxQueue` and `MaxOut` bound only what users add.
- *thread_cache*: a threshold of 2 makes the third block a thread frees start a return, so that lists of 3, 4 and
  5 blocks are cut, and with one span the system soon runs out of memory. The code's 64 changes
  when that happens, not what happens. 5 blocks are the least with which blocks are lost after a failed
  fetch, and 2 the least threshold with which a return of 0 bytes loses some before one: the run reaches both.
  `AlignedSizes` is 0 and 1 where the code has, for the class of the smallest blocks, 0 and 8: what
  `returnRange` is told is then hardly more than what there is, so that blocks are lost after a few
  failed fetches (with blocks of 8 bytes and the threshold of 64 it takes 345). `SizeMod`, for 2^64, is 8: more
  than the bytes of all blocks, which is all the assumption asks, and small enough for the counter to wrap.
  The two threads are exchanged by symmetry: the caches and the pool treat them alike, no initial state
  and no property names one of them, and no property of this run is a liveness property.
- *page cache*: five pages let a span be split twice and merged twice with a third one in use, in
  every order of addresses. *Memory pool*: two threads and two slots to a block are the least with
  which ABA, a second block and a dropped stack occur; all three do.
- *task pools*: with three workers some sleep, some run and some are being woken at the same time,
  and three tasks let one be submitted by another while the pool ends.
- *echo server*: connections share only the lists of their sub reactor, so one is enough for what
  happens to its bytes; two threads and messages longer than `buf` give the overlapping `echo()`s.
  `MaxAccepts` bounds the accepts that a level-triggered socket queues without end.
- *programs*: two threads are what the bank programs have; a balance of 3 gives amounts below, at and above
  what is there. Sizes of the inputs of the algorithms pass every boundary in them (empty, one,
  equal neighbours, odd and even); four nodes give lists that return to each of their nodes, and lines.
- *dbcp*: with sizes 1 and 2 every comparison with the limits is met on both sides, and two
  lives let threads of the first meet those of the second.

Deadlock is not checked: each of these systems may stop (a loop that has quit, a pool that is
gone, a server that is destroyed), and the bounds end the others (a full bounded buffer is
the exception that could go on).

### Fairness

Every assumption is the scheduling of a thread that is able to run, or a fact of the kernel:

- *EventLoop*: the loop's thread and a thread between push and wakeup go on; `epoll_wait` returns when
  the eventfd is readable. Nobody has to queue or quit and no other descriptor becomes ready.
  The poll's timeout (`EventLoop.cpp:15`: its comment says 10 s, 10e4 ms are 100 s) is relied on for callbacks the
  own thread queued before `loop()`, which are written no eventfd, and for nothing else.
- *EventLoopThreadPool*: the owner and the threads go on; callbacks need not quit, spurious wakeups
  need not come.
- *TcpServer*: loops go on. A peer that closes has sent finitely many bytes, so the read that
  returns 0 comes in the end (strong fairness, because other events may come between), and
  a user that is given a pointer gives it up. For `sendFile` the socket takes data or fails in the
  end.
- *ConnectionPool*: threads that are awake get the lock. Nothing is assumed of timeouts.
- *ThreadPool*: workers, notifiers and a destructor that has begun go on, and tasks end. Nobody has to
  submit or to destroy the pool, and spurious wakeups need not come.
- *EchoServer*: threads that can run do, the network delivers, and a client that has connected goes
  on. `write()` need not fail, nor the client close early.

The other modules state invariants only and assume no fairness. In the joined runs the fairness of a
module applies while its part is the one chosen.

## 4. Findings

| Run | Code | What the code does |
|---|---|---|
| `pool_lost_quit` | `muduo-mgkl/src/EventLoop.cpp:61` | `loop()` clears `quit_` on entry, so a `quit()` between the publication of `loop_` and the entry of `loop()` is lost; the destructor's join then waits for ever |
| `pool_dangling_quit` | `muduo-mgkl/src/EventLoopThread.cpp:16` | between the two halves of `quit()`, the store to `quit_` and `wakeup()`, the thread may leave `loop()` on that store, clear `loop_` and return: `wakeup()` then runs on an `EventLoop` that is gone |
| `tcp_give_up` | `muduo-mgkl/src/TcpConnection.cpp:62` | "give up writing" is logged and not done: no `return` follows |
| `tcp_send_file` | `muduo-mgkl/src/TcpConnection.cpp:210` | the same message is guarded by `kDisconnecting` where `kDisconnected` is meant |
| `thread_cache_length` | `memory-mgkl/src/ThreadCache.cpp:123` | one block more than `freeListSize_` says stays in the list after a return; each failed fetch after it adds one |

The properties that hold carry exceptions where the code does something no document promises
otherwise. They are stated in the properties and are:

- `NoLostWakeup` excepts callbacks that the loop's own thread queued before `loop()`. `EventLoop.hpp:40` says of
  `queueInLoop` "将回调函数放入到队列，唤醒 EventLoop 所在线程并执行回调函数" (it puts the callback into the queue, wakes
  the thread of the `EventLoop` and runs it), but `EventLoop.cpp:108` wakes it only for another thread or from a
  pending functor: `loop()` sleeps on such a callback until something else happens or the poll times out.
  `QueuedRunsUnlessQuit` needs that timeout, for these callbacks alone.
- `UpThenDownOnce` and `DownIsUnwatched` except connections that a user's functor reached after DOWN
  (`tcp_give_up` is why); `DestroyedAfterDown` excepts a server that is being destroyed, because
  `connectDestroted` tells nobody in `kDisconnecting`.
- `OutputBeforeShutdown` speaks of `outputBuffer_`. A `send()` whose functor got behind that of `shutdown()`
  (line 52 against 101) and the rest of a file (line 210) are not in it, and are given up.
- `NoUseAfterFree` is checked without user threads: with them, the raw `this` in the functors of
  `send` and `shutdown` does reach connections that are gone.
- `GoneMeansJoined` excepts threads whose loop one of their own callbacks made quit: the destructor
  finds `loop_` null and detaches them.
- The counts of `ConnectionPool` are about its first life: `close()` does not reset
  `connectionCount_`, and `start()` adds `minSize_` again. `ProducerAwakeWhenEmpty` excepts a queue
  that the scanner emptied, which it does without telling anybody.
- `EveryBlockInOnePlace` counts the blocks `returnRange` has lost as a place of their own, and says that
  none is lost before a fetch has failed, but in a return of 0 bytes (`deallocate(p, 0)`). After that, some are:
  the walk in `returnRange` stops at a number that `freeListSize_` is too small to give.
- `ClosedIsEmpty` and the counts stop where `front()` of an empty queue is called (`crashed`); likewise
  `EveryPageInOneSpan` at a null list and `EverySlotInOnePlace` at ABA. The runs reach all three.
- `AnsweredUnlessKnown` names what can cost a reply: an edge that came before the callback, bytes that
  `clear()` erased after another thread had appended them, and a full socket, at which `send()` gives up. A
  fourth is left out of `EchoServer`: `stop` of the pool (`ThreadPool.h:21`) is never initialised, and where it
  happens to be true `add()` throws. `ThreadPool` has both values.
- `StuckOnlyAsKnown` names the deadlock of 09, which its comment announces, and that of 11: both
  threads wait for strictly more than the whole balance. Program 10 ends in the same comment
  (`10_improved_bank_transfer.cpp:106`, "The deadlock may occurs in this program"), and there the property
  disagrees with it: `std::lock` (line 48) holds no lock while it waits for the other, so the two threads never
  wait for each other. The comment has been kept from 09, whose two `lock_guard`s stand commented out in
  lines 45–46. No run can show that a deadlock does *not* occur by a violation; that the run `programs` passes
  does.
- `SumOfRanges` excepts 06 (its race is the example's point) and says what the ranges leave out: the
  remainder of MAX and, in 13, the end of each range. `ListsRight` says exactly when `merge()` goes on for
  ever (it never advances `list2`) and leaves out what the code may not be given: `findFromEnd` with
  `k` not below the length, `detectCycle` on a list that ends after two nodes or more. `SearchesRight` says what a second call returns from globals that are not reset.

## 5. Proofs

TLAPS proves these for every value of the constants: any numbers of loops, connections, threads,
blocks, pages, slots, terms and so on.

| Module | Theorem | States |
|---|---|---|
| `EventLoopProofs` | `TypeCorrect`, `WakeupNeverLost`, `OrderPreserved`, `ExecutorImplemented` | `TypeOK`, `NoLostWakeup`, `InPushOrder`; every step is a step of `FunctorExecutor` or a stutter |
| `EventLoopThreadPoolProofs` | `TypeCorrect`, `LoopsExist`, `ServedInTurn`, `NoThreadLeft` | `TypeOK`, `StartedLoopsExist`, `RoundRobin`, `GoneMeansJoined` |
| `TcpServerProofs` | `TypeCorrect`, `CalledBackOnce`, `DownLeavesEpoll`, `OutputIsNotForgotten`, `ShutdownIsNotForgotten`, `DestroyedWhenDown` | `TypeOK`, `UpThenDownOnce`, `DownIsUnwatched`, `OutputIsWatched`, `ShutdownIsPending`, `DestroyedAfterDown` |
| | `OutputComesFirst` | the action property `OutputBeforeShutdown` |
| | `NoUseAfterFreeAlone` | `NoUseAfterFree`, when there are no user threads |
| `ThreadCacheProofs` | `CacheTypeCorrect`, `BlocksInOnePlace`, `CacheImplements` | `TypeOK`, `EveryBlockInOnePlace`; the caches implement `Allocator` |
| `MemoryProofs` | `MemoryImplementsEach` | `MCMemory` implements `ThreadCache`, `PageCache` and `MemoryPool` |
| | `MemoryTyped`, `BlocksKept`, `AllocatorsKept`, `PagesKept`, `SlotsKept` | all properties of the run `memory` |
| `PoolsProofs` | `PoolsImplementEach` | `MCPools` implements `ThreadPool`, `EchoServer` and `ConnectionPool` |
| | `ConnectionTypeCorrect`, `ConnectionsCounted`, `CountBounded`, `ProducerNotMissed`, `EmptyWhenClosed` | all invariants of `ConnectionPool` |
| | `PoolsTyped`, `DestroyedDrained`, `SleepersCorrect`, `EdgesRemembered` | the types, and all invariants of `ThreadPool` and `EchoServer` |
| `ListsProofs` | `ListsCorrect` | `ListsRight`, for inputs of any length over any integers |
| `ProgramsProofs` | `ProgramsImplementEach` | `MCPrograms` implements its five parts |
| | `MoveIsDownward`, `BufferCorrect` | `makeSpace` only moves bytes to lower positions; `TypeOK` and `BytesKept` |
| | `ProgramsTyped`, `OwnersAreCounted`, `MoneyIsKept`, `StuckAsKnown`, `SumsAreOfRanges` | the types, and all invariants of `SharedPtr`, `BankTransfer` and `Counters` |
| | `ListsAreRight` | `ListsRight` of the joined specification |

What is assumed. Some modules name it in an `ASSUME`, which TLC evaluates too: sizes are natural
numbers, the bounds `MaxOut`, `MaxQueue` and `MaxEventfd` are not 0, the base loop is none of the
others, the borrowers are finitely many and `minSize <= maxSize`; in `ThreadCache`, that the
sizes passed are natural numbers, 0 among them or not, that the bytes of the system fit in a `size_t`, and
the number of its blocks with the threshold too; in `Lists`,
that the values are integers and `nullptr` is not mistaken for one. Where a module is used through an `INSTANCE`, the theorem has it as a hypothesis:

| Hypothesis | Says |
|---|---|
| `ThreadConstants`, `EchoConstants` | finitely many workers, one at least; finitely many connections; the sizes are numbers; `None` is none of them |
| `PtrConstants` | finitely many pointers; `Null` and `Unborn` are no objects |
| `BankConstants`, `CountConstants` | balances and `MAX` are numbers, `concurrent_count` is not 0; `Nobody` holds no lock |
| `HeapConstants` | the pages can be counted |
| `PoolConstants` | a block has a slot at least; `nullptr` and what users leave in a slot are not mistaken for a slot or for each other |

The instances the runs check satisfy all of them.

The arguments:

- *Wakeups.* `NoLostWakeup` speaks of a sleeping loop and is not inductive: a functor may be left
  behind long before the loop sleeps. `WakeupInv` adds that, from the swap until the next poll
  returns, a functor left in `pendingFunctors_` has its wakeup already, or is about to get it,
  either from the thread that pushed it or, because `callingPendingFunctors_` is set, from the
  loop itself; or else all that is left was queued by the own thread before `loop()` (`OnlyEarly`), which
  the first swap ends.
- *Order.* `pushed = ran \o functors \o pendingFunctors` is inductive with the fact that the local
  vector is empty outside `doPendingFunctors`; the steps are lemmas about concatenation.
- *Loops and connections.* The invariant of `TcpServer` is a conjunction of parts about different
  things, `TypeOK` among them. `LoopInv` and `EventInv`: what a loop has in hand, and that it handles only its own
  connections. `FunctorInv` and `OnceInv`: what a waiting functor says of the connection it is bound
  to, and that `connectEstablished` is queued once. `LifeInv` and `ChannelInv`: `state_`, what the user was
  told, the channel and `outputBuffer_` go together (`out > 0` exactly when `EPOLLOUT` is wanted).
  `UserInv`: where user threads are. `MapInv` and `OrderInv`: a connection that is up is in the map, or
  `~TcpServer` has taken it out, and then its `connectDestroted` is queued behind what users
  queued for it. `ShutdownIsPending` is a part itself. Proving each part against each action would be
  too much; instead the actions are summed up once in what they may do to one connection
  (`ConnStep`), to one queue (`QueueStep`) and to what never comes back (`Lasting`), and the parts are
  proved from these wherever that suffices. `NoUseAfterFreeAlone` needs `AloneInv` on top: without
  user threads every functor owns its connection, and active channels are of connections that the
  map or such a functor keeps.
- *Pool.* `Inv` ties `cur`, `started` and `next_` to where the owner is, `loop_` and the life of
  the `EventLoop` to where its thread is, and `served` to `next_` (loops before `next_` have been
  served once more than the others). `JoinInv` adds that a loop the destructor has not come to and
  that is told to quit was told so by its own callback; hence a thread the destructor passes over
  is in `selfQuit`.
- *Buffer.* The indices are ordered and lie in the vector; each way of making room
  (`AppendInPlaceCorrect`, `AppendMovingCorrect`, `AppendGrowingCorrect`) keeps the readable bytes.
- *Connections.* In the first life each step that changes the queue, the count or a borrower
  changes them together; `Lent` is a finite set, so taking and giving back change its
  cardinality by one. `ProducerInv` needs that `exit_` is clear from the first `start()` to
  `close()`, which is `ExitInv`.
- *Tasks.* `DrainInv` says what makes draining possible: a worker leaves only once the exit flag
  is set (`LeftAtExit`), a task that has been accepted and not ended is in the queue or with a
  worker (`NoTaskAstray`), and when every worker is gone the queue is empty
  (`LastLeavesNothing`: a task that submits another keeps its own worker from leaving).
  `SleepersCorrect` weighs the queue against the workers still on their way to look at it and the
  notification the owner still owes.
- *Money.* `MoneyKept` is not inductive: a balance read before the write could be stale. `Phases`
  and `Locking` say which locks a thread holds at each place, `Reading` that what a thread read is
  still the balance when it writes, and `Waiting` who sleeps in program 11, and on what balance.
- *Owners.* `Number(m_ptr, o)` is the cardinality of the set of pointers to `o`; each constructor
  and assignment changes it by at most one for each object, and the counter with it (`Counted`).
  The end of a pointer changes the number alone, and `ended` makes up for it. An object nobody has
  owned yet has no pointer to it.
- *Edges.* `NoEdgeForgotten` needs `Polled`: what is ready or active is registered, and a descriptor
  polled while it is still level-triggered stays on the ready list, so that using up its event
  loses nothing. Each step then hands the duty to read on: from the ready list to the active
  channels, to a queued task, to a thread, which gives it up only when the socket is empty.

- *Ranges.* The ranges of `Counters` are disjoint, and with `Missed` they cover the terms: facts about
  division, proved as `Ends` and the lemmas after it. The invariant says that a term is in the sum
  at most once, and only when its thread has added it, which except in 06 is also when it is there
  (`SumIsAdded`); and that, except in 06, a thread in the middle of an addition has read the sum
  as it is and no other can write it (`ReadIsAdded`).
- *Lists of blocks.* A chain in memory is described by a sequence: `IsList(B, m, h, s, n)` says that from
  the head `h` the links `m` lead through the `n` different blocks of `s` to null. `WalkIs` says that what
  the model finds by following links is that sequence (for every length, by the least index at
  which it would not be), and each kind of step has a lemma: the head is taken (`ListHead`), a block is
  put in front (`ListPush`), a list is cut and a part joined to another (`Suffix`, `Spliced`), or written to
  nowhere (`Framed`). The invariant of `ThreadCache` gives each place such a list and says that each
  block is in one of them. Which blocks a cut may lose depends on the counter: until a fetch fails it is the
  length of the list or one less, so that `returnRange` is told of 0 bytes or of at least as many as there are
  blocks (`BytesOf`).
- *Pages.* Spans lie apart and cover what the system has given; each is in the list of its size or held;
  `spanMap_` has a span under its own first page. The model takes a new name for each new span, and
  one is always left because spans that lie apart in finitely many pages are fewer than the
  names (the pigeonhole principle, for the function from a span to its first page).
- *The lock-free stack.* Until ABA, it is a list and each slot is in one place (`PoolHeld`). A push is safe
  because its slot is on no list while its link is written (`PushNextKeeps`), and is linked to the head
  that the exchange compares (`ToBePushed`); nothing has to be known of the head a pop has read,
  because the exchange either finds that its link is still right or is the ABA at which the property
  ends. `allocateNewBlock()` moves the whole stack to `dropped`. That users see an `Allocator`
  (`PoolImplements`) takes one thing more: the slot a pop gives has no user even when the pop is the ABA
  itself, because the head it took was still on the stack; only the link it installed was old.
- *Lists.* `ListsInv` is a disjunction: the call that runs satisfies the loop invariant of its function.
  Each of these has lemmas that the call establishes it (`...Starts`) and that each of its turns keeps it
  (`...Keeps`); since the property is its case for a call that has returned, nothing else is needed. The
  invariants say in general what a textbook says of the loop:
  - `twoSum`: no pair with the sum has an element outside the pointers; `findFromEnd`: the pointers are `k`
    apart; the functions that exchange from both ends: what is outside is done;
    `removeDulpicates`: the values passed so far have been kept once each (`Once`).
  - Merging: `Drawn(t, lists, P)` says that `t` has been drawn from the set of places `P`, one element from
    each, by a bijection; each turn adds a place and an element (`DrawnOne`), and in the end `P`
    is every place. That gives the number of occurrences of each value, by comparing two finite sets.
  - `quick_sort`: the ranges still to be sorted lie apart, and two elements that are not in the same one
    are in order (`SortedApart`), which the exchanges within a range cannot disturb as they permute it. For the turns,
    `Cost` counts the places that lie in no range any more (`Settled`) and the ranges; a partition
    settles one place more and takes at most four turns for each place the pointers move.
  - Cycles: every list of finitely many nodes is a line that ends or a line that returns to one of its
    nodes (`Line`, `Lasso`: the longest path without a repetition, again by a least number). Where slow
    and fast are after `k` turns is a position on it plus some laps of the cycle (`Laps`), so they meet
    within as many turns as the list has nodes, at a number that is a multiple of the length of the
    cycle (`TheyMeet`); from there, and from the head, it is equally far to its first node.
  - `minWindow`: the counts are those of the window between the pointers (`WindowCounts`), and the window
    found so far beats each that ends before (`WindowBest`), because what has been shrunk past
    cannot start a shorter one.
- *Joined specifications.* In `MCMemory`, `MCPools` and `MCPrograms` one part moves and the others stutter,
  so the joined specification implements each part, and what is proved of a part holds in it.

Model-checked only:

- all liveness properties, and the fairness in them: `QueuedRunsUnlessQuit`, `QuitStopsRunningLoop`,
  `StartTerminates`, `DestroyTerminatesWhenLooping`, `ClosedIsDestroyed`, `PoolProgress`,
  `AnsweredUnlessKnown`, `CloseEndsThreads`, and that part of `ImplementsExecutor` (fairness and ENABLED
  are beyond the prover);
- `SearchesRight`: `Searches` has RECURSIVE operators, with which the prover loses its arithmetic. As
  steps, like `Lists`, the depth-first searches would need an invariant of their stack, which is
  not done;
- `NoUseAfterFree` of `TcpServer` with user threads is false, and no run checks it: see section 4.

## 6. Not modelled, and why

- The write-complete and high-water-mark callbacks of `TcpConnection`, `handleError` (it logs), signals
  (`SIGPIPE`), the order of the bytes of `send` against those of `sendFile`.
- `EPollPoller::removeChannel` and the growth of `events_`; accept errors; `getAllLoops`.
- Size classes other than the one in the model (`Common.hpp` maps sizes to classes; each class has its
  own lists and locks), blocks larger than `MAX_BYTES`; the destructor of `MemoryPool`, the padding in
  its blocks, weaker memory orders than sequential consistency.
- How old an idle database connection is: the scanner may find any prefix of the queue old enough.
  A connection given back notifies nobody, so a borrower may wait out its timeout beside it; the
  delay is not modelled.
- In day12: the map of connections, which several threads write at once without a lock, and
  destructors and `deleteConnection()`, which nothing calls.
- `Timer-mgkl`: `timer.h` does not compile (`TimeNode` at line 70, `mutex` at line 117). Parts of `Algorithm`
  do not compile or do not end (`StackedQueue`, `BinaryTree`, `Array.cpp`; the breadth-first
  `canFinish`, `isBipartite`, Prim; LCS, knapsack, LPS and the compressed `canPartition`), and
  `SafeSharedPtr` does not compile. The coroutine examples are commented out.
- Wrappers of system calls, logging, examples of single library features, tutorials, day01–day11.
- 22 091 of the repository's 36 768 lines of code are `json.hpp`, a third-party library copied in; the
  programs modelled here are most of what remains and keeps state.

## 7. What could follow

1. Write-complete and high-water-mark callbacks in `TcpServer`, which queue functors that own their
   connection.
2. The searches as steps, one turn of a loop or one call each, as `Lists` has it, so that what they
   compute can be proved by an invariant: the greedy functions first, which are single loops.
3. That `TcpServer` with the detailed `EventLoop` in each thread implements `TcpServer` with its FIFO
   executors.
4. `Timer`, once its header compiles: `~Timer` joins the tick thread before it notifies it.
