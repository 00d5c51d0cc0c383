---------------------------- MODULE ThreadCache ----------------------------
(***************************************************************************)
(* memory-mgkl: the thread caches and the central cache of one size class. *)
(* A free block holds the pointer to the next one in its first bytes, so a *)
(* list is a head and the memory of the blocks themselves, which belongs to*)
(* the user while the block is in use.                                     *)
(*                                                                         *)
(* A thread works on its own list without a lock; the lists of the central *)
(* cache are locked, one lock for each size class, and everything done     *)
(* under that lock is one step here.  The central cache is the only user of*)
(* PageCache, from which it asks whole spans and to which it returns none, *)
(* so that every span is one the system has just given.                    *)
(*                                                                         *)
(* What a thread says it returns may be less than what it returns, and     *)
(* returnRange() loses the blocks that are more: each failed fetch leaves  *)
(* freeListSize_ one further below the length of the list, and who frees a *)
(* block with the size 0 returns 0 bytes.                                  *)
(***************************************************************************)
EXTENDS Integers, FiniteSets

CONSTANTS
    Threads,
    MaxSpans,       \* bound: spans the system can give
    BlocksPerSpan,  \* SPAN_PAGES * PAGE_SIZE / size
    threshold,      \* 64 in the code
    AlignedSizes,   \* alingedSize: what ceil() gives for the sizes of the class, that
                    \* is its block size, and for index 0 also 0, which is ceil(0)
    SizeMod,        \* 2^64: freeListSize_ is a size_t
    Null,           \* nullptr
    Junk            \* what a user leaves in a block

Block == (1..MaxSpans) \X (1..BlocksPerSpan)
Pointer == Block \union {Null}

\* The system's memory fits in its address space.
ASSUME ThreadCacheAssumption ==
    /\ MaxSpans \in Nat \ {0} /\ BlocksPerSpan \in Nat \ {0}
    /\ threshold \in Nat /\ AlignedSizes \subseteq Nat
    /\ SizeMod \in Nat
    /\ \A size \in AlignedSizes : SizeMod > MaxSpans * BlocksPerSpan * size
    /\ SizeMod > threshold + MaxSpans * BlocksPerSpan
    /\ Null \notin Block

VARIABLES
    next,          \* the first bytes of each block
    freeList,      \* freeList_[index] of each thread
    freeListSize,  \* freeListSize_[index] of each thread
    central,       \* centralFreeList_[index]
    spans,         \* how many spans the system has given
    users,         \* how many users have been given each block
    pc,            \* where each thread is in allocate() or deallocate()
    arg,           \* what it carries: the block fetched; the blocks to return and
                   \* how many bytes it says they are
    refused,       \* history: a fetch has failed
    lost,          \* history: the blocks returnRange() has lost
    unsized        \* history: those it lost because it was told of 0 bytes

history == <<refused, lost, unsized>>
vars == <<next, freeList, freeListSize, central, spans, users, pc, arg, history>>

Init ==
    /\ next = [b \in Block |-> Null]
    /\ freeList = [t \in Threads |-> Null]
    /\ freeListSize = [t \in Threads |-> 0]
    /\ central = Null
    /\ spans = 0
    /\ users = [b \in Block |-> 0]
    /\ pc = [t \in Threads |-> "idle"]
    /\ arg = [t \in Threads |-> [start |-> Null, size |-> 0]]
    /\ refused = FALSE /\ lost = {} /\ unsized = {}

\* The node n links after the head h, in memory m; Null past the end.
Nth(m, h, n) ==
    LET node[i \in 0..n] ==
            IF i = 0 THEN h
            ELSE LET prev == node[i - 1]
                 IN IF prev \in Block THEN m[prev] ELSE Null
    IN node[n]

\* The blocks linked from the head h.
Chain(m, h) == {Nth(m, h, n) : n \in 0..Cardinality(Block)} \ {Null}

Smaller(m, n) == IF m < n THEN m ELSE n
Larger(m, n) == IF m < n THEN n ELSE m

Return(t) ==
    /\ pc' = [pc EXCEPT ![t] = "idle"]
    /\ arg' = [arg EXCEPT ![t] = [start |-> Null, size |-> 0]]

-----------------------------------------------------------------------------
(* allocate()                                                              *)

\* Bug: the head of the free list is not moved on.
BugAllocateLocalKeepsHead(t) ==
    /\ pc[t] = "idle" /\ freeList[t] # Null
    /\ freeListSize' = [freeListSize EXCEPT ![t] = (@ - 1) % SizeMod]
    /\ users' = [users EXCEPT ![freeList[t]] = @ + 1]
    /\ next' = [next EXCEPT ![freeList[t]] = Junk]
    /\ UNCHANGED <<freeList, central, spans, pc, arg, history>>

\* The thread has a block.
AllocateLocal(t) ==
    /\ pc[t] = "idle" /\ freeList[t] # Null
    /\ freeListSize' = [freeListSize EXCEPT ![t] = (@ - 1) % SizeMod]
    /\ freeList' = [freeList EXCEPT ![t] = next[freeList[t]]]
    /\ users' = [users EXCEPT ![freeList[t]] = @ + 1]
    /\ next' = [next EXCEPT ![freeList[t]] = Junk]
    /\ UNCHANGED <<central, spans, pc, arg, history>>

\* Bug: the counter goes below zero.
BugAllocateMissUnderflows(t) ==
    /\ pc[t] = "idle" /\ freeList[t] = Null
    /\ freeListSize' = [freeListSize EXCEPT ![t] = @ - 1]
    /\ pc' = [pc EXCEPT ![t] = "fetch"]
    /\ UNCHANGED <<next, freeList, central, spans, users, arg, history>>

\* It has none; freeListSize_ has been decremented all the same.
AllocateMiss(t) ==
    /\ pc[t] = "idle" /\ freeList[t] = Null
    /\ freeListSize' = [freeListSize EXCEPT ![t] = (@ - 1) % SizeMod]
    /\ pc' = [pc EXCEPT ![t] = "fetch"]
    /\ UNCHANGED <<next, freeList, central, spans, users, arg, history>>

Fetched(t, b) ==
    /\ pc' = [pc EXCEPT ![t] = "take"]
    /\ arg' = [arg EXCEPT ![t].start = b]
    /\ UNCHANGED <<freeList, freeListSize, users, history>>

\* CentralCache::fetchRange(): the first block of the central list, ...
FetchCentral(t) ==
    /\ pc[t] = "fetch" /\ central # Null
    /\ central' = next[central]
    /\ next' = [next EXCEPT ![central] = Null]
    /\ Fetched(t, central)
    /\ UNCHANGED spans

\* ... or of a new span, the rest of which becomes the central list, ...
FetchSpan(t) ==
    /\ pc[t] = "fetch" /\ central = Null /\ spans < MaxSpans
    /\ spans' = spans + 1
    /\ next' = [b \in Block |->
                  IF b[1] # spans' THEN next[b]
                  ELSE IF b[2] \in 2..(BlocksPerSpan - 1) THEN <<spans', b[2] + 1>>
                  ELSE Null]
    /\ central' = IF BlocksPerSpan > 1 THEN <<spans', 2>> ELSE Null
    /\ Fetched(t, <<spans', 1>>)

\* ... or nothing, when the system has no memory: allocate() returns nullptr.
FetchFails(t) ==
    /\ pc[t] = "fetch" /\ central = Null /\ spans = MaxSpans
    /\ Return(t)
    /\ refused' = TRUE
    /\ UNCHANGED <<next, freeList, freeListSize, central, spans, users, lost, unsized>>

\* The rest of fetchFromCentralCache().
TakeFetched(t) ==
    LET b == arg[t].start
    IN /\ pc[t] = "take"
       /\ freeList' = [freeList EXCEPT ![t] = next[b]]
       /\ freeListSize' = [freeListSize EXCEPT
                             ![t] = (@ + Cardinality(Chain(next, b))) % SizeMod]
       /\ users' = [users EXCEPT ![b] = @ + 1]
       /\ next' = [next EXCEPT ![b] = Junk]
       /\ Return(t)
       /\ UNCHANGED <<central, spans, history>>

-----------------------------------------------------------------------------
(* deallocate(), by whichever thread                                       *)

\* returnToCentralCache(): the first keepNum + 1 blocks of the list stay (the split
\* is keepNum links after the head), freeListSize_ becomes keepNum.
SplitOff(t, m, h, batchNum, alignedSize) ==
    LET keepNum == Larger(batchNum \div 4, 1)
        len == Cardinality(Chain(m, h))
        splitNode == IF keepNum < len THEN Nth(m, h, keepNum) ELSE Null
    IN IF batchNum <= 1 \/ splitNode = Null
       THEN /\ next' = m
            /\ freeListSize' = [freeListSize EXCEPT ![t] = batchNum]
            /\ UNCHANGED <<pc, arg>>
       ELSE /\ next' = [m EXCEPT ![splitNode] = Null]
            /\ freeListSize' = [freeListSize EXCEPT ![t] = keepNum]
            /\ IF m[splitNode] = Null THEN UNCHANGED <<pc, arg>>
               ELSE /\ pc' = [pc EXCEPT ![t] = "return"]
                    /\ arg' = [arg EXCEPT ![t] = [start |-> m[splitNode],
                            size |-> ((batchNum - keepNum) * alignedSize) % SizeMod]]

\* The block goes to the head of the thread's list; past the threshold, part of the
\* list goes to the central cache.  allocate(0) gives a block of index 0, and the
\* size its user passes here may well be that 0.
Deallocate(t, b, alignedSize) ==
    LET m == [next EXCEPT ![b] = freeList[t]]
        size == (freeListSize[t] + 1) % SizeMod
    IN /\ pc[t] = "idle" /\ users[b] > 0
       /\ users' = [users EXCEPT ![b] = @ - 1]
       /\ freeList' = [freeList EXCEPT ![t] = b]
       /\ IF size > threshold
          THEN SplitOff(t, m, b, size, alignedSize)
          ELSE /\ next' = m
               /\ freeListSize' = [freeListSize EXCEPT ![t] = size]
               /\ UNCHANGED <<pc, arg>>
       /\ UNCHANGED <<central, spans, history>>

\* Bug: the central list is forgotten.
BugReturnRangeForgets(t) ==
    /\ pc[t] = "return"
    /\ central' = arg[t].start
    /\ Return(t)
    /\ UNCHANGED <<next, freeList, freeListSize, spans, users, history>>

\* CentralCache::returnRange(): the walk to the last block stops at `size', the bytes
\* returned, which it compares with the number of blocks.  The blocks past it are lost.
ReturnRange(t) ==
    LET start == arg[t].start
        size == arg[t].size
        count == Smaller(Cardinality(Chain(next, start)), Larger(size, 1))
        end == Nth(next, start, count - 1)
    IN /\ pc[t] = "return"
       /\ lost' = lost \union Chain(next, next[end])
       /\ unsized' = IF size = 0 THEN unsized \union Chain(next, next[end]) ELSE unsized
       /\ next' = [next EXCEPT ![end] = central]
       /\ central' = start
       /\ Return(t)
       /\ UNCHANGED <<freeList, freeListSize, spans, users, refused>>

-----------------------------------------------------------------------------
Step(t) ==
    \/ AllocateLocal(t) \/ AllocateMiss(t)
    \/ FetchCentral(t) \/ FetchSpan(t) \/ FetchFails(t) \/ TakeFetched(t)
    \/ \E b \in Block, alignedSize \in AlignedSizes : Deallocate(t, b, alignedSize)
    \/ ReturnRange(t)

Next == \E t \in Threads : Step(t)

Spec == Init /\ [][Next]_vars

-----------------------------------------------------------------------------
(* Properties.                                                             *)

\* Every variable has its type.
TypeOK ==
    /\ next \in [Block -> Pointer \union {Junk}]
    /\ freeList \in [Threads -> Pointer]
    /\ freeListSize \in [Threads -> 0..(SizeMod - 1)]
    /\ central \in Pointer
    /\ spans \in 0..MaxSpans
    /\ users \in [Block -> Nat]
    /\ pc \in [Threads -> {"idle", "fetch", "take", "return"}]
    /\ arg \in [Threads -> [start : Pointer, size : 0..(SizeMod - 1)]]
    /\ refused \in BOOLEAN /\ lost \subseteq Block /\ unsized \subseteq lost

\* The places a block can be in: with the users, in the central list, in the list of
\* a thread, on its way to or from the central cache, or lost.
Places == {<<"used">>, <<"central">>, <<"lost">>} \union ({"list", "way"} \X Threads)

In(p) ==
    CASE p[1] = "used" -> {b \in Block : users[b] > 0}
      [] p[1] = "central" -> Chain(next, central)
      [] p[1] = "lost" -> lost
      [] p[1] = "list" -> Chain(next, freeList[p[2]])
      [] p[1] = "way" -> Chain(next, arg[p[2]].start)

\* Every block is in one place, whichever threads allocate and free it: a block in two
\* lists would be handed out twice, and a list that runs through a block in use would
\* follow what its user wrote there.  Before a fetch has failed none is lost but by
\* the return of 0 bytes to which deallocate(p, 0) may lead.
EveryBlockInOnePlace ==
    /\ UNION {In(p) : p \in Places} = {b \in Block : b[1] <= spans}
    /\ \A p, q \in Places : p # q => In(p) \intersect In(q) = {}
    /\ lost # unsized => refused

\* The caches implement the abstract allocator: allocate() returns only blocks that
\* nobody holds.
A == INSTANCE Allocator
ImplementsAllocator == A!Spec

\* "freeListSize_ monitors the number of blocks in the free list."
FreeListSizeIsLength ==
    \A t \in Threads : pc[t] \in {"idle", "return"} =>
        freeListSize[t] = Cardinality(Chain(next, freeList[t]))
=============================================================================
