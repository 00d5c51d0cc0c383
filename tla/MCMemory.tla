------------------------------- MODULE MCMemory -------------------------------
(***************************************************************************)
(* The three parts of memory-mgkl that share no state here, in one run: a  *)
(* behaviour is one of ThreadCache, of PageCache or of MemoryPool.         *)
(***************************************************************************)
EXTENDS MCThreadCache

CONSTANTS Pages, SlotsPerBlock, MaxBlocks   \* of PageCache and MemoryPool

VARIABLES
    part,    \* which part the behaviour is of
    span, freeSpans, spanMap, held, mapped, crashed,
    slotNext, slotFreeList, cut, blocks, slotUsers, poolPc, slot, link, aba, dropped

Heap == INSTANCE PageCache

Pool == INSTANCE MemoryPool WITH
    next <- slotNext, freeList <- slotFreeList, users <- slotUsers, pc <- poolPc

cacheVars == vars
heapVars == <<span, freeSpans, spanMap, held, mapped, crashed>>
poolVars == <<slotNext, slotFreeList, cut, blocks, slotUsers, poolPc, slot, link, aba, dropped>>
allVars == <<part, cacheVars, heapVars, poolVars>>

MemoryInit ==
    /\ part \in {"caches", "heap", "pool"}
    /\ Init /\ Heap!Init /\ Pool!Init

MemoryNext ==
    /\ UNCHANGED part
    /\ \/ part = "caches" /\ Next /\ UNCHANGED <<heapVars, poolVars>>
       \/ part = "heap" /\ Heap!Next /\ UNCHANGED <<cacheVars, poolVars>>
       \/ part = "pool" /\ Pool!Next /\ UNCHANGED <<cacheVars, heapVars>>

MemorySpec == MemoryInit /\ [][MemoryNext]_allVars

\* The type invariants of the three modules.
AllTyped == TypeOK /\ Heap!TypeOK /\ Pool!TypeOK

\* PageCache: see there.
EveryPageInOneSpan == Heap!EveryPageInOneSpan

\* MemoryPool: see there.
EverySlotInOnePlace == Pool!EverySlotInOnePlace

SlotA == INSTANCE Allocator WITH users <- slotUsers, Block <- Pool!Slots

\* What users see of the thread caches is an allocator, and so is what they see of the pool:
\* whatever the threads do at the same time, allocate() gives no slot that has a user, not
\* even in the pop that meets ABA, and deallocate() takes back a slot that has one.
BothImplementAllocator == ImplementsAllocator /\ SlotA!Spec
=============================================================================
