------------------------------ MODULE MemoryPool ------------------------------
(***************************************************************************)
(* memory-mgkl, src/MemoryPool.cpp: a pool of slots of one size.  Freed    *)
(* slots form a lock-free stack, linked through their own memory; when it  *)
(* is empty, slots are cut from a block under a mutex.                     *)
(*                                                                         *)
(* Each access to freeList_ or to a link is a step; the order of memory is *)
(* taken to be sequentially consistent.  A user writes Junk over the link. *)
(* Two things go wrong, and the history variables say when: a pop whose    *)
(* head was popped and pushed again meanwhile installs a link that is out  *)
(* of date (ABA), and a new block throws the stack away.                   *)
(***************************************************************************)
EXTENDS Naturals, FiniteSets

CONSTANTS
    Threads,
    SlotsPerBlock,
    MaxBlocks,     \* bound: blocks the system can give
    Null, Junk

Slots == 1..(SlotsPerBlock * MaxBlocks)   \* in the order they are cut

VARIABLES
    next,       \* the first bytes of each slot
    freeList,   \* freeList_
    cut,        \* slots before curSlot_
    blocks,     \* blocks allocated; lastSlot_ is the end of the last one
    users,      \* how many users each slot has
    pc,         \* where each thread is
    slot,       \* the slot it pushes, or its oldHead in a pop
    link,       \* its oldHead in a push, its newHead in a pop
    aba,        \* history: a pop has installed a link that is out of date
    dropped     \* history: the slots allocateNewBlock() has thrown away

vars == <<next, freeList, cut, blocks, users, pc, slot, link, aba, dropped>>

Init ==
    /\ next = [s \in Slots |-> Junk]
    /\ freeList = Null
    /\ cut = 0 /\ blocks = 0
    /\ users = [s \in Slots |-> 0]
    /\ pc = [t \in Threads |-> "idle"]
    /\ slot = [t \in Threads |-> Null] /\ link = [t \in Threads |-> Null]
    /\ aba = FALSE /\ dropped = {}

Goto(t, l) == pc' = [pc EXCEPT ![t] = l]

\* The thread is back in its caller.
Return(t) ==
    /\ Goto(t, "idle")
    /\ slot' = [slot EXCEPT ![t] = Null]
    /\ link' = [link EXCEPT ![t] = Null]

\* The caller of allocate() has slot s.
Give(s) ==
    /\ users' = [users EXCEPT ![s] = @ + 1]
    /\ next' = [next EXCEPT ![s] = Junk]

\* The slots on the stack, from the head h.
Chain(h) ==
    LET node[i \in 0..Cardinality(Slots)] ==
            IF i = 0 THEN h
            ELSE IF node[i - 1] \in Slots THEN next[node[i - 1]] ELSE Null
    IN {node[i] : i \in DOMAIN node} \intersect Slots

-----------------------------------------------------------------------------
(* allocate(): popFreeList() first.                                        *)

PopHead(t) ==
    /\ pc[t] \in {"idle", "pop"}
    /\ IF freeList = Null
       THEN Goto(t, "block") /\ UNCHANGED slot
       ELSE /\ Goto(t, "popNext")
            /\ slot' = [slot EXCEPT ![t] = freeList]
    /\ UNCHANGED <<next, freeList, cut, blocks, users, link, aba, dropped>>

PopNext(t) ==
    /\ pc[t] = "popNext"
    /\ link' = [link EXCEPT ![t] = next[slot[t]]]
    /\ Goto(t, "popSwap")
    /\ UNCHANGED <<next, freeList, cut, blocks, users, slot, aba, dropped>>

\* Bug: the head is stored, not compared.
BugPopSwap(t) ==
    /\ pc[t] = "popSwap"
    /\ freeList' = link[t]
    /\ aba' = FALSE
    /\ Give(slot[t])
    /\ Return(t)
    /\ UNCHANGED <<cut, blocks, dropped>>

PopSwap(t) ==
    /\ pc[t] = "popSwap" /\ freeList = slot[t]
    /\ freeList' = link[t]
    /\ aba' = (link[t] # next[slot[t]])
    /\ Give(slot[t])
    /\ Return(t)
    /\ UNCHANGED <<cut, blocks, dropped>>

\* compare_exchange_weak may fail whatever the head is.
PopFails(t) ==
    /\ pc[t] = "popSwap"
    /\ Goto(t, "pop")
    /\ slot' = [slot EXCEPT ![t] = Null] /\ link' = [link EXCEPT ![t] = Null]
    /\ UNCHANGED <<next, freeList, cut, blocks, users, aba, dropped>>

\* Under blockMutex_, the next slot of the block ...
TakeSlot(t) ==
    /\ pc[t] = "block" /\ cut < blocks * SlotsPerBlock
    /\ cut' = cut + 1
    /\ Give(cut + 1)
    /\ Return(t)
    /\ UNCHANGED <<freeList, blocks, aba, dropped>>

\* ... or the first one of a new block, which resets freeList_.
TakeBlock(t) ==
    /\ pc[t] = "block" /\ cut = blocks * SlotsPerBlock /\ blocks < MaxBlocks
    /\ blocks' = blocks + 1
    /\ cut' = cut + 1
    /\ freeList' = Null
    /\ dropped' = dropped \union Chain(freeList)
    /\ Give(cut + 1)
    /\ Return(t)
    /\ UNCHANGED aba

\* operator new throws.
BlockFails(t) ==
    /\ pc[t] = "block" /\ cut = blocks * SlotsPerBlock /\ blocks = MaxBlocks
    /\ Return(t)
    /\ UNCHANGED <<next, freeList, cut, blocks, users, aba, dropped>>

-----------------------------------------------------------------------------
(* deallocate(): pushFreeList(), by whichever thread has the slot.         *)

PushHead(t) ==
    \/ /\ pc[t] = "idle"
       /\ \E s \in Slots :
            /\ users[s] > 0
            /\ users' = [users EXCEPT ![s] = @ - 1]
            /\ slot' = [slot EXCEPT ![t] = s]
       /\ link' = [link EXCEPT ![t] = freeList]
       /\ Goto(t, "pushNext")
       /\ UNCHANGED <<next, freeList, cut, blocks, aba, dropped>>
    \/ /\ pc[t] = "push"
       /\ link' = [link EXCEPT ![t] = freeList]
       /\ Goto(t, "pushNext")
       /\ UNCHANGED <<next, freeList, cut, blocks, users, slot, aba, dropped>>

PushNext(t) ==
    /\ pc[t] = "pushNext"
    /\ next' = [next EXCEPT ![slot[t]] = link[t]]
    /\ Goto(t, "pushSwap")
    /\ UNCHANGED <<freeList, cut, blocks, users, slot, link, aba, dropped>>

PushSwap(t) ==
    /\ pc[t] = "pushSwap" /\ freeList = link[t]
    /\ freeList' = slot[t]
    /\ Return(t)
    /\ UNCHANGED <<next, cut, blocks, users, aba, dropped>>

PushFails(t) ==
    /\ pc[t] = "pushSwap"
    /\ Goto(t, "push")
    /\ link' = [link EXCEPT ![t] = Null]
    /\ UNCHANGED <<next, freeList, cut, blocks, users, slot, aba, dropped>>

-----------------------------------------------------------------------------
Step(t) ==
    \/ PopHead(t) \/ PopNext(t) \/ PopSwap(t) \/ PopFails(t)
    \/ TakeSlot(t) \/ TakeBlock(t) \/ BlockFails(t)
    \/ PushHead(t) \/ PushNext(t) \/ PushSwap(t) \/ PushFails(t)

\* A stack with a link out of date leads into memory its users write to: nothing more
\* is said of it.
Next == ~aba /\ \E t \in Threads : Step(t)

Spec == Init /\ [][Next]_vars

-----------------------------------------------------------------------------
(* Properties.                                                             *)

\* Every variable has its type; the stack ends in Null until a pop has met ABA.
TypeOK ==
    /\ next \in [Slots -> Slots \union {Null, Junk}]
    /\ freeList \in Slots \union {Null} \union (IF aba THEN {Junk} ELSE {})
    /\ cut \in 0..(blocks * SlotsPerBlock) /\ blocks \in 0..MaxBlocks
    /\ users \in [Slots -> Nat]
    /\ pc \in [Threads -> {"idle", "pop", "popNext", "popSwap", "block",
                           "push", "pushNext", "pushSwap"}]
    /\ slot \in [Threads -> Slots \union {Null}]
    /\ link \in [Threads -> Slots \union {Null, Junk}]
    /\ aba \in BOOLEAN /\ dropped \subseteq Slots

\* Slots a thread is about to push.
Pushing == {t \in Threads : pc[t] \in {"push", "pushNext", "pushSwap"}}

\* Whatever the threads do at the same time, every slot that has been cut has one
\* user, or is on the stack, or is about to be pushed, or was thrown away with the
\* stack; until a pop has met ABA, none is given twice and none is lost otherwise.
EverySlotInOnePlace ==
    ~aba =>
        \A s \in Slots :
            LET onStack == IF s \in Chain(freeList) THEN 1 ELSE 0
                pushed == Cardinality({t \in Pushing : slot[t] = s})
                lost == IF s \in dropped THEN 1 ELSE 0
            IN users[s] + onStack + pushed + lost = (IF s <= cut THEN 1 ELSE 0)
=============================================================================
