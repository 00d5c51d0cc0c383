------------------------------ MODULE PageCache ------------------------------
(***************************************************************************)
(* memory-mgkl, src/PageCache.cpp: spans of pages, cut from larger ones    *)
(* when they are allocated and joined with the span behind them when they  *)
(* are given back.  One mutex makes each call a single step.               *)
(*                                                                         *)
(* freeSpans_ maps a size to a list of spans, and operator[] makes an empty*)
(* list of every size it is asked for.  The next allocateSpan() that comes *)
(* to such a list dereferences its null head.                              *)
(***************************************************************************)
EXTENDS Naturals, Sequences, FiniteSets

CONSTANT Pages    \* bound: pages the system can give; addresses are page numbers

VARIABLES
    span,       \* the Span objects there are: pageAddr and numPages of each
    freeSpans,  \* freeSpans_: from sizes to lists of spans, << >> for nullptr
    spanMap,    \* spanMap_: from addresses to spans
    held,       \* what users have: from addresses to numbers of pages
    mapped,     \* pages the system has given
    crashed     \* a null pointer was followed

vars == <<span, freeSpans, spanMap, held, mapped, crashed>>

Empty == [x \in {} |-> x]
Put(f, x, v) == [y \in DOMAIN f \union {x} |-> IF y = x THEN v ELSE f[y]]
Without(f, x) == [y \in DOMAIN f \ {x} |-> f[y]]
Least(S) == CHOOSE x \in S : \A y \in S : x <= y
PagesFrom(a, n) == a..(a + n - 1)

Init ==
    /\ span = Empty /\ freeSpans = Empty /\ spanMap = Empty
    /\ held = Empty /\ mapped = {} /\ crashed = FALSE

\* The identity of the next `new Span'.
NewSpan == Least((1..(Pages + 1)) \ DOMAIN span)

\* `s->next = freeSpans_[n]; freeSpans_[n] = s'
PushSpan(free, n, s) ==
    Put(free, n, IF n \in DOMAIN free THEN <<s>> \o free[n] ELSE <<s>>)

\* The search of a list for the Span x, which is unlinked where it is first found.
Unlink(list, x) ==
    LET found == {i \in 1..Len(list) : list[i] = x}
        i == Least(found)
    IN IF found = {} THEN list
       ELSE SubSeq(list, 1, i - 1) \o SubSeq(list, i + 1, Len(list))

-----------------------------------------------------------------------------
(* allocateSpan()                                                          *)

BigEnough(n) == {k \in DOMAIN freeSpans : k >= n}

Remainder(s, n) ==
    [pageAddr |-> span[s].pageAddr + n, numPages |-> span[s].numPages - n]

\* The first span of the smallest size that is large enough; what it has too much
\* becomes a free span, which spanMap_ does not know.
AllocateFree(n) ==
    LET k == Least(BigEnough(n))
        s == Head(freeSpans[k])
        rest == IF Len(freeSpans[k]) > 1 THEN [freeSpans EXCEPT ![k] = Tail(@)]
                ELSE Without(freeSpans, k)
    IN /\ BigEnough(n) # {} /\ freeSpans[k] # <<>>
       /\ IF span[s].numPages > n
          THEN /\ span' = Put([span EXCEPT ![s].numPages = n], NewSpan, Remainder(s, n))
               /\ freeSpans' = PushSpan(rest, Remainder(s, n).numPages, NewSpan)
          ELSE freeSpans' = rest /\ UNCHANGED span
       /\ spanMap' = Put(spanMap, span[s].pageAddr, s)
       /\ held' = Put(held, span[s].pageAddr, n)
       /\ UNCHANGED <<mapped, crashed>>

\* The list of that size is empty.
AllocateNull(n) ==
    /\ BigEnough(n) # {} /\ freeSpans[Least(BigEnough(n))] = <<>>
    /\ crashed' = TRUE
    /\ UNCHANGED <<span, freeSpans, spanMap, held, mapped>>

\* No size is large enough: the system gives pages anywhere.
AllocateSystem(n) ==
    /\ BigEnough(n) = {}
    /\ \E a \in 1..(Pages + 1 - n) :
         /\ PagesFrom(a, n) \intersect mapped = {}
         /\ span' = Put(span, NewSpan, [pageAddr |-> a, numPages |-> n])
         /\ spanMap' = Put(spanMap, a, NewSpan)
         /\ held' = Put(held, a, n)
         /\ mapped' = mapped \union PagesFrom(a, n)
    /\ UNCHANGED <<freeSpans, crashed>>

-----------------------------------------------------------------------------
(* deallocateSpan(p, n), with what allocateSpan(n) has returned            *)

\* No span that is known begins behind this one.
DeallocateAlone(p) ==
    LET s == spanMap[p]
    IN /\ p + held[p] \notin DOMAIN spanMap
       /\ freeSpans' = PushSpan(freeSpans, span[s].numPages, s)
       /\ held' = Without(held, p)
       /\ UNCHANGED <<span, spanMap, mapped, crashed>>

\* Bug: a span in use is merged like a free one.
BugIsFree(s) == TRUE

IsFree(s) ==
    LET n == span[s].numPages
    IN n \in DOMAIN freeSpans /\ \E i \in 1..Len(freeSpans[n]) : freeSpans[n][i] = s

\* The span behind is taken out of its list and swallowed.  Its list is left behind
\* when it is empty, and made when there is none.
DeallocateMerging(p) ==
    LET s == spanMap[p]
        behind == spanMap[p + held[p]]
        size == span[behind].numPages
        list == IF size \in DOMAIN freeSpans THEN freeSpans[size] ELSE <<>>
        lists == Put(freeSpans, size, Unlink(list, behind))
        joined == span[s].numPages + (IF IsFree(behind) THEN size ELSE 0)
    IN /\ p + held[p] \in DOMAIN spanMap
       /\ freeSpans' = PushSpan(lists, joined, s)
       /\ IF IsFree(behind)
          THEN /\ span' = Without([span EXCEPT ![s].numPages = joined], behind)
               /\ spanMap' = Without(spanMap, p + held[p])
          ELSE UNCHANGED <<span, spanMap>>
       /\ held' = Without(held, p)
       /\ UNCHANGED <<mapped, crashed>>

-----------------------------------------------------------------------------
Next ==
    /\ ~crashed
    /\ \/ \E n \in 1..Pages : AllocateFree(n) \/ AllocateNull(n) \/ AllocateSystem(n)
       \/ \E p \in DOMAIN held : DeallocateAlone(p) \/ DeallocateMerging(p)

Spec == Init /\ [][Next]_vars

-----------------------------------------------------------------------------
(* Properties.                                                             *)

\* Every variable has its type; what a list or the map names is a Span there is.
TypeOK ==
    /\ DOMAIN span \subseteq 1..(Pages + 1)
    /\ \A s \in DOMAIN span : span[s] \in [pageAddr : 1..Pages, numPages : 1..Pages]
    /\ DOMAIN freeSpans \subseteq 1..Pages
    /\ \A k \in DOMAIN freeSpans : freeSpans[k] \in Seq(DOMAIN span)
    /\ DOMAIN spanMap \subseteq 1..Pages
    /\ \A a \in DOMAIN spanMap : spanMap[a] \in DOMAIN span
    /\ DOMAIN held \subseteq mapped /\ \A p \in DOMAIN held : held[p] \in 1..Pages
    /\ mapped \subseteq 1..Pages
    /\ crashed \in BOOLEAN

FreeList(k) == {freeSpans[k][i] : i \in 1..Len(freeSpans[k])}
FreeSpans == UNION {FreeList(k) : k \in DOMAIN freeSpans}

PagesOf(s) == PagesFrom(span[s].pageAddr, span[s].numPages)

\* Every page of the system belongs to one user or to one free span, after any splits
\* and merges; a free span is in the list of its size, once, and spanMap_ still knows
\* what each user holds, so that it can be given back.
EveryPageInOneSpan ==
    LET heldPages == [p \in DOMAIN held |-> PagesFrom(p, held[p])]
    IN /\ mapped = (UNION {heldPages[p] : p \in DOMAIN held})
                     \union (UNION {PagesOf(s) : s \in FreeSpans})
       /\ \A p, q \in DOMAIN held : p # q => heldPages[p] \intersect heldPages[q] = {}
       /\ \A s, t \in FreeSpans : s # t => PagesOf(s) \intersect PagesOf(t) = {}
       /\ \A p \in DOMAIN held, s \in FreeSpans : heldPages[p] \intersect PagesOf(s) = {}
       /\ \A k \in DOMAIN freeSpans :
            /\ Cardinality(FreeList(k)) = Len(freeSpans[k])
            /\ \A s \in FreeList(k) : span[s].numPages = k
       /\ \A p \in DOMAIN held :
            /\ p \in DOMAIN spanMap /\ spanMap[p] \in DOMAIN span
            /\ span[spanMap[p]] = [pageAddr |-> p, numPages |-> held[p]]
=============================================================================
