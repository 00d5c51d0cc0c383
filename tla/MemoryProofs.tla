---------------------------- MODULE MemoryProofs ----------------------------
(***************************************************************************)
(* Proofs about the page cache and the lock-free pool of MCMemory, for any *)
(* number of pages, slots and threads, and that the specification in which *)
(* the allocators are together implements each of them.                    *)
(*                                                                         *)
(* The spans, free or held, lie apart and cover the pages of the system.   *)
(* That is preserved by each call because spanMap_ knows a span by its     *)
(* first page, and because a span that has been given out is in no list.   *)
(*                                                                         *)
(* The stack of the pool is a list (IsList, in ThreadCacheProofs) whatever *)
(* the threads do at the same time, until a pop meets ABA: a thread pushes *)
(* a slot that is on no list, and has linked it to the head it compares;   *)
(* a pop moves the head to the link it read, which is the link the head    *)
(* has now unless this is ABA.                                             *)
(***************************************************************************)
EXTENDS MCMemory, ThreadCacheProofs, Sequences, WellFoundedInduction, FiniteSetTheorems,
        FunctionTheorems, SequenceTheorems, TLAPS

\* Nothing is assumed of the system but that its pages can be counted.
HeapConstants == Pages \in Nat

\* A set of numbers that is not empty has a least one.
LEMMA LeastIn ==
    ASSUME NEW S \in SUBSET Nat, S # {}
    PROVE  Heap!Least(S) \in S /\ \A y \in S : Heap!Least(S) <= y
BY LeastOf DEF Heap!Least

-----------------------------------------------------------------------------
(* Lists of free spans.                                                    *)

Elements(list) == {list[i] : i \in 1..Len(list)}
Members(free) == UNION {Elements(free[k]) : k \in DOMAIN free}

\* The list holds spans of S of that size, once each.
Proper(list, k, S, size) ==
    /\ list \in Seq(S)
    /\ \A i, j \in 1..Len(list) : list[i] = list[j] => i = j
    /\ \A x \in Elements(list) : size[x] = k

Sorted(free, S, size) == \A k \in DOMAIN free : Proper(free[k], k, S, size)

ListOf(free, k) == IF k \in DOMAIN free THEN free[k] ELSE <<>>

LEMMA InElements ==
    \A list, x : x \in Elements(list) <=> \E i \in 1..Len(list) : list[i] = x
  BY DEF Elements

LEMMA InMembers ==
    \A free, x : x \in Members(free) <=> \E k \in DOMAIN free : x \in Elements(free[k])
  BY DEF Members

LEMMA ElementsIn ==
    ASSUME NEW S, NEW list \in Seq(S)
    PROVE  Elements(list) \subseteq S /\ Len(list) \in Nat
  BY LenProperties, ElementOfSeq DEF Elements

\* The lists do not care about spans they do not hold.
LEMMA Resorted ==
    ASSUME NEW free, NEW S, NEW size, Sorted(free, S, size),
           NEW T, NEW newSize, \A s \in Members(free) : s \in T /\ newSize[s] = size[s]
    PROVE  Sorted(free, T, newSize)
<1> SUFFICES ASSUME NEW k \in DOMAIN free PROVE Proper(free[k], k, T, newSize)
  BY DEF Sorted
<1>1. Proper(free[k], k, S, size)
  BY DEF Sorted
<1>2. \A x \in Elements(free[k]) : x \in Members(free)
  BY InMembers
<1>3. \A i \in 1..Len(free[k]) : free[k][i] \in T
  BY <1>2, InElements
<1>4. free[k] \in Seq(T)
  BY <1>1, <1>3, LenProperties, SeqDef DEF Proper
<1> QED BY <1>1, <1>2, <1>4 DEF Proper

\* The list of a size holds the free spans of that size.
LEMMA ListIs ==
    ASSUME NEW free, NEW S, NEW size, Sorted(free, S, size), NEW k
    PROVE  /\ Proper(ListOf(free, k), k, S, size)
           /\ Elements(ListOf(free, k)) = {x \in Members(free) : size[x] = k}
<1>1. CASE k \notin DOMAIN free
  <2>1. ListOf(free, k) = <<>> /\ Elements(<<>>) = {} /\ Len(<<>>) = 0 /\ <<>> \in Seq(S)
    BY <1>1 DEF ListOf, Elements
  <2>2. \A x \in Members(free) : size[x] # k
    BY <1>1, InMembers DEF Sorted, Proper
  <2> QED BY <2>1, <2>2 DEF Proper
<1>2. CASE k \in DOMAIN free
  <2>1. ListOf(free, k) = free[k] /\ Proper(free[k], k, S, size)
    BY <1>2 DEF ListOf, Sorted
  <2>2. \A x : x \in Elements(free[k]) <=> x \in Members(free) /\ size[x] = k
    BY <1>2, InMembers DEF Sorted, Proper
  <2> QED BY <2>1, <2>2
<1> QED BY <1>1, <1>2

\* What becomes of the free spans when the list of one size does.
LEMMA Replaced ==
    ASSUME NEW free, NEW S, NEW size, Sorted(free, S, size),
           NEW k, NEW list, Proper(list, k, S, size)
    PROVE  /\ Sorted(Heap!Put(free, k, list), S, size)
           /\ Members(Heap!Put(free, k, list)) =
                {x \in Members(free) : size[x] # k} \union Elements(list)
<1> DEFINE new == Heap!Put(free, k, list)
<1>1. /\ DOMAIN new = DOMAIN free \union {k} /\ new[k] = list
      /\ \A j \in DOMAIN free : j # k => new[j] = free[j]
  BY DEF Heap!Put
<1> HIDE DEF new
<1>2. Sorted(new, S, size)
  BY <1>1 DEF Sorted
<1>3. \A x : x \in Members(new) <=> (x \in Members(free) /\ size[x] # k) \/ x \in Elements(list)
  BY <1>1, InMembers DEF Sorted, Proper
<1> QED BY <1>2, <1>3 DEF new

\* What becomes of them when the list of one size is erased.
LEMMA Dropped ==
    ASSUME NEW free, NEW S, NEW size, Sorted(free, S, size), NEW k
    PROVE  /\ Sorted(Heap!Without(free, k), S, size)
           /\ Members(Heap!Without(free, k)) = {x \in Members(free) : size[x] # k}
<1> DEFINE new == Heap!Without(free, k)
<1>1. DOMAIN new = DOMAIN free \ {k} /\ \A j \in DOMAIN new : new[j] = free[j]
  BY DEF Heap!Without
<1> HIDE DEF new
<1>2. Sorted(new, S, size)
  BY <1>1 DEF Sorted
<1>3. \A x : x \in Members(new) <=> x \in Members(free) /\ size[x] # k
  BY <1>1, InMembers DEF Sorted, Proper
<1> QED BY <1>2, <1>3 DEF new

\* A span put at the head of the list of its size.
LEMMA Consed ==
    ASSUME NEW list, NEW k, NEW S, NEW size, Proper(list, k, S, size),
           NEW s \in S, size[s] = k, s \notin Elements(list)
    PROVE  /\ Proper(<<s>> \o list, k, S, size)
           /\ Elements(<<s>> \o list) = Elements(list) \union {s}
<1> DEFINE new == <<s>> \o list
           n == Len(list)
<1>1. n \in Nat /\ list \in Seq(S)
  BY LenProperties DEF Proper
<1>2. /\ new \in Seq(S) /\ Len(new) = n + 1
      /\ new[1] = s /\ \A i \in 2..(n + 1) : i - 1 \in 1..n /\ new[i] = list[i - 1]
  <2>1. <<s>> \in Seq(S) /\ Len(<<s>>) = 1 /\ <<s>>[1] = s
    OBVIOUS
  <2> HIDE DEF n
  <2>2. \A i \in 1..(1 + Len(list)) : new[i] = IF i <= 1 THEN <<s>>[i] ELSE list[i - 1]
    BY <1>1, <2>1, ConcatProperties
  <2>3. new \in Seq(S) /\ Len(new) = 1 + Len(list)
    BY <1>1, <2>1, ConcatProperties
  <2> QED BY <1>1, <2>1, <2>2, <2>3 DEF n
<1>3. \A i \in 1..n : i + 1 \in 2..(n + 1) /\ new[i + 1] = list[i]
  BY <1>1, <1>2
<1>4. \A i \in 1..(n + 1) : i = 1 \/ i \in 2..(n + 1)
  BY <1>1
<1>5. 1 \in 1..(n + 1) /\ \A i \in 2..(n + 1) : i \in 1..(n + 1)
  BY <1>1
<1> HIDE DEF new
<1>6. \A x : x \in Elements(new) <=> x = s \/ x \in Elements(list)
  <2> TAKE x
  <2>1. \A i \in 2..(n + 1) : new[i] \in Elements(list)
    BY <1>2, InElements
  <2>2. x \in Elements(list) => x \in Elements(new)
    <3> SUFFICES ASSUME NEW i \in 1..n, list[i] = x PROVE \E j \in 1..(n + 1) : new[j] = x
      BY <1>2, InElements
    <3> QED BY <1>3, <1>5
  <2>3. s \in Elements(new)
    BY <1>2, <1>5, InElements
  <2>4. x \in Elements(new) => x = s \/ x \in Elements(list)
    BY <1>2, <1>4, <2>1, InElements
  <2> QED BY <2>2, <2>3, <2>4
<1>7. ASSUME NEW i \in 1..(n + 1), NEW j \in 1..(n + 1), new[i] = new[j] PROVE i = j
  <2>1. \A a \in 2..(n + 1) : new[a] # s
    BY <1>2, InElements
  <2>2. CASE i = 1 \/ j = 1
    BY <1>2, <1>4, <1>7, <2>1, <2>2
  <2>3. CASE i # 1 /\ j # 1
    <3>1. list[i - 1] = list[j - 1] /\ i - 1 \in 1..n /\ j - 1 \in 1..n
      BY <1>2, <1>4, <1>7, <2>3
    <3>2. i - 1 = j - 1
      BY <3>1 DEF Proper
    <3> QED BY <3>2
  <2> QED BY <2>2, <2>3
<1> QED BY <1>2, <1>6, <1>7 DEF Proper, new

\* The list without its first span.
LEMMA HeadTaken ==
    ASSUME NEW list, NEW k, NEW S, NEW size, Proper(list, k, S, size), list # <<>>
    PROVE  /\ Head(list) \in Elements(list)
           /\ Proper(Tail(list), k, S, size)
           /\ Elements(Tail(list)) = Elements(list) \ {Head(list)}
           /\ Len(list) > 1 \/ Elements(list) = {Head(list)}
<1> DEFINE new == Tail(list)
           n == Len(list)
<1>1. list \in Seq(S) /\ n \in Nat /\ n > 0 /\ Head(list) = list[1]
  BY LenProperties, EmptySeq DEF Proper
<1>2. new \in Seq(S) /\ Len(new) = n - 1 /\ \A i \in 1..(n - 1) : new[i] = list[i + 1]
  BY <1>1, HeadTailProperties
<1>3. \A i \in 1..n : i = 1 \/ (i - 1 \in 1..(n - 1) /\ new[i - 1] = list[i])
  BY <1>1, <1>2
<1>4. 1 \in 1..n /\ \A i \in 1..(n - 1) : i + 1 \in 1..n /\ i + 1 # 1
  BY <1>1
<1> HIDE DEF new
<1>5. \A i, j \in 1..n : list[i] = list[j] => i = j
  BY DEF Proper
<1>6. \A x : x \in Elements(new) <=> x \in Elements(list) /\ x # list[1]
  <2> TAKE x
  <2>1. ASSUME NEW i \in 1..(n - 1), new[i] = x
        PROVE  x \in Elements(list) /\ x # list[1]
    BY <1>2, <1>4, <1>5, <2>1, InElements
  <2>2. ASSUME NEW i \in 1..n, list[i] = x, x # list[1] PROVE x \in Elements(new)
    <3>1. i - 1 \in 1..(n - 1) /\ new[i - 1] = x
      BY <1>3, <2>2
    <3> QED BY <1>2, <3>1, InElements
  <2> QED BY <1>2, <2>1, <2>2, InElements
<1>7. ASSUME NEW i \in 1..(n - 1), NEW j \in 1..(n - 1), new[i] = new[j] PROVE i = j
  <2>1. i + 1 = j + 1
    BY <1>2, <1>4, <1>5, <1>7
  <2> QED BY <2>1
<1>8. list[1] \in Elements(list)
  BY <1>4, InElements
<1>9. n = 1 => Elements(list) = {list[1]}
  BY DEF Elements
<1>10. n > 1 \/ n = 1
  <2> HIDE DEF n
  <2> QED BY <1>1
<1>11. Proper(new, k, S, size)
  BY <1>2, <1>6, <1>7 DEF Proper
<1> HIDE DEF n
<1> QED BY <1>1, <1>6, <1>8, <1>9, <1>10, <1>11 DEF new, n

\* The search removes one span, and nothing else.
LEMMA Unlinked ==
    ASSUME NEW list, NEW k, NEW S, NEW size, Proper(list, k, S, size), NEW x
    PROVE  /\ Proper(Heap!Unlink(list, x), k, S, size)
           /\ Elements(Heap!Unlink(list, x)) = Elements(list) \ {x}
<1> DEFINE n == Len(list)
           found == {i \in 1..n : list[i] = x}
<1>1. list \in Seq(S) /\ n \in Nat /\ \A i \in 1..n : list[i] \in S
  BY LenProperties, ElementOfSeq DEF Proper
<1>2. CASE found = {}
  <2>1. Heap!Unlink(list, x) = list
    BY <1>2 DEF Heap!Unlink
  <2>2. x \notin Elements(list)
    BY <1>2 DEF Elements
  <2> QED BY <2>1, <2>2
<1>3. CASE found # {}
  <2> DEFINE i == Heap!Least(found)
             left == SubSeq(list, 1, i - 1)
             right == SubSeq(list, i + 1, n)
             new == left \o right
  <2>1. i \in 1..n /\ list[i] = x
    <3>1. found \in SUBSET Nat
      OBVIOUS
    <3>2. i \in found
      BY <1>3, <3>1, LeastIn
    <3> QED BY <3>2
  <2>2. Heap!Unlink(list, x) = new
    BY <1>3 DEF Heap!Unlink
  <2> HIDE DEF i
  <2>3. i - 1 \in Int /\ i + 1 \in Int /\ n \in Int
    BY <1>1, <2>1
  <2>4. /\ left \in Seq(S) /\ Len(left) = i - 1
        /\ \A j \in 1..(i - 1) : left[j] = list[j]
    <3>1. \A j \in 1..(i - 1) : j \in 1..n
      BY <1>1, <2>1
    <3>2. /\ left \in Seq(S) /\ Len(left) = IF 1 <= i - 1 THEN (i - 1) - 1 + 1 ELSE 0
          /\ \A j \in 1..((i - 1) - 1 + 1) : left[j] = list[1 + j - 1]
      BY <1>1, <2>3, <3>1, SubSeqProperties
    <3> HIDE DEF left
    <3> QED BY <2>1, <3>2
  <2>5. /\ right \in Seq(S) /\ Len(right) = n - i
        /\ \A j \in 1..(n - i) : right[j] = list[i + j]
    <3>1. \A j \in (i + 1)..n : j \in 1..n
      BY <1>1, <2>1
    <3>2. /\ right \in Seq(S) /\ Len(right) = IF i + 1 <= n THEN n - (i + 1) + 1 ELSE 0
          /\ \A j \in 1..(n - (i + 1) + 1) : right[j] = list[(i + 1) + j - 1]
      BY <1>1, <2>3, <3>1, SubSeqProperties
    <3> HIDE DEF right
    <3> QED BY <1>1, <2>1, <3>2
  <2> HIDE DEF left, right
  <2>6. /\ new \in Seq(S) /\ Len(new) = n - 1
        /\ \A j \in 1..(n - 1) : new[j] = IF j < i THEN list[j] ELSE list[j + 1]
    <3>1. /\ new \in Seq(S) /\ Len(new) = Len(left) + Len(right)
          /\ \A j \in 1..(Len(left) + Len(right)) :
               new[j] = IF j <= Len(left) THEN left[j] ELSE right[j - Len(left)]
      BY <2>4, <2>5, ConcatProperties
    <3>2. Len(new) = n - 1 /\ Len(left) + Len(right) = n - 1
      BY <1>1, <2>1, <2>4, <2>5, <3>1
    <3>3. ASSUME NEW j \in 1..(n - 1)
          PROVE  new[j] = IF j < i THEN list[j] ELSE list[j + 1]
      <4>1. CASE j < i
        BY <1>1, <2>1, <2>4, <3>1, <3>2, <4>1
      <4>2. CASE ~(j < i)
        <5>1. j - (i - 1) \in 1..(n - i) /\ i + (j - (i - 1)) = j + 1
          BY <1>1, <2>1, <4>2
        <5>2. j \in 1..(Len(left) + Len(right)) /\ ~(j <= Len(left)) /\ Len(left) = i - 1
          BY <2>1, <2>4, <3>2, <4>2
        <5>3. new[j] = right[j - (i - 1)]
          BY <3>1, <5>2
        <5>4. right[j - (i - 1)] = list[j + 1]
          BY <2>5, <5>1
        <5> QED BY <4>2, <5>3, <5>4
      <4> QED BY <4>1, <4>2
    <3> QED BY <3>1, <3>2, <3>3
  <2> HIDE DEF new
  <2>7. \A a, b \in 1..n : list[a] = list[b] => a = b
    BY DEF Proper
  <2>8. ASSUME NEW a \in 1..(n - 1), NEW b \in 1..(n - 1), new[a] = new[b] PROVE a = b
    <3>1. a + 1 \in 1..n /\ b + 1 \in 1..n /\ a \in 1..n /\ b \in 1..n
      BY <1>1
    <3>2. CASE a < i /\ b < i
      BY <2>6, <2>7, <2>8, <3>1, <3>2
    <3>3. CASE a < i /\ ~(b < i)
      <4>1. a = b + 1
        BY <2>6, <2>7, <2>8, <3>1, <3>3
      <4> QED BY <2>1, <3>3, <4>1
    <3>4. CASE ~(a < i) /\ b < i
      <4>1. b = a + 1
        BY <2>6, <2>7, <2>8, <3>1, <3>4
      <4> QED BY <2>1, <3>4, <4>1
    <3>5. CASE ~(a < i) /\ ~(b < i)
      <4>1. a + 1 = b + 1
        BY <2>6, <2>7, <2>8, <3>1, <3>5
      <4> QED BY <4>1
    <3> QED BY <3>2, <3>3, <3>4, <3>5
  <2>9. \A y : y \in Elements(new) <=> y \in Elements(list) /\ y # x
    <3> TAKE y
    <3>1. ASSUME NEW a \in 1..(n - 1) PROVE new[a] \in Elements(list) /\ new[a] # x
      <4>1. a + 1 \in 1..n /\ a \in 1..n
        BY <1>1
      <4>2. CASE a < i
        <5>1. new[a] = list[a] /\ a # i
          BY <2>1, <2>6, <4>2
        <5> QED BY <2>1, <2>7, <4>1, <5>1, InElements
      <4>3. CASE ~(a < i)
        <5>1. new[a] = list[a + 1] /\ a + 1 # i
          BY <2>1, <2>6, <4>3
        <5> QED BY <2>1, <2>7, <4>1, <5>1, InElements
      <4> QED BY <4>2, <4>3
    <3>2. ASSUME NEW a \in 1..n, list[a] # x PROVE list[a] \in Elements(new)
      <4>1. a # i
        BY <2>1, <3>2
      <4>2. CASE a < i
        <5>1. a \in 1..(n - 1) /\ new[a] = list[a]
          BY <1>1, <2>1, <2>6, <4>2
        <5> QED BY <2>6, <5>1, InElements
      <4>3. CASE ~(a < i)
        <5>1. a - 1 \in 1..(n - 1) /\ ~(a - 1 < i) /\ (a - 1) + 1 = a
          BY <1>1, <2>1, <4>1, <4>3
        <5>2. new[a - 1] = list[a]
          BY <2>6, <5>1
        <5> QED BY <2>6, <5>1, <5>2, InElements
      <4> QED BY <4>2, <4>3
    <3> QED BY <2>6, <3>1, <3>2, InElements
  <2>10. Proper(new, k, S, size)
    BY <2>6, <2>8, <2>9 DEF Proper
  <2> QED BY <2>2, <2>9, <2>10
<1> QED BY <1>2, <1>3

\* The free spans after PushSpan.
LEMMA PushedOn ==
    ASSUME NEW free, NEW S, NEW size, Sorted(free, S, size),
           NEW n, NEW s \in S, size[s] = n, s \notin Members(free)
    PROVE  /\ Sorted(Heap!PushSpan(free, n, s), S, size)
           /\ Members(Heap!PushSpan(free, n, s)) = Members(free) \union {s}
           /\ DOMAIN Heap!PushSpan(free, n, s) = DOMAIN free \union {n}
<1> DEFINE old == ListOf(free, n)
           new == <<s>> \o old
<1>1. Proper(old, n, S, size) /\ Elements(old) = {x \in Members(free) : size[x] = n}
  BY ListIs
<1>2. Proper(new, n, S, size) /\ Elements(new) = Elements(old) \union {s}
  <2> HIDE DEF old
  <2> QED BY <1>1, Consed
<1>3. Heap!PushSpan(free, n, s) = Heap!Put(free, n, new)
  <2>1. <<s>> \o <<>> = <<s>>
    OBVIOUS
  <2> QED BY <2>1 DEF Heap!PushSpan, ListOf
<1>4. DOMAIN Heap!Put(free, n, new) = DOMAIN free \union {n}
  BY DEF Heap!Put
<1> HIDE DEF new
<1>5. /\ Sorted(Heap!Put(free, n, new), S, size)
      /\ Members(Heap!Put(free, n, new)) = {x \in Members(free) : size[x] # n} \union Elements(new)
  BY <1>2, Replaced
<1> QED BY <1>1, <1>2, <1>3, <1>4, <1>5

\* The list of size k without its first span, as allocateSpan() leaves it.
WithoutHead(free, k) ==
    IF Len(free[k]) > 1 THEN [free EXCEPT ![k] = Tail(@)] ELSE Heap!Without(free, k)

\* The free spans after the first of a size has been taken.
LEMMA Popped ==
    ASSUME NEW free, NEW S, NEW size, Sorted(free, S, size),
           NEW k \in DOMAIN free, free[k] # <<>>
    PROVE  LET s == Head(free[k])
           IN /\ s \in S /\ size[s] = k /\ s \in Members(free)
              /\ Sorted(WithoutHead(free, k), S, size)
              /\ Members(WithoutHead(free, k)) = Members(free) \ {s}
              /\ DOMAIN WithoutHead(free, k) \subseteq DOMAIN free
<1> DEFINE list == free[k]
           s == Head(list)
<1>1. Proper(list, k, S, size) /\ Elements(list) = {x \in Members(free) : size[x] = k}
  BY ListIs DEF ListOf
<1>2. /\ s \in Elements(list) /\ Proper(Tail(list), k, S, size)
      /\ Elements(Tail(list)) = Elements(list) \ {s}
      /\ Len(list) > 1 \/ Elements(list) = {s}
  <2>1. list # <<>>
    OBVIOUS
  <2> HIDE DEF list
  <2> QED BY <1>1, <2>1, HeadTaken
<1>3. s \in S /\ size[s] = k /\ s \in Members(free)
  BY <1>1, <1>2, ElementsIn DEF Proper
<1>4. CASE Len(list) > 1
  <2>1. WithoutHead(free, k) = [free EXCEPT ![k] = Tail(list)]
    BY <1>4 DEF WithoutHead
  <2> DEFINE new == [free EXCEPT ![k] = Tail(list)]
  <2>2. /\ DOMAIN new = DOMAIN free
        /\ \A j \in DOMAIN free : new[j] = IF j = k THEN Tail(list) ELSE free[j]
    OBVIOUS
  <2> HIDE DEF new
  <2>3. Sorted(new, S, size)
    BY <1>2, <2>2 DEF Sorted
  <2>4. \A x : x \in Members(new) <=> x \in Members(free) /\ x # s
    <3> TAKE x
    <3>1. x \in Members(new) <=> \E j \in DOMAIN free : x \in Elements(new[j])
      BY <2>2, InMembers
    <3>2. x \in Members(free) <=> \E j \in DOMAIN free : x \in Elements(free[j])
      BY InMembers
    <3>3. \A j \in DOMAIN free : j # k => s \notin Elements(free[j])
      BY <1>3 DEF Sorted, Proper
    <3>4. \A j \in DOMAIN free : x \in Elements(new[j]) <=> x \in Elements(free[j]) /\ x # s
      BY <1>2, <2>2, <3>3
    <3> QED BY <3>1, <3>2, <3>4
  <2> QED BY <1>3, <2>1, <2>2, <2>3, <2>4 DEF new
<1>5. CASE ~(Len(list) > 1)
  <2>1. WithoutHead(free, k) = Heap!Without(free, k)
    BY <1>5 DEF WithoutHead
  <2>2. DOMAIN Heap!Without(free, k) \subseteq DOMAIN free
    BY DEF Heap!Without
  <2>3. {x \in Members(free) : size[x] # k} = Members(free) \ {s}
    BY <1>1, <1>2, <1>5
  <2> QED BY <1>3, <2>1, <2>2, <2>3, Dropped
<1> QED BY <1>4, <1>5

\* The free spans after one has been searched for and unlinked.
LEMMA TakenOut ==
    ASSUME NEW free, NEW S, NEW size, Sorted(free, S, size),
           NEW n, NEW x, size[x] = n
    PROVE  LET new == Heap!Put(free, n, Heap!Unlink(ListOf(free, n), x))
           IN /\ Sorted(new, S, size)
              /\ Members(new) = Members(free) \ {x}
              /\ DOMAIN new = DOMAIN free \union {n}
<1> DEFINE old == ListOf(free, n)
           list == Heap!Unlink(old, x)
<1>1. Proper(old, n, S, size) /\ Elements(old) = {y \in Members(free) : size[y] = n}
  BY ListIs
<1>2. Proper(list, n, S, size) /\ Elements(list) = Elements(old) \ {x}
  <2> HIDE DEF old
  <2> QED BY <1>1, Unlinked
<1>3. DOMAIN Heap!Put(free, n, list) = DOMAIN free \union {n}
  BY DEF Heap!Put
<1> HIDE DEF list
<1>4. /\ Sorted(Heap!Put(free, n, list), S, size)
      /\ Members(Heap!Put(free, n, list)) =
           {y \in Members(free) : size[y] # n} \union Elements(list)
  BY <1>2, Replaced
<1> QED BY <1>1, <1>2, <1>3, <1>4 DEF list

-----------------------------------------------------------------------------
(* Spans.                                                                  *)

First(s) == span[s].pageAddr
Behind(s) == span[s].pageAddr + span[s].numPages
Size == [s \in DOMAIN span |-> span[s].numPages]

\* No two spans share a page, ...
Apart == \A s, t \in DOMAIN span : s # t => Behind(s) <= First(t) \/ Behind(t) <= First(s)
\* ... every page of the system is in one, ...
Covered ==
    \A x : x \in mapped <=> x \in Nat /\ \E s \in DOMAIN span : First(s) <= x /\ x < Behind(s)
\* ... the list of a size holds spans of that size, once each, ...
Listed == Sorted(freeSpans, DOMAIN span, Size)
\* ... spanMap_ knows a span by its first page, ...
Known == \A a \in DOMAIN spanMap : First(spanMap[a]) = a
\* ... what a user holds is a span of that size in no list, ...
Given ==
    \A p \in DOMAIN held :
        /\ p \in DOMAIN spanMap /\ spanMap[p] \notin Members(freeSpans)
        /\ span[spanMap[p]].numPages = held[p]
\* ... and a span in no list is held by the user spanMap_ finds it for.
Owned ==
    \A s \in DOMAIN span :
        s \in Members(freeSpans) \/ (First(s) \in DOMAIN held /\ spanMap[First(s)] = s)

HeapInv == Heap!TypeOK /\ Apart /\ Covered /\ Listed /\ Known /\ Given /\ Owned

\* There are no spans at first.
LEMMA HeapInit == ASSUME HeapConstants PROVE Heap!Init => HeapInv
<1> SUFFICES ASSUME Heap!Init PROVE HeapInv
  OBVIOUS
<1>1. DOMAIN Heap!Empty = {}
  BY DEF Heap!Empty
<1> QED BY <1>1 DEF Heap!Init, HeapInv, Heap!TypeOK, Apart, Covered, Listed, Sorted,
                    Known, Given, Owned

\* A span has a page of its own, so that there are fewer of them than names.
LEMMA NewSpanIsNew ==
    ASSUME HeapConstants, HeapInv
    PROVE  Heap!NewSpan \in 1..(Pages + 1) /\ Heap!NewSpan \notin DOMAIN span
<1>1. ASSUME 1..(Pages + 1) \subseteq DOMAIN span PROVE FALSE
  <2> DEFINE S == 1..(Pages + 1)
             T == 1..Pages
             f == [s \in S |-> First(s)]
  <2>1. f \in [S -> T]
    BY <1>1 DEF HeapInv, Heap!TypeOK, First
  <2>2. IsFiniteSet(S) /\ IsFiniteSet(T) /\ Cardinality(S) = Pages + 1 /\ Cardinality(T) = Pages
    <3>1. Pages \in Int /\ Pages + 1 \in Int
      BY DEF HeapConstants
    <3> QED BY <3>1, FS_Interval DEF HeapConstants
  <2>3. Cardinality(T) < Cardinality(S)
    BY <2>2 DEF HeapConstants
  <2> HIDE DEF f, S, T
  <2>4. PICK s, t \in S : s # t /\ f[s] = f[t]
    BY <2>1, <2>2, <2>3, FS_PigeonHole
  <2>5. s \in DOMAIN span /\ t \in DOMAIN span /\ First(s) = First(t)
    BY <1>1, <2>4 DEF f, S
  <2>6. /\ span[s] \in [pageAddr : 1..Pages, numPages : 1..Pages]
        /\ span[t] \in [pageAddr : 1..Pages, numPages : 1..Pages]
    BY <2>5 DEF HeapInv, Heap!TypeOK
  <2> QED BY <2>4, <2>5, <2>6 DEF HeapInv, Apart, First, Behind, HeapConstants
<1>2. (1..(Pages + 1)) \ DOMAIN span \in SUBSET Nat
  OBVIOUS
<1> QED BY <1>1, <1>2, LeastIn DEF Heap!NewSpan

\* What the type invariant says of one span.
LEMMA SpanType ==
    ASSUME HeapConstants, HeapInv, NEW s \in DOMAIN span
    PROVE  /\ First(s) \in 1..Pages /\ span[s].numPages \in 1..Pages
           /\ Behind(s) = First(s) + span[s].numPages /\ Behind(s) \in Nat
           /\ First(s) < Behind(s) /\ Behind(s) <= Pages + 1
           /\ Size[s] = span[s].numPages
           /\ span[s] = [pageAddr |-> First(s), numPages |-> span[s].numPages]
<1>1. span[s] \in [pageAddr : 1..Pages, numPages : 1..Pages]
  BY DEF HeapInv, Heap!TypeOK
<1>2. Pages \in Nat
  BY DEF HeapConstants
<1>3. /\ First(s) \in 1..Pages /\ span[s].numPages \in 1..Pages
      /\ Behind(s) = First(s) + span[s].numPages
      /\ span[s] = [pageAddr |-> First(s), numPages |-> span[s].numPages]
  BY <1>1 DEF First, Behind
<1>4. Behind(s) - 1 \in Nat /\ First(s) <= Behind(s) - 1 /\ Behind(s) - 1 < Behind(s)
  BY <1>2, <1>3
<1>5. Behind(s) - 1 \in mapped
  BY <1>4 DEF HeapInv, Covered
<1>6. Behind(s) - 1 \in 1..Pages
  BY <1>5 DEF HeapInv, Heap!TypeOK
<1> QED BY <1>2, <1>3, <1>4, <1>6 DEF Size

\* Two spans do not begin at the same page, nor does one in the middle of another.
LEMMA SpanOf ==
    ASSUME HeapConstants, HeapInv, NEW s \in DOMAIN span, NEW t \in DOMAIN span,
           First(s) <= First(t), First(t) < Behind(s)
    PROVE  s = t
<1>1. /\ Behind(s) \in Nat /\ First(s) \in Nat /\ First(t) \in Nat /\ Behind(t) \in Nat
      /\ First(t) < Behind(t)
  BY SpanType
<1> QED BY <1>1 DEF HeapInv, Apart

\* What a user holds is a span that spanMap_ knows and no list does.
LEMMA GivenSpan ==
    ASSUME HeapConstants, HeapInv, NEW p \in DOMAIN held
    PROVE  /\ p \in DOMAIN spanMap /\ spanMap[p] \in DOMAIN span
           /\ spanMap[p] \notin Members(freeSpans)
           /\ First(spanMap[p]) = p /\ span[spanMap[p]].numPages = held[p]
  BY DEF HeapInv, Heap!TypeOK, Known, Given

LEMMA ListedMembers ==
    ASSUME HeapInv
    PROVE  Members(freeSpans) \subseteq DOMAIN span
  BY InMembers, ElementsIn DEF HeapInv, Listed, Sorted, Proper

\* allocateSpan() from a list: the span keeps its first pages, a new one gets the rest.
LEMMA AllocateFreeKeeps ==
    ASSUME HeapConstants, HeapInv, NEW n \in 1..Pages, Heap!AllocateFree(n)
    PROVE  HeapInv'
<1>0. PICK k, s, a : k = Heap!Least(Heap!BigEnough(n)) /\ s = Head(freeSpans[k]) /\ a = First(s)
  OBVIOUS
<1> DEFINE rest == WithoutHead(freeSpans, k)
           F == Members(freeSpans)
<1>1. k \in DOMAIN freeSpans /\ k >= n /\ freeSpans[k] # <<>> /\ k \in 1..Pages
  <2>1. Heap!BigEnough(n) # {} /\ Heap!BigEnough(n) \in SUBSET Nat
    <3>1. Heap!BigEnough(n) # {}
      BY DEF Heap!AllocateFree
    <3>2. DOMAIN freeSpans \subseteq 1..Pages
      BY DEF HeapInv, Heap!TypeOK
    <3>3. Heap!BigEnough(n) \subseteq DOMAIN freeSpans
      BY DEF Heap!BigEnough
    <3> QED BY <3>1, <3>2, <3>3
  <2>2. k \in Heap!BigEnough(n)
    BY <1>0, <2>1, LeastIn
  <2>3. k \in DOMAIN freeSpans /\ k >= n
    BY <2>2 DEF Heap!BigEnough
  <2>4. freeSpans[k] # <<>>
    BY <1>0 DEF Heap!AllocateFree
  <2> QED BY <2>3, <2>4 DEF HeapInv, Heap!TypeOK
<1>2. /\ s \in DOMAIN span /\ span[s].numPages = k /\ s \in F
      /\ Sorted(rest, DOMAIN span, Size) /\ Members(rest) = F \ {s}
      /\ DOMAIN rest \subseteq DOMAIN freeSpans
  <2>1. /\ s \in DOMAIN span /\ Size[s] = k /\ s \in F
        /\ Sorted(rest, DOMAIN span, Size) /\ Members(rest) = F \ {s}
        /\ DOMAIN rest \subseteq DOMAIN freeSpans
    <3> QED BY <1>0, <1>1, Popped DEF HeapInv, Listed
  <2> QED BY <2>1, SpanType
<1>3. /\ IF span[s].numPages > n
          THEN /\ span' = Heap!Put([span EXCEPT ![s].numPages = n],
                                   Heap!NewSpan, Heap!Remainder(s, n))
               /\ freeSpans' = Heap!PushSpan(rest, Heap!Remainder(s, n).numPages, Heap!NewSpan)
          ELSE freeSpans' = rest /\ UNCHANGED span
      /\ spanMap' = Heap!Put(spanMap, a, s)
      /\ held' = Heap!Put(held, a, n)
      /\ UNCHANGED <<mapped, crashed>>
  BY <1>0 DEF Heap!AllocateFree, WithoutHead, First
<1> HIDE DEF rest, F
<1>4. /\ a = First(s) /\ a \in 1..Pages /\ a \in mapped /\ Behind(s) = a + k
      /\ Pages \in Nat /\ n \in Nat /\ k \in Nat
  <2>1. a = First(s) /\ a \in 1..Pages /\ Behind(s) = a + k /\ a < Behind(s)
    BY <1>0, <1>2, SpanType
  <2> QED BY <1>1, <1>2, <2>1 DEF HeapInv, Covered, HeapConstants
<1>5. a \notin DOMAIN held
  <2> SUFFICES ASSUME a \in DOMAIN held PROVE FALSE
    OBVIOUS
  <2>1. spanMap[a] \in DOMAIN span /\ spanMap[a] \notin F /\ First(spanMap[a]) = a
    BY GivenSpan DEF F
  <2>2. s = spanMap[a]
    BY <1>1, <1>2, <1>4, <2>1, SpanOf
  <2> QED BY <1>2, <2>1, <2>2
<1>6. /\ DOMAIN spanMap' = DOMAIN spanMap \union {a} /\ spanMap'[a] = s
      /\ \A b \in DOMAIN spanMap : b # a => spanMap'[b] = spanMap[b]
      /\ DOMAIN held' = DOMAIN held \union {a} /\ held'[a] = n
      /\ \A b \in DOMAIN held : held'[b] = held[b]
  BY <1>3, <1>5 DEF Heap!Put
<1>7. \A b \in DOMAIN spanMap : spanMap[b] \in DOMAIN span /\ First(spanMap[b]) = b
  BY DEF HeapInv, Heap!TypeOK, Known
<1>8. \A p \in DOMAIN held :
         /\ p \in DOMAIN spanMap /\ spanMap[p] \notin F /\ spanMap[p] # s /\ p # a
         /\ span[spanMap[p]].numPages = held[p]
  BY <1>2, <1>5, GivenSpan DEF F
<1>9. CASE k > n
  <2>0. PICK t : t = Heap!NewSpan
    OBVIOUS
  <2>1. t \notin DOMAIN span /\ t \in 1..(Pages + 1)
    BY <2>0, NewSpanIsNew
  <2>2. Heap!Remainder(s, n) = [pageAddr |-> a + n, numPages |-> k - n]
    BY <1>0, <1>2 DEF Heap!Remainder, First
  <2>3. /\ span' = Heap!Put([span EXCEPT ![s].numPages = n],
                            t, [pageAddr |-> a + n, numPages |-> k - n])
        /\ freeSpans' = Heap!PushSpan(rest, k - n, t)
    BY <1>2, <1>3, <1>9, <2>0, <2>2
  <2>4. /\ DOMAIN span' = DOMAIN span \union {t}
        /\ span'[t] = [pageAddr |-> a + n, numPages |-> k - n]
        /\ span'[s] = [pageAddr |-> a, numPages |-> n]
        /\ \A u \in DOMAIN span : u # s => span'[u] = span[u]
    <3>1. [span[s] EXCEPT !.numPages = n] = [pageAddr |-> a, numPages |-> n]
      BY <1>2, <1>4, SpanType
    <3> QED BY <1>2, <2>1, <2>3, <3>1 DEF Heap!Put
  <2>5. /\ First(t)' = a + n /\ Behind(t)' = a + k /\ Size'[t] = k - n
        /\ First(s)' = a /\ Behind(s)' = a + n
        /\ \A u \in DOMAIN span : u # s =>
             First(u)' = First(u) /\ Behind(u)' = Behind(u) /\ Size'[u] = Size[u]
    BY <1>1, <1>4, <2>4 DEF First, Behind, Size
  <2>6. /\ Listed' /\ Members(freeSpans') = (F \ {s}) \union {t}
        /\ DOMAIN freeSpans' \subseteq 1..Pages
    <3>1. F \subseteq DOMAIN span
      BY ListedMembers DEF F
    <3>2. Sorted(rest, DOMAIN span', Size')
      BY <1>2, <2>4, <2>5, <3>1, Resorted
    <3>3. t \in DOMAIN span' /\ t \notin Members(rest)
      BY <1>2, <2>1, <2>4, <3>1
    <3>4. /\ Sorted(freeSpans', DOMAIN span', Size')
          /\ Members(freeSpans') = Members(rest) \union {t}
          /\ DOMAIN freeSpans' = DOMAIN rest \union {k - n}
      <4>1. Size'[t] = k - n /\ freeSpans' = Heap!PushSpan(rest, k - n, t)
        BY <2>3, <2>5
      <4> QED BY <3>2, <3>3, <4>1, PushedOn
    <3>5. DOMAIN freeSpans \subseteq 1..Pages
      BY DEF HeapInv, Heap!TypeOK
    <3>6. k - n \in 1..Pages
      BY <1>1, <1>4, <1>9
    <3> QED BY <1>2, <3>4, <3>5, <3>6 DEF Listed
  <2>7. Apart'
    <3> SUFFICES ASSUME NEW u \in DOMAIN span', NEW v \in DOMAIN span', u # v
                 PROVE  (Behind(u) <= First(v) \/ Behind(v) <= First(u))'
      BY DEF Apart
    <3>1. \A w \in DOMAIN span : w # s =>
            /\ Behind(w) <= a \/ a + k <= First(w)
            /\ Behind(w) \in Nat /\ First(w) \in Nat
      BY <1>2, <1>4, SpanType DEF HeapInv, Apart
    <3>2. CASE u \in {s, t} /\ v \in {s, t}
      BY <1>1, <1>4, <2>5, <3>2
    <3>3. CASE u \in {s, t} /\ v \notin {s, t}
      BY <1>1, <1>4, <2>4, <2>5, <3>1, <3>3
    <3>4. CASE u \notin {s, t} /\ v \in {s, t}
      BY <1>1, <1>4, <2>4, <2>5, <3>1, <3>4
    <3>5. CASE u \notin {s, t} /\ v \notin {s, t}
      BY <2>4, <2>5, <3>5 DEF HeapInv, Apart
    <3> QED BY <3>2, <3>3, <3>4, <3>5
  <2>8. Covered'
    <3> SUFFICES ASSUME NEW x
                 PROVE  x \in mapped <=>
                          x \in Nat /\ \E u \in DOMAIN span' : First(u)' <= x /\ x < Behind(u)'
      BY <1>3 DEF Covered
    <3>1. x \in mapped <=> x \in Nat /\ \E u \in DOMAIN span : First(u) <= x /\ x < Behind(u)
      BY DEF HeapInv, Covered
    <3>2. x \in Nat => ((a <= x /\ x < a + k) <=>
                          (a <= x /\ x < a + n) \/ (a + n <= x /\ x < a + k))
      BY <1>1, <1>4
    <3> QED BY <1>2, <1>4, <2>4, <2>5, <3>1, <3>2
  <2>9. Known'
    BY <1>2, <1>6, <1>7, <1>4, <2>5 DEF Known
  <2>10. Given'
    <3>1. t # s /\ \A p \in DOMAIN held : spanMap[p] # t
      BY <1>2, <1>7, <1>8, <2>1
    <3> QED BY <1>6, <1>7, <1>8, <2>4, <2>6, <3>1 DEF Given
  <2>11. Owned'
    <3> SUFFICES ASSUME NEW u \in DOMAIN span', u \notin Members(freeSpans')
                 PROVE  First(u)' \in DOMAIN held' /\ spanMap'[First(u)'] = u
      BY DEF Owned
    <3>1. u # t
      BY <2>6
    <3>2. CASE u = s
      BY <1>6, <2>5, <3>2
    <3>3. CASE u # s
      <4>1. u \in DOMAIN span /\ u \notin F
        BY <2>4, <2>6, <3>1, <3>3
      <4>2. First(u) \in DOMAIN held /\ spanMap[First(u)] = u
        BY <4>1 DEF HeapInv, Owned, F
      <4> QED BY <1>6, <1>8, <2>5, <3>3, <4>1, <4>2
    <3> QED BY <3>2, <3>3
  <2>12. Heap!TypeOK'
    <3>1. DOMAIN span' \subseteq 1..(Pages + 1)
      BY <2>1, <2>4 DEF HeapInv, Heap!TypeOK
    <3>2. \A u \in DOMAIN span' : span'[u] \in [pageAddr : 1..Pages, numPages : 1..Pages]
      <4>1. a + n \in 1..Pages /\ k - n \in 1..Pages
        <5>1. a + k <= Pages + 1
          BY <1>2, <1>4, SpanType
        <5> QED BY <1>1, <1>4, <1>9, <5>1
      <4>2. \A u \in DOMAIN span : span[u] \in [pageAddr : 1..Pages, numPages : 1..Pages]
        BY DEF HeapInv, Heap!TypeOK
      <4>3. /\ span'[t] \in [pageAddr : 1..Pages, numPages : 1..Pages]
            /\ span'[s] \in [pageAddr : 1..Pages, numPages : 1..Pages]
        BY <1>4, <2>4, <4>1
      <4> QED BY <2>4, <4>2, <4>3
    <3>3. \A j \in DOMAIN freeSpans' : freeSpans'[j] \in Seq(DOMAIN span')
      BY <2>6 DEF Listed, Sorted, Proper
    <3>4. /\ DOMAIN spanMap' \subseteq 1..Pages
          /\ \A b \in DOMAIN spanMap' : spanMap'[b] \in DOMAIN span'
      BY <1>2, <1>4, <1>6, <1>7, <2>4 DEF HeapInv, Heap!TypeOK
    <3>5. DOMAIN held' \subseteq mapped' /\ \A p \in DOMAIN held' : held'[p] \in 1..Pages
      BY <1>3, <1>4, <1>6 DEF HeapInv, Heap!TypeOK
    <3> QED BY <1>3, <2>6, <3>1, <3>2, <3>3, <3>4, <3>5 DEF HeapInv, Heap!TypeOK
  <2> QED BY <2>6, <2>7, <2>8, <2>9, <2>10, <2>11, <2>12 DEF HeapInv
<1>10. CASE ~(k > n)
  <2>1. k = n /\ freeSpans' = rest /\ span' = span
    BY <1>1, <1>2, <1>3, <1>4, <1>10
  <2>2. Listed' /\ Members(freeSpans') = F \ {s} /\ DOMAIN freeSpans' \subseteq 1..Pages
    BY <1>2, <2>1 DEF Listed, Size, HeapInv, Heap!TypeOK
  <2>3. \A u \in DOMAIN span : First(u)' = First(u) /\ Behind(u)' = Behind(u)
    BY <2>1 DEF First, Behind
  <2>4. Apart' /\ Covered'
    BY <1>3, <2>1, <2>3 DEF HeapInv, Apart, Covered
  <2>5. Known'
    BY <1>2, <1>4, <1>6, <1>7, <2>1, <2>3 DEF Known
  <2>6. Given'
    BY <1>2, <1>6, <1>8, <2>1, <2>2 DEF Given
  <2>7. Owned'
    <3> SUFFICES ASSUME NEW u \in DOMAIN span, u \notin Members(freeSpans')
                 PROVE  First(u)' \in DOMAIN held' /\ spanMap'[First(u)'] = u
      BY <2>1 DEF Owned
    <3>1. CASE u = s
      BY <1>4, <1>6, <2>3, <3>1
    <3>2. CASE u # s
      <4>1. First(u) \in DOMAIN held /\ spanMap[First(u)] = u
        BY <2>2, <3>2 DEF HeapInv, Owned, F
      <4> QED BY <1>6, <1>8, <2>3, <4>1
    <3> QED BY <3>1, <3>2
  <2>8. Heap!TypeOK'
    <3>3. \A j \in DOMAIN freeSpans' : freeSpans'[j] \in Seq(DOMAIN span')
      BY <2>2 DEF Listed, Sorted, Proper
    <3>4. /\ DOMAIN spanMap' \subseteq 1..Pages
          /\ \A b \in DOMAIN spanMap' : spanMap'[b] \in DOMAIN span'
      BY <1>2, <1>4, <1>6, <1>7, <2>1 DEF HeapInv, Heap!TypeOK
    <3>5. DOMAIN held' \subseteq mapped' /\ \A p \in DOMAIN held' : held'[p] \in 1..Pages
      BY <1>3, <1>4, <1>6 DEF HeapInv, Heap!TypeOK
    <3> QED BY <1>3, <2>1, <2>2, <3>3, <3>4, <3>5 DEF HeapInv, Heap!TypeOK
  <2> QED BY <2>2, <2>4, <2>5, <2>6, <2>7, <2>8 DEF HeapInv
<1> QED BY <1>9, <1>10

\* allocateSpan() from the system: the new pages lie apart from all the others.
LEMMA AllocateSystemKeeps ==
    ASSUME HeapConstants, HeapInv, NEW n \in 1..Pages, Heap!AllocateSystem(n)
    PROVE  HeapInv'
<1>0. PICK t : t = Heap!NewSpan
  OBVIOUS
<1>1. t \notin DOMAIN span /\ t \in 1..(Pages + 1)
  BY <1>0, NewSpanIsNew
<1>2. PICK a \in 1..(Pages + 1 - n) :
        /\ Heap!PagesFrom(a, n) \intersect mapped = {}
        /\ span' = Heap!Put(span, t, [pageAddr |-> a, numPages |-> n])
        /\ spanMap' = Heap!Put(spanMap, a, t)
        /\ held' = Heap!Put(held, a, n)
        /\ mapped' = mapped \union Heap!PagesFrom(a, n)
  BY <1>0 DEF Heap!AllocateSystem
<1>3. freeSpans' = freeSpans /\ crashed' = crashed
  BY DEF Heap!AllocateSystem
<1>4. Pages \in Nat /\ n \in Nat /\ a \in Nat /\ a + n <= Pages + 1 /\ a \in 1..Pages /\ n > 0
  BY DEF HeapConstants
<1>5. \A x \in mapped : x \in 1..Pages /\ ~(a <= x /\ x < a + n)
  <2> SUFFICES ASSUME NEW x \in mapped PROVE x \in 1..Pages /\ ~(a <= x /\ x < a + n)
    OBVIOUS
  <2>1. x \in 1..Pages /\ x \notin Heap!PagesFrom(a, n)
    BY <1>2 DEF HeapInv, Heap!TypeOK
  <2> QED BY <1>4, <2>1 DEF Heap!PagesFrom
<1>6. /\ DOMAIN span' = DOMAIN span \union {t}
      /\ span'[t] = [pageAddr |-> a, numPages |-> n]
      /\ \A u \in DOMAIN span : u # t /\ span'[u] = span[u]
  BY <1>1, <1>2 DEF Heap!Put
<1>7. /\ First(t)' = a /\ Behind(t)' = a + n
      /\ \A u \in DOMAIN span :
           First(u)' = First(u) /\ Behind(u)' = Behind(u) /\ Size'[u] = Size[u]
  BY <1>6 DEF First, Behind, Size
<1>8. \A u \in DOMAIN span :
         /\ First(u) \in Nat /\ Behind(u) \in Nat /\ First(u) < Behind(u)
         /\ First(u) \in mapped /\ Behind(u) - 1 \in mapped
  <2> TAKE u \in DOMAIN span
  <2>1. First(u) \in Nat /\ Behind(u) \in Nat /\ First(u) < Behind(u) /\ Behind(u) - 1 \in Nat
    BY <1>4, SpanType
  <2>2. /\ First(u) <= First(u)
        /\ First(u) <= Behind(u) - 1 /\ Behind(u) - 1 < Behind(u)
    BY <2>1
  <2> QED BY <2>1, <2>2 DEF HeapInv, Covered
<1>9. \A u \in DOMAIN span : Behind(u) <= a \/ a + n <= First(u)
  <2> SUFFICES ASSUME NEW u \in DOMAIN span, ~(Behind(u) <= a), ~(a + n <= First(u)) PROVE FALSE
    OBVIOUS
  <2>1. CASE First(u) >= a
    BY <1>4, <1>5, <1>8, <2>1
  <2>2. CASE First(u) < a
    <3>1. a \in mapped
      BY <1>4, <1>8, <2>2 DEF HeapInv, Covered
    <3> QED BY <1>4, <1>5, <3>1
  <2> QED BY <1>4, <1>8, <2>1, <2>2
<1>10. a \notin DOMAIN held /\ a \notin DOMAIN spanMap
  <2>1. a \notin mapped
    BY <1>4, <1>5
  <2>2. \A b \in DOMAIN spanMap : b \in mapped
    BY <1>8 DEF HeapInv, Known, Heap!TypeOK
  <2> QED BY <2>1, <2>2 DEF HeapInv, Heap!TypeOK
<1>11. /\ DOMAIN spanMap' = DOMAIN spanMap \union {a} /\ spanMap'[a] = t
       /\ \A b \in DOMAIN spanMap : spanMap'[b] = spanMap[b] /\ b # a
       /\ DOMAIN held' = DOMAIN held \union {a} /\ held'[a] = n
       /\ \A b \in DOMAIN held : held'[b] = held[b] /\ b # a
  BY <1>2, <1>10 DEF Heap!Put
<1>12. \A b \in DOMAIN spanMap : spanMap[b] \in DOMAIN span /\ First(spanMap[b]) = b
  BY DEF HeapInv, Heap!TypeOK, Known
<1>13. Members(freeSpans) \subseteq DOMAIN span
  BY ListedMembers
<1>14. Listed'
  <2>1. Sorted(freeSpans, DOMAIN span', Size')
    BY <1>6, <1>7, <1>13, Resorted DEF HeapInv, Listed
  <2> QED BY <1>3, <2>1 DEF Listed
<1>15. Apart'
  <2> SUFFICES ASSUME NEW u \in DOMAIN span', NEW v \in DOMAIN span', u # v
               PROVE  (Behind(u) <= First(v) \/ Behind(v) <= First(u))'
    BY DEF Apart
  <2>1. CASE u = t \/ v = t
    BY <1>6, <1>7, <1>9, <2>1
  <2>2. CASE u # t /\ v # t
    BY <1>6, <1>7, <2>2 DEF HeapInv, Apart
  <2> QED BY <2>1, <2>2
<1>16. Covered'
  <2> SUFFICES ASSUME NEW x
               PROVE  x \in mapped' <=>
                        x \in Nat /\ \E u \in DOMAIN span' : First(u)' <= x /\ x < Behind(u)'
    BY DEF Covered
  <2>1. x \in mapped <=> x \in Nat /\ \E u \in DOMAIN span : First(u) <= x /\ x < Behind(u)
    BY DEF HeapInv, Covered
  <2>2. x \in Heap!PagesFrom(a, n) <=> x \in Nat /\ a <= x /\ x < a + n
    BY <1>4 DEF Heap!PagesFrom
  <2> QED BY <1>2, <1>6, <1>7, <2>1, <2>2
<1>17. Known'
  BY <1>7, <1>11, <1>12 DEF Known
<1>18. Given'
  BY <1>1, <1>3, <1>6, <1>11, <1>12, <1>13, GivenSpan DEF Given
<1>19. Owned'
  <2> SUFFICES ASSUME NEW u \in DOMAIN span', u \notin Members(freeSpans)
               PROVE  First(u)' \in DOMAIN held' /\ spanMap'[First(u)'] = u
    BY <1>3 DEF Owned
  <2>1. CASE u = t
    BY <1>7, <1>11, <2>1
  <2>2. CASE u # t
    <3>1. u \in DOMAIN span /\ First(u) \in DOMAIN held /\ spanMap[First(u)] = u
      BY <1>6, <2>2 DEF HeapInv, Owned
    <3> QED BY <1>7, <1>11, <3>1, GivenSpan
  <2> QED BY <2>1, <2>2
<1>20. Heap!TypeOK'
  <2>1. DOMAIN span' \subseteq 1..(Pages + 1)
    BY <1>1, <1>6 DEF HeapInv, Heap!TypeOK
  <2>2. \A u \in DOMAIN span' : span'[u] \in [pageAddr : 1..Pages, numPages : 1..Pages]
    <3>1. \A u \in DOMAIN span : span[u] \in [pageAddr : 1..Pages, numPages : 1..Pages]
      BY DEF HeapInv, Heap!TypeOK
    <3>2. span'[t] \in [pageAddr : 1..Pages, numPages : 1..Pages]
      BY <1>4, <1>6
    <3> QED BY <1>6, <3>1, <3>2
  <2>3. \A j \in DOMAIN freeSpans' : freeSpans'[j] \in Seq(DOMAIN span')
    BY <1>14 DEF Listed, Sorted, Proper
  <2>4. /\ DOMAIN spanMap' \subseteq 1..Pages
        /\ \A b \in DOMAIN spanMap' : spanMap'[b] \in DOMAIN span'
    BY <1>4, <1>6, <1>11, <1>12 DEF HeapInv, Heap!TypeOK
  <2>5. a \in Heap!PagesFrom(a, n) /\ Heap!PagesFrom(a, n) \subseteq 1..Pages
    <3>1. \A x \in a..(a + n - 1) : x \in 1..Pages
      BY <1>4
    <3> QED BY <1>4, <3>1 DEF Heap!PagesFrom
  <2>6. DOMAIN held' \subseteq mapped' /\ \A p \in DOMAIN held' : held'[p] \in 1..Pages
    BY <1>2, <1>4, <1>11, <2>5 DEF HeapInv, Heap!TypeOK
  <2>7. mapped' \subseteq 1..Pages /\ DOMAIN freeSpans' \subseteq 1..Pages /\ crashed' \in BOOLEAN
    BY <1>2, <1>3, <2>5 DEF HeapInv, Heap!TypeOK
  <2> QED BY <2>1, <2>2, <2>3, <2>4, <2>6, <2>7 DEF Heap!TypeOK
<1> QED BY <1>14, <1>15, <1>16, <1>17, <1>18, <1>19, <1>20 DEF HeapInv

-----------------------------------------------------------------------------
(* deallocateSpan().                                                       *)

\* What the span given back owes to the rest of the state.
LEMMA GivenBack ==
    ASSUME HeapConstants, HeapInv, NEW p \in DOMAIN held, NEW s, s = spanMap[p]
    PROVE  /\ s \in DOMAIN span /\ s \notin Members(freeSpans) /\ First(s) = p
           /\ span[s].numPages = held[p] /\ held[p] \in 1..Pages /\ p \in 1..Pages
           /\ Behind(s) = p + held[p]
           /\ \A q \in DOMAIN held : q # p => spanMap[q] # s
<1>1. /\ s \in DOMAIN span /\ s \notin Members(freeSpans) /\ First(s) = p
      /\ span[s].numPages = held[p]
  BY GivenSpan
<1>2. \A q \in DOMAIN held : First(spanMap[q]) = q
  BY GivenSpan
<1> QED BY <1>1, <1>2, SpanType

\* The span becomes free and nothing else changes.
LEMMA FreedKeeps ==
    ASSUME HeapConstants, HeapInv, NEW p \in DOMAIN held, NEW s, s = spanMap[p],
           held' = Heap!Without(held, p), UNCHANGED <<span, spanMap, mapped, crashed>>,
           Sorted(freeSpans', DOMAIN span, Size),
           Members(freeSpans') = Members(freeSpans) \union {s},
           DOMAIN freeSpans' \subseteq 1..Pages
    PROVE  HeapInv'
<1>1. /\ s \in DOMAIN span /\ s \notin Members(freeSpans) /\ First(s) = p
      /\ \A q \in DOMAIN held : q # p => spanMap[q] # s
  BY GivenBack
<1>2. DOMAIN held' = DOMAIN held \ {p} /\ \A q \in DOMAIN held' : held'[q] = held[q]
  BY DEF Heap!Without
<1>3. Listed' /\ Apart' /\ Covered' /\ Known'
  BY DEF HeapInv, Listed, Size, Apart, Covered, Known, First, Behind
<1>4. Given'
  BY <1>1, <1>2, GivenSpan DEF Given
<1>5. Owned'
  <2>1. \A u \in DOMAIN span : First(u)' = First(u)
    BY DEF First
  <2>2. \A u \in DOMAIN span : u # s /\ spanMap[First(u)] = u => First(u) # p
    OBVIOUS
  <2> QED BY <1>2, <2>1, <2>2 DEF HeapInv, Owned
<1>6. Heap!TypeOK'
  <2>1. \A j \in DOMAIN freeSpans' : freeSpans'[j] \in Seq(DOMAIN span')
    BY DEF Sorted, Proper
  <2> QED BY <1>2, <2>1 DEF HeapInv, Heap!TypeOK
<1> QED BY <1>3, <1>4, <1>5, <1>6 DEF HeapInv

\* deallocateSpan() when nothing known begins behind the span.
LEMMA DeallocateAloneKeeps ==
    ASSUME HeapConstants, HeapInv, NEW p \in DOMAIN held, Heap!DeallocateAlone(p)
    PROVE  HeapInv'
<1>0. PICK s : s = spanMap[p]
  OBVIOUS
<1>1. s \in DOMAIN span /\ s \notin Members(freeSpans) /\ Size[s] \in 1..Pages
  BY <1>0, GivenBack, SpanType
<1>2. /\ freeSpans' = Heap!PushSpan(freeSpans, Size[s], s)
      /\ held' = Heap!Without(held, p)
      /\ UNCHANGED <<span, spanMap, mapped, crashed>>
  BY <1>0, <1>1, SpanType DEF Heap!DeallocateAlone
<1>3. /\ Sorted(freeSpans', DOMAIN span, Size)
      /\ Members(freeSpans') = Members(freeSpans) \union {s}
      /\ DOMAIN freeSpans' = DOMAIN freeSpans \union {Size[s]}
  BY <1>1, <1>2, PushedOn DEF HeapInv, Listed
<1>4. DOMAIN freeSpans' \subseteq 1..Pages
  BY <1>1, <1>3 DEF HeapInv, Heap!TypeOK
<1> QED BY <1>0, <1>2, <1>3, <1>4, FreedKeeps

\* The search of the list of its size says whether a span is free.
LEMMA IsFreeMeans ==
    ASSUME HeapConstants, HeapInv, NEW s \in DOMAIN span
    PROVE  Heap!IsFree(s) <=> s \in Members(freeSpans)
<1>1. Size[s] = span[s].numPages
  BY SpanType
<1>2. s \in Members(freeSpans) =>
        Size[s] \in DOMAIN freeSpans /\ s \in Elements(freeSpans[Size[s]])
  BY InMembers DEF HeapInv, Listed, Sorted, Proper
<1>3. \A k \in DOMAIN freeSpans : s \in Elements(freeSpans[k]) => s \in Members(freeSpans)
  BY InMembers
<1> QED BY <1>1, <1>2, <1>3 DEF Heap!IsFree, Elements

\* deallocateSpan() when a span begins behind: it is swallowed if it is free.
LEMMA DeallocateMergingKeeps ==
    ASSUME HeapConstants, HeapInv, NEW p \in DOMAIN held, Heap!DeallocateMerging(p)
    PROVE  HeapInv'
<1>0. PICK s, q, b : s = spanMap[p] /\ q = p + held[p] /\ b = spanMap[q]
  OBVIOUS
<1> DEFINE F == Members(freeSpans)
           n == Size[b]
           lists == Heap!Put(freeSpans, n, Heap!Unlink(ListOf(freeSpans, n), b))
           joined == span[s].numPages + (IF Heap!IsFree(b) THEN n ELSE 0)
<1>1. /\ s \in DOMAIN span /\ s \notin F /\ First(s) = p
      /\ span[s].numPages = held[p] /\ held[p] \in 1..Pages /\ p \in 1..Pages
      /\ Behind(s) = q /\ \A r \in DOMAIN held : r # p => spanMap[r] # s
  BY <1>0, GivenBack
<1>2. q \in DOMAIN spanMap /\ b \in DOMAIN span /\ First(b) = q
  BY <1>0 DEF Heap!DeallocateMerging, HeapInv, Heap!TypeOK, Known
<1>3. n = span[b].numPages /\ n \in 1..Pages /\ Behind(b) = q + n /\ Behind(b) <= Pages + 1
  BY <1>2, SpanType
<1>4. /\ freeSpans' = Heap!PushSpan(lists, joined, s)
      /\ IF Heap!IsFree(b)
         THEN /\ span' = Heap!Without([span EXCEPT ![s].numPages = joined], b)
              /\ spanMap' = Heap!Without(spanMap, q)
         ELSE UNCHANGED <<span, spanMap>>
      /\ held' = Heap!Without(held, p)
      /\ UNCHANGED <<mapped, crashed>>
  BY <1>0, <1>3 DEF Heap!DeallocateMerging, ListOf
<1>5. /\ Sorted(lists, DOMAIN span, Size) /\ Members(lists) = F \ {b}
      /\ DOMAIN lists = DOMAIN freeSpans \union {n}
  BY TakenOut DEF HeapInv, Listed
<1>6. Heap!IsFree(b) <=> b \in F
  BY <1>2, IsFreeMeans
<1>7. Pages \in Nat /\ p \in Nat /\ q \in Nat /\ p < q /\ q = p + held[p] /\ s # b
  BY <1>0, <1>1, <1>2 DEF HeapConstants
<1> HIDE DEF lists
<1>8. CASE b \notin F
  <2>1. joined = Size[s]
    BY <1>1, <1>6, <1>8, SpanType
  <2> HIDE DEF joined, F
  <2>2. s \notin Members(lists) /\ Members(lists) = F
    BY <1>1, <1>5, <1>8
  <2>3. /\ Sorted(freeSpans', DOMAIN span, Size)
        /\ Members(freeSpans') = F \union {s}
        /\ DOMAIN freeSpans' = DOMAIN lists \union {joined}
    <3>1. /\ Sorted(lists, DOMAIN span, Size) /\ s \in DOMAIN span /\ Size[s] = joined
          /\ freeSpans' = Heap!PushSpan(lists, joined, s)
      BY <1>1, <1>4, <1>5, <2>1
    <3>2. /\ Sorted(freeSpans', DOMAIN span, Size)
          /\ Members(freeSpans') = Members(lists) \union {s}
          /\ DOMAIN freeSpans' = DOMAIN lists \union {joined}
      <4>1. PICK free, S, size, k : free = lists /\ S = DOMAIN span /\ size = Size /\ k = joined
        OBVIOUS
      <4>2. Sorted(free, S, size) /\ s \in S /\ size[s] = k /\ s \notin Members(free)
        BY <2>2, <3>1, <4>1
      <4>3. /\ Sorted(Heap!PushSpan(free, k, s), S, size)
            /\ Members(Heap!PushSpan(free, k, s)) = Members(free) \union {s}
            /\ DOMAIN Heap!PushSpan(free, k, s) = DOMAIN free \union {k}
        BY <4>2, PushedOn
      <4> QED BY <3>1, <4>1, <4>3
    <3>3. Members(freeSpans') = F \union {s}
      BY <2>2, <3>2
    <3> QED BY <3>2, <3>3
  <2>4. joined \in 1..Pages
    BY <1>1, <2>1, SpanType
  <2>5. DOMAIN freeSpans' \subseteq 1..Pages
    BY <1>3, <1>5, <2>3, <2>4 DEF HeapInv, Heap!TypeOK
  <2>6. UNCHANGED <<span, spanMap, mapped, crashed>> /\ held' = Heap!Without(held, p)
    BY <1>4, <1>6, <1>8
  <2> QED BY <1>0, <2>3, <2>5, <2>6, FreedKeeps DEF F
<1>9. CASE b \in F
  <2>1. PICK j : j = held[p] + n
    OBVIOUS
  <2>2. joined = j
    BY <1>1, <1>6, <1>9, <2>1
  <2>3. /\ freeSpans' = Heap!PushSpan(lists, j, s)
        /\ span' = Heap!Without([span EXCEPT ![s].numPages = j], b)
        /\ spanMap' = Heap!Without(spanMap, q) /\ held' = Heap!Without(held, p)
        /\ UNCHANGED <<mapped, crashed>>
    BY <1>4, <1>6, <1>9, <2>2
  <2> HIDE DEF joined, F, n
  <2>4. j \in 1..Pages /\ p + j = q + n /\ j \in Nat /\ n \in Nat
    BY <1>1, <1>3, <1>7, <2>1
  <2>5. /\ DOMAIN span' = DOMAIN span \ {b}
        /\ span'[s] = [pageAddr |-> p, numPages |-> j]
        /\ \A u \in DOMAIN span : u # s /\ u # b => span'[u] = span[u]
    <3>1. [span[s] EXCEPT !.numPages = j] = [pageAddr |-> p, numPages |-> j]
      BY <1>1, SpanType
    <3> QED BY <1>1, <1>7, <2>3, <3>1 DEF Heap!Without
  <2>6. /\ First(s)' = p /\ Behind(s)' = q + n /\ Size'[s] = j
        /\ \A u \in DOMAIN span : u # s /\ u # b =>
             First(u)' = First(u) /\ Behind(u)' = Behind(u) /\ Size'[u] = Size[u]
    BY <1>1, <1>7, <2>4, <2>5 DEF First, Behind, Size
  <2>7. /\ DOMAIN spanMap' = DOMAIN spanMap \ {q}
        /\ \A r \in DOMAIN spanMap' : spanMap'[r] = spanMap[r]
        /\ DOMAIN held' = DOMAIN held \ {p} /\ \A r \in DOMAIN held' : held'[r] = held[r]
    BY <2>3 DEF Heap!Without
  <2>8. F \subseteq DOMAIN span
    BY ListedMembers DEF F
  <2>9. /\ Sorted(freeSpans', DOMAIN span', Size')
        /\ Members(freeSpans') = (F \ {b}) \union {s}
        /\ DOMAIN freeSpans' = DOMAIN lists \union {j}
    <3>1. PICK old : old = lists
      OBVIOUS
    <3>2. /\ Sorted(old, DOMAIN span, Size) /\ Members(old) = F \ {b}
          /\ DOMAIN old = DOMAIN lists /\ freeSpans' = Heap!PushSpan(old, j, s)
      BY <1>5, <2>3, <3>1
    <3> HIDE DEF lists
    <3>3. Sorted(old, DOMAIN span', Size')
      BY <1>1, <2>5, <2>6, <2>8, <3>2, Resorted
    <3>4. s \in DOMAIN span' /\ s \notin Members(old) /\ Size'[s] = j
      BY <1>1, <1>7, <2>5, <2>6, <3>2
    <3>5. /\ Sorted(Heap!PushSpan(old, j, s), DOMAIN span', Size')
          /\ Members(Heap!PushSpan(old, j, s)) = Members(old) \union {s}
          /\ DOMAIN Heap!PushSpan(old, j, s) = DOMAIN old \union {j}
      BY <3>3, <3>4, PushedOn
    <3> QED BY <3>2, <3>5
  <2>10. Apart'
    <3> SUFFICES ASSUME NEW u \in DOMAIN span', NEW v \in DOMAIN span', u # v
                 PROVE  (Behind(u) <= First(v) \/ Behind(v) <= First(u))'
      BY DEF Apart
    <3>1. \A w \in DOMAIN span : w # s /\ w # b =>
            /\ Behind(w) <= p \/ q <= First(w)
            /\ Behind(w) <= q \/ q + n <= First(w)
            /\ Behind(w) \in Nat /\ First(w) \in Nat /\ First(w) < Behind(w)
      BY <1>1, <1>2, <1>3, SpanType DEF HeapInv, Apart
    <3>2. \A w \in DOMAIN span : w # s /\ w # b => Behind(w) <= p \/ q + n <= First(w)
      BY <1>7, <2>4, <3>1
    <3>3. CASE u = s \/ v = s
      BY <2>5, <2>6, <3>2, <3>3
    <3>4. CASE u # s /\ v # s
      BY <2>5, <2>6, <3>4 DEF HeapInv, Apart
    <3> QED BY <3>3, <3>4
  <2>11. Covered'
    <3> SUFFICES ASSUME NEW x
                 PROVE  x \in mapped <=>
                          x \in Nat /\ \E u \in DOMAIN span' : First(u)' <= x /\ x < Behind(u)'
      BY <2>3 DEF Covered
    <3>1. x \in mapped <=> x \in Nat /\ \E u \in DOMAIN span : First(u) <= x /\ x < Behind(u)
      BY DEF HeapInv, Covered
    <3>2. x \in Nat => ((p <= x /\ x < q + n) <=> (p <= x /\ x < q) \/ (q <= x /\ x < q + n))
      BY <1>7, <2>4
    <3>3. Behind(b) = q + n
      BY <1>3
    <3> QED BY <1>1, <1>2, <1>7, <2>5, <2>6, <3>1, <3>2, <3>3
  <2>12. \A r \in DOMAIN spanMap' :
            spanMap[r] \in DOMAIN span /\ First(spanMap[r]) = r /\ spanMap[r] # b
    BY <1>2, <2>7 DEF HeapInv, Heap!TypeOK, Known
  <2>13. Known'
    BY <1>1, <2>6, <2>7, <2>12 DEF Known
  <2>14. \A r \in DOMAIN held' :
            /\ r \in DOMAIN held /\ r # p /\ r # q /\ r \in DOMAIN spanMap'
            /\ spanMap[r] \notin F /\ spanMap[r] # s /\ spanMap[r] # b
            /\ span[spanMap[r]].numPages = held[r] /\ spanMap[r] \in DOMAIN span
    <3> TAKE r \in DOMAIN held'
    <3>1. r \in DOMAIN held /\ r # p
      BY <2>7
    <3>2. /\ r \in DOMAIN spanMap /\ spanMap[r] \notin F /\ spanMap[r] # s
          /\ span[spanMap[r]].numPages = held[r] /\ spanMap[r] \in DOMAIN span
      BY <1>1, <3>1, GivenSpan DEF F
    <3>3. r # q
      BY <1>0, <1>9, <3>2
    <3> QED BY <1>9, <2>7, <3>1, <3>2, <3>3
  <2>15. Given'
    BY <2>5, <2>7, <2>9, <2>14 DEF Given
  <2>16. Owned'
    <3> SUFFICES ASSUME NEW u \in DOMAIN span', u \notin Members(freeSpans')
                 PROVE  First(u)' \in DOMAIN held' /\ spanMap'[First(u)'] = u
      BY DEF Owned
    <3>1. u \in DOMAIN span /\ u # s /\ u # b /\ u \notin F
      BY <2>5, <2>9
    <3>2. First(u) \in DOMAIN held /\ spanMap[First(u)] = u
      BY <3>1 DEF HeapInv, Owned, F
    <3>3. First(u) # p /\ First(u) \in DOMAIN held'
      BY <1>0, <2>7, <3>1, <3>2
    <3> QED BY <2>6, <2>7, <2>14, <3>1, <3>2, <3>3
  <2>17. Heap!TypeOK'
    <3>1. \A u \in DOMAIN span' : span'[u] \in [pageAddr : 1..Pages, numPages : 1..Pages]
      <4>1. \A u \in DOMAIN span : span[u] \in [pageAddr : 1..Pages, numPages : 1..Pages]
        BY DEF HeapInv, Heap!TypeOK
      <4>2. span'[s] \in [pageAddr : 1..Pages, numPages : 1..Pages]
        BY <1>1, <2>4, <2>5
      <4> QED BY <2>5, <4>1, <4>2
    <3>2. \A i \in DOMAIN freeSpans' : freeSpans'[i] \in Seq(DOMAIN span')
      BY <2>9 DEF Sorted, Proper
    <3>3. DOMAIN freeSpans' \subseteq 1..Pages
      BY <1>3, <1>5, <2>4, <2>9 DEF HeapInv, Heap!TypeOK, n
    <3>4. /\ DOMAIN spanMap' \subseteq 1..Pages
          /\ \A r \in DOMAIN spanMap' : spanMap'[r] \in DOMAIN span'
      BY <2>5, <2>7, <2>12 DEF HeapInv, Heap!TypeOK
    <3>5. DOMAIN span' \subseteq 1..(Pages + 1)
      BY <2>5 DEF HeapInv, Heap!TypeOK
    <3>6. DOMAIN held' \subseteq mapped' /\ \A r \in DOMAIN held' : held'[r] \in 1..Pages
      BY <2>3, <2>7 DEF HeapInv, Heap!TypeOK
    <3> QED BY <2>3, <3>1, <3>2, <3>3, <3>4, <3>5, <3>6 DEF HeapInv, Heap!TypeOK
  <2> QED BY <2>9, <2>10, <2>11, <2>13, <2>15, <2>16, <2>17 DEF HeapInv, Listed
<1> QED BY <1>8, <1>9

\* Every call keeps the invariant.
LEMMA HeapStep == ASSUME HeapConstants, HeapInv, [Heap!Next]_(Heap!vars) PROVE HeapInv'
<1>1. CASE UNCHANGED Heap!vars
  BY <1>1 DEF Heap!vars, HeapInv, Heap!TypeOK, Listed, Size, Apart, Covered, Known,
              Given, Owned, First, Behind
<1>2. ASSUME NEW n \in 1..Pages, Heap!AllocateFree(n) PROVE HeapInv'
  BY <1>2, AllocateFreeKeeps
<1>3. ASSUME NEW n \in 1..Pages, Heap!AllocateNull(n) PROVE HeapInv'
  BY <1>3 DEF Heap!AllocateNull, HeapInv, Heap!TypeOK, Listed, Size, Apart, Covered,
              Known, Given, Owned,
              First, Behind
<1>4. ASSUME NEW n \in 1..Pages, Heap!AllocateSystem(n) PROVE HeapInv'
  BY <1>4, AllocateSystemKeeps
<1>5. ASSUME NEW p \in DOMAIN held, Heap!DeallocateAlone(p) PROVE HeapInv'
  BY <1>5, DeallocateAloneKeeps
<1>6. ASSUME NEW p \in DOMAIN held, Heap!DeallocateMerging(p) PROVE HeapInv'
  BY <1>6, DeallocateMergingKeeps
<1> QED BY <1>1, <1>2, <1>3, <1>4, <1>5, <1>6 DEF Heap!Next

\* A list without repetitions has as many spans as links.
LEMMA OnceCounted ==
    ASSUME NEW S, NEW k, NEW size, NEW list, Proper(list, k, S, size)
    PROVE  Cardinality(Elements(list)) = Len(list)
<1> DEFINE n == Len(list)
           f == [i \in 1..n |-> list[i]]
<1>1. n \in Nat
  BY LenProperties DEF Proper
<1>2. f \in Bijection(1..n, Elements(list))
  BY Fun_IsBij DEF Proper, Elements
<1>3. ExistsBijection(1..n, Elements(list))
  BY <1>2 DEF ExistsBijection
<1> QED BY <1>1, <1>3, FS_CountingElements

\* An instance has operators of its own, Cardinality among them.
LEMMA HeapCardinality == \A S : Heap!Cardinality(S) = Cardinality(S)
BY DEF Heap!Cardinality, Cardinality

\* The invariant says where every page is.
LEMMA HeapInvGives == ASSUME HeapConstants, HeapInv PROVE Heap!EveryPageInOneSpan
<1> DEFINE heldPages == [p \in DOMAIN held |-> Heap!PagesFrom(p, held[p])]
<1>1. /\ Heap!FreeSpans = Members(freeSpans)
      /\ \A k \in DOMAIN freeSpans : Heap!FreeList(k) = Elements(freeSpans[k])
  BY DEF Heap!FreeSpans, Heap!FreeList, Members, Elements
<1>2. \A s \in DOMAIN span : \A x :
         x \in Heap!PagesOf(s) <=> x \in Nat /\ First(s) <= x /\ x < Behind(s)
  <2> SUFFICES ASSUME NEW s \in DOMAIN span, NEW x
               PROVE  x \in Heap!PagesOf(s) <=> x \in Nat /\ First(s) <= x /\ x < Behind(s)
    OBVIOUS
  <2>1. First(s) \in Nat /\ span[s].numPages \in Nat /\ Behind(s) = First(s) + span[s].numPages
    BY SpanType DEF HeapConstants
  <2>2. Heap!PagesOf(s) = First(s)..(First(s) + span[s].numPages - 1)
    BY DEF Heap!PagesOf, Heap!PagesFrom, First
  <2> QED BY <2>1, <2>2
<1>3. \A p \in DOMAIN held :
         spanMap[p] \in DOMAIN span /\ heldPages[p] = Heap!PagesOf(spanMap[p])
  BY GivenSpan DEF Heap!PagesOf, First
<1>4. \A s, t \in DOMAIN span : s # t => Heap!PagesOf(s) \intersect Heap!PagesOf(t) = {}
  <2> SUFFICES ASSUME NEW s \in DOMAIN span, NEW t \in DOMAIN span, s # t,
                      NEW x, x \in Heap!PagesOf(s), x \in Heap!PagesOf(t)
               PROVE  FALSE
    OBVIOUS
  <2>1. /\ First(s) \in Nat /\ Behind(s) \in Nat /\ First(t) \in Nat /\ Behind(t) \in Nat
        /\ Behind(s) <= First(t) \/ Behind(t) <= First(s)
    BY SpanType DEF HeapInv, Apart
  <2> QED BY <1>2, <2>1
<1>5. Members(freeSpans) \subseteq DOMAIN span
  BY ListedMembers
<1>6. \A p, q \in DOMAIN held : p # q => spanMap[p] # spanMap[q]
  BY GivenSpan
<1>7. \A p \in DOMAIN held : spanMap[p] \notin Members(freeSpans)
  BY GivenSpan
<1> HIDE DEF heldPages
<1>8. mapped = (UNION {heldPages[p] : p \in DOMAIN held})
                 \union (UNION {Heap!PagesOf(s) : s \in Heap!FreeSpans})
  <2> SUFFICES ASSUME NEW x
               PROVE  x \in mapped <=> \/ \E p \in DOMAIN held : x \in heldPages[p]
                                       \/ \E s \in Heap!FreeSpans : x \in Heap!PagesOf(s)
    OBVIOUS
  <2>1. x \in mapped <=> \E s \in DOMAIN span : x \in Heap!PagesOf(s)
    BY <1>2 DEF HeapInv, Covered
  <2>2. \A s \in DOMAIN span : s \in Heap!FreeSpans \/ \E p \in DOMAIN held : spanMap[p] = s
    BY <1>1 DEF HeapInv, Owned
  <2> QED BY <1>1, <1>3, <1>5, <2>1, <2>2
<1>9. \A p, q \in DOMAIN held : p # q => heldPages[p] \intersect heldPages[q] = {}
  BY <1>3, <1>4, <1>6
<1>10. \A s, t \in Heap!FreeSpans :
          s # t => Heap!PagesOf(s) \intersect Heap!PagesOf(t) = {}
  BY <1>1, <1>4, <1>5
<1>11. \A p \in DOMAIN held, s \in Heap!FreeSpans :
          heldPages[p] \intersect Heap!PagesOf(s) = {}
  BY <1>1, <1>3, <1>4, <1>5, <1>7
<1>12. \A k \in DOMAIN freeSpans :
          /\ Cardinality(Heap!FreeList(k)) = Len(freeSpans[k])
          /\ \A s \in Heap!FreeList(k) : span[s].numPages = k
  <2> TAKE k \in DOMAIN freeSpans
  <2>1. Proper(freeSpans[k], k, DOMAIN span, Size)
    BY DEF HeapInv, Listed, Sorted
  <2>2. Elements(freeSpans[k]) \subseteq DOMAIN span
    BY <2>1, ElementsIn DEF Proper
  <2>3. Cardinality(Elements(freeSpans[k])) = Len(freeSpans[k])
    BY <2>1, OnceCounted
  <2>4. \A s \in Elements(freeSpans[k]) : Size[s] = k
    BY <2>1 DEF Proper
  <2>5. \A s \in DOMAIN span : Size[s] = span[s].numPages
    BY SpanType
  <2> QED BY <1>1, <2>2, <2>3, <2>4, <2>5
<1>13. \A p \in DOMAIN held :
          /\ p \in DOMAIN spanMap /\ spanMap[p] \in DOMAIN span
          /\ span[spanMap[p]] = [pageAddr |-> p, numPages |-> held[p]]
  BY GivenSpan, SpanType
<1> QED
  BY HeapCardinality, <1>8, <1>9, <1>10, <1>11, <1>12, <1>13
     DEF Heap!EveryPageInOneSpan, heldPages

\* The page cache alone.
LEMMA PagesStayInOneSpan ==
    ASSUME HeapConstants
    PROVE  Heap!Spec => []Heap!EveryPageInOneSpan
<1>1. HeapInv /\ [Heap!Next]_(Heap!vars) => HeapInv'
  BY HeapStep
<1>2. HeapInv => Heap!EveryPageInOneSpan
  BY HeapInvGives
<1> QED BY HeapInit, <1>1, <1>2, PTL DEF Heap!Spec

\* Type correctness: a list and spanMap_ name only spans there are, and what users hold
\* begins at pages of the system.
LEMMA HeapTypeCorrect ==
    ASSUME HeapConstants
    PROVE  Heap!Spec => []Heap!TypeOK
<1>1. HeapInv /\ [Heap!Next]_(Heap!vars) => HeapInv'
  BY HeapStep
<1>2. HeapInv => Heap!TypeOK
  BY DEF HeapInv
<1> QED BY HeapInit, <1>1, <1>2, PTL DEF Heap!Spec

-----------------------------------------------------------------------------
(* The lock-free pool.                                                    *)

\* A block has a slot at least, and a slot is not mistaken for nullptr or for what a user
\* leaves in one.
PoolConstants ==
    /\ SlotsPerBlock \in Nat \ {0} /\ MaxBlocks \in Nat
    /\ Null \notin Pool!Slots /\ Junk \notin Pool!Slots /\ Junk # Null

\* Each slot of C is in one place: with its user (U), on the stack (K), thrown away (L), or
\* with one of the threads of Q, which are about to push theirs.
Placed(C, U, K, L, Q, own) ==
    /\ \A s : s \in C <=> s \in U \/ s \in K \/ s \in L \/ \E t \in Q : own[t] = s
    /\ \A s \in U : s \notin K /\ s \notin L
    /\ \A s \in K : s \notin L
    /\ \A t \in Q : own[t] \notin U /\ own[t] \notin K /\ own[t] \notin L
    /\ \A t, u \in Q : own[t] = own[u] => t = u

SlotsCut == {s \in Pool!Slots : s <= cut}
SlotsUsed == {s \in Pool!Slots : slotUsers[s] > 0}

\* Until a pop has met ABA, the stack is a list and every slot is in one place.
Stacked(s, n) ==
    /\ IsList(Pool!Slots, slotNext, slotFreeList, s, n)
    /\ Placed(SlotsCut, SlotsUsed, Nodes(s, n), dropped, Pool!Pushing, slot)

OneUser == \A s \in Pool!Slots : slotUsers[s] \in {0, 1}

\* The slot a thread is about to install as the head is linked to the head it has read.
ToBePushed(t) == poolPc[t] = "pushSwap" => slotNext[slot[t]] = link[t]

PoolHeld == (\E n \in Nat : \E s : Stacked(s, n)) /\ OneUser /\ \A t \in Threads : ToBePushed(t)

PoolAt(t) ==
    /\ poolPc[t] \in {"popNext", "popSwap", "push", "pushNext", "pushSwap"} =>
         slot[t] \in Pool!Slots
    /\ poolPc[t] \in {"pushNext", "pushSwap"} => link[t] \in Pool!Slots \union {Null}

PoolInv == Pool!TypeOK /\ (\A t \in Threads : PoolAt(t)) /\ (~aba => PoolHeld)

\* The slots are finitely many.
LEMMA SlotsAre ==
    ASSUME PoolConstants
    PROVE  /\ IsFiniteSet(Pool!Slots) /\ Cardinality(Pool!Slots) = SlotsPerBlock * MaxBlocks
           /\ SlotsPerBlock * MaxBlocks \in Nat /\ Pool!Slots = 1..(SlotsPerBlock * MaxBlocks)
<1>1. SlotsPerBlock * MaxBlocks \in Nat
  BY DEF PoolConstants
<1> QED BY <1>1, FS_Interval DEF Pool!Slots

\* Cardinality() is the same in MemoryPool.
LEMMA PoolCardinality == \A S : Pool!Cardinality(S) = Cardinality(S)
  BY DEF Pool!Cardinality, Cardinality

\* The stack, as the model walks it.
LEMMA StackIs ==
    ASSUME PoolConstants, NEW n \in Nat, NEW s,
           IsList(Pool!Slots, slotNext, slotFreeList, s, n)
    PROVE  Pool!Chain(slotFreeList) = Nodes(s, n)
<1> PICK N : N = Pool!Cardinality(Pool!Slots)
  OBVIOUS
<1>1. N \in Nat /\ n <= N
  BY SlotsAre, Counted, PoolCardinality
<1> DEFINE step(f) == [i \in 0..N |->
               IF i = 0 THEN slotFreeList
               ELSE IF f[i - 1] \in Pool!Slots THEN slotNext[f[i - 1]] ELSE Null]
           g == [i \in 0..N |-> Link(s, n, i)]
           f == CHOOSE f : f = step(f)
<1>2. g = step(g)
  <2> SUFFICES ASSUME NEW i \in 0..N, i # 0
               PROVE  g[i] = IF g[i - 1] \in Pool!Slots THEN slotNext[g[i - 1]] ELSE Null
    BY DEF IsList
  <2>1. i - 1 \in 0..N /\ g[i - 1] = Link(s, n, i - 1) /\ g[i] = Link(s, n, i)
    BY <1>1
  <2>2. CASE i - 1 < n
    <3>1. i - 1 \in 0..(n - 1) /\ (i - 1) + 1 = i
      BY <1>1, <2>2
    <3>2. g[i - 1] = s[i - 1] /\ s[i - 1] \in Pool!Slots
      BY <2>1, <2>2, <3>1 DEF Link, IsList
    <3> QED BY <2>1, <3>1, <3>2 DEF IsList
  <2>3. CASE ~(i - 1 < n)
    <3>1. ~(i < n) /\ g[i - 1] = Null /\ g[i] = Null
      BY <1>1, <2>1, <2>3 DEF Link
    <3> QED BY <3>1 DEF PoolConstants
  <2> QED BY <2>2, <2>3
<1>3. f = step(f)
  <2> HIDE DEF step
  <2> QED BY <1>2
<1>4. \A i \in 0..N : f[i] = Link(s, n, i)
  <2> HIDE DEF f
  <2> QED BY <1>1, <1>3, WalkIs DEF PoolConstants
<1>5. Pool!Chain(slotFreeList) = {f[i] : i \in DOMAIN f} \intersect Pool!Slots
  BY DEF Pool!Chain
<1>6. DOMAIN f = 0..N
  <2> HIDE DEF f
  <2> QED BY <1>3
<1> HIDE DEF f, g, step
<1>7. ASSUME NEW x PROVE x \in Pool!Chain(slotFreeList) <=> x \in Nodes(s, n)
  <2>1. x \in Pool!Chain(slotFreeList) <=> x \in Pool!Slots /\ \E i \in 0..N : x = Link(s, n, i)
    BY <1>4, <1>5, <1>6
  <2>2. \A i \in 0..(n - 1) : i \in 0..N /\ i < n /\ s[i] \in Pool!Slots
    BY <1>1 DEF IsList
  <2>3. \A i \in 0..N : Link(s, n, i) \in Pool!Slots => i \in 0..(n - 1) /\ Link(s, n, i) = s[i]
    BY <1>1 DEF Link, PoolConstants
  <2> QED BY <2>1, <2>2, <2>3 DEF Nodes, Link
<1> QED BY <1>7

\* A step that neither moves a slot nor writes a link.
LEMMA Quiet ==
    ASSUME PoolHeld, slotNext' = slotNext, slotFreeList' = slotFreeList, cut' = cut,
           slotUsers' = slotUsers, dropped' = dropped, Pool!Pushing' = Pool!Pushing,
           \A u \in Pool!Pushing : slot'[u] = slot[u], \A u \in Threads : ToBePushed(u)'
    PROVE  PoolHeld'
<1>1. PICK n \in Nat : \E s : Stacked(s, n)
  BY DEF PoolHeld
<1>2. PICK s : Stacked(s, n)
  BY <1>1
<1>3. SlotsCut' = SlotsCut /\ SlotsUsed' = SlotsUsed
  BY DEF SlotsCut, SlotsUsed
<1>4. Stacked(s, n)'
  BY <1>2, <1>3 DEF Stacked, Placed
<1>5. OneUser'
  BY DEF PoolHeld, OneUser
<1> QED BY <1>4, <1>5 DEF PoolHeld

\* What is known where a step begins.
LEMMA PoolBefore ==
    ASSUME PoolConstants, PoolInv, ~aba
    PROVE  /\ PoolHeld /\ \A u \in Threads : PoolAt(u) /\ ToBePushed(u)
           /\ slotNext \in [Pool!Slots -> Pool!Slots \union {Null, Junk}]
           /\ slotFreeList \in Pool!Slots \union {Null}
           /\ cut \in 0..(blocks * SlotsPerBlock) /\ blocks \in 0..MaxBlocks
           /\ slotUsers \in [Pool!Slots -> Nat]
           /\ poolPc \in [Threads -> {"idle", "pop", "popNext", "popSwap", "block",
                                      "push", "pushNext", "pushSwap"}]
           /\ slot \in [Threads -> Pool!Slots \union {Null}]
           /\ link \in [Threads -> Pool!Slots \union {Null, Junk}]
           /\ aba = FALSE /\ dropped \subseteq Pool!Slots
  BY DEF PoolInv, PoolHeld, Pool!TypeOK

\* The other threads are where they were.
Stay(t) ==
    \A u \in Threads : u # t =>
        poolPc'[u] = poolPc[u] /\ slot'[u] = slot[u] /\ link'[u] = link[u]

\* A step of t keeps the invariant when it leaves t, and the stack, as they should be.
LEMMA PoolAfter ==
    ASSUME PoolConstants, PoolInv, ~aba, NEW t \in Threads, Stay(t), Pool!TypeOK', PoolAt(t)',
           ~aba' => PoolHeld'
    PROVE  PoolInv'
<1>1. \A u \in Threads : PoolAt(u)'
  BY DEF Stay, PoolAt, PoolInv
<1> QED BY <1>1 DEF PoolInv

\* Whether t pushes.
LEMMA PushingIs ==
    ASSUME NEW t \in Threads, Stay(t)
    PROVE  /\ t \in Pool!Pushing <=> poolPc[t] \in {"push", "pushNext", "pushSwap"}
           /\ t \in Pool!Pushing' <=> poolPc'[t] \in {"push", "pushNext", "pushSwap"}
           /\ \A u : u # t => (u \in Pool!Pushing' <=> u \in Pool!Pushing)
           /\ \A u \in Pool!Pushing : u \in Threads
  BY DEF Stay, Pool!Pushing

\* The head is read, or the stack is empty.
LEMMA PopHeadKeeps ==
    ASSUME PoolConstants, PoolInv, ~aba, NEW t \in Threads, Pool!PopHead(t)
    PROVE  PoolInv'
<1>1. /\ poolPc[t] \in {"idle", "pop"}
      /\ \/ slotFreeList = Null /\ poolPc' = [poolPc EXCEPT ![t] = "block"] /\ slot' = slot
         \/ /\ slotFreeList # Null /\ poolPc' = [poolPc EXCEPT ![t] = "popNext"]
            /\ slot' = [slot EXCEPT ![t] = slotFreeList]
      /\ slotNext' = slotNext /\ slotFreeList' = slotFreeList /\ cut' = cut /\ blocks' = blocks
      /\ slotUsers' = slotUsers /\ link' = link /\ aba' = aba /\ dropped' = dropped
  BY DEF Pool!PopHead, Pool!Goto
<1>2. Stay(t) /\ poolPc'[t] \in {"block", "popNext"}
  BY <1>1, PoolBefore DEF Stay
<1>3. PoolHeld'
  <2>1. Pool!Pushing' = Pool!Pushing /\ t \notin Pool!Pushing
    BY <1>1, <1>2, PushingIs
  <2>2. \A u \in Threads : ToBePushed(u)'
    BY <1>1, <1>2, PoolBefore DEF ToBePushed, Stay
  <2> QED BY <1>1, <1>2, <2>1, <2>2, PoolBefore, PushingIs, Quiet DEF Stay
<1>4. PoolAt(t)'
  BY <1>1, <1>2, PoolBefore DEF PoolAt
<1>5. Pool!TypeOK'
  BY <1>1, PoolBefore DEF Pool!TypeOK
<1> QED BY <1>2, <1>3, <1>4, <1>5, PoolAfter

\* The link is read; nothing is known of it, because the head may be gone.
LEMMA PopNextKeeps ==
    ASSUME PoolConstants, PoolInv, ~aba, NEW t \in Threads, Pool!PopNext(t)
    PROVE  PoolInv'
<1>1. /\ poolPc[t] = "popNext" /\ poolPc' = [poolPc EXCEPT ![t] = "popSwap"]
      /\ link' = [link EXCEPT ![t] = slotNext[slot[t]]]
      /\ slotNext' = slotNext /\ slotFreeList' = slotFreeList /\ cut' = cut /\ blocks' = blocks
      /\ slotUsers' = slotUsers /\ slot' = slot /\ aba' = aba /\ dropped' = dropped
  BY DEF Pool!PopNext, Pool!Goto
<1>2. Stay(t) /\ poolPc'[t] = "popSwap"
  BY <1>1, PoolBefore DEF Stay
<1>3. PoolHeld'
  <2>1. Pool!Pushing' = Pool!Pushing /\ t \notin Pool!Pushing
    BY <1>1, <1>2, PushingIs
  <2>2. \A u \in Threads : ToBePushed(u)'
    BY <1>1, <1>2, PoolBefore DEF ToBePushed, Stay
  <2> QED BY <1>1, <1>2, <2>1, <2>2, PoolBefore, PushingIs, Quiet DEF Stay
<1>4. PoolAt(t)' /\ slot[t] \in Pool!Slots
  BY <1>1, <1>2, PoolBefore DEF PoolAt
<1>5. Pool!TypeOK'
  BY <1>1, <1>4, PoolBefore DEF Pool!TypeOK
<1> QED BY <1>2, <1>3, <1>4, <1>5, PoolAfter

\* The head is another one: once more.
LEMMA PopFailsKeeps ==
    ASSUME PoolConstants, PoolInv, ~aba, NEW t \in Threads, Pool!PopFails(t)
    PROVE  PoolInv'
<1>1. /\ poolPc[t] = "popSwap" /\ poolPc' = [poolPc EXCEPT ![t] = "pop"]
      /\ slot' = [slot EXCEPT ![t] = Null] /\ link' = [link EXCEPT ![t] = Null]
      /\ slotNext' = slotNext /\ slotFreeList' = slotFreeList /\ cut' = cut /\ blocks' = blocks
      /\ slotUsers' = slotUsers /\ aba' = aba /\ dropped' = dropped
  BY DEF Pool!PopFails, Pool!Goto
<1>2. Stay(t) /\ poolPc'[t] = "pop"
  BY <1>1, PoolBefore DEF Stay
<1>3. PoolHeld'
  <2>1. Pool!Pushing' = Pool!Pushing /\ t \notin Pool!Pushing
    BY <1>1, <1>2, PushingIs
  <2>2. \A u \in Threads : ToBePushed(u)'
    BY <1>1, <1>2, PoolBefore DEF ToBePushed, Stay
  <2> QED BY <1>1, <1>2, <2>1, <2>2, PoolBefore, PushingIs, Quiet DEF Stay
<1>4. PoolAt(t)'
  BY <1>2 DEF PoolAt
<1>5. Pool!TypeOK'
  BY <1>1, PoolBefore DEF Pool!TypeOK
<1> QED BY <1>2, <1>3, <1>4, <1>5, PoolAfter

\* There is no memory: nothing has changed.
LEMMA BlockFailsKeeps ==
    ASSUME PoolConstants, PoolInv, ~aba, NEW t \in Threads, Pool!BlockFails(t)
    PROVE  PoolInv'
<1>1. /\ poolPc[t] = "block" /\ poolPc' = [poolPc EXCEPT ![t] = "idle"]
      /\ slot' = [slot EXCEPT ![t] = Null] /\ link' = [link EXCEPT ![t] = Null]
      /\ slotNext' = slotNext /\ slotFreeList' = slotFreeList /\ cut' = cut /\ blocks' = blocks
      /\ slotUsers' = slotUsers /\ aba' = aba /\ dropped' = dropped
  BY DEF Pool!BlockFails, Pool!Goto, Pool!Return
<1>2. Stay(t) /\ poolPc'[t] = "idle"
  BY <1>1, PoolBefore DEF Stay
<1>3. PoolHeld'
  <2>1. Pool!Pushing' = Pool!Pushing /\ t \notin Pool!Pushing
    BY <1>1, <1>2, PushingIs
  <2>2. \A u \in Threads : ToBePushed(u)'
    BY <1>1, <1>2, PoolBefore DEF ToBePushed, Stay
  <2> QED BY <1>1, <1>2, <2>1, <2>2, PoolBefore, PushingIs, Quiet DEF Stay
<1>4. PoolAt(t)'
  BY <1>2 DEF PoolAt
<1>5. Pool!TypeOK'
  BY <1>1, PoolBefore DEF Pool!TypeOK
<1> QED BY <1>2, <1>3, <1>4, <1>5, PoolAfter

\* The head is another one: once more, and the slot is still with its thread.
LEMMA PushFailsKeeps ==
    ASSUME PoolConstants, PoolInv, ~aba, NEW t \in Threads, Pool!PushFails(t)
    PROVE  PoolInv'
<1>1. /\ poolPc[t] = "pushSwap" /\ poolPc' = [poolPc EXCEPT ![t] = "push"]
      /\ link' = [link EXCEPT ![t] = Null]
      /\ slotNext' = slotNext /\ slotFreeList' = slotFreeList /\ cut' = cut /\ blocks' = blocks
      /\ slotUsers' = slotUsers /\ slot' = slot /\ aba' = aba /\ dropped' = dropped
  BY DEF Pool!PushFails, Pool!Goto
<1>2. Stay(t) /\ poolPc'[t] = "push"
  BY <1>1, PoolBefore DEF Stay
<1>3. PoolHeld'
  <2>1. Pool!Pushing' = Pool!Pushing
    BY <1>1, <1>2, PushingIs
  <2>2. \A u \in Threads : ToBePushed(u)'
    BY <1>1, <1>2, PoolBefore DEF ToBePushed, Stay
  <2> QED BY <1>1, <2>1, <2>2, PoolBefore, Quiet
<1>4. PoolAt(t)'
  BY <1>1, <1>2, PoolBefore DEF PoolAt
<1>5. Pool!TypeOK'
  BY <1>1, PoolBefore DEF Pool!TypeOK
<1> QED BY <1>2, <1>3, <1>4, <1>5, PoolAfter

\* What the stack and the places were.
LEMMA StackBefore ==
    ASSUME PoolConstants, PoolInv, ~aba
    PROVE  \E n \in Nat : \E s :
             /\ IsList(Pool!Slots, slotNext, slotFreeList, s, n)
             /\ Placed(SlotsCut, SlotsUsed, Nodes(s, n), dropped, Pool!Pushing, slot)
             /\ Nodes(s, n) \subseteq Pool!Slots
<1>1. PICK n \in Nat : \E s : Stacked(s, n)
  BY PoolBefore DEF PoolHeld
<1>2. PICK s : Stacked(s, n)
  BY <1>1
<1>3. Nodes(s, n) \subseteq Pool!Slots
  BY <1>2 DEF Stacked, IsList, Nodes
<1> QED BY <1>2, <1>3 DEF Stacked

\* What the stack and the places are.
LEMMA StackAfter ==
    ASSUME NEW n \in Nat, NEW s, IsList(Pool!Slots, slotNext', slotFreeList', s, n),
           Placed(SlotsCut', SlotsUsed', Nodes(s, n), dropped', Pool!Pushing', slot'),
           OneUser', \A t \in Threads : ToBePushed(t)'
    PROVE  PoolHeld'
<1>1. Stacked(s, n)'
  BY DEF Stacked
<1> QED BY <1>1 DEF PoolHeld

\* Writing to a slot that is not about to be installed leaves those linked that are.
LEMMA StillToBePushed ==
    ASSUME PoolConstants, PoolInv, ~aba, NEW t \in Threads, Stay(t), NEW x,
           \A y \in Pool!Slots : y # x => slotNext'[y] = slotNext[y],
           \A u \in Pool!Pushing : u # t => slot[u] # x,
           poolPc'[t] # "pushSwap"
    PROVE  \A u \in Threads : ToBePushed(u)'
<1> SUFFICES ASSUME NEW u \in Threads, poolPc'[u] = "pushSwap"
             PROVE  slotNext'[slot'[u]] = link'[u]
  BY DEF ToBePushed
<1>1. u # t /\ poolPc[u] = "pushSwap" /\ slot'[u] = slot[u] /\ link'[u] = link[u]
  BY DEF Stay
<1>2. u \in Pool!Pushing /\ slot[u] \in Pool!Slots /\ slotNext[slot[u]] = link[u]
  BY <1>1, PoolBefore DEF Pool!Pushing, PoolAt, ToBePushed
<1> QED BY <1>1, <1>2

\* A user gives its slot back to the thread that pushes it, or the head is read again.
LEMMA PushHeadKeeps ==
    ASSUME PoolConstants, PoolInv, ~aba, NEW t \in Threads, Pool!PushHead(t)
    PROVE  PoolInv'
<1>1. /\ poolPc' = [poolPc EXCEPT ![t] = "pushNext"]
      /\ link' = [link EXCEPT ![t] = slotFreeList]
      /\ slotNext' = slotNext /\ slotFreeList' = slotFreeList /\ cut' = cut /\ blocks' = blocks
      /\ aba' = aba /\ dropped' = dropped
  BY DEF Pool!PushHead, Pool!Goto
<1>2. CASE poolPc[t] = "push" /\ slotUsers' = slotUsers /\ slot' = slot
  <2>1. Stay(t) /\ poolPc'[t] = "pushNext" /\ link'[t] = slotFreeList
    BY <1>1, <1>2, PoolBefore DEF Stay
  <2>2. PoolHeld'
    <3>1. Pool!Pushing' = Pool!Pushing
      BY <1>2, <2>1, PushingIs
    <3>2. \A u \in Threads : ToBePushed(u)'
      BY <1>1, <1>2, <2>1, PoolBefore DEF ToBePushed, Stay
    <3> QED BY <1>1, <1>2, <3>1, <3>2, PoolBefore, Quiet
  <2>3. PoolAt(t)'
    BY <1>2, <2>1, PoolBefore DEF PoolAt
  <2>4. Pool!TypeOK'
    BY <1>1, <1>2, PoolBefore DEF Pool!TypeOK
  <2> QED BY <2>1, <2>2, <2>3, <2>4, PoolAfter
<1>3. ASSUME poolPc[t] = "idle", NEW x \in Pool!Slots, slotUsers[x] > 0,
             slotUsers' = [slotUsers EXCEPT ![x] = @ - 1], slot' = [slot EXCEPT ![t] = x]
      PROVE  PoolInv'
  <2>1. Stay(t) /\ poolPc'[t] = "pushNext" /\ link'[t] = slotFreeList /\ slot'[t] = x
    BY <1>1, <1>3, PoolBefore DEF Stay
  <2>2. PICK n \in Nat : \E s :
             /\ IsList(Pool!Slots, slotNext, slotFreeList, s, n)
             /\ Placed(SlotsCut, SlotsUsed, Nodes(s, n), dropped, Pool!Pushing, slot)
    BY StackBefore
  <2>3. PICK s : /\ IsList(Pool!Slots, slotNext, slotFreeList, s, n)
                 /\ Placed(SlotsCut, SlotsUsed, Nodes(s, n), dropped, Pool!Pushing, slot)
    BY <2>2
  <2>4. /\ slotUsers[x] = 1 /\ slotUsers'[x] = 0
        /\ \A y \in Pool!Slots : y # x => slotUsers'[y] = slotUsers[y]
    BY <1>3, PoolBefore DEF PoolHeld, OneUser
  <2>5. x \in SlotsUsed /\ \A y : y \in SlotsUsed' <=> y \in SlotsUsed /\ y # x
    BY <1>3, <2>4 DEF SlotsUsed
  <2>6. SlotsCut' = SlotsCut
    BY <1>1 DEF SlotsCut
  <2>7. /\ t \notin Pool!Pushing /\ t \in Pool!Pushing'
        /\ \A u : u # t => (u \in Pool!Pushing' <=> u \in Pool!Pushing)
        /\ \A u \in Pool!Pushing : slot'[u] = slot[u]
    BY <1>3, <2>1, PushingIs DEF Stay
  <2>8. Placed(SlotsCut', SlotsUsed', Nodes(s, n), dropped', Pool!Pushing', slot')
    BY <1>1, <2>1, <2>3, <2>5, <2>6, <2>7 DEF Placed
  <2>9. OneUser'
    BY <2>4, PoolBefore DEF PoolHeld, OneUser
  <2>10. \A u \in Threads : ToBePushed(u)'
    BY <1>1, <1>3, <2>1, PoolBefore DEF ToBePushed, Stay
  <2>11. PoolHeld'
    BY <1>1, <2>3, <2>8, <2>9, <2>10, StackAfter
  <2>12. PoolAt(t)'
    BY <2>1, PoolBefore DEF PoolAt
  <2>13. Pool!TypeOK'
    <3>1. slotUsers' \in [Pool!Slots -> Nat]
      BY <1>3, PoolBefore
    <3> QED BY <1>1, <1>3, <3>1, PoolBefore DEF Pool!TypeOK
  <2> QED BY <2>1, <2>11, <2>12, <2>13, PoolAfter
<1> QED BY <1>2, <1>3 DEF Pool!PushHead

\* The link is written to a slot that is on no list.
LEMMA PushNextKeeps ==
    ASSUME PoolConstants, PoolInv, ~aba, NEW t \in Threads, Pool!PushNext(t)
    PROVE  PoolInv'
<1> PICK x : x = slot[t]
  OBVIOUS
<1>1. /\ poolPc[t] = "pushNext" /\ poolPc' = [poolPc EXCEPT ![t] = "pushSwap"]
      /\ slotNext' = [slotNext EXCEPT ![x] = link[t]]
      /\ slotFreeList' = slotFreeList /\ cut' = cut /\ blocks' = blocks /\ slotUsers' = slotUsers
      /\ slot' = slot /\ link' = link /\ aba' = aba /\ dropped' = dropped
  BY DEF Pool!PushNext, Pool!Goto
<1>2. Stay(t) /\ poolPc'[t] = "pushSwap" /\ x \in Pool!Slots /\ link[t] \in Pool!Slots \union {Null}
  BY <1>1, PoolBefore DEF Stay, PoolAt
<1>3. slotNext'[x] = link[t] /\ \A y \in Pool!Slots : y # x => slotNext'[y] = slotNext[y]
  BY <1>1, <1>2, PoolBefore
<1>4. PICK n \in Nat : \E s :
             /\ IsList(Pool!Slots, slotNext, slotFreeList, s, n)
             /\ Placed(SlotsCut, SlotsUsed, Nodes(s, n), dropped, Pool!Pushing, slot)
             /\ Nodes(s, n) \subseteq Pool!Slots
  BY StackBefore
<1>5. PICK s : /\ IsList(Pool!Slots, slotNext, slotFreeList, s, n)
               /\ Placed(SlotsCut, SlotsUsed, Nodes(s, n), dropped, Pool!Pushing, slot)
               /\ Nodes(s, n) \subseteq Pool!Slots
  BY <1>4
<1>6. t \in Pool!Pushing /\ Pool!Pushing' = Pool!Pushing
  BY <1>1, <1>2, PushingIs
<1>7. x \notin Nodes(s, n) /\ \A u \in Pool!Pushing : u # t => slot[u] # x
  BY <1>5, <1>6 DEF Placed
<1>8. IsList(Pool!Slots, slotNext', slotFreeList', s, n)
  <2>1. \A y \in Nodes(s, n) : slotNext'[y] = slotNext[y]
    BY <1>3, <1>5, <1>7
  <2> QED BY <1>1, <1>5, <2>1, Framed
<1>9. Placed(SlotsCut', SlotsUsed', Nodes(s, n), dropped', Pool!Pushing', slot')
  <2>1. SlotsCut' = SlotsCut /\ SlotsUsed' = SlotsUsed
    BY <1>1 DEF SlotsCut, SlotsUsed
  <2> QED BY <1>1, <1>5, <1>6, <2>1
<1>10. \A u \in Threads : ToBePushed(u)'
  <2> TAKE u \in Threads
  <2>1. CASE u = t
    BY <1>1, <1>3, <2>1 DEF ToBePushed
  <2>2. CASE u # t
    <3>1. poolPc[u] = "pushSwap" => u \in Pool!Pushing /\ slot[u] \in Pool!Slots
      BY PoolBefore DEF Pool!Pushing, PoolAt
    <3>2. ToBePushed(u) /\ poolPc'[u] = poolPc[u]
      BY <1>2, <2>2, PoolBefore DEF Stay
    <3> QED BY <1>1, <1>3, <1>7, <2>2, <3>1, <3>2 DEF ToBePushed
  <2> QED BY <2>1, <2>2
<1>11. OneUser'
  BY <1>1, PoolBefore DEF PoolHeld, OneUser
<1>12. PoolHeld'
  BY <1>8, <1>9, <1>10, <1>11, StackAfter
<1>13. PoolAt(t)'
  BY <1>1, <1>2 DEF PoolAt
<1>14. Pool!TypeOK'
  BY <1>1, <1>2, PoolBefore DEF Pool!TypeOK
<1> QED BY <1>2, <1>12, <1>13, <1>14, PoolAfter

\* The head is the one the slot is linked to: the slot is before it.
LEMMA PushSwapKeeps ==
    ASSUME PoolConstants, PoolInv, ~aba, NEW t \in Threads, Pool!PushSwap(t)
    PROVE  PoolInv'
<1> PICK x : x = slot[t]
  OBVIOUS
<1>1. /\ poolPc[t] = "pushSwap" /\ slotFreeList = link[t]
      /\ slotFreeList' = x /\ poolPc' = [poolPc EXCEPT ![t] = "idle"]
      /\ slot' = [slot EXCEPT ![t] = Null] /\ link' = [link EXCEPT ![t] = Null]
      /\ slotNext' = slotNext /\ cut' = cut /\ blocks' = blocks /\ slotUsers' = slotUsers
      /\ aba' = aba /\ dropped' = dropped
  BY DEF Pool!PushSwap, Pool!Goto, Pool!Return
<1>2. Stay(t) /\ poolPc'[t] = "idle" /\ x \in Pool!Slots /\ slotNext[x] = slotFreeList
  BY <1>1, PoolBefore DEF Stay, PoolAt, ToBePushed
<1>3. PICK n \in Nat : \E s :
             /\ IsList(Pool!Slots, slotNext, slotFreeList, s, n)
             /\ Placed(SlotsCut, SlotsUsed, Nodes(s, n), dropped, Pool!Pushing, slot)
  BY StackBefore
<1>4. PICK s : /\ IsList(Pool!Slots, slotNext, slotFreeList, s, n)
               /\ Placed(SlotsCut, SlotsUsed, Nodes(s, n), dropped, Pool!Pushing, slot)
  BY <1>3
<1>5. /\ t \in Pool!Pushing /\ t \notin Pool!Pushing'
      /\ \A u : u # t => (u \in Pool!Pushing' <=> u \in Pool!Pushing)
      /\ \A u \in Pool!Pushing' : slot'[u] = slot[u] /\ u # t
  BY <1>1, <1>2, PushingIs DEF Stay, Pool!Pushing
<1>6. x \notin Nodes(s, n) /\ \A u \in Pool!Pushing : u # t => slot[u] # x
  BY <1>4, <1>5 DEF Placed
<1>7. PICK r : /\ IsList(Pool!Slots, slotNext, x, r, n + 1)
               /\ Nodes(r, n + 1) = Nodes(s, n) \union {x}
  BY <1>2, <1>4, <1>6, ListPush
<1>8. Placed(SlotsCut', SlotsUsed', Nodes(r, n + 1), dropped', Pool!Pushing', slot')
  <2>1. SlotsCut' = SlotsCut /\ SlotsUsed' = SlotsUsed
    BY <1>1 DEF SlotsCut, SlotsUsed
  <2> QED BY <1>1, <1>4, <1>5, <1>6, <1>7, <2>1 DEF Placed
<1>9. \A u \in Threads : ToBePushed(u)'
  BY <1>1, <1>2, PoolBefore DEF ToBePushed, Stay
<1>10. OneUser'
  BY <1>1, PoolBefore DEF PoolHeld, OneUser
<1>11. PoolHeld'
  <2>1. n + 1 \in Nat
    OBVIOUS
  <2> QED BY <1>1, <1>7, <1>8, <1>9, <1>10, <2>1, StackAfter
<1>12. PoolAt(t)'
  BY <1>2 DEF PoolAt
<1>13. Pool!TypeOK'
  BY <1>1, <1>2, PoolBefore DEF Pool!TypeOK
<1> QED BY <1>2, <1>11, <1>12, <1>13, PoolAfter

\* The block has a slot left, or another block has.
LEMMA NextSlot ==
    ASSUME PoolConstants, cut \in Nat, NEW b \in Nat, b <= MaxBlocks, cut < b * SlotsPerBlock
    PROVE  cut + 1 \in Pool!Slots /\ cut + 1 \in 0..(b * SlotsPerBlock)
<1>1. b * SlotsPerBlock \in Nat /\ MaxBlocks \in Nat /\ SlotsPerBlock \in Nat
  BY DEF PoolConstants
<1>2. b * SlotsPerBlock <= MaxBlocks * SlotsPerBlock
  <2>1. PICK d \in Nat : b + d = MaxBlocks
    BY <1>1
  <2>2. MaxBlocks * SlotsPerBlock = b * SlotsPerBlock + d * SlotsPerBlock
    BY <1>1, <2>1
  <2>3. d * SlotsPerBlock \in Nat
    BY <1>1
  <2> QED BY <1>1, <2>2, <2>3
<1>3. MaxBlocks * SlotsPerBlock = SlotsPerBlock * MaxBlocks
  BY <1>1
<1>4. SlotsPerBlock * MaxBlocks \in Nat
  BY <1>1
<1> QED BY <1>1, <1>2, <1>3, <1>4, SlotsAre

\* The thread that gives out slot x goes back to its caller.
LEMMA GivenTo ==
    ASSUME PoolConstants, PoolInv, ~aba, NEW t \in Threads, NEW x \in Pool!Slots, Pool!Give(x),
           Pool!Return(t), poolPc[t] \in {"block", "popSwap"},
           \A u \in Pool!Pushing : slot[u] # x
    PROVE  /\ Stay(t) /\ poolPc'[t] = "idle" /\ PoolAt(t)'
           /\ poolPc' = [poolPc EXCEPT ![t] = "idle"]
           /\ slot' = [slot EXCEPT ![t] = Null] /\ link' = [link EXCEPT ![t] = Null]
           /\ Pool!Pushing' = Pool!Pushing /\ \A u \in Pool!Pushing : slot'[u] = slot[u]
           /\ \A y \in Pool!Slots : y # x => slotNext'[y] = slotNext[y]
           /\ \A u \in Threads : ToBePushed(u)'
           /\ slotNext' = [slotNext EXCEPT ![x] = Junk]
           /\ slotUsers' = [slotUsers EXCEPT ![x] = @ + 1]
<1>1. /\ poolPc' = [poolPc EXCEPT ![t] = "idle"]
      /\ slot' = [slot EXCEPT ![t] = Null] /\ link' = [link EXCEPT ![t] = Null]
      /\ slotNext' = [slotNext EXCEPT ![x] = Junk]
      /\ slotUsers' = [slotUsers EXCEPT ![x] = @ + 1]
  BY DEF Pool!Give, Pool!Return, Pool!Goto
<1>2. Stay(t) /\ poolPc'[t] = "idle"
  BY <1>1, PoolBefore DEF Stay
<1>3. PoolAt(t)'
  BY <1>2 DEF PoolAt
<1>4. Pool!Pushing' = Pool!Pushing /\ t \notin Pool!Pushing
  BY <1>2, PushingIs
<1>5. \A u \in Pool!Pushing : slot'[u] = slot[u]
  BY <1>2, <1>4, PushingIs DEF Stay
<1>6. \A y \in Pool!Slots : y # x => slotNext'[y] = slotNext[y]
  BY <1>1, PoolBefore
<1>7. \A u \in Threads : ToBePushed(u)'
  BY <1>2, <1>6, StillToBePushed
<1> QED BY <1>1, <1>2, <1>3, <1>4, <1>5, <1>6, <1>7

\* A slot no user has had one user then.
LEMMA FirstUser ==
    ASSUME PoolConstants, PoolInv, ~aba, NEW x \in Pool!Slots, x \notin SlotsUsed,
           slotUsers' = [slotUsers EXCEPT ![x] = @ + 1]
    PROVE  /\ slotUsers' \in [Pool!Slots -> Nat] /\ OneUser'
           /\ \A y : y \in SlotsUsed' <=> y \in SlotsUsed \/ y = x
<1>1. slotUsers[x] = 0
  BY PoolBefore DEF SlotsUsed, PoolHeld, OneUser
<1>2. slotUsers'[x] = 1 /\ \A y \in Pool!Slots : y # x => slotUsers'[y] = slotUsers[y]
  BY <1>1, PoolBefore
<1>3. OneUser'
  BY <1>2, PoolBefore DEF PoolHeld, OneUser
<1>4. slotUsers' \in [Pool!Slots -> Nat]
  BY <1>1, PoolBefore
<1> QED BY <1>2, <1>3, <1>4 DEF SlotsUsed

\* The slots that have been cut, with one more.
LEMMA OneMoreCut ==
    ASSUME cut \in Nat, cut + 1 \in Pool!Slots, cut' = cut + 1
    PROVE  cut + 1 \notin SlotsCut /\ \A y : y \in SlotsCut' <=> y \in SlotsCut \/ y = cut + 1
<1>1. \A y \in Pool!Slots : y \in Int
  BY DEF Pool!Slots
<1> QED BY <1>1 DEF SlotsCut

\* The next slot of the block has a user, and was nowhere before.
LEMMA TakeSlotKeeps ==
    ASSUME PoolConstants, PoolInv, ~aba, NEW t \in Threads, Pool!TakeSlot(t)
    PROVE  PoolInv'
<1> PICK x : x = cut + 1
  OBVIOUS
<1>1. /\ poolPc[t] = "block" /\ cut < blocks * SlotsPerBlock /\ cut' = x /\ Pool!Give(x)
      /\ Pool!Return(t) /\ slotFreeList' = slotFreeList /\ blocks' = blocks
      /\ aba' = aba /\ dropped' = dropped
  BY DEF Pool!TakeSlot
<1>2. cut \in Nat /\ blocks \in Nat /\ blocks <= MaxBlocks
  BY PoolBefore DEF PoolConstants
<1>3. x \in Pool!Slots /\ x \in 0..(blocks * SlotsPerBlock)
  BY <1>1, <1>2, NextSlot
<1>4. x \notin SlotsCut /\ \A y : y \in SlotsCut' <=> y \in SlotsCut \/ y = x
  BY <1>1, <1>2, <1>3, OneMoreCut
<1>5. PICK n \in Nat : \E s :
             /\ IsList(Pool!Slots, slotNext, slotFreeList, s, n)
             /\ Placed(SlotsCut, SlotsUsed, Nodes(s, n), dropped, Pool!Pushing, slot)
             /\ Nodes(s, n) \subseteq Pool!Slots
  BY StackBefore
<1>6. PICK s : /\ IsList(Pool!Slots, slotNext, slotFreeList, s, n)
               /\ Placed(SlotsCut, SlotsUsed, Nodes(s, n), dropped, Pool!Pushing, slot)
               /\ Nodes(s, n) \subseteq Pool!Slots
  BY <1>5
<1>7. /\ x \notin Nodes(s, n) /\ x \notin SlotsUsed /\ x \notin dropped
      /\ \A u \in Pool!Pushing : slot[u] # x
  BY <1>4, <1>6 DEF Placed
<1>8. /\ Stay(t) /\ PoolAt(t)'
      /\ poolPc' = [poolPc EXCEPT ![t] = "idle"]
      /\ slot' = [slot EXCEPT ![t] = Null] /\ link' = [link EXCEPT ![t] = Null]
      /\ Pool!Pushing' = Pool!Pushing /\ \A u \in Pool!Pushing : slot'[u] = slot[u]
      /\ \A y \in Pool!Slots : y # x => slotNext'[y] = slotNext[y]
      /\ \A u \in Threads : ToBePushed(u)'
      /\ slotNext' = [slotNext EXCEPT ![x] = Junk]
      /\ slotUsers' = [slotUsers EXCEPT ![x] = @ + 1]
  BY <1>1, <1>3, <1>7, GivenTo
<1>9. /\ slotUsers' \in [Pool!Slots -> Nat] /\ OneUser'
      /\ \A y : y \in SlotsUsed' <=> y \in SlotsUsed \/ y = x
  BY <1>3, <1>7, <1>8, FirstUser
<1>10. IsList(Pool!Slots, slotNext', slotFreeList', s, n)
  <2>1. \A y \in Nodes(s, n) : slotNext'[y] = slotNext[y]
    BY <1>6, <1>7, <1>8
  <2> QED BY <1>1, <1>6, <2>1, Framed
<1>11. Placed(SlotsCut', SlotsUsed', Nodes(s, n), dropped', Pool!Pushing', slot')
  BY <1>1, <1>4, <1>6, <1>7, <1>8, <1>9 DEF Placed
<1>12. PoolHeld'
  BY <1>8, <1>9, <1>10, <1>11, StackAfter
<1>13. Pool!TypeOK'
  BY <1>1, <1>3, <1>8, <1>9, PoolBefore DEF Pool!TypeOK
<1> QED BY <1>8, <1>12, <1>13, PoolAfter

\* A new block: the stack is empty, and what was on it is dropped.
LEMMA TakeBlockKeeps ==
    ASSUME PoolConstants, PoolInv, ~aba, NEW t \in Threads, Pool!TakeBlock(t)
    PROVE  PoolInv'
<1> PICK x : x = cut + 1
  OBVIOUS
<1>1. /\ poolPc[t] = "block" /\ cut = blocks * SlotsPerBlock /\ blocks < MaxBlocks
      /\ cut' = x /\ Pool!Give(x)
      /\ Pool!Return(t) /\ slotFreeList' = Null /\ blocks' = blocks + 1
      /\ aba' = aba /\ dropped' = dropped \union Pool!Chain(slotFreeList)
  BY DEF Pool!TakeBlock
<1>2. cut \in Nat /\ blocks \in Nat /\ blocks + 1 \in 0..MaxBlocks
  BY <1>1, PoolBefore DEF PoolConstants
<1>3. x \in Pool!Slots /\ x \in 0..((blocks + 1) * SlotsPerBlock)
  <2>1. (blocks + 1) * SlotsPerBlock = blocks * SlotsPerBlock + SlotsPerBlock
    BY <1>2 DEF PoolConstants
  <2>2. cut < (blocks + 1) * SlotsPerBlock
    BY <1>1, <1>2, <2>1 DEF PoolConstants
  <2>3. blocks + 1 \in Nat /\ blocks + 1 <= MaxBlocks
    BY <1>2
  <2> QED BY <1>2, <2>2, <2>3, NextSlot
<1>4. x \notin SlotsCut /\ \A y : y \in SlotsCut' <=> y \in SlotsCut \/ y = x
  BY <1>1, <1>2, <1>3, OneMoreCut
<1>5. PICK n \in Nat : \E s :
             /\ IsList(Pool!Slots, slotNext, slotFreeList, s, n)
             /\ Placed(SlotsCut, SlotsUsed, Nodes(s, n), dropped, Pool!Pushing, slot)
             /\ Nodes(s, n) \subseteq Pool!Slots
  BY StackBefore
<1>6. PICK s : /\ IsList(Pool!Slots, slotNext, slotFreeList, s, n)
               /\ Placed(SlotsCut, SlotsUsed, Nodes(s, n), dropped, Pool!Pushing, slot)
               /\ Nodes(s, n) \subseteq Pool!Slots
  BY <1>5
<1>7. /\ x \notin Nodes(s, n) /\ x \notin SlotsUsed /\ x \notin dropped
      /\ \A u \in Pool!Pushing : slot[u] # x
  BY <1>4, <1>6 DEF Placed
<1>8. /\ Stay(t) /\ PoolAt(t)'
      /\ poolPc' = [poolPc EXCEPT ![t] = "idle"]
      /\ slot' = [slot EXCEPT ![t] = Null] /\ link' = [link EXCEPT ![t] = Null]
      /\ Pool!Pushing' = Pool!Pushing /\ \A u \in Pool!Pushing : slot'[u] = slot[u]
      /\ \A u \in Threads : ToBePushed(u)'
      /\ slotNext' = [slotNext EXCEPT ![x] = Junk]
      /\ slotUsers' = [slotUsers EXCEPT ![x] = @ + 1]
  BY <1>1, <1>3, <1>7, GivenTo
<1>9. /\ slotUsers' \in [Pool!Slots -> Nat] /\ OneUser'
      /\ \A y : y \in SlotsUsed' <=> y \in SlotsUsed \/ y = x
  BY <1>3, <1>7, <1>8, FirstUser
<1>10. dropped' = dropped \union Nodes(s, n)
  BY <1>1, <1>6, StackIs
<1>11. PICK r : IsList(Pool!Slots, slotNext', Null, r, 0) /\ Nodes(r, 0) = {}
  BY EmptyList
<1>12. Placed(SlotsCut', SlotsUsed', Nodes(r, 0), dropped', Pool!Pushing', slot')
  BY <1>4, <1>6, <1>7, <1>8, <1>9, <1>10, <1>11 DEF Placed
<1>13. PoolHeld'
  <2>1. 0 \in Nat
    OBVIOUS
  <2> QED BY <1>1, <1>8, <1>9, <1>11, <1>12, <2>1, StackAfter
<1>14. Pool!TypeOK'
  BY <1>1, <1>2, <1>3, <1>6, <1>8, <1>9, <1>10, PoolBefore DEF Pool!TypeOK
<1> QED BY <1>8, <1>13, <1>14, PoolAfter

\* The head is the one that was read: it has a user, and the stack is the rest of it when
\* the link was read since; otherwise this was ABA.
LEMMA PopSwapKeeps ==
    ASSUME PoolConstants, PoolInv, ~aba, NEW t \in Threads, Pool!PopSwap(t)
    PROVE  PoolInv'
<1> PICK x : x = slot[t]
  OBVIOUS
<1>1. /\ poolPc[t] = "popSwap" /\ slotFreeList = x /\ slotFreeList' = link[t]
      /\ aba' = (link[t] # slotNext[x]) /\ Pool!Give(x) /\ Pool!Return(t)
      /\ cut' = cut /\ blocks' = blocks /\ dropped' = dropped
  BY DEF Pool!PopSwap
<1>2. x \in Pool!Slots /\ x # Null
  BY <1>1, PoolBefore DEF PoolAt, PoolConstants
<1>3. PICK n \in Nat : \E s :
             /\ IsList(Pool!Slots, slotNext, slotFreeList, s, n)
             /\ Placed(SlotsCut, SlotsUsed, Nodes(s, n), dropped, Pool!Pushing, slot)
             /\ Nodes(s, n) \subseteq Pool!Slots
  BY StackBefore
<1>4. PICK s : /\ IsList(Pool!Slots, slotNext, slotFreeList, s, n)
               /\ Placed(SlotsCut, SlotsUsed, Nodes(s, n), dropped, Pool!Pushing, slot)
               /\ Nodes(s, n) \subseteq Pool!Slots
  BY <1>3
<1>5. /\ x \in Nodes(s, n) /\ n - 1 \in Nat
      /\ IsList(Pool!Slots, slotNext, slotNext[x], Rest(s, n, 1), n - 1)
      /\ Nodes(Rest(s, n, 1), n - 1) = Nodes(s, n) \ {x}
  BY <1>1, <1>2, <1>4, ListHead
<1>6. x \notin SlotsUsed /\ \A u \in Pool!Pushing : slot[u] # x
  BY <1>4, <1>5 DEF Placed
<1>7. /\ Stay(t) /\ PoolAt(t)'
      /\ poolPc' = [poolPc EXCEPT ![t] = "idle"]
      /\ slot' = [slot EXCEPT ![t] = Null] /\ link' = [link EXCEPT ![t] = Null]
      /\ Pool!Pushing' = Pool!Pushing /\ \A u \in Pool!Pushing : slot'[u] = slot[u]
      /\ \A y \in Pool!Slots : y # x => slotNext'[y] = slotNext[y]
      /\ \A u \in Threads : ToBePushed(u)'
      /\ slotNext' = [slotNext EXCEPT ![x] = Junk]
      /\ slotUsers' = [slotUsers EXCEPT ![x] = @ + 1]
  BY <1>1, <1>2, <1>6, GivenTo
<1>8. /\ slotUsers' \in [Pool!Slots -> Nat] /\ OneUser'
      /\ \A y : y \in SlotsUsed' <=> y \in SlotsUsed \/ y = x
  BY <1>2, <1>6, <1>7, FirstUser
<1>9. ASSUME ~aba' PROVE PoolHeld' /\ slotFreeList' \in Pool!Slots \union {Null}
  <2> PICK r, m : r = Rest(s, n, 1) /\ m = n - 1
    OBVIOUS
  <2>1. slotFreeList' = slotNext[x]
    BY <1>1, <1>9
  <2>2. IsList(Pool!Slots, slotNext', slotFreeList', r, m)
    <3>1. \A y \in Nodes(r, m) : slotNext'[y] = slotNext[y]
      BY <1>4, <1>5, <1>7
    <3> QED BY <1>5, <2>1, <3>1, Framed
  <2>3. Placed(SlotsCut', SlotsUsed', Nodes(r, m), dropped', Pool!Pushing', slot')
    <3>1. SlotsCut' = SlotsCut
      BY <1>1 DEF SlotsCut
    <3> QED BY <1>1, <1>4, <1>5, <1>7, <1>8, <3>1 DEF Placed
  <2>4. slotFreeList' \in Pool!Slots \union {Null}
    <3>1. m \in Nat /\ m > 0 => 0 \in 0..(m - 1)
      BY <1>5
    <3> QED BY <1>5, <2>2, <3>1 DEF IsList, Link
  <2> QED BY <1>5, <1>7, <1>8, <2>2, <2>3, <2>4, StackAfter
<1>10. Pool!TypeOK'
  <2>1. link[t] \in Pool!Slots \union {Null, Junk} /\ aba' \in BOOLEAN
    BY <1>1, PoolBefore
  <2>2. slotFreeList' \in Pool!Slots \union {Null} \union (IF aba' THEN {Junk} ELSE {})
    BY <1>1, <1>9, <2>1
  <2>3. slotNext' \in [Pool!Slots -> Pool!Slots \union {Null, Junk}]
    BY <1>2, <1>7, PoolBefore
  <2> QED BY <1>1, <1>7, <1>8, <2>1, <2>2, <2>3, PoolBefore DEF Pool!TypeOK
<1> QED BY <1>7, <1>9, <1>10, PoolAfter

\* At first nothing is cut.
LEMMA PoolInit == ASSUME PoolConstants, Pool!Init PROVE PoolInv
<1>1. PICK s : IsList(Pool!Slots, slotNext, Null, s, 0) /\ Nodes(s, 0) = {}
  BY EmptyList
<1>2. SlotsCut = {} /\ SlotsUsed = {} /\ Pool!Pushing = {} /\ dropped = {}
  <2>1. \A y \in Pool!Slots : y \in Int /\ y > 0
    BY SlotsAre
  <2>2. SlotsCut = {}
    BY <2>1 DEF SlotsCut, Pool!Init
  <2>3. \A y \in Pool!Slots : slotUsers[y] = 0
    BY DEF Pool!Init
  <2>4. SlotsUsed = {}
    BY <2>3 DEF SlotsUsed
  <2>5. \A t \in Threads : poolPc[t] = "idle"
    BY DEF Pool!Init
  <2>6. Pool!Pushing = {}
    BY <2>5 DEF Pool!Pushing
  <2>7. dropped = {}
    BY DEF Pool!Init
  <2> QED BY <2>2, <2>4, <2>6, <2>7
<1>3. Stacked(s, 0)
  BY <1>1, <1>2 DEF Stacked, Placed, Pool!Init
<1>4. PoolHeld
  <2>1. OneUser /\ \A t \in Threads : ToBePushed(t)
    BY DEF OneUser, ToBePushed, Pool!Init
  <2> QED BY <1>3, <2>1 DEF PoolHeld
<1>5. Pool!TypeOK
  <2>1. cut \in 0..(blocks * SlotsPerBlock) /\ blocks \in 0..MaxBlocks
    <3>1. 0 * SlotsPerBlock = 0 /\ 0 \in 0..MaxBlocks
      BY DEF PoolConstants
    <3> QED BY <3>1 DEF Pool!Init
  <2>2. /\ slotNext \in [Pool!Slots -> Pool!Slots \union {Null, Junk}]
        /\ slotUsers \in [Pool!Slots -> Nat] /\ dropped \subseteq Pool!Slots
    BY DEF Pool!Init
  <2>3. /\ poolPc \in [Threads -> {"idle", "pop", "popNext", "popSwap", "block",
                                   "push", "pushNext", "pushSwap"}]
        /\ slot \in [Threads -> Pool!Slots \union {Null}]
        /\ link \in [Threads -> Pool!Slots \union {Null, Junk}]
    BY DEF Pool!Init
  <2>4. aba = FALSE /\ slotFreeList = Null
    BY DEF Pool!Init
  <2> QED BY <2>1, <2>2, <2>3, <2>4 DEF Pool!TypeOK
<1>6. \A t \in Threads : PoolAt(t)
  BY DEF PoolAt, Pool!Init
<1> QED BY <1>4, <1>5, <1>6 DEF PoolInv

\* Each step, of whichever thread, keeps it.
LEMMA PoolStep ==
    ASSUME PoolConstants, PoolInv, [Pool!Next]_(Pool!vars)
    PROVE  PoolInv'
<1>1. CASE Pool!Next
  <2>1. PICK t \in Threads : ~aba /\ Pool!Step(t)
    BY <1>1 DEF Pool!Next
  <2> QED BY <2>1, PopHeadKeeps, PopNextKeeps, PopSwapKeeps, PopFailsKeeps, TakeSlotKeeps,
             TakeBlockKeeps, BlockFailsKeeps, PushHeadKeeps, PushNextKeeps, PushSwapKeeps,
             PushFailsKeeps DEF Pool!Step
<1>2. CASE UNCHANGED Pool!vars
  <2>1. /\ slotNext' = slotNext /\ slotFreeList' = slotFreeList /\ cut' = cut
        /\ blocks' = blocks /\ slotUsers' = slotUsers /\ poolPc' = poolPc /\ slot' = slot
        /\ link' = link /\ aba' = aba /\ dropped' = dropped
    BY <1>2 DEF Pool!vars
  <2>2. Pool!TypeOK' /\ \A t \in Threads : PoolAt(t)'
    BY <2>1 DEF PoolInv, Pool!TypeOK, PoolAt
  <2>3. ASSUME ~aba PROVE PoolHeld'
    <3>1. Pool!Pushing' = Pool!Pushing /\ \A t \in Threads : ToBePushed(t)'
      BY <2>1, <2>3 DEF Pool!Pushing, PoolInv, PoolHeld, ToBePushed
    <3> QED BY <2>1, <2>3, <3>1, Quiet DEF PoolInv
  <2> QED BY <2>1, <2>2, <2>3 DEF PoolInv
<1> QED BY <1>1, <1>2

\* The invariant gives the property.
LEMMA PoolInvGives ==
    ASSUME PoolConstants, PoolInv
    PROVE  Pool!EverySlotInOnePlace
<1> SUFFICES ASSUME ~aba, NEW x \in Pool!Slots
             PROVE  slotUsers[x] + (IF x \in Pool!Chain(slotFreeList) THEN 1 ELSE 0)
                      + Pool!Cardinality({t \in Pool!Pushing : slot[t] = x})
                      + (IF x \in dropped THEN 1 ELSE 0) = (IF x <= cut THEN 1 ELSE 0)
  BY DEF Pool!EverySlotInOnePlace
<1> DEFINE pushers == {t \in Pool!Pushing : slot[t] = x}
<1>1. PICK n \in Nat : \E s :
             /\ IsList(Pool!Slots, slotNext, slotFreeList, s, n)
             /\ Placed(SlotsCut, SlotsUsed, Nodes(s, n), dropped, Pool!Pushing, slot)
  BY StackBefore
<1>2. PICK s : /\ IsList(Pool!Slots, slotNext, slotFreeList, s, n)
               /\ Placed(SlotsCut, SlotsUsed, Nodes(s, n), dropped, Pool!Pushing, slot)
  BY <1>1
<1>3. Pool!Chain(slotFreeList) = Nodes(s, n)
  BY <1>2, StackIs
<1>4. (x <= cut <=> x \in SlotsCut) /\ (x \in SlotsUsed => slotUsers[x] = 1)
      /\ (x \notin SlotsUsed => slotUsers[x] = 0)
  BY PoolBefore DEF SlotsCut, SlotsUsed, PoolHeld, OneUser
<1>5. Pool!Cardinality(pushers) = IF \E t \in Pool!Pushing : slot[t] = x THEN 1 ELSE 0
  <2>1. CASE \E t \in Pool!Pushing : slot[t] = x
    <3>1. PICK t \in Pool!Pushing : slot[t] = x
      BY <2>1
    <3>2. pushers = {t}
      BY <1>2, <3>1 DEF Placed
    <3> QED BY <2>1, <3>2, FS_Singleton, PoolCardinality
  <2>2. CASE ~\E t \in Pool!Pushing : slot[t] = x
    <3>1. pushers = {}
      BY <2>2
    <3> QED BY <2>2, <3>1, FS_EmptySet, PoolCardinality
  <2> QED BY <2>1, <2>2
<1> HIDE DEF pushers
<1> QED BY <1>2, <1>3, <1>4, <1>5 DEF Placed, pushers

\* The pool alone.
LEMMA PoolInvariant ==
    ASSUME PoolConstants
    PROVE  Pool!Spec => []PoolInv
<1>1. Pool!Init => PoolInv
  BY PoolInit
<1>2. PoolInv /\ [Pool!Next]_(Pool!vars) => PoolInv'
  BY PoolStep
<1> QED BY <1>1, <1>2, PTL DEF Pool!Spec

-----------------------------------------------------------------------------
(* What the users of the pool see.                                         *)

\* A slot that has been cut from a block, and one that is popped, have no user.
LEMMA CutIsUnused ==
    ASSUME PoolConstants, PoolInv, ~aba, NEW b \in {blocks, blocks + 1}, b <= MaxBlocks,
           cut < b * SlotsPerBlock
    PROVE  cut + 1 \in Pool!Slots /\ cut + 1 \notin SlotsUsed
<1>1. cut \in Nat /\ blocks \in Nat /\ b \in Nat
  BY PoolBefore DEF PoolConstants
<1>2. cut + 1 \in Pool!Slots
  BY <1>1, NextSlot
<1>3. cut + 1 \notin SlotsCut
  BY <1>1 DEF SlotsCut
<1>4. PICK n \in Nat : \E s : Stacked(s, n)
  BY PoolBefore DEF PoolHeld
<1> QED BY <1>2, <1>3, <1>4 DEF Stacked, Placed

LEMMA PoppedIsUnused ==
    ASSUME PoolConstants, PoolInv, ~aba, NEW t \in Threads, Pool!PopSwap(t)
    PROVE  slot[t] \in Pool!Slots /\ slot[t] \notin SlotsUsed
<1>1. poolPc[t] = "popSwap" /\ slotFreeList = slot[t]
  BY DEF Pool!PopSwap
<1>2. slot[t] \in Pool!Slots /\ slot[t] # Null
  BY <1>1, PoolBefore DEF PoolAt, PoolConstants
<1>3. PICK n \in Nat : \E s : Stacked(s, n)
  BY PoolBefore DEF PoolHeld
<1>4. PICK s : Stacked(s, n)
  BY <1>3
<1>5. slot[t] \in Nodes(s, n)
  BY <1>1, <1>2, <1>4, ListHead DEF Stacked
<1> QED BY <1>2, <1>4, <1>5 DEF Stacked, Placed

\* A slot without a user gets one, which is what an allocator does.
LEMMA GiveAllocates ==
    ASSUME PoolConstants, PoolInv, ~aba, NEW x \in Pool!Slots, x \notin SlotsUsed, Pool!Give(x)
    PROVE  SlotA!Allocate
<1>1. slotUsers[x] = 0
  BY PoolBefore DEF SlotsUsed, PoolHeld, OneUser
<1>2. slotUsers' = [slotUsers EXCEPT ![x] = 1]
  BY <1>1, PoolBefore DEF Pool!Give
<1> QED BY <1>1, <1>2 DEF SlotA!Allocate

\* The pool is an allocator: its steps are those of Allocator, or are not seen by the users.
LEMMA PoolImplements ==
    ASSUME PoolConstants
    PROVE  Pool!Spec => SlotA!Spec
<1>1. Pool!Init => SlotA!Init
  BY DEF Pool!Init, SlotA!Init
<1>2. PoolInv /\ [Pool!Next]_(Pool!vars) => [SlotA!Allocate \/ SlotA!Deallocate]_slotUsers
  <2> SUFFICES ASSUME PoolInv, ~aba, NEW t \in Threads, Pool!Step(t)
               PROVE  SlotA!Allocate \/ SlotA!Deallocate \/ slotUsers' = slotUsers
    BY DEF Pool!Next, Pool!vars
  <2>1. CASE Pool!PopSwap(t)
    <3>1. slot[t] \in Pool!Slots /\ slot[t] \notin SlotsUsed
      BY <2>1, PoppedIsUnused
    <3> QED BY <2>1, <3>1, GiveAllocates DEF Pool!PopSwap
  <2>2. CASE Pool!TakeSlot(t) \/ Pool!TakeBlock(t)
    <3>1. PICK k : k = blocks * SlotsPerBlock
      OBVIOUS
    <3>2. CASE Pool!TakeSlot(t)
      BY <3>2, CutIsUnused, PoolBefore, GiveAllocates DEF Pool!TakeSlot, PoolConstants
    <3>3. CASE Pool!TakeBlock(t)
      <4>1. cut = k /\ blocks \in Nat /\ blocks < MaxBlocks /\ Pool!Give(cut + 1)
        BY <3>1, <3>3, PoolBefore DEF Pool!TakeBlock, PoolConstants
      <4>2. (blocks + 1) * SlotsPerBlock = k + SlotsPerBlock /\ k \in Nat
        BY <3>1, <4>1 DEF PoolConstants
      <4>3. cut < (blocks + 1) * SlotsPerBlock /\ blocks + 1 <= MaxBlocks
        BY <4>1, <4>2 DEF PoolConstants
      <4>4. cut + 1 \in Pool!Slots /\ cut + 1 \notin SlotsUsed
        BY <4>3, CutIsUnused
      <4> QED BY <4>1, <4>4, GiveAllocates
    <3> QED BY <2>2, <3>2, <3>3
  <2>3. CASE Pool!PushHead(t)
    <3>1. CASE slotUsers' = slotUsers
      BY <3>1
    <3>2. ASSUME NEW x \in Pool!Slots, slotUsers[x] > 0,
                 slotUsers' = [slotUsers EXCEPT ![x] = @ - 1]
          PROVE  SlotA!Deallocate
      <4>1. slotUsers[x] = 1
        BY <3>2, PoolBefore DEF PoolHeld, OneUser
      <4>2. slotUsers' = [slotUsers EXCEPT ![x] = 0]
        BY <3>2, <4>1, PoolBefore
      <4> QED BY <4>1, <4>2 DEF SlotA!Deallocate
    <3> QED BY <2>3, <3>1, <3>2 DEF Pool!PushHead
  <2>4. CASE \/ Pool!PopHead(t) \/ Pool!PopNext(t) \/ Pool!PopFails(t) \/ Pool!BlockFails(t)
             \/ Pool!PushNext(t) \/ Pool!PushSwap(t) \/ Pool!PushFails(t)
    BY <2>4 DEF Pool!PopHead, Pool!PopNext, Pool!PopFails, Pool!BlockFails, Pool!PushNext,
                Pool!PushSwap, Pool!PushFails
  <2> QED BY <2>1, <2>2, <2>3, <2>4 DEF Pool!Step
<1> QED BY <1>1, <1>2, PoolInvariant, PTL DEF Pool!Spec, SlotA!Spec

-----------------------------------------------------------------------------
(* The allocators together.                                                *)

\* The specification in which the allocators are together has each of them as an
\* abstraction: the steps of the other two are stuttering steps of this one.
THEOREM MemoryImplementsEach == MemorySpec => Spec /\ Heap!Spec /\ Pool!Spec
<1>1. MemoryInit => Init /\ Heap!Init /\ Pool!Init
  BY DEF MemoryInit
<1>2. [MemoryNext]_allVars => [Next]_vars
  BY DEF MemoryNext, allVars, cacheVars
<1>3. [MemoryNext]_allVars => [Heap!Next]_(Heap!vars)
  BY DEF MemoryNext, allVars, heapVars, Heap!vars
<1>4. [MemoryNext]_allVars => [Pool!Next]_(Pool!vars)
  BY DEF MemoryNext, allVars, poolVars, Pool!vars
<1> QED BY <1>1, <1>2, <1>3, <1>4, PTL DEF MemorySpec, Spec, Heap!Spec, Pool!Spec

\* Whatever spans are allocated and given back, every page of the system belongs to one
\* user or to one free span, which is in the list of its size, once; spanMap_ knows what
\* each user holds.
THEOREM PagesKept ==
    ASSUME HeapConstants
    PROVE  MemorySpec => []EveryPageInOneSpan
<1>1. Heap!EveryPageInOneSpan => EveryPageInOneSpan
  BY DEF EveryPageInOneSpan
<1> QED BY <1>1, PagesStayInOneSpan, MemoryImplementsEach, PTL

\* In the allocators together no block is in two places, and before a fetch has failed none
\* is lost but in a return of 0 bytes: see BlocksInOnePlace.
THEOREM BlocksKept == MemorySpec => []EveryBlockInOnePlace
  BY BlocksInOnePlace, MemoryImplementsEach, PTL

\* What the users see of the thread caches is an allocator (see CacheImplements), and so is
\* what they see of the lock-free pool, for any number of threads and slots.
THEOREM AllocatorsKept ==
    ASSUME PoolConstants
    PROVE  MemorySpec => BothImplementAllocator
<1>1. ImplementsAllocator /\ SlotA!Spec => BothImplementAllocator
  BY DEF BothImplementAllocator
<1> QED BY <1>1, CacheImplements, PoolImplements, MemoryImplementsEach, PTL

\* Whatever the threads that push and pop do at the same time, every slot that has been cut
\* has one user, is on the stack, is about to be pushed, or was dropped with the stack of an
\* earlier block, until a pop has met ABA.
THEOREM SlotsKept ==
    ASSUME PoolConstants
    PROVE  MemorySpec => []EverySlotInOnePlace
<1>1. PoolInv => EverySlotInOnePlace
  BY PoolInvGives DEF EverySlotInOnePlace
<1> QED BY <1>1, PoolInvariant, MemoryImplementsEach, PTL

\* Type correctness of the three: heads and links name blocks and slots there are, spanMap_
\* and the lists name spans there are, the size counters stay in their width, and the pool's
\* stack ends in nullptr until a pop has met ABA.
THEOREM MemoryTyped ==
    ASSUME HeapConstants, PoolConstants
    PROVE  MemorySpec => []AllTyped
<1>1. TypeOK /\ Heap!TypeOK /\ PoolInv => AllTyped
  BY DEF PoolInv, AllTyped
<1> QED BY <1>1, CacheTypeCorrect, HeapTypeCorrect, PoolInvariant, MemoryImplementsEach, PTL
=============================================================================
