-------------------------- MODULE ThreadCacheProofs --------------------------
(***************************************************************************)
(* Proofs about ThreadCache, for any number of threads, spans and blocks,  *)
(* and any sizes passed and size_t that ThreadCacheAssumption allows.      *)
(*                                                                         *)
(* A list is a sequence of different blocks, each of them linked to the    *)
(* next and the last to nullptr (IsList).  Each step takes the head of a   *)
(* list, puts a block before a head, or cuts one list and joins the parts  *)
(* with another; a lemma says of each what becomes of the blocks of the    *)
(* lists, and that a list none of whose blocks was written stays.  So the  *)
(* blocks of a place go to one other place and every block stays in one.   *)
(*                                                                         *)
(* The steps that cut a list trust freeListSize_, which may be one below   *)
(* the length of the list: returnToCentralCache() sets it so.  Nothing     *)
(* more is lost by it while no fetch has failed; then the bytes passed to  *)
(* returnRange() are either 0, and it loses what it loses, or no fewer than*)
(* the blocks, and it walks to the end of them.                            *)
(***************************************************************************)
EXTENDS ThreadCache, WellFoundedInduction, FiniteSetTheorems, FunctionTheorems, TLAPS

\* The n nodes s[0], s[1], ... of B and then Null.
Link(s, n, i) == IF i < n THEN s[i] ELSE Null

-----------------------------------------------------------------------------
(* Linked lists in a memory, of any blocks B.                              *)

IsList(B, m, h, s, n) ==
    /\ n \in Nat /\ s \in [0..(n - 1) -> B]
    /\ \A i, j \in 0..(n - 1) : s[i] = s[j] => i = j
    /\ h = Link(s, n, 0)
    /\ \A i \in 0..(n - 1) : m[s[i]] = Link(s, n, i + 1)

\* A set of numbers that is not empty has a least one.
LEMMA LeastOf ==
    ASSUME NEW S \in SUBSET Nat, S # {}
    PROVE  \E x \in S : \A y \in S : x <= y
<1>1. PICK R : IsWellFoundedOn(R, Nat) /\ \A x, y \in Nat : <<y, x>> \in R <=> y < x
  <2>1. \A x, y \in Nat : <<y, x>> \in OpToRel(<, Nat) <=> y < x
    BY DEF OpToRel
  <2> QED BY <2>1, NatLessThanWellFounded
<1>2. PICK x \in S : \A y \in S : ~(<<y, x>> \in R)
  BY <1>1, WFMin
<1>3. \A y \in S : x <= y
  <2> TAKE y \in S
  <2>1. x \in Nat /\ y \in Nat
    OBVIOUS
  <2>2. ~(y < x)
    BY <1>1, <1>2, <2>1
  <2> QED BY <2>1, <2>2
<1> QED BY <1>3

\* A walk from the head, whatever function is chosen for it.
LEMMA WalkIs ==
    ASSUME NEW B, Null \notin B, NEW m, NEW h, NEW s, NEW n, IsList(B, m, h, s, n),
           NEW k \in Nat, NEW f,
           f = [i \in 0..k |-> IF i = 0 THEN h
                               ELSE IF f[i - 1] \in B THEN m[f[i - 1]] ELSE Null]
    PROVE  \A i \in 0..k : f[i] = Link(s, n, i)
<1> DEFINE wrong == {i \in 0..k : f[i] # Link(s, n, i)}
<1> SUFFICES ASSUME wrong # {} PROVE FALSE
  OBVIOUS
<1>1. wrong \in SUBSET Nat
  OBVIOUS
<1>2. PICK i \in wrong : \A j \in wrong : i <= j
  BY <1>1, LeastOf
<1>3. i \in 0..k /\ f[i] # Link(s, n, i)
  OBVIOUS
<1>4. i # 0
  BY <1>3 DEF IsList
<1>5. i - 1 \in 0..k /\ f[i - 1] = Link(s, n, i - 1)
  <2>1. i - 1 \in 0..k /\ ~(i <= i - 1)
    BY <1>3, <1>4
  <2>2. i - 1 \notin wrong
    BY <1>2, <2>1
  <2> QED BY <2>1, <2>2
<1>6. f[i] = IF f[i - 1] \in B THEN m[f[i - 1]] ELSE Null
  BY <1>3, <1>4
<1> HIDE DEF wrong
<1>7. CASE i - 1 < n
  <2>1. i - 1 \in 0..(n - 1) /\ (i - 1) + 1 = i
    BY <1>3, <1>4, <1>7 DEF IsList
  <2>2. f[i - 1] = s[i - 1] /\ s[i - 1] \in B
    BY <1>5, <1>7, <2>1 DEF Link, IsList
  <2>3. f[i] = m[s[i - 1]]
    BY <1>6, <2>2
  <2> QED BY <1>3, <2>1, <2>3 DEF IsList
<1>8. CASE ~(i - 1 < n)
  BY <1>3, <1>5, <1>6, <1>8 DEF Link, IsList
<1> QED BY <1>7, <1>8

\* What Nth() of the model finds on a list.
LEMMA NthIs ==
    ASSUME NEW m, NEW h, NEW s, NEW n, IsList(Block, m, h, s, n), NEW k \in Nat, Null \notin Block
    PROVE  Nth(m, h, k) = Link(s, n, k)
<1> DEFINE g == [i \in 0..k |-> Link(s, n, i)]
           step(f) == [i \in 0..k |-> IF i = 0 THEN h
                               ELSE IF f[i - 1] \in Block THEN m[f[i - 1]] ELSE Null]
           f == CHOOSE f : f = step(f)
<1>1. g = step(g)
  <2> SUFFICES ASSUME NEW i \in 0..k, i # 0
               PROVE  g[i] = IF g[i - 1] \in Block THEN m[g[i - 1]] ELSE Null
    BY DEF IsList
  <2>1. i - 1 \in 0..k /\ g[i - 1] = Link(s, n, i - 1) /\ g[i] = Link(s, n, i)
    OBVIOUS
  <2>2. CASE i - 1 < n
    <3>1. i - 1 \in 0..(n - 1) /\ (i - 1) + 1 = i
      BY <2>2 DEF IsList
    <3>2. g[i - 1] = s[i - 1] /\ s[i - 1] \in Block
      BY <2>1, <2>2, <3>1 DEF Link, IsList
    <3> QED BY <2>1, <3>1, <3>2 DEF IsList
  <2>3. CASE ~(i - 1 < n)
    BY <2>1, <2>3 DEF Link, IsList
  <2> QED BY <2>2, <2>3
<1>2. f = step(f)
  <2> HIDE DEF step
  <2> QED BY <1>1
<1>3. Nth(m, h, k) = f[k]
  BY DEF Nth
<1>4. \A i \in 0..k : f[i] = Link(s, n, i)
  <2> HIDE DEF f
  <2> QED BY <1>2, WalkIs
<1> QED BY <1>3, <1>4

\* The first n nodes of s.
Nodes(s, n) == {s[i] : i \in 0..(n - 1)}

\* The nodes behind the first k; the first k and then those of t.
Rest(s, n, k) == [i \in 0..((n - k) - 1) |-> s[i + k]]
Splice(s, k, t, q) == [i \in 0..((k + q) - 1) |-> IF i < k THEN s[i] ELSE t[i - k]]

\* A memory that agrees on the nodes of a list has the same list.
LEMMA Framed ==
    ASSUME NEW B, NEW m, NEW h, NEW s, NEW n, IsList(B, m, h, s, n),
           NEW w, \A b \in Nodes(s, n) : w[b] = m[b]
    PROVE  IsList(B, w, h, s, n)
BY DEF IsList, Nodes

\* The list from nullptr.
LEMMA EmptyList ==
    ASSUME NEW B, NEW m
    PROVE  \E s : IsList(B, m, Null, s, 0) /\ Nodes(s, 0) = {}
<1>1. 0..(0 - 1) = {}
  OBVIOUS
<1>2. PICK s : s = [i \in {} |-> Null]
  OBVIOUS
<1>3. s \in [0..(0 - 1) -> B]
  BY <1>1, <1>2
<1>4. Null = Link(s, 0, 0)
  BY DEF Link
<1> QED BY <1>1, <1>3, <1>4 DEF IsList, Nodes

\* The list behind its first k nodes.
LEMMA Suffix ==
    ASSUME NEW B, NEW m, NEW h, NEW s, NEW n \in Nat, IsList(B, m, h, s, n), NEW k \in 0..n
    PROVE  /\ IsList(B, m, Link(s, n, k), Rest(s, n, k), n - k)
           /\ Nodes(Rest(s, n, k), n - k) = Nodes(s, n) \ Nodes(s, k)
<1> DEFINE t == [i \in 0..((n - k) - 1) |-> s[i + k]]
<1>1. n \in Nat /\ k \in Nat /\ n - k \in Nat
  BY DEF IsList
<1>2. \A i \in 0..((n - k) - 1) : i + k \in 0..(n - 1) /\ i + k < n /\ i < n - k /\ t[i] = s[i + k]
  BY <1>1
<1>3. t \in [0..((n - k) - 1) -> B]
  BY <1>2 DEF IsList
<1> HIDE DEF t
<1>4. \A i, j \in 0..((n - k) - 1) : t[i] = t[j] => i = j
  <2> TAKE i, j \in 0..((n - k) - 1)
  <2>1. \A a, b \in 0..(n - 1) : s[a] = s[b] => a = b
    BY DEF IsList
  <2>2. t[i] = t[j] => i + k = j + k
    BY <1>2, <2>1
  <2> QED BY <1>1, <2>2
<1>5. Link(s, n, k) = Link(t, n - k, 0)
  <2>1. CASE k < n
    <3>1. 0 \in 0..((n - k) - 1) /\ 0 + k = k
      BY <1>1, <2>1
    <3> QED BY <1>1, <1>2, <2>1, <3>1 DEF Link
  <2>2. CASE ~(k < n)
    BY <1>1, <2>2 DEF Link
  <2> QED BY <2>1, <2>2
<1>6. ASSUME NEW i \in 0..((n - k) - 1) PROVE m[t[i]] = Link(t, n - k, i + 1)
  <2>1. m[t[i]] = Link(s, n, i + k + 1)
    BY <1>2 DEF IsList
  <2>2. CASE i + 1 < n - k
    <3>1. i + 1 \in 0..((n - k) - 1) /\ (i + 1) + k = i + k + 1 /\ i + k + 1 < n
      BY <1>1, <2>2
    <3>2. t[i + 1] = s[i + k + 1]
      BY <1>2, <3>1
    <3> QED BY <2>1, <2>2, <3>1, <3>2 DEF Link
  <2>3. CASE ~(i + 1 < n - k)
    <3>1. ~(i + k + 1 < n)
      BY <1>1, <2>3
    <3> QED BY <2>1, <2>3, <3>1 DEF Link
  <2> QED BY <2>2, <2>3
<1>7. ASSUME NEW b PROVE b \in Nodes(t, n - k) <=> \E i \in k..(n - 1) : b = s[i]
  <2>1. ASSUME NEW i \in k..(n - 1) PROVE s[i] \in Nodes(t, n - k)
    <3>1. i - k \in 0..((n - k) - 1) /\ (i - k) + k = i
      BY <1>1
    <3>2. t[i - k] = s[i]
      BY <1>2, <3>1
    <3> QED BY <3>1, <3>2 DEF Nodes
  <2>2. ASSUME NEW i \in 0..((n - k) - 1) PROVE \E j \in k..(n - 1) : t[i] = s[j]
    <3>1. i + k \in k..(n - 1)
      BY <1>1
    <3> QED BY <1>2, <3>1
  <2> QED BY <2>1, <2>2 DEF Nodes
<1>8. IsList(B, m, Link(s, n, k), t, n - k)
  BY <1>1, <1>3, <1>4, <1>5, <1>6 DEF IsList
<1>9. \A b : b \in Nodes(s, n) /\ b \notin Nodes(s, k) <=> \E i \in k..(n - 1) : b = s[i]
  <2>1. \A i \in 0..(n - 1) : i \in 0..(k - 1) \/ i \in k..(n - 1)
    BY <1>1
  <2>2. \A i \in k..(n - 1) : i \in 0..(n - 1) /\ \A j \in 0..(k - 1) : j \in 0..(n - 1) /\ i # j
    BY <1>1
  <2>3. \A i, j \in 0..(n - 1) : s[i] = s[j] => i = j
    BY DEF IsList
  <2>4. \A i \in k..(n - 1) : s[i] \in Nodes(s, n) /\ s[i] \notin Nodes(s, k)
    BY <2>2, <2>3 DEF Nodes
  <2> QED BY <2>1, <2>4 DEF Nodes
<1>10. Nodes(t, n - k) = Nodes(s, n) \ Nodes(s, k)
  BY <1>7, <1>9
<1> QED BY <1>8, <1>10 DEF Rest, t

\* In memory w the k-th node of s is linked to c, those before it as in m, and none of
\* them is in t.
Bends(m, w, s, k, c, t, q) ==
    /\ Nodes(s, k) \intersect Nodes(t, q) = {}
    /\ \A i \in 0..(k - 2) : w[s[i]] = m[s[i]]
    /\ w[s[k - 1]] = c

\* The first k nodes of one list, the last of them linked to the head of another.
LEMMA Spliced ==
    ASSUME NEW B, NEW m, NEW h, NEW s, NEW n \in Nat, IsList(B, m, h, s, n), NEW k \in 1..n,
           NEW w, NEW c, NEW t, NEW q \in Nat, IsList(B, w, c, t, q),
           Bends(m, w, s, k, c, t, q)
    PROVE  /\ IsList(B, w, h, Splice(s, k, t, q), k + q)
           /\ Nodes(Splice(s, k, t, q), k + q) = Nodes(s, k) \union Nodes(t, q)
<1>0. /\ \A i \in 0..(k - 1) : s[i] \notin Nodes(t, q)
      /\ \A i \in 0..(k - 2) : w[s[i]] = m[s[i]]
      /\ w[s[k - 1]] = c
  BY DEF Bends, Nodes
<1> DEFINE u == [i \in 0..((k + q) - 1) |-> IF i < k THEN s[i] ELSE t[i - k]]
<1>1. n \in Nat /\ k \in Nat /\ q \in Nat /\ k + q \in Nat /\ k > 0 /\ k <= n
  BY DEF IsList
<1>2. \A i \in 0..(k - 1) :
        i \in 0..((k + q) - 1) /\ i < k /\ i \in 0..(n - 1) /\ i < n /\ u[i] = s[i]
  BY <1>1
<1>3. \A i \in 0..(q - 1) :
        i + k \in 0..((k + q) - 1) /\ ~(i + k < k) /\ (i + k) - k = i /\ u[i + k] = t[i]
  BY <1>1
<1>4. \A i \in 0..((k + q) - 1) : i \in 0..(k - 1) \/ (i - k \in 0..(q - 1) /\ (i - k) + k = i)
  BY <1>1
<1>5. \A i \in 0..(k - 1) : s[i] \in B
  BY <1>2 DEF IsList
<1>6. \A i \in 0..(q - 1) : t[i] \in B /\ t[i] \in Nodes(t, q)
  BY DEF IsList, Nodes
<1>7. u \in [0..((k + q) - 1) -> B]
  <2> SUFFICES ASSUME NEW i \in 0..((k + q) - 1) PROVE u[i] \in B
    OBVIOUS
  <2> HIDE DEF u
  <2> QED BY <1>2, <1>3, <1>4, <1>5, <1>6
<1> HIDE DEF u
<1>8. ASSUME NEW i \in 0..((k + q) - 1), NEW j \in 0..((k + q) - 1), u[i] = u[j] PROVE i = j
  <2>1. CASE i \in 0..(k - 1) /\ j \in 0..(k - 1)
    BY <1>2, <1>8, <2>1 DEF IsList
  <2>2. CASE i \in 0..(k - 1) /\ j \notin 0..(k - 1)
    BY <1>0, <1>2, <1>3, <1>4, <1>6, <1>8, <2>2, SMTT(60)
  <2>3. CASE i \notin 0..(k - 1) /\ j \in 0..(k - 1)
    BY <1>0, <1>2, <1>3, <1>4, <1>6, <1>8, <2>3, SMTT(60)
  <2>4. CASE i \notin 0..(k - 1) /\ j \notin 0..(k - 1)
    <3>1. /\ i - k \in 0..(q - 1) /\ j - k \in 0..(q - 1)
          /\ (i - k) + k = i /\ (j - k) + k = j
      BY <1>4, <2>4
    <3>2. u[i] = t[i - k] /\ u[j] = t[j - k]
      BY <1>3, <3>1
    <3>3. \A a, b \in 0..(q - 1) : t[a] = t[b] => a = b
      BY DEF IsList
    <3>4. i - k = j - k
      BY <1>8, <3>1, <3>2, <3>3
    <3> QED BY <3>1, <3>4
  <2> QED BY <2>1, <2>2, <2>3, <2>4
<1>9. h = Link(u, k + q, 0)
  <2>1. 0 \in 0..(k - 1) /\ 0 < k + q /\ 0 < n
    BY <1>1
  <2> QED BY <1>2, <2>1 DEF IsList, Link
<1>10. c = Link(u, k + q, k)
  <2>1. CASE q > 0
    <3>1. 0 \in 0..(q - 1) /\ 0 + k = k /\ k < k + q
      BY <1>1, <2>1
    <3> QED BY <1>3, <2>1, <3>1 DEF IsList, Link
  <2>2. CASE ~(q > 0)
    BY <1>1, <2>2 DEF IsList, Link
  <2> QED BY <2>1, <2>2
<1>11. ASSUME NEW i \in 0..((k + q) - 1) PROVE w[u[i]] = Link(u, k + q, i + 1)
  <2>1. CASE i = k - 1
    <3>1. u[i] = s[k - 1] /\ i + 1 = k
      BY <1>1, <1>2, <2>1
    <3> QED BY <1>0, <1>10, <3>1
  <2>2. CASE i < k - 1
    <3>1. i \in 0..(k - 2) /\ i \in 0..(k - 1) /\ i + 1 \in 0..(k - 1) /\ i + 1 < k + q /\ i + 1 < n
      BY <1>1, <2>2, SMTT(30)
    <3>2. w[u[i]] = m[s[i]] /\ u[i + 1] = s[i + 1]
      BY <1>0, <1>2, <3>1
    <3>3. m[s[i]] = Link(s, n, i + 1)
      BY <1>2, <3>1 DEF IsList
    <3> QED BY <3>1, <3>2, <3>3 DEF Link
  <2>3. CASE ~(i = k - 1) /\ ~(i < k - 1)
    <3>1. i - k \in 0..(q - 1) /\ (i - k) + k = i
      BY <1>1, <1>4, <2>3
    <3>2. w[u[i]] = Link(t, q, (i - k) + 1)
      BY <1>3, <3>1 DEF IsList
    <3>3. CASE (i - k) + 1 < q
      <4>1. (i - k) + 1 \in 0..(q - 1) /\ ((i - k) + 1) + k = i + 1 /\ i + 1 < k + q
        BY <1>1, <3>1, <3>3
      <4>2. u[i + 1] = t[(i - k) + 1]
        BY <1>3, <4>1
      <4> QED BY <3>2, <3>3, <4>1, <4>2 DEF Link
    <3>4. CASE ~((i - k) + 1 < q)
      <4>1. ~(i + 1 < k + q)
        BY <1>1, <3>1, <3>4
      <4> QED BY <3>2, <3>4, <4>1 DEF Link
    <3> QED BY <3>3, <3>4
  <2> QED BY <1>1, <2>1, <2>2, <2>3
<1>12. ASSUME NEW b
       PROVE  b \in Nodes(u, k + q) <=> b \in Nodes(t, q) \/ \E i \in 0..(k - 1) : b = s[i]
  BY <1>2, <1>3, <1>4 DEF Nodes
<1>13. IsList(B, w, h, u, k + q)
  BY <1>1, <1>7, <1>8, <1>9, <1>11 DEF IsList
<1>14. Nodes(u, k + q) = Nodes(s, k) \union Nodes(t, q)
  BY <1>12 DEF Nodes
<1> QED BY <1>13, <1>14 DEF Splice, u

\* The list behind the head.
LEMMA ListHead ==
    ASSUME NEW B, NEW m, NEW h, NEW s, NEW n \in Nat, IsList(B, m, h, s, n), h # Null
    PROVE  /\ h \in B /\ h \in Nodes(s, n) /\ n - 1 \in Nat
           /\ IsList(B, m, m[h], Rest(s, n, 1), n - 1)
           /\ Nodes(Rest(s, n, 1), n - 1) = Nodes(s, n) \ {h}
<1>1. n > 0 /\ h = s[0] /\ 0 \in 0..(n - 1) /\ 1 \in 0..n
  BY DEF IsList, Link
<1>2. m[h] = Link(s, n, 1)
  <2>1. m[s[0]] = Link(s, n, 0 + 1)
    BY <1>1 DEF IsList
  <2> QED BY <1>1, <2>1
<1>3. /\ IsList(B, m, m[h], Rest(s, n, 1), n - 1)
      /\ Nodes(Rest(s, n, 1), n - 1) = Nodes(s, n) \ Nodes(s, 1)
  BY <1>1, <1>2, Suffix
<1>4. Nodes(s, 1) = {h} /\ h \in Nodes(s, n) /\ h \in B
  BY <1>1 DEF Nodes, IsList
<1> QED BY <1>1, <1>3, <1>4

\* A node linked before the head.
LEMMA ListPush ==
    ASSUME NEW B, NEW m, NEW h, NEW t, NEW q \in Nat, IsList(B, m, h, t, q),
           NEW b \in B, b \notin Nodes(t, q), NEW w, w[b] = h, \A x \in B : x # b => w[x] = m[x]
    PROVE  \E s : IsList(B, w, b, s, q + 1) /\ Nodes(s, q + 1) = Nodes(t, q) \union {b}
<1>1. IsList(B, w, h, t, q)
  <2>1. \A x \in Nodes(t, q) : w[x] = m[x]
    BY DEF Nodes, IsList
  <2> QED BY <2>1, Framed
<1>2. PICK m0 : m0 = [x \in B |-> IF x = b THEN Null ELSE m[x]]
  OBVIOUS
<1>3. PICK k : k = 1
  OBVIOUS
<1>4. PICK s : s = [i \in 0..(k - 1) |-> b]
  OBVIOUS
<1>5. 0..(k - 1) = {0} /\ s[0] = b /\ k \in 1..1 /\ k \in Nat /\ 1 \in Nat
  BY <1>3, <1>4
<1>6. IsList(B, m0, b, s, 1)
  <2>1. m0[b] = Null
    BY <1>2
  <2> QED BY <1>3, <1>4, <1>5, <2>1 DEF IsList, Link
<1>7. Nodes(s, k) = {b}
  BY <1>5 DEF Nodes
<1>8. Bends(m0, w, s, k, h, t, q)
  <2>1. \A i \in 0..(k - 2) : w[s[i]] = m0[s[i]]
    BY <1>3
  <2>2. w[s[k - 1]] = h
    BY <1>3, <1>5
  <2> QED BY <1>7, <2>1, <2>2 DEF Bends
<1>9. /\ IsList(B, w, b, Splice(s, k, t, q), k + q)
      /\ Nodes(Splice(s, k, t, q), k + q) = Nodes(s, k) \union Nodes(t, q)
  BY <1>1, <1>5, <1>6, <1>8, Spliced
<1>10. k + q = q + 1
  BY <1>3
<1> QED BY <1>7, <1>9, <1>10

\* A list is as long as it has nodes, and no longer than there are.
LEMMA Counted ==
    ASSUME NEW B, IsFiniteSet(B), NEW m, NEW h, NEW s, NEW n, IsList(B, m, h, s, n)
    PROVE  /\ IsFiniteSet(Nodes(s, n)) /\ Cardinality(Nodes(s, n)) = n
           /\ Nodes(s, n) \subseteq B /\ n <= Cardinality(B) /\ Cardinality(B) \in Nat
<1> DEFINE f == [i \in 1..n |-> s[i - 1]]
<1>1. n \in Nat
  BY DEF IsList
<1>2. \A i \in 1..n : i - 1 \in 0..(n - 1) /\ f[i] = s[i - 1]
  BY <1>1
<1>3. \A i \in 0..(n - 1) : i + 1 \in 1..n /\ f[i + 1] = s[i]
  BY <1>1
<1>4. f \in Bijection(1..n, Nodes(s, n))
  <2>1. \A i \in 1..n : f[i] \in Nodes(s, n)
    BY <1>2 DEF Nodes
  <2>2. \A i, j \in 1..n : f[i] = f[j] => i = j
    <3> TAKE i, j \in 1..n
    <3>1. f[i] = f[j] => i - 1 = j - 1
      BY <1>2 DEF IsList
    <3> QED BY <1>1, <3>1
  <2>3. \A b \in Nodes(s, n) : \E i \in 1..n : f[i] = b
    BY <1>3 DEF Nodes
  <2>4. f \in [1..n -> Nodes(s, n)]
    BY <2>1
  <2> HIDE DEF f
  <2> QED BY <2>2, <2>3, <2>4, Fun_IsBij
<1>5. ExistsBijection(1..n, Nodes(s, n))
  BY <1>4 DEF ExistsBijection
<1>6. Nodes(s, n) \subseteq B
  BY DEF IsList, Nodes
<1>7. IsFiniteSet(Nodes(s, n)) /\ Cardinality(Nodes(s, n)) <= Cardinality(B)
  BY <1>6, FS_Subset
<1> QED BY <1>1, <1>5, <1>6, <1>7, FS_CountingElements, FS_CardinalityType

-----------------------------------------------------------------------------
(* The lists of the model.                                                 *)

\* The blocks are finitely many, and what they hold can be counted in a size_t.
LEMMA BlocksAre ==
    /\ IsFiniteSet(Block) /\ Cardinality(Block) = MaxSpans * BlocksPerSpan
    /\ Cardinality(Block) \in Nat /\ Cardinality(Block) > 0
    /\ SizeMod \in Nat /\ Cardinality(Block) < SizeMod
    /\ \A z \in AlignedSizes : z \in Nat /\ Cardinality(Block) * z < SizeMod
    /\ Null \notin Block
<1>1. MaxSpans \in Nat \ {0} /\ BlocksPerSpan \in Nat \ {0} /\ threshold \in Nat
  BY ThreadCacheAssumption
<1>2. /\ IsFiniteSet(1..MaxSpans) /\ Cardinality(1..MaxSpans) = MaxSpans
      /\ IsFiniteSet(1..BlocksPerSpan) /\ Cardinality(1..BlocksPerSpan) = BlocksPerSpan
  BY <1>1, FS_Interval
<1>3. IsFiniteSet(Block) /\ Cardinality(Block) = MaxSpans * BlocksPerSpan
  <2>1. PICK S, T : S = 1..MaxSpans /\ T = 1..BlocksPerSpan
    OBVIOUS
  <2>2. IsFiniteSet(S \X T) /\ Cardinality(S \X T) = Cardinality(S) * Cardinality(T)
    BY <1>2, <2>1, FS_Product
  <2> QED BY <1>2, <2>1, <2>2 DEF Block
<1>4. MaxSpans * BlocksPerSpan \in Nat /\ MaxSpans * BlocksPerSpan > 0
  BY <1>1
<1>5. /\ SizeMod \in Nat
      /\ \A z \in AlignedSizes : z \in Nat /\ MaxSpans * BlocksPerSpan * z < SizeMod
      /\ threshold + MaxSpans * BlocksPerSpan < SizeMod /\ Null \notin Block
  BY ThreadCacheAssumption
<1>6. MaxSpans * BlocksPerSpan < SizeMod
  BY <1>1, <1>4, <1>5
<1> QED BY <1>3, <1>4, <1>5, <1>6

\* There is a list from h in memory m.
Good(m, h) == \E n, s : IsList(Block, m, h, s, n)

\* Chain() and Nth() of the model, on a list.
LEMMA ChainIs ==
    ASSUME NEW m, NEW h, NEW s, NEW n, IsList(Block, m, h, s, n)
    PROVE  /\ Good(m, h) /\ Chain(m, h) = Nodes(s, n) /\ Cardinality(Chain(m, h)) = n
           /\ n \in Nat /\ n <= Cardinality(Block) /\ Chain(m, h) \subseteq Block
           /\ \A k \in Nat : Nth(m, h, k) = Link(s, n, k)
<1>1. \A k \in Nat : Nth(m, h, k) = Link(s, n, k)
  BY NthIs, BlocksAre
<1>2. /\ Cardinality(Nodes(s, n)) = n /\ Nodes(s, n) \subseteq Block
      /\ n <= Cardinality(Block) /\ Cardinality(Block) \in Nat /\ n \in Nat
  <2>1. n \in Nat
    BY DEF IsList
  <2>2. IsFiniteSet(Block)
    BY BlocksAre
  <2> QED BY <2>1, <2>2, Counted
<1>3. ASSUME NEW b PROVE b \in Chain(m, h) <=> b \in Nodes(s, n)
  <2>1. b \in Chain(m, h) <=> b # Null /\ \E k \in 0..Cardinality(Block) : b = Link(s, n, k)
    BY <1>1, <1>2 DEF Chain
  <2>2. ASSUME NEW k \in 0..(n - 1) PROVE k \in 0..Cardinality(Block) /\ Link(s, n, k) = s[k]
    BY <1>2 DEF Link
  <2>3. ASSUME NEW k \in 0..Cardinality(Block), Link(s, n, k) # Null
        PROVE  k \in 0..(n - 1) /\ Link(s, n, k) = s[k]
    BY <1>2, <2>3 DEF Link
  <2>4. b \in Nodes(s, n) => b # Null
    BY <1>2, BlocksAre
  <2> QED BY <2>1, <2>2, <2>3, <2>4 DEF Nodes
<1>4. Chain(m, h) = Nodes(s, n)
  BY <1>3
<1> QED BY <1>1, <1>2, <1>4 DEF Good

\* A list is of blocks, as many as there are at most.
LEMMA ChainType ==
    ASSUME NEW m, NEW h, Good(m, h)
    PROVE  /\ Chain(m, h) \subseteq Block /\ Cardinality(Chain(m, h)) \in 0..Cardinality(Block)
           /\ h \in Pointer /\ IsFiniteSet(Chain(m, h))
<1>1. PICK n, s : n \in Nat /\ IsList(Block, m, h, s, n)
  BY DEF Good, IsList
<1>2. h \in Pointer
  BY <1>1 DEF IsList, Link, Pointer
<1> QED BY <1>1, <1>2, ChainIs, BlocksAre, FS_Subset

\* The list from nullptr has no block.
LEMMA ChainEmpty == ASSUME NEW m PROVE Good(m, Null) /\ Chain(m, Null) = {}
<1>1. PICK s : IsList(Block, m, Null, s, 0) /\ Nodes(s, 0) = {}
  BY EmptyList
<1> QED BY <1>1, ChainIs

\* A memory that agrees on the blocks of a list has the same list.
LEMMA ChainFrame ==
    ASSUME NEW m, NEW h, Good(m, h), NEW w, \A b \in Chain(m, h) : w[b] = m[b]
    PROVE  Good(w, h) /\ Chain(w, h) = Chain(m, h)
<1>1. PICK n, s : n \in Nat /\ IsList(Block, m, h, s, n)
  BY DEF Good, IsList
<1>2. IsList(Block, w, h, s, n)
  BY <1>1, ChainIs, Framed
<1> QED BY <1>1, <1>2, ChainIs

\* The list behind its head, which allocate() leaves in freeList_.
LEMMA ChainHead ==
    ASSUME NEW m, NEW h, Good(m, h), h # Null
    PROVE  /\ h \in Chain(m, h) /\ h \in Block /\ Good(m, m[h])
           /\ Chain(m, m[h]) = Chain(m, h) \ {h}
           /\ Cardinality(Chain(m, m[h])) = Cardinality(Chain(m, h)) - 1
<1>1. PICK n, s : n \in Nat /\ IsList(Block, m, h, s, n)
  BY DEF Good, IsList
<1>2. /\ h \in Block /\ h \in Nodes(s, n) /\ n - 1 \in Nat
      /\ IsList(Block, m, m[h], Rest(s, n, 1), n - 1)
      /\ Nodes(Rest(s, n, 1), n - 1) = Nodes(s, n) \ {h}
  BY <1>1, ListHead
<1> QED BY <1>1, <1>2, ChainIs

\* A block linked to nothing, as fetchRange() returns it.
LEMMA ChainSingle ==
    ASSUME NEW m, NEW b \in Block, m[b] = Null
    PROVE  Good(m, b) /\ Chain(m, b) = {b} /\ Cardinality(Chain(m, b)) = 1
<1>1. PICK s : s = [i \in 0..(1 - 1) |-> b]
  OBVIOUS
<1>2. 0..(1 - 1) = {0}
  OBVIOUS
<1>3. IsList(Block, m, b, s, 1)
  BY <1>1, <1>2 DEF IsList, Link
<1>4. Nodes(s, 1) = {b}
  BY <1>1, <1>2 DEF Nodes
<1> QED BY <1>3, <1>4, ChainIs

\* A block linked before the head, as deallocate() does.
LEMMA ChainPush ==
    ASSUME NEW m, NEW h, Good(m, h), NEW b \in Block, b \notin Chain(m, h),
           NEW w, w[b] = h, \A x \in Block : x # b => w[x] = m[x]
    PROVE  /\ Good(w, b) /\ Chain(w, b) = Chain(m, h) \union {b}
           /\ Cardinality(Chain(w, b)) = Cardinality(Chain(m, h)) + 1
<1>1. PICK n, s : n \in Nat /\ IsList(Block, m, h, s, n)
  BY DEF Good, IsList
<1>2. Cardinality(Chain(m, h)) = n /\ Chain(m, h) = Nodes(s, n)
  BY <1>1, ChainIs
<1>3. PICK t : IsList(Block, w, b, t, n + 1) /\ Nodes(t, n + 1) = Nodes(s, n) \union {b}
  BY <1>1, <1>2, ListPush
<1> QED BY <1>2, <1>3, ChainIs

\* The list from h is cut behind its k-th node x, and the list from c comes there.
LEMMA ChainJoin ==
    ASSUME NEW m, NEW h, Good(m, h), NEW c, Good(m, c),
           Chain(m, h) \intersect Chain(m, c) = {},
           NEW k \in 1..Cardinality(Chain(m, h)), NEW x, x = Nth(m, h, k - 1),
           NEW w, w[x] = c, \A y \in Block : y # x => w[y] = m[y]
    PROVE  /\ x \in Chain(m, h) /\ x \notin Chain(m, m[x])
           /\ Good(w, h) /\ Good(m, m[x])
           /\ Chain(m, m[x]) \subseteq Chain(m, h)
           /\ Chain(w, h) = (Chain(m, h) \ Chain(m, m[x])) \union Chain(m, c)
           /\ Cardinality(Chain(m, m[x])) = Cardinality(Chain(m, h)) - k
           /\ Cardinality(Chain(w, h)) = k + Cardinality(Chain(m, c))
<1>1. PICK n, s : n \in Nat /\ IsList(Block, m, h, s, n)
  BY DEF Good, IsList
<1>2. PICK q, t : q \in Nat /\ IsList(Block, m, c, t, q)
  BY DEF Good, IsList
<1>3. /\ n = Cardinality(Chain(m, h)) /\ k \in 1..n /\ k - 1 \in 0..(n - 1) /\ k \in 0..n
      /\ Nodes(s, n) = Chain(m, h) /\ Nodes(t, q) = Chain(m, c) /\ k \in Nat /\ n \in Nat
  BY <1>1, <1>2, ChainIs
<1>4. x = s[k - 1] /\ m[x] = Link(s, n, k)
  <2>1. x = Link(s, n, k - 1) /\ k - 1 < n /\ k - 1 \in Nat
    BY <1>1, <1>3, ChainIs
  <2>2. m[s[k - 1]] = Link(s, n, (k - 1) + 1) /\ (k - 1) + 1 = k
    BY <1>1, <1>3 DEF IsList
  <2> QED BY <2>1, <2>2 DEF Link
<1>5. /\ IsList(Block, m, m[x], Rest(s, n, k), n - k)
      /\ Nodes(Rest(s, n, k), n - k) = Nodes(s, n) \ Nodes(s, k)
  <2>1. n \in Nat /\ IsList(Block, m, h, s, n) /\ k \in 0..n
    BY <1>1, <1>3
  <2> QED BY <1>4, <2>1, Suffix
<1>6. x \in Chain(m, h) /\ x \in Block
  BY <1>1, <1>3, <1>4, ChainIs DEF Nodes
<1>7. w[x] = c /\ \A b \in Block : b # x => w[b] = m[b]
  BY <1>6
<1>8. IsList(Block, w, c, t, q)
  <2>1. \A b \in Nodes(t, q) : w[b] = m[b]
    BY <1>2, <1>3, <1>6, <1>7, ChainIs
  <2> QED BY <1>2, <2>1, Framed
<1>9. Nodes(s, k) \subseteq Nodes(s, n) /\ x \in Nodes(s, k)
  <2>1. k - 1 \in 0..(k - 1) /\ \A i \in 0..(k - 1) : i \in 0..(n - 1)
    BY <1>3
  <2> QED BY <1>4, <2>1 DEF Nodes
<1>10. /\ IsList(Block, w, h, Splice(s, k, t, q), k + q)
       /\ Nodes(Splice(s, k, t, q), k + q) = Nodes(s, k) \union Nodes(t, q)
  <2>1. \A i \in 0..(k - 2) : w[s[i]] = m[s[i]]
    <3> TAKE i \in 0..(k - 2)
    <3>1. i \in 0..(n - 1) /\ k - 1 \in 0..(n - 1) /\ i # k - 1
      BY <1>3
    <3>2. s[i] # x /\ s[i] \in Block
      BY <1>1, <1>4, <3>1 DEF IsList
    <3> QED BY <1>7, <3>2
  <2>2. w[s[k - 1]] = c
    BY <1>4, <1>7
  <2>3. n \in Nat /\ q \in Nat /\ k \in 1..n /\ Bends(m, w, s, k, c, t, q)
    BY <1>2, <1>3, <1>9, <2>1, <2>2 DEF Bends
  <2> QED BY <1>1, <1>8, <2>3, Spliced
<1>11. /\ Chain(m, m[x]) = Nodes(s, n) \ Nodes(s, k) /\ Cardinality(Chain(m, m[x])) = n - k
       /\ Good(m, m[x])
  BY <1>5, ChainIs
<1>12. /\ Chain(w, h) = Nodes(s, k) \union Nodes(t, q) /\ Cardinality(Chain(w, h)) = k + q
       /\ Good(w, h)
  BY <1>10, ChainIs
<1>13. Cardinality(Chain(m, c)) = q
  BY <1>2, ChainIs
<1>14. x \notin Chain(m, m[x]) /\ Chain(m, m[x]) \subseteq Chain(m, h)
  BY <1>3, <1>9, <1>11
<1>15. Nodes(s, k) = Chain(m, h) \ Chain(m, m[x])
  BY <1>3, <1>9, <1>11
<1>16. Chain(w, h) = (Chain(m, h) \ Chain(m, m[x])) \union Chain(m, c)
  BY <1>3, <1>12, <1>15
<1> QED BY <1>3, <1>6, <1>11, <1>12, <1>13, <1>14, <1>16

\* A node of a list, counted from the head.
LEMMA ChainNode ==
    ASSUME NEW m, NEW h, Good(m, h), NEW k \in 1..Cardinality(Chain(m, h))
    PROVE  Nth(m, h, k - 1) \in Chain(m, h) /\ Nth(m, h, k - 1) \in Block
<1>1. PICK n, s : n \in Nat /\ IsList(Block, m, h, s, n)
  BY DEF Good, IsList
<1>2. /\ n = Cardinality(Chain(m, h)) /\ Chain(m, h) = Nodes(s, n) /\ Chain(m, h) \subseteq Block
      /\ \A j \in Nat : Nth(m, h, j) = Link(s, n, j)
  BY <1>1, ChainIs
<1>3. k - 1 \in Nat /\ k - 1 \in 0..(n - 1) /\ k - 1 < n
  BY <1>1, <1>2
<1>4. Nth(m, h, k - 1) = s[k - 1] /\ s[k - 1] \in Nodes(s, n)
  BY <1>2, <1>3 DEF Link, Nodes
<1> QED BY <1>2, <1>4

-----------------------------------------------------------------------------
(* The inductive invariant.                                                *)

\* The places that are lists, and their heads.
ListPlaces == {<<"central">>} \union ({"list", "way"} \X Threads)

HeadOf(p) ==
    CASE p[1] = "central" -> central
      [] p[1] = "list" -> freeList[p[2]]
      [] p[1] = "way" -> arg[p[2]].start

\* From each head there is a list: it has no cycle, and runs through no block in use.
Linked == \A p \in ListPlaces : Good(next, HeadOf(p))

\* Every block of S is in one place of f.
Spread(f, S) ==
    /\ \A b : b \in S <=> \E p \in Places : b \in f[p]
    /\ \A p, q \in Places : p # q => f[p] \intersect f[q] = {}

\* Which blocks are where, and which there are.
Where == [p \in Places |-> In(p)]
Cut == {b \in Block : b[1] <= spans}

\* What a thread carries at each point of allocate() and deallocate().
LocalAt(t) ==
    /\ pc[t] \in {"idle", "fetch"} => arg[t].start = Null
    /\ pc[t] \in {"fetch", "take"} => freeList[t] = Null
    /\ pc[t] = "take" => arg[t].start \in Block /\ next[arg[t].start] = Null
    /\ pc[t] = "return" => arg[t].start \in Block

Local == \A t \in Threads : LocalAt(t)

\* A block has one user at most.
Once == \A b \in Block : users[b] \in {0, 1}

\* n less d, in a size_t.
Lowered(n, d) == IF n >= d THEN n - d ELSE (n - d) + SizeMod

Length(p) == Cardinality(Chain(next, HeadOf(p)))

\* freeListSize_ is at most one below the length of the list, until a fetch fails; so what
\* a thread returns is said to be of 0 bytes, or of no fewer than there are blocks.
SizeIs(t) ==
    /\ pc[t] = "idle" => \E d \in {0, 1} : freeListSize[t] = Lowered(Length(<<"list", t>>), d)
    /\ pc[t] \in {"fetch", "take"} => \E d \in {0, 1} : freeListSize[t] = Lowered(0, d + 1)
    /\ pc[t] = "return" => /\ freeListSize[t] = Lowered(Length(<<"list", t>>), 1)
                           /\ arg[t].size = 0 \/ Length(<<"way", t>>) <= arg[t].size

Sizes == refused \/ \A t \in Threads : SizeIs(t)

\* The inductive invariant.
CacheInv ==
    /\ TypeOK /\ Linked /\ Spread(Where, Cut) /\ Local /\ Once /\ Sizes
    /\ lost # unsized => refused

-----------------------------------------------------------------------------
\* The places are different.
LEMMA PlacesAre ==
    /\ <<"used">> \in Places /\ <<"lost">> \in Places /\ <<"central">> \in ListPlaces
    /\ \A t \in Threads : <<"list", t>> \in ListPlaces /\ <<"way", t>> \in ListPlaces
    /\ \A p : p \in Places <=> p = <<"used">> \/ p = <<"lost">> \/ p \in ListPlaces
    /\ \A p \in ListPlaces : /\ p # <<"used">> /\ p # <<"lost">>
                             /\ \/ p = <<"central">>
                                \/ \E t \in Threads : p = <<"list", t>> \/ p = <<"way", t>>
    /\ <<"used">> # <<"lost">>
    /\ \A t : <<"list", t>> # <<"central">> /\ <<"way", t>> # <<"central">>
    /\ \A t, u : /\ <<"list", t>> # <<"way", u>>
                 /\ (<<"list", t>> = <<"list", u>> => t = u)
                 /\ (<<"way", t>> = <<"way", u>> => t = u)
  BY DEF Places, ListPlaces

\* What a place holds, and the head of its list.
LEMMA Ins ==
    /\ In(<<"used">>) = {b \in Block : users[b] > 0}
    /\ In(<<"lost">>) = lost
    /\ \A p \in ListPlaces : In(p) = Chain(next, HeadOf(p))
    /\ HeadOf(<<"central">>) = central
    /\ \A t : HeadOf(<<"list", t>>) = freeList[t] /\ HeadOf(<<"way", t>>) = arg[t].start
<1>1. \A p \in ListPlaces : In(p) = Chain(next, HeadOf(p))
  <2> TAKE p \in ListPlaces
  <2>1. CASE p = <<"central">>
    BY <2>1 DEF In, HeadOf
  <2>2. ASSUME NEW t, p = <<"list", t>> PROVE In(p) = Chain(next, HeadOf(p))
    BY <2>2 DEF In, HeadOf
  <2>3. ASSUME NEW t, p = <<"way", t>> PROVE In(p) = Chain(next, HeadOf(p))
    BY <2>3 DEF In, HeadOf
  <2> QED BY <2>1, <2>2, <2>3, PlacesAre
<1> QED BY <1>1 DEF In, HeadOf

\* The blocks of X go from the place p to the place q.
Move(f, p, q, X) == [f EXCEPT ![p] = @ \ X, ![q] = @ \union X]

\* A move leaves every block in one place.
LEMMA Moved ==
    ASSUME NEW S, NEW f, DOMAIN f = Places, Spread(f, S),
           NEW p \in Places, NEW q \in Places, p # q, NEW X \in SUBSET f[p]
    PROVE  /\ Spread(Move(f, p, q, X), S)
           /\ DOMAIN Move(f, p, q, X) = Places
           /\ Move(f, p, q, X)[p] = f[p] \ X /\ Move(f, p, q, X)[q] = f[q] \union X
           /\ \A r \in Places : r # p /\ r # q => Move(f, p, q, X)[r] = f[r]
<1> DEFINE g == Move(f, p, q, X)
<1>1. /\ DOMAIN g = Places /\ g[p] = f[p] \ X /\ g[q] = f[q] \union X
      /\ \A r \in Places : r # p /\ r # q => g[r] = f[r]
  BY DEF Move
<1> HIDE DEF g
<1>2. \A b : (\E r \in Places : b \in g[r]) <=> (\E r \in Places : b \in f[r])
  BY <1>1
<1>3. ASSUME NEW r \in Places, NEW v \in Places, r # v PROVE g[r] \intersect g[v] = {}
  <2>1. \A x, y \in Places : x # y => f[x] \intersect f[y] = {}
    BY DEF Spread
  <2> QED BY <1>1, <1>3, <2>1
<1> QED BY <1>1, <1>2, <1>3 DEF Spread, g

\* Another place does not have the block.
LEMMA Elsewhere ==
    ASSUME NEW S, NEW f, Spread(f, S), NEW p \in Places, NEW b \in f[p]
    PROVE  b \in S /\ \A q \in Places : q # p => b \notin f[q]
  BY DEF Spread

\* The invariant gives the property.
LEMMA CacheGives ==
    ASSUME CacheInv
    PROVE  EveryBlockInOnePlace
<1>1. \A p \in Places : Where[p] = In(p)
  BY DEF Where
<1>2. UNION {In(p) : p \in Places} = Cut
  BY <1>1 DEF CacheInv, Spread
<1>3. \A p, q \in Places : p # q => In(p) \intersect In(q) = {}
  BY <1>1 DEF CacheInv, Spread
<1> QED BY <1>2, <1>3 DEF CacheInv, EveryBlockInOnePlace, Cut

\* Nothing is cut at first, and every list is empty.
LEMMA CacheInit == Init => CacheInv
<1> SUFFICES ASSUME Init PROVE CacheInv
  OBVIOUS
<1>1. \A p \in ListPlaces : HeadOf(p) = Null
  BY PlacesAre, Ins DEF Init
<1>2. \A p \in ListPlaces : Good(next, HeadOf(p)) /\ Chain(next, HeadOf(p)) = {}
  BY <1>1, ChainEmpty
<1>3. \A p \in Places : Where[p] = {}
  <2>1. In(<<"used">>) = {} /\ In(<<"lost">>) = {}
    BY Ins DEF Init
  <2> QED BY <1>2, <2>1, Ins, PlacesAre DEF Where
<1>4. Cut = {}
  <2>1. \A b \in Block : b[1] \in 1..MaxSpans
    BY DEF Block
  <2> QED BY <2>1, ThreadCacheAssumption DEF Cut, Init
<1>5. Spread(Where, Cut)
  BY <1>3, <1>4 DEF Spread
<1>6. Linked /\ Local /\ Once
  BY <1>2 DEF Init, Linked, Local, LocalAt, Once
<1>7. \A t \in Threads : SizeIs(t)
  <2> TAKE t \in Threads
  <2>1. Length(<<"list", t>>) = 0
    BY <1>2, PlacesAre, FS_EmptySet DEF Length
  <2> QED BY <2>1 DEF Init, SizeIs, Lowered
<1>8. TypeOK
  <2>1. 0 \in 0..(SizeMod - 1) /\ 0 \in 0..MaxSpans /\ 0 \in Nat
    BY BlocksAre, ThreadCacheAssumption
  <2> QED BY <2>1 DEF Init, TypeOK, Pointer
<1> QED BY <1>5, <1>6, <1>7, <1>8 DEF CacheInv, Sizes, Init

-----------------------------------------------------------------------------
(* The counter, a size_t.                                                  *)

\* Adding to a size_t and taking one from it.
LEMMA Wrapped ==
    ASSUME NEW x \in 0..(SizeMod - 1)
    PROVE  /\ (x - 1) % SizeMod = Lowered(x, 1)
           /\ \A k \in 0..(SizeMod - 1) :
                (x + k) % SizeMod = IF x + k < SizeMod THEN x + k ELSE (x + k) - SizeMod
<1>1. SizeMod \in Nat \ {0} /\ SizeMod > 1
  <2>1. PICK c : c = Cardinality(Block)
    OBVIOUS
  <2>2. c \in Nat /\ c > 0 /\ SizeMod \in Nat /\ c < SizeMod
    BY <2>1, BlocksAre
  <2> QED BY <2>2
<1>3. \A M \in Nat \ {0} : \A y \in 0..(M - 1) : y % M = y
  OBVIOUS
<1>4. \A M \in Nat \ {0} : \A y \in 0..(M - 1) : (y + M) % M = y /\ (y - M) % M = y
  OBVIOUS
<1>5. (x - 1) % SizeMod = Lowered(x, 1)
  <2>1. CASE x >= 1
    <3>1. x - 1 \in 0..(SizeMod - 1)
      BY <1>1, <2>1
    <3> QED BY <1>1, <1>3, <2>1, <3>1 DEF Lowered
  <2>2. CASE ~(x >= 1)
    <3>1. SizeMod - 1 \in 0..(SizeMod - 1) /\ x = 0 /\ x - 1 = (SizeMod - 1) - SizeMod
      BY <1>1, <2>2
    <3>2. (x - 1) % SizeMod = SizeMod - 1
      BY <1>1, <1>4, <3>1
    <3> QED BY <1>1, <2>2, <3>1, <3>2 DEF Lowered
  <2> QED BY <2>1, <2>2
<1>6. ASSUME NEW k \in 0..(SizeMod - 1)
      PROVE  (x + k) % SizeMod = IF x + k < SizeMod THEN x + k ELSE (x + k) - SizeMod
  <2>1. CASE x + k < SizeMod
    BY <1>1, <1>3, <2>1
  <2>2. CASE ~(x + k < SizeMod)
    <3>1. (x + k) - SizeMod \in 0..(SizeMod - 1) /\ x + k = ((x + k) - SizeMod) + SizeMod
      BY <1>1, <2>2
    <3>2. (x + k) % SizeMod = (x + k) - SizeMod
      BY <1>1, <1>4, <3>1
    <3> QED BY <2>2, <3>2
  <2> QED BY <2>1, <2>2
<1> QED BY <1>5, <1>6

\* What a size_t can be.
LEMMA Sized == SizeMod \in Nat /\ SizeMod > 1 /\ \A y \in Int : y % SizeMod \in 0..(SizeMod - 1)
<1>1. \A M \in Nat : M > 1 => \A y \in Int : y % M \in 0..(M - 1)
  OBVIOUS
<1>2. PICK c : c = Cardinality(Block)
  OBVIOUS
<1>3. c \in Nat /\ c > 0 /\ SizeMod \in Nat /\ c < SizeMod
  BY <1>2, BlocksAre
<1>4. SizeMod \in Nat /\ SizeMod > 1
  BY <1>3
<1> QED BY <1>1, <1>4

\* freeListSize_ one more or one less, while it is at most one below the length.
LEMMA Drift ==
    ASSUME NEW n \in 0..Cardinality(Block), NEW d \in {0, 1}
    PROVE  /\ Lowered(n, d) \in 0..(SizeMod - 1)
           /\ (n > 0 => (Lowered(n, d) - 1) % SizeMod = Lowered(n - 1, d))
           /\ (n < Cardinality(Block) => (Lowered(n, d) + 1) % SizeMod = Lowered(n + 1, d))
           /\ (Lowered(0, d) - 1) % SizeMod = Lowered(0, d + 1)
           /\ (Lowered(0, d + 1) + 1) % SizeMod = Lowered(0, d)
           /\ (n > 0 => Lowered(n, d) = n - d)
<1> PICK c : c = Cardinality(Block)
  OBVIOUS
<1>1. /\ c \in Nat /\ c < SizeMod /\ SizeMod \in Nat /\ SizeMod > 1 /\ n \in 0..c /\ d \in {0, 1}
      /\ 1 \in 0..(SizeMod - 1)
  BY BlocksAre, Sized
<1>2. \A x \in 0..(SizeMod - 1) :
        /\ (x - 1) % SizeMod = Lowered(x, 1)
        /\ (x + 1) % SizeMod = IF x + 1 < SizeMod THEN x + 1 ELSE (x + 1) - SizeMod
  BY <1>1, Wrapped
<1>3. Lowered(n, d) \in 0..(SizeMod - 1) /\ Lowered(0, d) \in 0..(SizeMod - 1)
  BY <1>1 DEF Lowered
<1>4. Lowered(0, d + 1) \in 0..(SizeMod - 1)
  BY <1>1 DEF Lowered
<1>5. n > 0 => Lowered(Lowered(n, d), 1) = Lowered(n - 1, d)
  BY <1>1 DEF Lowered
<1>6. Lowered(Lowered(0, d), 1) = Lowered(0, d + 1)
  BY <1>1 DEF Lowered
<1>7. n < c => (Lowered(n, d) + 1) % SizeMod = Lowered(n + 1, d)
  <2> PICK y : y = Lowered(n, d)
    OBVIOUS
  <2>1. (y + 1) % SizeMod = IF y + 1 < SizeMod THEN y + 1 ELSE (y + 1) - SizeMod
    BY <1>2, <1>3
  <2>2. n < c => (IF y + 1 < SizeMod THEN y + 1 ELSE (y + 1) - SizeMod) = Lowered(n + 1, d)
    BY <1>1 DEF Lowered
  <2> QED BY <2>1, <2>2
<1>8. (Lowered(0, d + 1) + 1) % SizeMod = Lowered(0, d)
  <2> PICK y : y = Lowered(0, d + 1)
    OBVIOUS
  <2>1. (y + 1) % SizeMod = IF y + 1 < SizeMod THEN y + 1 ELSE (y + 1) - SizeMod
    BY <1>2, <1>4
  <2>2. (IF y + 1 < SizeMod THEN y + 1 ELSE (y + 1) - SizeMod) = Lowered(0, d)
    BY <1>1 DEF Lowered
  <2> QED BY <2>1, <2>2
<1>9. n > 0 => Lowered(n, d) = n - d
  BY <1>1 DEF Lowered
<1> QED BY <1>2, <1>3, <1>5, <1>6, <1>7, <1>8, <1>9

-----------------------------------------------------------------------------
(* What a step has to show.                                                *)

\* The facts of Ins, by one name.
InUse == {b \in Block : users[b] > 0}

PlacesHold ==
    /\ In(<<"used">>) = InUse
    /\ In(<<"lost">>) = lost
    /\ \A p \in ListPlaces : In(p) = Chain(next, HeadOf(p))
    /\ HeadOf(<<"central">>) = central
    /\ \A t : HeadOf(<<"list", t>>) = freeList[t] /\ HeadOf(<<"way", t>>) = arg[t].start

\* The same before and after a step.
LEMMA InsNext == PlacesHold /\ PlacesHold'
<1>1. PlacesHold
  BY Ins DEF PlacesHold, InUse
<1> QED BY <1>1, PTL

\* What a place holds is what it held, when the step leaves its head and its blocks alone.
Kept(p) == HeadOf(p)' = HeadOf(p) /\ \A b \in Where[p] : next'[b] = next[b]
Holds(p, S) == Good(next', HeadOf(p)') /\ Chain(next', HeadOf(p)') = S

\* Such a place holds what it held.
LEMMA Untouched ==
    ASSUME Linked, NEW p \in ListPlaces, Kept(p)
    PROVE  Holds(p, Where[p])
<1>1. Where[p] = Chain(next, HeadOf(p)) /\ Good(next, HeadOf(p))
  BY InsNext, PlacesAre DEF Where, Linked, PlacesHold
<1>2. Good(next', HeadOf(p)) /\ Chain(next', HeadOf(p)) = Chain(next, HeadOf(p))
  BY <1>1, ChainFrame DEF Kept
<1> QED BY <1>1, <1>2 DEF Kept, Holds

\* So the invariant of the places holds after the step.
LEMMA Arrived ==
    ASSUME NEW g, Spread(g, Cut'), g[<<"used">>] = InUse',
           g[<<"lost">>] = lost', \A p \in ListPlaces : Holds(p, g[p])
    PROVE  Linked' /\ Spread(Where, Cut)'
<1>1. \A p \in Places : Where'[p] = g[p]
  <2> TAKE p \in Places
  <2>1. Where'[p] = In(p)'
    BY DEF Where
  <2>2. CASE p = <<"used">>
    BY <2>1, <2>2, InsNext DEF PlacesHold
  <2>3. CASE p = <<"lost">>
    BY <2>1, <2>3, InsNext DEF PlacesHold
  <2>4. CASE p \in ListPlaces
    BY <2>1, <2>4, InsNext DEF PlacesHold, Holds
  <2> QED BY <2>2, <2>3, <2>4, PlacesAre
<1>2. Spread(Where', Cut')
  BY <1>1 DEF Spread
<1>3. Linked'
  BY DEF Linked, Holds
<1> QED BY <1>2, <1>3

\* What the invariant says of the places.
LEMMA Stands ==
    ASSUME CacheInv
    PROVE  /\ DOMAIN Where = Places /\ Spread(Where, Cut)
           /\ \A x : x \in Where[<<"used">>] <=> x \in Block /\ users[x] > 0
           /\ Where[<<"lost">>] = lost
           /\ Where[<<"central">>] = Chain(next, central) /\ Good(next, central)
           /\ \A t \in Threads :
                /\ Where[<<"list", t>>] = Chain(next, freeList[t]) /\ Good(next, freeList[t])
                /\ Where[<<"way", t>>] = Chain(next, arg[t].start) /\ Good(next, arg[t].start)
<1>1. Linked /\ Spread(Where, Cut) /\ DOMAIN Where = Places /\ \A p \in Places : Where[p] = In(p)
  BY DEF CacheInv, Where
<1>2. \A p \in ListPlaces : Good(next, HeadOf(p))
  BY <1>1 DEF Linked
<1>3. /\ <<"used">> \in Places /\ <<"lost">> \in Places /\ \A p \in ListPlaces : p \in Places
      /\ <<"central">> \in ListPlaces
      /\ \A t \in Threads : <<"list", t>> \in ListPlaces /\ <<"way", t>> \in ListPlaces
  BY PlacesAre
<1>4. Where[<<"used">>] = InUse
  BY <1>1, <1>3, InsNext DEF PlacesHold
<1> QED BY <1>1, <1>2, <1>3, <1>4, InsNext DEF PlacesHold, InUse

\* The heads of the lists, before and after a step.
HeadsAre ==
    /\ HeadOf(<<"central">>)' = central'
    /\ \A t : HeadOf(<<"list", t>>)' = freeList'[t] /\ HeadOf(<<"way", t>>)' = arg'[t].start
    /\ HeadOf(<<"central">>) = central
    /\ \A t : HeadOf(<<"list", t>>) = freeList[t] /\ HeadOf(<<"way", t>>) = arg[t].start

\* The heads, before and after a step.
LEMMA Heads == HeadsAre
  BY InsNext DEF PlacesHold, HeadsAre

\* The places that are lists hold blocks, as many as there are at most.
LEMMA ListBlocks ==
    ASSUME CacheInv
    PROVE  \A p \in ListPlaces : /\ Where[p] \subseteq Block /\ Length(p) = Cardinality(Where[p])
                                 /\ Length(p) \in 0..Cardinality(Block)
                                 /\ IsFiniteSet(Where[p])
<1> TAKE p \in ListPlaces
<1>1. Where[p] = Chain(next, HeadOf(p)) /\ Good(next, HeadOf(p))
  BY PlacesAre, InsNext DEF CacheInv, Linked, PlacesHold, Where
<1> QED BY <1>1, ChainType DEF Length

\* The other threads are where they were.
Leaves(t) ==
    \A u \in Threads : u # t =>
        /\ pc'[u] = pc[u] /\ freeList'[u] = freeList[u]
        /\ freeListSize'[u] = freeListSize[u] /\ arg'[u] = arg[u]

\* The step of the thread t ends with the blocks spread as g says; it changes the places
\* of C only.
Ends(t, C, g) ==
    /\ C \subseteq {<<"used">>, <<"lost">>, <<"central">>, <<"list", t>>, <<"way", t>>}
    /\ Spread(g, Cut') /\ g[<<"lost">>] = lost'
    /\ \A x : x \in g[<<"used">>] <=> x \in Block /\ users'[x] > 0
    /\ \A p \in Places : p \notin C => g[p] = Where[p]
    /\ \A p \in ListPlaces : p \in C => Holds(p, g[p])
    /\ central' = central \/ <<"central">> \in C
    /\ freeList'[t] = freeList[t] \/ <<"list", t>> \in C
    /\ arg'[t].start = arg[t].start \/ <<"way", t>> \in C
    /\ \A x \in Block : next'[x] = next[x] \/ x \notin Cut \/ \E p \in C : x \in Where[p]

\* The places outside C are as they were.
LEMMA EndsHolds ==
    ASSUME CacheInv, NEW t \in Threads, Leaves(t), NEW C, NEW g, Ends(t, C, g)
    PROVE  /\ \A p \in ListPlaces : Holds(p, g[p])
           /\ \A p \in ListPlaces : p \notin C => Kept(p)
<1>1. ASSUME NEW p \in ListPlaces, p \notin C PROVE Kept(p)
  <2>1. HeadOf(p)' = HeadOf(p)
    <3>1. CASE p = <<"central">>
      BY <1>1, <3>1, Heads DEF HeadsAre, Ends
    <3>2. ASSUME NEW u \in Threads, p = <<"list", u>> \/ p = <<"way", u>>
          PROVE  HeadOf(p)' = HeadOf(p)
      BY <1>1, <3>2, Heads DEF HeadsAre, Ends, Leaves
    <3> QED BY <3>1, <3>2, PlacesAre
  <2>2. ASSUME NEW x \in Where[p] PROVE next'[x] = next[x]
    <3>1. x \in Cut /\ x \in Block /\ p \in Places /\ \A q \in Places : q # p => x \notin Where[q]
      BY PlacesAre, Stands, Elsewhere, ListBlocks
    <3>2. C \subseteq Places
      BY PlacesAre DEF Ends
    <3> QED BY <1>1, <3>1, <3>2 DEF Ends
  <2> QED BY <2>1, <2>2 DEF Kept
<1>2. ASSUME NEW p \in ListPlaces PROVE Holds(p, g[p])
  <2>1. CASE p \in C
    BY <2>1 DEF Ends
  <2>2. CASE p \notin C
    <3>1. Kept(p) /\ g[p] = Where[p]
      BY <1>1, <2>2, PlacesAre DEF Ends
    <3> QED BY <3>1, Untouched DEF CacheInv
  <2> QED BY <2>1, <2>2
<1> QED BY <1>1, <1>2

\* The whole invariant, from what the step does to one thread and to the places.
LEMMA Assembled ==
    ASSUME CacheInv, TypeOK', NEW t \in Threads, Leaves(t), NEW C, NEW g, Ends(t, C, g),
           LocalAt(t)', Once', refused => refused', refused' \/ SizeIs(t)',
           lost' # unsized' => refused'
    PROVE  CacheInv'
<1>0. ASSUME NEW u \in Threads, u # t
      PROVE  /\ <<"list", u>> \in ListPlaces /\ <<"list", u>> \notin C
             /\ <<"way", u>> \in ListPlaces /\ <<"way", u>> \notin C
  BY <1>0, PlacesAre DEF Ends
<1>1. Linked' /\ Spread(Where, Cut)'
  <2>1. g[<<"used">>] = InUse'
    BY DEF Ends, InUse
  <2> QED BY <2>1, EndsHolds, Arrived DEF Ends
<1>2. \A u \in Threads : LocalAt(u)'
  <2> SUFFICES ASSUME NEW u \in Threads, u # t PROVE LocalAt(u)'
    OBVIOUS
  <2>1. LocalAt(u)
    BY DEF CacheInv, Local
  <2>2. pc'[u] = pc[u] /\ freeList'[u] = freeList[u] /\ arg'[u] = arg[u]
    BY DEF Leaves
  <2>3. ASSUME pc[u] = "take" PROVE next'[arg[u].start] = next[arg[u].start]
    <3>1. arg[u].start # Null
      BY <2>1, <2>3, BlocksAre DEF LocalAt
    <3>2. Where[<<"way", u>>] = Chain(next, arg[u].start) /\ Good(next, arg[u].start)
      BY Stands
    <3>3. arg[u].start \in Where[<<"way", u>>]
      BY <3>1, <3>2, ChainHead
    <3> QED BY <1>0, <3>3, EndsHolds DEF Kept
  <2> QED BY <2>1, <2>2, <2>3 DEF LocalAt
<1>3. Sizes'
  <2> SUFFICES ASSUME ~refused', NEW u \in Threads, u # t PROVE SizeIs(u)'
    BY DEF Sizes
  <2>1. SizeIs(u)
    BY DEF CacheInv, Sizes
  <2>2. pc'[u] = pc[u] /\ freeListSize'[u] = freeListSize[u] /\ arg'[u] = arg[u]
    BY DEF Leaves
  <2>3. \A p \in ListPlaces : p \notin C => Length(p)' = Length(p)
    <3> TAKE p \in ListPlaces
    <3> HAVE p \notin C
    <3>1. Kept(p) /\ Linked
      BY EndsHolds DEF CacheInv
    <3>2. Holds(p, Where[p])
      BY <3>1, Untouched
    <3> QED BY <3>2, ListBlocks DEF Length, Holds
  <2>4. /\ Length(<<"list", u>>)' = Length(<<"list", u>>)
        /\ Length(<<"way", u>>)' = Length(<<"way", u>>)
    BY <1>0, <2>3
  <2> QED BY <2>1, <2>2, <2>4 DEF SizeIs
<1> QED BY <1>1, <1>2, <1>3 DEF CacheInv, Local

\* One user more, or one less.
LEMMA GivenOut ==
    ASSUME CacheInv, NEW b \in Block, b \notin Where[<<"used">>],
           users' = [users EXCEPT ![b] = @ + 1]
    PROVE  /\ \A x : x \in Where[<<"used">>] \union {b} <=> x \in Block /\ users'[x] > 0
           /\ Once' /\ users' \in [Block -> Nat]
<1>1. \A x : x \in Where[<<"used">>] <=> x \in Block /\ users[x] > 0
  BY Stands
<1>2. users \in [Block -> Nat] /\ Once
  BY DEF CacheInv, TypeOK
<1>3. users[b] = 0 /\ users'[b] = 1 /\ \A x \in Block : x # b => users'[x] = users[x]
  BY <1>1, <1>2 DEF Once
<1> QED BY <1>1, <1>2, <1>3 DEF Once

\* ... and one less.
LEMMA TakenBack ==
    ASSUME CacheInv, NEW b \in Block, users[b] > 0, users' = [users EXCEPT ![b] = @ - 1]
    PROVE  /\ \A x : x \in Where[<<"used">>] \ {b} <=> x \in Block /\ users'[x] > 0
           /\ b \in Where[<<"used">>] /\ Once' /\ users' \in [Block -> Nat]
<1>1. \A x : x \in Where[<<"used">>] <=> x \in Block /\ users[x] > 0
  BY Stands
<1>2. users \in [Block -> Nat] /\ Once
  BY DEF CacheInv, TypeOK
<1>3. users[b] = 1 /\ users'[b] = 0 /\ \A x \in Block : x # b => users'[x] = users[x]
  BY <1>1, <1>2 DEF Once
<1> QED BY <1>1, <1>2, <1>3 DEF Once

-----------------------------------------------------------------------------
(* The steps.                                                              *)

\* allocate() from the thread's own list: its head goes to the user.
LEMMA AllocateLocalKeeps ==
    ASSUME CacheInv, NEW t \in Threads, AllocateLocal(t)
    PROVE  CacheInv'
<1> PICK b : b = freeList[t]
  OBVIOUS
<1> PICK g : g = Move(Where, <<"list", t>>, <<"used">>, {b})
  OBVIOUS
<1>0. TypeOK /\ Once /\ pc[t] = "idle" /\ b # Null
  BY DEF CacheInv, AllocateLocal
<1>1. /\ b \in Where[<<"list", t>>] /\ b \in Block /\ Good(next, next[b])
      /\ Chain(next, next[b]) = Where[<<"list", t>>] \ {b}
      /\ Cardinality(Chain(next, next[b])) = Cardinality(Where[<<"list", t>>]) - 1
  <2>1. Where[<<"list", t>>] = Chain(next, b) /\ Good(next, b)
    BY Stands
  <2> QED BY <1>0, <2>1, ChainHead
<1>2. /\ next' = [next EXCEPT ![b] = Junk] /\ users' = [users EXCEPT ![b] = @ + 1]
      /\ freeList' = [freeList EXCEPT ![t] = next[b]]
      /\ freeListSize' = [freeListSize EXCEPT ![t] = (@ - 1) % SizeMod]
      /\ central' = central /\ spans' = spans /\ pc' = pc /\ arg' = arg
      /\ refused' = refused
      /\ lost' = lost /\ unsized' = unsized
  BY DEF AllocateLocal, history
<1>3. /\ <<"list", t>> \in Places /\ <<"used">> \in Places /\ <<"list", t>> # <<"used">>
      /\ <<"list", t>> \in ListPlaces
  BY PlacesAre
<1>4. /\ Spread(g, Cut) /\ g[<<"list", t>>] = Where[<<"list", t>>] \ {b}
      /\ g[<<"used">>] = Where[<<"used">>] \union {b}
      /\ \A r \in Places : r # <<"list", t>> /\ r # <<"used">> => g[r] = Where[r]
  BY <1>1, <1>3, Stands, Moved
<1>5. b \notin Where[<<"used">>]
  BY <1>1, <1>3, Stands, Elsewhere
<1>6. /\ \A x : x \in Where[<<"used">>] \union {b} <=> x \in Block /\ users'[x] > 0
      /\ Once' /\ users' \in [Block -> Nat]
  BY <1>1, <1>2, <1>5, GivenOut
<1>7. \A x \in Block : x # b => next'[x] = next[x]
  BY <1>0, <1>2 DEF TypeOK
<1>8. freeList'[t] = next[b] /\ \A u \in Threads : u # t => freeList'[u] = freeList[u]
  BY <1>0, <1>2 DEF TypeOK
<1>9. Holds(<<"list", t>>, g[<<"list", t>>])
  <2>1. \A x \in Chain(next, next[b]) : next'[x] = next[x]
    BY <1>1, <1>3, <1>7, ListBlocks
  <2>2. Good(next', next[b]) /\ Chain(next', next[b]) = Chain(next, next[b])
    BY <1>1, <2>1, ChainFrame
  <2>3. HeadOf(<<"list", t>>)' = next[b]
    BY <1>8, Heads DEF HeadsAre
  <2> QED BY <1>1, <1>4, <2>2, <2>3 DEF Holds
<1>10. Cut' = Cut
  BY <1>2 DEF Cut
<1>11. Ends(t, {<<"list", t>>, <<"used">>}, g)
  <2>1. \A x : x \in g[<<"used">>] <=> x \in Block /\ users'[x] > 0
    BY <1>4, <1>6
  <2>2. g[<<"lost">>] = lost'
    BY <1>2, <1>4, PlacesAre, Stands
  <2> QED BY <1>1, <1>2, <1>3, <1>4, <1>7, <1>9, <1>10, <2>1, <2>2, PlacesAre DEF Ends
<1>12. Leaves(t)
  BY <1>0, <1>2, <1>8 DEF Leaves, TypeOK
<1>13. TypeOK'
  <2>1. next[b] \in Pointer
    BY <1>1, ChainType
  <2>2. (freeListSize[t] - 1) % SizeMod \in 0..(SizeMod - 1)
    BY <1>0, Sized DEF TypeOK
  <2> QED BY <1>0, <1>1, <1>2, <1>6, <2>1, <2>2 DEF TypeOK
<1>14. LocalAt(t)' /\ Once'
  BY <1>0, <1>2, <1>6 DEF LocalAt, CacheInv, Local
<1>15. refused \/ SizeIs(t)'
  <2> SUFFICES ASSUME ~refused PROVE SizeIs(t)'
    OBVIOUS
  <2>1. PICK d \in {0, 1} : freeListSize[t] = Lowered(Length(<<"list", t>>), d)
    BY <1>0 DEF CacheInv, Sizes, SizeIs
  <2>2. Length(<<"list", t>>)' = Length(<<"list", t>>) - 1
    BY <1>1, <1>3, <1>4, <1>9, ListBlocks DEF Holds, Length
  <2>3. Length(<<"list", t>>) \in 0..Cardinality(Block) /\ Length(<<"list", t>>) > 0
    BY <1>1, <1>3, ListBlocks, FS_EmptySet
  <2>4. freeListSize'[t] = Lowered(Length(<<"list", t>>) - 1, d)
    BY <1>0, <1>2, <2>1, <2>3, Drift DEF TypeOK
  <2> QED BY <1>0, <1>2, <2>2, <2>4 DEF SizeIs
<1> QED BY <1>2, <1>11, <1>12, <1>13, <1>14, <1>15, Assembled DEF CacheInv

\* A step that moves no block.
LEMMA StillEnds ==
    ASSUME CacheInv, NEW t \in Threads, central' = central, freeList'[t] = freeList[t],
           arg'[t].start = arg[t].start, next' = next, spans' = spans, users' = users,
           lost' = lost
    PROVE  Ends(t, {}, Where) /\ Once'
<1>1. Cut' = Cut
  BY DEF Cut
<1>2. Once'
  BY DEF CacheInv, Once
<1> QED BY <1>1, <1>2, Stands DEF Ends

\* allocate() of a thread that has none: only freeListSize_ changes.
LEMMA AllocateMissKeeps ==
    ASSUME CacheInv, NEW t \in Threads, AllocateMiss(t)
    PROVE  CacheInv'
<1>0. TypeOK /\ pc[t] = "idle" /\ freeList[t] = Null /\ LocalAt(t)
  BY DEF CacheInv, AllocateMiss, Local
<1>1. /\ freeListSize' = [freeListSize EXCEPT ![t] = (@ - 1) % SizeMod]
      /\ pc' = [pc EXCEPT ![t] = "fetch"]
      /\ next' = next /\ users' = users /\ freeList' = freeList /\ central' = central
      /\ spans' = spans /\ arg' = arg /\ refused' = refused
      /\ lost' = lost /\ unsized' = unsized
  BY DEF AllocateMiss, history
<1>2. Ends(t, {}, Where) /\ Once' /\ Leaves(t)
  BY <1>0, <1>1, StillEnds DEF Leaves, TypeOK
<1>3. TypeOK'
  <2>0. freeListSize[t] - 1 \in Int
    BY <1>0 DEF TypeOK
  <2>1. (freeListSize[t] - 1) % SizeMod \in 0..(SizeMod - 1)
    BY <2>0, Sized
  <2> QED BY <1>0, <1>1, <2>1 DEF TypeOK
<1>4. LocalAt(t)'
  BY <1>0, <1>1 DEF LocalAt, TypeOK
<1>5. refused \/ SizeIs(t)'
  <2> SUFFICES ASSUME ~refused PROVE SizeIs(t)'
    OBVIOUS
  <2>1. PICK d \in {0, 1} : freeListSize[t] = Lowered(Length(<<"list", t>>), d)
    BY <1>0 DEF CacheInv, Sizes, SizeIs
  <2>2. Length(<<"list", t>>) = 0
    BY <1>0, ChainEmpty, FS_EmptySet, Heads DEF Length, HeadsAre
  <2>3. freeListSize'[t] = Lowered(0, d + 1)
    <3>1. 0 \in 0..Cardinality(Block)
      BY BlocksAre
    <3> QED BY <1>0, <1>1, <2>1, <2>2, <3>1, Drift DEF TypeOK
  <2>4. pc'[t] = "fetch"
    BY <1>0, <1>1 DEF TypeOK
  <2> QED BY <2>3, <2>4 DEF SizeIs
<1> QED BY <1>1, <1>2, <1>3, <1>4, <1>5, Assembled DEF CacheInv

\* fetchRange() that finds no memory: the counter stays below.
LEMMA FetchFailsKeeps ==
    ASSUME CacheInv, NEW t \in Threads, FetchFails(t)
    PROVE  CacheInv'
<1>0. TypeOK /\ pc[t] = "fetch" /\ LocalAt(t)
  BY DEF CacheInv, FetchFails, Local
<1>1. /\ pc' = [pc EXCEPT ![t] = "idle"]
      /\ arg' = [arg EXCEPT ![t] = [start |-> Null, size |-> 0]]
      /\ next' = next /\ users' = users /\ freeList' = freeList /\ central' = central
      /\ spans' = spans /\ freeListSize' = freeListSize /\ refused' = TRUE
      /\ lost' = lost /\ unsized' = unsized
  BY DEF FetchFails, Return
<1>2. arg'[t].start = arg[t].start /\ arg'[t].start = Null
  BY <1>0, <1>1 DEF LocalAt, TypeOK
<1>3. Ends(t, {}, Where) /\ Once' /\ Leaves(t)
  BY <1>0, <1>1, <1>2, StillEnds DEF Leaves, TypeOK
<1>4. TypeOK'
  BY <1>0, <1>1, Sized DEF TypeOK, Pointer
<1>5. LocalAt(t)'
  BY <1>0, <1>1, <1>2 DEF LocalAt, TypeOK
<1> QED BY <1>1, <1>3, <1>4, <1>5, Assembled DEF CacheInv

\* fetchRange() from the central list: its head goes its way to the thread.
LEMMA FetchCentralKeeps ==
    ASSUME CacheInv, NEW t \in Threads, FetchCentral(t)
    PROVE  CacheInv'
<1> PICK b : b = central
  OBVIOUS
<1> PICK g : g = Move(Where, <<"central">>, <<"way", t>>, {b})
  OBVIOUS
<1>0. TypeOK /\ pc[t] = "fetch" /\ b # Null /\ LocalAt(t)
  BY DEF CacheInv, FetchCentral, Local
<1>1. /\ b \in Where[<<"central">>] /\ b \in Block /\ Good(next, next[b])
      /\ Chain(next, next[b]) = Where[<<"central">>] \ {b}
  <2>1. Where[<<"central">>] = Chain(next, b) /\ Good(next, b)
    BY Stands
  <2> QED BY <1>0, <2>1, ChainHead
<1>2. /\ next' = [next EXCEPT ![b] = Null] /\ central' = next[b]
      /\ pc' = [pc EXCEPT ![t] = "take"] /\ arg' = [arg EXCEPT ![t].start = b]
      /\ users' = users /\ freeList' = freeList /\ freeListSize' = freeListSize
      /\ spans' = spans /\ refused' = refused
      /\ lost' = lost /\ unsized' = unsized
  BY DEF FetchCentral, Fetched, history
<1>3. /\ <<"central">> \in Places /\ <<"way", t>> \in Places /\ <<"central">> # <<"way", t>>
      /\ <<"central">> \in ListPlaces /\ <<"way", t>> \in ListPlaces
  BY PlacesAre
<1>4. /\ Spread(g, Cut) /\ g[<<"central">>] = Where[<<"central">>] \ {b}
      /\ g[<<"way", t>>] = Where[<<"way", t>>] \union {b}
      /\ \A r \in Places : r # <<"central">> /\ r # <<"way", t>> => g[r] = Where[r]
  BY <1>1, <1>3, Stands, Moved
<1>5. g[<<"way", t>>] = {b}
  <2>1. Where[<<"way", t>>] = Chain(next, Null)
    BY <1>0, Stands DEF LocalAt
  <2> QED BY <1>4, <2>1, ChainEmpty
<1>6. next'[b] = Null /\ \A x \in Block : x # b => next'[x] = next[x]
  BY <1>0, <1>1, <1>2 DEF TypeOK
<1>7. arg'[t] = [arg[t] EXCEPT !.start = b] /\ arg'[t].start = b /\ pc'[t] = "take"
  BY <1>0, <1>2 DEF TypeOK
<1>8. Holds(<<"central">>, g[<<"central">>])
  <2>1. \A x \in Chain(next, next[b]) : next'[x] = next[x]
    BY <1>1, <1>3, <1>6, ListBlocks
  <2>2. Good(next', next[b]) /\ Chain(next', next[b]) = Chain(next, next[b])
    BY <1>1, <2>1, ChainFrame
  <2>3. HeadOf(<<"central">>)' = next[b]
    BY <1>2, Heads DEF HeadsAre
  <2> QED BY <1>1, <1>4, <2>2, <2>3 DEF Holds
<1>9. Holds(<<"way", t>>, g[<<"way", t>>])
  <2>1. HeadOf(<<"way", t>>)' = b
    BY <1>7, Heads DEF HeadsAre
  <2>2. Good(next', b) /\ Chain(next', b) = {b}
    BY <1>1, <1>6, ChainSingle
  <2> QED BY <1>5, <2>1, <2>2 DEF Holds
<1>10. Cut' = Cut
  BY <1>2 DEF Cut
<1>11. Ends(t, {<<"central">>, <<"way", t>>}, g)
  <2>1. \A x : x \in g[<<"used">>] <=> x \in Block /\ users'[x] > 0
    BY <1>2, <1>4, PlacesAre, Stands
  <2>2. g[<<"lost">>] = lost'
    BY <1>2, <1>4, PlacesAre, Stands
  <2> QED BY <1>1, <1>2, <1>3, <1>4, <1>6, <1>8, <1>9, <1>10, <2>1, <2>2, PlacesAre DEF Ends
<1>12. Leaves(t) /\ Once'
  BY <1>0, <1>2 DEF Leaves, TypeOK, CacheInv, Once
<1>13. TypeOK'
  <2>1. next[b] \in Pointer /\ b \in Pointer
    BY <1>1, ChainType DEF Pointer
  <2> QED BY <1>0, <1>1, <1>2, <2>1 DEF TypeOK, Pointer
<1>14. LocalAt(t)'
  BY <1>0, <1>1, <1>2, <1>6, <1>7 DEF LocalAt
<1>15. refused \/ SizeIs(t)'
  BY <1>0, <1>2, <1>7 DEF CacheInv, Sizes, SizeIs
<1> QED BY <1>2, <1>11, <1>12, <1>13, <1>14, <1>15, Assembled DEF CacheInv

\* fetchFromCentralCache(): the block fetched goes to the user.
LEMMA TakeFetchedKeeps ==
    ASSUME CacheInv, NEW t \in Threads, TakeFetched(t)
    PROVE  CacheInv'
<1> PICK b : b = arg[t].start
  OBVIOUS
<1> PICK g : g = Move(Where, <<"way", t>>, <<"used">>, {b})
  OBVIOUS
<1>0. TypeOK /\ pc[t] = "take" /\ b \in Block /\ next[b] = Null /\ freeList[t] = Null
  BY DEF CacheInv, TakeFetched, Local, LocalAt
<1>1. Good(next, b) /\ Chain(next, b) = {b} /\ Cardinality(Chain(next, b)) = 1
  BY <1>0, ChainSingle
<1>2. /\ next' = [next EXCEPT ![b] = Junk] /\ users' = [users EXCEPT ![b] = @ + 1]
      /\ freeList' = freeList
      /\ freeListSize' = [freeListSize EXCEPT ![t] = (@ + 1) % SizeMod]
      /\ pc' = [pc EXCEPT ![t] = "idle"]
      /\ arg' = [arg EXCEPT ![t] = [start |-> Null, size |-> 0]]
      /\ central' = central /\ spans' = spans /\ refused' = refused
      /\ lost' = lost /\ unsized' = unsized
  BY <1>0, <1>1 DEF TakeFetched, Return, TypeOK, history
<1>3. /\ <<"way", t>> \in Places /\ <<"used">> \in Places /\ <<"way", t>> # <<"used">>
      /\ <<"way", t>> \in ListPlaces
  BY PlacesAre
<1>4. Where[<<"way", t>>] = {b}
  BY <1>1, Stands
<1>5. /\ Spread(g, Cut) /\ g[<<"way", t>>] = {}
      /\ g[<<"used">>] = Where[<<"used">>] \union {b}
      /\ \A r \in Places : r # <<"way", t>> /\ r # <<"used">> => g[r] = Where[r]
  <2>1. {b} \in SUBSET Where[<<"way", t>>]
    BY <1>4
  <2>2. /\ Spread(g, Cut) /\ g[<<"way", t>>] = Where[<<"way", t>>] \ {b}
        /\ g[<<"used">>] = Where[<<"used">>] \union {b}
        /\ \A r \in Places : r # <<"way", t>> /\ r # <<"used">> => g[r] = Where[r]
    BY <1>3, <2>1, Stands, Moved
  <2> QED BY <1>4, <2>2
<1>6. b \notin Where[<<"used">>]
  BY <1>3, <1>4, Stands, Elsewhere
<1>7. /\ \A x : x \in Where[<<"used">>] \union {b} <=> x \in Block /\ users'[x] > 0
      /\ Once' /\ users' \in [Block -> Nat]
  BY <1>0, <1>2, <1>6, GivenOut
<1>8. \A x \in Block : x # b => next'[x] = next[x]
  BY <1>0, <1>2 DEF TypeOK
<1>9. arg'[t] = [start |-> Null, size |-> 0] /\ arg'[t].start = Null /\ pc'[t] = "idle"
  BY <1>0, <1>2 DEF TypeOK
<1>10. Holds(<<"way", t>>, g[<<"way", t>>])
  BY <1>5, <1>9, ChainEmpty, Heads DEF Holds, HeadsAre
<1>11. Cut' = Cut
  BY <1>2 DEF Cut
<1>12. Ends(t, {<<"way", t>>, <<"used">>}, g)
  <2>1. \A x : x \in g[<<"used">>] <=> x \in Block /\ users'[x] > 0
    BY <1>5, <1>7
  <2>2. g[<<"lost">>] = lost'
    BY <1>2, <1>5, PlacesAre, Stands
  <2> QED BY <1>2, <1>3, <1>4, <1>5, <1>8, <1>10, <1>11, <2>1, <2>2, PlacesAre DEF Ends
<1>13. Leaves(t)
  BY <1>0, <1>2 DEF Leaves, TypeOK
<1>14. TypeOK'
  <2>1. (freeListSize[t] + 1) % SizeMod \in 0..(SizeMod - 1)
    BY <1>0, Sized DEF TypeOK
  <2> QED BY <1>0, <1>2, <1>7, <2>1, Sized DEF TypeOK, Pointer
<1>15. LocalAt(t)'
  BY <1>9 DEF LocalAt
<1>16. refused \/ SizeIs(t)'
  <2> SUFFICES ASSUME ~refused PROVE SizeIs(t)'
    OBVIOUS
  <2>1. PICK d \in {0, 1} : freeListSize[t] = Lowered(0, d + 1)
    BY <1>0 DEF CacheInv, Sizes, SizeIs
  <2>2. freeListSize'[t] = Lowered(0, d)
    <3>1. 0 \in 0..Cardinality(Block)
      BY BlocksAre
    <3> QED BY <1>0, <1>2, <2>1, <3>1, Drift DEF TypeOK
  <2>3. Length(<<"list", t>>)' = 0
    BY <1>0, <1>2, ChainEmpty, FS_EmptySet, Heads DEF Length, HeadsAre
  <2> QED BY <1>9, <2>2, <2>3 DEF SizeIs
<1> QED BY <1>2, <1>7, <1>12, <1>13, <1>14, <1>15, <1>16, Assembled DEF CacheInv

\* A new span, from its second block.
LEMMA SpanLinked ==
    ASSUME NEW k \in 1..MaxSpans, NEW w, NEW h,
           h = IF BlocksPerSpan > 1 THEN <<k, 2>> ELSE Null,
           \A j \in 1..BlocksPerSpan :
              w[<<k, j>>] = IF j \in 2..(BlocksPerSpan - 1) THEN <<k, j + 1>> ELSE Null
    PROVE  Good(w, h) /\ \A x : x \in Chain(w, h) <=> x \in Block /\ x[1] = k /\ x[2] # 1
<1> PICK n : n = BlocksPerSpan - 1
  OBVIOUS
<1> PICK s : s = [i \in 0..(n - 1) |-> <<k, i + 2>>]
  OBVIOUS
<1>1. n \in Nat /\ BlocksPerSpan = n + 1
  BY ThreadCacheAssumption
<1>2. \A i \in 0..(n - 1) : i + 2 \in 1..BlocksPerSpan /\ i + 2 # 1 /\ s[i] = <<k, i + 2>>
  BY <1>1
<1>3. \A i \in 0..(n - 1) : s[i] \in Block
  BY <1>2 DEF Block
<1>4. \A i, j \in 0..(n - 1) : s[i] = s[j] => i = j
  <2> TAKE i, j \in 0..(n - 1)
  <2>1. s[i] = s[j] => i + 2 = j + 2
    BY <1>2
  <2> QED BY <1>1, <2>1
<1>5. h = Link(s, n, 0)
  <2>1. CASE n > 0
    <3>1. 0 \in 0..(n - 1) /\ 0 + 2 = 2
      BY <1>1, <2>1
    <3> QED BY <1>1, <1>2, <2>1, <3>1 DEF Link
  <2>2. CASE ~(n > 0)
    BY <1>1, <2>2 DEF Link
  <2> QED BY <2>1, <2>2
<1>6. \A i \in 0..(n - 1) : w[s[i]] = Link(s, n, i + 1)
  <2> TAKE i \in 0..(n - 1)
  <2>1. w[s[i]] = IF i + 2 \in 2..(BlocksPerSpan - 1) THEN <<k, (i + 2) + 1>> ELSE Null
    BY <1>2
  <2>2. CASE i + 1 < n
    <3>1. i + 1 \in 0..(n - 1) /\ (i + 1) + 2 = (i + 2) + 1 /\ i + 2 \in 2..(BlocksPerSpan - 1)
      BY <1>1, <2>2
    <3> QED BY <1>2, <2>1, <2>2, <3>1 DEF Link
  <2>3. CASE ~(i + 1 < n)
    <3>1. i + 2 \notin 2..(BlocksPerSpan - 1)
      BY <1>1, <2>3
    <3> QED BY <2>1, <2>3, <3>1 DEF Link
  <2> QED BY <2>2, <2>3
<1>7. IsList(Block, w, h, s, n)
  <2>1. s \in [0..(n - 1) -> Block]
    BY <1>3
  <2> QED BY <1>1, <1>4, <1>5, <1>6, <2>1 DEF IsList
<1>8. Good(w, h) /\ Chain(w, h) = Nodes(s, n)
  BY <1>7, ChainIs
<1>9. ASSUME NEW x PROVE x \in Nodes(s, n) <=> x \in Block /\ x[1] = k /\ x[2] # 1
  <2>1. ASSUME NEW i \in 0..(n - 1) PROVE s[i] \in Block /\ s[i][1] = k /\ s[i][2] # 1
    BY <1>2, <1>3
  <2>2. ASSUME x \in Block, x[1] = k, x[2] # 1 PROVE \E i \in 0..(n - 1) : x = s[i]
    <3>1. x = <<k, x[2]>> /\ x[2] \in 1..BlocksPerSpan
      BY <2>2 DEF Block
    <3>2. x[2] - 2 \in 0..(n - 1) /\ (x[2] - 2) + 2 = x[2]
      BY <1>1, <2>2, <3>1
    <3> QED BY <1>2, <3>1, <3>2
  <2> QED BY <2>1, <2>2 DEF Nodes
<1> QED BY <1>8, <1>9

\* fetchRange() of a new span: its first block goes to the thread, the rest is listed.
LEMMA FetchSpanKeeps ==
    ASSUME CacheInv, NEW t \in Threads, FetchSpan(t)
    PROVE  CacheInv'
<1> PICK k : k = spans'
  OBVIOUS
<1> PICK b : b = <<k, 1>>
  OBVIOUS
<1>0. TypeOK /\ pc[t] = "fetch" /\ central = Null /\ LocalAt(t) /\ spans < MaxSpans
  BY DEF CacheInv, FetchSpan, Local
<1>1. /\ spans' = spans + 1 /\ central' = IF BlocksPerSpan > 1 THEN <<k, 2>> ELSE Null
      /\ next' = [x \in Block |->
                    IF x[1] # k THEN next[x]
                    ELSE IF x[2] \in 2..(BlocksPerSpan - 1) THEN <<k, x[2] + 1>> ELSE Null]
      /\ pc' = [pc EXCEPT ![t] = "take"] /\ arg' = [arg EXCEPT ![t].start = b]
      /\ users' = users /\ freeList' = freeList /\ freeListSize' = freeListSize
      /\ refused' = refused
      /\ lost' = lost /\ unsized' = unsized
  BY DEF FetchSpan, Fetched, history
<1>2. k \in 1..MaxSpans /\ spans \in Nat /\ k = spans + 1 /\ BlocksPerSpan \in Nat \ {0}
  BY <1>0, <1>1, ThreadCacheAssumption DEF TypeOK
<1>3. b \in Block /\ b[1] = k /\ b[2] = 1 /\ next'[b] = Null
  <2>1. 1 \in 1..BlocksPerSpan /\ 1 \notin 2..(BlocksPerSpan - 1)
    BY <1>2
  <2>2. b \in Block /\ b[1] = k /\ b[2] = 1
    BY <1>2, <2>1 DEF Block
  <2> QED BY <1>1, <2>1, <2>2
<1>4. /\ Good(next', central')
      /\ \A x : x \in Chain(next', central') <=> x \in Block /\ x[1] = k /\ x[2] # 1
  <2>1. \A j \in 1..BlocksPerSpan :
          next'[<<k, j>>] = IF j \in 2..(BlocksPerSpan - 1) THEN <<k, j + 1>> ELSE Null
    <3> TAKE j \in 1..BlocksPerSpan
    <3>1. <<k, j>> \in Block /\ <<k, j>>[1] = k /\ <<k, j>>[2] = j
      BY <1>2 DEF Block
    <3> QED BY <1>1, <3>1
  <2>2. PICK w, h : w = next' /\ h = central'
    OBVIOUS
  <2>3. /\ k \in 1..MaxSpans /\ h = IF BlocksPerSpan > 1 THEN <<k, 2>> ELSE Null
        /\ \A j \in 1..BlocksPerSpan :
             w[<<k, j>>] = IF j \in 2..(BlocksPerSpan - 1) THEN <<k, j + 1>> ELSE Null
    BY <1>1, <1>2, <2>1, <2>2
  <2>4. Good(w, h) /\ \A x : x \in Chain(w, h) <=> x \in Block /\ x[1] = k /\ x[2] # 1
    BY <2>3, SpanLinked
  <2> QED BY <2>2, <2>4
<1> PICK g : g = [Where EXCEPT ![<<"central">>] = Chain(next', central'), ![<<"way", t>>] = {b}]
  OBVIOUS
<1>5. /\ <<"central">> \in Places /\ <<"way", t>> \in Places /\ <<"central">> # <<"way", t>>
      /\ <<"central">> \in ListPlaces /\ <<"way", t>> \in ListPlaces
  BY PlacesAre
<1>6. /\ g[<<"central">>] = Chain(next', central') /\ g[<<"way", t>>] = {b}
      /\ \A r \in Places : r # <<"central">> /\ r # <<"way", t>> => g[r] = Where[r]
  <2>1. DOMAIN Where = Places
    BY Stands
  <2> QED BY <1>5, <2>1
<1>7. Where[<<"central">>] = {} /\ Where[<<"way", t>>] = {}
  <2>1. Where[<<"central">>] = Chain(next, Null) /\ Where[<<"way", t>>] = Chain(next, Null)
    BY <1>0, Stands DEF LocalAt
  <2> QED BY <2>1, ChainEmpty
<1>8. /\ \A x : x \in Cut' <=> x \in Cut \/ x \in Chain(next', central') \/ x = b
      /\ \A x : x \in Chain(next', central') => x \notin Cut /\ x # b
      /\ b \notin Cut
  <2>1. \A x \in Block : x[1] \in Nat /\ x[2] \in Nat /\ x = <<x[1], x[2]>>
    BY DEF Block
  <2>2. \A x : x \in Cut' <=> x \in Block /\ (x[1] <= spans \/ x[1] = k)
    <3>1. \A x : x \in Cut' <=> x \in Block /\ x[1] <= spans'
      BY DEF Cut
    <3>2. \A x \in Block : x[1] <= spans' <=> x[1] <= spans \/ x[1] = k
      <4> TAKE x \in Block
      <4>1. PICK i : i = x[1]
        OBVIOUS
      <4>2. i \in Nat /\ spans' = spans + 1
        BY <1>1, <2>1, <4>1
      <4>3. i <= spans' <=> i <= spans \/ i = k
        BY <1>1, <1>2, <4>2
      <4> QED BY <4>1, <4>3
    <3> QED BY <3>1, <3>2
  <2>3. \A x : x \in Cut => x \in Block /\ x[1] # k
    BY <1>2, <2>1 DEF Cut
  <2>4. \A x \in Block : x[1] = k /\ x[2] = 1 => x = b
    BY <2>1
  <2>5. \A x : x \in Cut <=> x \in Block /\ x[1] <= spans
    BY DEF Cut
  <2> QED BY <1>3, <1>4, <2>2, <2>3, <2>4, <2>5
<1>9. Spread(g, Cut')
  <2>1. /\ \A x : x \in Cut <=> \E p \in Places : x \in Where[p]
        /\ \A p, q \in Places : p # q => Where[p] \intersect Where[q] = {}
    BY Stands DEF Spread
  <2>2. ASSUME NEW x PROVE x \in Cut' <=> \E p \in Places : x \in g[p]
    <3>1. ASSUME x \in Cut PROVE \E p \in Places : x \in g[p]
      <4>1. PICK p \in Places : x \in Where[p]
        BY <2>1, <3>1
      <4>2. g[p] = Where[p]
        BY <1>6, <1>7, <4>1
      <4> QED BY <4>1, <4>2
    <3>2. ASSUME NEW p \in Places, x \in g[p] PROVE x \in Cut'
      <4>1. CASE p = <<"central">> \/ p = <<"way", t>>
        BY <1>6, <1>8, <3>2, <4>1
      <4>2. CASE p # <<"central">> /\ p # <<"way", t>>
        <5>1. x \in Where[p]
          BY <1>6, <3>2, <4>2
        <5> QED BY <1>8, <2>1, <5>1
      <4> QED BY <4>1, <4>2
    <3> QED BY <1>5, <1>6, <1>8, <3>1, <3>2
  <2>3. \A p \in Places : p # <<"central">> /\ p # <<"way", t>> =>
          g[p] \subseteq Cut
    BY <1>6, <2>1
  <2>4. ASSUME NEW p \in Places, NEW q \in Places, p # q PROVE g[p] \intersect g[q] = {}
    <3> SUFFICES ASSUME NEW x, x \in g[p], x \in g[q] PROVE FALSE
      OBVIOUS
    <3>1. CASE x \in Cut
      <4>1. x \notin Chain(next', central') /\ x # b
        BY <1>8, <3>1
      <4>2. p # <<"central">> /\ p # <<"way", t>> /\ q # <<"central">> /\ q # <<"way", t>>
        BY <1>6, <4>1
      <4>3. x \in Where[p] /\ x \in Where[q] /\ Where[p] \intersect Where[q] = {}
        BY <1>6, <2>1, <2>4, <4>2
      <4> QED BY <4>3
    <3>2. CASE x \notin Cut
      <4>1. /\ p = <<"central">> \/ p = <<"way", t>>
            /\ q = <<"central">> \/ q = <<"way", t>>
        BY <2>3, <3>2
      <4>2. x \in Chain(next', central') /\ x = b
        <5>1. CASE p = <<"central">> /\ q = <<"way", t>>
          BY <1>6, <5>1
        <5>2. CASE p = <<"way", t>> /\ q = <<"central">>
          BY <1>6, <5>2
        <5> QED BY <2>4, <4>1, <5>1, <5>2
      <4> QED BY <1>8, <4>2
    <3> QED BY <3>1, <3>2
  <2> QED BY <2>2, <2>4 DEF Spread
<1>10. \A x \in Cut : next'[x] = next[x]
  <2>1. \A x \in Cut : x \in Block /\ x[1] # k
    BY <1>2 DEF Cut, Block
  <2> QED BY <1>1, <2>1
<1>11. arg'[t] = [arg[t] EXCEPT !.start = b] /\ arg'[t].start = b /\ pc'[t] = "take"
  BY <1>0, <1>1 DEF TypeOK
<1>12. Holds(<<"central">>, g[<<"central">>])
  BY <1>4, <1>6, Heads DEF Holds, HeadsAre
<1>13. Holds(<<"way", t>>, g[<<"way", t>>])
  <2>1. HeadOf(<<"way", t>>)' = b
    BY <1>11, Heads DEF HeadsAre
  <2>2. Good(next', b) /\ Chain(next', b) = {b}
    BY <1>3, ChainSingle
  <2> QED BY <1>6, <2>1, <2>2 DEF Holds
<1>14. Ends(t, {<<"central">>, <<"way", t>>}, g)
  <2>1. \A x : x \in g[<<"used">>] <=> x \in Block /\ users'[x] > 0
    BY <1>1, <1>6, PlacesAre, Stands
  <2>2. g[<<"lost">>] = lost'
    BY <1>1, <1>6, PlacesAre, Stands
  <2> QED BY <1>1, <1>5, <1>6, <1>9, <1>10, <1>12, <1>13, <2>1, <2>2, PlacesAre DEF Ends
<1>15. Leaves(t) /\ Once'
  BY <1>0, <1>1 DEF Leaves, TypeOK, CacheInv, Once
<1>16. TypeOK'
  <2>1. next' \in [Block -> Pointer \union {Junk}]
    <3> SUFFICES ASSUME NEW x \in Block PROVE next'[x] \in Pointer \union {Junk}
      BY <1>1
    <3>1. CASE x[1] # k
      BY <1>0, <1>1, <3>1 DEF TypeOK
    <3>2. CASE x[2] \in 2..(BlocksPerSpan - 1)
      <4>1. <<k, x[2] + 1>> \in Block
        BY <1>2, <3>2 DEF Block
      <4> QED BY <1>1, <3>1, <3>2, <4>1 DEF Pointer
    <3> QED BY <1>1, <3>1, <3>2 DEF Pointer
  <2>2. central' \in Pointer /\ b \in Pointer
    BY <1>3, <1>4, ChainType DEF Pointer
  <2>3. spans' \in 0..MaxSpans
    BY <1>2
  <2>4. arg' \in [Threads -> [start : Pointer, size : 0..(SizeMod - 1)]]
    BY <1>0, <1>1, <2>2 DEF TypeOK
  <2> QED BY <1>0, <1>1, <2>1, <2>2, <2>3, <2>4 DEF TypeOK
<1>17. LocalAt(t)'
  BY <1>0, <1>1, <1>3, <1>11 DEF LocalAt
<1>18. refused \/ SizeIs(t)'
  BY <1>0, <1>1, <1>11 DEF CacheInv, Sizes, SizeIs
<1> QED BY <1>1, <1>14, <1>15, <1>16, <1>17, <1>18, Assembled DEF CacheInv

\* What deallocate() does to the list, before a part of it may be split off.
Pushes(t, b, m, size, g) ==
    /\ m = [next EXCEPT ![b] = freeList[t]] /\ size = (freeListSize[t] + 1) % SizeMod
    /\ g = Move(Where, <<"used">>, <<"list", t>>, {b})

\* All of the list stays, or the part behind its k-th link is split off.
Whole(t, m, size) ==
    /\ next' = m /\ freeListSize' = [freeListSize EXCEPT ![t] = size] /\ pc' = pc /\ arg' = arg

Parts(t, b, m, size, k, x, z) ==
    /\ k = Larger(size \div 4, 1) /\ ~(size <= 1) /\ k < Cardinality(Chain(m, b))
    /\ x = Nth(m, b, k) /\ next' = [m EXCEPT ![x] = Null]
    /\ freeListSize' = [freeListSize EXCEPT ![t] = k]
    /\ \/ m[x] = Null /\ pc' = pc /\ arg' = arg
       \/ /\ m[x] # Null /\ pc' = [pc EXCEPT ![t] = "return"]
          /\ arg' = [arg EXCEPT ![t] = [start |-> m[x],
                                         size |-> ((size - k) * z) % SizeMod]]

\* The ways through deallocate() and returnToCentralCache().
LEMMA DeallocateCases ==
    ASSUME NEW t \in Threads, NEW b \in Block, NEW z \in AlignedSizes, Deallocate(t, b, z)
    PROVE  \E m, size, g : /\ Pushes(t, b, m, size, g)
                           /\ Whole(t, m, size) \/ \E k, x : Parts(t, b, m, size, k, x, z)
<1> PICK m, size, g : Pushes(t, b, m, size, g)
  BY DEF Pushes
<1>1. CASE size > threshold
  <2>1. SplitOff(t, m, b, size, z)
    BY <1>1 DEF Deallocate, Pushes
  <2>2. PICK k, x : k = Larger(size \div 4, 1) /\ x = Nth(m, b, k)
    OBVIOUS
  <2>3. CASE ~(size <= 1) /\ k < Cardinality(Chain(m, b)) /\ x # Null
    BY <1>1, <2>1, <2>2, <2>3 DEF SplitOff, Parts
  <2>4. CASE ~(~(size <= 1) /\ k < Cardinality(Chain(m, b)) /\ x # Null)
    BY <2>1, <2>2, <2>4 DEF SplitOff, Whole
  <2> QED BY <2>3, <2>4
<1>2. CASE ~(size > threshold)
  BY <1>2 DEF Deallocate, Pushes, Whole
<1> QED BY <1>1, <1>2

\* And what it leaves to do it in.
Pushing(t, b, m, size, g) ==
    /\ m \in [Block -> Pointer \union {Junk}] /\ \A x \in Block : x # b => m[x] = next[x]
    /\ Good(m, b) /\ Chain(m, b) = Where[<<"list", t>>] \union {b}
    /\ Cardinality(Chain(m, b)) = Length(<<"list", t>>) + 1
    /\ Spread(g, Cut') /\ g[<<"used">>] = Where[<<"used">>] \ {b}
    /\ g[<<"list", t>>] = Where[<<"list", t>>] \union {b} /\ DOMAIN g = Places
    /\ \A p \in Places : p # <<"used">> /\ p # <<"list", t>> => g[p] = Where[p]
    /\ \A x : x \in g[<<"used">>] <=> x \in Block /\ users'[x] > 0
    /\ b \in Where[<<"used">>] /\ Once' /\ users' \in [Block -> Nat]
    /\ freeList' = [freeList EXCEPT ![t] = b] /\ freeList'[t] = b
    /\ pc[t] = "idle" /\ arg[t].start = Null /\ Where[<<"way", t>>] = {} /\ TypeOK
    /\ central' = central /\ spans' = spans /\ refused' = refused
    /\ lost' = lost /\ unsized' = unsized
    /\ size \in 0..(SizeMod - 1)
    /\ \/ refused
       \/ \E d \in {0, 1} : size = Lowered(Length(<<"list", t>>) + 1, d)

\* deallocate() up to there: the block goes from the user to the head of the list.
LEMMA Pushed ==
    ASSUME CacheInv, NEW t \in Threads, NEW b \in Block, NEW z \in AlignedSizes,
           Deallocate(t, b, z), NEW m, NEW size, NEW g, Pushes(t, b, m, size, g)
    PROVE  Pushing(t, b, m, size, g)
<1>0. TypeOK /\ pc[t] = "idle" /\ users[b] > 0 /\ LocalAt(t)
  BY DEF CacheInv, Deallocate, Local
<1>1. /\ users' = [users EXCEPT ![b] = @ - 1] /\ freeList' = [freeList EXCEPT ![t] = b]
      /\ central' = central /\ spans' = spans /\ refused' = refused
      /\ lost' = lost /\ unsized' = unsized
  BY DEF Deallocate, history
<1>2. /\ m = [next EXCEPT ![b] = freeList[t]] /\ size = (freeListSize[t] + 1) % SizeMod
      /\ g = Move(Where, <<"used">>, <<"list", t>>, {b})
  BY DEF Pushes
<1>3. /\ <<"used">> \in Places /\ <<"list", t>> \in Places /\ <<"used">> # <<"list", t>>
      /\ <<"list", t>> \in ListPlaces
  BY PlacesAre
<1>4. /\ \A x : x \in Where[<<"used">>] \ {b} <=> x \in Block /\ users'[x] > 0
      /\ b \in Where[<<"used">>] /\ Once' /\ users' \in [Block -> Nat]
  BY <1>0, <1>1, TakenBack
<1>5. Cut' = Cut
  BY <1>1 DEF Cut
<1>6. /\ Spread(g, Cut) /\ DOMAIN g = Places /\ g[<<"used">>] = Where[<<"used">>] \ {b}
      /\ g[<<"list", t>>] = Where[<<"list", t>>] \union {b}
      /\ \A r \in Places : r # <<"used">> /\ r # <<"list", t>> => g[r] = Where[r]
  BY <1>2, <1>3, <1>4, Stands, Moved
<1>7. b \notin Where[<<"list", t>>]
  BY <1>3, <1>4, Stands, Elsewhere
<1>8. Where[<<"list", t>>] = Chain(next, freeList[t]) /\ Good(next, freeList[t])
  BY Stands
<1>9. /\ Good(m, b) /\ Chain(m, b) = Where[<<"list", t>>] \union {b}
      /\ Cardinality(Chain(m, b)) = Length(<<"list", t>>) + 1
  <2>1. m[b] = freeList[t] /\ \A x \in Block : x # b => m[x] = next[x]
    BY <1>0, <1>2 DEF TypeOK
  <2>2. /\ Good(m, b) /\ Chain(m, b) = Chain(next, freeList[t]) \union {b}
        /\ Cardinality(Chain(m, b)) = Cardinality(Chain(next, freeList[t])) + 1
    <3>1. PICK h : h = freeList[t]
      OBVIOUS
    <3>2. Good(next, h) /\ b \notin Chain(next, h) /\ m[b] = h
      BY <1>7, <1>8, <2>1, <3>1
    <3>3. /\ Good(m, b) /\ Chain(m, b) = Chain(next, h) \union {b}
          /\ Cardinality(Chain(m, b)) = Cardinality(Chain(next, h)) + 1
      BY <2>1, <3>2, ChainPush
    <3> QED BY <3>1, <3>3
  <2> QED BY <1>3, <1>8, <2>2, ListBlocks
<1>10. m \in [Block -> Pointer \union {Junk}] /\ \A x \in Block : x # b => m[x] = next[x]
  BY <1>0, <1>2 DEF TypeOK
<1>11. arg[t].start = Null /\ Where[<<"way", t>>] = {}
  <2>1. arg[t].start = Null
    BY <1>0 DEF LocalAt
  <2>2. Where[<<"way", t>>] = Chain(next, Null)
    BY <2>1, Stands
  <2> QED BY <2>1, <2>2, ChainEmpty
<1>12. size \in 0..(SizeMod - 1)
  <2>1. freeListSize[t] + 1 \in Int
    BY <1>0 DEF TypeOK
  <2> QED BY <1>2, <2>1, Sized
<1>13. ASSUME ~refused
       PROVE  \E d \in {0, 1} : size = Lowered(Length(<<"list", t>>) + 1, d)
  <2>1. PICK d \in {0, 1} : freeListSize[t] = Lowered(Length(<<"list", t>>), d)
    BY <1>0, <1>13 DEF CacheInv, Sizes, SizeIs
  <2>2. Length(<<"list", t>>) \in 0..Cardinality(Block)
    BY <1>3, ListBlocks
  <2>3. Length(<<"list", t>>) + 1 \in 0..Cardinality(Block)
    BY <1>9, ChainType
  <2>4. Length(<<"list", t>>) < Cardinality(Block)
    <3>1. PICK n, c : n = Length(<<"list", t>>) /\ c = Cardinality(Block)
      OBVIOUS
    <3>2. n \in 0..c /\ n + 1 \in 0..c /\ c \in Nat
      BY <2>2, <2>3, <3>1, BlocksAre
    <3> QED BY <3>1, <3>2
  <2>5. PICK n : n = Length(<<"list", t>>)
    OBVIOUS
  <2>6. n \in 0..Cardinality(Block) /\ n < Cardinality(Block)
    BY <2>2, <2>4, <2>5
  <2>7. (Lowered(n, d) + 1) % SizeMod = Lowered(n + 1, d)
    BY <2>6, Drift
  <2> QED BY <1>2, <2>1, <2>5, <2>7
<1>14. freeList'[t] = b
  BY <1>0, <1>1 DEF TypeOK
<1> QED BY <1>0, <1>1, <1>4, <1>5, <1>6, <1>9, <1>10, <1>11, <1>12, <1>13, <1>14 DEF Pushing

\* deallocate() when nothing is split off.
LEMMA DeallocateWholeKeeps ==
    ASSUME CacheInv, NEW t \in Threads, NEW b \in Block, NEW z \in AlignedSizes,
           Deallocate(t, b, z), NEW m, NEW size, NEW g,
           Pushes(t, b, m, size, g), Whole(t, m, size)
    PROVE  CacheInv'
<1>0. Pushing(t, b, m, size, g)
  BY Pushed
<1>1. next' = m /\ freeListSize' = [freeListSize EXCEPT ![t] = size] /\ pc' = pc /\ arg' = arg
  BY DEF Whole
<1>2. /\ m \in [Block -> Pointer \union {Junk}] /\ \A x \in Block : x # b => m[x] = next[x]
      /\ Good(m, b) /\ Chain(m, b) = Where[<<"list", t>>] \union {b}
      /\ Cardinality(Chain(m, b)) = Length(<<"list", t>>) + 1
  BY <1>0 DEF Pushing
<1>3. /\ Spread(g, Cut') /\ g[<<"list", t>>] = Where[<<"list", t>>] \union {b}
      /\ \A p \in Places : p # <<"used">> /\ p # <<"list", t>> => g[p] = Where[p]
      /\ \A x : x \in g[<<"used">>] <=> x \in Block /\ users'[x] > 0
  BY <1>0 DEF Pushing
<1>4. /\ b \in Where[<<"used">>] /\ Once' /\ users' \in [Block -> Nat]
      /\ freeList' = [freeList EXCEPT ![t] = b] /\ freeList'[t] = b
      /\ pc[t] = "idle" /\ arg[t].start = Null /\ TypeOK
      /\ central' = central /\ spans' = spans /\ refused' = refused
      /\ lost' = lost /\ unsized' = unsized
      /\ size \in 0..(SizeMod - 1)
  BY <1>0 DEF Pushing
<1>5. <<"list", t>> \in ListPlaces /\ <<"used">> \notin ListPlaces
  BY PlacesAre
<1>6. Holds(<<"list", t>>, g[<<"list", t>>])
  BY <1>1, <1>2, <1>3, <1>4, Heads DEF Holds, HeadsAre
<1>7. Ends(t, {<<"used">>, <<"list", t>>}, g)
  <2>1. g[<<"lost">>] = lost'
    BY <1>3, <1>4, PlacesAre, Stands
  <2>2. \A x \in Block : next'[x] = next[x] \/ x \in Where[<<"used">>]
    BY <1>1, <1>2, <1>4
  <2> QED BY <1>1, <1>3, <1>4, <1>5, <1>6, <2>1, <2>2 DEF Ends
<1>8. Leaves(t)
  BY <1>1, <1>4 DEF Leaves, TypeOK
<1>9. TypeOK'
  BY <1>1, <1>2, <1>4 DEF TypeOK, Pointer
<1>10. LocalAt(t)'
  BY <1>1, <1>4 DEF LocalAt
<1>11. refused \/ SizeIs(t)'
  <2>1. Length(<<"list", t>>)' = Length(<<"list", t>>) + 1
    BY <1>1, <1>2, <1>4, Heads DEF Length, HeadsAre
  <2>2. freeListSize'[t] = size
    BY <1>1, <1>4 DEF TypeOK
  <2>3. refused \/ \E d \in {0, 1} : size = Lowered(Length(<<"list", t>>) + 1, d)
    BY <1>0 DEF Pushing
  <2> QED BY <1>1, <1>4, <2>1, <2>2, <2>3 DEF SizeIs
<1> QED BY <1>4, <1>7, <1>8, <1>9, <1>10, <1>11, Assembled DEF CacheInv

\* Bytes are at least as many as the blocks they are in, when they are counted at all.
LEMMA BytesOf ==
    ASSUME NEW a \in 0..Cardinality(Block), NEW z \in AlignedSizes
    PROVE  (a * z) % SizeMod \in Nat /\ ((a * z) % SizeMod = 0 \/ (a * z) % SizeMod >= a)
<1> PICK c, M : c = Cardinality(Block) /\ M = SizeMod
  OBVIOUS
<1>1. c \in Nat /\ z \in Nat /\ M \in Nat /\ c * z < M /\ a \in 0..c
  BY BlocksAre
<1>2. a * z \in Nat /\ a * z <= c * z /\ (a * z = 0 \/ a * z >= a)
  BY <1>1
<1>3. c * z \in Nat
  BY <1>1
<1>4. a * z \in 0..(M - 1)
  BY <1>1, <1>2, <1>3
<1>5. \A N \in Nat : \A y \in 0..(N - 1) : y % N = y
  OBVIOUS
<1>6. (a * z) % M = a * z
  BY <1>1, <1>4, <1>5
<1> QED BY <1>2, <1>6

\* What is split off goes its way to the central cache.
LEMMA DeallocatePartsKeeps ==
    ASSUME CacheInv, NEW t \in Threads, NEW b \in Block, NEW z \in AlignedSizes,
           Deallocate(t, b, z), NEW m, NEW size, NEW f, Pushes(t, b, m, size, f),
           NEW k, NEW x, Parts(t, b, m, size, k, x, z)
    PROVE  CacheInv'
<1> PICK r : r = m[x]
  OBVIOUS
<1> PICK g : g = Move(f, <<"list", t>>, <<"way", t>>, Chain(m, r))
  OBVIOUS
<1>0. Pushing(t, b, m, size, f)
  BY Pushed
<1>1. /\ k = Larger(size \div 4, 1) /\ ~(size <= 1) /\ k < Cardinality(Chain(m, b))
      /\ x = Nth(m, b, k) /\ next' = [m EXCEPT ![x] = Null]
      /\ freeListSize' = [freeListSize EXCEPT ![t] = k]
      /\ \/ r = Null /\ pc' = pc /\ arg' = arg
         \/ /\ r # Null /\ pc' = [pc EXCEPT ![t] = "return"]
            /\ arg' = [arg EXCEPT ![t] = [start |-> r,
                                           size |-> ((size - k) * z) % SizeMod]]
  BY DEF Parts
<1>2. /\ m \in [Block -> Pointer \union {Junk}] /\ \A y \in Block : y # b => m[y] = next[y]
      /\ Good(m, b) /\ Chain(m, b) = Where[<<"list", t>>] \union {b}
      /\ Cardinality(Chain(m, b)) = Length(<<"list", t>>) + 1
  BY <1>0 DEF Pushing
<1>3. /\ Spread(f, Cut') /\ f[<<"list", t>>] = Where[<<"list", t>>] \union {b} /\ DOMAIN f = Places
      /\ \A p \in Places : p # <<"used">> /\ p # <<"list", t>> => f[p] = Where[p]
      /\ \A y : y \in f[<<"used">>] <=> y \in Block /\ users'[y] > 0
  BY <1>0 DEF Pushing
<1>4. /\ b \in Where[<<"used">>] /\ Once' /\ users' \in [Block -> Nat]
      /\ freeList' = [freeList EXCEPT ![t] = b] /\ freeList'[t] = b
      /\ pc[t] = "idle" /\ arg[t].start = Null /\ TypeOK /\ Where[<<"way", t>>] = {}
      /\ central' = central /\ spans' = spans /\ refused' = refused
      /\ lost' = lost /\ unsized' = unsized
      /\ size \in 0..(SizeMod - 1)
  BY <1>0 DEF Pushing
<1>5. /\ <<"list", t>> \in ListPlaces /\ <<"used">> \notin ListPlaces
      /\ <<"list", t>> \in Places /\ <<"way", t>> \in Places /\ <<"way", t>> \in ListPlaces
      /\ <<"list", t>> # <<"way", t>> /\ <<"used">> # <<"way", t>> /\ <<"used">> # <<"list", t>>
      /\ <<"used">> \in Places
  BY PlacesAre
<1>6. k \in 1..(size - 1)
  <2> PICK n : n = size \div 4
    OBVIOUS
  <2>1. size \in Nat /\ size > 1
    BY <1>1, <1>4, Sized
  <2>2. n \in Int /\ n <= size - 1
    BY <2>1
  <2>3. k = IF n < 1 THEN 1 ELSE n
    BY <1>1 DEF Larger
  <2> QED BY <2>1, <2>2, <2>3
<1>7. k \in Nat /\ k + 1 \in 1..Cardinality(Chain(m, b)) /\ (k + 1) - 1 = k /\ size \in Nat
  <2>1. Cardinality(Chain(m, b)) \in Nat
    <3>1. Cardinality(Chain(m, b)) \in 0..Cardinality(Block)
      BY <1>2, ChainType
    <3> QED BY <3>1, BlocksAre
  <2>2. size \in Nat
    BY <1>4, Sized
  <2> QED BY <1>1, <1>6, <2>1, <2>2
<1>8. /\ x \in Chain(m, b) /\ x \notin Chain(m, r) /\ Good(m, r) /\ Good(next', b)
      /\ Chain(m, r) \subseteq Chain(m, b) /\ Chain(next', b) = Chain(m, b) \ Chain(m, r)
      /\ Cardinality(Chain(m, r)) = Cardinality(Chain(m, b)) - (k + 1)
      /\ Cardinality(Chain(next', b)) = k + 1
      /\ x \in Block /\ next'[x] = Null /\ \A y \in Block : y # x => next'[y] = m[y]
  <2>1. Good(m, Null) /\ Chain(m, Null) = {} /\ Cardinality(Chain(m, Null)) = 0
    BY ChainEmpty, FS_EmptySet
  <2> PICK j : j = k + 1
    OBVIOUS
  <2>2. j \in 1..Cardinality(Chain(m, b)) /\ x = Nth(m, b, j - 1)
    BY <1>1, <1>7
  <2>3. x \in Block
    BY <1>2, <2>2, ChainNode
  <2>4. next'[x] = Null /\ \A y \in Block : y # x => next'[y] = m[y]
    BY <1>1, <1>2, <2>3
  <2> PICK w : w = next'
    OBVIOUS
  <2>5. w[x] = Null /\ \A y \in Block : y # x => w[y] = m[y]
    BY <2>4
  <2>6. Chain(m, b) \intersect Chain(m, Null) = {}
    BY <2>1
  <2>7. /\ x \in Chain(m, b) /\ x \notin Chain(m, m[x]) /\ Good(m, m[x]) /\ Good(w, b)
        /\ Chain(m, m[x]) \subseteq Chain(m, b)
        /\ Chain(w, b) = (Chain(m, b) \ Chain(m, m[x])) \union Chain(m, Null)
        /\ Cardinality(Chain(m, m[x])) = Cardinality(Chain(m, b)) - j
        /\ Cardinality(Chain(w, b)) = j + Cardinality(Chain(m, Null))
    <3>1. PICK c : c = Null
      OBVIOUS
    <3>2. /\ Good(m, b) /\ Good(m, c) /\ Chain(m, b) \intersect Chain(m, c) = {}
          /\ w[x] = c /\ \A y \in Block : y # x => w[y] = m[y]
      BY <1>2, <2>1, <2>5, <2>6, <3>1
    <3>3. /\ x \in Chain(m, b) /\ x \notin Chain(m, m[x]) /\ Good(m, m[x]) /\ Good(w, b)
          /\ Chain(m, m[x]) \subseteq Chain(m, b)
          /\ Chain(w, b) = (Chain(m, b) \ Chain(m, m[x])) \union Chain(m, c)
          /\ Cardinality(Chain(m, m[x])) = Cardinality(Chain(m, b)) - j
          /\ Cardinality(Chain(w, b)) = j + Cardinality(Chain(m, c))
      BY <2>2, <3>2, ChainJoin
    <3> QED BY <3>1, <3>3
  <2> QED BY <1>7, <2>1, <2>3, <2>4, <2>7
<1>9. /\ Spread(g, Cut') /\ g[<<"list", t>>] = Chain(m, b) \ Chain(m, r)
      /\ g[<<"way", t>>] = Chain(m, r)
      /\ g[<<"used">>] = f[<<"used">>]
      /\ \A p \in Places : p # <<"used">> /\ p # <<"list", t>> /\ p # <<"way", t>> =>
           g[p] = Where[p]
  <2>1. Chain(m, r) \in SUBSET f[<<"list", t>>]
    BY <1>2, <1>3, <1>8
  <2>2. /\ Spread(g, Cut') /\ g[<<"list", t>>] = f[<<"list", t>>] \ Chain(m, r)
        /\ g[<<"way", t>>] = f[<<"way", t>>] \union Chain(m, r)
        /\ \A p \in Places : p # <<"list", t>> /\ p # <<"way", t>> => g[p] = f[p]
    BY <1>3, <1>5, <2>1, Moved
  <2> QED BY <1>2, <1>3, <1>4, <1>5, <2>2
<1>10. Holds(<<"list", t>>, g[<<"list", t>>])
  BY <1>4, <1>8, <1>9, Heads DEF Holds, HeadsAre
<1>11. arg'[t].start = r /\ Leaves(t)
  BY <1>1, <1>4 DEF Leaves, TypeOK
<1>12. Holds(<<"way", t>>, g[<<"way", t>>])
  <2>1. \A y \in Chain(m, r) : next'[y] = m[y]
    BY <1>8, ChainType
  <2>2. Good(next', r) /\ Chain(next', r) = Chain(m, r)
    BY <1>8, <2>1, ChainFrame
  <2>3. HeadOf(<<"way", t>>)' = r
    BY <1>11, Heads DEF HeadsAre
  <2> QED BY <1>9, <2>2, <2>3 DEF Holds
<1>13. Ends(t, {<<"used">>, <<"list", t>>, <<"way", t>>}, g)
  <2>1. g[<<"lost">>] = lost'
    BY <1>4, <1>9, PlacesAre, Stands
  <2>2. \A y \in Block : \/ next'[y] = next[y] \/ y \in Where[<<"used">>]
                         \/ y \in Where[<<"list", t>>]
    BY <1>2, <1>4, <1>8
  <2>3. \A y : y \in g[<<"used">>] <=> y \in Block /\ users'[y] > 0
    BY <1>3, <1>9
  <2> QED BY <1>4, <1>5, <1>9, <1>10, <1>12, <2>1, <2>2, <2>3 DEF Ends
<1>14. TypeOK'
  <2>1. next' \in [Block -> Pointer \union {Junk}]
    BY <1>1, <1>2 DEF Pointer
  <2>2. k \in 0..(SizeMod - 1) /\ ((size - k) * z) % SizeMod \in 0..(SizeMod - 1)
    <3>1. (size - k) * z \in Int
      BY <1>7, BlocksAre
    <3> QED BY <1>4, <1>6, <1>7, <3>1, Sized
  <2>3. r \in Pointer /\ b \in Pointer
    BY <1>8, ChainType DEF Pointer
  <2>4. freeListSize' \in [Threads -> 0..(SizeMod - 1)]
    BY <1>1, <1>4, <2>2 DEF TypeOK
  <2>5. /\ pc' \in [Threads -> {"idle", "fetch", "take", "return"}]
        /\ arg' \in [Threads -> [start : Pointer, size : 0..(SizeMod - 1)]]
    <3>1. CASE pc' = pc /\ arg' = arg
      BY <1>4, <3>1 DEF TypeOK
    <3>2. CASE /\ pc' = [pc EXCEPT ![t] = "return"]
               /\ arg' = [arg EXCEPT ![t] = [start |-> r,
                                              size |-> ((size - k) * z) % SizeMod]]
      BY <1>4, <2>2, <2>3, <3>2 DEF TypeOK
    <3> QED BY <1>1, <3>1, <3>2
  <2> QED BY <1>4, <2>1, <2>3, <2>4, <2>5 DEF TypeOK
<1>15. LocalAt(t)'
  <2>1. CASE r = Null
    BY <1>1, <1>4, <2>1 DEF LocalAt
  <2>2. CASE r # Null
    <3>1. pc'[t] = "return" /\ r \in Block
      BY <1>1, <1>4, <1>8, <2>2, ChainHead DEF TypeOK
    <3> QED BY <1>11, <3>1 DEF LocalAt
  <2> QED BY <2>1, <2>2
<1>16. refused \/ SizeIs(t)'
  <2> SUFFICES ASSUME ~refused PROVE SizeIs(t)'
    OBVIOUS
  <2> PICK n : n = Length(<<"list", t>>) + 1
    OBVIOUS
  <2>1. PICK d \in {0, 1} : size = Lowered(n, d)
    BY <1>0 DEF Pushing
  <2>2. n = Cardinality(Chain(m, b)) /\ n \in 0..Cardinality(Block) /\ n > 0 /\ k + 1 \in 1..n
    <3>1. n = Cardinality(Chain(m, b))
      BY <1>2
    <3>2. n \in 0..Cardinality(Block)
      BY <1>2, <3>1, ChainType
    <3> QED BY <1>7, <3>1, <3>2
  <2>3. size = n - d /\ Lowered(k + 1, 1) = k
    <3>1. k + 1 \in 0..Cardinality(Block) /\ k + 1 > 0 /\ (k + 1) - 1 = k
      BY <1>7, <2>2, BlocksAre
    <3> PICK j : j = k + 1
      OBVIOUS
    <3>2. Lowered(j, 1) = j - 1 /\ Lowered(n, d) = n - d
      BY <2>2, <3>1, Drift
    <3> QED BY <2>1, <3>1, <3>2
  <2>4. Length(<<"list", t>>)' = k + 1
    BY <1>4, <1>8, Heads DEF Length, HeadsAre
  <2>5. Length(<<"way", t>>)' = Cardinality(Chain(m, r))
    BY <1>9, <1>12 DEF Length, Holds
  <2>6. freeListSize'[t] = k
    BY <1>1, <1>4 DEF TypeOK
  <2>7. CASE r = Null
    BY <1>1, <1>4, <2>3, <2>4, <2>6, <2>7 DEF SizeIs
  <2>8. CASE r # Null
    <3> PICK a : a = size - k
      OBVIOUS
    <3>1. pc'[t] = "return" /\ arg'[t].size = (a * z) % SizeMod
      BY <1>1, <1>4, <2>8 DEF TypeOK
    <3>2. Cardinality(Chain(m, r)) <= a /\ a \in 0..Cardinality(Block)
      BY <1>6, <1>7, <1>8, <2>2, <2>3, BlocksAre
    <3>3. (a * z) % SizeMod \in Nat /\ ((a * z) % SizeMod = 0 \/ (a * z) % SizeMod >= a)
      BY <3>2, BytesOf
    <3>4. Cardinality(Chain(m, r)) \in Nat /\ a \in Nat
      BY <1>8, <3>2, ChainType, BlocksAre
    <3>5. arg'[t].size = 0 \/ Cardinality(Chain(m, r)) <= arg'[t].size
      BY <3>1, <3>2, <3>3, <3>4
    <3> QED BY <2>3, <2>4, <2>5, <2>6, <3>1, <3>5 DEF SizeIs
  <2> QED BY <2>7, <2>8
<1> QED BY <1>4, <1>11, <1>13, <1>14, <1>15, <1>16, Assembled DEF CacheInv

\* deallocate(), either way.
LEMMA DeallocateKeeps ==
    ASSUME CacheInv, NEW t \in Threads, NEW b \in Block, NEW z \in AlignedSizes,
           Deallocate(t, b, z)
    PROVE  CacheInv'
  BY DeallocateCases, DeallocateWholeKeeps, DeallocatePartsKeeps

\* returnRange(): what it walks over goes to the central list, what is left is lost.
LEMMA ReturnRangeKeeps ==
    ASSUME CacheInv, NEW t \in Threads, ReturnRange(t)
    PROVE  CacheInv'
<1> PICK h : h = arg[t].start
  OBVIOUS
<1>a. PICK size : size = arg[t].size
  OBVIOUS
<1>b. PICK n : n = Cardinality(Chain(next, h))
  OBVIOUS
<1>c. PICK k : k = Smaller(n, Larger(size, 1))
  OBVIOUS
<1>d. PICK x : x = Nth(next, h, k - 1)
  OBVIOUS
<1>e. PICK r : r = next[x]
  OBVIOUS
<1>0. TypeOK /\ pc[t] = "return" /\ h \in Block
  BY DEF CacheInv, ReturnRange, Local, LocalAt
<1>1. /\ lost' = lost \union Chain(next, r) /\ next' = [next EXCEPT ![x] = central]
      /\ unsized' = IF size = 0 THEN unsized \union Chain(next, r) ELSE unsized
      /\ central' = h
      /\ pc' = [pc EXCEPT ![t] = "idle"]
      /\ arg' = [arg EXCEPT ![t] = [start |-> Null, size |-> 0]]
      /\ users' = users /\ freeList' = freeList /\ freeListSize' = freeListSize
      /\ spans' = spans /\ refused' = refused
  BY <1>a, <1>b, <1>c, <1>d, <1>e DEF ReturnRange, Return
<1>2. /\ Where[<<"way", t>>] = Chain(next, h) /\ Good(next, h)
      /\ Where[<<"central">>] = Chain(next, central) /\ Good(next, central)
      /\ Where[<<"lost">>] = lost
  BY Stands
<1>3. n \in Nat /\ n > 0 /\ n <= Cardinality(Block)
  <2>1. h \in Chain(next, h)
    BY <1>0, <1>2, ChainHead, BlocksAre
  <2>2. n \in 0..Cardinality(Block) /\ IsFiniteSet(Chain(next, h)) /\ Cardinality(Block) \in Nat
    BY <1>2, <1>b, ChainType, BlocksAre
  <2> QED BY <1>b, <2>1, <2>2, FS_EmptySet
<1>4. size \in 0..(SizeMod - 1)
  BY <1>0, <1>a DEF TypeOK
<1>5. k \in 1..n /\ (size >= n => k = n)
  <2>1. size \in Nat
    BY <1>4, Sized
  <2> QED BY <1>3, <1>c, <2>1 DEF Smaller, Larger
<1>6. /\ <<"way", t>> \in Places /\ <<"central">> \in Places /\ <<"lost">> \in Places
      /\ <<"way", t>> # <<"central">> /\ <<"way", t>> # <<"lost">> /\ <<"central">> # <<"lost">>
      /\ <<"way", t>> \in ListPlaces /\ <<"central">> \in ListPlaces
      /\ <<"lost">> \notin ListPlaces
  BY PlacesAre
<1>7. Chain(next, h) \intersect Chain(next, central) = {}
  <2>1. Where[<<"way", t>>] \intersect Where[<<"central">>] = {}
    BY <1>6, Stands DEF Spread
  <2> QED BY <1>2, <2>1
<1>8. /\ x \in Chain(next, h) /\ x \in Block /\ next'[x] = central
      /\ \A y \in Block : y # x => next'[y] = next[y]
  <2>1. x \in Chain(next, h) /\ x \in Block
    BY <1>2, <1>5, <1>b, <1>d, ChainNode
  <2> QED BY <1>0, <1>1, <2>1 DEF TypeOK
<1>9. /\ Good(next', h) /\ Chain(next, r) \subseteq Chain(next, h)
      /\ Chain(next', h) = (Chain(next, h) \ Chain(next, r)) \union Chain(next, central)
      /\ Cardinality(Chain(next, r)) = n - k /\ Good(next, r)
  <2> PICK w, c : w = next' /\ c = central
    OBVIOUS
  <2>1. /\ Good(next, c) /\ Chain(next, h) \intersect Chain(next, c) = {}
        /\ w[x] = c /\ \A y \in Block : y # x => w[y] = next[y]
    BY <1>2, <1>7, <1>8
  <2>2. /\ Good(w, h) /\ Good(next, next[x]) /\ Chain(next, next[x]) \subseteq Chain(next, h)
        /\ Chain(w, h) = (Chain(next, h) \ Chain(next, next[x])) \union Chain(next, c)
        /\ Cardinality(Chain(next, next[x])) = Cardinality(Chain(next, h)) - k
    BY <1>2, <1>5, <1>b, <1>d, <2>1, ChainJoin
  <2> QED BY <1>b, <1>e, <2>2
<1>f. PICK f : f = Move(Where, <<"way", t>>, <<"lost">>, Chain(next, r))
  OBVIOUS
<1>10. /\ Spread(f, Cut) /\ DOMAIN f = Places /\ f[<<"lost">>] = lost'
       /\ f[<<"way", t>>] = Chain(next, h) \ Chain(next, r)
       /\ \A p \in Places : p # <<"way", t>> /\ p # <<"lost">> => f[p] = Where[p]
  <2>1. Chain(next, r) \in SUBSET Where[<<"way", t>>]
    BY <1>2, <1>9
  <2>2. /\ Spread(f, Cut) /\ DOMAIN f = Places
        /\ f[<<"way", t>>] = Where[<<"way", t>>] \ Chain(next, r)
        /\ f[<<"lost">>] = Where[<<"lost">>] \union Chain(next, r)
        /\ \A p \in Places : p # <<"way", t>> /\ p # <<"lost">> => f[p] = Where[p]
    BY <1>6, <1>f, <2>1, Stands, Moved
  <2> QED BY <1>1, <1>2, <2>2
<1>g. PICK X : X = f[<<"way", t>>]
  OBVIOUS
<1>h. PICK g : g = Move(f, <<"way", t>>, <<"central">>, X)
  OBVIOUS
<1>11. /\ Spread(g, Cut) /\ g[<<"lost">>] = lost' /\ g[<<"way", t>>] = {}
       /\ g[<<"central">>] = Chain(next', h)
       /\ \A p \in Places : p # <<"way", t>> /\ p # <<"lost">> /\ p # <<"central">> =>
            g[p] = Where[p]
  <2>0. X \in SUBSET f[<<"way", t>>]
    BY <1>g
  <2>1. /\ Spread(g, Cut) /\ g[<<"way", t>>] = f[<<"way", t>>] \ X
        /\ g[<<"central">>] = f[<<"central">>] \union X
        /\ \A p \in Places : p # <<"way", t>> /\ p # <<"central">> => g[p] = f[p]
    BY <1>6, <1>10, <1>h, <2>0, Moved
  <2>2. f[<<"central">>] = Chain(next, central)
    BY <1>2, <1>6, <1>10
  <2>3. g[<<"way", t>>] = {}
    BY <1>g, <2>1
  <2>4. g[<<"central">>] = Chain(next', h)
    BY <1>9, <1>10, <1>g, <2>1, <2>2
  <2>5. g[<<"lost">>] = lost'
    BY <1>6, <1>10, <2>1
  <2>6. \A p \in Places : p # <<"way", t>> /\ p # <<"lost">> /\ p # <<"central">> =>
            g[p] = Where[p]
    BY <1>10, <2>1
  <2> QED BY <2>1, <2>3, <2>4, <2>5, <2>6
<1>12. arg'[t] = [start |-> Null, size |-> 0] /\ arg'[t].start = Null /\ pc'[t] = "idle"
  BY <1>0, <1>1 DEF TypeOK
<1>13. Holds(<<"central">>, g[<<"central">>])
  <2>1. HeadOf(<<"central">>)' = h
    BY <1>1, Heads DEF HeadsAre
  <2> QED BY <1>9, <1>11, <2>1 DEF Holds
<1>14. Holds(<<"way", t>>, g[<<"way", t>>])
  BY <1>11, <1>12, ChainEmpty, Heads DEF Holds, HeadsAre
<1>15. Cut' = Cut
  BY <1>1 DEF Cut
<1> PICK C : C = {<<"way", t>>, <<"central">>, <<"lost">>}
  OBVIOUS
<1>16. Ends(t, C, g)
  <2>1. \A y : y \in g[<<"used">>] <=> y \in Block /\ users'[y] > 0
    <3>1. g[<<"used">>] = Where[<<"used">>]
      BY <1>11, PlacesAre
    <3>2. \A y : y \in Where[<<"used">>] <=> y \in Block /\ users[y] > 0
      BY Stands
    <3> QED BY <1>1, <3>1, <3>2
  <2>2. \A y \in Block : next'[y] = next[y] \/ y \in Where[<<"way", t>>]
    BY <1>2, <1>8
  <2>3. C \subseteq {<<"used">>, <<"lost">>, <<"central">>, <<"list", t>>, <<"way", t>>}
    OBVIOUS
  <2>4. \A p \in ListPlaces : p \in C => Holds(p, g[p])
    BY <1>6, <1>13, <1>14
  <2>5. Spread(g, Cut') /\ \A p \in Places : p \notin C => g[p] = Where[p]
    BY <1>11, <1>15
  <2>6. /\ central' = central \/ <<"central">> \in C
        /\ freeList'[t] = freeList[t] /\ <<"way", t>> \in C
    BY <1>1
  <2>7. \A y \in Block : next'[y] = next[y] \/ \E p \in C : y \in Where[p]
    BY <2>2, <2>6
  <2> QED BY <1>11, <2>1, <2>3, <2>4, <2>5, <2>6, <2>7 DEF Ends
<1>17. Leaves(t) /\ Once'
  BY <1>0, <1>1 DEF Leaves, TypeOK, CacheInv, Once
<1>18. TypeOK'
  <2>1. Chain(next, r) \subseteq Block
    BY <1>9, ChainType
  <2>2. lost' \subseteq Block /\ unsized' \subseteq lost'
    BY <1>0, <1>1, <2>1 DEF TypeOK
  <2>3. next' \in [Block -> Pointer \union {Junk}] /\ central' \in Pointer
    BY <1>0, <1>1 DEF TypeOK, Pointer
  <2>4. arg' \in [Threads -> [start : Pointer, size : 0..(SizeMod - 1)]]
    BY <1>0, <1>1, Sized DEF TypeOK, Pointer
  <2> QED BY <1>0, <1>1, <2>2, <2>3, <2>4 DEF TypeOK
<1>19. LocalAt(t)'
  BY <1>12 DEF LocalAt
<1>20. ASSUME ~refused PROVE SizeIs(t)' /\ (size # 0 => Chain(next, r) = {})
  <2>1. /\ freeListSize[t] = Lowered(Length(<<"list", t>>), 1)
        /\ size = 0 \/ Length(<<"way", t>>) <= size
    BY <1>0, <1>20, <1>a DEF CacheInv, Sizes, SizeIs
  <2>2. Length(<<"way", t>>) = n
    BY <1>b, Heads DEF Length, HeadsAre
  <2>5. ASSUME size # 0 PROVE Chain(next, r) = {}
    <3>1. Cardinality(Chain(next, r)) = 0
      BY <1>3, <1>5, <1>9, <2>1, <2>2, <2>5
    <3> QED BY <1>9, <3>1, ChainType, FS_EmptySet
  <2>6. Length(<<"list", t>>)' = Length(<<"list", t>>)
    <3>1. <<"list", t>> \in ListPlaces /\ <<"list", t>> \notin C
      BY PlacesAre
    <3>2. Kept(<<"list", t>>) /\ Linked
      BY <1>16, <1>17, <3>1, EndsHolds DEF CacheInv
    <3>3. Holds(<<"list", t>>, Where[<<"list", t>>])
      BY <3>1, <3>2, Untouched
    <3> QED BY <3>1, <3>3, ListBlocks DEF Holds, Length
  <2>7. SizeIs(t)'
    BY <1>1, <1>12, <2>1, <2>6 DEF SizeIs
  <2> QED BY <2>5, <2>7
<1>21. lost' # unsized' => refused'
  <2> SUFFICES ASSUME ~refused PROVE lost' = unsized'
    BY <1>1
  <2>1. lost = unsized /\ (size # 0 => Chain(next, r) = {})
    BY <1>20 DEF CacheInv
  <2> QED BY <1>1, <2>1
<1> QED BY <1>1, <1>16, <1>17, <1>18, <1>19, <1>20, <1>21, Assembled

-----------------------------------------------------------------------------
(* The invariant, and what follows from it.                                *)

\* Every step keeps the invariant.
LEMMA CacheStep == CacheInv /\ [Next]_vars => CacheInv'
<1> SUFFICES ASSUME CacheInv, [Next]_vars PROVE CacheInv'
  OBVIOUS
<1>1. ASSUME NEW t \in Threads, Step(t) PROVE CacheInv'
  <2>1. CASE AllocateLocal(t)
    BY <2>1, AllocateLocalKeeps
  <2>2. CASE AllocateMiss(t)
    BY <2>2, AllocateMissKeeps
  <2>3. CASE FetchCentral(t)
    BY <2>3, FetchCentralKeeps
  <2>4. CASE FetchSpan(t)
    BY <2>4, FetchSpanKeeps
  <2>5. CASE FetchFails(t)
    BY <2>5, FetchFailsKeeps
  <2>6. CASE TakeFetched(t)
    BY <2>6, TakeFetchedKeeps
  <2>7. ASSUME NEW b \in Block, NEW z \in AlignedSizes, Deallocate(t, b, z) PROVE CacheInv'
    BY <2>7, DeallocateKeeps
  <2>8. CASE ReturnRange(t)
    BY <2>8, ReturnRangeKeeps
  <2> QED BY <1>1, <2>1, <2>2, <2>3, <2>4, <2>5, <2>6, <2>7, <2>8 DEF Step
<1>2. CASE UNCHANGED vars
  <2>1. TypeOK' /\ Local' /\ Once'
    BY <1>2 DEF vars, history, CacheInv, TypeOK, Local, LocalAt, Once
  <2>2. HeadsAre
    BY Heads
  <2>3. \A p \in ListPlaces : HeadOf(p)' = HeadOf(p)
    BY <1>2, <2>2, PlacesAre DEF vars, HeadsAre
  <2>4. next' = next /\ users' = users /\ lost' = lost /\ spans' = spans
    BY <1>2 DEF vars, history
  <2>5. \A p \in ListPlaces : Holds(p, Where[p])
    <3> TAKE p \in ListPlaces
    <3>1. Kept(p)
      BY <2>3, <2>4 DEF Kept
    <3> QED BY <3>1, Untouched DEF CacheInv
  <2>6. Linked' /\ Spread(Where, Cut)'
    <3>1. Cut' = Cut
      BY <2>4 DEF Cut
    <3>2. Where[<<"used">>] = InUse'
      BY <2>4, Stands DEF InUse
    <3>3. Where[<<"lost">>] = lost' /\ Spread(Where, Cut)
      BY <2>4, Stands
    <3> QED BY <2>5, <3>1, <3>2, <3>3, Arrived
  <2>7. Sizes'
    <3>1. \A p \in ListPlaces : Length(p)' = Length(p)
      BY <2>5, ListBlocks DEF Holds, Length
    <3>2. \A t \in Threads : SizeIs(t) => SizeIs(t)'
      BY <1>2, <3>1, PlacesAre DEF vars, SizeIs
    <3> QED BY <1>2, <3>2 DEF vars, history, CacheInv, Sizes
  <2> QED BY <1>2, <2>1, <2>6, <2>7 DEF vars, history, CacheInv
<1> QED BY <1>1, <1>2 DEF Next

\* The invariant holds always.
LEMMA CacheInvariant == Spec => []CacheInv
  BY CacheInit, CacheStep, PTL DEF Spec

\* Every variable of the thread caches and of the central cache has its type.
THEOREM CacheTypeCorrect == Spec => []TypeOK
<1>1. CacheInv => TypeOK
  BY DEF CacheInv
<1> QED BY <1>1, CacheInvariant, PTL

\* Every block is with one user, in one list, on its way between two, or lost; and
\* before fetchRange() has failed returnRange() loses none but in a return of 0 bytes.
THEOREM BlocksInOnePlace == Spec => []EveryBlockInOnePlace
  BY CacheGives, CacheInvariant, PTL

\* allocate() returns a block that nobody has and deallocate() takes one that somebody has;
\* no other step is seen by the users.
THEOREM CacheImplements == Spec => ImplementsAllocator
<1>1. Init => A!Init
  BY DEF Init, A!Init
<1>2. CacheInv /\ [Next]_vars => [A!Allocate \/ A!Deallocate]_users
  <2> SUFFICES ASSUME CacheInv, [Next]_vars
               PROVE  A!Allocate \/ A!Deallocate \/ users' = users
    OBVIOUS
  <2>0. users \in [Block -> Nat] /\ Once
    BY DEF CacheInv, TypeOK
  <2>1. ASSUME NEW b \in Block, b \notin Where[<<"used">>], users' = [users EXCEPT ![b] = @ + 1]
        PROVE  A!Allocate
    <3>1. users[b] = 0
      BY <2>0, <2>1, Stands DEF Once
    <3>2. users' = [users EXCEPT ![b] = 1]
      BY <2>0, <2>1, <3>1
    <3> QED BY <3>1, <3>2 DEF A!Allocate
  <2>2. ASSUME NEW t \in Threads, Step(t) PROVE A!Allocate \/ A!Deallocate \/ users' = users
    <3>1. CASE AllocateLocal(t)
      <4> PICK b : b = freeList[t]
        OBVIOUS
      <4>1. b # Null /\ users' = [users EXCEPT ![b] = @ + 1]
        BY <3>1 DEF AllocateLocal
      <4>2. Where[<<"list", t>>] = Chain(next, b) /\ Good(next, b)
        BY Stands
      <4>3. b \in Where[<<"list", t>>] /\ b \in Block
        BY <4>1, <4>2, ChainHead
      <4>4. b \notin Where[<<"used">>]
        BY <4>3, PlacesAre, Stands, Elsewhere
      <4> QED BY <2>1, <4>1, <4>3, <4>4
    <3>2. CASE TakeFetched(t)
      <4> PICK b : b = arg[t].start
        OBVIOUS
      <4>1. pc[t] = "take" /\ b \in Block /\ users' = [users EXCEPT ![b] = @ + 1]
        BY <3>2 DEF TakeFetched, CacheInv, Local, LocalAt
      <4>2. Where[<<"way", t>>] = Chain(next, b) /\ Good(next, b)
        BY Stands
      <4>3. b \in Where[<<"way", t>>]
        BY <4>1, <4>2, ChainHead, BlocksAre
      <4>4. b \notin Where[<<"used">>]
        BY <4>3, PlacesAre, Stands, Elsewhere
      <4> QED BY <2>1, <4>1, <4>4
    <3>3. ASSUME NEW b \in Block, NEW z \in AlignedSizes, Deallocate(t, b, z)
          PROVE  A!Deallocate
      <4>1. users[b] > 0 /\ users' = [users EXCEPT ![b] = @ - 1]
        BY <3>3 DEF Deallocate
      <4>2. users[b] = 1
        BY <2>0, <4>1 DEF Once
      <4>3. users' = [users EXCEPT ![b] = 0]
        BY <2>0, <4>1, <4>2
      <4> QED BY <4>2, <4>3 DEF A!Deallocate
    <3>4. CASE AllocateMiss(t) \/ FetchCentral(t) \/ FetchSpan(t) \/ FetchFails(t) \/ ReturnRange(t)
      BY <3>4 DEF AllocateMiss, FetchCentral, FetchSpan, FetchFails, ReturnRange, Fetched
    <3> QED BY <2>2, <3>1, <3>2, <3>3, <3>4 DEF Step
  <2>3. CASE UNCHANGED vars
    BY <2>3 DEF vars
  <2> QED BY <2>2, <2>3 DEF Next
<1> QED BY <1>1, <1>2, CacheInvariant, PTL DEF Spec, A!Spec, ImplementsAllocator
=============================================================================
