-------------------------------- MODULE Lists --------------------------------
(***************************************************************************)
(* The algorithms on arrays and linked lists of Algorithm/Sort.cpp,        *)
(* Algorithm/LinkedList.cpp and misc/reverse_linked_table.cpp.  A          *)
(* behaviour is one call, and a step is one turn of the loop it is in.     *)
(*                                                                         *)
(* Almost all of them move two pointers, left and right.  Positions begin  *)
(* at 1.  A linked list is the sequence of its values, and a pointer into  *)
(* it a position, one past the end for nullptr, except where the links     *)
(* matter (cycles).  A recursion that does nothing after a call of itself  *)
(* but return what it has built is a loop.                                 *)
(***************************************************************************)
EXTENDS Integers, SequencesExt

CONSTANTS
    Values,    \* integers
    MaxLen,    \* bound: elements of an input
    MaxLists,  \* bound: lists to merge
    MaxShort,  \* bound: elements of each of these, and characters of t
    Null

ASSUME ListsAssumption ==
    /\ Values \subseteq Int /\ Null \notin Int
    /\ MaxLen \in Nat /\ MaxLists \in Nat /\ MaxShort \in Nat

VARIABLES
    fn,        \* the function, and what it was given
    input,
    loop,      \* the loop it is in, or "returned"
    output,    \* the array or list it works on, what it has returned in the end
    left,      \* its two pointers, whatever it calls them
    right,
    locals,    \* what else it keeps
    turns      \* history: how many turns it has taken

listsVars == <<fn, input, loop, output, left, right, locals, turns>>

Ascending(s) == \A i, j \in DOMAIN s : i <= j => s[i] <= s[j]
Vectors == BoundedSeq(Values, MaxLen)
SortedVectors == {s \in Vectors : Ascending(s)}

Swapped(s, i, j) == [s EXCEPT ![i] = s[j], ![j] = s[i]]
Occurrences(s, c) == Cardinality({i \in DOMAIN s : s[i] = c})

ListsInit ==
    /\ fn = "none" /\ input = <<>>
    /\ loop = "none" /\ output = <<>>
    /\ left = 0 /\ right = 0 /\ locals = <<>>
    /\ turns = 0

\* A call of f, up to its first loop l.
Call(f, in, l, out, p, q, others) ==
    /\ fn' = f /\ input' = in
    /\ loop' = l /\ output' = out
    /\ left' = p /\ right' = q /\ locals' = others

\* A turn of the loop, and the ways out of it.
Step(out, p, q) ==
    output' = out /\ left' = p /\ right' = q /\ UNCHANGED <<loop, locals>>

Goto(l) == loop' = l /\ UNCHANGED <<output, left, right, locals>>

Return(out) == loop' = "returned" /\ output' = out /\ UNCHANGED <<left, right, locals>>

-----------------------------------------------------------------------------
(* Sort.cpp                                                                *)

\* todo has the ranges of the calls that are still to be made.
QuickSort ==
    \E s \in Vectors :
        Call("quick_sort", s, "sort", s, 0, 0,
             [todo |-> {<<1, Len(s)>>}, first |-> 0, last |-> 0, temp |-> 0])

\* Bug: i starts before j does.
BugPartition(r) ==
    /\ loop' = "up" /\ left' = r[1] /\ right' = r[2]
    /\ locals' = [todo |-> locals.todo \ {r}, first |-> r[1], last |-> r[2],
                  temp |-> output[r[1]]]

Partition(r) ==
    /\ loop' = "down" /\ left' = r[1] /\ right' = r[2]
    /\ locals' = [todo |-> locals.todo \ {r}, first |-> r[1], last |-> r[2],
                  temp |-> output[r[1]]]

\* The calls are made from left to right.
SortRange ==
    /\ loop = "sort"
    /\ \/ locals.todo = {} /\ Return(output)
       \/ \E r \in locals.todo :
            /\ \A other \in locals.todo : r[1] <= other[1]
            /\ IF r[1] < r[2] THEN Partition(r)
               ELSE locals' = [locals EXCEPT !.todo = @ \ {r}] /\ UNCHANGED <<loop, left, right>>
            /\ UNCHANGED output

\* j goes down to an element below the pivot ...
PartitionDown ==
    /\ loop = "down"
    /\ IF left < right /\ locals.temp <= output[right] THEN Step(output, left, right - 1)
       ELSE Goto("up")

\* ... and i up to one above it, or they meet ...
PartitionUp ==
    /\ loop = "up"
    /\ IF left < right /\ locals.temp >= output[left] THEN Step(output, left + 1, right)
       ELSE Goto("swap")

\* ... and those two are swapped, or the pivot goes to the meeting point.
PartitionSwap ==
    /\ loop = "swap"
    /\ \/ /\ left < right
          /\ loop' = "down" /\ output' = Swapped(output, left, right)
          /\ UNCHANGED locals
       \/ /\ left >= right
          /\ loop' = "sort" /\ output' = Swapped(output, locals.first, left)
          /\ locals' = [locals EXCEPT
                 !.todo = @ \union {<<locals.first, left - 1>>, <<left + 1, locals.last>>}]
    /\ UNCHANGED <<left, right>>

-----------------------------------------------------------------------------
(* LinkedList.cpp: merging                                                 *)

Merge ==
    \E a, b \in SortedVectors, f \in {"merge", "mergeRecursive"} :
        Call(f, <<a, b>>, "merge", <<>>, 1, 1, <<>>)

\* merge() does not advance list2: once its head comes first, the loop links that node to
\* itself for ever.
MergeTurn ==
    LET a == input[1]  b == input[2]
    IN /\ loop = "merge"
       /\ IF left > Len(a) \/ right > Len(b)
          THEN Return(output \o SubSeq(a, left, Len(a)) \o SubSeq(b, right, Len(b)))
          ELSE IF a[left] < b[right] THEN Step(Append(output, a[left]), left + 1, right)
          ELSE IF fn = "merge" THEN Goto("for ever")
          ELSE Step(Append(output, b[right]), left, right + 1)

MergeKLists ==
    \E lists \in BoundedSeq({s \in SortedVectors : Len(s) <= MaxShort}, MaxLists) :
        Call("mergeKLists", lists, "queue", <<>>, 0, 0, [k \in DOMAIN lists |-> 1])

\* The priority queue has the present node of each list, and gives one of the least.
MergeKTurn ==
    LET open == {k \in DOMAIN input : locals[k] <= Len(input[k])}
        Node(k) == input[k][locals[k]]
    IN /\ loop = "queue"
       /\ \/ open = {} /\ Return(output)
          \/ \E top \in open :
               /\ \A k \in open : Node(top) <= Node(k)
               /\ output' = Append(output, Node(top))
               /\ locals' = [locals EXCEPT ![top] = @ + 1]
               /\ UNCHANGED <<loop, left, right>>

-----------------------------------------------------------------------------
(* LinkedList.cpp: a fast and a slow pointer                               *)

\* Of a list of n nodes, k < n; right is p, left is q, and locals counts k down.
FindFromEnd ==
    \E n \in 2..MaxLen : \E k \in 1..(n - 1) :
        Call("findFromEnd", <<n, k>>, "ahead", Null, 1, 1, k)

Ahead ==
    /\ loop = "ahead"
    /\ IF locals = 0 THEN Goto("both")
       ELSE right' = right + 1 /\ locals' = locals - 1 /\ UNCHANGED <<loop, output, left>>

Both ==
    /\ loop = "both"
    /\ IF right < input[1] THEN Step(output, left + 1, right + 1) ELSE Return(left + 1)

\* The nodes of the list in order, 1 being its head, as long as they are all different.
Path(next, p) ==
    /\ p[1] = 1
    /\ \A i, j \in DOMAIN p : p[i] = p[j] => i = j
    /\ \A i \in 1..(Len(p) - 1) : p[i + 1] = next[p[i]]

\* The list comes back to node x.
ReturnsTo(next, x) ==
    \E n \in 1..MaxLen : \E p \in [1..n -> DOMAIN next] :
        Path(next, p) /\ next[p[n]] = x /\ \E i \in 1..n : p[i] = x

HasCycle(next) == \E x \in DOMAIN next : ReturnsTo(next, x)

\* A list of some of the nodes.  detectCycle() must have one with a cycle, or of one node.
Cycles ==
    \E next \in [1..MaxLen -> (1..MaxLen) \union {Null}] :
        /\ MaxLen > 0
        /\ \/ Call("hasCycle", next, "chase", Null, 1, 1, <<>>)
           \/ next[1] = Null /\ Call("detectCycle", next, "returned", Null, 1, 1, <<>>)
           \/ HasCycle(next) /\ Call("detectCycle", next, "chase", Null, 1, 1, <<>>)

\* left is slow and right is fast: they meet, or fast gets to the end.
Chase ==
    LET slow == input[left]  fast == input[input[right]]
    IN /\ loop = "chase"
       /\ IF right = Null \/ input[right] = Null THEN Return(FALSE)
          ELSE IF slow # fast THEN Step(output, slow, fast)
          ELSE IF fn = "hasCycle" THEN Return(TRUE)
          ELSE /\ loop' = "in step" /\ left' = 1 /\ right' = fast
               /\ UNCHANGED <<output, locals>>

InStep ==
    /\ loop = "in step"
    /\ IF left # right THEN Step(output, input[left], input[right]) ELSE Return(left)

\* Of an array, where left is the last element that is kept, and of a list.
RemoveDulpicates ==
    \E s \in SortedVectors :
        IF s = <<>> THEN Call("removeDulpicates", s, "returned", s, 1, 1, <<>>)
        ELSE \/ Call("removeDulpicates", s, "array", s, 1, 1, <<>>)
             \/ Call("removeDulpicates", s, "list", <<s[1]>>, 1, 1, <<>>)

ArrayTurn ==
    /\ loop = "array"
    /\ IF right > Len(input) THEN Return(SubSeq(output, 1, left))
       ELSE IF output[right] = output[left] THEN Step(output, left, right + 1)
       ELSE Step([output EXCEPT ![left + 1] = output[right]], left + 1, right + 1)

ListTurn ==
    /\ loop = "list"
    /\ IF right = Len(input) THEN Return(output)
       ELSE IF input[right + 1] = input[left] THEN Step(output, left, right + 1)
       ELSE Step(Append(output, input[right + 1]), right + 1, right + 1)

-----------------------------------------------------------------------------
(* LinkedList.cpp: pointers from both ends, and a window between them;     *)
(* reverse_linked_table.cpp                                                *)

TwoSum ==
    \E s \in SortedVectors, a, b \in Values :
        Call("twoSum", <<s, a + b>>, "sum", Null, 1, Len(s), <<>>)

TwoSumTurn ==
    LET nums == input[1]  sum == nums[left] + nums[right]
    IN /\ loop = "sum"
       /\ IF left >= right THEN Return(Null)
          ELSE IF sum = input[2] THEN Return(<<left, right>>)
          ELSE IF sum < input[2] THEN Step(output, left + 1, right)
          ELSE Step(output, left, right - 1)

Reversing ==
    \E s \in Vectors :
        \/ Call("reverseString", s, "exchange", s, 1, Len(s), <<>>)
        \/ Call("reverse", s, "relink", <<>>, 1, 0, <<>>)
        \/ Call("isPalindrome", s, "compare", Null, 1, Len(s), <<>>)

Exchange ==
    /\ loop = "exchange"
    /\ IF left < right THEN Step(Swapped(output, left, right), left + 1, right - 1)
       ELSE Return(output)

\* Each node goes to the front of the result; left is p.
Relink ==
    /\ loop = "relink"
    /\ IF left <= Len(input) THEN Step(<<input[left]>> \o output, left + 1, right)
       ELSE Return(output)

Compare ==
    /\ loop = "compare"
    /\ IF left >= right THEN Return(TRUE)
       ELSE IF input[left] # input[right] THEN Return(FALSE)
       ELSE Step(output, left + 1, right - 1)

\* The window is from left to right.  len starts as INT_MAX, for which any number above the
\* length of s will do.
MinWindow ==
    \E s \in Vectors, t \in Vectors \ {<<>>} :
        /\ Len(t) <= MaxShort
        /\ Call("minWindow", <<s, t>>, "extend", Null, 1, 0,
                [windows |-> [c \in ToSet(t) |-> 0], valid |-> 0, start |-> 1, len |-> Len(s) + 1])

\* The window gets the next character of s.
Extend ==
    LET s == input[1]  t == input[2]  c == s[right + 1]
        count == locals.windows[c] + 1
    IN /\ loop = "extend"
       /\ IF right >= Len(s)
          THEN Return(IF locals.len > Len(s) THEN <<>>
                      ELSE SubSeq(s, locals.start, locals.start + locals.len - 1))
          ELSE /\ loop' = "shrink" /\ right' = right + 1
               /\ locals' = IF c \notin ToSet(t) THEN locals
                            ELSE [locals EXCEPT
                                    !.windows[c] = count,
                                    !.valid = IF count = Occurrences(t, c) THEN @ + 1 ELSE @]
               /\ UNCHANGED <<output, left>>

\* As long as no character of t has too little of it, the window loses its first.
Shrink ==
    LET t == input[2]  d == input[1][left]
        count == locals.windows[d]
        len == right - left + 1
        found == IF len < locals.len THEN [locals EXCEPT !.start = left, !.len = len] ELSE locals
    IN /\ loop = "shrink"
       /\ IF locals.valid # Cardinality(ToSet(t)) THEN Goto("extend")
          ELSE /\ left' = left + 1
               /\ locals' = IF d \notin ToSet(t) THEN found
                            ELSE [found EXCEPT
                                    !.windows[d] = count - 1,
                                    !.valid = IF count = Occurrences(t, d) THEN @ - 1 ELSE @]
               /\ UNCHANGED <<loop, output, right>>

-----------------------------------------------------------------------------
Calls ==
    \/ QuickSort \/ Merge \/ MergeKLists \/ FindFromEnd \/ Cycles
    \/ RemoveDulpicates \/ TwoSum \/ Reversing \/ MinWindow

Turn ==
    \/ SortRange \/ PartitionDown \/ PartitionUp \/ PartitionSwap
    \/ MergeTurn \/ MergeKTurn
    \/ Ahead \/ Both \/ Chase \/ InStep \/ ArrayTurn \/ ListTurn
    \/ TwoSumTurn \/ Exchange \/ Relink \/ Compare \/ Extend \/ Shrink

ListsNext ==
    \/ fn = "none" /\ Calls /\ turns' = 0
    \/ Turn /\ turns' = turns + 1 /\ UNCHANGED <<fn, input>>

ListsSpec == ListsInit /\ [][ListsNext]_listsVars

-----------------------------------------------------------------------------
(* The reference definitions.                                              *)

\* Where the elements of some lists are.
Places(lists) == UNION {{k} \X (1..Len(lists[k])) : k \in DOMAIN lists}

\* t has the elements of the lists, each as often as they do, in order.
Merged(lists, t) ==
    /\ Ascending(t)
    /\ \A c \in Values :
           Occurrences(t, c) = Cardinality({p \in Places(lists) : lists[p[1]][p[2]] = c})

\* Each element of s, once.
Distinct(s, t) ==
    /\ \A i, j \in DOMAIN t : i < j => t[i] < t[j]
    /\ ToSet(t) = ToSet(s)

PairsWith(s, sum) ==
    {p \in (1..Len(s)) \X (1..Len(s)) : p[1] < p[2] /\ s[p[1]] + s[p[2]] = sum}

\* The windows of s that have each character of t as often as t does.
Windows(s, t) ==
    {w \in (1..Len(s)) \X (1..Len(s)) :
        \A c \in ToSet(t) : Cardinality({i \in w[1]..w[2] : s[i] = c}) >= Occurrences(t, c)}

\* The leftmost of the shortest windows, if there is one.
Best(w, windows) ==
    /\ w \in windows
    /\ \A v \in windows : v[2] - v[1] > w[2] - w[1] \/ (v[2] - v[1] = w[2] - w[1] /\ v[1] >= w[1])

\* What merge() cannot do: something of list2 comes before the end of list1.
OutOfTurn(a, b) == a # <<>> /\ b # <<>> /\ Last(a) >= Head(b)

\* What each function is asked for, in words.
AsAsked ==
    /\ fn \in {"quick_sort"} => Merged(<<input>>, output)
    /\ fn \in {"merge", "mergeRecursive", "mergeKLists"} => Merged(input, output)
    /\ fn = "merge" => ~OutOfTurn(input[1], input[2])
    /\ fn = "findFromEnd" => Cardinality(output..input[1]) = input[2]
    /\ fn = "hasCycle" => output = HasCycle(input)
    /\ fn = "detectCycle" => IF input[1] = Null THEN output = Null ELSE ReturnsTo(input, output)
    /\ fn = "removeDulpicates" => Distinct(input, output)
    /\ fn = "twoSum" =>
           LET pairs == PairsWith(input[1], input[2])
           IN IF pairs = {} THEN output = Null ELSE output \in pairs
    /\ fn \in {"reverseString", "reverse"} => output = Reverse(input)
    /\ fn = "isPalindrome" => output = (input = Reverse(input))
    /\ fn = "minWindow" =>
           LET windows == Windows(input[1], input[2])
           IN IF windows = {} THEN output = <<>>
              ELSE \E w \in windows : Best(w, windows) /\ output = SubSeq(input[1], w[1], w[2])

\* The turns that a call takes at most.
Budget ==
    /\ fn = "quick_sort" => turns <= 4 * Len(input) * Len(input) + Len(input) + 2
    /\ fn \in {"merge", "mergeRecursive"} => turns <= Len(input[1]) + Len(input[2]) + 1
    /\ fn = "mergeKLists" => turns <= Cardinality(Places(input)) + 1
    /\ fn = "findFromEnd" => turns <= input[1] + 1
    /\ fn = "hasCycle" => turns <= MaxLen + 1
    /\ fn = "detectCycle" => turns <= 2 * MaxLen + 2
    /\ fn \in {"removeDulpicates", "reverseString", "reverse", "isPalindrome"} =>
           turns <= Len(input) + 1
    /\ fn = "twoSum" => turns <= Len(input[1]) + 1
    /\ fn = "minWindow" => turns <= 3 * Len(input[1]) + 1

\* Every function returns, after turns that are linear in the size of the input (quadratic for
\* quick_sort), what its definition in words asks for: a sorted copy, each value once, the
\* k-th node from the end, the first node of the cycle, a pair with the sum if there is one,
\* the leftmost of the shortest windows.  merge() is the exception: it goes on for ever
\* exactly when something of list2 comes before the end of list1.
ListsRight ==
    /\ loop = "returned" => AsAsked
    /\ Budget
    /\ loop = "for ever" => OutOfTurn(input[1], input[2])
=============================================================================
