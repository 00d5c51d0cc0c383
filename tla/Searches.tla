------------------------------- MODULE Searches -------------------------------
(***************************************************************************)
(* The searches and optimisations of Algorithm/graphy.cpp, BackTrack.cpp,  *)
(* DynamicProgramming.cpp and greedy.cpp.  A behaviour is a program that   *)
(* calls one of the functions once or twice; `call' has the last call.     *)
(*                                                                         *)
(* Some keep their state in globals, which they do not reset as a second   *)
(* call would need: hasCycle, postorder and res.  Positions begin at 1.    *)
(***************************************************************************)
EXTENDS Integers, SequencesExt

CONSTANTS
    MaxCourses,   \* bound: courses, or nodes of a graph
    MaxEdges,     \* bound: prequisites
    INT_MAX,
    MaxLen        \* bound: elements of the other inputs

VARIABLES
    call,       \* the function, its input, its output and the globals it began with
    hasCycle,   \* of graphy.cpp
    postorder,
    res,        \* of BackTrack.cpp
    calls       \* how many calls there have been

vars == <<call, hasCycle, postorder, res, calls>>

Courses == 1..MaxCourses

\* The edges out of each node, in the order of the list of edges.
Adjacent(edges) ==
    [i \in Courses |->
        LET out == SelectSeq(edges, LAMBDA e : e[1] = i)
        IN [k \in DOMAIN out |-> out[k][2]]]

-----------------------------------------------------------------------------
(* graphy.cpp: courses                                                     *)

RECURSIVE traverse(_, _, _)

traverse(G, st, i) ==
    LET s == [st EXCEPT !.hasCycle = @ \/ i \in st.onPath]
        entered == [s EXCEPT !.visited = @ \union {i}, !.onPath = @ \union {i}]
        left == FoldLeft(LAMBDA acc, j : traverse(G, acc, j), entered, G[i])
    IN IF i \in s.visited \/ s.hasCycle THEN s
       ELSE [left EXCEPT !.postorder = Append(@, i), !.onPath = @ \ {i}]

\* The loop over all courses, from the globals as they are.
TraverseAll(G, cyclic, order) ==
    FoldLeft(LAMBDA acc, i : traverse(G, acc, i),
             [hasCycle |-> cyclic, postorder |-> order, visited |-> {}, onPath |-> {}],
             [i \in Courses |-> i])

-----------------------------------------------------------------------------
(* graphy.cpp: the shortest paths from src                                 *)

\* Bug: the distances are those at the start of the search.
BugRelaxed(G, dist, u, open) ==
    [v \in Courses |->
        IF v \in open /\ G[u][v] # INT_MAX /\ dist[v] > G[u][v] THEN dist[u] + G[u][v]
        ELSE dist[v]]

Relaxed(G, dist, u, open) ==
    [v \in Courses |->
        IF v \in open /\ G[u][v] # INT_MAX /\ dist[v] > dist[u] + G[u][v]
        THEN dist[u] + G[u][v] ELSE dist[v]]

RECURSIVE dijkstra(_, _, _)

\* Each turn visits the first of the nearest nodes that can be reached.
dijkstra(G, dist, visited) ==
    LET near == {u \in Courses \ visited : dist[u] < INT_MAX}
        nearest == {x \in near : \A y \in near : dist[x] <= dist[y]}
        u == Min(nearest)
    IN IF near = {} THEN dist
       ELSE dijkstra(G, Relaxed(G, dist, u, Courses \ (visited \union {u})), visited \union {u})

-----------------------------------------------------------------------------
(* DynamicProgramming.cpp: dp[i] is a row for the sums from 0 to a target  *)

Total(nums) == FoldLeft(LAMBDA a, b : a + b, 0, nums)

\* dp[n][sum] of canPartition(), the version with a table.
canPartition(nums) ==
    LET sum == Total(nums) \div 2
        Row(row, num) == [j \in 0..sum |-> row[j] \/ (j >= num /\ j > 0 /\ row[j - num])]
        base == [j \in 0..sum |-> j = 0]
    IN Total(nums) % 2 = 0 /\ FoldLeft(Row, base, nums)[sum]

\* A row takes from itself: a coin may be used again.
change(amount, coins) ==
    LET Row(row, coin) ==
            LET new[j \in 0..amount] ==
                    IF j >= coin THEN row[j] + new[j - coin] ELSE row[j]
            IN new
    IN FoldLeft(Row, [j \in 0..amount |-> IF j = 0 THEN 1 ELSE 0], coins)[amount]

-----------------------------------------------------------------------------
(* greedy.cpp                                                              *)

\* The station after the lowest point of the tank, or 0 for -1.
canCompleteCircuit(gas, cost) ==
    LET n == Len(gas)
        Drive(acc, i) ==
            LET sum == acc.sum + gas[i] - cost[i]
            IN IF sum < acc.minSum THEN [sum |-> sum, minSum |-> sum, start |-> i]
               ELSE [acc EXCEPT !.sum = sum]
        end == FoldLeft(Drive, [sum |-> 0, minSum |-> 0, start |-> 0], [i \in 1..n |-> i])
    IN IF end.sum < 0 THEN 0 ELSE 1 + (end.start % n)

\* Of intervals sorted by their ends.
intervalSchedule(intvs) ==
    LET Choose(acc, interval) ==
            IF interval[1] >= acc.x_end
            THEN [count |-> acc.count + 1, x_end |-> interval[2]] ELSE acc
    IN IF intvs = <<>> THEN 0
       ELSE FoldLeft(Choose, [count |-> 1, x_end |-> intvs[1][2]], intvs).count

RECURSIVE Sweep(_, _, _, _, _)

\* The loop of minMeetingRooms(), over the sorted times.
Sweep(starts, ends, i, j, cnt) ==
    IF i > Len(starts) \/ j > Len(ends) THEN 0
    ELSE IF starts[i] < ends[j]
    THEN Max({cnt + 1, Sweep(starts, ends, i + 1, j, cnt + 1)})
    ELSE Max({cnt - 1, Sweep(starts, ends, i, j + 1, cnt - 1)})

Times(meetings, k) == SortSeq([i \in DOMAIN meetings |-> meetings[i][k]], <)

minMeetingRooms(meetings) == Sweep(Times(meetings, 1), Times(meetings, 2), 1, 1, 0)

-----------------------------------------------------------------------------
(* BackTrack.cpp                                                           *)

RECURSIVE backtrack(_, _, _, _)

\* Of permutate(): res, after all that extends the track.
backtrack(nums, acc, track, used) ==
    IF Len(track) = Len(nums) THEN Append(acc, track)
    ELSE LET Extend(a, i) ==
                 IF i \in used THEN a
                 ELSE backtrack(nums, a, Append(track, nums[i]), used \union {i})
         IN FoldLeft(Extend, acc, [i \in DOMAIN nums |-> i])

RECURSIVE backtrackSubsets(_, _, _, _)

\* Of subsetWithDup(): equal elements are tried once at each place of the track.
backtrackSubsets(nums, acc, track, start) ==
    LET Extend(a, i) ==
            IF i < start \/ (i > start /\ nums[i] = nums[i - 1]) THEN a
            ELSE backtrackSubsets(nums, a, Append(track, nums[i]), i + 1)
    IN FoldLeft(Extend, Append(acc, track), [i \in DOMAIN nums |-> i])

-----------------------------------------------------------------------------
Init ==
    /\ call = [f |-> "none", in |-> <<>>, out |-> <<>>, before |-> <<>>]
    /\ hasCycle = FALSE /\ postorder = <<>> /\ res = <<>> /\ calls = 0

\* Bound: two calls of a function that keeps something, one of the others.
Call(f, in, out, before) ==
    /\ call.f = "none" \/ (call.f = f /\ calls < 2 /\ before # <<>>)
    /\ call' = [f |-> f, in |-> in, out |-> out, before |-> before]
    /\ calls' = calls + 1

Once(f, in, out) ==
    Call(f, in, out, <<>>) /\ UNCHANGED <<hasCycle, postorder, res>>

EdgeLists ==
    {SetToSeq(E) : E \in UNION {kSubset(k, Courses \X Courses) : k \in 0..MaxEdges}}

\* The version with a depth-first search: hasCycle is not reset.
CanFinish ==
    \E edges \in EdgeLists :
        LET end == TraverseAll(Adjacent(edges), hasCycle, <<>>)
        IN /\ Call("canFinish", edges, ~end.hasCycle, <<hasCycle>>)
           /\ hasCycle' = end.hasCycle
           /\ UNCHANGED <<postorder, res>>

\* Nor is postorder, which is reversed where it is.
FindOrder ==
    \E edges \in EdgeLists :
        LET end == TraverseAll(Adjacent(edges), hasCycle, postorder)
            order == IF end.hasCycle THEN end.postorder ELSE Reverse(end.postorder)
        IN /\ Call("findOrder", edges, IF end.hasCycle THEN <<>> ELSE order,
                   <<hasCycle, postorder>>)
           /\ hasCycle' = end.hasCycle
           /\ postorder' = order
           /\ UNCHANGED res

Permutate ==
    \E n \in 0..3 :
        LET nums == [i \in 1..n |-> i]
        IN /\ res' = backtrack(nums, res, <<>>, {})
           /\ Call("permutate", nums, res', <<res>>)
           /\ UNCHANGED <<hasCycle, postorder>>

SubsetWithDup ==
    \E nums \in BoundedSeq(1..2, 3) :
        LET sorted == SortSeq(nums, <)
        IN /\ res' = backtrackSubsets(sorted, res, <<>>, 1)
           /\ Call("subsetWithDup", nums, res', <<res>>)
           /\ UNCHANGED <<hasCycle, postorder>>

\* The weights of a graph; a node is at distance 0 from itself.
Dijkstra ==
    \E w \in [(Courses \X Courses) \ {<<i, i>> : i \in Courses} -> {1, 3, INT_MAX}] :
        LET G == [i \in Courses |-> [j \in Courses |-> IF i = j THEN 0 ELSE w[<<i, j>>]]]
        IN Once("dijkstra", G, dijkstra(G, G[1], {}))

CanPartition ==
    \E nums \in BoundedSeq(1..3, MaxLen) : Once("canPartition", nums, canPartition(nums))

Change ==
    \E amount \in 0..6, coins \in {<<>>, <<2>>, <<1, 2>>, <<2, 3>>, <<5, 1, 2>>} :
        Once("change", <<amount, coins>>, change(amount, coins))

CanCompleteCircuit ==
    \E n \in 1..3 : \E gas, cost \in [1..n -> 0..2] :
        Once("canCompleteCircuit", <<gas, cost>>, canCompleteCircuit(gas, cost))

Intervals == {i \in (0..3) \X (0..3) : i[1] < i[2]}

\* std::sort leaves intervals with the same end in any order.
IntervalSchedule ==
    \E intvs \in BoundedSeq(Intervals, 3) :
        /\ \A i \in 1..(Len(intvs) - 1) : intvs[i][2] <= intvs[i + 1][2]
        /\ Once("intervalSchedule", intvs, intervalSchedule(intvs))

MinMeetingRooms ==
    \E meetings \in BoundedSeq(Intervals, 3) :
        Once("minMeetingRooms", meetings, minMeetingRooms(meetings))

Next ==
    \/ CanFinish \/ FindOrder \/ Permutate \/ SubsetWithDup
    \/ Dijkstra \/ CanPartition \/ Change
    \/ CanCompleteCircuit \/ IntervalSchedule \/ MinMeetingRooms

Spec == Init /\ [][Next]_vars

-----------------------------------------------------------------------------
(* The reference definitions.                                              *)

\* An order in which each course comes after those it needs.
Orders(edges) ==
    {p \in [Courses -> Courses] :
        /\ \A i, j \in Courses : i # j => p[i] # p[j]
        /\ \A k \in DOMAIN edges, i, j \in Courses :
               p[i] = edges[k][1] /\ p[j] = edges[k][2] => i < j}

Acyclic(edges) == Orders(edges) # {}

\* Distances by any walk of at most n steps.
Distances(G) ==
    LET Plus(a, b) == IF a = INT_MAX \/ b = INT_MAX THEN INT_MAX ELSE a + b
        d[n \in 0..MaxCourses] ==
            IF n = 0 THEN G[1]
            ELSE [v \in Courses |-> Min({Plus(d[n - 1][u], G[u][v]) : u \in Courses})]
    IN d[MaxCourses]

SumOver(f, S) == FoldSet(LAMBDA i, acc : f[i] + acc, 0, S)

\* How many times each coin is used.
Changes(amount, coins) ==
    {use \in [DOMAIN coins -> 0..amount] :
        SumOver([i \in DOMAIN coins |-> use[i] * coins[i]], DOMAIN coins) = amount}

CanStart(gas, cost, s) ==
    LET n == Len(gas)
        gain == [i \in 1..n |-> gas[i] - cost[i]]
    IN \A k \in 1..n : SumOver(gain, {1 + ((s + i - 2) % n) : i \in 1..k}) >= 0

\* The elements of s at the positions S.
Chosen(s, S) == [k \in 1..Cardinality(S) |-> s[SetToSortSeq(S, <)[k]]]

Disjoint(a, b) == a[2] <= b[1] \/ b[2] <= a[1]

\* Every function finds what its definition in words asks for, an optimum when it asks
\* for one, from the globals as it finds them: canFinish() says no after it has said no
\* once, findOrder() finds no order either after it has found none once and else puts its
\* order before the last one it returned, backwards, and the others add to what they have
\* returned before, each permutation, or each subset, exactly once.
SearchesRight ==
    LET in == call.in  out == call.out  before == call.before
        added == SubSeq(out, Len(before[1]) + 1, Len(out))
    IN CASE call.f = "canFinish" -> out <=> ~before[1] /\ Acyclic(in)
         [] call.f = "findOrder" ->
              IF before[1] \/ ~Acyclic(in) THEN out = <<>>
              ELSE \E order \in Orders(in) : out = order \o Reverse(before[2])
         [] call.f = "permutate" ->
              /\ IsPrefix(before[1], out)
              /\ ToSet(added) = SetToSeqs(ToSet(in))
              /\ Len(added) = Cardinality(ToSet(added))
         [] call.f = "subsetWithDup" ->
              /\ IsPrefix(before[1], out)
              /\ ToSet(added) = {SortSeq(Chosen(in, S), <) : S \in SUBSET DOMAIN in}
              /\ Len(added) = Cardinality(ToSet(added))
         [] call.f = "dijkstra" -> out = Distances(in)
         [] call.f = "canPartition" ->
              out <=> \E S \in SUBSET DOMAIN in :
                          SumOver(in, S) = SumOver(in, DOMAIN in \ S)
         [] call.f = "change" -> out = Cardinality(Changes(in[1], in[2]))
         [] call.f = "canCompleteCircuit" ->
              LET starts == {s \in DOMAIN in[1] : CanStart(in[1], in[2], s)}
              IN IF starts = {} THEN out = 0 ELSE out \in starts
         [] call.f = "intervalSchedule" ->
              out = Max({Cardinality(S) : S \in {T \in SUBSET DOMAIN in :
                             \A i, j \in T : i # j => Disjoint(in[i], in[j])}})
         [] call.f = "minMeetingRooms" ->
              out = Max({Cardinality({i \in DOMAIN in : in[i][1] <= t /\ t < in[i][2]})
                             : t \in 0..3})
         [] OTHER -> TRUE
=============================================================================
