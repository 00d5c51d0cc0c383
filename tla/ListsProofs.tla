------------------------------ MODULE ListsProofs ------------------------------
(***************************************************************************)
(* Proofs about the algorithms of Lists, for inputs of any length: what    *)
(* each function returns, and in how many turns.  Each has its loop        *)
(* invariant, with lemmas that its call establishes it (...Starts), that   *)
(* its turns preserve it (...Keeps) and that it says enough (...Right).    *)
(***************************************************************************)
EXTENDS Lists, WellFoundedInduction, FiniteSetTheorems, FunctionTheorems, SequenceTheorems, TLAPS

-----------------------------------------------------------------------------
(* Numbers and sequences.                                                  *)

\* A set of numbers that is not empty has a least one.
LEMMA LeastNumber ==
    ASSUME NEW S \in SUBSET Nat, S # {}
    PROVE  \E x \in S : \A y \in S : x <= y
<1>1. PICK R : IsWellFoundedOn(R, Nat) /\ \A x, y \in Nat : <<y, x>> \in R <=> y < x
  <2>1. \A x, y \in Nat : <<y, x>> \in OpToRel(<, Nat) <=> y < x
    BY DEF OpToRel
  <2> QED BY <2>1, NatLessThanWellFounded
<1>2. PICK x \in S : \A y \in S : ~(<<y, x>> \in R)
  BY <1>1, WFMin
<1>3. \A y \in S : x <= y
  <2> TAKE y \in S
  <2>1. x \in Nat /\ y \in Nat
    OBVIOUS
  <2>2. ~(y < x)
    BY <1>1, <1>2, <2>1
  <2> QED BY <2>1, <2>2
<1> QED BY <1>3

LEMMA VectorsAre ==
    ASSUME NEW s \in Vectors
    PROVE  /\ s \in Seq(Values) /\ s \in Seq(Int) /\ Len(s) \in Nat /\ Len(s) <= MaxLen
           /\ DOMAIN s = 1..Len(s) /\ \A i \in 1..Len(s) : s[i] \in Values /\ s[i] \in Int
<1>1. PICK m \in 0..MaxLen : s \in [1..m -> Values]
  BY DEF Vectors, BoundedSeq, SeqOf
<1>2. m \in Nat /\ m <= MaxLen /\ Values \subseteq Int
  BY <1>1, ListsAssumption
<1>3. s \in Seq(Values)
  BY <1>1, <1>2, SeqDef
<1>4. s \in Seq(Int)
  BY <1>2, <1>3, SeqMonotonic
<1>5. Len(s) = m
  BY <1>1, <1>2, <1>3, LenProperties
<1> QED BY <1>1, <1>2, <1>3, <1>4, <1>5

LEMMA SortedAre ==
    ASSUME NEW s \in SortedVectors
    PROVE  /\ s \in Seq(Values) /\ s \in Seq(Int) /\ Len(s) \in Nat /\ Len(s) <= MaxLen
           /\ DOMAIN s = 1..Len(s) /\ \A i \in 1..Len(s) : s[i] \in Values /\ s[i] \in Int
           /\ \A i, j \in 1..Len(s) : i <= j => s[i] <= s[j]
<1>1. s \in Vectors /\ Ascending(s)
  BY DEF SortedVectors
<1> QED BY <1>1, VectorsAre DEF Ascending

\* What no turn changes, and the history.
Kept == UNCHANGED <<fn, input>> /\ turns' = turns + 1

-----------------------------------------------------------------------------
(* twoSum: no pair with the sum has an element outside left..right.        *)

TwoSumInv ==
    LET nums == input[1]  pairs == PairsWith(input[1], input[2])
    IN /\ fn = "twoSum" /\ loop \in {"sum", "returned"}
       /\ nums \in SortedVectors /\ input[2] \in Int
       /\ left \in Nat /\ right \in Int
       /\ 1 <= left /\ left <= right + 1 /\ right <= Len(nums)
       /\ loop = "sum" =>
            /\ \A p \in pairs : left <= p[1] /\ p[2] <= right
            /\ turns = Len(nums) - (right - left + 1)
       /\ loop = "returned" =>
            /\ IF pairs = {} THEN output = Null ELSE output \in pairs
            /\ turns \in Nat /\ turns <= Len(nums) + 1

\* What comes with a sum that is too small or too large.
LEMMA PairsLeft ==
    ASSUME NEW nums \in SortedVectors, NEW sum \in Int,
           NEW i \in 1..Len(nums), NEW j \in 1..Len(nums),
           NEW p \in PairsWith(nums, sum), i <= p[1], p[2] <= j
    PROVE  /\ i < j
           /\ nums[i] + nums[j] < sum => i + 1 <= p[1]
           /\ nums[i] + nums[j] > sum => p[2] <= j - 1
<1>1. /\ p[1] \in 1..Len(nums) /\ p[2] \in 1..Len(nums) /\ p[1] < p[2]
      /\ nums[p[1]] + nums[p[2]] = sum
  BY DEF PairsWith
<1>2. /\ nums[i] \in Int /\ nums[j] \in Int /\ nums[p[1]] \in Int /\ nums[p[2]] \in Int
      /\ nums[i] <= nums[p[1]] /\ nums[p[2]] <= nums[j] /\ Len(nums) \in Nat
  BY <1>1, SortedAre
<1>3. i < j
  BY <1>1, <1>2
<1>4. ASSUME nums[i] + nums[j] < sum PROVE i + 1 <= p[1]
  <2>1. p[1] # i
    BY <1>1, <1>2, <1>4
  <2> QED BY <1>1, <2>1
<1>5. ASSUME nums[i] + nums[j] > sum PROVE p[2] <= j - 1
  <2>1. p[2] # j
    BY <1>1, <1>2, <1>5
  <2> QED BY <1>1, <2>1
<1> QED BY <1>3, <1>4, <1>5

LEMMA TwoSumStarts ==
    ASSUME TwoSum, turns' = 0
    PROVE  TwoSumInv'
<1> PICK s \in SortedVectors, a \in Values, b \in Values :
        Call("twoSum", <<s, a + b>>, "sum", Null, 1, Len(s), <<>>)
  BY DEF TwoSum
<1>1. Len(s) \in Nat /\ a + b \in Int
  BY SortedAre, ListsAssumption
<1>2. \A p \in PairsWith(s, a + b) : 1 <= p[1] /\ p[2] <= Len(s)
  BY <1>1 DEF PairsWith
<1> QED BY <1>1, <1>2 DEF TwoSumInv, Call

LEMMA TwoSumKeeps ==
    ASSUME TwoSumInv, TwoSumTurn, Kept
    PROVE  TwoSumInv'
<1> DEFINE nums == input[1]
           pairs == PairsWith(input[1], input[2])
<1>1. /\ fn = "twoSum" /\ loop = "sum" /\ nums \in SortedVectors /\ input[2] \in Int
      /\ left \in Nat /\ right \in Int
      /\ 1 <= left /\ left <= right + 1 /\ right <= Len(nums)
      /\ \A p \in pairs : left <= p[1] /\ p[2] <= right
      /\ turns = Len(nums) - (right - left + 1)
  BY DEF TwoSumInv, TwoSumTurn
<1>2. /\ Len(nums) \in Nat /\ turns \in Nat /\ turns' = turns + 1
      /\ fn' = fn /\ input' = input /\ nums' = nums /\ pairs' = pairs
  BY <1>1, SortedAre DEF Kept
<1>3. CASE left >= right
  <2>1. Return(Null)
    BY <1>3 DEF TwoSumTurn
  <2>2. pairs = {}
    BY <1>1, <1>2, <1>3 DEF PairsWith
  <2> QED BY <1>1, <1>2, <2>1, <2>2 DEF TwoSumInv, Return
<1>4. left \in Int /\ right \in Int
  BY <1>1
<1>5. CASE left < right
  <2>1. left \in 1..Len(nums) /\ right \in 1..Len(nums)
    BY <1>1, <1>2, <1>5
  <2>2. left \in 1..Len(nums) /\ right \in 1..Len(nums) /\ nums[left] \in Int /\ nums[right] \in Int
    BY <1>1, <2>1, SortedAre
  <2>3. PICK sum \in Int, wanted \in Int : sum = nums[left] + nums[right] /\ wanted = input[2]
    BY <1>1, <2>2
  <2>4. CASE sum = wanted
    <3>1. Return(<<left, right>>)
      BY <1>5, <1>4, <2>3, <2>4 DEF TwoSumTurn
    <3>2. <<left, right>> \in pairs
      BY <1>5, <2>2, <2>3, <2>4 DEF PairsWith
    <3> QED BY <1>1, <1>2, <1>5, <3>1, <3>2 DEF TwoSumInv, Return
  <2>5. CASE sum < wanted
    <3>1. Step(output, left + 1, right)
      BY <1>5, <1>4, <2>3, <2>5 DEF TwoSumTurn
    <3>2. \A p \in pairs : left + 1 <= p[1]
      BY <1>1, <2>2, <2>3, <2>5, PairsLeft
    <3> QED BY <1>1, <1>2, <1>5, <3>1, <3>2 DEF TwoSumInv, Step
  <2>6. CASE sum > wanted
    <3>1. Step(output, left, right - 1)
      BY <1>5, <1>4, <2>3, <2>6 DEF TwoSumTurn
    <3>2. \A p \in pairs : p[2] <= right - 1
      BY <1>1, <2>2, <2>3, <2>6, PairsLeft
    <3> QED BY <1>1, <1>2, <1>5, <3>1, <3>2 DEF TwoSumInv, Step
  <2> QED BY <2>4, <2>5, <2>6
<1> QED BY <1>1, <1>3, <1>5

LEMMA TwoSumRight == TwoSumInv => ListsRight
<1> SUFFICES ASSUME TwoSumInv PROVE ListsRight
  OBVIOUS
<1>1. fn = "twoSum" /\ loop # "for ever"
  BY DEF TwoSumInv
<1>2. turns <= Len(input[1]) + 1
  BY SortedAre DEF TwoSumInv
<1>3. loop = "returned" => AsAsked
  BY DEF AsAsked, TwoSumInv
<1> QED BY <1>1, <1>2, <1>3 DEF ListsRight, Budget

-----------------------------------------------------------------------------
(* findFromEnd: the pointers are k apart.                                  *)

FindInv ==
    LET n == input[1]  k == input[2]
    IN /\ fn = "findFromEnd" /\ loop \in {"ahead", "both", "returned"}
       /\ n \in Nat /\ k \in 1..(n - 1)
       /\ loop = "ahead" =>
            /\ left = 1 /\ locals \in 0..k /\ right = 1 + k - locals /\ turns = right - 1
       /\ loop = "both" =>
            /\ left \in Nat /\ right \in Nat /\ right = left + k /\ right <= n
            /\ turns = right
       /\ loop = "returned" => output = n - k + 1 /\ turns = n + 1

LEMMA FindStarts ==
    ASSUME FindFromEnd, turns' = 0
    PROVE  FindInv'
<1> PICK n \in 2..MaxLen : \E k \in 1..(n - 1) :
        Call("findFromEnd", <<n, k>>, "ahead", Null, 1, 1, k)
  BY DEF FindFromEnd
<1> PICK k \in 1..(n - 1) :
        Call("findFromEnd", <<n, k>>, "ahead", Null, 1, 1, k)
  OBVIOUS
<1>1. n \in Nat
  BY ListsAssumption
<1> QED BY <1>1 DEF FindInv, Call

LEMMA AheadKeeps ==
    ASSUME FindInv, Ahead, Kept
    PROVE  FindInv'
<1>1. /\ fn = "findFromEnd" /\ loop = "ahead" /\ input[1] \in Nat /\ input[2] \in 1..(input[1] - 1)
      /\ left = 1 /\ locals \in 0..input[2] /\ right = 1 + input[2] - locals
      /\ turns = right - 1
  BY DEF FindInv, Ahead
<1>2. fn' = fn /\ input' = input /\ turns' = turns + 1
  BY DEF Kept
<1>3. CASE locals = 0
  <2>1. Goto("both")
    BY <1>3 DEF Ahead
  <2> QED BY <1>1, <1>2, <1>3, <2>1 DEF FindInv, Goto
<1>4. CASE locals # 0
  <2>1. right' = right + 1 /\ locals' = locals - 1 /\ UNCHANGED <<loop, output, left>>
    BY <1>4 DEF Ahead
  <2> QED BY <1>1, <1>2, <1>4, <2>1 DEF FindInv
<1> QED BY <1>3, <1>4

LEMMA BothKeeps ==
    ASSUME FindInv, Both, Kept
    PROVE  FindInv'
<1>1. /\ fn = "findFromEnd" /\ loop = "both" /\ input[1] \in Nat /\ input[2] \in 1..(input[1] - 1)
      /\ left \in Nat /\ right \in Nat /\ right = left + input[2] /\ right <= input[1]
      /\ turns = right
  BY DEF FindInv, Both
<1>2. fn' = fn /\ input' = input /\ turns' = turns + 1
  BY DEF Kept
<1>3. CASE right < input[1]
  <2>1. Step(output, left + 1, right + 1)
    BY <1>3 DEF Both
  <2> QED BY <1>1, <1>2, <1>3, <2>1 DEF FindInv, Step
<1>4. CASE ~(right < input[1])
  <2>1. Return(left + 1)
    BY <1>4 DEF Both
  <2> QED BY <1>1, <1>2, <1>4, <2>1 DEF FindInv, Return
<1> QED BY <1>3, <1>4

LEMMA FindRight == FindInv => ListsRight
<1> SUFFICES ASSUME FindInv PROVE ListsRight
  OBVIOUS
<1>1. fn = "findFromEnd" /\ loop # "for ever"
  BY DEF FindInv
<1>2. turns <= input[1] + 1
  BY DEF FindInv
<1>3. ASSUME loop = "returned" PROVE AsAsked
  <2>1. PICK n, k : /\ n \in Nat /\ k \in 1..(n - 1)
                    /\ n = input[1] /\ k = input[2] /\ output = n - k + 1
    BY <1>3 DEF FindInv
  <2>2. Cardinality((n - k + 1)..n) = k
    <3>1. /\ n - k + 1 \in Int /\ n \in Int /\ ~(n - k + 1 > n)
          /\ n - (n - k + 1) + 1 = k
      BY <2>1
    <3> QED BY <3>1, FS_Interval
  <2> QED BY <1>1, <2>1, <2>2 DEF AsAsked
<1> QED BY <1>1, <1>2, <1>3 DEF ListsRight, Budget

-----------------------------------------------------------------------------
(* reverseString, reverse and isPalindrome: what is outside left..right is *)
(* done.                                                                   *)

ReversingInv ==
    LET n == Len(input)
    IN /\ fn \in {"reverseString", "reverse", "isPalindrome"}
       /\ input \in Vectors /\ left \in Nat /\ 1 <= left
       /\ loop = "exchange" =>
            /\ fn = "reverseString" /\ right = n + 1 - left /\ left <= right + 1
            /\ output \in [1..n -> Values]
            /\ \A i \in 1..n : output[i] = IF left <= i /\ i <= right THEN input[i]
                                           ELSE input[n + 1 - i]
            /\ turns = left - 1
       /\ loop = "relink" =>
            /\ fn = "reverse" /\ left <= n + 1
            /\ output \in [1..(left - 1) -> Values]
            /\ \A i \in 1..(left - 1) : output[i] = input[left - i]
            /\ turns = left - 1
       /\ loop = "compare" =>
            /\ fn = "isPalindrome" /\ right = n + 1 - left /\ left <= right + 1
            /\ \A i \in 1..n : i < left \/ right < i => input[i] = input[n + 1 - i]
            /\ turns = left - 1
       /\ loop \in {"exchange", "relink", "compare", "returned"}
       /\ loop = "returned" =>
            /\ fn = "isPalindrome" => output = (input = Reverse(input))
            /\ fn # "isPalindrome" => output = Reverse(input)
            /\ turns \in Nat /\ turns <= n + 1

LEMMA ReversedIs ==
    ASSUME NEW s \in Vectors
    PROVE  /\ Reverse(s) \in [1..Len(s) -> Values]
           /\ \A i \in 1..Len(s) : Reverse(s)[i] = s[Len(s) + 1 - i]
           /\ s \in [1..Len(s) -> Values]
<1>1. s \in Seq(Values) /\ Len(s) \in Nat
  BY VectorsAre
<1>2. s \in [1..Len(s) -> Values]
  BY <1>1, LenProperties
<1>3. \A i \in 1..Len(s) : Len(s) + 1 - i = Len(s) - i + 1 /\ Len(s) - i + 1 \in 1..Len(s)
  BY <1>1
<1> QED BY <1>1, <1>2, <1>3 DEF Reverse

LEMMA ReversingStarts ==
    ASSUME Reversing, turns' = 0
    PROVE  ReversingInv'
<1> PICK s \in Vectors :
        \/ Call("reverseString", s, "exchange", s, 1, Len(s), <<>>)
        \/ Call("reverse", s, "relink", <<>>, 1, 0, <<>>)
        \/ Call("isPalindrome", s, "compare", Null, 1, Len(s), <<>>)
  BY DEF Reversing
<1>1. Len(s) \in Nat /\ s \in [1..Len(s) -> Values]
  BY VectorsAre, ReversedIs
<1>2. CASE Call("reverseString", s, "exchange", s, 1, Len(s), <<>>)
  BY <1>1, <1>2 DEF ReversingInv, Call
<1>3. CASE Call("reverse", s, "relink", <<>>, 1, 0, <<>>)
  <2>1. <<>> \in [1..0 -> Values]
    OBVIOUS
  <2> QED BY <1>1, <1>3, <2>1 DEF ReversingInv, Call
<1>4. CASE Call("isPalindrome", s, "compare", Null, 1, Len(s), <<>>)
  BY <1>1, <1>4 DEF ReversingInv, Call
<1> QED BY <1>2, <1>3, <1>4

LEMMA ExchangeKeeps ==
    ASSUME ReversingInv, Exchange, Kept
    PROVE  ReversingInv'
<1> DEFINE n == Len(input)
<1>1. /\ fn = "reverseString" /\ loop = "exchange" /\ input \in Vectors
      /\ left \in Nat /\ 1 <= left /\ right = n + 1 - left /\ left <= right + 1
      /\ output \in [1..n -> Values] /\ turns = left - 1
  BY DEF ReversingInv, Exchange
<1>2. \A i \in 1..n : output[i] = IF left <= i /\ i <= right THEN input[i] ELSE input[n + 1 - i]
  BY DEF ReversingInv, Exchange
<1>3. n \in Nat /\ fn' = fn /\ input' = input /\ turns' = turns + 1
  BY <1>1, VectorsAre DEF Kept
<1>4. left \in Int /\ right \in Int
  BY <1>1, <1>3
<1>5. CASE left < right
  <2>1. Step(Swapped(output, left, right), left + 1, right - 1)
    BY <1>5 DEF Exchange
  <2>2. left \in 1..n /\ right \in 1..n
    BY <1>1, <1>3, <1>5
  <2>3. /\ output' \in [1..n -> Values]
        /\ \A i \in 1..n : output'[i] = IF i = right THEN output[left]
                                        ELSE IF i = left THEN output[right] ELSE output[i]
    BY <1>1, <2>1, <2>2 DEF Step, Swapped
  <2>4. output[left] = input[left] /\ output[right] = input[right]
    BY <1>2, <1>4, <1>5, <2>2
  <2>5. \A i \in 1..n : output'[i] = IF left + 1 <= i /\ i <= right - 1 THEN input[i]
                                     ELSE input[n + 1 - i]
    <3> TAKE i \in 1..n
    <3>1. n + 1 - right = left /\ n + 1 - left = right
      BY <1>1, <1>3
    <3>2. CASE i = right
      BY <1>3, <1>4, <1>5, <2>3, <2>4, <3>1, <3>2
    <3>3. CASE i = left
      BY <1>3, <1>4, <1>5, <2>3, <2>4, <3>1, <3>3
    <3>4. CASE i # left /\ i # right
      BY <1>2, <1>3, <1>4, <1>5, <2>3, <3>4
    <3> QED BY <3>2, <3>3, <3>4
  <2>6. right - 1 = n + 1 - (left + 1) /\ left + 1 <= right - 1 + 1
    BY <1>1, <1>3, <1>5
  <2> QED BY <1>1, <1>3, <2>1, <2>3, <2>5, <2>6 DEF ReversingInv, Step
<1>6. CASE ~(left < right)
  <2>1. Return(output)
    BY <1>6 DEF Exchange
  <2>2. \A i \in 1..n : output[i] = input[n + 1 - i]
    <3> TAKE i \in 1..n
    <3>1. CASE i = left /\ i = right
      BY <1>1, <1>2, <1>3, <3>1
    <3>2. CASE ~(i = left /\ i = right)
      BY <1>2, <1>3, <1>4, <1>6, <3>2
    <3> QED BY <3>1, <3>2
  <2>3. output = Reverse(input)
    <3>1. /\ Reverse(input) \in [1..n -> Values]
          /\ \A i \in 1..n : Reverse(input)[i] = input[n + 1 - i]
      BY <1>1, ReversedIs
    <3>2. output \in [1..n -> Values]
      BY <1>1
    <3>3. \A i \in 1..n : output[i] = Reverse(input)[i]
      BY <2>2, <3>1
    <3> QED BY <3>1, <3>2, <3>3
  <2> QED BY <1>1, <1>3, <2>1, <2>3 DEF ReversingInv, Return
<1> QED BY <1>5, <1>6

LEMMA RelinkKeeps ==
    ASSUME ReversingInv, Relink, Kept
    PROVE  ReversingInv'
<1> DEFINE n == Len(input)
<1>1. /\ fn = "reverse" /\ loop = "relink" /\ input \in Vectors
      /\ left \in Nat /\ 1 <= left /\ left <= n + 1
      /\ output \in [1..(left - 1) -> Values] /\ turns = left - 1
  BY DEF ReversingInv, Relink
<1>2. \A i \in 1..(left - 1) : output[i] = input[left - i]
  BY DEF ReversingInv, Relink
<1>3. n \in Nat /\ fn' = fn /\ input' = input /\ turns' = turns + 1
  BY <1>1, VectorsAre DEF Kept
<1>4. CASE left <= n
  <2>1. Step(<<input[left]>> \o output, left + 1, right)
    BY <1>4 DEF Relink
  <2>2. input[left] \in Values /\ left - 1 \in Nat
    BY <1>1, <1>3, <1>4, VectorsAre
  <2>3. output \in Seq(Values) /\ <<input[left]>> \in Seq(Values) /\ Len(<<input[left]>>) = 1
    BY <1>1, <2>2, SeqDef
  <2>4. Len(output) = left - 1
    BY <1>1, <2>2, <2>3, LenProperties
  <2>5. /\ output' \in Seq(Values) /\ Len(output') = left
        /\ \A i \in 1..left : output'[i] = IF i <= 1 THEN input[left] ELSE output[i - 1]
    BY <1>1, <2>1, <2>3, <2>4, ConcatProperties DEF Step
  <2>6. output' \in [1..left -> Values]
    BY <2>5, LenProperties
  <2>7. \A i \in 1..left : output'[i] = input[left + 1 - i]
    <3> TAKE i \in 1..left
    <3>1. CASE i = 1
      BY <1>1, <2>5, <3>1
    <3>2. CASE i # 1
      <4>1. i - 1 \in 1..(left - 1) /\ left - (i - 1) = left + 1 - i
        BY <1>1, <3>2
      <4> QED BY <1>2, <2>5, <3>2, <4>1
    <3> QED BY <3>1, <3>2
  <2>8. /\ left' = left + 1 /\ loop' = "relink" /\ left' \in Nat /\ 1 <= left' /\ left' <= n + 1
        /\ turns' = left' - 1 /\ left' - 1 = left
    BY <1>1, <1>3, <1>4, <2>1 DEF Step
  <2>9. /\ output' \in [1..(left' - 1) -> Values]
        /\ \A i \in 1..(left' - 1) : output'[i] = input'[left' - i]
    BY <1>3, <2>6, <2>7, <2>8
  <2> QED BY <1>1, <1>3, <2>8, <2>9 DEF ReversingInv
<1>5. CASE ~(left <= n)
  <2>1. Return(output)
    BY <1>5 DEF Relink
  <2>2. left = n + 1
    BY <1>1, <1>3, <1>5
  <2>3. output \in [1..n -> Values] /\ \A i \in 1..n : output[i] = input[n + 1 - i]
    BY <1>1, <1>2, <1>3, <2>2
  <2>4. output = Reverse(input)
    <3>1. /\ Reverse(input) \in [1..n -> Values]
          /\ \A i \in 1..n : Reverse(input)[i] = input[n + 1 - i]
      BY <1>1, ReversedIs
    <3> QED BY <2>3, <3>1
  <2> QED BY <1>1, <1>3, <2>1, <2>2, <2>4 DEF ReversingInv, Return
<1> QED BY <1>4, <1>5

LEMMA CompareKeeps ==
    ASSUME ReversingInv, Compare, Kept
    PROVE  ReversingInv'
<1> DEFINE n == Len(input)
<1>1. /\ fn = "isPalindrome" /\ loop = "compare" /\ input \in Vectors
      /\ left \in Nat /\ 1 <= left /\ right = n + 1 - left /\ left <= right + 1
      /\ turns = left - 1
  BY DEF ReversingInv, Compare
<1>2. \A i \in 1..n : i < left \/ right < i => input[i] = input[n + 1 - i]
  BY DEF ReversingInv, Compare
<1>3. n \in Nat /\ fn' = fn /\ input' = input /\ turns' = turns + 1
  BY <1>1, VectorsAre DEF Kept
<1>4. left \in Int /\ right \in Int
  BY <1>1, <1>3
<1>5. CASE left >= right
  <2>1. Return(TRUE)
    BY <1>5 DEF Compare
  <2>2. \A i \in 1..n : input[i] = input[n + 1 - i]
    <3> TAKE i \in 1..n
    <3>1. CASE i = left /\ i = right
      BY <1>1, <1>3, <3>1
    <3>2. CASE ~(i = left /\ i = right)
      BY <1>2, <1>3, <1>4, <1>5, <3>2
    <3> QED BY <3>1, <3>2
  <2>3. input = Reverse(input)
    BY <1>1, <2>2, ReversedIs
  <2>4. output' = (input' = Reverse(input'))
    BY <1>3, <2>1, <2>3, Zenon DEF Return
  <2> QED BY <1>1, <1>3, <2>1, <2>4 DEF ReversingInv, Return
<1>6. CASE left < right /\ input[left] # input[right]
  <2>1. ~(left >= right)
    BY <1>4, <1>6
  <2>2. Return(FALSE)
    BY <2>1, <1>6, Zenon DEF Compare
  <2>3. left \in 1..n /\ Reverse(input)[left] = input[n + 1 - left] /\ n + 1 - left = right
    BY <1>1, <1>3, <1>6, ReversedIs
  <2>4. input # Reverse(input)
    BY <1>6, <2>3
  <2>5. output' = (input' = Reverse(input'))
    BY <1>3, <2>2, <2>4, Zenon DEF Return
  <2> QED BY <1>1, <1>3, <2>2, <2>5 DEF ReversingInv, Return
<1>7. CASE left < right /\ input[left] = input[right]
  <2>1. ~(left >= right)
    BY <1>4, <1>7
  <2>2. Step(output, left + 1, right - 1)
    BY <2>1, <1>7, Zenon DEF Compare
  <2>3. \A i \in 1..n : i < left + 1 \/ right - 1 < i => input[i] = input[n + 1 - i]
    <3> TAKE i \in 1..n
    <3>1. n + 1 - right = left /\ n + 1 - left = right
      BY <1>1, <1>3
    <3>2. CASE i = right \/ i = left
      BY <1>3, <1>4, <1>7, <3>1, <3>2
    <3>3. CASE i # left /\ i # right
      BY <1>2, <1>3, <1>4, <1>7, <3>3
    <3> QED BY <3>2, <3>3
  <2>4. right - 1 = n + 1 - (left + 1) /\ left + 1 <= right - 1 + 1
    BY <1>1, <1>3, <1>7
  <2> QED BY <1>1, <1>3, <2>2, <2>3, <2>4 DEF ReversingInv, Step
<1> QED BY <1>4, <1>5, <1>6, <1>7

LEMMA ReversingRight == ReversingInv => ListsRight
<1> SUFFICES ASSUME ReversingInv PROVE ListsRight
  OBVIOUS
<1>1. fn \in {"reverseString", "reverse", "isPalindrome"} /\ loop # "for ever"
  BY DEF ReversingInv
<1>2. turns <= Len(input) + 1
  BY VectorsAre DEF ReversingInv
<1>3. loop = "returned" => AsAsked
  BY DEF AsAsked, ReversingInv
<1> QED BY <1>1, <1>2, <1>3 DEF ListsRight, Budget

-----------------------------------------------------------------------------
(* removeDulpicates: the values up to right have been kept once each.      *)

\* The first k of out are the first r of s without repetition.
Once(s, out, k, r) ==
    /\ \A i, j \in 1..k : i < j => out[i] < out[j]
    /\ \A i \in 1..k : \E m \in 1..r : out[i] = s[m]
    /\ \A m \in 1..r : \E i \in 1..k : out[i] = s[m]

RemoveInv ==
    LET n == Len(input)
    IN /\ fn = "removeDulpicates" /\ input \in SortedVectors
       /\ loop \in {"array", "list"} =>
            left \in 1..n /\ right \in Nat /\ left <= right /\ turns = right - 1
       /\ loop = "array" =>
            /\ right <= n + 1
            /\ output \in [1..n -> Values]
            /\ Once(input, output, left, IF right = 1 THEN 1 ELSE right - 1)
            /\ \A i \in right..n : output[i] = input[i]
       /\ loop = "list" =>
            /\ right <= n
            /\ output \in Seq(Values) /\ Len(output) >= 1
            /\ Once(input, output, Len(output), right)
            /\ output[Len(output)] = input[left]
       /\ loop \in {"array", "list", "returned"}
       /\ loop = "returned" => Distinct(input, output) /\ turns \in Nat /\ turns <= n + 1

LEMMA OnceSame ==
    ASSUME NEW s, NEW out, NEW k, NEW r, Once(s, out, k, r),
           NEW other, \A i \in 1..k : other[i] = out[i]
    PROVE  Once(s, other, k, r)
<1>1. \A i, j \in 1..k : i < j => other[i] < other[j]
  BY DEF Once
<1>2. \A i \in 1..k : \E m \in 1..r : other[i] = s[m]
  BY DEF Once
<1>3. \A m \in 1..r : \E i \in 1..k : other[i] = s[m]
  BY DEF Once
<1> QED BY <1>1, <1>2, <1>3 DEF Once

LEMMA OnceStill ==
    ASSUME NEW s, NEW out, NEW k \in Nat, k >= 1, NEW r \in Nat,
           Once(s, out, k, r), out[k] = s[r + 1]
    PROVE  Once(s, out, k, r + 1)
<1>1. k \in 1..k /\ \A m \in 1..(r + 1) : m \in 1..r \/ m = r + 1
  OBVIOUS
<1>2. \A m \in 1..r : m \in 1..(r + 1)
  OBVIOUS
<1>3. r + 1 \in 1..(r + 1)
  OBVIOUS
<1> QED BY <1>1, <1>2, <1>3 DEF Once

LEMMA OnceMore ==
    ASSUME NEW s \in SortedVectors, NEW out, NEW more, NEW k \in Nat, k >= 1, NEW r \in Nat,
           Once(s, out, k, r), r + 1 \in 1..Len(s), out[k] # s[r + 1],
           \A i \in 1..k : more[i] = out[i], more[k + 1] = s[r + 1]
    PROVE  Once(s, more, k + 1, r + 1)
<1>1. /\ k \in 1..k /\ \A m \in 1..(r + 1) : m \in 1..r \/ m = r + 1
      /\ \A i \in 1..(k + 1) : i \in 1..k \/ i = k + 1
  OBVIOUS
<1>2. \A i \in 1..k : i \in 1..(k + 1) /\ k + 1 \in 1..(k + 1)
  OBVIOUS
<1>3. \A m \in 1..r : m \in 1..(r + 1) /\ r + 1 \in 1..(r + 1)
  OBVIOUS
<1>4. \A i \in 1..k : out[i] < s[r + 1]
  <2> TAKE i \in 1..k
  <2>1. PICK m \in 1..r : out[k] = s[m]
    BY <1>1 DEF Once
  <2>2. PICK l \in 1..r : out[i] = s[l]
    BY DEF Once
  <2>3. /\ m \in 1..Len(s) /\ l \in 1..Len(s) /\ m <= r + 1
    BY SortedAre
  <2>4. s[m] \in Int /\ s[l] \in Int /\ s[r + 1] \in Int /\ s[m] <= s[r + 1]
    BY <2>3, SortedAre
  <2>5. s[m] < s[r + 1]
    BY <2>1, <2>4
  <2>6. CASE i = k
    BY <2>1, <2>5, <2>6
  <2>7. CASE i < k
    <3>1. out[i] < out[k]
      BY <1>1, <2>7 DEF Once
    <3> QED BY <2>1, <2>2, <2>4, <2>5, <3>1
  <2> QED BY <2>6, <2>7
<1>5. ASSUME NEW i \in 1..(k + 1), NEW j \in 1..(k + 1), i < j PROVE more[i] < more[j]
  <2>1. i \in 1..k
    BY <1>5
  <2>2. CASE j = k + 1
    BY <1>4, <2>1, <2>2
  <2>3. CASE j # k + 1
    <3>1. j \in 1..k
      BY <2>3
    <3> QED BY <1>5, <2>1, <3>1 DEF Once
  <2> QED BY <2>2, <2>3
<1>6. ASSUME NEW i \in 1..(k + 1) PROVE \E m \in 1..(r + 1) : more[i] = s[m]
  BY <1>1, <1>3 DEF Once
<1>7. ASSUME NEW m \in 1..(r + 1) PROVE \E i \in 1..(k + 1) : more[i] = s[m]
  BY <1>1, <1>2 DEF Once
<1> QED BY <1>5, <1>6, <1>7 DEF Once

LEMMA OnceIsDistinct ==
    ASSUME NEW s \in SortedVectors, NEW t \in Seq(Values), Once(s, t, Len(t), Len(s))
    PROVE  Distinct(s, t)
<1>1. DOMAIN s = 1..Len(s) /\ DOMAIN t = 1..Len(t)
  BY SortedAre, LenProperties
<1>2. ASSUME NEW c \in ToSet(t) PROVE c \in ToSet(s)
  <2>1. PICK i \in 1..Len(t) : c = t[i]
    BY <1>1, <1>2 DEF ToSet
  <2>2. PICK m \in 1..Len(s) : t[i] = s[m]
    BY DEF Once
  <2> QED BY <1>1, <2>1, <2>2 DEF ToSet
<1>3. ASSUME NEW c \in ToSet(s) PROVE c \in ToSet(t)
  <2>1. PICK m \in 1..Len(s) : c = s[m]
    BY <1>1, <1>3 DEF ToSet
  <2>2. PICK i \in 1..Len(t) : t[i] = s[m]
    BY DEF Once
  <2> QED BY <1>1, <2>1, <2>2 DEF ToSet
<1>4. \A i, j \in DOMAIN t : i < j => t[i] < t[j]
  BY <1>1 DEF Once
<1> QED BY <1>2, <1>3, <1>4 DEF Distinct

LEMMA RemoveStarts ==
    ASSUME RemoveDulpicates, turns' = 0
    PROVE  RemoveInv'
<1> PICK s \in SortedVectors :
        IF s = <<>> THEN Call("removeDulpicates", s, "returned", s, 1, 1, <<>>)
        ELSE \/ Call("removeDulpicates", s, "array", s, 1, 1, <<>>)
             \/ Call("removeDulpicates", s, "list", <<s[1]>>, 1, 1, <<>>)
  BY DEF RemoveDulpicates
<1>1. Len(s) \in Nat /\ s \in Seq(Values) /\ Distinct(<<>>, <<>>)
  BY SortedAre DEF Distinct, ToSet
<1>2. CASE s = <<>>
  <2>1. Call("removeDulpicates", s, "returned", s, 1, 1, <<>>)
    BY <1>2
  <2> QED BY <1>1, <1>2, <2>1 DEF RemoveInv, Call
<1>3. CASE s # <<>>
  <2>1. Len(s) \in Nat /\ 1 <= Len(s) /\ s \in [1..Len(s) -> Values]
    BY <1>1, <1>3, EmptySeq, LenProperties
  <2>2. s[1] \in Values
    BY <2>1
  <2>3. <<s[1]>> \in Seq(Values) /\ Len(<<s[1]>>) = 1 /\ <<s[1]>>[1] = s[1]
    BY <2>2
  <2>4. Once(s, s, 1, 1) /\ Once(s, <<s[1]>>, 1, 1)
    BY <2>3 DEF Once
  <2>5. CASE Call("removeDulpicates", s, "array", s, 1, 1, <<>>)
    BY <2>1, <2>4, <2>5 DEF RemoveInv, Call
  <2>6. CASE Call("removeDulpicates", s, "list", <<s[1]>>, 1, 1, <<>>)
    BY <2>1, <2>3, <2>4, <2>6 DEF RemoveInv, Call
  <2> QED BY <1>3, <2>5, <2>6
<1> QED BY <1>2, <1>3

LEMMA ArrayKeeps ==
    ASSUME RemoveInv, ArrayTurn, Kept
    PROVE  RemoveInv'
<1> DEFINE n == Len(input)
           done == IF right = 1 THEN 1 ELSE right - 1
<1>1. /\ fn = "removeDulpicates" /\ loop = "array" /\ input \in SortedVectors
      /\ left \in 1..n /\ right \in Nat /\ left <= right /\ turns = right - 1
      /\ right <= n + 1 /\ output \in [1..n -> Values]
  BY DEF RemoveInv, ArrayTurn
<1>2. Once(input, output, left, done) /\ \A i \in right..n : output[i] = input[i]
  BY DEF RemoveInv, ArrayTurn
<1>3. n \in Nat /\ fn' = fn /\ input' = input /\ turns' = turns + 1
  BY <1>1, SortedAre DEF Kept
<1>4. left \in Nat /\ right >= 1 /\ left >= 1
  BY <1>1, <1>3
<1>5. CASE right > n
  <2>1. Return(SubSeq(output, 1, left))
    BY <1>5 DEF ArrayTurn
  <2>2. right = n + 1 /\ done = n
    BY <1>1, <1>3, <1>5
  <2>3. \A i \in 1..left : output[i] \in Values
    BY <1>1, <1>3
  <2>4. /\ output' \in Seq(Values) /\ Len(output') = left
        /\ \A i \in 1..left : output'[i] = output[i]
    BY <1>1, <1>4, <2>1, <2>3, SubSeqProperties DEF Return
  <2>5. Once(input, output', left, n)
    <3>1. Once(input, output, left, n)
      BY <1>2, <2>2
    <3> QED BY <2>4, <3>1, OnceSame
  <2>6. Distinct(input', output')
    BY <1>1, <1>3, <2>4, <2>5, OnceIsDistinct
  <2> QED BY <1>1, <1>3, <2>1, <2>2, <2>6 DEF RemoveInv, Return
<1>6. CASE right <= n /\ output[right] = output[left]
  <2>1. Step(output, left, right + 1)
    BY <1>1, <1>3, <1>6 DEF ArrayTurn
  <2>2. output[left] = input[right]
    BY <1>1, <1>2, <1>3, <1>6
  <2>3. Once(input, output, left, right)
    <3>1. CASE right = 1
      BY <1>2, <3>1
    <3>2. CASE right # 1
      <4>1. done = right - 1 /\ right - 1 \in Nat /\ right - 1 + 1 = right
        BY <1>4, <1>1, <3>2
      <4> QED BY <1>2, <1>4, <2>2, <4>1, OnceStill
    <3> QED BY <3>1, <3>2
  <2>4. right' = right + 1 /\ right' # 1 /\ right' - 1 = right
    BY <1>1, <1>4, <2>1 DEF Step
  <2>5. \A i \in (right + 1)..n : output[i] = input[i]
    BY <1>1, <1>2, <1>3
  <2> QED BY <1>1, <1>3, <1>6, <2>1, <2>3, <2>4, <2>5 DEF RemoveInv, Step
<1>7. CASE right <= n /\ output[right] # output[left]
  <2>1. Step([output EXCEPT ![left + 1] = output[right]], left + 1, right + 1)
    BY <1>1, <1>3, <1>7 DEF ArrayTurn
  <2>2. right # left /\ left < right /\ right # 1 /\ output[right] = input[right]
    BY <1>1, <1>2, <1>3, <1>4, <1>7
  <2>3. /\ done = right - 1 /\ right - 1 \in Nat /\ right - 1 + 1 = right /\ right \in 1..n
        /\ left + 1 \in 1..n
    BY <1>1, <1>3, <1>4, <1>7, <2>2
  <2>4. /\ output' \in [1..n -> Values] /\ output'[left + 1] = input[right]
        /\ \A i \in 1..n : i # left + 1 => output'[i] = output[i]
    BY <1>1, <2>1, <2>2, <2>3 DEF Step
  <2>5. \A i \in 1..left : output'[i] = output[i]
    BY <1>1, <1>3, <2>4
  <2>6. Once(input, output', left + 1, right)
    BY <1>1, <1>2, <1>4, <1>7, <2>2, <2>3, <2>4, <2>5, OnceMore
  <2>7. \A i \in (right + 1)..n : output'[i] = input[i]
    <3> TAKE i \in (right + 1)..n
    <3>1. i \in 1..n /\ i # left + 1 /\ i \in right..n
      BY <1>1, <1>3, <1>4, <2>2
    <3> QED BY <1>2, <2>4, <3>1
  <2>8. right' = right + 1 /\ right' # 1 /\ right' - 1 = right /\ left + 1 <= right + 1
    BY <1>1, <1>3, <1>4, <2>1 DEF Step
  <2> QED BY <1>1, <1>3, <1>7, <2>1, <2>3, <2>4, <2>6, <2>7, <2>8 DEF RemoveInv, Step
<1>8. right > n \/ right <= n
  BY <1>1, <1>3
<1> QED BY <1>5, <1>6, <1>7, <1>8

LEMMA ListKeeps ==
    ASSUME RemoveInv, ListTurn, Kept
    PROVE  RemoveInv'
<1> DEFINE n == Len(input)
<1>1. /\ fn = "removeDulpicates" /\ loop = "list" /\ input \in SortedVectors
      /\ left \in 1..n /\ right \in Nat /\ left <= right /\ turns = right - 1 /\ right <= n
      /\ output \in Seq(Values) /\ Len(output) >= 1
  BY DEF RemoveInv, ListTurn
<1>2. Once(input, output, Len(output), right) /\ output[Len(output)] = input[left]
  BY DEF RemoveInv, ListTurn
<1>3. n \in Nat /\ fn' = fn /\ input' = input /\ turns' = turns + 1 /\ Len(output) \in Nat
  BY <1>1, SortedAre, LenProperties DEF Kept
<1>4. CASE right = n
  <2>1. Return(output)
    BY <1>4 DEF ListTurn
  <2>2. Distinct(input', output')
    BY <1>1, <1>2, <1>3, <1>4, <2>1, OnceIsDistinct DEF Return
  <2> QED BY <1>1, <1>3, <2>1, <2>2 DEF RemoveInv, Return
<1>5. CASE right # n /\ input[right + 1] = input[left]
  <2>1. Step(output, left, right + 1)
    BY <1>5 DEF ListTurn
  <2>2. Once(input, output, Len(output), right + 1)
    BY <1>1, <1>2, <1>3, <1>5, OnceStill
  <2>3. right + 1 <= n /\ right + 1 \in Nat /\ left <= right + 1
    BY <1>1, <1>3, <1>5
  <2> QED BY <1>1, <1>2, <1>3, <2>1, <2>2, <2>3 DEF RemoveInv, Step
<1>6. CASE right # n /\ input[right + 1] # input[left]
  <2>1. Step(Append(output, input[right + 1]), right + 1, right + 1)
    BY <1>6 DEF ListTurn
  <2>2. right + 1 \in 1..n
    BY <1>1, <1>3, <1>6
  <2>3. input[right + 1] \in Values
    BY <1>1, <2>2, SortedAre
  <2>4. /\ output' \in Seq(Values) /\ Len(output') = Len(output) + 1
        /\ \A i \in 1..Len(output) : output'[i] = output[i]
        /\ output'[Len(output) + 1] = input[right + 1]
    BY <1>1, <2>1, <2>3, AppendProperties DEF Step
  <2>5. Once(input, output', Len(output) + 1, right + 1)
    BY <1>1, <1>2, <1>3, <1>6, <2>2, <2>4, OnceMore
  <2> QED BY <1>1, <1>3, <2>1, <2>2, <2>4, <2>5 DEF RemoveInv, Step
<1> QED BY <1>4, <1>5, <1>6

LEMMA RemoveRight == RemoveInv => ListsRight
<1> SUFFICES ASSUME RemoveInv PROVE ListsRight
  OBVIOUS
<1>1. fn = "removeDulpicates" /\ loop # "for ever"
  BY DEF RemoveInv
<1>2. turns <= Len(input) + 1
  BY SortedAre DEF RemoveInv
<1>3. loop = "returned" => AsAsked
  BY DEF AsAsked, RemoveInv
<1> QED BY <1>1, <1>2, <1>3 DEF ListsRight, Budget

-----------------------------------------------------------------------------
(* hasCycle and detectCycle: the nodes in order end at the end of the list *)
(* or come back to one of them.                                            *)

Nodes == 1..MaxLen
Nexts == [Nodes -> Nodes \union {Null}]

\* The first n nodes, all different.
Way(next, n, q) ==
    /\ q[1] = 1
    /\ \A i, j \in 1..n : q[i] = q[j] => i = j
    /\ \A i \in 1..(n - 1) : q[i + 1] = next[q[i]]

Line(next, n, q) ==
    n \in Nodes /\ q \in [1..n -> Nodes] /\ Way(next, n, q) /\ next[q[n]] = Null

Lasso(next, n, q, e) ==
    /\ n \in Nodes /\ q \in [1..n -> Nodes] /\ Way(next, n, q)
    /\ e \in 1..n /\ next[q[n]] = q[e]

LEMMA WayIs ==
    ASSUME NEW next, NEW n \in Nat, NEW q \in [1..n -> Nodes]
    PROVE  Path(next, q) <=> Way(next, n, q)
<1>1. q \in Seq(Nodes)
  BY SeqDef
<1>2. DOMAIN q = 1..n /\ Len(q) = n
  BY <1>1, LenProperties
<1> QED BY <1>2 DEF Path, Way

\* There are not more nodes on the way than there are.
LEMMA WayIsShort ==
    ASSUME NEW next, NEW n \in Nat, NEW q \in [1..n -> Nodes], Way(next, n, q)
    PROVE  n <= MaxLen
<1>1. MaxLen \in Nat
  BY ListsAssumption
<1>2. IsFiniteSet(1..n) /\ Cardinality(1..n) = n
  <2>1. IsFiniteSet(1..n) /\ Cardinality(1..n) = IF 1 > n THEN 0 ELSE n - 1 + 1
    BY FS_Interval
  <2> QED BY <2>1
<1>3. IsFiniteSet(Nodes) /\ Cardinality(Nodes) = MaxLen
  <2>1. /\ IsFiniteSet(1..MaxLen)
        /\ Cardinality(1..MaxLen) = IF 1 > MaxLen THEN 0 ELSE MaxLen - 1 + 1
    BY <1>1, FS_Interval
  <2> QED BY <1>1, <2>1 DEF Nodes
<1>4. q \in Injection(1..n, Nodes)
  BY DEF Way, Injection, IsInjective
<1>5. Cardinality(1..n) <= Cardinality(Nodes)
  BY <1>3, <1>4, FS_Injection
<1> QED BY <1>2, <1>3, <1>5

\* A node that is not yet on the way goes to its end.
LEMMA WayMore ==
    ASSUME NEW next, NEW n \in Nat, n >= 1, NEW q \in [1..n -> Nodes], Way(next, n, q),
           next[q[n]] \in Nodes, \A e \in 1..n : next[q[n]] # q[e],
           NEW m \in Nat, m = n + 1
    PROVE  \E p \in [1..m -> Nodes] : Way(next, m, p)
<1> DEFINE x == next[q[n]]
           more == [i \in 1..m |-> IF i = m THEN x ELSE q[i]]
<1>1. /\ \A i \in 1..m : i \in 1..n \/ i = m
      /\ \A i \in 1..n : i \in 1..m /\ i # m
      /\ m \in 1..m /\ 1 \in 1..n
  OBVIOUS
<1>2. x \in Nodes /\ more \in [1..m -> Nodes]
  BY <1>1
<1>3. more[m] = x /\ \A i \in 1..n : more[i] = q[i]
  BY <1>1
<1> HIDE DEF more, x
<1>4. more[1] = 1
  BY <1>1, <1>3 DEF Way
<1>5. \A i, j \in 1..m : more[i] = more[j] => i = j
  <2> TAKE i, j \in 1..m
  <2> HAVE more[i] = more[j]
  <2>1. CASE i \in 1..n /\ j \in 1..n
    BY <1>3, <2>1 DEF Way
  <2>2. CASE i = m \/ j = m
    BY <1>1, <1>3, <2>2 DEF x
  <2> QED BY <1>1, <2>1, <2>2
<1>6. \A i \in 1..(m - 1) : more[i + 1] = next[more[i]]
  <2> TAKE i \in 1..(m - 1)
  <2>1. i \in 1..n
    OBVIOUS
  <2>2. CASE i = n
    BY <1>3, <2>1, <2>2 DEF x
  <2>3. CASE i # n
    <3>1. i \in 1..(n - 1) /\ i + 1 \in 1..n
      BY <2>1, <2>3
    <3> QED BY <1>3, <2>1, <3>1 DEF Way
  <2> QED BY <2>2, <2>3
<1>7. Way(next, m, more)
  BY <1>4, <1>5, <1>6 DEF Way
<1> QED BY <1>2, <1>7

\* The longest way ends at the end of the list, or where it comes back.
LEMMA LineOrLasso ==
    ASSUME NEW next \in Nexts, MaxLen > 0
    PROVE  \E n \in Nodes : \E q \in [1..n -> Nodes] :
             Line(next, n, q) \/ \E e \in 1..n : Lasso(next, n, q, e)
<1>1. MaxLen \in Nat /\ 1 \in Nodes
  BY ListsAssumption DEF Nodes
<1> DEFINE Lengths == {n \in Nodes : \E q \in [1..n -> Nodes] : Way(next, n, q)}
           Short == {d \in Nat : MaxLen - d \in Lengths}
<1>2. 1 \in Lengths
  <2> DEFINE q == [i \in 1..1 |-> 1]
  <2>1. q \in [1..1 -> Nodes] /\ Way(next, 1, q)
    BY <1>1 DEF Way
  <2> HIDE DEF q
  <2> QED BY <1>1, <2>1
<1>3. MaxLen - 1 \in Short
  <2>1. MaxLen - 1 \in Nat /\ MaxLen - (MaxLen - 1) = 1
    BY <1>1
  <2> QED BY <1>2, <2>1
<1>4. PICK d \in Short : \A x \in Short : d <= x
  <2> HIDE DEF Short
  <2>1. Short \in SUBSET Nat /\ Short # {}
    BY <1>3 DEF Short
  <2> QED BY <2>1, LeastNumber
<1> DEFINE n == MaxLen - d
<1>5. d \in Nat /\ n \in Nodes /\ n \in Nat /\ n >= 1
  BY <1>1 DEF Nodes
<1>6. PICK q \in [1..n -> Nodes] : Way(next, n, q)
  OBVIOUS
<1>7. n \in 1..n
  BY <1>5
<1>8. CASE next[q[n]] = Null
  BY <1>5, <1>6, <1>8 DEF Line
<1>9. CASE \E e \in 1..n : next[q[n]] = q[e]
  BY <1>5, <1>6, <1>9 DEF Lasso
<1>10. ASSUME next[q[n]] # Null, \A e \in 1..n : next[q[n]] # q[e]
       PROVE  FALSE
  <2>1. next[q[n]] \in Nodes
    BY <1>6, <1>7, <1>10 DEF Nexts
  <2>2. n + 1 \in Nat
    BY <1>5
  <2> HIDE DEF n
  <2>3. PICK more \in [1..(n + 1) -> Nodes] : Way(next, n + 1, more)
    BY <1>5, <1>6, <1>10, <2>1, <2>2, WayMore
  <2> USE DEF n
  <2>4. n + 1 \in Nat /\ n + 1 <= MaxLen
    BY <2>2, <2>3, WayIsShort
  <2>5. d - 1 \in Nat /\ MaxLen - (d - 1) = n + 1 /\ n + 1 \in Nodes
    BY <1>1, <1>5, <2>4 DEF Nodes
  <2>6. n + 1 \in Lengths
    BY <2>3, <2>5
  <2>7. d - 1 \in Short
    BY <2>5, <2>6
  <2>8. d <= d - 1
    BY <1>4, <2>7
  <2> QED BY <1>5, <2>8
<1> QED BY <1>8, <1>9, <1>10

\* A list that comes back never ends.
LEMMA LineHasNoCycle ==
    ASSUME NEW next \in Nexts, NEW n, NEW q, Line(next, n, q)
    PROVE  ~HasCycle(next)
<1> SUFFICES ASSUME HasCycle(next) PROVE FALSE
  OBVIOUS
<1>1. PICK x \in DOMAIN next : ReturnsTo(next, x)
  BY DEF HasCycle
<1>2. PICK m \in 1..MaxLen :
        \E p \in [1..m -> DOMAIN next] : Path(next, p) /\ next[p[m]] = x /\ \E i \in 1..m : p[i] = x
  BY <1>1 DEF ReturnsTo
<1>3. PICK p \in [1..m -> DOMAIN next] : Path(next, p) /\ next[p[m]] = x /\ \E i \in 1..m : p[i] = x
  BY <1>2
<1>4. MaxLen \in Nat /\ m \in Nat /\ m >= 1 /\ p \in [1..m -> Nodes]
  BY ListsAssumption DEF Nexts
<1>5. Way(next, m, p)
  BY <1>3, <1>4, WayIs
<1> DEFINE S == {p[i] : i \in 1..m}
<1>6. 1 \in S
  BY <1>4, <1>5 DEF Way
<1>7. \A y \in S : next[y] \in S
  <2> SUFFICES ASSUME NEW i \in 1..m PROVE next[p[i]] \in S
    OBVIOUS
  <2>1. CASE i = m
    BY <1>3, <2>1
  <2>2. CASE i # m
    <3>1. i \in 1..(m - 1) /\ i + 1 \in 1..m
      BY <1>4, <2>2
    <3>2. p[i + 1] = next[p[i]]
      BY <1>5, <3>1 DEF Way
    <3> QED BY <3>1, <3>2
  <2> QED BY <2>1, <2>2
<1>8. S \subseteq Nodes
  BY <1>4
<1> HIDE DEF S
<1>9. /\ n \in Nat /\ n >= 1 /\ q \in [1..n -> Nodes] /\ next[q[n]] = Null /\ q[1] = 1
      /\ \A i \in 1..(n - 1) : q[i + 1] = next[q[i]]
  BY <1>4 DEF Line, Way, Nodes
<1>10. \A i \in 1..n : q[i] \in S
  <2> DEFINE Out == {i \in Nat : i \in 1..n /\ q[i] \notin S}
  <2>1. CASE Out = {}
    BY <1>9, <2>1
  <2>2. CASE Out # {}
    <3>1. PICK i \in Out : \A j \in Out : i <= j
      <4>1. Out \in SUBSET Nat
        OBVIOUS
      <4> QED BY <2>2, <4>1, LeastNumber
    <3>2. i # 1
      BY <1>6, <1>9
    <3>3. i - 1 \in 1..(n - 1) /\ i - 1 \in 1..n /\ i - 1 \in Nat /\ (i - 1) + 1 = i
      BY <1>9, <3>2
    <3>4. i - 1 \notin Out
      <4>1. ~(i <= i - 1)
        BY <3>3
      <4> QED BY <3>1, <4>1
    <3>5. q[i - 1] \in S
      BY <3>3, <3>4
    <3>6. q[i] = next[q[i - 1]]
      BY <1>9, <3>3
    <3> QED BY <1>7, <3>5, <3>6
  <2> QED BY <2>1, <2>2
<1>11. n \in 1..n
  BY <1>9
<1>12. Null \in S
  BY <1>7, <1>9, <1>10, <1>11
<1>13. Null \in Int
  BY <1>4, <1>8, <1>12 DEF Nodes
<1> QED BY <1>13, ListsAssumption

LEMMA LassoReturns ==
    ASSUME NEW next \in Nexts, NEW n, NEW q, NEW e, Lasso(next, n, q, e)
    PROVE  ReturnsTo(next, q[e]) /\ HasCycle(next) /\ next[1] # Null
<1>1. /\ MaxLen \in Nat /\ n \in Nat /\ n >= 1 /\ n \in 1..MaxLen /\ q \in [1..n -> Nodes]
      /\ Way(next, n, q) /\ e \in 1..n /\ next[q[n]] = q[e]
  BY ListsAssumption DEF Lasso, Nodes
<1>2. DOMAIN next = Nodes
  BY DEF Nexts
<1>3. ReturnsTo(next, q[e])
  <2>1. Path(next, q) /\ \E i \in 1..n : q[i] = q[e]
    BY <1>1, WayIs
  <2>2. q \in [1..n -> DOMAIN next]
    BY <1>1, <1>2
  <2> QED BY <1>1, <2>1, <2>2, Zenon DEF ReturnsTo
<1>4. HasCycle(next)
  BY <1>1, <1>2, <1>3 DEF HasCycle
<1>5. next[1] \in Nodes
  <2>1. CASE n = 1
    BY <1>1, <2>1 DEF Way
  <2>2. CASE n # 1
    <3>1. 1 \in 1..(n - 1) /\ 1 + 1 \in 1..n
      BY <1>1, <2>2
    <3>2. q[1] = 1 /\ q[1 + 1] = next[q[1]] /\ q[1 + 1] \in Nodes
      BY <1>1, <3>1 DEF Way
    <3> QED BY <3>2
  <2> QED BY <2>1, <2>2
<1>6. Null \notin Nodes
  BY <1>1, ListsAssumption DEF Nodes
<1> QED BY <1>3, <1>4, <1>5, <1>6

-----------------------------------------------------------------------------
(* The laps that a pointer has made of the cycle.                          *)

Laps(c) == {c * k : k \in Nat}

LEMMA LapsAre ==
    ASSUME NEW c \in Nat, c >= 1
    PROVE  /\ 0 \in Laps(c) /\ c \in Laps(c) /\ Laps(c) \in SUBSET Nat
           /\ \A x \in Laps(c) : x + c \in Laps(c)
           /\ \A x, y \in Laps(c) : x + y \in Laps(c)
           /\ \A x, y \in Laps(c) : y <= x => x - y \in Laps(c)
           /\ \A x \in Laps(c) : x < c => x = 0
<1>1. 0 \in Laps(c)
  <2>1. 0 \in Nat /\ c * 0 = 0
    OBVIOUS
  <2> QED BY <2>1 DEF Laps
<1>2. c \in Laps(c)
  <2>1. 1 \in Nat /\ c * 1 = c
    OBVIOUS
  <2> QED BY <2>1 DEF Laps
<1>3. Laps(c) \in SUBSET Nat
  BY DEF Laps
<1>4. \A x, y \in Laps(c) : x + y \in Laps(c)
  <2> SUFFICES ASSUME NEW k \in Nat, NEW m \in Nat PROVE c * k + c * m \in Laps(c)
    BY DEF Laps
  <2>1. k + m \in Nat /\ c * (k + m) = c * k + c * m
    OBVIOUS
  <2> QED BY <2>1 DEF Laps
<1>5. \A x, y \in Laps(c) : y <= x => x - y \in Laps(c)
  <2> SUFFICES ASSUME NEW k \in Nat, NEW m \in Nat, c * m <= c * k
               PROVE  c * k - c * m \in Laps(c)
    BY DEF Laps
  <2>1. m <= k
    <3> SUFFICES ASSUME k < m PROVE FALSE
      OBVIOUS
    <3>1. PICK d \in Nat : m = k + 1 + d
      <4>1. m - k - 1 \in Nat /\ m = k + 1 + (m - k - 1)
        OBVIOUS
      <4> QED BY <4>1
    <3>2. c * m = c * k + c + c * d /\ c * d \in Nat /\ c * k \in Nat
      BY <3>1
    <3> QED BY <3>2
  <2>2. k - m \in Nat /\ c * (k - m) = c * k - c * m
    BY <2>1
  <2> QED BY <2>2 DEF Laps
<1>6. \A x \in Laps(c) : x < c => x = 0
  <2> SUFFICES ASSUME NEW k \in Nat, c * k < c PROVE c * k = 0
    BY DEF Laps
  <2>1. k = 0
    <3> SUFFICES ASSUME k >= 1 PROVE FALSE
      OBVIOUS
    <3>1. c * k = c + c * (k - 1) /\ c * (k - 1) \in Nat
      OBVIOUS
    <3> QED BY <3>1
  <2> QED BY <2>1
<1> QED BY <1>1, <1>2, <1>3, <1>4, <1>5, <1>6

\* Two places of the cycle that are whole laps apart are the same.
LEMMA SamePlace ==
    ASSUME NEW c \in Nat, c >= 1, NEW e \in Int, NEW a \in Int, NEW b \in Int,
           e <= a, a < e + c, e <= b, b < e + c,
           NEW x \in Laps(c), NEW y \in Laps(c), a + x = b + y
    PROVE  a = b
<1>1. x \in Nat /\ y \in Nat
  BY LapsAre
<1>2. CASE y <= x
  <2>1. x - y \in Laps(c) /\ x - y < c
    BY <1>1, <1>2, LapsAre
  <2>2. x - y = 0
    BY <2>1, LapsAre
  <2> QED BY <1>1, <2>2
<1>3. CASE x <= y
  <2>1. y - x \in Laps(c) /\ y - x < c
    BY <1>1, <1>3, LapsAre
  <2>2. y - x = 0
    BY <2>1, LapsAre
  <2> QED BY <1>1, <2>2
<1> QED BY <1>1, <1>2, <1>3

\* They meet within the nodes of the list: that many turns are whole laps, and enough to be on
\* the cycle.
LEMMA TheyMeet ==
    ASSUME NEW n \in Nat, NEW e \in 1..n
    PROVE  \E j \in 1..n : j \in Laps(n - e + 1) /\ j + 1 >= e
<1> DEFINE c == n - e + 1
           S == {j \in Nat : j \in Laps(c) /\ j >= 1 /\ j + 1 >= e}
<1>1. c \in Nat /\ c >= 1 /\ e \in Nat /\ e >= 1
  OBVIOUS
<1>2. c * e \in S
  <2>1. c * e \in Laps(c) /\ c * e \in Nat
    BY <1>1 DEF Laps
  <2>2. c * e = e + (c - 1) * e /\ (c - 1) * e \in Nat
    BY <1>1
  <2>3. c * e >= 1 /\ c * e + 1 >= e
    BY <1>1, <2>2
  <2> QED BY <2>1, <2>3
<1>3. PICK j \in S : \A k \in S : j <= k
  <2>1. S \in SUBSET Nat /\ S # {}
    BY <1>2
  <2> HIDE DEF S
  <2> QED BY <2>1, LeastNumber
<1>4. j \in Nat /\ j \in Laps(c) /\ j >= 1 /\ j + 1 >= e
  OBVIOUS
<1>5. j <= n
  <2> SUFFICES ASSUME j > n PROVE FALSE
    BY <1>4
  <2>1. c <= j /\ c \in Laps(c)
    BY <1>1, <1>4, LapsAre
  <2>2. j - c \in Laps(c)
    BY <1>1, <1>4, <2>1, LapsAre
  <2>3. j - c \in Nat /\ j - c >= 1 /\ j - c + 1 >= e /\ ~(j <= j - c)
    BY <1>1, <1>4
  <2>4. j - c \in S
    BY <2>2, <2>3
  <2> QED BY <1>3, <2>3, <2>4
<1> QED BY <1>4, <1>5

-----------------------------------------------------------------------------
(* Where slow and fast are after so many turns.                            *)

\* After k turns the pointer is at place a, having made some laps of a cycle from e to n.
AtPlace(n, e, k, a) ==
    a \in 1..n /\ \E x \in Laps(n - e + 1) : k + 1 = a + x /\ (x = 0 \/ a >= e)

\* On a line, fast is twice as far as slow, or past the end.
OnLine ==
    /\ fn = "hasCycle"
    /\ \E n \in Nodes : \E q \in [1..n -> Nodes] :
         /\ Line(input, n, q)
         /\ turns + 1 \in 1..n /\ left = q[turns + 1]
         /\ \/ 2 * turns + 1 \in 1..n /\ right = q[2 * turns + 1]
            \/ 2 * turns = n /\ right = Null

\* On a lasso, they would have met if they were whole laps apart on the cycle.
OnLasso ==
    \E n \in Nodes : \E q \in [1..n -> Nodes] : \E e \in 1..n : \E a, b \in 1..n :
      /\ Lasso(input, n, q, e)
      /\ left = q[a] /\ right = q[b]
      /\ AtPlace(n, e, turns, a) /\ AtPlace(n, e, 2 * turns, b)
      /\ \A j \in 1..turns : j \in Laps(n - e + 1) => j + 1 < e

\* From where they met, slow goes to the entry of the cycle while fast makes whole laps.
ToEntry ==
    /\ fn = "detectCycle"
    /\ \E n \in Nodes : \E q \in [1..n -> Nodes] : \E e \in 1..n : \E m \in 1..e, b \in e..n :
         /\ Lasso(input, n, q, e)
         /\ left = q[m] /\ right = q[b]
         /\ \E x, y \in Laps(n - e + 1) : x <= n /\ x + m = b + y /\ turns = x + m - 1

CyclesInv ==
    /\ fn \in {"hasCycle", "detectCycle"} /\ MaxLen > 0 /\ input \in Nexts /\ turns \in Nat
    /\ loop \in {"chase", "in step", "returned"}
    /\ loop = "chase" => OnLine \/ OnLasso
    /\ loop = "in step" => ToEntry
    /\ loop = "returned" /\ fn = "hasCycle" => output = HasCycle(input) /\ turns <= MaxLen + 1
    /\ loop = "returned" /\ fn = "detectCycle" =>
         /\ IF input[1] = Null THEN output = Null ELSE ReturnsTo(input, output)
         /\ turns <= 2 * MaxLen + 2

\* The next place.
LEMMA AtNext ==
    ASSUME NEW next \in Nexts, NEW n \in Nodes, NEW q \in [1..n -> Nodes], NEW e \in 1..n,
           Lasso(next, n, q, e), NEW k \in Nat, NEW a \in 1..n, AtPlace(n, e, k, a)
    PROVE  \E b \in 1..n : AtPlace(n, e, k + 1, b) /\ next[q[a]] = q[b]
<1> DEFINE c == n - e + 1
<1>1. n \in Nat /\ e \in Nat /\ 1 <= e /\ e <= n /\ a \in Nat /\ c \in Nat /\ c >= 1
  BY ListsAssumption DEF Nodes
<1>2. PICK x \in Laps(c) : k + 1 = a + x /\ (x = 0 \/ a >= e)
  BY DEF AtPlace
<1>3. x \in Nat /\ x + c \in Laps(c)
  BY <1>1, LapsAre
<1>4. CASE a = n
  <2>1. k + 1 + 1 = e + (x + c)
    BY <1>1, <1>2, <1>3, <1>4
  <2>2. AtPlace(n, e, k + 1, e)
    <3>1. k + 1 + 1 = e + (x + c) /\ (x + c = 0 \/ e >= e)
      BY <1>1, <2>1
    <3> QED BY <1>3, <3>1 DEF AtPlace
  <2>3. next[q[a]] = q[e]
    BY <1>4 DEF Lasso
  <2> QED BY <2>2, <2>3
<1>5. CASE a # n
  <2>1. a \in 1..(n - 1) /\ a + 1 \in 1..n
    BY <1>1, <1>5
  <2>2. AtPlace(n, e, k + 1, a + 1)
    <3>1. k + 1 + 1 = (a + 1) + x /\ (x = 0 \/ a + 1 >= e)
      BY <1>1, <1>2, <1>3
    <3> QED BY <1>2, <2>1, <3>1 DEF AtPlace
  <2>3. next[q[a]] = q[a + 1]
    BY <2>1 DEF Lasso, Way
  <2> QED BY <2>1, <2>2, <2>3
<1> QED BY <1>4, <1>5

\* If the turns are whole laps that reach the cycle, slow and fast are at the same place ...
LEMMA AtSame ==
    ASSUME NEW n \in Nat, NEW e \in 1..n, NEW k \in Laps(n - e + 1), k + 1 >= e,
           NEW a \in 1..n, AtPlace(n, e, k, a), NEW b \in 1..n, AtPlace(n, e, 2 * k, b)
    PROVE  a = b
<1> DEFINE c == n - e + 1
<1>1. c \in Nat /\ c >= 1 /\ e \in Nat /\ e >= 1 /\ a \in Nat /\ b \in Nat
  OBVIOUS
<1>2. PICK x \in Laps(c) : k + 1 = a + x /\ (x = 0 \/ a >= e)
  BY DEF AtPlace
<1>3. PICK y \in Laps(c) : 2 * k + 1 = b + y /\ (y = 0 \/ b >= e)
  BY DEF AtPlace
<1>4. k \in Nat /\ x \in Nat /\ y \in Nat
  BY <1>1, LapsAre
<1>5. a >= e /\ b >= e
  BY <1>1, <1>2, <1>3, <1>4
<1>6. x + k \in Laps(c)
  BY <1>1, LapsAre
<1>7. b + y = a + (x + k)
  BY <1>1, <1>2, <1>3, <1>4
<1>8. a < e + c /\ b < e + c
  BY <1>1
<1> HIDE DEF c
<1> QED BY <1>1, <1>3, <1>5, <1>6, <1>7, <1>8, SamePlace

\* ... and only then.
LEMMA AtSameOnly ==
    ASSUME NEW n \in Nat, NEW e \in 1..n, NEW k \in Nat, k >= 1,
           NEW a \in 1..n, AtPlace(n, e, k, a), AtPlace(n, e, 2 * k, a)
    PROVE  k \in Laps(n - e + 1) /\ k + 1 >= e /\ a >= e
<1> DEFINE c == n - e + 1
<1>1. c \in Nat /\ c >= 1 /\ e \in Nat /\ e >= 1 /\ a \in Nat
  OBVIOUS
<1>2. PICK x \in Laps(c) : k + 1 = a + x /\ (x = 0 \/ a >= e)
  BY DEF AtPlace
<1>3. PICK y \in Laps(c) : 2 * k + 1 = a + y /\ (y = 0 \/ a >= e)
  BY DEF AtPlace
<1>4. x \in Nat /\ y \in Nat
  BY <1>1, LapsAre
<1>5. k = y - x /\ x <= y /\ y # 0
  BY <1>1, <1>2, <1>3, <1>4
<1>6. y - x \in Laps(c)
  BY <1>1, <1>5, LapsAre
<1>7. k \in Laps(c)
  BY <1>5, <1>6
<1>8. a >= e /\ k + 1 >= e
  BY <1>1, <1>2, <1>3, <1>4, <1>5
<1> QED BY <1>7, <1>8

\* So they have met before slow has gone all the way.
LEMMA NotYetMet ==
    ASSUME NEW n \in Nodes, NEW e \in 1..n, NEW k \in Nat,
           \A j \in 1..k : j \in Laps(n - e + 1) => j + 1 < e
    PROVE  k + 1 <= n /\ n <= MaxLen
<1>1. n \in Nat /\ n <= MaxLen /\ MaxLen \in Nat
  BY ListsAssumption DEF Nodes
<1>2. PICK j \in 1..n : j \in Laps(n - e + 1) /\ j + 1 >= e
  BY <1>1, TheyMeet
<1>3. ~(j <= k)
  <2> SUFFICES ASSUME j <= k PROVE FALSE
    OBVIOUS
  <2>1. j \in 1..k
    BY <1>1
  <2>2. j + 1 < e
    BY <1>2, <2>1
  <2> QED BY <1>1, <1>2, <2>2
<1> QED BY <1>1, <1>3

LEMMA CyclesStarts ==
    ASSUME Cycles, turns' = 0
    PROVE  CyclesInv'
<1> PICK next \in [1..MaxLen -> (1..MaxLen) \union {Null}] :
        /\ MaxLen > 0
        /\ \/ Call("hasCycle", next, "chase", Null, 1, 1, <<>>)
           \/ next[1] = Null /\ Call("detectCycle", next, "returned", Null, 1, 1, <<>>)
           \/ HasCycle(next) /\ Call("detectCycle", next, "chase", Null, 1, 1, <<>>)
  BY DEF Cycles
<1>1. next \in Nexts /\ MaxLen > 0 /\ MaxLen \in Nat
  BY ListsAssumption DEF Nexts, Nodes
<1>2. PICK n \in Nodes : \E q \in [1..n -> Nodes] :
             Line(next, n, q) \/ \E e \in 1..n : Lasso(next, n, q, e)
  BY <1>1, LineOrLasso
<1>3. PICK q \in [1..n -> Nodes] : Line(next, n, q) \/ \E e \in 1..n : Lasso(next, n, q, e)
  BY <1>2
<1>4. q[1] = 1 /\ n \in Nat /\ n >= 1 /\ 1 \in 1..n
  BY <1>1, <1>3 DEF Line, Lasso, Way, Nodes
<1>5. ASSUME loop' = "chase", input' = next, left' = 1, right' = 1,
             fn' = "hasCycle" \/ HasCycle(next), fn' \in {"hasCycle", "detectCycle"}
      PROVE  CyclesInv'
  <2>1. CASE Line(next, n, q)
    <3>1. fn' = "hasCycle"
      BY <1>1, <1>5, <2>1, LineHasNoCycle
    <3>2. turns' + 1 = 1 /\ 2 * turns' + 1 = 1
      OBVIOUS
    <3>3. OnLine'
      BY <1>4, <1>5, <2>1, <3>1, <3>2 DEF OnLine
    <3> QED BY <1>1, <1>5, <3>3 DEF CyclesInv
  <2>2. CASE \E e \in 1..n : Lasso(next, n, q, e)
    <3>1. PICK e \in 1..n : Lasso(next, n, q, e)
      BY <2>2
    <3>2. AtPlace(n, e, 0, 1)
      <4>1. n - e + 1 \in Nat /\ n - e + 1 >= 1
        BY <1>4
      <4>2. 0 \in Laps(n - e + 1)
        BY <4>1, LapsAre
      <4> QED BY <1>4, <4>2 DEF AtPlace
    <3>3. 2 * turns' = 0 /\ turns' = 0 /\ \A j \in 1..turns' : FALSE
      OBVIOUS
    <3>4. OnLasso'
      BY <1>4, <1>5, <3>1, <3>2, <3>3 DEF OnLasso
    <3> QED BY <1>1, <1>5, <3>4 DEF CyclesInv
  <2> QED BY <1>3, <2>1, <2>2
<1>6. CASE Call("hasCycle", next, "chase", Null, 1, 1, <<>>)
  BY <1>5, <1>6 DEF Call
<1>7. CASE HasCycle(next) /\ Call("detectCycle", next, "chase", Null, 1, 1, <<>>)
  BY <1>5, <1>7 DEF Call
<1>8. CASE next[1] = Null /\ Call("detectCycle", next, "returned", Null, 1, 1, <<>>)
  BY <1>1, <1>8 DEF Call, CyclesInv
<1> QED BY <1>6, <1>7, <1>8

\* The turns so far.
LEMMA ChaseBound ==
    ASSUME CyclesInv
    PROVE  /\ loop = "chase" => turns + 1 <= MaxLen
           /\ loop = "in step" => turns + 1 <= 2 * MaxLen
<1>1. turns \in Nat /\ MaxLen \in Nat
  BY ListsAssumption DEF CyclesInv
<1>2. ASSUME OnLine PROVE turns + 1 <= MaxLen
  <2>1. PICK n \in Nodes : turns + 1 \in 1..n
    BY <1>2 DEF OnLine
  <2> QED BY <1>1, <2>1 DEF Nodes
<1>3. ASSUME OnLasso PROVE turns + 1 <= MaxLen
  <2>1. PICK n \in Nodes : \E e \in 1..n : \A j \in 1..turns : j \in Laps(n - e + 1) => j + 1 < e
    BY <1>3 DEF OnLasso
  <2>2. PICK e \in 1..n : \A j \in 1..turns : j \in Laps(n - e + 1) => j + 1 < e
    BY <2>1
  <2>3. turns + 1 <= n /\ n <= MaxLen
    BY <1>1, <2>2, NotYetMet
  <2> QED BY <1>1, <2>3 DEF Nodes
<1>4. ASSUME ToEntry PROVE turns + 1 <= 2 * MaxLen
  <2>1. PICK n \in Nodes : \E e \in 1..n : \E m \in 1..e :
               \E x \in Laps(n - e + 1) : x <= n /\ turns = x + m - 1
    BY <1>4 DEF ToEntry
  <2>2. PICK e \in 1..n : \E m \in 1..e :
               \E x \in Laps(n - e + 1) : x <= n /\ turns = x + m - 1
    BY <2>1
  <2>3. PICK m \in 1..e : \E x \in Laps(n - e + 1) : x <= n /\ turns = x + m - 1
    BY <2>2
  <2>4. PICK x \in Laps(n - e + 1) : x <= n /\ turns = x + m - 1
    BY <2>3
  <2>5. n \in Nat /\ n <= MaxLen /\ e \in Nat /\ e <= n /\ m \in Nat /\ m <= e
    BY <1>1 DEF Nodes
  <2>6. x \in Nat
    <3>1. n - e + 1 \in Nat /\ n - e + 1 >= 1
      BY <2>5
    <3> QED BY <3>1, LapsAre
  <2> QED BY <1>1, <2>4, <2>5, <2>6
<1> QED BY <1>2, <1>3, <1>4 DEF CyclesInv

LEMMA ChaseLine ==
    ASSUME CyclesInv, Chase, Kept, OnLine
    PROVE  CyclesInv'
<1>1. /\ loop = "chase" /\ input \in Nexts /\ MaxLen > 0 /\ MaxLen \in Nat /\ turns \in Nat
      /\ fn = "hasCycle" /\ fn' = fn /\ input' = input /\ turns' = turns + 1 /\ turns' \in Nat
      /\ turns + 1 <= MaxLen
  BY ListsAssumption, ChaseBound DEF CyclesInv, Chase, Kept, OnLine
<1>2. PICK n \in Nodes : \E q \in [1..n -> Nodes] :
         /\ Line(input, n, q)
         /\ turns + 1 \in 1..n /\ left = q[turns + 1]
         /\ \/ 2 * turns + 1 \in 1..n /\ right = q[2 * turns + 1]
            \/ 2 * turns = n /\ right = Null
  BY DEF OnLine
<1>3. PICK q \in [1..n -> Nodes] :
         /\ Line(input, n, q)
         /\ turns + 1 \in 1..n /\ left = q[turns + 1]
         /\ \/ 2 * turns + 1 \in 1..n /\ right = q[2 * turns + 1]
            \/ 2 * turns = n /\ right = Null
  BY <1>2
<1>4. n \in Nat /\ n >= 1 /\ Null \notin Nodes
  BY <1>1, ListsAssumption DEF Nodes
<1>5. CASE right = Null \/ input[right] = Null
  <2>1. Return(FALSE)
    BY <1>1, <1>5 DEF Chase
  <2>2. ~HasCycle(input)
    BY <1>1, <1>3, LineHasNoCycle
  <2>3. output' = HasCycle(input')
    <3>1. output' = FALSE
      BY <2>1, Zenon DEF Return
    <3>2. output' = HasCycle(input)
      BY <2>2, <3>1, Zenon DEF HasCycle
    <3> QED BY <1>1, <3>2
  <2>4. loop' = "returned"
    BY <2>1 DEF Return
  <2> QED BY <1>1, <2>3, <2>4 DEF CyclesInv
<1>6. CASE ~(right = Null \/ input[right] = Null)
  <2>1. 2 * turns + 1 \in 1..n /\ right = q[2 * turns + 1]
    BY <1>3, <1>6
  <2>2. 2 * turns + 1 # n
    BY <1>3, <1>6, <2>1 DEF Line
  <2>3. 2 * turns + 1 \in 1..(n - 1) /\ turns + 1 \in 1..(n - 1)
    BY <1>1, <1>4, <2>1, <2>2
  <2>4. input[left] = q[turns + 2] /\ input[right] = q[2 * turns + 2]
    <3>1. \A i \in 1..(n - 1) : q[i + 1] = input[q[i]]
      BY <1>3 DEF Line, Way
    <3>2. turns + 1 + 1 = turns + 2 /\ 2 * turns + 1 + 1 = 2 * turns + 2
      BY <1>1
    <3>3. q[turns + 1 + 1] = input[q[turns + 1]] /\ q[2 * turns + 1 + 1] = input[q[2 * turns + 1]]
      BY <2>3, <3>1
    <3> QED BY <1>3, <2>1, <3>2, <3>3
  <2>5. turns + 2 \in 1..n /\ 2 * turns + 2 \in 1..n /\ turns + 2 # 2 * turns + 3
    BY <1>1, <1>4, <2>3
  <2> DEFINE fast == input[input[right]]
  <2>6. \/ 2 * turns + 3 \in 1..n /\ fast = q[2 * turns + 3]
        \/ 2 * turns + 2 = n /\ fast = Null
    <3>1. CASE 2 * turns + 2 = n
      BY <1>3, <2>4, <3>1 DEF Line
    <3>2. CASE 2 * turns + 2 # n
      <4>1. 2 * turns + 2 \in 1..(n - 1) /\ 2 * turns + 3 \in 1..n
        BY <1>1, <1>4, <2>5, <3>2
      <4>2. 2 * turns + 2 + 1 = 2 * turns + 3
        BY <1>1
      <4>3. q[2 * turns + 2 + 1] = input[q[2 * turns + 2]]
        BY <1>3, <4>1 DEF Line, Way
      <4> QED BY <2>4, <4>1, <4>2, <4>3
    <3> QED BY <3>1, <3>2
  <2>7. input[left] # fast
    <3>1. q[turns + 2] \in Nodes
      BY <2>5
    <3>2. \A i, j \in 1..n : q[i] = q[j] => i = j
      BY <1>3 DEF Line, Way
    <3>3. CASE fast = Null
      BY <1>4, <2>4, <3>1, <3>3
    <3>4. CASE 2 * turns + 3 \in 1..n /\ fast = q[2 * turns + 3]
      BY <2>4, <2>5, <3>2, <3>4
    <3> QED BY <2>6, <3>3, <3>4
  <2>8. Step(output, input[left], fast)
    BY <1>6, <2>7 DEF Chase
  <2>9. /\ loop' = "chase" /\ left' = q[turns + 2] /\ right' = fast
    BY <1>1, <2>4, <2>8 DEF Step
  <2> HIDE DEF fast
  <2>10. /\ turns' + 1 = turns + 2 /\ 2 * turns' + 1 = 2 * turns + 3
         /\ 2 * turns' = 2 * turns + 2
    BY <1>1
  <2>11. OnLine'
    <3>1. Line(input', n, q) /\ turns' + 1 \in 1..n /\ left' = q[turns' + 1]
      BY <1>1, <1>3, <2>5, <2>9, <2>10
    <3>2. \/ 2 * turns' + 1 \in 1..n /\ right' = q[2 * turns' + 1]
          \/ 2 * turns' = n /\ right' = Null
      BY <2>6, <2>9, <2>10
    <3> QED BY <1>1, <3>1, <3>2 DEF OnLine
  <2> QED BY <1>1, <2>9, <2>11 DEF CyclesInv
<1> QED BY <1>5, <1>6

LEMMA ChaseLasso ==
    ASSUME CyclesInv, Chase, Kept, OnLasso
    PROVE  CyclesInv'
<1>1. /\ loop = "chase" /\ input \in Nexts /\ MaxLen > 0 /\ MaxLen \in Nat /\ turns \in Nat
      /\ fn \in {"hasCycle", "detectCycle"} /\ fn' = fn /\ input' = input
      /\ turns' = turns + 1 /\ turns' \in Nat /\ turns + 1 <= MaxLen
  <2>1. /\ loop = "chase" /\ input \in Nexts /\ MaxLen > 0 /\ MaxLen \in Nat /\ turns \in Nat
        /\ fn \in {"hasCycle", "detectCycle"} /\ fn' = fn /\ input' = input
        /\ turns' = turns + 1
    BY ListsAssumption DEF CyclesInv, Chase, Kept
  <2>2. turns + 1 <= MaxLen
    BY <2>1, ChaseBound
  <2> QED BY <2>1, <2>2
<1>2. PICK n \in Nodes : \E q \in [1..n -> Nodes] : \E e \in 1..n : \E a, b \in 1..n :
         /\ Lasso(input, n, q, e)
         /\ left = q[a] /\ right = q[b]
         /\ AtPlace(n, e, turns, a) /\ AtPlace(n, e, 2 * turns, b)
         /\ \A j \in 1..turns : j \in Laps(n - e + 1) => j + 1 < e
  BY DEF OnLasso
<1>3. PICK q \in [1..n -> Nodes] : \E e \in 1..n : \E a, b \in 1..n :
         /\ Lasso(input, n, q, e)
         /\ left = q[a] /\ right = q[b]
         /\ AtPlace(n, e, turns, a) /\ AtPlace(n, e, 2 * turns, b)
         /\ \A j \in 1..turns : j \in Laps(n - e + 1) => j + 1 < e
  BY <1>2
<1>4. PICK e \in 1..n, a \in 1..n, b \in 1..n :
         /\ Lasso(input, n, q, e)
         /\ left = q[a] /\ right = q[b]
         /\ AtPlace(n, e, turns, a) /\ AtPlace(n, e, 2 * turns, b)
         /\ \A j \in 1..turns : j \in Laps(n - e + 1) => j + 1 < e
  BY <1>3
<1>5. Lasso(input, n, q, e) /\ AtPlace(n, e, turns, a) /\ AtPlace(n, e, 2 * turns, b)
  BY <1>4
<1>6. turns \in Nat /\ input \in Nexts
  BY <1>1
<1>7. /\ n \in Nat /\ n >= 1 /\ n <= MaxLen /\ Null \notin Nodes
      /\ 2 * turns \in Nat /\ 2 * turns + 1 \in Nat /\ 2 * turns + 1 + 1 = 2 * turns'
  BY <1>1, ListsAssumption DEF Nodes
<1>8. PICK k \in Nat : k = 2 * turns
  BY <1>7
<1>9. PICK k1 \in Nat : k1 = k + 1
  OBVIOUS
<1>10. \A i \in Nat : \A x \in 1..n :
        AtPlace(n, e, i, x) => \E y \in 1..n : AtPlace(n, e, i + 1, y) /\ input[q[x]] = q[y]
  BY <1>5, <1>6, AtNext
<1>11. PICK a1 \in 1..n : AtPlace(n, e, turns + 1, a1) /\ input[q[a]] = q[a1]
  BY <1>5, <1>6, <1>10
<1>12. PICK b1 \in 1..n : AtPlace(n, e, k + 1, b1) /\ input[q[b]] = q[b1]
  <2>1. AtPlace(n, e, k, b)
    BY <1>5, <1>8
  <2> QED BY <1>10, <2>1
<1>13. PICK b2 \in 1..n : AtPlace(n, e, k1 + 1, b2) /\ input[q[b1]] = q[b2]
  <2>1. AtPlace(n, e, k1, b1)
    BY <1>12, <1>9
  <2> QED BY <1>10, <2>1
<1>14. AtPlace(n, e, turns', a1) /\ AtPlace(n, e, 2 * turns', b2)
  <2>1. k1 + 1 = 2 * turns'
    BY <1>7, <1>8, <1>9
  <2> QED BY <1>1, <1>11, <1>13, <2>1
<1>15. input[left] = q[a1] /\ input[input[right]] = q[b2]
  BY <1>4, <1>11, <1>12, <1>13
<1>16. ~(right = Null \/ input[right] = Null)
  BY <1>4, <1>7, <1>12
<1>17. HasCycle(input)
  BY <1>1, <1>4, LassoReturns
<1>18. CASE q[a1] # q[b2]
  <2>1. Step(output, q[a1], q[b2])
    BY <1>15, <1>16, <1>18 DEF Chase
  <2>2. loop' = "chase" /\ left' = q[a1] /\ right' = q[b2]
    BY <1>1, <2>1 DEF Step
  <2>3. \A j \in 1..turns' : j \in Laps(n - e + 1) => j + 1 < e
    <3> TAKE j \in 1..turns'
    <3> HAVE j \in Laps(n - e + 1)
    <3>1. CASE j = turns'
      <4>1. ~(turns' + 1 >= e)
        BY <1>7, <1>14, <1>18, <3>1, AtSame
      <4> QED BY <1>1, <1>7, <3>1, <4>1
    <3>2. CASE j # turns'
      <4>1. j \in 1..turns
        BY <1>1, <3>2
      <4> QED BY <1>4, <4>1
    <3> QED BY <3>1, <3>2
  <2>4. Lasso(input', n, q, e)
    BY <1>1, <1>4
  <2>5. OnLasso'
    BY <1>14, <2>2, <2>3, <2>4 DEF OnLasso
  <2> QED BY <1>1, <2>2, <2>5 DEF CyclesInv
<1>19. CASE q[a1] = q[b2] /\ fn = "hasCycle"
  <2>1. Return(TRUE)
    BY <1>15, <1>16, <1>19 DEF Chase
  <2>2. output' = HasCycle(input')
    BY <1>1, <1>17, <2>1, Zenon DEF Return
  <2>3. loop' = "returned"
    BY <2>1 DEF Return
  <2> QED BY <1>1, <1>19, <2>2, <2>3 DEF CyclesInv
<1>20. CASE q[a1] = q[b2] /\ fn # "hasCycle"
  <2>1. loop' = "in step" /\ left' = 1 /\ right' = q[b2]
    BY <1>15, <1>16, <1>20 DEF Chase
  <2>2. a1 = b2
    BY <1>4, <1>20 DEF Lasso, Way
  <2>3. turns' \in Laps(n - e + 1) /\ turns' + 1 >= e /\ a1 >= e
    <3>1. turns' >= 1
      BY <1>1
    <3>2. AtPlace(n, e, turns', a1) /\ AtPlace(n, e, 2 * turns', a1)
      BY <1>14, <2>2
    <3> QED BY <1>1, <1>7, <3>1, <3>2, AtSameOnly
  <2>4. PICK y \in Laps(n - e + 1) : turns' + 1 = a1 + y
    BY <1>14 DEF AtPlace
  <2>5. turns + 1 <= n
    BY <1>1, <1>4, NotYetMet
  <2>6. turns' <= n /\ turns' = turns' + 1 - 1 /\ b2 \in e..n /\ 1 \in 1..e
    BY <1>1, <1>7, <2>2, <2>3, <2>5
  <2>7. left' = q[1] /\ Lasso(input', n, q, e)
    BY <1>1, <1>4, <2>1 DEF Lasso, Way
  <2>8. /\ turns' <= n /\ turns' + 1 = b2 + y /\ turns' = turns' + 1 - 1
    BY <2>2, <2>4, <2>6
  <2>9. ToEntry'
    <3>1. \E x, z \in Laps(n - e + 1) : x <= n /\ x + 1 = b2 + z /\ turns' = x + 1 - 1
      BY <2>3, <2>8
    <3> QED BY <1>1, <1>20, <2>1, <2>6, <2>7, <3>1 DEF ToEntry
  <2> QED BY <1>1, <2>1, <2>9 DEF CyclesInv
<1> QED BY <1>18, <1>19, <1>20

LEMMA ChaseKeeps ==
    ASSUME CyclesInv, Chase, Kept
    PROVE  CyclesInv'
<1>1. OnLine \/ OnLasso
  BY DEF CyclesInv, Chase
<1> QED BY <1>1, ChaseLine, ChaseLasso

LEMMA InStepKeeps ==
    ASSUME CyclesInv, InStep, Kept
    PROVE  CyclesInv'
<1>1. /\ loop = "in step" /\ input \in Nexts /\ MaxLen > 0 /\ MaxLen \in Nat /\ turns \in Nat
      /\ fn = "detectCycle" /\ fn' = fn /\ input' = input
      /\ turns' = turns + 1 /\ turns' \in Nat /\ turns + 1 <= 2 * MaxLen
  <2>1. /\ loop = "in step" /\ input \in Nexts /\ MaxLen > 0 /\ MaxLen \in Nat /\ turns \in Nat
        /\ fn' = fn /\ input' = input /\ turns' = turns + 1
    BY ListsAssumption DEF CyclesInv, InStep, Kept
  <2>2. turns + 1 <= 2 * MaxLen
    BY <2>1, ChaseBound
  <2>3. ToEntry
    BY <2>1 DEF CyclesInv
  <2>4. fn = "detectCycle"
    BY <2>3 DEF ToEntry
  <2>5. turns' \in Nat
    <3>1. turns' = turns + 1 /\ turns \in Nat
      BY <2>1
    <3> QED BY <3>1
  <2> QED BY <2>1, <2>2, <2>4, <2>5
<1>2. PICK n \in Nodes : \E q \in [1..n -> Nodes] : \E e \in 1..n : \E m \in 1..e, b \in e..n :
         /\ Lasso(input, n, q, e)
         /\ left = q[m] /\ right = q[b]
         /\ \E x, y \in Laps(n - e + 1) : x <= n /\ x + m = b + y /\ turns = x + m - 1
  BY DEF ToEntry, CyclesInv, InStep
<1>3. PICK q \in [1..n -> Nodes] : \E e \in 1..n : \E m \in 1..e, b \in e..n :
         /\ Lasso(input, n, q, e)
         /\ left = q[m] /\ right = q[b]
         /\ \E x, y \in Laps(n - e + 1) : x <= n /\ x + m = b + y /\ turns = x + m - 1
  BY <1>2
<1>4. PICK e \in 1..n : \E m \in 1..e, b \in e..n :
         /\ Lasso(input, n, q, e)
         /\ left = q[m] /\ right = q[b]
         /\ \E x, y \in Laps(n - e + 1) : x <= n /\ x + m = b + y /\ turns = x + m - 1
  BY <1>3
<1>5. PICK m \in 1..e, b \in e..n :
         /\ Lasso(input, n, q, e)
         /\ left = q[m] /\ right = q[b]
         /\ \E x, y \in Laps(n - e + 1) : x <= n /\ x + m = b + y /\ turns = x + m - 1
  BY <1>4
<1> DEFINE c == n - e + 1
<1>6. PICK x \in Laps(c), y \in Laps(c) : x <= n /\ x + m = b + y /\ turns = x + m - 1
  BY <1>5
<1>7. /\ n \in Nat /\ n >= 1 /\ e \in Nat /\ e >= 1 /\ e <= n /\ m \in Nat /\ m >= 1 /\ m <= e
      /\ b \in Nat /\ b >= e /\ b <= n /\ c \in Nat /\ c >= 1 /\ m \in 1..n /\ b \in 1..n
  <2>1. n \in 1..MaxLen /\ MaxLen \in Nat
    BY <1>1 DEF Nodes
  <2>2. n \in Nat /\ n >= 1
    BY <2>1
  <2> QED BY <2>2
<1>8. x \in Nat /\ y \in Nat
  BY <1>7, LapsAre
<1>9. left = right <=> m = b
  BY <1>5, <1>7 DEF Lasso, Way
<1>10. CASE left # right
  <2>1. m # e
    <3> SUFFICES ASSUME m = e PROVE FALSE
      OBVIOUS
    <3>1. e + x = b + y /\ e < e + c /\ b < e + c
      BY <1>6, <1>7, <1>8
    <3> HIDE DEF c
    <3>2. e = b
      BY <1>6, <1>7, <3>1, SamePlace
    <3> QED BY <1>9, <1>10, <3>2
  <2>2. m + 1 \in 1..e /\ m \in 1..(n - 1)
    BY <1>7, <2>1
  <2>3. input[left] = q[m + 1]
    BY <1>5, <2>2 DEF Lasso, Way
  <2>4. loop' = "in step" /\ left' = input[left] /\ right' = input[right]
    BY <1>1, <1>10 DEF InStep, Step
  <2>5. \E b1 \in e..n : /\ input[right] = q[b1]
                         /\ \E z \in Laps(c) : x + (m + 1) = b1 + z
    <3>1. CASE b = n
      <4>1. input[right] = q[e]
        BY <1>5, <3>1 DEF Lasso
      <4>2. y + c \in Laps(c) /\ x + (m + 1) = e + (y + c)
        BY <1>6, <1>7, <1>8, <3>1, LapsAre
      <4>3. e \in e..n
        BY <1>7
      <4> QED BY <4>1, <4>2, <4>3
    <3>2. CASE b # n
      <4>1. b \in 1..(n - 1) /\ b + 1 \in e..n
        BY <1>7, <3>2
      <4>2. input[right] = q[b + 1]
        BY <1>5, <4>1 DEF Lasso, Way
      <4>3. x + (m + 1) = (b + 1) + y
        BY <1>6, <1>7, <1>8
      <4> QED BY <1>6, <4>1, <4>2, <4>3
    <3> QED BY <3>1, <3>2
  <2>6. PICK b1 \in e..n : /\ input[right] = q[b1]
                           /\ \E z \in Laps(c) : x + (m + 1) = b1 + z
    BY <2>5
  <2>7. PICK z \in Laps(c) : x + (m + 1) = b1 + z
    BY <2>6
  <2>8. turns' = x + (m + 1) - 1
    <3>1. turns' = turns + 1 /\ turns = x + m - 1 /\ m \in Nat
      BY <1>1, <1>6, <1>7
    <3> QED BY <1>8, <3>1
  <2>9. ToEntry'
    <3>1. \E u, v \in Laps(n - e + 1) : u <= n /\ u + (m + 1) = b1 + v /\ turns' = u + (m + 1) - 1
      BY <1>6, <2>7, <2>8
    <3>2. Lasso(input', n, q, e) /\ left' = q[m + 1] /\ right' = q[b1]
      BY <1>1, <1>5, <2>3, <2>4, <2>6
    <3> QED BY <1>1, <2>2, <2>6, <3>1, <3>2 DEF ToEntry
  <2> QED BY <1>1, <2>4, <2>9 DEF CyclesInv
<1>11. CASE left = right
  <2>1. Return(left)
    BY <1>11 DEF InStep
  <2>2. m = e
    BY <1>7, <1>9, <1>11
  <2>3. ReturnsTo(input, left) /\ input[1] # Null
    BY <1>1, <1>5, <2>2, LassoReturns
  <2>4. loop' = "returned" /\ output' = left
    BY <2>1 DEF Return
  <2>5. turns' <= 2 * MaxLen + 2
    <3>1. turns + 1 <= 2 * MaxLen /\ turns' = turns + 1 /\ turns \in Nat /\ MaxLen \in Nat
      BY <1>1
    <3> QED BY <3>1
  <2> QED BY <1>1, <2>3, <2>4, <2>5 DEF CyclesInv
<1> QED BY <1>10, <1>11

LEMMA CyclesRight == CyclesInv => ListsRight
<1> SUFFICES ASSUME CyclesInv PROVE ListsRight
  OBVIOUS
<1>1. /\ fn \in {"hasCycle", "detectCycle"} /\ turns \in Nat /\ MaxLen \in Nat
      /\ loop \in {"chase", "in step", "returned"}
      /\ loop = "in step" => fn = "detectCycle"
  BY ListsAssumption DEF CyclesInv, ToEntry
<1>2. loop = "returned" => AsAsked
  BY DEF AsAsked, CyclesInv
<1>3. CASE loop = "chase"
  <2>1. turns + 1 <= MaxLen
    BY <1>3, ChaseBound
  <2>2. turns <= MaxLen + 1 /\ turns <= 2 * MaxLen + 2
    <3>1. turns \in Nat /\ MaxLen \in Nat
      BY <1>1
    <3> QED BY <2>1, <3>1
  <2> QED BY <1>1, <1>3, <2>2 DEF ListsRight, Budget
<1>4. CASE loop = "in step"
  <2>1. turns + 1 <= 2 * MaxLen
    BY <1>4, ChaseBound
  <2>2. turns <= 2 * MaxLen + 2
    <3>1. turns \in Nat /\ MaxLen \in Nat
      BY <1>1
    <3> QED BY <2>1, <3>1
  <2> QED BY <1>1, <1>4, <2>2 DEF ListsRight, Budget
<1>5. CASE loop = "returned"
  <2>1. /\ fn = "hasCycle" => turns <= MaxLen + 1
        /\ fn = "detectCycle" => turns <= 2 * MaxLen + 2
    BY <1>5 DEF CyclesInv
  <2> QED BY <1>1, <1>2, <1>5, <2>1 DEF ListsRight, Budget
<1> QED BY <1>1, <1>3, <1>4, <1>5

-----------------------------------------------------------------------------
(* Where the elements of a result come from.                               *)

\* Each element of t has been taken from a place of the lists, and each place in P was taken
\* once.
Drawn(t, lists, P) ==
    \E place \in [1..Len(t) -> P] :
        /\ \A i, j \in 1..Len(t) : place[i] = place[j] => i = j
        /\ \A p \in P : \E i \in 1..Len(t) : place[i] = p
        /\ \A i \in 1..Len(t) : t[i] = lists[place[i][1]][place[i][2]]

\* Then t has each value as often as those places do.
LEMMA DrawnCounts ==
    ASSUME NEW t \in Seq(Values), NEW lists, NEW P, Drawn(t, lists, P)
    PROVE  /\ IsFiniteSet(P) /\ Cardinality(P) = Len(t)
           /\ \A c : Occurrences(t, c) = Cardinality({p \in P : lists[p[1]][p[2]] = c})
<1>1. Len(t) \in Nat /\ DOMAIN t = 1..Len(t)
  BY LenProperties
<1>2. PICK place \in [1..Len(t) -> P] :
        /\ \A i, j \in 1..Len(t) : place[i] = place[j] => i = j
        /\ \A p \in P : \E i \in 1..Len(t) : place[i] = p
        /\ \A i \in 1..Len(t) : t[i] = lists[place[i][1]][place[i][2]]
  BY DEF Drawn
<1>3. IsFiniteSet(1..Len(t)) /\ Cardinality(1..Len(t)) = Len(t)
  <2>1. /\ IsFiniteSet(1..Len(t))
        /\ Cardinality(1..Len(t)) = IF 1 > Len(t) THEN 0 ELSE Len(t) - 1 + 1
    BY <1>1, FS_Interval
  <2> QED BY <1>1, <2>1
<1>4. place \in Bijection(1..Len(t), P)
  BY <1>2 DEF Bijection, Injection, Surjection, IsInjective
<1>5. IsFiniteSet(P) /\ Cardinality(P) = Len(t)
  BY <1>3, <1>4, FS_Bijection DEF ExistsBijection
<1>6. ASSUME NEW c
      PROVE  Occurrences(t, c) = Cardinality({p \in P : lists[p[1]][p[2]] = c})
  <2> DEFINE D == {i \in 1..Len(t) : t[i] = c}
             E == {p \in P : lists[p[1]][p[2]] = c}
             f == [i \in D |-> place[i]]
  <2>1. f \in [D -> E]
    BY <1>2
  <2>2. \A i, j \in D : f[i] = f[j] => i = j
    BY <1>2
  <2>3. \A p \in E : \E i \in D : f[i] = p
    BY <1>2
  <2>4. f \in Bijection(D, E)
    BY <2>1, <2>2, <2>3 DEF Bijection, Injection, Surjection, IsInjective
  <2>5. IsFiniteSet(D)
    BY <1>3, FS_Subset
  <2>6. Cardinality(E) = Cardinality(D)
    BY <2>4, <2>5, FS_Bijection DEF ExistsBijection
  <2>7. Occurrences(t, c) = Cardinality(D)
    BY <1>1 DEF Occurrences
  <2> QED BY <2>6, <2>7
<1> QED BY <1>5, <1>6

LEMMA DrawnSelf ==
    ASSUME NEW s \in Seq(Values)
    PROVE  Drawn(s, <<s>>, {1} \X (1..Len(s)))
<1> DEFINE place == [i \in 1..Len(s) |-> <<1, i>>]
<1>1. place \in [1..Len(s) -> {1} \X (1..Len(s))]
  OBVIOUS
<1>2. \A i, j \in 1..Len(s) : place[i] = place[j] => i = j
  OBVIOUS
<1>3. \A p \in {1} \X (1..Len(s)) : \E i \in 1..Len(s) : place[i] = p
  OBVIOUS
<1>4. \A i \in 1..Len(s) : s[i] = <<s>>[place[i][1]][place[i][2]]
  OBVIOUS
<1> HIDE DEF place
<1> QED BY <1>1, <1>2, <1>3, <1>4 DEF Drawn

LEMMA DrawnSwap ==
    ASSUME NEW t \in Seq(Values), NEW lists, NEW P, Drawn(t, lists, P),
           NEW i \in 1..Len(t), NEW j \in 1..Len(t)
    PROVE  /\ Swapped(t, i, j) \in Seq(Values) /\ Len(Swapped(t, i, j)) = Len(t)
           /\ Drawn(Swapped(t, i, j), lists, P)
<1>1. t \in [1..Len(t) -> Values] /\ Len(t) \in Nat
  BY LenProperties
<1>2. PICK place \in [1..Len(t) -> P] :
        /\ \A k, m \in 1..Len(t) : place[k] = place[m] => k = m
        /\ \A p \in P : \E k \in 1..Len(t) : place[k] = p
        /\ \A k \in 1..Len(t) : t[k] = lists[place[k][1]][place[k][2]]
  BY DEF Drawn
<1> DEFINE u == Swapped(t, i, j)
           moved == [place EXCEPT ![i] = place[j], ![j] = place[i]]
<1>3. /\ u \in [1..Len(t) -> Values]
      /\ \A k \in 1..Len(t) : u[k] = IF k = j THEN t[i] ELSE IF k = i THEN t[j] ELSE t[k]
  BY <1>1 DEF Swapped
<1>4. u \in Seq(Values) /\ Len(u) = Len(t)
  <2>1. u \in Seq(Values)
    BY <1>1, <1>3, SeqDef
  <2> QED BY <1>1, <1>3, <2>1, LenProperties
<1>5. /\ moved \in [1..Len(t) -> P]
      /\ \A k \in 1..Len(t) :
            moved[k] = IF k = j THEN place[i] ELSE IF k = i THEN place[j] ELSE place[k]
  BY <1>2
<1> HIDE DEF u, moved
<1>6. \A k, m \in 1..Len(t) : moved[k] = moved[m] => k = m
  BY <1>2, <1>5
<1>7. ASSUME NEW p \in P PROVE \E k \in 1..Len(t) : moved[k] = p
  <2>1. PICK k \in 1..Len(t) : place[k] = p
    BY <1>2
  <2>2. CASE k = i
    BY <1>5, <2>1, <2>2
  <2>3. CASE k = j
    BY <1>5, <2>1, <2>3
  <2>4. CASE k # i /\ k # j
    BY <1>5, <2>1, <2>4
  <2> QED BY <2>2, <2>3, <2>4
<1>8. \A k \in 1..Len(t) : u[k] = lists[moved[k][1]][moved[k][2]]
  BY <1>2, <1>3, <1>5
<1>9. Drawn(u, lists, P)
  <2>1. moved \in [1..Len(u) -> P]
    BY <1>4, <1>5
  <2>2. \A i1, j1 \in 1..Len(u) : moved[i1] = moved[j1] => i1 = j1
    BY <1>4, <1>6
  <2>3. \A p \in P : \E i1 \in 1..Len(u) : moved[i1] = p
    BY <1>4, <1>7
  <2>4. \A i1 \in 1..Len(u) : u[i1] = lists[moved[i1][1]][moved[i1][2]]
    BY <1>4, <1>8
  <2> QED BY <2>1, <2>2, <2>3, <2>4, Zenon DEF Drawn
<1> QED BY <1>4, <1>9 DEF u

LEMMA DrawnOne ==
    ASSUME NEW t \in Seq(Values), NEW lists, NEW P, Drawn(t, lists, P),
           NEW k, NEW m, <<k, m>> \notin P, lists[k][m] \in Values
    PROVE  Drawn(Append(t, lists[k][m]), lists, P \union {<<k, m>>})
<1> DEFINE u == Append(t, lists[k][m])
           Q == P \union {<<k, m>>}
<1>1. Len(t) \in Nat
  BY LenProperties
<1>2. PICK place \in [1..Len(t) -> P] :
        /\ \A i, j \in 1..Len(t) : place[i] = place[j] => i = j
        /\ \A p \in P : \E i \in 1..Len(t) : place[i] = p
        /\ \A i \in 1..Len(t) : t[i] = lists[place[i][1]][place[i][2]]
  BY DEF Drawn
<1>3. /\ Len(u) = Len(t) + 1 /\ u[Len(t) + 1] = lists[k][m]
      /\ \A i \in 1..Len(t) : u[i] = t[i]
  BY AppendProperties
<1> DEFINE more == [i \in 1..(Len(t) + 1) |-> IF i = Len(t) + 1 THEN <<k, m>> ELSE place[i]]
<1>4. /\ \A i \in 1..(Len(t) + 1) : i \in 1..Len(t) \/ i = Len(t) + 1
      /\ \A i \in 1..Len(t) : i \in 1..(Len(t) + 1) /\ i # Len(t) + 1
      /\ Len(t) + 1 \in 1..(Len(t) + 1)
  BY <1>1
<1>5. /\ more[Len(t) + 1] = <<k, m>>
      /\ \A i \in 1..Len(t) : more[i] = place[i] /\ more[i] \in P
  BY <1>2, <1>4
<1>6. more \in [1..(Len(t) + 1) -> Q]
  BY <1>1, <1>2
<1> HIDE DEF more, u
<1>7. \A i, j \in 1..(Len(t) + 1) : more[i] = more[j] => i = j
  <2> TAKE i, j \in 1..(Len(t) + 1)
  <2> HAVE more[i] = more[j]
  <2>1. CASE i \in 1..Len(t) /\ j \in 1..Len(t)
    BY <1>2, <1>5, <2>1
  <2>2. CASE i = Len(t) + 1 \/ j = Len(t) + 1
    BY <1>4, <1>5, <2>2
  <2> QED BY <1>4, <2>1, <2>2
<1>8. \A p \in Q : \E i \in 1..(Len(t) + 1) : more[i] = p
  <2> TAKE p \in Q
  <2>1. CASE p \in P
    <3>1. PICK i \in 1..Len(t) : place[i] = p
      BY <1>2, <2>1
    <3> QED BY <1>4, <1>5, <3>1
  <2>2. CASE p = <<k, m>>
    BY <1>4, <1>5, <2>2
  <2> QED BY <2>1, <2>2
<1>9. \A i \in 1..(Len(t) + 1) : u[i] = lists[more[i][1]][more[i][2]]
  BY <1>2, <1>3, <1>4, <1>5
<1>10. Drawn(u, lists, Q)
  <2>1. more \in [1..Len(u) -> Q]
    BY <1>3, <1>6
  <2>2. \A i1, j1 \in 1..Len(u) : more[i1] = more[j1] => i1 = j1
    BY <1>3, <1>7
  <2>3. \A p \in Q : \E i1 \in 1..Len(u) : more[i1] = p
    BY <1>3, <1>8
  <2>4. \A i1 \in 1..Len(u) : u[i1] = lists[more[i1][1]][more[i1][2]]
    BY <1>3, <1>9
  <2> QED BY <2>1, <2>2, <2>3, <2>4, Zenon DEF Drawn
<1> QED BY <1>10 DEF u

\* The rest of a list at the end.
LEMMA DrawnMore ==
    ASSUME NEW t \in Seq(Values), NEW lists, NEW P, Drawn(t, lists, P),
           NEW k, lists[k] \in Seq(Values), NEW m \in 1..(Len(lists[k]) + 1),
           \A i \in m..Len(lists[k]) : <<k, i>> \notin P
    PROVE  /\ t \o SubSeq(lists[k], m, Len(lists[k])) \in Seq(Values)
           /\ Len(t \o SubSeq(lists[k], m, Len(lists[k]))) = Len(t) + Len(lists[k]) - m + 1
           /\ \A i \in 1..Len(t) : (t \o SubSeq(lists[k], m, Len(lists[k])))[i] = t[i]
           /\ Drawn(t \o SubSeq(lists[k], m, Len(lists[k])), lists,
                    P \union ({k} \X (m..Len(lists[k]))))
<1> DEFINE n == Len(lists[k])
           u == SubSeq(lists[k], m, n)
           v == t \o u
           Q == P \union ({k} \X (m..n))
<1>1. Len(t) \in Nat /\ n \in Nat /\ m \in Nat /\ 1 <= m /\ m <= n + 1
  BY LenProperties
<1>2. PICK place \in [1..Len(t) -> P] :
        /\ \A i, j \in 1..Len(t) : place[i] = place[j] => i = j
        /\ \A p \in P : \E i \in 1..Len(t) : place[i] = p
        /\ \A i \in 1..Len(t) : t[i] = lists[place[i][1]][place[i][2]]
  BY DEF Drawn
<1>3. \A i \in m..n : lists[k][i] \in Values
  BY <1>1, ElementOfSeq
<1>4. /\ u \in Seq(Values) /\ Len(u) = IF m <= n THEN n - m + 1 ELSE 0
      /\ \A i \in 1..(n - m + 1) : u[i] = lists[k][m + i - 1]
  BY <1>1, <1>3, SubSeqProperties
<1>5. Len(u) = n - m + 1
  BY <1>1, <1>4
<1>6. /\ v \in Seq(Values) /\ Len(v) = Len(t) + Len(u)
      /\ \A i \in 1..(Len(t) + Len(u)) : v[i] = IF i <= Len(t) THEN t[i] ELSE u[i - Len(t)]
  BY <1>4, ConcatProperties
<1> HIDE DEF u, v
<1> DEFINE N == Len(t) + n - m + 1
           At(i) == m + (i - Len(t)) - 1
           more == [i \in 1..N |-> IF i <= Len(t) THEN place[i] ELSE <<k, At(i)>>]
<1>7. Len(v) = N /\ N \in Nat
  BY <1>1, <1>5, <1>6
<1>8. \A i \in 1..Len(t) : v[i] = t[i]
  <2> TAKE i \in 1..Len(t)
  <2>1. i \in 1..(Len(t) + Len(u)) /\ i <= Len(t)
    BY <1>1, <1>5
  <2> QED BY <1>6, <2>1
<1>9. ASSUME NEW i \in (Len(t) + 1)..N PROVE v[i] = lists[k][At(i)] /\ At(i) \in m..n
  <2>1. /\ i \in 1..(Len(t) + Len(u)) /\ ~(i <= Len(t))
        /\ i - Len(t) \in 1..(n - m + 1) /\ m + (i - Len(t)) - 1 \in m..n
    BY <1>1, <1>5
  <2> QED BY <1>4, <1>6, <2>1
<1>10. \A i \in 1..N : i \in 1..Len(t) \/ i \in (Len(t) + 1)..N
  BY <1>1
<1>11. \A i \in 1..Len(t) : i \in 1..N /\ more[i] = place[i] /\ more[i] \in P
  BY <1>1, <1>2
<1>12. \A i \in (Len(t) + 1)..N : i \in 1..N /\ more[i] = <<k, At(i)>> /\ At(i) \in m..n
  BY <1>1
<1>13. more \in [1..N -> Q]
  <2>1. ASSUME NEW i \in 1..N PROVE more[i] \in Q
    <3>1. CASE i \in 1..Len(t)
      BY <1>11, <3>1
    <3>2. CASE i \in (Len(t) + 1)..N
      BY <1>12, <3>2
    <3> QED BY <1>10, <3>1, <3>2
  <2> QED BY <2>1
<1> HIDE DEF more
<1>14. ASSUME NEW i \in 1..N, NEW j \in 1..N, more[i] = more[j] PROVE i = j
  <2>1. CASE i \in 1..Len(t) /\ j \in 1..Len(t)
    BY <1>2, <1>11, <1>14, <2>1
  <2>2. CASE i \in (Len(t) + 1)..N /\ j \in (Len(t) + 1)..N
    <3>1. At(i) = At(j)
      BY <1>12, <1>14, <2>2
    <3> QED BY <1>1, <2>2, <3>1
  <2>3. CASE i \in 1..Len(t) /\ j \in (Len(t) + 1)..N
    BY <1>11, <1>12, <1>14, <2>3
  <2>4. CASE j \in 1..Len(t) /\ i \in (Len(t) + 1)..N
    BY <1>11, <1>12, <1>14, <2>4
  <2> QED BY <1>10, <2>1, <2>2, <2>3, <2>4
<1>15. ASSUME NEW p \in Q PROVE \E i \in 1..N : more[i] = p
  <2>1. CASE p \in P
    BY <1>2, <1>11, <2>1
  <2>2. CASE p \in {k} \X (m..n)
    <3>1. PICK x \in m..n : p = <<k, x>>
      BY <2>2
    <3> DEFINE i == x - m + 1 + Len(t)
    <3>2. i \in (Len(t) + 1)..N /\ At(i) = x
      BY <1>1
    <3> HIDE DEF i
    <3> QED BY <1>12, <3>1, <3>2
  <2> QED BY <2>1, <2>2
<1>16. \A i \in 1..N : v[i] = lists[more[i][1]][more[i][2]]
  <2> TAKE i \in 1..N
  <2>1. CASE i \in 1..Len(t)
    BY <1>2, <1>8, <1>11, <2>1
  <2>2. CASE i \in (Len(t) + 1)..N
    BY <1>9, <1>12, <2>2
  <2> QED BY <1>10, <2>1, <2>2
<1>17. Drawn(v, lists, Q)
  <2>1. more \in [1..Len(v) -> Q]
    BY <1>7, <1>13
  <2>2. \A i1, j1 \in 1..Len(v) : more[i1] = more[j1] => i1 = j1
    BY <1>7, <1>14
  <2>3. \A p \in Q : \E i1 \in 1..Len(v) : more[i1] = p
    BY <1>7, <1>15
  <2>4. \A i1 \in 1..Len(v) : v[i1] = lists[more[i1][1]][more[i1][2]]
    BY <1>7, <1>16
  <2> QED BY <2>1, <2>2, <2>3, <2>4, Zenon DEF Drawn
<1> QED BY <1>6, <1>7, <1>8, <1>17 DEF u, v

\* Elements that are not less than those of t go to its end.
InOrder(t) == \A i, j \in 1..Len(t) : i <= j => t[i] <= t[j]

LEMMA InOrderOne ==
    ASSUME NEW t \in Seq(Values), InOrder(t), NEW e \in Values,
           \A i \in 1..Len(t) : t[i] <= e
    PROVE  InOrder(Append(t, e))
<1> DEFINE u == Append(t, e)
<1>1. Len(t) \in Nat /\ e \in Int
  BY LenProperties, ListsAssumption
<1>2. /\ Len(u) = Len(t) + 1 /\ u[Len(t) + 1] = e
      /\ \A i \in 1..Len(t) : u[i] = t[i]
  BY AppendProperties
<1> HIDE DEF u
<1>3. ASSUME NEW i \in 1..Len(u), NEW j \in 1..Len(u), i <= j PROVE u[i] <= u[j]
  <2>1. CASE j \in 1..Len(t)
    <3>1. i \in 1..Len(t)
      BY <1>1, <1>3, <2>1
    <3> QED BY <1>2, <1>3, <2>1, <3>1 DEF InOrder
  <2>2. CASE j = Len(t) + 1
    <3>1. CASE i \in 1..Len(t)
      BY <1>2, <2>2, <3>1
    <3>2. CASE i = Len(t) + 1
      BY <1>1, <1>2, <2>2, <3>2
    <3> QED BY <1>1, <1>2, <3>1, <3>2
  <2> QED BY <1>1, <1>2, <2>1, <2>2
<1>4. InOrder(u)
  BY <1>3 DEF InOrder
<1> QED BY <1>4 DEF u

LEMMA InOrderMore ==
    ASSUME NEW t \in Seq(Values), InOrder(t), NEW s \in SortedVectors, NEW m \in 1..(Len(s) + 1),
           \A i \in 1..Len(t) : \A j \in m..Len(s) : t[i] <= s[j]
    PROVE  InOrder(t \o SubSeq(s, m, Len(s)))
<1> DEFINE n == Len(s)
           u == t \o SubSeq(s, m, n)
<1>1. /\ Len(t) \in Nat /\ n \in Nat /\ s \in Seq(Values) /\ m \in Nat /\ 1 <= m /\ m <= n + 1
      /\ \A i \in 1..n : s[i] \in Values
  BY LenProperties, SortedAre
<1>2. /\ SubSeq(s, m, n) \in Seq(Values)
      /\ Len(SubSeq(s, m, n)) = IF m <= n THEN n - m + 1 ELSE 0
      /\ \A i \in 1..(n - m + 1) : SubSeq(s, m, n)[i] = s[m + i - 1]
  <2>1. \A i \in m..n : s[i] \in Values
    BY <1>1
  <2> QED BY <1>1, <2>1, SubSeqProperties
<1>3. Len(SubSeq(s, m, n)) = n - m + 1
  BY <1>1, <1>2
<1>4. /\ Len(u) = Len(t) + (n - m + 1)
      /\ \A i \in 1..(Len(t) + (n - m + 1)) :
            u[i] = IF i <= Len(t) THEN t[i] ELSE SubSeq(s, m, n)[i - Len(t)]
  BY <1>2, <1>3, ConcatProperties
<1>5. ASSUME NEW i \in 1..Len(u), ~(i <= Len(t))
      PROVE  u[i] = s[m + (i - Len(t)) - 1] /\ m + (i - Len(t)) - 1 \in m..n
  <2>1. i - Len(t) \in 1..(n - m + 1) /\ m + (i - Len(t)) - 1 \in m..n
    BY <1>1, <1>4, <1>5
  <2> QED BY <1>2, <1>4, <1>5, <2>1
<1>6. \A i \in 1..Len(u) : i <= Len(t) => i \in 1..Len(t) /\ u[i] = t[i]
  BY <1>1, <1>4
<1>7. Len(u) \in Nat
  BY <1>1, <1>4
<1> HIDE DEF u
<1>8. ASSUME NEW i \in 1..Len(u), NEW j \in 1..Len(u), i <= j PROVE u[i] <= u[j]
  <2>1. CASE j <= Len(t)
    <3>1. i <= Len(t)
      BY <1>1, <1>7, <1>8, <2>1
    <3> QED BY <1>6, <1>8, <2>1, <3>1 DEF InOrder
  <2>2. CASE ~(j <= Len(t)) /\ i <= Len(t)
    BY <1>5, <1>6, <2>2
  <2>3. CASE ~(j <= Len(t)) /\ ~(i <= Len(t))
    <3>1. /\ m + (i - Len(t)) - 1 \in 1..n /\ m + (j - Len(t)) - 1 \in 1..n
          /\ m + (i - Len(t)) - 1 <= m + (j - Len(t)) - 1
      BY <1>1, <1>5, <1>7, <1>8, <2>3
    <3> QED BY <1>5, <2>3, <3>1, SortedAre
  <2> QED BY <2>1, <2>2, <2>3
<1>9. InOrder(u)
  BY <1>8 DEF InOrder
<1> QED BY <1>9 DEF u

LEMMA InOrderIs ==
    ASSUME NEW t \in Seq(Values)
    PROVE  Ascending(t) <=> InOrder(t)
  BY LenProperties DEF Ascending, InOrder

-----------------------------------------------------------------------------
(* merge and mergeRecursive: what has been linked is in order and comes    *)
(* before what has not.                                                    *)

MergePlaces == ({1} \X (1..(left - 1))) \union ({2} \X (1..(right - 1)))

MergeInv ==
    LET a == input[1]  b == input[2]
    IN /\ fn \in {"merge", "mergeRecursive"} /\ loop \in {"merge", "for ever", "returned"}
       /\ a \in SortedVectors /\ b \in SortedVectors /\ input = <<a, b>>
       /\ loop = "merge" =>
            /\ left \in 1..(Len(a) + 1) /\ right \in 1..(Len(b) + 1)
            /\ turns = left + right - 2
            /\ output \in Seq(Values) /\ Drawn(output, input, MergePlaces)
            /\ InOrder(output)
            /\ \A i \in 1..Len(output) : \A j \in left..Len(a) : output[i] <= a[j]
            /\ \A i \in 1..Len(output) : \A j \in right..Len(b) : output[i] <= b[j]
            /\ fn = "merge" => right = 1 /\ \A i \in 1..(left - 1) : b # <<>> => a[i] < b[1]
       /\ loop = "returned" =>
            /\ Merged(input, output)
            /\ fn = "merge" => ~OutOfTurn(a, b)
       /\ turns \in Nat /\ turns <= Len(a) + Len(b) + 1
       /\ loop = "for ever" => fn = "merge" /\ OutOfTurn(a, b)

LEMMA MergeStarts ==
    ASSUME Merge, turns' = 0
    PROVE  MergeInv'
<1> PICK a \in SortedVectors, b \in SortedVectors, f \in {"merge", "mergeRecursive"} :
        Call(f, <<a, b>>, "merge", <<>>, 1, 1, <<>>)
  BY DEF Merge
<1>1. Len(a) \in Nat /\ Len(b) \in Nat
  BY SortedAre
<1>2. <<>> \in Seq(Values) /\ Len(<<>>) = 0
  OBVIOUS
<1>3. Drawn(<<>>, <<a, b>>, {})
  <2>1. <<>> \in [1..Len(<<>>) -> {}] /\ 1..Len(<<>>) = {}
    BY <1>2
  <2> QED BY <2>1 DEF Drawn
<1>4. MergePlaces' = {}
  BY DEF MergePlaces, Call
<1> QED BY <1>1, <1>2, <1>3, <1>4 DEF MergeInv, Call, InOrder

\* What stays as it is, and what a turn starts from.
LEMMA MergeBefore ==
    ASSUME MergeInv, loop = "merge", Kept
    PROVE  /\ fn \in {"merge", "mergeRecursive"} /\ fn' = fn /\ input' = input /\ turns' = turns + 1
           /\ input[1] \in SortedVectors /\ input[2] \in SortedVectors
           /\ input = <<input[1], input[2]>>
           /\ Len(input[1]) \in Nat /\ Len(input[2]) \in Nat
           /\ left \in 1..(Len(input[1]) + 1) /\ right \in 1..(Len(input[2]) + 1)
           /\ turns = left + right - 2
           /\ output \in Seq(Values) /\ Len(output) \in Nat
           /\ Drawn(output, input, MergePlaces)
           /\ InOrder(output)
  BY SortedAre, LenProperties DEF MergeInv, Kept

LEMMA MergeReturns ==
    ASSUME MergeInv, loop = "merge", left > Len(input[1]) \/ right > Len(input[2])
    PROVE  Merged(input, output \o SubSeq(input[1], left, Len(input[1]))
                                \o SubSeq(input[2], right, Len(input[2])))
<1> DEFINE a == input[1]  b == input[2]
           t == output \o SubSeq(a, left, Len(a))
           u == t \o SubSeq(b, right, Len(b))
           P == MergePlaces \union ({1} \X (left..Len(a)))
           Q == P \union ({2} \X (right..Len(b)))
<1>1. /\ a \in SortedVectors /\ b \in SortedVectors /\ input = <<a, b>>
      /\ left \in 1..(Len(a) + 1) /\ right \in 1..(Len(b) + 1)
      /\ output \in Seq(Values) /\ Drawn(output, input, MergePlaces) /\ InOrder(output)
  BY DEF MergeInv
<1>2. /\ \A i \in 1..Len(output) : \A j \in left..Len(a) : output[i] <= a[j]
      /\ \A i \in 1..Len(output) : \A j \in right..Len(b) : output[i] <= b[j]
  BY DEF MergeInv
<1>3. /\ Len(a) \in Nat /\ Len(b) \in Nat /\ a \in Seq(Values) /\ b \in Seq(Values)
      /\ Len(output) \in Nat
  BY <1>1, SortedAre, LenProperties
<1>4. \A i \in left..Len(a) : <<1, i>> \notin MergePlaces
  BY <1>1, <1>3 DEF MergePlaces
<1>5. /\ t \in Seq(Values) /\ Len(t) = Len(output) + Len(a) - left + 1
      /\ \A i \in 1..Len(output) : t[i] = output[i]
      /\ Drawn(t, input, P)
  <2>1. input[1] \in Seq(Values) /\ left \in 1..(Len(input[1]) + 1)
    BY <1>1, <1>3
  <2>2. output \in Seq(Values) /\ Drawn(output, input, MergePlaces)
    BY <1>1
  <2>3. t \in Seq(Values)
    BY <1>4, <2>1, <2>2, DrawnMore
  <2>4. Len(t) = Len(output) + Len(a) - left + 1
    BY <1>4, <2>1, <2>2, DrawnMore
  <2>5. \A i \in 1..Len(output) : t[i] = output[i]
    BY <1>4, <2>1, <2>2, DrawnMore
  <2>6. Drawn(t, input, P)
    BY <1>4, <2>1, <2>2, DrawnMore
  <2> QED BY <2>3, <2>4, <2>5, <2>6
<1>6. InOrder(t)
  BY <1>1, <1>2, InOrderMore
<1>7. \A i \in right..Len(b) : <<2, i>> \notin P
  BY <1>1, <1>3 DEF MergePlaces
<1> HIDE DEF t, P
<1>8. u \in Seq(Values) /\ Drawn(u, input, Q)
  BY <1>1, <1>3, <1>5, <1>7, DrawnMore
<1>9. \A i \in 1..Len(t) : \A j \in right..Len(b) : t[i] <= b[j]
  <2>1. CASE right > Len(b)
    BY <1>1, <1>3, <2>1
  <2>2. CASE left > Len(a)
    <3>1. Len(t) = Len(output)
      BY <1>1, <1>3, <1>5, <2>2
    <3> QED BY <1>2, <1>5, <3>1
  <2> QED BY <2>1, <2>2
<1>10. InOrder(u)
  BY <1>1, <1>5, <1>6, <1>9, InOrderMore
<1>11. Places(input) = Q
  <2>1. Places(input) = ({1} \X (1..Len(a))) \union ({2} \X (1..Len(b)))
    <3>1. DOMAIN input = {1, 2}
      BY <1>1
    <3> QED BY <3>1 DEF Places
  <2>2. 1..Len(a) = (1..(left - 1)) \union (left..Len(a))
    BY <1>1, <1>3
  <2>3. 1..Len(b) = (1..(right - 1)) \union (right..Len(b))
    BY <1>1, <1>3
  <2> QED BY <2>1, <2>2, <2>3 DEF P, MergePlaces
<1> HIDE DEF u, Q
<1>12. Merged(input, u)
  <2>1. Ascending(u)
    BY <1>8, <1>10, InOrderIs
  <2>2. \A c : Occurrences(u, c) = Cardinality({p \in Q : input[p[1]][p[2]] = c})
    BY <1>8, DrawnCounts
  <2> QED BY <1>11, <2>1, <2>2 DEF Merged
<1> QED BY <1>12 DEF t, u

LEMMA MergeKeeps ==
    ASSUME MergeInv, MergeTurn, Kept
    PROVE  MergeInv'
<1> DEFINE a == input[1]  b == input[2]
<1>1. loop = "merge"
  BY DEF MergeTurn
<1>2. /\ fn \in {"merge", "mergeRecursive"} /\ fn' = fn /\ input' = input /\ turns' = turns + 1
      /\ a \in SortedVectors /\ b \in SortedVectors /\ input = <<a, b>>
      /\ Len(a) \in Nat /\ Len(b) \in Nat
      /\ left \in 1..(Len(a) + 1) /\ right \in 1..(Len(b) + 1) /\ turns = left + right - 2
  BY <1>1, MergeBefore
<1>3. /\ Len(a) \in Nat /\ Len(b) \in Nat
      /\ left \in 1..(Len(a) + 1) /\ right \in 1..(Len(b) + 1)
      /\ turns' = turns + 1 /\ turns = left + right - 2
  BY <1>2
<1>4. /\ output \in Seq(Values) /\ Len(output) \in Nat
      /\ Drawn(output, input, MergePlaces) /\ InOrder(output)
  BY <1>1, MergeBefore
<1>5. fn = "merge" => right = 1 /\ \A i \in 1..(left - 1) : b # <<>> => a[i] < b[1]
  BY <1>1 DEF MergeInv
<1>6. /\ \A i \in 1..Len(output) : \A j \in left..Len(a) : output[i] <= a[j]
      /\ \A i \in 1..Len(output) : \A j \in right..Len(b) : output[i] <= b[j]
  BY <1>1 DEF MergeInv
<1>7. turns' \in Nat /\ turns' <= Len(a) + Len(b) + 1
  BY <1>2
<1>8. CASE left > Len(a) \/ right > Len(b)
  <2>1. /\ loop' = "returned"
        /\ output' = output \o SubSeq(a, left, Len(a)) \o SubSeq(b, right, Len(b))
    BY <1>8 DEF MergeTurn, Return
  <2>2. Merged(input', output')
    BY <1>1, <1>2, <1>8, <2>1, MergeReturns
  <2>3. ASSUME fn = "merge" PROVE ~OutOfTurn(a, b)
    <3>1. SUFFICES ASSUME a # <<>>, b # <<>> PROVE ~(Last(a) >= Head(b))
      BY DEF OutOfTurn
    <3>2. /\ Len(a) \in Nat /\ Len(b) \in Nat /\ Len(a) >= 1 /\ Len(b) >= 1
          /\ \A i \in 1..Len(a) : a[i] \in Int
          /\ \A i \in 1..Len(b) : b[i] \in Int
      BY <1>2, <3>1, SortedAre, EmptySeq
    <3>3. left = Len(a) + 1
      BY <1>2, <1>5, <1>8, <2>3, <3>2
    <3>4. Len(a) \in 1..(left - 1) /\ Len(a) \in 1..Len(a) /\ 1 \in 1..Len(b)
      BY <3>2, <3>3
    <3>5. a[Len(a)] < b[1]
      BY <1>5, <2>3, <3>1, <3>4
    <3>6. a[Len(a)] \in Int /\ b[1] \in Int
      BY <3>2, <3>4
    <3>7. ~(a[Len(a)] >= b[1])
      BY <3>5, <3>6
    <3> QED BY <3>7 DEF Last
  <2> QED BY <1>2, <1>7, <2>1, <2>2, <2>3 DEF MergeInv
<1>9. ASSUME ~(left > Len(a) \/ right > Len(b))
      PROVE  /\ left \in 1..Len(a) /\ right \in 1..Len(b)
             /\ a[left] \in Values /\ b[right] \in Values /\ a[left] \in Int /\ b[right] \in Int
  <2>1. left \in 1..Len(a) /\ right \in 1..Len(b)
    BY <1>2, <1>9
  <2> QED BY <1>2, <2>1, SortedAre
<1>10. CASE ~(left > Len(a) \/ right > Len(b)) /\ a[left] < b[right]
  <2>1. /\ left \in 1..Len(a) /\ right \in 1..Len(b)
        /\ a[left] \in Values /\ b[right] \in Values /\ a[left] \in Int /\ b[right] \in Int
    BY <1>9, <1>10
  <2>2. Step(Append(output, a[left]), left + 1, right)
    BY <1>10 DEF MergeTurn
  <2>3. /\ output' \in Seq(Values) /\ Len(output') = Len(output) + 1
        /\ output'[Len(output) + 1] = a[left] /\ \A i \in 1..Len(output) : output'[i] = output[i]
    BY <1>4, <2>1, <2>2, AppendProperties DEF Step
  <2>4. Drawn(output', input, MergePlaces')
    <3>1. MergePlaces' = MergePlaces \union {<<1, left>>}
      <4>1. 1..left = (1..(left - 1)) \union {left} /\ left + 1 - 1 = left
        BY <2>1
      <4> QED BY <2>2, <4>1 DEF MergePlaces, Step
    <3>2. <<1, left>> \notin MergePlaces
      BY <2>1 DEF MergePlaces
    <3> QED BY <1>4, <2>1, <2>2, <3>1, <3>2, DrawnOne DEF Step
  <2>5. InOrder(output')
    <3>1. left \in left..Len(a)
      BY <2>1
    <3>2. \A i \in 1..Len(output) : output[i] <= a[left]
      BY <1>6, <3>1
    <3> QED BY <1>4, <2>1, <2>2, <3>2, InOrderOne DEF Step
  <2>6. ASSUME NEW i \in 1..Len(output'), NEW j \in (left + 1)..Len(a) PROVE output'[i] <= a[j]
    <3>1. j \in left..Len(a) /\ j \in 1..Len(a) /\ left <= j
      BY <1>3, <2>1
    <3>2. CASE i \in 1..Len(output)
      BY <1>6, <2>3, <3>1, <3>2
    <3>3. CASE i = Len(output) + 1
      BY <1>2, <2>1, <2>3, <3>1, <3>3, SortedAre
    <3> QED BY <1>4, <2>3, <3>2, <3>3
  <2>7. ASSUME NEW i \in 1..Len(output'), NEW j \in right..Len(b) PROVE output'[i] <= b[j]
    <3>1. CASE i \in 1..Len(output)
      BY <1>6, <2>3, <3>1
    <3>2. CASE i = Len(output) + 1
      <4>1. j \in 1..Len(b) /\ right <= j
        BY <1>3, <2>1
      <4>2. b[right] <= b[j] /\ b[j] \in Int
        BY <1>2, <2>1, <4>1, SortedAre
      <4> QED BY <1>10, <2>1, <2>3, <3>2, <4>2
    <3> QED BY <1>4, <2>3, <3>1, <3>2
  <2>8. fn = "merge" => right = 1 /\ \A i \in 1..left : b # <<>> => a[i] < b[1]
    <3>1. \A i \in 1..left : i \in 1..(left - 1) \/ i = left
      BY <2>1
    <3> QED BY <1>5, <1>10, <3>1
  <2>9. /\ loop' = "merge" /\ left' = left + 1 /\ right' = right /\ left' - 1 = left
        /\ left' \in 1..(Len(a) + 1) /\ turns' = left' + right' - 2
    BY <1>1, <1>3, <2>1, <2>2 DEF Step
  <2> QED BY <1>2, <1>7, <2>3, <2>4, <2>5, <2>6, <2>7, <2>8, <2>9 DEF MergeInv
<1>11. CASE ~(left > Len(a) \/ right > Len(b)) /\ ~(a[left] < b[right]) /\ fn = "merge"
  <2>1. /\ left \in 1..Len(a) /\ right \in 1..Len(b)
        /\ a[left] \in Int /\ b[right] \in Int
    BY <1>9, <1>11
  <2>2. Goto("for ever")
    BY <1>11 DEF MergeTurn
  <2>3. right = 1
    BY <1>5, <1>11
  <2>4. Len(a) \in 1..Len(a) /\ left <= Len(a) /\ a # <<>> /\ b # <<>>
    BY <1>2, <2>1
  <2>5. a[left] <= a[Len(a)] /\ a[Len(a)] \in Int
    BY <1>2, <2>1, <2>4, SortedAre
  <2>6. a[Len(a)] >= b[1]
    BY <1>11, <2>1, <2>3, <2>5
  <2>7. OutOfTurn(a, b)
    BY <2>4, <2>6 DEF OutOfTurn, Last
  <2> QED BY <1>2, <1>7, <1>11, <2>2, <2>7 DEF MergeInv, Goto
<1>12. CASE ~(left > Len(a) \/ right > Len(b)) /\ ~(a[left] < b[right]) /\ fn # "merge"
  <2>1. /\ left \in 1..Len(a) /\ right \in 1..Len(b)
        /\ a[left] \in Values /\ b[right] \in Values /\ a[left] \in Int /\ b[right] \in Int
    BY <1>9, <1>12
  <2>2. Step(Append(output, b[right]), left, right + 1)
    BY <1>12 DEF MergeTurn
  <2>3. /\ output' \in Seq(Values) /\ Len(output') = Len(output) + 1
        /\ output'[Len(output) + 1] = b[right] /\ \A i \in 1..Len(output) : output'[i] = output[i]
    BY <1>4, <2>1, <2>2, AppendProperties DEF Step
  <2>4. Drawn(output', input, MergePlaces')
    <3>1. MergePlaces' = MergePlaces \union {<<2, right>>}
      <4>1. 1..right = (1..(right - 1)) \union {right} /\ right + 1 - 1 = right
        BY <2>1
      <4> QED BY <2>2, <4>1 DEF MergePlaces, Step
    <3>2. <<2, right>> \notin MergePlaces
      BY <2>1 DEF MergePlaces
    <3> QED BY <1>4, <2>1, <2>2, <3>1, <3>2, DrawnOne DEF Step
  <2>5. InOrder(output')
    <3>1. right \in right..Len(b)
      BY <2>1
    <3>2. \A i \in 1..Len(output) : output[i] <= b[right]
      BY <1>6, <3>1
    <3> QED BY <1>4, <2>1, <2>2, <3>2, InOrderOne DEF Step
  <2>6. ASSUME NEW i \in 1..Len(output'), NEW j \in left..Len(a) PROVE output'[i] <= a[j]
    <3>1. CASE i \in 1..Len(output)
      BY <1>6, <2>3, <3>1
    <3>2. CASE i = Len(output) + 1
      <4>1. j \in 1..Len(a) /\ left <= j
        BY <1>3, <2>1
      <4>2. a[left] <= a[j] /\ a[j] \in Int
        BY <1>2, <2>1, <4>1, SortedAre
      <4> QED BY <1>12, <2>1, <2>3, <3>2, <4>2
    <3> QED BY <1>4, <2>3, <3>1, <3>2
  <2>7. ASSUME NEW i \in 1..Len(output'), NEW j \in (right + 1)..Len(b) PROVE output'[i] <= b[j]
    <3>1. j \in right..Len(b) /\ j \in 1..Len(b) /\ right <= j
      BY <1>3, <2>1
    <3>2. CASE i \in 1..Len(output)
      BY <1>6, <2>3, <3>1, <3>2
    <3>3. CASE i = Len(output) + 1
      BY <1>2, <2>1, <2>3, <3>1, <3>3, SortedAre
    <3> QED BY <1>4, <2>3, <3>2, <3>3
  <2>8. /\ loop' = "merge" /\ left' = left /\ right' = right + 1
        /\ right' \in 1..(Len(b) + 1) /\ turns' = left' + right' - 2
    BY <1>1, <1>3, <2>1, <2>2 DEF Step
  <2> QED BY <1>2, <1>7, <1>12, <2>3, <2>4, <2>5, <2>6, <2>7, <2>8 DEF MergeInv
<1> QED BY <1>8, <1>10, <1>11, <1>12

LEMMA MergeRight == MergeInv => ListsRight
<1> SUFFICES ASSUME MergeInv PROVE ListsRight
  OBVIOUS
<1>1. fn \in {"merge", "mergeRecursive"}
  BY DEF MergeInv
<1>2. turns <= Len(input[1]) + Len(input[2]) + 1
  BY DEF MergeInv
<1>3. loop = "for ever" => OutOfTurn(input[1], input[2])
  BY DEF MergeInv
<1>4. loop = "returned" => Merged(input, output) /\ (fn = "merge" => ~OutOfTurn(input[1], input[2]))
  BY DEF MergeInv
<1>5. loop = "returned" => AsAsked
  BY <1>1, <1>4 DEF AsAsked
<1> QED BY <1>1, <1>2, <1>3, <1>5 DEF ListsRight, Budget

-----------------------------------------------------------------------------
(* mergeKLists: the same with a place in each list.                        *)

ShortLists == BoundedSeq({s \in SortedVectors : Len(s) <= MaxShort}, MaxLists)

\* The nodes before the present ones.
Behind == UNION {{k} \X (1..(locals[k] - 1)) : k \in DOMAIN input}

MergeKInv ==
    /\ fn = "mergeKLists" /\ loop \in {"queue", "returned"}
    /\ input \in ShortLists
    /\ loop = "queue" =>
        /\ locals \in [DOMAIN input -> Nat]
        /\ \A k \in DOMAIN input : 1 <= locals[k] /\ locals[k] <= Len(input[k]) + 1
        /\ output \in Seq(Values) /\ Drawn(output, input, Behind) /\ InOrder(output)
        /\ \A i \in 1..Len(output) : \A k \in DOMAIN input : \A j \in locals[k]..Len(input[k]) :
               output[i] <= input[k][j]
        /\ turns = Len(output)
    /\ loop = "returned" => Merged(input, output)
    /\ turns \in Nat /\ turns <= Cardinality(Places(input)) + 1

LEMMA ListsAre ==
    ASSUME NEW lists \in ShortLists
    PROVE  /\ Len(lists) \in Nat /\ DOMAIN lists = 1..Len(lists)
           /\ \A k \in DOMAIN lists :
                 lists[k] \in SortedVectors /\ Len(lists[k]) \in Nat /\ Len(lists[k]) <= MaxShort
           /\ IsFiniteSet(Places(lists)) /\ Cardinality(Places(lists)) \in Nat
<1> DEFINE Short == {s \in SortedVectors : Len(s) <= MaxShort}
<1>1. PICK m \in 0..MaxLists : lists \in [1..m -> Short]
  BY DEF ShortLists, BoundedSeq, SeqOf
<1>2. m \in Nat /\ MaxShort \in Nat
  BY <1>1, ListsAssumption
<1>3. lists \in Seq(Short)
  BY <1>1, <1>2, SeqDef
<1>4. Len(lists) = m /\ DOMAIN lists = 1..m
  BY <1>1, <1>2, <1>3, LenProperties
<1>5. ASSUME NEW k \in DOMAIN lists
      PROVE  lists[k] \in SortedVectors /\ Len(lists[k]) \in Nat /\ Len(lists[k]) <= MaxShort
  <2>1. lists[k] \in Short
    BY <1>1, <1>4
  <2> QED BY <2>1, SortedAre
<1>6. IsFiniteSet(1..m) /\ IsFiniteSet(1..MaxShort)
  BY <1>2, FS_Interval
<1>7. IsFiniteSet((1..m) \X (1..MaxShort))
  BY <1>6, FS_Product
<1>8. Places(lists) \subseteq (1..m) \X (1..MaxShort)
  <2> SUFFICES ASSUME NEW p \in Places(lists) PROVE p \in (1..m) \X (1..MaxShort)
    OBVIOUS
  <2>1. PICK k \in DOMAIN lists : p \in {k} \X (1..Len(lists[k]))
    BY DEF Places
  <2>2. PICK j \in 1..Len(lists[k]) : p = <<k, j>>
    BY <2>1
  <2>3. j \in 1..MaxShort
    BY <1>2, <1>5, <2>2
  <2> QED BY <1>4, <2>2, <2>3
<1>9. IsFiniteSet(Places(lists)) /\ Cardinality(Places(lists)) \in Nat
  BY <1>7, <1>8, FS_Subset, FS_CardinalityType
<1> QED BY <1>2, <1>4, <1>5, <1>9

LEMMA MergeKStarts ==
    ASSUME MergeKLists, turns' = 0
    PROVE  MergeKInv'
<1> PICK lists \in ShortLists :
        Call("mergeKLists", lists, "queue", <<>>, 0, 0, [k \in DOMAIN lists |-> 1])
  BY DEF MergeKLists, ShortLists
<1>1. <<>> \in Seq(Values) /\ Len(<<>>) = 0
  OBVIOUS
<1>2. Drawn(<<>>, lists, {})
  <2>1. <<>> \in [1..Len(<<>>) -> {}] /\ 1..Len(<<>>) = {}
    BY <1>1
  <2> QED BY <2>1 DEF Drawn
<1>3. Behind' = {}
  BY DEF Behind, Call
<1>4. \A k \in DOMAIN lists : 1 <= Len(lists[k]) + 1
  BY ListsAre
<1>5. Cardinality(Places(lists)) \in Nat
  BY ListsAre
<1> QED BY <1>1, <1>2, <1>3, <1>4, <1>5 DEF MergeKInv, Call, InOrder

LEMMA MergeKKeeps ==
    ASSUME MergeKInv, MergeKTurn, Kept
    PROVE  MergeKInv'
<1> DEFINE open == {k \in DOMAIN input : locals[k] <= Len(input[k])}
<1>1. loop = "queue"
  BY DEF MergeKTurn
<1>2. /\ fn = "mergeKLists" /\ input \in ShortLists /\ fn' = fn /\ input' = input
      /\ turns' = turns + 1 /\ turns = Len(output)
      /\ locals \in [DOMAIN input -> Nat]
      /\ output \in Seq(Values) /\ Drawn(output, input, Behind) /\ InOrder(output)
  BY <1>1 DEF MergeKInv, Kept
<1>3. /\ \A k \in DOMAIN input : 1 <= locals[k] /\ locals[k] <= Len(input[k]) + 1
      /\ \A i \in 1..Len(output) : \A k \in DOMAIN input : \A j \in locals[k]..Len(input[k]) :
             output[i] <= input[k][j]
  BY <1>1 DEF MergeKInv
<1>4. \A k \in DOMAIN input :
          input[k] \in SortedVectors /\ Len(input[k]) \in Nat /\ locals[k] \in Nat
  BY <1>2, ListsAre
<1>5. turns' \in Nat /\ turns' <= Cardinality(Places(input)) + 1
  <2>1. Cardinality(Behind) = Len(output) /\ Len(output) \in Nat
    BY <1>2, DrawnCounts, LenProperties
  <2>2. Behind \subseteq Places(input)
    <3> SUFFICES ASSUME NEW k \in DOMAIN input, NEW j \in 1..(locals[k] - 1)
                 PROVE  j \in 1..Len(input[k])
      BY DEF Behind, Places
    <3> QED BY <1>3, <1>4
  <2>3. Cardinality(Behind) <= Cardinality(Places(input)) /\ Cardinality(Places(input)) \in Nat
    BY <1>2, <2>2, ListsAre, FS_Subset
  <2> QED BY <1>2, <2>1, <2>3
<1>6. CASE open = {} /\ Return(output)
  <2>1. Behind = Places(input)
    <3>1. ASSUME NEW k \in DOMAIN input PROVE locals[k] - 1 = Len(input[k])
      BY <1>3, <1>4, <1>6
    <3> QED BY <3>1 DEF Behind, Places
  <2>2. Merged(input, output)
    <3>1. Ascending(output)
      BY <1>2, InOrderIs
    <3>2. \A c : Occurrences(output, c) = Cardinality({p \in Behind : input[p[1]][p[2]] = c})
      BY <1>2, DrawnCounts
    <3> QED BY <2>1, <3>1, <3>2 DEF Merged
  <2> QED BY <1>2, <1>5, <1>6, <2>2 DEF MergeKInv, Return
<1>7. CASE \E top \in open :
             /\ \A k \in open : input[top][locals[top]] <= input[k][locals[k]]
             /\ output' = Append(output, input[top][locals[top]])
             /\ locals' = [locals EXCEPT ![top] = @ + 1]
             /\ UNCHANGED <<loop, left, right>>
  <2> PICK top \in open :
             /\ \A k \in open : input[top][locals[top]] <= input[k][locals[k]]
             /\ output' = Append(output, input[top][locals[top]])
             /\ locals' = [locals EXCEPT ![top] = @ + 1]
             /\ loop' = loop
    BY <1>7
  <2> DEFINE e == input[top][locals[top]]
  <2>1. top \in DOMAIN input /\ locals[top] \in 1..Len(input[top]) /\ e \in Values /\ e \in Int
    <3>1. top \in DOMAIN input /\ locals[top] \in 1..Len(input[top])
      BY <1>3, <1>4
    <3> QED BY <1>4, <3>1, SortedAre
  <2>2. /\ locals' \in [DOMAIN input -> Nat] /\ locals'[top] = locals[top] + 1
        /\ \A k \in DOMAIN input : k # top => locals'[k] = locals[k]
    BY <1>2, <1>4, <2>1
  <2>3. /\ output' \in Seq(Values) /\ Len(output') = Len(output) + 1 /\ Len(output) \in Nat
        /\ output'[Len(output) + 1] = e /\ \A i \in 1..Len(output) : output'[i] = output[i]
    BY <1>2, <2>1, AppendProperties, LenProperties
  <2>4. \A k \in DOMAIN input : \A j \in locals[k]..Len(input[k]) : e <= input[k][j]
    <3> TAKE k \in DOMAIN input
    <3> TAKE j \in locals[k]..Len(input[k])
    <3>1. locals[k] \in 1..Len(input[k]) /\ j \in 1..Len(input[k]) /\ locals[k] <= j
      BY <1>3, <1>4
    <3>2. k \in open
      BY <3>1
    <3>3. e <= input[k][locals[k]]
      BY <3>2
    <3>4. /\ input[k][locals[k]] <= input[k][j]
          /\ input[k][locals[k]] \in Int /\ input[k][j] \in Int
      BY <1>4, <3>1, SortedAre
    <3> QED BY <2>1, <3>3, <3>4
  <2>5. \A k \in DOMAIN input : 1 <= locals'[k] /\ locals'[k] <= Len(input[k]) + 1
    BY <1>3, <1>4, <2>1, <2>2
  <2>6. Behind' = Behind \union {<<top, locals[top]>>} /\ <<top, locals[top]>> \notin Behind
    <3>1. ASSUME NEW k \in DOMAIN input
          PROVE  1..(locals'[k] - 1) = IF k = top THEN (1..(locals[k] - 1)) \union {locals[top]}
                                       ELSE 1..(locals[k] - 1)
      <4>1. CASE k = top
        <5>1. locals[top] \in Nat /\ locals[top] >= 1 /\ locals'[k] - 1 = locals[top]
          BY <1>4, <2>1, <2>2, <4>1
        <5>2. 1..locals[top] = (1..(locals[top] - 1)) \union {locals[top]}
          BY <5>1
        <5> QED BY <4>1, <5>1, <5>2
      <4>2. CASE k # top
        BY <2>2, <4>2
      <4> QED BY <4>1, <4>2
    <3>2. ASSUME NEW p \in Behind' PROVE p \in Behind \union {<<top, locals[top]>>}
      <4>1. PICK k \in DOMAIN input : \E j \in 1..(locals'[k] - 1) : p = <<k, j>>
        BY <1>2, <3>2 DEF Behind
      <4>2. PICK j \in 1..(locals'[k] - 1) : p = <<k, j>>
        BY <4>1
      <4>3. CASE j \in 1..(locals[k] - 1)
        BY <4>2, <4>3 DEF Behind
      <4>4. CASE k = top /\ j = locals[top]
        BY <4>2, <4>4
      <4> QED BY <3>1, <4>2, <4>3, <4>4
    <3>3. ASSUME NEW p \in Behind \union {<<top, locals[top]>>} PROVE p \in Behind'
      <4>1. CASE p \in Behind
        <5>1. PICK k \in DOMAIN input : \E j \in 1..(locals[k] - 1) : p = <<k, j>>
          BY <4>1 DEF Behind
        <5>2. PICK j \in 1..(locals[k] - 1) : p = <<k, j>>
          BY <5>1
        <5>3. j \in 1..(locals'[k] - 1)
          BY <3>1
        <5> QED BY <1>2, <5>2, <5>3 DEF Behind
      <4>2. CASE p = <<top, locals[top]>>
        <5>1. locals[top] \in 1..(locals'[top] - 1)
          BY <2>1, <3>1
        <5> QED BY <1>2, <2>1, <4>2, <5>1 DEF Behind
      <4> QED BY <4>1, <4>2
    <3>4. <<top, locals[top]>> \notin Behind
      <4> SUFFICES ASSUME <<top, locals[top]>> \in Behind PROVE FALSE
        OBVIOUS
      <4>1. PICK k \in DOMAIN input : <<top, locals[top]>> \in {k} \X (1..(locals[k] - 1))
        BY DEF Behind
      <4>2. locals[top] \in 1..(locals[top] - 1)
        BY <4>1
      <4> QED BY <1>4, <2>1, <4>2
    <3> QED BY <3>2, <3>3, <3>4
  <2>7. Drawn(output', input, Behind')
    BY <1>2, <2>1, <2>6, DrawnOne
  <2>8. InOrder(output')
    <3>1. \A i \in 1..Len(output) : output[i] <= e
      <4>1. locals[top] \in locals[top]..Len(input[top])
        BY <2>1
      <4> QED BY <1>3, <2>1, <4>1
    <3> QED BY <1>2, <2>1, <3>1, InOrderOne
  <2>9. ASSUME NEW i \in 1..Len(output'), NEW k \in DOMAIN input,
               NEW j \in locals'[k]..Len(input[k])
        PROVE  output'[i] <= input[k][j]
    <3>1. j \in locals[k]..Len(input[k])
      <4>1. locals'[k] = locals[k] \/ locals'[k] = locals[k] + 1
        BY <2>2
      <4> QED BY <1>4, <4>1
    <3>2. CASE i \in 1..Len(output)
      BY <1>3, <2>3, <3>1, <3>2
    <3>3. CASE i = Len(output) + 1
      BY <2>3, <2>4, <3>1, <3>3
    <3> QED BY <2>3, <3>2, <3>3
  <2>10. turns' = Len(output') /\ loop' = "queue"
    BY <1>1, <1>2, <2>3
  <2> QED BY <1>2, <1>5, <2>2, <2>3, <2>5, <2>7, <2>8, <2>9, <2>10 DEF MergeKInv
<1> QED BY <1>6, <1>7 DEF MergeKTurn

LEMMA MergeKRight == MergeKInv => ListsRight
<1> SUFFICES ASSUME MergeKInv PROVE ListsRight
  OBVIOUS
<1>1. fn = "mergeKLists" /\ loop # "for ever"
  BY DEF MergeKInv
<1>2. turns <= Cardinality(Places(input)) + 1
  BY DEF MergeKInv
<1>3. loop = "returned" => AsAsked
  BY DEF AsAsked, MergeKInv
<1> QED BY <1>1, <1>2, <1>3 DEF ListsRight, Budget

-----------------------------------------------------------------------------
(* quick_sort: the ranges that are still to be sorted are apart, and       *)
(* elements that are not in the same one are in order.                     *)

Inside(i, r) == r[1] <= i /\ i <= r[2]

RangesIn(R, n) ==
    /\ IsFiniteSet(R) /\ R \subseteq Int \X Int
    /\ \A r \in R : 1 <= r[1] /\ r[1] <= r[2] + 1 /\ r[2] <= n
    /\ \A r, q \in R : r = q \/ r[2] + 1 < q[1] \/ q[2] + 1 < r[1]

SortedApart(t, R, n) ==
    \A i, j \in 1..n :
        i < j /\ (\A r \in R : ~(Inside(i, r) /\ Inside(j, r))) => t[i] <= t[j]

\* The elements that are where they belong.
Settled(R, n) == {i \in 1..n : \A r \in R : ~Inside(i, r)}

\* The turns that it has taken when that many are settled and that many ranges are left: 4n for
\* each settled one, and one for each range that needs no partition.
Cost(n, settled, ranges) == 4 * n * settled + settled + 1 - ranges

LEMMA CostMore ==
    ASSUME NEW n \in Nat, NEW p \in Nat, NEW q \in Nat, p <= q, NEW m \in Nat
    PROVE  Cost(n, p, m) \in Int /\ Cost(n, p, m) <= Cost(n, q, m)
<1>1. PICK d \in Nat : q = p + d
  <2>1. q - p \in Nat /\ q = p + (q - p)
    OBVIOUS
  <2> QED BY <2>1
<1>2. 4 * n * q = 4 * n * p + 4 * n * d
  BY <1>1
<1>3. 4 * n * d \in Nat /\ 4 * n * p \in Nat
  OBVIOUS
<1> DEFINE a == 4 * n * p  b == 4 * n * d
<1>4. a \in Nat /\ b \in Nat /\ 4 * n * q = a + b
  BY <1>2, <1>3
<1>5. Cost(n, p, m) = a + p + 1 - m /\ Cost(n, q, m) = a + b + q + 1 - m
  BY <1>4 DEF Cost
<1> HIDE DEF a, b
<1> QED BY <1>1, <1>4, <1>5

\* One more is settled, for which there is one more range; or there is one range less.
LEMMA CostNext ==
    ASSUME NEW n \in Nat, NEW p \in Nat, NEW m \in Nat
    PROVE  /\ Cost(n, p + 1, m + 1) = Cost(n, p, m) + 4 * n
           /\ Cost(n, p, m) = Cost(n, p, m + 1) + 1
<1> DEFINE a == 4 * n * p
<1>1. a \in Nat /\ 4 * n * (p + 1) = a + 4 * n
  OBVIOUS
<1>2. /\ Cost(n, p, m) = a + p + 1 - m /\ Cost(n, p, m + 1) = a + p + 1 - (m + 1)
      /\ Cost(n, p + 1, m + 1) = a + 4 * n + (p + 1) + 1 - (m + 1)
  BY <1>1 DEF Cost
<1> HIDE DEF a
<1> QED BY <1>1, <1>2

LEMMA SettledIs ==
    ASSUME NEW n \in Nat, NEW R
    PROVE  /\ IsFiniteSet(Settled(R, n)) /\ Cardinality(Settled(R, n)) \in Nat
           /\ Cardinality(Settled(R, n)) <= n
<1>1. IsFiniteSet(1..n) /\ Cardinality(1..n) = n
  <2>1. IsFiniteSet(1..n) /\ Cardinality(1..n) = IF 1 > n THEN 0 ELSE n - 1 + 1
    BY FS_Interval
  <2> QED BY <2>1
<1>2. Settled(R, n) \in SUBSET (1..n)
  BY DEF Settled
<1>3. IsFiniteSet(Settled(R, n)) /\ Cardinality(Settled(R, n)) <= n
  BY <1>1, <1>2, FS_Subset
<1> QED BY <1>3, FS_CardinalityType

\* A range of at most one element is sorted.
LEMMA RangesLess ==
    ASSUME NEW n \in Nat, NEW R, RangesIn(R, n), NEW r \in R
    PROVE  /\ RangesIn(R \ {r}, n)
           /\ Cardinality(R) \in Nat /\ Cardinality(R \ {r}) \in Nat
           /\ Cardinality(R) = Cardinality(R \ {r}) + 1
           /\ Cardinality(Settled(R, n)) <= Cardinality(Settled(R \ {r}, n))
<1>1. IsFiniteSet(R)
  BY DEF RangesIn
<1>2. IsFiniteSet(R \ {r}) /\ Cardinality(R \ {r}) = Cardinality(R) - 1
  BY <1>1, FS_RemoveElement
<1>3. Cardinality(R) \in Nat /\ Cardinality(R \ {r}) \in Nat
  BY <1>1, <1>2, FS_CardinalityType
<1>4. RangesIn(R \ {r}, n)
  BY <1>2 DEF RangesIn
<1>5. Settled(R, n) \in SUBSET Settled(R \ {r}, n)
  BY DEF Settled
<1>6. Cardinality(Settled(R, n)) <= Cardinality(Settled(R \ {r}, n))
  BY <1>5, SettledIs, FS_Subset
<1> QED BY <1>2, <1>3, <1>4, <1>6

LEMMA SortedLess ==
    ASSUME NEW n \in Nat, NEW R, RangesIn(R, n), NEW r \in R, r[1] >= r[2],
           NEW t, SortedApart(t, R, n)
    PROVE  SortedApart(t, R \ {r}, n)
<1>1. r[1] \in Int /\ r[2] \in Int
  BY DEF RangesIn
<1> SUFFICES ASSUME NEW i \in 1..n, NEW j \in 1..n, i < j,
                    \A q \in R \ {r} : ~(Inside(i, q) /\ Inside(j, q))
             PROVE  t[i] <= t[j]
  BY DEF SortedApart
<1>2. ~(Inside(i, r) /\ Inside(j, r))
  BY <1>1 DEF Inside
<1>3. \A q \in R : ~(Inside(i, q) /\ Inside(j, q))
  BY <1>2
<1> QED BY <1>3 DEF SortedApart

\* What is in one of the ranges is in no other.
LEMMA InOneRange ==
    ASSUME NEW n \in Nat, NEW R, RangesIn(R, n), NEW r \in R, NEW q \in R,
           NEW i \in Int, Inside(i, r), Inside(i, q)
    PROVE  r = q
<1>1. r[1] \in Int /\ r[2] \in Int /\ q[1] \in Int /\ q[2] \in Int
  BY DEF RangesIn
<1>2. r = q \/ r[2] + 1 < q[1] \/ q[2] + 1 < r[1]
  BY DEF RangesIn
<1> QED BY <1>1, <1>2 DEF Inside

LEMMA InsideOrder ==
    ASSUME NEW r, r[1] \in Int, r[2] \in Int, NEW i \in Int, NEW k \in Int, NEW j \in Int,
           Inside(i, r), Inside(k, r), ~Inside(j, r)
    PROVE  (i < j => k < j) /\ (j < i => j < k)
  BY DEF Inside

\* An element of a range and one outside it are in order, whatever the order within the range.
LEMMA SortedSwap ==
    ASSUME NEW n \in Nat, NEW R, RangesIn(R, n), NEW r \in R,
           NEW t \in [1..n -> Values], SortedApart(t, R, n), NEW u,
           \A i \in 1..n : ~Inside(i, r) => u[i] = t[i],
           \A i \in 1..n : Inside(i, r) => \E k \in 1..n : Inside(k, r) /\ u[i] = t[k],
           NEW i \in 1..n, NEW j \in 1..n, i < j, ~(Inside(i, r) /\ Inside(j, r)),
           \A q \in R : ~(Inside(i, q) /\ Inside(j, q))
    PROVE  u[i] <= u[j]
<1>1. r[1] \in Int /\ r[2] \in Int
  BY DEF RangesIn
<1>2. CASE ~Inside(i, r) /\ ~Inside(j, r)
  BY <1>2 DEF SortedApart
<1>3. CASE Inside(i, r) /\ ~Inside(j, r)
  <2>1. PICK k \in 1..n : Inside(k, r) /\ u[i] = t[k]
    BY <1>3
  <2>2. k < j
    <3>1. i \in Int /\ j \in Int /\ k \in Int
      BY <2>1
    <3>2. Inside(k, r) /\ Inside(i, r) /\ ~Inside(j, r)
      BY <1>3, <2>1
    <3> QED BY <1>1, <3>1, <3>2, InsideOrder
  <2>3. \A q \in R : ~(Inside(k, q) /\ Inside(j, q))
    BY <1>3, <2>1, InOneRange
  <2>4. t[k] <= t[j]
    BY <2>2, <2>3 DEF SortedApart
  <2> QED BY <1>3, <2>1, <2>4
<1>4. CASE ~Inside(i, r) /\ Inside(j, r)
  <2>1. PICK k \in 1..n : Inside(k, r) /\ u[j] = t[k]
    BY <1>4
  <2>2. i < k
    <3>1. i \in Int /\ j \in Int /\ k \in Int
      BY <2>1
    <3>2. Inside(k, r) /\ Inside(j, r) /\ ~Inside(i, r)
      BY <1>4, <2>1
    <3> QED BY <1>1, <3>1, <3>2, InsideOrder
  <2>3. \A q \in R : ~(Inside(i, q) /\ Inside(k, q))
    BY <1>4, <2>1, InOneRange
  <2>4. t[i] <= t[k]
    BY <2>2, <2>3 DEF SortedApart
  <2> QED BY <1>4, <2>1, <2>4
<1> QED BY <1>2, <1>3, <1>4

\* The element at p goes between those that are not greater and those that are not less.
Split(R, r, p) == (R \ {r}) \union {<<r[1], p - 1>>, <<p + 1, r[2]>>}

LEMMA RangesSplit ==
    ASSUME NEW n \in Nat, NEW R, RangesIn(R, n), NEW r \in R, NEW p \in 1..n, Inside(p, r)
    PROVE  /\ RangesIn(Split(R, r, p), n)
           /\ Cardinality(Split(R, r, p)) = Cardinality(R) + 1
<1> DEFINE a == <<r[1], p - 1>>  b == <<p + 1, r[2]>>  Q == R \ {r}
<1>1. /\ r[1] \in Int /\ r[2] \in Int /\ 1 <= r[1] /\ r[2] <= n /\ p \in Int
      /\ r[1] <= p /\ p <= r[2]
  BY DEF RangesIn, Inside
<1>2. RangesIn(Q, n) /\ Cardinality(R) = Cardinality(Q) + 1 /\ Cardinality(Q) \in Nat
  BY RangesLess
<1>3. /\ a \in Int \X Int /\ 1 <= a[1] /\ a[1] <= a[2] + 1 /\ a[2] <= n
      /\ b \in Int \X Int /\ 1 <= b[1] /\ b[1] <= b[2] + 1 /\ b[2] <= n
      /\ a[2] + 1 < b[1]
  BY <1>1
<1>4. ASSUME NEW q \in Q
      PROVE  /\ q[1] \in Int /\ q[2] \in Int /\ q[1] <= q[2] + 1
             /\ a[2] + 1 < q[1] \/ q[2] + 1 < a[1]
             /\ b[2] + 1 < q[1] \/ q[2] + 1 < b[1]
  <2>1. q[1] \in Int /\ q[2] \in Int /\ q[1] <= q[2] + 1
    BY DEF RangesIn
  <2>2. r[2] + 1 < q[1] \/ q[2] + 1 < r[1]
    BY DEF RangesIn
  <2> QED BY <1>1, <2>1, <2>2
<1>5. a \notin Q /\ b \notin Q /\ a # b
  BY <1>1, <1>3, <1>4
<1> DEFINE S == (Q \union {a}) \union {b}
<1>6. Split(R, r, p) = S
  BY DEF Split
<1>7. IsFiniteSet(S) /\ Cardinality(S) = Cardinality(Q) + 1 + 1
  <2>1. IsFiniteSet(Q)
    BY <1>2 DEF RangesIn
  <2>2. IsFiniteSet(Q \union {a}) /\ Cardinality(Q \union {a}) = Cardinality(Q) + 1
    BY <1>5, <2>1, FS_AddElement
  <2>3. b \notin Q \union {a}
    BY <1>5
  <2> HIDE DEF a, b, Q
  <2>4. IsFiniteSet(S) /\ Cardinality(S) = Cardinality(Q \union {a}) + 1
    BY <2>2, <2>3, FS_AddElement
  <2> QED BY <2>2, <2>4
<1>8. \A q \in S : q \in Q \/ q = a \/ q = b
  OBVIOUS
<1>9. \A q \in S : q \in Int \X Int /\ 1 <= q[1] /\ q[1] <= q[2] + 1 /\ q[2] <= n
  <2>1. \A q \in Q : q \in Int \X Int /\ 1 <= q[1] /\ q[1] <= q[2] + 1 /\ q[2] <= n
    BY <1>2 DEF RangesIn
  <2> HIDE DEF a, b, Q, S
  <2> QED BY <1>3, <1>8, <2>1
<1>10. \A q, o \in S : q = o \/ q[2] + 1 < o[1] \/ o[2] + 1 < q[1]
  <2>1. \A q, o \in Q : q = o \/ q[2] + 1 < o[1] \/ o[2] + 1 < q[1]
    BY <1>2 DEF RangesIn
  <2>2. \A q \in Q : /\ a[2] + 1 < q[1] \/ q[2] + 1 < a[1]
                     /\ b[2] + 1 < q[1] \/ q[2] + 1 < b[1]
    BY <1>4
  <2> HIDE DEF a, b, Q, S
  <2> QED BY <1>3, <1>8, <2>1, <2>2
<1>11. RangesIn(S, n)
  <2> HIDE DEF S
  <2>1. S \subseteq Int \X Int
    BY <1>9
  <2> QED BY <1>7, <1>9, <1>10, <2>1 DEF RangesIn
<1> QED BY <1>2, <1>6, <1>7, <1>11

LEMMA SettledMore ==
    ASSUME NEW n \in Nat, NEW R, RangesIn(R, n), NEW r \in R, NEW p \in 1..n, Inside(p, r)
    PROVE  Cardinality(Settled(R, n)) + 1 <= Cardinality(Settled(Split(R, r, p), n))
<1> DEFINE Q == Split(R, r, p)  S == Settled(R, n)
<1>1. r[1] \in Int /\ r[2] \in Int /\ r[1] <= p /\ p <= r[2]
  BY DEF RangesIn, Inside
<1>2. p \notin S
  BY DEF Settled
<1>3. \A q \in Q : Inside(p, q) => q \in R \ {r}
  BY <1>1 DEF Split, Inside
<1>4. p \in Settled(Q, n)
  <2>1. \A q \in Q : ~Inside(p, q)
    BY <1>3, InOneRange
  <2> QED BY <2>1 DEF Settled
<1>5. \A i \in S : i \in Settled(Q, n)
  <2> TAKE i \in S
  <2>1. i \in 1..n /\ ~Inside(i, r) /\ \A q \in R : ~Inside(i, q)
    BY DEF Settled
  <2>2. ~Inside(i, <<r[1], p - 1>>) /\ ~Inside(i, <<p + 1, r[2]>>)
    BY <1>1, <2>1 DEF Inside
  <2>3. \A q \in Q : ~Inside(i, q)
    BY <2>1, <2>2 DEF Split
  <2> QED BY <2>1, <2>3 DEF Settled
<1>6. S \union {p} \in SUBSET Settled(Q, n)
  BY <1>4, <1>5
<1>7. Cardinality(S \union {p}) = Cardinality(S) + 1
  BY <1>2, SettledIs, FS_AddElement
<1>8. Cardinality(S \union {p}) <= Cardinality(Settled(Q, n))
  BY <1>6, SettledIs, FS_Subset
<1> QED BY <1>7, <1>8

LEMMA SortedSplit ==
    ASSUME NEW n \in Nat, NEW R, RangesIn(R, n), NEW r \in R, NEW p \in 1..n, Inside(p, r),
           NEW u \in [1..n -> Values],
           \A i, j \in 1..n :
               i < j /\ ~(Inside(i, r) /\ Inside(j, r))
                 /\ (\A q \in R : ~(Inside(i, q) /\ Inside(j, q))) => u[i] <= u[j],
           \A i \in 1..n : Inside(i, r) /\ i <= p => u[i] <= u[p],
           \A i \in 1..n : Inside(i, r) /\ p <= i => u[p] <= u[i]
    PROVE  SortedApart(u, Split(R, r, p), n)
<1>1. r[1] \in Int /\ r[2] \in Int
  BY DEF RangesIn
<1> SUFFICES ASSUME NEW i \in 1..n, NEW j \in 1..n, i < j,
                    \A q \in Split(R, r, p) : ~(Inside(i, q) /\ Inside(j, q))
             PROVE  u[i] <= u[j]
  BY DEF SortedApart
<1>2. /\ \A q \in R \ {r} : ~(Inside(i, q) /\ Inside(j, q))
      /\ ~(Inside(i, <<r[1], p - 1>>) /\ Inside(j, <<r[1], p - 1>>))
      /\ ~(Inside(i, <<p + 1, r[2]>>) /\ Inside(j, <<p + 1, r[2]>>))
  BY DEF Split
<1>3. CASE Inside(i, r) /\ Inside(j, r)
  <2>1. i <= p /\ p <= j
    BY <1>1, <1>2, <1>3 DEF Inside
  <2>2. u[i] <= u[p] /\ u[p] <= u[j]
    BY <1>3, <2>1
  <2>3. u[i] \in Int /\ u[p] \in Int /\ u[j] \in Int
    BY ListsAssumption
  <2> QED BY <2>2, <2>3
<1>4. CASE ~(Inside(i, r) /\ Inside(j, r))
  <2>1. \A q \in R : ~(Inside(i, q) /\ Inside(j, q))
    BY <1>2, <1>4
  <2> QED BY <1>4, <2>1
<1> QED BY <1>3, <1>4

SortLocals == [todo : SUBSET (Int \X Int), first : Int, last : Int, temp : Int]

\* The range that is being partitioned, all the ranges, and the turns before it was.
Current == <<locals.first, locals.last>>
Open == locals.todo \union {Current}
TurnsBefore == Cost(Len(input), Cardinality(Settled(Open, Len(input))), Cardinality(Open))
HasMoved == (locals.last - locals.first) - (right - left)

\* What is below left is not greater than the pivot, and what is above right is not less.
Partitioned ==
    /\ Current \notin locals.todo
    /\ RangesIn(Open, Len(input)) /\ SortedApart(output, Open, Len(input))
    /\ left \in Int /\ right \in Int
    /\ locals.first < locals.last /\ locals.first <= left /\ left <= right
    /\ right <= locals.last
    /\ locals.temp = output[locals.first]
    /\ \A i \in 1..Len(input) : locals.first <= i /\ i < left => output[i] <= locals.temp
    /\ \A i \in 1..Len(input) : right < i /\ i <= locals.last => locals.temp <= output[i]

\* At "down" left is not above the pivot; at "up" and "swap" right is not.
TurnsTaken ==
    /\ loop = "down" => output[left] <= locals.temp /\ turns <= TurnsBefore + 1 + 4 * HasMoved
    /\ loop \in {"up", "swap"} => output[right] <= locals.temp
    /\ loop = "up" => \/ output[left] <= locals.temp /\ turns <= TurnsBefore + 2 + 4 * HasMoved
                      \/ turns <= TurnsBefore + 4 * HasMoved - 1
    /\ loop = "swap" =>
         /\ left < right => locals.temp < output[left] /\ turns <= TurnsBefore + 4 * HasMoved
         /\ turns <= TurnsBefore + 3 + 4 * HasMoved

QuickSortInv ==
    LET n == Len(input)
    IN /\ fn = "quick_sort" /\ input \in Vectors /\ turns \in Nat
       /\ loop \in {"sort", "down", "up", "swap", "returned"}
       /\ output \in Seq(Values) /\ Len(output) = n
       /\ Drawn(output, <<input>>, {1} \X (1..n))
       /\ locals \in SortLocals
       /\ loop = "sort" =>
            /\ RangesIn(locals.todo, n) /\ SortedApart(output, locals.todo, n)
            /\ turns <= Cost(n, Cardinality(Settled(locals.todo, n)), Cardinality(locals.todo))
       /\ loop \in {"down", "up", "swap"} => Partitioned /\ TurnsTaken
       /\ loop = "returned" => Ascending(output) /\ turns <= 4 * n * n + n + 2

LEMMA QuickSortStarts ==
    ASSUME QuickSort, turns' = 0
    PROVE  QuickSortInv'
<1> PICK s \in Vectors :
        Call("quick_sort", s, "sort", s, 0, 0,
             [todo |-> {<<1, Len(s)>>}, first |-> 0, last |-> 0, temp |-> 0])
  BY DEF QuickSort
<1> DEFINE n == Len(s)  r == <<1, n>>  R == {r}
<1>1. /\ fn' = "quick_sort" /\ input' = s /\ loop' = "sort" /\ output' = s
      /\ locals' = [todo |-> R, first |-> 0, last |-> 0, temp |-> 0]
  BY DEF Call
<1>2. s \in Seq(Values) /\ n \in Nat
  BY VectorsAre
<1>3. Drawn(s, <<s>>, {1} \X (1..n))
  BY <1>2, DrawnSelf
<1>4. IsFiniteSet(R) /\ Cardinality(R) = 1
  BY FS_Singleton
<1>5. RangesIn(R, n)
  <2>1. r \in Int \X Int /\ 1 <= r[1] /\ r[1] <= r[2] + 1 /\ r[2] <= n
    BY <1>2
  <2> HIDE DEF r
  <2> QED BY <1>4, <2>1 DEF RangesIn
<1>6. SortedApart(s, R, n)
  BY <1>2 DEF SortedApart, Inside
<1>7. 0 <= Cost(n, Cardinality(Settled(R, n)), Cardinality(R))
  <2>1. Cardinality(Settled(R, n)) \in Nat
    BY <1>2, SettledIs
  <2> DEFINE p == Cardinality(Settled(R, n))
  <2> HIDE DEF p
  <2>2. 4 * n * p \in Nat /\ p \in Nat
    BY <1>2, <2>1 DEF p
  <2>3. Cost(n, p, 1) = 4 * n * p + p + 1 - 1
    BY DEF Cost
  <2>4. 0 <= Cost(n, p, 1)
    BY <2>2, <2>3
  <2> QED BY <1>4, <2>4 DEF p
<1>8. locals' \in SortLocals /\ locals'.todo = R
  <2>1. R \in SUBSET (Int \X Int)
    BY <1>2
  <2> HIDE DEF R
  <2> QED BY <1>1, <2>1 DEF SortLocals
<1> HIDE DEF R
<1>9. turns' \in Nat /\ turns' = 0
  OBVIOUS
<1> QED BY <1>1, <1>2, <1>3, <1>5, <1>6, <1>7, <1>8, <1>9 DEF QuickSortInv

\* What every turn keeps.
LEMMA QuickSortIs ==
    ASSUME QuickSortInv, Kept
    PROVE  /\ fn = "quick_sort" /\ fn' = fn /\ input' = input /\ input \in Vectors
           /\ Len(input) \in Nat /\ turns \in Nat /\ turns' = turns + 1 /\ turns' \in Nat
           /\ output \in Seq(Values) /\ Len(output) = Len(input)
           /\ output \in [1..Len(input) -> Values]
           /\ \A i \in 1..Len(input) : output[i] \in Int
           /\ Drawn(output, <<input>>, {1} \X (1..Len(input)))
           /\ locals \in SortLocals
           /\ locals.first \in Int /\ locals.last \in Int /\ locals.temp \in Int
           /\ locals.todo \in SUBSET (Int \X Int)
<1>1. /\ fn = "quick_sort" /\ input \in Vectors /\ turns \in Nat
      /\ output \in Seq(Values) /\ Len(output) = Len(input)
      /\ Drawn(output, <<input>>, {1} \X (1..Len(input)))
      /\ locals \in SortLocals
  BY DEF QuickSortInv
<1>2. Len(input) \in Nat /\ fn' = fn /\ input' = input /\ turns' = turns + 1 /\ turns' \in Nat
  BY <1>1, VectorsAre DEF Kept
<1>3. output \in [1..Len(input) -> Values]
  BY <1>1, LenProperties
<1>4. \A i \in 1..Len(input) : output[i] \in Int
  BY <1>3, ListsAssumption
<1>5. /\ locals.first \in Int /\ locals.last \in Int /\ locals.temp \in Int
      /\ locals.todo \in SUBSET (Int \X Int)
  BY <1>1 DEF SortLocals
<1> QED BY <1>1, <1>2, <1>3, <1>4, <1>5

LEMMA SortRangeKeeps ==
    ASSUME QuickSortInv, SortRange, Kept
    PROVE  QuickSortInv'
<1> DEFINE n == Len(input)  R == locals.todo
           before == Cost(n, Cardinality(Settled(R, n)), Cardinality(R))
<1>1. /\ fn = "quick_sort" /\ fn' = fn /\ input' = input /\ input \in Vectors
      /\ n \in Nat /\ turns \in Nat /\ turns' = turns + 1 /\ turns' \in Nat
      /\ output \in Seq(Values) /\ Len(output) = n /\ Drawn(output, <<input>>, {1} \X (1..n))
      /\ locals \in SortLocals /\ R \in SUBSET (Int \X Int)
  BY QuickSortIs
<1>2. RangesIn(R, n) /\ SortedApart(output, R, n) /\ turns <= before
  BY DEF QuickSortInv, SortRange
<1>3. CASE R = {} /\ Return(output)
  <2>1. Ascending(output)
    <3>1. \A i, j \in 1..n : i < j => output[i] <= output[j]
      BY <1>2, <1>3 DEF SortedApart
    <3>2. \A i, j \in 1..n : i <= j => output[i] <= output[j]
      <4> TAKE i, j \in 1..n
      <4>1. output[i] \in Int
        BY QuickSortIs
      <4>2. CASE i = j
        BY <4>1, <4>2
      <4>3. CASE i # j
        <5>1. i <= j => i < j
          BY <4>3
        <5> QED BY <3>1, <5>1
      <4> QED BY <4>2, <4>3
    <3> QED BY <1>1, <3>2, LenProperties DEF Ascending
  <2>2. turns' <= 4 * n * n + n + 2
    <3>1. Cardinality(R) = 0
      BY <1>3, FS_EmptySet
    <3>2. Cardinality(Settled(R, n)) \in Nat /\ Cardinality(Settled(R, n)) <= n
      BY <1>1, SettledIs
    <3>3. before \in Int /\ before <= Cost(n, n, 0)
      BY <1>1, <3>1, <3>2, CostMore
    <3>4. Cost(n, n, 0) = 4 * n * n + n + 1
      BY <1>1 DEF Cost
    <3> DEFINE m == 4 * n * n
    <3>5. m \in Nat
      BY <1>1
    <3> HIDE DEF before, m
    <3>6. Cost(n, n, 0) = m + n + 1
      BY <3>4 DEF m
    <3>7. turns' <= m + n + 2
      BY <1>1, <1>2, <3>3, <3>5, <3>6
    <3> QED BY <3>7 DEF m
  <2>3. loop' = "returned" /\ output' = output /\ locals' = locals
    BY <1>3 DEF Return
  <2> QED BY <1>1, <2>1, <2>2, <2>3 DEF QuickSortInv
<1>4. ASSUME NEW r \in R,
             IF r[1] < r[2] THEN Partition(r)
             ELSE locals' = [locals EXCEPT !.todo = @ \ {r}] /\ UNCHANGED <<loop, left, right>>,
             UNCHANGED output
      PROVE  QuickSortInv'
  <2>1. /\ r \in Int \X Int /\ r[1] \in Int /\ r[2] \in Int /\ r = <<r[1], r[2]>>
        /\ 1 <= r[1] /\ r[1] <= r[2] + 1 /\ r[2] <= n
    <3>1. r \in Int \X Int
      BY <1>1
    <3> QED BY <1>2, <3>1 DEF RangesIn
  <2>2. (R \ {r}) \union {r} = R /\ r \notin R \ {r} /\ R \ {r} \in SUBSET (Int \X Int)
    BY <1>1
  <2>3. CASE r[1] < r[2]
    <3>1. /\ loop' = "down" /\ left' = r[1] /\ right' = r[2] /\ output' = output
          /\ locals' = [todo |-> R \ {r}, first |-> r[1], last |-> r[2], temp |-> output[r[1]]]
      BY <1>4, <2>3 DEF Partition
    <3>2. output[r[1]] \in Int /\ r[1] \in 1..n
      <4>1. r[1] \in 1..n
        BY <1>1, <2>1, <2>3
      <4> QED BY <4>1, QuickSortIs
    <3>3. /\ locals' \in SortLocals /\ locals'.todo = R \ {r} /\ locals'.first = r[1]
          /\ locals'.last = r[2] /\ locals'.temp = output[r[1]]
      BY <2>1, <2>2, <3>1, <3>2 DEF SortLocals
    <3>4. before \in Int
      BY <1>1, RangesLess, SettledIs, CostMore, <1>2
    <3>5. Current' = r /\ Open' = R
      BY <2>1, <2>2, <3>3 DEF Current, Open
    <3>6. TurnsBefore' = before /\ HasMoved' = 0
      BY <1>1, <2>1, <3>1, <3>3, <3>5 DEF TurnsBefore, HasMoved
    <3>7. turns' <= TurnsBefore' + 1 + 4 * HasMoved'
      <4> HIDE DEF before
      <4> QED BY <1>1, <1>2, <3>4, <3>6
    <3>8. Partitioned'
      <4>1. \A i \in 1..n : ~(r[1] <= i /\ i < left') /\ ~(right' < i /\ i <= r[2])
        BY <1>1, <2>1, <3>1
      <4>2. Current' \notin locals'.todo /\ RangesIn(Open', n) /\ SortedApart(output', Open', n)
        BY <1>2, <2>2, <3>1, <3>3, <3>5
      <4>3. /\ left' \in Int /\ right' \in Int
            /\ locals'.first < locals'.last /\ locals'.first <= left' /\ left' <= right'
            /\ right' <= locals'.last /\ locals'.temp = output'[locals'.first]
        BY <2>1, <2>3, <3>1, <3>3
      <4> QED BY <1>1, <3>3, <4>1, <4>2, <4>3 DEF Partitioned
    <3>9. TurnsTaken'
      <4>1. output'[left'] <= locals'.temp
        BY <3>1, <3>2, <3>3
      <4> QED BY <3>1, <3>7, <4>1 DEF TurnsTaken
    <3> QED BY <1>1, <3>1, <3>3, <3>8, <3>9 DEF QuickSortInv
  <2>4. CASE ~(r[1] < r[2])
    <3>1. locals' = [locals EXCEPT !.todo = R \ {r}] /\ loop' = loop /\ output' = output
      BY <1>4, <2>4
    <3>2. locals' \in SortLocals /\ locals'.todo = R \ {r}
      BY <1>1, <2>2, <3>1 DEF SortLocals
    <3>3. /\ RangesIn(R \ {r}, n) /\ Cardinality(R \ {r}) \in Nat
          /\ Cardinality(R) = Cardinality(R \ {r}) + 1
          /\ Cardinality(Settled(R, n)) <= Cardinality(Settled(R \ {r}, n))
      BY <1>1, <1>2, RangesLess
    <3>4. r[1] >= r[2]
      BY <2>1, <2>4
    <3>5. SortedApart(output, R \ {r}, n)
      BY <1>1, <1>2, <3>4, SortedLess
    <3> DEFINE p == Cardinality(Settled(R, n))
               q == Cardinality(Settled(R \ {r}, n))
               m == Cardinality(R \ {r})
    <3>6. p \in Nat /\ q \in Nat
      BY <1>1, SettledIs
    <3> HIDE DEF p, q, m
    <3>7. m \in Nat /\ p <= q /\ before = Cost(n, p, m + 1)
      BY <3>3 DEF p, q, m
    <3>8. Cost(n, p, m) = Cost(n, p, m + 1) + 1
      BY <1>1, <3>6, <3>7, CostNext
    <3>9. Cost(n, p, m) \in Int /\ Cost(n, p, m) <= Cost(n, q, m)
      BY <1>1, <3>6, <3>7, CostMore
    <3>10. Cost(n, q, m) \in Int
      BY <1>1, <3>6, <3>7, CostMore
    <3>11. Cost(n, q, m) \in Int /\ Cost(n, p, m + 1) \in Int
      <4>1. m + 1 \in Nat /\ p <= p
        BY <3>6, <3>7
      <4> QED BY <1>1, <3>6, <3>10, <4>1, CostMore
    <3>12. turns' <= Cost(n, q, m)
      <4> HIDE DEF before
      <4> QED BY <1>1, <1>2, <3>7, <3>8, <3>9, <3>11
    <3>13. loop' = "sort"
      BY <3>1 DEF SortRange
    <3> QED BY <1>1, <3>1, <3>2, <3>3, <3>5, <3>12, <3>13 DEF QuickSortInv, q, m
  <2> QED BY <2>3, <2>4
<1> QED BY <1>3, <1>4 DEF SortRange

\* The places that a partition looks at.
LEMMA PartitionedIs ==
    ASSUME QuickSortInv, Kept, Partitioned
    PROVE  /\ left \in 1..Len(input) /\ right \in 1..Len(input)
           /\ locals.first \in 1..Len(input) /\ locals.last \in 1..Len(input)
           /\ Current \in Open /\ Current[1] = locals.first /\ Current[2] = locals.last
           /\ TurnsBefore \in Int /\ HasMoved \in Int
           /\ output[left] \in Int /\ output[right] \in Int /\ locals.temp \in Int
<1>1. /\ Len(input) \in Nat /\ locals.first \in Int /\ locals.last \in Int /\ locals.temp \in Int
      /\ \A i \in 1..Len(input) : output[i] \in Int
  BY QuickSortIs
<1>2. Current \in Open /\ Current[1] = locals.first /\ Current[2] = locals.last
  BY DEF Open, Current
<1>3. RangesIn(Open, Len(input))
  BY DEF Partitioned
<1>4. 1 <= locals.first /\ locals.last <= Len(input)
  BY <1>2, <1>3 DEF RangesIn
<1>5. /\ left \in Int /\ right \in Int /\ locals.first < locals.last
      /\ locals.first <= left /\ left <= right /\ right <= locals.last
  BY DEF Partitioned
<1>6. /\ left \in 1..Len(input) /\ right \in 1..Len(input)
      /\ locals.first \in 1..Len(input) /\ locals.last \in 1..Len(input)
  BY <1>1, <1>4, <1>5
<1>7. Cardinality(Open) \in Nat
  BY <1>1, <1>2, <1>3, RangesLess
<1>8. Cardinality(Settled(Open, Len(input))) \in Nat
  BY <1>1, SettledIs
<1>9. TurnsBefore \in Int
  <2> DEFINE p == Cardinality(Settled(Open, Len(input)))
  <2>1. p <= p
    BY <1>8
  <2> QED BY <1>1, <1>7, <1>8, <2>1, CostMore DEF TurnsBefore
<1>10. HasMoved \in Int
  BY <1>1, <1>5 DEF HasMoved
<1> QED BY <1>1, <1>2, <1>6, <1>9, <1>10

\* A turn of a partition that keeps the array keeps the rest.
LEMMA PartitionStep ==
    ASSUME QuickSortInv, Kept, Partitioned, UNCHANGED <<locals, output>>,
           loop' \in {"down", "up", "swap"}, TurnsTaken',
           left' \in Int, right' \in Int, left <= left', left' <= right', right' <= right,
           \A i \in 1..Len(input) : left <= i /\ i < left' => output[i] <= locals.temp,
           \A i \in 1..Len(input) : right' < i /\ i <= right => locals.temp <= output[i]
    PROVE  QuickSortInv'
<1>1. /\ fn = "quick_sort" /\ fn' = fn /\ input' = input /\ input \in Vectors
      /\ turns' \in Nat /\ output \in Seq(Values) /\ Len(output) = Len(input)
      /\ Drawn(output, <<input>>, {1} \X (1..Len(input))) /\ locals \in SortLocals
      /\ locals.first \in Int /\ locals.last \in Int
  BY QuickSortIs
<1>2. Current' = Current /\ Open' = Open
  BY DEF Current, Open
<1>3. /\ left \in Int /\ right \in Int /\ locals.first < locals.last
      /\ locals.first <= left /\ left <= right /\ right <= locals.last
      /\ Current \notin locals.todo /\ RangesIn(Open, Len(input))
      /\ SortedApart(output, Open, Len(input)) /\ locals.temp = output[locals.first]
  BY DEF Partitioned
<1>4. ASSUME NEW i \in 1..Len(input), locals.first <= i, i < left' PROVE output[i] <= locals.temp
  <2>1. i < left \/ left <= i
    BY <1>1, <1>3
  <2>2. CASE i < left
    BY <1>4, <2>2 DEF Partitioned
  <2> QED BY <1>4, <2>1, <2>2
<1>5. ASSUME NEW i \in 1..Len(input), right' < i, i <= locals.last PROVE locals.temp <= output[i]
  <2>1. right < i \/ i <= right
    BY <1>1, <1>3
  <2>2. CASE right < i
    BY <1>5, <2>2 DEF Partitioned
  <2> QED BY <1>5, <2>1, <2>2
<1>6. Partitioned'
  <2>1. /\ left' \in Int /\ right' \in Int /\ locals.first <= left' /\ left' <= right'
        /\ right' <= locals.last
    BY <1>1, <1>3
  <2> QED BY <1>1, <1>2, <1>3, <1>4, <1>5, <2>1 DEF Partitioned
<1> QED BY <1>1, <1>6 DEF QuickSortInv

LEMMA PartitionDownKeeps ==
    ASSUME QuickSortInv, PartitionDown, Kept
    PROVE  QuickSortInv'
<1>1. loop = "down" /\ Partitioned /\ TurnsTaken
  BY DEF QuickSortInv, PartitionDown
<1>2. /\ left \in Int /\ right \in Int /\ left \in 1..Len(input) /\ right \in 1..Len(input)
      /\ TurnsBefore \in Int /\ HasMoved \in Int
      /\ output[left] \in Int /\ output[right] \in Int /\ locals.temp \in Int
  BY <1>1, PartitionedIs
<1>3. output[left] <= locals.temp /\ turns <= TurnsBefore + 1 + 4 * HasMoved
  BY <1>1 DEF TurnsTaken
<1>4. left <= right
  BY <1>1 DEF Partitioned
<1>5. turns' = turns + 1 /\ turns \in Nat /\ input' = input
  BY QuickSortIs
<1>6. CASE left < right /\ locals.temp <= output[right]
  <2>1. /\ loop' = loop /\ locals' = locals /\ output' = output
        /\ left' = left /\ right' = right - 1
    BY <1>6 DEF PartitionDown, Step
  <2>2. TurnsBefore' = TurnsBefore /\ HasMoved' = HasMoved + 1
    <3>1. Open' = Open
      BY <2>1 DEF Open, Current
    <3>2. locals.first \in Int /\ locals.last \in Int
      BY QuickSortIs
    <3>3. HasMoved' = HasMoved + 1
      BY <1>2, <2>1, <3>2 DEF HasMoved
    <3> QED BY <1>5, <3>1, <3>3 DEF TurnsBefore
  <2>3. TurnsTaken'
    <3>1. turns' <= TurnsBefore' + 1 + 4 * HasMoved'
      BY <1>2, <1>3, <1>5, <2>2
    <3> QED BY <1>1, <1>3, <2>1, <3>1 DEF TurnsTaken
  <2>4. \A i \in 1..Len(input) : right' < i /\ i <= right => locals.temp <= output[i]
    <3> TAKE i \in 1..Len(input)
    <3> HAVE right' < i /\ i <= right
    <3>1. i = right
      BY <1>2, <2>1
    <3> QED BY <1>6, <3>1
  <2>5. \A i \in 1..Len(input) : ~(left <= i /\ i < left')
    BY <1>2, <2>1
  <2>6. left' \in Int /\ right' \in Int /\ left <= left' /\ left' <= right' /\ right' <= right
    BY <1>2, <1>6, <2>1
  <2> QED BY <1>1, <2>1, <2>3, <2>4, <2>5, <2>6, PartitionStep
<1>7. CASE ~(left < right /\ locals.temp <= output[right])
  <2>1. /\ loop' = "up" /\ locals' = locals /\ output' = output /\ left' = left /\ right' = right
    BY <1>7 DEF PartitionDown, Goto
  <2>2. TurnsBefore' = TurnsBefore /\ HasMoved' = HasMoved
    BY <1>5, <2>1 DEF TurnsBefore, HasMoved, Open, Current
  <2>3. output[right] <= locals.temp
    <3>1. CASE left < right
      BY <1>2, <1>7, <3>1
    <3>2. CASE ~(left < right)
      <4>1. left = right
        BY <1>2, <1>4, <3>2
      <4> QED BY <1>3, <4>1
    <3> QED BY <3>1, <3>2
  <2>4. turns' <= TurnsBefore' + 2 + 4 * HasMoved'
    BY <1>2, <1>3, <1>5, <2>2
  <2>5. TurnsTaken'
    BY <1>3, <2>1, <2>3, <2>4 DEF TurnsTaken
  <2>6. \A i \in 1..Len(input) : ~(left <= i /\ i < left') /\ ~(right' < i /\ i <= right)
    BY <1>2, <2>1
  <2>7. left' \in Int /\ right' \in Int /\ left <= left' /\ left' <= right' /\ right' <= right
    BY <1>2, <1>4, <2>1
  <2> QED BY <1>1, <2>1, <2>5, <2>6, <2>7, PartitionStep
<1> QED BY <1>6, <1>7

LEMMA PartitionUpKeeps ==
    ASSUME QuickSortInv, PartitionUp, Kept
    PROVE  QuickSortInv'
<1>1. loop = "up" /\ Partitioned /\ TurnsTaken
  BY DEF QuickSortInv, PartitionUp
<1>2. /\ left \in Int /\ right \in Int /\ left \in 1..Len(input) /\ right \in 1..Len(input)
      /\ TurnsBefore \in Int /\ HasMoved \in Int
      /\ output[left] \in Int /\ output[right] \in Int /\ locals.temp \in Int
  BY <1>1, PartitionedIs
<1>3. /\ output[right] <= locals.temp
      /\ \/ output[left] <= locals.temp /\ turns <= TurnsBefore + 2 + 4 * HasMoved
         \/ turns <= TurnsBefore + 4 * HasMoved - 1
  BY <1>1 DEF TurnsTaken
<1>4. left <= right
  BY <1>1 DEF Partitioned
<1>5. turns' = turns + 1 /\ turns \in Nat /\ input' = input
  BY QuickSortIs
<1>6. CASE left < right /\ locals.temp >= output[left]
  <2>1. /\ loop' = loop /\ locals' = locals /\ output' = output
        /\ left' = left + 1 /\ right' = right
    BY <1>6 DEF PartitionUp, Step
  <2>2. TurnsBefore' = TurnsBefore /\ HasMoved' = HasMoved + 1
    <3>1. Open' = Open
      BY <2>1 DEF Open, Current
    <3>2. locals.first \in Int /\ locals.last \in Int
      BY QuickSortIs
    <3>3. HasMoved' = HasMoved + 1
      BY <1>2, <2>1, <3>2 DEF HasMoved
    <3> QED BY <1>5, <3>1, <3>3 DEF TurnsBefore
  <2>3. TurnsTaken'
    <3>1. turns' <= TurnsBefore' + 4 * HasMoved' - 1
      BY <1>2, <1>3, <1>5, <2>2
    <3> QED BY <1>1, <1>3, <2>1, <3>1 DEF TurnsTaken
  <2>4. \A i \in 1..Len(input) : left <= i /\ i < left' => output[i] <= locals.temp
    <3> TAKE i \in 1..Len(input)
    <3> HAVE left <= i /\ i < left'
    <3>1. i = left
      BY <1>2, <2>1
    <3> QED BY <1>2, <1>6, <3>1
  <2>5. \A i \in 1..Len(input) : ~(right' < i /\ i <= right)
    BY <1>2, <2>1
  <2>6. left' \in Int /\ right' \in Int /\ left <= left' /\ left' <= right' /\ right' <= right
    BY <1>2, <1>6, <2>1
  <2> QED BY <1>1, <2>1, <2>3, <2>4, <2>5, <2>6, PartitionStep
<1>7. CASE ~(left < right /\ locals.temp >= output[left])
  <2>1. /\ loop' = "swap" /\ locals' = locals /\ output' = output
        /\ left' = left /\ right' = right
    BY <1>7 DEF PartitionUp, Goto
  <2>2. TurnsBefore' = TurnsBefore /\ HasMoved' = HasMoved
    BY <1>5, <2>1 DEF TurnsBefore, HasMoved, Open, Current
  <2>3. turns' <= TurnsBefore' + 3 + 4 * HasMoved'
    BY <1>2, <1>3, <1>5, <2>2
  <2>4. left < right => locals.temp < output[left] /\ turns' <= TurnsBefore' + 4 * HasMoved'
    BY <1>2, <1>3, <1>5, <1>7, <2>2
  <2>5. TurnsTaken'
    BY <1>3, <2>1, <2>3, <2>4 DEF TurnsTaken
  <2>6. \A i \in 1..Len(input) : ~(left <= i /\ i < left') /\ ~(right' < i /\ i <= right)
    BY <1>2, <2>1
  <2>7. left' \in Int /\ right' \in Int /\ left <= left' /\ left' <= right' /\ right' <= right
    BY <1>2, <1>4, <2>1
  <2> QED BY <1>1, <2>1, <2>5, <2>6, <2>7, PartitionStep
<1> QED BY <1>6, <1>7

LEMMA SwappedIs ==
    ASSUME NEW n \in Nat, NEW t \in [1..n -> Values], NEW i \in 1..n, NEW j \in 1..n
    PROVE  /\ Swapped(t, i, j) \in [1..n -> Values]
           /\ Swapped(t, i, j)[i] = t[j] /\ Swapped(t, i, j)[j] = t[i]
           /\ \A k \in 1..n : k # i /\ k # j => Swapped(t, i, j)[k] = t[k]
  BY DEF Swapped

\* A swap within the range.
LEMMA SwapWithin ==
    ASSUME NEW n \in Nat, NEW R, RangesIn(R, n), NEW r \in R,
           NEW t \in [1..n -> Values], SortedApart(t, R, n),
           NEW a \in 1..n, NEW b \in 1..n, Inside(a, r), Inside(b, r),
           NEW i \in 1..n, NEW j \in 1..n, i < j, ~(Inside(i, r) /\ Inside(j, r)),
           \A q \in R : ~(Inside(i, q) /\ Inside(j, q))
    PROVE  Swapped(t, a, b)[i] <= Swapped(t, a, b)[j]
<1> DEFINE u == Swapped(t, a, b)
<1>1. /\ u[a] = t[b] /\ u[b] = t[a]
      /\ \A k \in 1..n : k # a /\ k # b => u[k] = t[k]
  BY SwappedIs
<1> HIDE DEF u
<1>2. \A k \in 1..n : ~Inside(k, r) => u[k] = t[k]
  BY <1>1
<1>3. \A k \in 1..n : Inside(k, r) => \E m \in 1..n : Inside(m, r) /\ u[k] = t[m]
  BY <1>1
<1>4. u[i] <= u[j]
  BY <1>2, <1>3, SortedSwap
<1> QED BY <1>4 DEF u

\* Two elements on the wrong sides are exchanged.
LEMMA SwapKeeps ==
    ASSUME QuickSortInv, Kept, loop = "swap", left < right,
           loop' = "down", output' = Swapped(output, left, right),
           UNCHANGED <<locals, left, right>>
    PROVE  QuickSortInv'
<1> DEFINE n == Len(input)  u == Swapped(output, left, right)
<1>1. Partitioned /\ TurnsTaken
  BY DEF QuickSortInv
<1>2. /\ left \in 1..n /\ right \in 1..n /\ locals.first \in 1..n /\ locals.last \in 1..n
      /\ Current \in Open /\ Current[1] = locals.first /\ Current[2] = locals.last
      /\ TurnsBefore \in Int /\ HasMoved \in Int
      /\ output[left] \in Int /\ output[right] \in Int /\ locals.temp \in Int
  BY <1>1, PartitionedIs
<1>3. /\ fn = "quick_sort" /\ fn' = fn /\ input' = input /\ input \in Vectors
      /\ n \in Nat /\ turns \in Nat /\ turns' = turns + 1 /\ turns' \in Nat
      /\ output \in Seq(Values) /\ Len(output) = n /\ output \in [1..n -> Values]
      /\ Drawn(output, <<input>>, {1} \X (1..n)) /\ locals \in SortLocals
  BY QuickSortIs
<1>4. /\ output[right] <= locals.temp /\ locals.temp < output[left]
      /\ turns <= TurnsBefore + 4 * HasMoved
  BY <1>1 DEF TurnsTaken
<1>5. /\ locals.first <= left /\ right <= locals.last /\ locals.first < locals.last
      /\ Current \notin locals.todo /\ RangesIn(Open, n) /\ SortedApart(output, Open, n)
      /\ locals.temp = output[locals.first]
  BY <1>1 DEF Partitioned
<1>6. left # locals.first /\ right # locals.first
  <2>1. left # locals.first
    BY <1>2, <1>4, <1>5
  <2> QED BY <1>2, <1>5, <2>1
<1>7. /\ u \in [1..n -> Values] /\ u[left] = output[right] /\ u[right] = output[left]
      /\ \A k \in 1..n : k # left /\ k # right => u[k] = output[k]
  BY <1>2, <1>3, SwappedIs
<1>8. u \in Seq(Values) /\ Len(u) = n /\ Drawn(u, <<input>>, {1} \X (1..n))
  <2>1. left \in 1..Len(output) /\ right \in 1..Len(output)
    BY <1>2, <1>3
  <2> QED BY <1>3, <2>1, DrawnSwap
<1>9. SortedApart(u, Open, n)
  <2> SUFFICES ASSUME NEW i \in 1..n, NEW j \in 1..n, i < j,
                      \A q \in Open : ~(Inside(i, q) /\ Inside(j, q))
               PROVE  u[i] <= u[j]
    BY Zenon DEF SortedApart
  <2>1. Inside(left, Current) /\ Inside(right, Current)
    BY <1>2, <1>5 DEF Inside
  <2>2. ~(Inside(i, Current) /\ Inside(j, Current))
    BY <1>2
  <2> QED BY <1>2, <1>3, <1>5, <2>1, <2>2, SwapWithin
<1> HIDE DEF u
<1>10. Open' = Open /\ Current' = Current
  BY DEF Open, Current
<1>11. TurnsBefore' = TurnsBefore /\ HasMoved' = HasMoved
  BY <1>3, <1>10 DEF TurnsBefore, HasMoved
<1>12. output' = u /\ left' = left /\ right' = right /\ locals' = locals
  BY DEF u
<1>13. Partitioned'
  <2>1. ASSUME NEW i \in 1..n, locals.first <= i, i < left PROVE u[i] <= locals.temp
    <3>1. i # left /\ i # right /\ u[i] = output[i]
      BY <1>2, <1>7, <2>1
    <3>2. output[i] <= locals.temp
      BY <1>1, <2>1 DEF Partitioned
    <3> QED BY <3>1, <3>2
  <2>2. ASSUME NEW i \in 1..n, right < i, i <= locals.last PROVE locals.temp <= u[i]
    <3>1. i # left /\ i # right /\ u[i] = output[i]
      BY <1>2, <1>7, <2>2
    <3>2. locals.temp <= output[i]
      BY <1>1, <2>2 DEF Partitioned
    <3> QED BY <3>1, <3>2
  <2>3. locals.temp = u[locals.first]
    BY <1>2, <1>5, <1>6, <1>7
  <2>4. left \in Int /\ right \in Int /\ left <= right
    BY <1>2
  <2> QED BY <1>3, <1>5, <1>9, <1>10, <1>12, <2>1, <2>2, <2>3, <2>4 DEF Partitioned
<1>14. TurnsTaken'
  <2>1. u[left] <= locals.temp
    BY <1>4, <1>7
  <2>2. turns' <= TurnsBefore + 1 + 4 * HasMoved
    BY <1>2, <1>3, <1>4
  <2> QED BY <1>11, <1>12, <2>1, <2>2 DEF TurnsTaken
<1> QED BY <1>3, <1>8, <1>12, <1>13, <1>14 DEF QuickSortInv

PivotPlaced ==
    /\ loop = "swap" /\ left >= right
    /\ loop' = "sort" /\ output' = Swapped(output, locals.first, left)
    /\ locals' = [locals EXCEPT
           !.todo = @ \union {<<locals.first, left - 1>>, <<left + 1, locals.last>>}]

\* The pivot goes to where they met, and its range is split there.
LEMMA PlaceKeeps ==
    ASSUME QuickSortInv, Kept, PivotPlaced
    PROVE  QuickSortInv'
<1> DEFINE n == Len(input)  f == locals.first  u == Swapped(output, f, left)
<1>1. Partitioned /\ TurnsTaken
  BY DEF QuickSortInv, PivotPlaced
<1>2. /\ left \in 1..n /\ right \in 1..n /\ f \in 1..n /\ locals.last \in 1..n
      /\ Current \in Open /\ Current[1] = f /\ Current[2] = locals.last
      /\ TurnsBefore \in Int /\ HasMoved \in Int
      /\ output[left] \in Int /\ output[right] \in Int /\ locals.temp \in Int
  BY <1>1, PartitionedIs
<1>3. /\ fn = "quick_sort" /\ fn' = fn /\ input' = input /\ input \in Vectors
      /\ n \in Nat /\ turns \in Nat /\ turns' = turns + 1 /\ turns' \in Nat
      /\ output \in Seq(Values) /\ Len(output) = n /\ output \in [1..n -> Values]
      /\ Drawn(output, <<input>>, {1} \X (1..n)) /\ locals \in SortLocals
      /\ locals.todo \in SUBSET (Int \X Int)
  BY QuickSortIs
<1>4. output[right] <= locals.temp /\ turns <= TurnsBefore + 3 + 4 * HasMoved
  BY <1>1 DEF TurnsTaken, PivotPlaced
<1>5. /\ f <= left /\ right <= locals.last /\ f < locals.last /\ left <= right
      /\ Current \notin locals.todo /\ RangesIn(Open, n) /\ SortedApart(output, Open, n)
      /\ locals.temp = output[f]
  BY <1>1 DEF Partitioned
<1>6. left = right
  BY <1>2, <1>5 DEF PivotPlaced
<1>7. /\ u \in [1..n -> Values] /\ u[f] = output[left] /\ u[left] = output[f]
      /\ \A k \in 1..n : k # left /\ k # f => u[k] = output[k]
  <2>1. f \in 1..n
    BY <1>2
  <2> HIDE DEF f
  <2>2. u \in [1..n -> Values] /\ u[f] = output[left] /\ u[left] = output[f]
    BY <1>2, <1>3, <2>1, SwappedIs
  <2>3. \A k \in 1..n : k # f /\ k # left => u[k] = output[k]
    BY <1>2, <1>3, <2>1, SwappedIs
  <2> QED BY <2>2, <2>3
<1>8. u \in Seq(Values) /\ Len(u) = n /\ Drawn(u, <<input>>, {1} \X (1..n))
  <2>1. left \in 1..Len(output) /\ f \in 1..Len(output)
    BY <1>2, <1>3
  <2> QED BY <1>3, <2>1, DrawnSwap
<1>9. Inside(left, Current) /\ Inside(f, Current)
  BY <1>2, <1>5, <1>6 DEF Inside
<1>10. ASSUME NEW i \in 1..n, NEW j \in 1..n, i < j,
              ~(Inside(i, Current) /\ Inside(j, Current)),
              \A q \in Open : ~(Inside(i, q) /\ Inside(j, q))
       PROVE  u[i] <= u[j]
  BY <1>2, <1>3, <1>5, <1>9, <1>10, SwapWithin
<1> HIDE DEF u
<1>11. ASSUME NEW i \in 1..n, Inside(i, Current), i <= left PROVE u[i] <= u[left]
  <2>1. locals.first <= i
    BY <1>2, <1>11 DEF Inside
  <2>2. CASE i = left
    BY <1>2, <1>5, <1>7, <2>2
  <2>3. CASE i = f /\ i # left
    BY <1>4, <1>5, <1>6, <1>7, <2>3
  <2>4. CASE i # f /\ i # left
    <3>1. i < left
      BY <1>2, <1>11, <2>4
    <3>2. output[i] <= locals.temp
      BY <1>1, <2>1, <3>1 DEF Partitioned
    <3> QED BY <1>5, <1>7, <2>4, <3>2
  <2> QED BY <2>2, <2>3, <2>4
<1>12. ASSUME NEW i \in 1..n, Inside(i, Current), left <= i PROVE u[left] <= u[i]
  <2>1. i <= locals.last
    BY <1>2, <1>12 DEF Inside
  <2>2. CASE i = left
    BY <1>2, <1>5, <1>7, <2>2
  <2>3. CASE i # left
    <3>1. right < i /\ i # f
      BY <1>2, <1>5, <1>6, <1>12, <2>3
    <3>2. locals.temp <= output[i]
      BY <1>1, <2>1, <3>1 DEF Partitioned
    <3> QED BY <1>5, <1>7, <2>3, <3>1, <3>2
  <2> QED BY <2>2, <2>3
<1> DEFINE Q == Split(Open, Current, left)
<1>13. RangesIn(Q, n) /\ Cardinality(Q) = Cardinality(Open) + 1
  BY <1>2, <1>3, <1>5, <1>9, RangesSplit
<1>14. Cardinality(Settled(Open, n)) + 1 <= Cardinality(Settled(Q, n))
  BY <1>2, <1>3, <1>5, <1>9, SettledMore
<1>15. SortedApart(u, Q, n)
  BY <1>2, <1>3, <1>5, <1>7, <1>9, <1>10, <1>11, <1>12, SortedSplit
<1>16. locals' \in SortLocals /\ locals'.todo = Q
  <2> DEFINE more == {<<f, left - 1>>, <<left + 1, locals.last>>}
  <2>1. more \in SUBSET (Int \X Int)
    BY <1>2
  <2>2. Open \ {Current} = locals.todo
    BY <1>5 DEF Open
  <2>3. Q = locals.todo \union more
    BY <1>2, <2>2 DEF Split
  <2> HIDE DEF more, Q
  <2>4. locals' = [locals EXCEPT !.todo = locals.todo \union more]
    BY DEF more, PivotPlaced
  <2> QED BY <1>3, <2>1, <2>3, <2>4 DEF SortLocals
<1>17. turns' <= Cost(n, Cardinality(Settled(Q, n)), Cardinality(Q))
  <2> DEFINE p == Cardinality(Settled(Open, n))
             q == Cardinality(Settled(Q, n))
             m == Cardinality(Open)
  <2>1. p \in Nat /\ q \in Nat /\ p + 1 \in Nat
    BY <1>3, SettledIs
  <2>2. m \in Nat
    BY <1>2, <1>3, <1>5, RangesLess
  <2>3. HasMoved = locals.last - f
    BY <1>2, <1>6 DEF HasMoved
  <2>4. HasMoved + 1 <= n
    BY <1>2, <1>3, <2>3
  <2> HIDE DEF p, q, m, Q, f
  <2>5. TurnsBefore = Cost(n, p, m) /\ Cost(n, p + 1, m + 1) = TurnsBefore + 4 * n
    <3>1. TurnsBefore = Cost(n, p, m)
      BY DEF TurnsBefore, p, m
    <3>2. Cost(n, p + 1, m + 1) = Cost(n, p, m) + 4 * n
      BY <1>3, <2>1, <2>2, CostNext
    <3> QED BY <3>1, <3>2
  <2>6. p + 1 <= q /\ Cardinality(Q) = m + 1 /\ m + 1 \in Nat
    BY <1>13, <1>14, <2>2 DEF p, q, m
  <2>7. Cost(n, p + 1, m + 1) <= Cost(n, q, m + 1)
    BY <1>3, <2>1, <2>6, CostMore
  <2>8. Cost(n, q, m + 1) \in Int
    <3>1. q <= q
      BY <2>1
    <3> QED BY <1>3, <2>1, <2>6, <3>1, CostMore
  <2>9. turns' <= TurnsBefore + 4 * n
    BY <1>2, <1>3, <1>4, <2>4
  <2>10. turns' <= Cost(n, q, m + 1)
    BY <1>2, <1>3, <2>5, <2>7, <2>8, <2>9
  <2> QED BY <2>6, <2>10 DEF q
<1>18. output' = u /\ loop' = "sort"
  BY DEF u, PivotPlaced
<1> HIDE DEF Q
<1> QED BY <1>3, <1>8, <1>13, <1>15, <1>16, <1>17, <1>18 DEF QuickSortInv

LEMMA PartitionSwapKeeps ==
    ASSUME QuickSortInv, PartitionSwap, Kept
    PROVE  QuickSortInv'
<1>1. CASE left < right /\ loop' = "down"
  BY <1>1, SwapKeeps DEF PartitionSwap
<1>2. CASE left >= right /\ loop' = "sort"
  BY <1>2, PlaceKeeps DEF PartitionSwap, PivotPlaced
<1> QED BY <1>1, <1>2 DEF PartitionSwap

LEMMA CostBound ==
    ASSUME NEW n \in Nat, NEW p \in Nat, p <= n, NEW m \in Nat
    PROVE  Cost(n, p, m) \in Int /\ Cost(n, p, m) <= 4 * n * n + n + 1
<1>1. Cost(n, p, m) \in Int /\ Cost(n, p, m) <= Cost(n, n, m)
  BY CostMore
<1> DEFINE a == 4 * n * n
<1>2. a \in Nat /\ Cost(n, n, m) = a + n + 1 - m
  BY DEF Cost
<1>3. a + n + 1 - m <= a + n + 1
  <2> HIDE DEF a
  <2> QED BY <1>2
<1> HIDE DEF a
<1>4. Cost(n, p, m) <= a + n + 1
  BY <1>1, <1>2, <1>3
<1> QED BY <1>1, <1>4 DEF a

LEMMA QuickSortBudget ==
    ASSUME QuickSortInv
    PROVE  turns <= 4 * Len(input) * Len(input) + Len(input) + 2
<1> DEFINE n == Len(input)  b == 4 * n * n
<1>1. input \in Vectors /\ turns \in Nat /\ loop \in {"sort", "down", "up", "swap", "returned"}
  BY DEF QuickSortInv
<1>2. n \in Nat /\ b \in Nat
  BY <1>1, VectorsAre
<1>3. CASE loop = "returned"
  BY <1>3 DEF QuickSortInv
<1>4. CASE loop = "sort"
  <2> DEFINE R == locals.todo  p == Cardinality(Settled(R, n))  m == Cardinality(R)
  <2>1. RangesIn(R, n) /\ turns <= Cost(n, p, m)
    BY <1>4 DEF QuickSortInv
  <2>2. m \in Nat
    BY <2>1, FS_CardinalityType DEF RangesIn
  <2>3. p \in Nat /\ p <= n
    BY <1>2, SettledIs
  <2> HIDE DEF p, m, R
  <2>4. Cost(n, p, m) \in Int /\ Cost(n, p, m) <= b + n + 1
    BY <1>2, <2>2, <2>3, CostBound
  <2> HIDE DEF b, n
  <2>5. turns <= b + n + 2
    BY <1>1, <1>2, <2>1, <2>4
  <2> QED BY <2>5 DEF b, n
<1>5. CASE loop \in {"down", "up", "swap"}
  <2>1. Partitioned /\ TurnsTaken
    BY <1>5 DEF QuickSortInv
  <2>2. /\ locals \in SortLocals /\ RangesIn(Open, n) /\ left \in Int /\ right \in Int
        /\ locals.first <= left /\ left <= right /\ right <= locals.last
    BY <2>1 DEF QuickSortInv, Partitioned
  <2>3. Current \in Open /\ Current[1] = locals.first /\ Current[2] = locals.last
    BY DEF Open, Current
  <2>4. 1 <= locals.first /\ locals.last <= n /\ locals.first \in Int /\ locals.last \in Int
    BY <2>2, <2>3 DEF RangesIn, SortLocals
  <2>5. left \in 1..n /\ Inside(left, Current)
    BY <1>2, <2>2, <2>3, <2>4 DEF Inside
  <2> DEFINE p == Cardinality(Settled(Open, n))  m == Cardinality(Open)
  <2>6. p \in Nat /\ p + 1 <= n
    <3>1. p + 1 <= Cardinality(Settled(Split(Open, Current, left), n))
      BY <1>2, <2>2, <2>3, <2>5, SettledMore
    <3>2. Cardinality(Settled(Split(Open, Current, left), n)) <= n
      BY <1>2, SettledIs
    <3>3. p \in Nat /\ Cardinality(Settled(Split(Open, Current, left), n)) \in Nat
      BY <1>2, SettledIs
    <3> HIDE DEF p
    <3> QED BY <1>2, <3>1, <3>2, <3>3
  <2>7. m \in Nat
    BY <2>2, FS_CardinalityType DEF RangesIn
  <2>8. TurnsBefore = Cost(n, p, m)
    BY DEF TurnsBefore
  <2>9. HasMoved \in Int /\ HasMoved + 1 <= n
    BY <1>2, <2>2, <2>4 DEF HasMoved
  <2> HIDE DEF p, m, n
  <2>10. Cost(n, p + 1, m + 1) = TurnsBefore + 4 * n /\ TurnsBefore \in Int
    <3>1. p <= p
      BY <2>6
    <3> QED BY <1>2, <2>6, <2>7, <2>8, <3>1, CostNext, CostMore
  <2>11. Cost(n, p + 1, m + 1) <= b + n + 1
    <3>1. p + 1 \in Nat /\ m + 1 \in Nat
      BY <2>6, <2>7
    <3> QED BY <1>2, <2>6, <3>1, CostBound
  <2>12. turns <= TurnsBefore + 3 + 4 * HasMoved
    <3>1. CASE loop = "down"
      BY <1>1, <2>1, <2>9, <2>10, <3>1 DEF TurnsTaken
    <3>2. CASE loop = "up"
      BY <1>1, <2>1, <2>9, <2>10, <3>2 DEF TurnsTaken
    <3>3. CASE loop = "swap"
      BY <2>1, <3>3 DEF TurnsTaken
    <3> QED BY <1>5, <3>1, <3>2, <3>3
  <2> HIDE DEF b
  <2>13. turns <= b + n + 2
    BY <1>1, <1>2, <2>9, <2>10, <2>11, <2>12
  <2> QED BY <2>13 DEF b, n
<1> QED BY <1>1, <1>3, <1>4, <1>5

LEMMA DrawnMerged ==
    ASSUME NEW t \in Seq(Values), NEW lists, Drawn(t, lists, Places(lists)), Ascending(t)
    PROVE  Merged(lists, t)
<1>1. \A c : Occurrences(t, c) = Cardinality({p \in Places(lists) : lists[p[1]][p[2]] = c})
  BY DrawnCounts
<1> QED BY <1>1 DEF Merged

\* Nothing was lost, and no range is left.
LEMMA QuickSortRight == QuickSortInv => ListsRight
<1> SUFFICES ASSUME QuickSortInv PROVE ListsRight
  OBVIOUS
<1> DEFINE n == Len(input)
<1>1. /\ fn = "quick_sort" /\ loop # "for ever" /\ input \in Vectors
      /\ output \in Seq(Values) /\ Drawn(output, <<input>>, {1} \X (1..n))
      /\ loop = "returned" => Ascending(output)
  BY DEF QuickSortInv
<1>2. Places(<<input>>) = {1} \X (1..n)
  <2>1. DOMAIN <<input>> = {1} /\ <<input>>[1] = input
    OBVIOUS
  <2> QED BY <2>1 DEF Places
<1>3. ASSUME loop = "returned" PROVE Merged(<<input>>, output)
  <2>1. Drawn(output, <<input>>, Places(<<input>>))
    BY <1>1, <1>2
  <2> QED BY <1>1, <1>3, <2>1, DrawnMerged
<1>4. loop = "returned" => AsAsked
  BY <1>1, <1>3 DEF AsAsked
<1>5. Budget
  BY <1>1, QuickSortBudget DEF Budget
<1> QED BY <1>1, <1>4, <1>5 DEF ListsRight

-----------------------------------------------------------------------------
(* minWindow: the counts are those of the window, and the window found so  *)
(* far is the best of those that end before right does.                    *)

Within(s, c, l, r) == {i \in l..r : s[i] = c}

Covers(s, t, l, r) == \A c \in ToSet(t) : Cardinality(Within(s, c, l, r)) >= Occurrences(t, c)

\* What the window has enough of.
Enough(t, counts) == {c \in ToSet(t) : counts[c] >= Occurrences(t, c)}

\* The window found so far is shorter than from l to r, or as short and not further right.
Beats(start, len, l, r) == len - 1 < r - l \/ (len - 1 = r - l /\ start <= l)

LEMMA WithinAre ==
    ASSUME NEW s, NEW c, NEW l \in Int, NEW r \in Int
    PROVE  IsFiniteSet(Within(s, c, l, r)) /\ Cardinality(Within(s, c, l, r)) \in Nat
<1>1. IsFiniteSet(l..r)
  BY FS_Interval
<1> QED BY <1>1, FS_Subset, FS_CardinalityType DEF Within

LEMMA WithinMore ==
    ASSUME NEW s, NEW c, NEW l \in Int, NEW r \in Int, l <= r + 1
    PROVE  Cardinality(Within(s, c, l, r + 1)) =
               IF s[r + 1] = c THEN Cardinality(Within(s, c, l, r)) + 1
               ELSE Cardinality(Within(s, c, l, r))
<1>1. r + 1 \notin Within(s, c, l, r)
  BY DEF Within
<1>2. CASE s[r + 1] = c
  <2>1. Within(s, c, l, r + 1) = Within(s, c, l, r) \union {r + 1}
    BY <1>2 DEF Within
  <2> QED BY <1>1, <1>2, <2>1, WithinAre, FS_AddElement
<1>3. CASE s[r + 1] # c
  <2>1. Within(s, c, l, r + 1) = Within(s, c, l, r)
    BY <1>3 DEF Within
  <2> QED BY <1>3, <2>1
<1> QED BY <1>2, <1>3

LEMMA WithinLess ==
    ASSUME NEW s, NEW c, NEW l \in Int, NEW r \in Int, l <= r
    PROVE  Cardinality(Within(s, c, l + 1, r)) =
               IF s[l] = c THEN Cardinality(Within(s, c, l, r)) - 1
               ELSE Cardinality(Within(s, c, l, r))
<1>1. CASE s[l] = c
  <2>1. Within(s, c, l + 1, r) = Within(s, c, l, r) \ {l} /\ l \in Within(s, c, l, r)
    BY <1>1 DEF Within
  <2> QED BY <1>1, <2>1, WithinAre, FS_RemoveElement
<1>2. CASE s[l] # c
  <2>1. Within(s, c, l + 1, r) = Within(s, c, l, r)
    BY <1>2 DEF Within
  <2> QED BY <1>2, <2>1
<1> QED BY <1>1, <1>2

LEMMA WithinPart ==
    ASSUME NEW s, NEW c, NEW l \in Int, NEW r \in Int, NEW a \in Int, NEW b \in Int,
           l <= a, b <= r
    PROVE  Cardinality(Within(s, c, a, b)) <= Cardinality(Within(s, c, l, r))
<1>1. Within(s, c, a, b) \subseteq Within(s, c, l, r)
  BY DEF Within
<1> QED BY <1>1, WithinAre, FS_Subset

LEMMA OccurrencesAre ==
    ASSUME NEW t \in Vectors
    PROVE  /\ IsFiniteSet(ToSet(t)) /\ Cardinality(ToSet(t)) \in Nat
           /\ \A c : Occurrences(t, c) \in Nat
           /\ \A c \in ToSet(t) : Occurrences(t, c) >= 1
           /\ t # <<>> => ToSet(t) # {}
<1>1. t \in Seq(Values) /\ Len(t) \in Nat /\ DOMAIN t = 1..Len(t) /\ t \in [1..Len(t) -> Values]
  BY VectorsAre, LenProperties
<1>2. IsFiniteSet(1..Len(t))
  BY <1>1, FS_Interval
<1>3. t \in Surjection(1..Len(t), ToSet(t))
  BY <1>1 DEF Surjection, ToSet
<1>4. IsFiniteSet(ToSet(t)) /\ Cardinality(ToSet(t)) \in Nat
  BY <1>2, <1>3, FS_Surjection, FS_CardinalityType
<1>5. ASSUME NEW c
      PROVE  /\ IsFiniteSet({i \in DOMAIN t : t[i] = c}) /\ Occurrences(t, c) \in Nat
             /\ Occurrences(t, c) = Cardinality({i \in DOMAIN t : t[i] = c})
  <2>1. IsFiniteSet({i \in DOMAIN t : t[i] = c})
    BY <1>1, <1>2, FS_Subset
  <2> QED BY <2>1, FS_CardinalityType DEF Occurrences
<1>6. ASSUME NEW c \in ToSet(t) PROVE Occurrences(t, c) >= 1
  <2>1. {i \in DOMAIN t : t[i] = c} # {}
    BY DEF ToSet
  <2>2. Occurrences(t, c) # 0 /\ Occurrences(t, c) \in Nat
    BY <1>5, <2>1, FS_EmptySet
  <2> QED BY <2>2
<1>7. t # <<>> => ToSet(t) # {}
  BY <1>1, EmptySeq DEF ToSet
<1> QED BY <1>4, <1>5, <1>6, <1>7

LEMMA CoversMore ==
    ASSUME NEW s, NEW t \in Vectors, NEW l \in Int, NEW r \in Int, NEW a \in Int, NEW b \in Int,
           l <= a, b <= r, Covers(s, t, a, b)
    PROVE  Covers(s, t, l, r)
<1> SUFFICES ASSUME NEW c \in ToSet(t)
             PROVE  Cardinality(Within(s, c, l, r)) >= Occurrences(t, c)
  BY DEF Covers
<1>1. /\ Cardinality(Within(s, c, a, b)) >= Occurrences(t, c) /\ Occurrences(t, c) \in Nat
      /\ Cardinality(Within(s, c, a, b)) <= Cardinality(Within(s, c, l, r))
      /\ Cardinality(Within(s, c, a, b)) \in Nat /\ Cardinality(Within(s, c, l, r)) \in Nat
  BY OccurrencesAre, WithinAre, WithinPart DEF Covers
<1> QED BY <1>1

\* A window that covers something is not empty.
LEMMA CoversSome ==
    ASSUME NEW s, NEW t \in Vectors, t # <<>>, NEW l \in Int, NEW r \in Int, Covers(s, t, l, r)
    PROVE  l <= r
<1> SUFFICES ASSUME ~(l <= r) PROVE FALSE
  OBVIOUS
<1>1. PICK c \in ToSet(t) : TRUE
  BY OccurrencesAre
<1>2. Within(s, c, l, r) = {}
  BY DEF Within
<1>3. Cardinality(Within(s, c, l, r)) = 0
  BY <1>2, FS_EmptySet
<1>4. Occurrences(t, c) \in Nat /\ Occurrences(t, c) >= 1
  BY OccurrencesAre
<1> QED BY <1>3, <1>4 DEF Covers

LEMMA WindowsAre ==
    ASSUME NEW s, NEW t
    PROVE  Windows(s, t) = {w \in (1..Len(s)) \X (1..Len(s)) : Covers(s, t, w[1], w[2])}
  BY DEF Windows, Covers, Within

\* The locals of minWindow count what is in the window.
WindowCounts ==
    LET s == input[1]  t == input[2]
    IN /\ left \in Nat /\ 1 <= left /\ right \in Nat /\ left <= right + 1 /\ right <= Len(s)
       /\ locals \in [windows : [ToSet(t) -> Nat], valid : Nat, start : Nat, len : Nat]
       /\ \A c \in ToSet(t) : locals.windows[c] = Cardinality(Within(s, c, left, right))
       /\ locals.valid = Cardinality(Enough(t, locals.windows))

\* The best so far of the windows that end at last at most.
WindowBest(last) ==
    LET s == input[1]  t == input[2]
    IN /\ 1 <= locals.start /\ locals.start <= left /\ 1 <= locals.len /\ locals.len <= Len(s) + 1
       /\ locals.len <= Len(s) =>
            /\ locals.start + locals.len - 1 <= right
            /\ Covers(s, t, locals.start, locals.start + locals.len - 1)
       /\ \A w \in Windows(s, t) : w[2] <= last => Beats(locals.start, locals.len, w[1], w[2])

WindowInv ==
    LET s == input[1]  t == input[2]
    IN /\ fn = "minWindow" /\ loop \in {"extend", "shrink", "returned"}
       /\ s \in Vectors /\ t \in Vectors /\ t # <<>>
       /\ loop = "extend" =>
            /\ WindowCounts /\ WindowBest(right)
            /\ \A l \in 1..(left - 1) : locals.len - 1 <= right - l
            /\ turns = 2 * right + left - 1
       /\ loop = "shrink" =>
            /\ WindowCounts /\ WindowBest(right - 1)
            /\ \A l \in 1..(left - 1) : Beats(locals.start, locals.len, l, right)
            /\ right >= 1 /\ turns = 2 * right + left - 2
       /\ loop = "returned" =>
            LET windows == Windows(s, t)
            IN IF windows = {} THEN output = <<>>
               ELSE \E w \in windows : Best(w, windows) /\ output = SubSeq(s, w[1], w[2])
       /\ turns \in Nat /\ turns <= 3 * Len(s) + 1

LEMMA EnoughIs ==
    ASSUME NEW t \in Vectors, NEW counts \in [ToSet(t) -> Nat]
    PROVE  /\ IsFiniteSet(Enough(t, counts)) /\ Cardinality(Enough(t, counts)) \in Nat
           /\ Cardinality(Enough(t, counts)) = Cardinality(ToSet(t)) <=>
                 \A c \in ToSet(t) : counts[c] >= Occurrences(t, c)
<1>1. Enough(t, counts) \subseteq ToSet(t) /\ IsFiniteSet(ToSet(t))
  BY OccurrencesAre DEF Enough
<1>2. /\ IsFiniteSet(Enough(t, counts)) /\ Cardinality(Enough(t, counts)) \in Nat
      /\ Cardinality(ToSet(t)) = Cardinality(Enough(t, counts)) => ToSet(t) = Enough(t, counts)
  BY <1>1, FS_Subset, FS_CardinalityType
<1>3. Enough(t, counts) = ToSet(t) <=> \A c \in ToSet(t) : counts[c] >= Occurrences(t, c)
  BY DEF Enough
<1> QED BY <1>2, <1>3

\* valid is changed when the count of c passes what t has of it.
LEMMA EnoughMore ==
    ASSUME NEW t \in Vectors, NEW counts \in [ToSet(t) -> Nat], NEW c \in ToSet(t)
    PROVE  Cardinality(Enough(t, [counts EXCEPT ![c] = counts[c] + 1])) =
               IF counts[c] + 1 = Occurrences(t, c) THEN Cardinality(Enough(t, counts)) + 1
               ELSE Cardinality(Enough(t, counts))
<1> DEFINE more == [counts EXCEPT ![c] = counts[c] + 1]
<1>1. /\ Occurrences(t, c) \in Nat /\ counts[c] \in Nat
      /\ IsFiniteSet(Enough(t, counts))
  BY OccurrencesAre, EnoughIs
<1>2. more[c] = counts[c] + 1 /\ \A d \in ToSet(t) : d # c => more[d] = counts[d]
  OBVIOUS
<1> HIDE DEF more
<1>3. CASE counts[c] + 1 = Occurrences(t, c)
  <2>1. c \notin Enough(t, counts)
    BY <1>1, <1>3 DEF Enough
  <2>2. \A d \in ToSet(t) : d \in Enough(t, more) <=> d \in Enough(t, counts) \/ d = c
    BY <1>1, <1>2, <1>3 DEF Enough
  <2>3. Enough(t, more) = Enough(t, counts) \union {c}
    BY <2>2 DEF Enough
  <2>4. Cardinality(Enough(t, more)) = Cardinality(Enough(t, counts)) + 1
    BY <1>1, <2>1, <2>3, FS_AddElement
  <2> QED BY <1>3, <2>4 DEF more
<1>4. CASE counts[c] + 1 # Occurrences(t, c)
  <2>1. \A d \in ToSet(t) : d \in Enough(t, more) <=> d \in Enough(t, counts)
    BY <1>1, <1>2, <1>4 DEF Enough
  <2>2. Enough(t, more) = Enough(t, counts)
    BY <2>1 DEF Enough
  <2> QED BY <1>4, <2>2 DEF more
<1> QED BY <1>3, <1>4

LEMMA EnoughLess ==
    ASSUME NEW t \in Vectors, NEW counts \in [ToSet(t) -> Nat], NEW c \in ToSet(t), counts[c] >= 1
    PROVE  Cardinality(Enough(t, [counts EXCEPT ![c] = counts[c] - 1])) =
               IF counts[c] = Occurrences(t, c) THEN Cardinality(Enough(t, counts)) - 1
               ELSE Cardinality(Enough(t, counts))
<1> DEFINE less == [counts EXCEPT ![c] = counts[c] - 1]
<1>1. /\ Occurrences(t, c) \in Nat /\ counts[c] \in Nat
      /\ IsFiniteSet(Enough(t, counts))
  BY OccurrencesAre, EnoughIs
<1>2. less[c] = counts[c] - 1 /\ \A d \in ToSet(t) : d # c => less[d] = counts[d]
  OBVIOUS
<1> HIDE DEF less
<1>3. CASE counts[c] = Occurrences(t, c)
  <2>1. c \in Enough(t, counts)
    BY <1>1, <1>3 DEF Enough
  <2>2. \A d \in ToSet(t) : d \in Enough(t, less) <=> d \in Enough(t, counts) /\ d # c
    BY <1>1, <1>2, <1>3 DEF Enough
  <2>3. Enough(t, less) = Enough(t, counts) \ {c}
    BY <2>2 DEF Enough
  <2>4. Cardinality(Enough(t, less)) = Cardinality(Enough(t, counts)) - 1
    BY <1>1, <2>1, <2>3, FS_RemoveElement
  <2> QED BY <1>3, <2>4 DEF less
<1>4. CASE counts[c] # Occurrences(t, c)
  <2>1. \A d \in ToSet(t) : d \in Enough(t, less) <=> d \in Enough(t, counts)
    BY <1>1, <1>2, <1>4 DEF Enough
  <2>2. Enough(t, less) = Enough(t, counts)
    BY <2>1 DEF Enough
  <2> QED BY <1>4, <2>2 DEF less
<1> QED BY <1>3, <1>4

LEMMA WindowStarts ==
    ASSUME MinWindow, turns' = 0
    PROVE  WindowInv'
<1> PICK s \in Vectors, t \in Vectors \ {<<>>} :
        Call("minWindow", <<s, t>>, "extend", Null, 1, 0,
             [windows |-> [c \in ToSet(t) |-> 0], valid |-> 0, start |-> 1, len |-> Len(s) + 1])
  BY DEF MinWindow
<1> DEFINE none == [c \in ToSet(t) |-> 0]
<1>1. Len(s) \in Nat /\ t \in Vectors /\ t # <<>>
  BY VectorsAre
<1>2. /\ fn' = "minWindow" /\ input' = <<s, t>> /\ loop' = "extend" /\ left' = 1 /\ right' = 0
      /\ locals' = [windows |-> none, valid |-> 0, start |-> 1, len |-> Len(s) + 1]
  BY DEF Call
<1>3. \A c : Cardinality(Within(s, c, 1, 0)) = 0
  <2>1. \A c : Within(s, c, 1, 0) = {}
    BY DEF Within
  <2> QED BY <2>1, FS_EmptySet
<1>4. Cardinality(Enough(t, none)) = 0
  <2>1. Enough(t, none) = {}
    BY <1>1, OccurrencesAre DEF Enough
  <2> QED BY <2>1, FS_EmptySet
<1>5. /\ locals'.windows = none /\ locals'.valid = 0 /\ locals'.start = 1
      /\ locals'.len = Len(s) + 1
  BY <1>2
<1>6. WindowCounts'
  BY <1>1, <1>2, <1>3, <1>4, <1>5 DEF WindowCounts
<1>7. \A w \in Windows(s, t) : ~(w[2] <= 0)
  BY <1>1 DEF Windows
<1>8. WindowBest(right)'
  BY <1>1, <1>2, <1>5, <1>7 DEF WindowBest
<1> QED BY <1>1, <1>2, <1>5, <1>6, <1>8 DEF WindowInv

LEMMA WindowBefore ==
    ASSUME WindowInv, loop \in {"extend", "shrink"}, Kept
    PROVE  /\ fn = "minWindow" /\ fn' = fn /\ input' = input /\ turns' = turns + 1
           /\ input[1] \in Vectors /\ input[2] \in Vectors /\ input[2] # <<>>
           /\ Len(input[1]) \in Nat
           /\ left \in Nat /\ 1 <= left /\ right \in Nat /\ left <= right + 1
           /\ right <= Len(input[1])
           /\ locals \in [windows : [ToSet(input[2]) -> Nat], valid : Nat, start : Nat, len : Nat]
           /\ \A c \in ToSet(input[2]) :
                 locals.windows[c] = Cardinality(Within(input[1], c, left, right))
           /\ locals.valid = Cardinality(Enough(input[2], locals.windows))
           /\ locals.valid = Cardinality(ToSet(input[2])) <=>
                 Covers(input[1], input[2], left, right)
<1>1. /\ WindowCounts /\ input[1] \in Vectors /\ input[2] \in Vectors /\ input[2] # <<>>
      /\ fn = "minWindow"
  BY DEF WindowInv
<1>2. /\ locals \in [windows : [ToSet(input[2]) -> Nat], valid : Nat, start : Nat, len : Nat]
      /\ \A c \in ToSet(input[2]) :
            locals.windows[c] = Cardinality(Within(input[1], c, left, right))
      /\ locals.valid = Cardinality(Enough(input[2], locals.windows))
  BY <1>1 DEF WindowCounts
<1>3. locals.windows \in [ToSet(input[2]) -> Nat]
  BY <1>2
<1>4. locals.valid = Cardinality(ToSet(input[2])) <=> Covers(input[1], input[2], left, right)
  BY <1>1, <1>2, <1>3, EnoughIs DEF Covers
<1> QED BY <1>1, <1>2, <1>4, VectorsAre DEF WindowCounts, Kept

LEMMA ExtendKeeps ==
    ASSUME WindowInv, Extend, Kept
    PROVE  WindowInv'
<1> DEFINE s == input[1]  t == input[2]
<1>1. loop = "extend"
  BY DEF Extend
<1>2. /\ fn = "minWindow" /\ fn' = fn /\ input' = input
      /\ s \in Vectors /\ t \in Vectors /\ t # <<>>
      /\ locals \in [windows : [ToSet(t) -> Nat], valid : Nat, start : Nat, len : Nat]
      /\ \A c \in ToSet(t) : locals.windows[c] = Cardinality(Within(s, c, left, right))
      /\ locals.valid = Cardinality(Enough(t, locals.windows))
  BY <1>1, WindowBefore
<1>3. /\ Len(s) \in Nat /\ left \in Nat /\ 1 <= left /\ right \in Nat /\ left <= right + 1
      /\ right <= Len(s) /\ turns' = turns + 1
  BY <1>1, WindowBefore
<1>4. WindowBest(right) /\ turns = 2 * right + left - 1
  BY <1>1 DEF WindowInv
<1>5. \A l \in 1..(left - 1) : locals.len - 1 <= right - l
  BY <1>1 DEF WindowInv
<1>6. /\ locals.start \in Nat /\ locals.len \in Nat /\ 1 <= locals.start /\ locals.start <= left
      /\ 1 <= locals.len /\ locals.len <= Len(s) + 1
  BY <1>2, <1>4 DEF WindowBest
<1>7. turns' \in Nat /\ turns' <= 3 * Len(s) + 1
  BY <1>3, <1>4
<1>8. CASE right >= Len(s)
  <2> DEFINE out == IF locals.len > Len(s) THEN <<>>
                    ELSE SubSeq(s, locals.start, locals.start + locals.len - 1)
  <2>1. loop' = "returned" /\ output' = out
    BY <1>8 DEF Extend, Return
  <2>2. right = Len(s)
    BY <1>3, <1>8
  <2>3. ASSUME NEW w \in Windows(s, t)
        PROVE  /\ w[1] \in Int /\ w[2] \in Int
               /\ Beats(locals.start, locals.len, w[1], w[2]) /\ w[2] - w[1] <= Len(s) - 1
    <3>1. w[1] \in 1..Len(s) /\ w[2] \in 1..Len(s)
      BY DEF Windows
    <3> QED BY <1>3, <1>4, <2>2, <3>1 DEF WindowBest
  <2>4. CASE locals.len > Len(s)
    <3>1. Windows(s, t) = {}
      <4> SUFFICES ASSUME NEW w \in Windows(s, t) PROVE FALSE
        OBVIOUS
      <4> QED BY <1>3, <1>6, <2>3, <2>4 DEF Beats
    <3> QED BY <1>2, <1>7, <2>1, <2>4, <3>1 DEF WindowInv
  <2>5. CASE ~(locals.len > Len(s))
    <3> DEFINE w == <<locals.start, locals.start + locals.len - 1>>
    <3>1. w \in Windows(s, t)
      <4>1. /\ locals.start \in 1..Len(s) /\ locals.start + locals.len - 1 \in 1..Len(s)
            /\ Covers(s, t, locals.start, locals.start + locals.len - 1)
        BY <1>3, <1>4, <1>6, <2>5 DEF WindowBest
      <4> QED BY <4>1, WindowsAre
    <3>2. Best(w, Windows(s, t))
      <4>1. w[2] - w[1] = locals.len - 1 /\ w[1] = locals.start
        BY <1>6
      <4>2. ASSUME NEW v \in Windows(s, t)
            PROVE  v[2] - v[1] > w[2] - w[1] \/ (v[2] - v[1] = w[2] - w[1] /\ v[1] >= w[1])
        BY <1>6, <2>3, <4>1 DEF Beats
      <4> QED BY <3>1, <4>2 DEF Best
    <3>3. output' = SubSeq(s, w[1], w[2])
      BY <2>1, <2>5
    <3> HIDE DEF w
    <3> QED BY <1>2, <1>7, <2>1, <3>1, <3>2, <3>3 DEF WindowInv
  <2> QED BY <2>4, <2>5
<1>9. CASE ~(right >= Len(s))
  <2> DEFINE c == s[right + 1]
             count == locals.windows[c] + 1
             more == [locals EXCEPT !.windows[c] = count,
                                    !.valid = IF count = Occurrences(t, c) THEN @ + 1 ELSE @]
  <2>1. /\ loop' = "shrink" /\ right' = right + 1 /\ left' = left
        /\ locals' = IF c \notin ToSet(t) THEN locals ELSE more
    BY <1>9 DEF Extend
  <2>2. right + 1 \in 1..Len(s) /\ left <= right + 1 /\ left <= right + 2 /\ right + 1 - 1 = right
    BY <1>3, <1>9
  <2>3. \A d : Cardinality(Within(s, d, left, right + 1)) =
                   IF d = c THEN Cardinality(Within(s, d, left, right)) + 1
                   ELSE Cardinality(Within(s, d, left, right))
    <3> TAKE d
    <3>1. left \in Int /\ right \in Int
      BY <1>3
    <3>2. Cardinality(Within(s, d, left, right + 1)) =
              IF s[right + 1] = d THEN Cardinality(Within(s, d, left, right)) + 1
              ELSE Cardinality(Within(s, d, left, right))
      BY <2>2, <3>1, WithinMore
    <3> QED BY <3>2
  <2>4. /\ locals' \in [windows : [ToSet(t) -> Nat], valid : Nat, start : Nat, len : Nat]
        /\ locals'.start = locals.start /\ locals'.len = locals.len
        /\ \A d \in ToSet(t) : locals'.windows[d] = Cardinality(Within(s, d, left, right + 1))
        /\ locals'.valid = Cardinality(Enough(t, locals'.windows))
    <3>1. CASE c \notin ToSet(t)
      <4>1. locals' = locals
        BY <2>1, <3>1
      <4>2. \A d \in ToSet(t) :
                Cardinality(Within(s, d, left, right + 1)) = Cardinality(Within(s, d, left, right))
        BY <2>3, <3>1
      <4> QED BY <1>2, <4>1, <4>2
    <3>2. CASE c \in ToSet(t)
      <4>1. locals' = more
        BY <2>1, <3>2
      <4>2. locals.windows \in [ToSet(t) -> Nat] /\ locals.valid \in Nat
        BY <1>2
      <4>3. /\ more.windows = [locals.windows EXCEPT ![c] = locals.windows[c] + 1]
            /\ more.valid = IF count = Occurrences(t, c) THEN locals.valid + 1 ELSE locals.valid
            /\ more.start = locals.start /\ more.len = locals.len
            /\ more \in [windows : [ToSet(t) -> Nat], valid : Nat, start : Nat, len : Nat]
        <5>1. more.windows = [locals.windows EXCEPT ![c] = locals.windows[c] + 1]
          BY <1>2
        <5>2. more.valid = IF count = Occurrences(t, c) THEN locals.valid + 1 ELSE locals.valid
          BY <1>2
        <5>3. more.start = locals.start /\ more.len = locals.len
          BY <1>2
        <5>4. more.windows \in [ToSet(t) -> Nat] /\ more.valid \in Nat
          BY <3>2, <4>2, <5>1, <5>2
        <5>5. more \in [windows : [ToSet(t) -> Nat], valid : Nat, start : Nat, len : Nat]
          BY <1>2, <5>4
        <5> QED BY <5>1, <5>2, <5>3, <5>5
      <4>4. more.valid = Cardinality(Enough(t, more.windows))
        <5>1. count = locals.windows[c] + 1
          OBVIOUS
        <5>2. Cardinality(Enough(t, [locals.windows EXCEPT ![c] = locals.windows[c] + 1])) =
                  IF locals.windows[c] + 1 = Occurrences(t, c)
                  THEN Cardinality(Enough(t, locals.windows)) + 1
                  ELSE Cardinality(Enough(t, locals.windows))
          BY <1>2, <3>2, <4>2, EnoughMore
        <5>3. locals.valid = Cardinality(Enough(t, locals.windows))
          BY <1>2
        <5> HIDE DEF more, count, c
        <5> QED BY <4>3, <5>1, <5>2, <5>3
      <4>5. ASSUME NEW d \in ToSet(t)
            PROVE  more.windows[d] = Cardinality(Within(s, d, left, right + 1))
        BY <1>2, <2>3, <3>2, <4>2, <4>3
      <4> QED BY <4>1, <4>3, <4>4, <4>5
    <3> QED BY <3>1, <3>2
  <2>5. WindowCounts'
    <3>1. input'[1] = s /\ input'[2] = t
      BY <1>2
    <3>2. /\ left' \in Nat /\ 1 <= left' /\ right' \in Nat /\ left' <= right' + 1
          /\ right' <= Len(s)
      BY <1>3, <2>1, <2>2
    <3>3. \A d \in ToSet(t) : locals'.windows[d] = Cardinality(Within(s, d, left', right'))
      BY <2>1, <2>4
    <3> HIDE DEF c, count, more
    <3> QED BY <2>4, <3>1, <3>2, <3>3 DEF WindowCounts
  <2>6. WindowBest(right - 1)'
    <3>1. /\ locals.start + locals.len - 1 <= right =>
                locals.start + locals.len - 1 <= right + 1
      BY <1>3, <1>6
    <3>2. right' - 1 = right
      BY <1>3, <2>1
    <3> QED BY <1>2, <1>4, <2>1, <2>4, <3>1, <3>2 DEF WindowBest
  <2>7. ASSUME NEW l \in 1..(left - 1) PROVE Beats(locals'.start, locals'.len, l, right')
    <3>1. locals.len - 1 <= right - l
      BY <1>5
    <3>2. locals.len - 1 < right + 1 - l
      BY <1>3, <1>6, <3>1
    <3>3. Beats(locals.start, locals.len, l, right + 1)
      BY <1>3, <1>6, <3>2 DEF Beats
    <3> QED BY <2>1, <2>4, <3>3
  <2>8. right' >= 1 /\ turns' = 2 * right' + left' - 2
    BY <1>3, <1>4, <2>1
  <2> QED BY <1>2, <1>7, <2>1, <2>5, <2>6, <2>7, <2>8 DEF WindowInv
<1> QED BY <1>8, <1>9

LEMMA ShrinkKeeps ==
    ASSUME WindowInv, Shrink, Kept
    PROVE  WindowInv'
<1> DEFINE s == input[1]  t == input[2]
<1>1. loop = "shrink"
  BY DEF Shrink
<1>2. /\ fn = "minWindow" /\ fn' = fn /\ input' = input
      /\ s \in Vectors /\ t \in Vectors /\ t # <<>>
      /\ locals \in [windows : [ToSet(t) -> Nat], valid : Nat, start : Nat, len : Nat]
      /\ \A c \in ToSet(t) : locals.windows[c] = Cardinality(Within(s, c, left, right))
      /\ locals.valid = Cardinality(Enough(t, locals.windows))
      /\ locals.valid = Cardinality(ToSet(t)) <=> Covers(s, t, left, right)
  BY <1>1, WindowBefore
<1>3. /\ Len(s) \in Nat /\ left \in Nat /\ 1 <= left /\ right \in Nat /\ left <= right + 1
      /\ right <= Len(s) /\ turns' = turns + 1
  BY <1>1, WindowBefore
<1>4. WindowBest(right - 1) /\ right >= 1 /\ turns = 2 * right + left - 2
  BY <1>1 DEF WindowInv
<1>5. \A l \in 1..(left - 1) : Beats(locals.start, locals.len, l, right)
  BY <1>1 DEF WindowInv
<1>6. /\ locals.start \in Nat /\ locals.len \in Nat /\ 1 <= locals.start /\ locals.start <= left
      /\ 1 <= locals.len /\ locals.len <= Len(s) + 1
  BY <1>2, <1>4 DEF WindowBest
<1>7. turns' \in Nat /\ turns' <= 3 * Len(s) + 1
  BY <1>3, <1>4
<1>8. CASE locals.valid # Cardinality(ToSet(t))
  <2>1. Goto("extend")
    BY <1>8 DEF Shrink
  <2>2. ~Covers(s, t, left, right)
    BY <1>2, <1>8
  <2>3. ASSUME NEW w \in Windows(s, t), w[2] <= right
        PROVE  Beats(locals.start, locals.len, w[1], w[2])
    <3>1. w[1] \in 1..Len(s) /\ w[2] \in 1..Len(s) /\ Covers(s, t, w[1], w[2])
      BY WindowsAre
    <3>2. CASE w[2] <= right - 1
      BY <1>4, <3>2 DEF WindowBest
    <3>3. CASE w[2] = right
      <4>1. w[1] < left
        BY <1>2, <1>3, <2>2, <3>1, <3>3, CoversMore
      <4> QED BY <1>3, <1>5, <3>1, <3>3, <4>1
    <3> QED BY <1>3, <2>3, <3>1, <3>2, <3>3
  <2>4. WindowBest(right)
    BY <1>4, <2>3 DEF WindowBest
  <2>5. ASSUME NEW l \in 1..(left - 1) PROVE locals.len - 1 <= right - l
    <3>1. Beats(locals.start, locals.len, l, right)
      BY <1>5
    <3> QED BY <1>3, <1>6, <3>1 DEF Beats
  <2>6. WindowCounts
    BY <1>1 DEF WindowInv
  <2>7. WindowCounts' /\ WindowBest(right)'
    BY <1>2, <2>1, <2>4, <2>6 DEF WindowCounts, WindowBest, Goto
  <2>8. turns' = 2 * right' + left' - 1
    BY <1>3, <1>4, <2>1 DEF Goto
  <2> QED BY <1>2, <1>7, <2>1, <2>5, <2>7, <2>8 DEF WindowInv, Goto
<1>9. CASE locals.valid = Cardinality(ToSet(t))
  <2> DEFINE d == s[left]
             count == locals.windows[d]
             len == right - left + 1
             found == IF len < locals.len THEN [locals EXCEPT !.start = left, !.len = len]
                      ELSE locals
             less == [found EXCEPT !.windows[d] = count - 1,
                                   !.valid = IF count = Occurrences(t, d) THEN @ - 1 ELSE @]
  <2>1. /\ loop' = "shrink" /\ left' = left + 1 /\ right' = right
        /\ locals' = IF d \notin ToSet(t) THEN found ELSE less
    BY <1>1, <1>9 DEF Shrink
  <2>2. Covers(s, t, left, right)
    BY <1>2, <1>9
  <2>3. left <= right
    BY <1>2, <1>3, <2>2, CoversSome
  <2>4. /\ found \in [windows : [ToSet(t) -> Nat], valid : Nat, start : Nat, len : Nat]
        /\ found.windows = locals.windows /\ found.valid = locals.valid
        /\ found.start = IF len < locals.len THEN left ELSE locals.start
        /\ found.len = IF len < locals.len THEN len ELSE locals.len
    <3>1. len \in Nat /\ left \in Nat
      BY <1>3, <2>3
    <3> QED BY <1>2, <3>1
  <2> HIDE DEF found
  <2>5. \A c : Cardinality(Within(s, c, left + 1, right)) =
                   IF c = d THEN Cardinality(Within(s, c, left, right)) - 1
                   ELSE Cardinality(Within(s, c, left, right))
    <3> TAKE c
    <3>1. left \in Int /\ right \in Int
      BY <1>3
    <3>2. Cardinality(Within(s, c, left + 1, right)) =
              IF s[left] = c THEN Cardinality(Within(s, c, left, right)) - 1
              ELSE Cardinality(Within(s, c, left, right))
      BY <2>3, <3>1, WithinLess
    <3> QED BY <3>2
  <2>6. /\ locals' \in [windows : [ToSet(t) -> Nat], valid : Nat, start : Nat, len : Nat]
        /\ locals'.start = found.start /\ locals'.len = found.len
        /\ \A c \in ToSet(t) : locals'.windows[c] = Cardinality(Within(s, c, left + 1, right))
        /\ locals'.valid = Cardinality(Enough(t, locals'.windows))
    <3>1. CASE d \notin ToSet(t)
      <4>1. locals' = found
        BY <2>1, <3>1
      <4>2. \A c \in ToSet(t) :
                Cardinality(Within(s, c, left + 1, right)) = Cardinality(Within(s, c, left, right))
        BY <2>5, <3>1
      <4> QED BY <1>2, <2>4, <4>1, <4>2
    <3>2. CASE d \in ToSet(t)
      <4>1. locals' = less
        BY <2>1, <3>2
      <4>2. locals.windows \in [ToSet(t) -> Nat] /\ locals.valid \in Nat
        BY <1>2
      <4>3. /\ count \in Nat /\ count >= Occurrences(t, d) /\ count >= 1
            /\ Occurrences(t, d) \in Nat
        <5>1. count = Cardinality(Within(s, d, left, right)) /\ count \in Nat
          BY <1>2, <3>2, <4>2
        <5> QED BY <1>2, <2>2, <3>2, <5>1, OccurrencesAre DEF Covers
      <4>4. Cardinality(Enough(t, [locals.windows EXCEPT ![d] = locals.windows[d] - 1])) =
                IF count = Occurrences(t, d) THEN locals.valid - 1 ELSE locals.valid
        BY <1>2, <3>2, <4>2, <4>3, EnoughLess
      <4>5. IsFiniteSet(Enough(t, [locals.windows EXCEPT ![d] = locals.windows[d] - 1]))
        <5>1. [locals.windows EXCEPT ![d] = locals.windows[d] - 1] \in [ToSet(t) -> Nat]
          BY <3>2, <4>2, <4>3
        <5> QED BY <1>2, <5>1, EnoughIs
      <4>6. (IF count = Occurrences(t, d) THEN locals.valid - 1 ELSE locals.valid) \in Nat
        BY <4>4, <4>5, FS_CardinalityType
      <4>7. /\ less.windows = [locals.windows EXCEPT ![d] = locals.windows[d] - 1]
            /\ less.valid = IF count = Occurrences(t, d) THEN locals.valid - 1 ELSE locals.valid
            /\ less.start = found.start /\ less.len = found.len
            /\ less \in [windows : [ToSet(t) -> Nat], valid : Nat, start : Nat, len : Nat]
        <5>1. less.windows = [locals.windows EXCEPT ![d] = locals.windows[d] - 1]
          BY <2>4
        <5>2. less.valid = IF count = Occurrences(t, d) THEN locals.valid - 1 ELSE locals.valid
          BY <2>4
        <5>3. less.start = found.start /\ less.len = found.len
          BY <2>4
        <5>4. less.windows \in [ToSet(t) -> Nat] /\ less.valid \in Nat
          <6>1. less.valid \in Nat
            BY <4>6, <5>2
          <6>2. count - 1 \in Nat /\ count = locals.windows[d]
            BY <4>3
          <6> QED BY <3>2, <4>2, <5>1, <6>1, <6>2
        <5>5. less \in [windows : [ToSet(t) -> Nat], valid : Nat, start : Nat, len : Nat]
          BY <2>4, <5>4
        <5> QED BY <5>1, <5>2, <5>3, <5>5
      <4>8. ASSUME NEW c \in ToSet(t)
            PROVE  less.windows[c] = Cardinality(Within(s, c, left + 1, right))
        BY <1>2, <2>5, <3>2, <4>2, <4>7
      <4> QED BY <4>1, <4>4, <4>7, <4>8
    <3> QED BY <3>1, <3>2
  <2>7. WindowCounts'
    <3>1. left' \in Nat /\ 1 <= left' /\ left' <= right' + 1
      BY <1>3, <2>1, <2>3
    <3> QED BY <1>2, <1>3, <2>1, <2>6, <3>1 DEF WindowCounts
  <2>8. /\ 1 <= found.start /\ found.start <= left /\ 1 <= found.len /\ found.len <= Len(s) + 1
        /\ found.start \in Nat /\ found.len \in Nat
    BY <1>3, <1>6, <2>3, <2>4
  <2>9. found.len <= Len(s) =>
            /\ found.start + found.len - 1 <= right
            /\ Covers(s, t, found.start, found.start + found.len - 1)
    <3>1. CASE len < locals.len
      <4>1. /\ found.start = left /\ found.len = right - left + 1
            /\ left + (right - left + 1) - 1 = right
        BY <1>3, <2>4, <3>1
      <4> QED BY <1>3, <2>2, <4>1
    <3>2. CASE ~(len < locals.len)
      BY <1>4, <2>4, <3>2 DEF WindowBest
    <3> QED BY <3>1, <3>2
  <2>10. ASSUME NEW l \in Int, NEW r \in Int, Beats(locals.start, locals.len, l, r)
         PROVE  Beats(found.start, found.len, l, r)
    BY <1>3, <1>6, <2>4, <2>10 DEF Beats
  <2>11. ASSUME NEW w \in Windows(s, t), w[2] <= right - 1
         PROVE  Beats(found.start, found.len, w[1], w[2])
    <3>1. Beats(locals.start, locals.len, w[1], w[2])
      BY <1>4, <2>11 DEF WindowBest
    <3>2. w[1] \in Int /\ w[2] \in Int
      BY <1>3 DEF Windows
    <3> QED BY <2>10, <3>1, <3>2
  <2>12. WindowBest(right - 1)'
    <3>1. left <= left'
      BY <1>3, <2>1
    <3>2. found.start <= left'
      BY <1>3, <2>1, <2>8
    <3> QED BY <1>2, <2>1, <2>6, <2>8, <2>9, <2>11, <3>2 DEF WindowBest
  <2>13. ASSUME NEW l \in 1..left PROVE Beats(found.start, found.len, l, right)
    <3>1. CASE l \in 1..(left - 1)
      BY <1>3, <1>5, <2>10, <3>1
    <3>2. CASE l = left
      BY <1>3, <1>6, <2>4, <3>2 DEF Beats
    <3> QED BY <1>3, <3>1, <3>2
  <2>14. turns' = 2 * right' + left' - 2 /\ left' - 1 = left
    BY <1>3, <1>4, <2>1
  <2> QED BY <1>2, <1>4, <1>7, <2>1, <2>6, <2>7, <2>12, <2>13, <2>14 DEF WindowInv
<1> QED BY <1>8, <1>9

LEMMA WindowRight == WindowInv => ListsRight
<1> SUFFICES ASSUME WindowInv PROVE ListsRight
  OBVIOUS
<1>1. fn = "minWindow" /\ loop # "for ever"
  BY DEF WindowInv
<1>2. turns <= 3 * Len(input[1]) + 1
  BY DEF WindowInv
<1>3. loop = "returned" => AsAsked
  BY DEF AsAsked, WindowInv
<1> QED BY <1>1, <1>2, <1>3 DEF ListsRight, Budget

-----------------------------------------------------------------------------
(* The calls together.                                                     *)

ListsInv ==
    \/ fn = "none" /\ loop = "none"
    \/ QuickSortInv \/ MergeInv \/ MergeKInv \/ FindInv \/ CyclesInv
    \/ RemoveInv \/ TwoSumInv \/ ReversingInv \/ WindowInv

LEMMA LoopsAre ==
    /\ QuickSortInv => loop \in {"sort", "down", "up", "swap", "returned"}
    /\ MergeInv => loop \in {"merge", "for ever", "returned"}
    /\ MergeKInv => loop \in {"queue", "returned"}
    /\ FindInv => loop \in {"ahead", "both", "returned"}
    /\ CyclesInv => loop \in {"chase", "in step", "returned"}
    /\ RemoveInv => loop \in {"array", "list", "returned"}
    /\ TwoSumInv => loop \in {"sum", "returned"}
    /\ ReversingInv => loop \in {"exchange", "relink", "compare", "returned"}
    /\ WindowInv => loop \in {"extend", "shrink", "returned"}
<1>1. QuickSortInv => loop \in {"sort", "down", "up", "swap", "returned"}
  BY DEF QuickSortInv
<1>2. MergeInv => loop \in {"merge", "for ever", "returned"}
  BY DEF MergeInv
<1>3. MergeKInv => loop \in {"queue", "returned"}
  BY DEF MergeKInv
<1>4. FindInv => loop \in {"ahead", "both", "returned"}
  BY DEF FindInv
<1>5. CyclesInv => loop \in {"chase", "in step", "returned"}
  BY DEF CyclesInv
<1>6. RemoveInv => loop \in {"array", "list", "returned"}
  BY DEF RemoveInv
<1>7. TwoSumInv => loop \in {"sum", "returned"}
  BY DEF TwoSumInv
<1>8. ReversingInv => loop \in {"exchange", "relink", "compare", "returned"}
  BY DEF ReversingInv
<1>9. WindowInv => loop \in {"extend", "shrink", "returned"}
  BY DEF WindowInv
<1> QED BY <1>1, <1>2, <1>3, <1>4, <1>5, <1>6, <1>7, <1>8, <1>9

LEMMA CallsStart ==
    ASSUME Calls, turns' = 0
    PROVE  ListsInv'
<1>1. CASE QuickSort
  BY <1>1, QuickSortStarts DEF ListsInv
<1>2. CASE Merge
  BY <1>2, MergeStarts DEF ListsInv
<1>3. CASE MergeKLists
  BY <1>3, MergeKStarts DEF ListsInv
<1>4. CASE FindFromEnd
  BY <1>4, FindStarts DEF ListsInv
<1>5. CASE Cycles
  BY <1>5, CyclesStarts DEF ListsInv
<1>6. CASE RemoveDulpicates
  BY <1>6, RemoveStarts DEF ListsInv
<1>7. CASE TwoSum
  BY <1>7, TwoSumStarts DEF ListsInv
<1>8. CASE Reversing
  BY <1>8, ReversingStarts DEF ListsInv
<1>9. CASE MinWindow
  BY <1>9, WindowStarts DEF ListsInv
<1> QED BY <1>1, <1>2, <1>3, <1>4, <1>5, <1>6, <1>7, <1>8, <1>9 DEF Calls

LEMMA TurnKeeps ==
    ASSUME ListsInv, Turn, Kept
    PROVE  ListsInv'
<1>1. CASE SortRange
  <2>1. QuickSortInv
    BY <1>1, LoopsAre DEF ListsInv, SortRange
  <2> QED BY <1>1, <2>1, SortRangeKeeps DEF ListsInv
<1>2. CASE PartitionDown
  <2>1. QuickSortInv
    BY <1>2, LoopsAre DEF ListsInv, PartitionDown
  <2> QED BY <1>2, <2>1, PartitionDownKeeps DEF ListsInv
<1>3. CASE PartitionUp
  <2>1. QuickSortInv
    BY <1>3, LoopsAre DEF ListsInv, PartitionUp
  <2> QED BY <1>3, <2>1, PartitionUpKeeps DEF ListsInv
<1>4. CASE PartitionSwap
  <2>1. QuickSortInv
    BY <1>4, LoopsAre DEF ListsInv, PartitionSwap
  <2> QED BY <1>4, <2>1, PartitionSwapKeeps DEF ListsInv
<1>5. CASE MergeTurn
  <2>1. MergeInv
    BY <1>5, LoopsAre DEF ListsInv, MergeTurn
  <2> QED BY <1>5, <2>1, MergeKeeps DEF ListsInv
<1>6. CASE MergeKTurn
  <2>1. MergeKInv
    BY <1>6, LoopsAre DEF ListsInv, MergeKTurn
  <2> QED BY <1>6, <2>1, MergeKKeeps DEF ListsInv
<1>7. CASE Ahead
  <2>1. FindInv
    BY <1>7, LoopsAre DEF ListsInv, Ahead
  <2> QED BY <1>7, <2>1, AheadKeeps DEF ListsInv
<1>8. CASE Both
  <2>1. FindInv
    BY <1>8, LoopsAre DEF ListsInv, Both
  <2> QED BY <1>8, <2>1, BothKeeps DEF ListsInv
<1>9. CASE Chase
  <2>1. CyclesInv
    BY <1>9, LoopsAre DEF ListsInv, Chase
  <2> QED BY <1>9, <2>1, ChaseKeeps DEF ListsInv
<1>10. CASE InStep
  <2>1. CyclesInv
    BY <1>10, LoopsAre DEF ListsInv, InStep
  <2> QED BY <1>10, <2>1, InStepKeeps DEF ListsInv
<1>11. CASE ArrayTurn
  <2>1. RemoveInv
    BY <1>11, LoopsAre DEF ListsInv, ArrayTurn
  <2> QED BY <1>11, <2>1, ArrayKeeps DEF ListsInv
<1>12. CASE ListTurn
  <2>1. RemoveInv
    BY <1>12, LoopsAre DEF ListsInv, ListTurn
  <2> QED BY <1>12, <2>1, ListKeeps DEF ListsInv
<1>13. CASE TwoSumTurn
  <2>1. TwoSumInv
    BY <1>13, LoopsAre DEF ListsInv, TwoSumTurn
  <2> QED BY <1>13, <2>1, TwoSumKeeps DEF ListsInv
<1>14. CASE Exchange
  <2>1. ReversingInv
    BY <1>14, LoopsAre DEF ListsInv, Exchange
  <2> QED BY <1>14, <2>1, ExchangeKeeps DEF ListsInv
<1>15. CASE Relink
  <2>1. ReversingInv
    BY <1>15, LoopsAre DEF ListsInv, Relink
  <2> QED BY <1>15, <2>1, RelinkKeeps DEF ListsInv
<1>16. CASE Compare
  <2>1. ReversingInv
    BY <1>16, LoopsAre DEF ListsInv, Compare
  <2> QED BY <1>16, <2>1, CompareKeeps DEF ListsInv
<1>17. CASE Extend
  <2>1. WindowInv
    BY <1>17, LoopsAre DEF ListsInv, Extend
  <2> QED BY <1>17, <2>1, ExtendKeeps DEF ListsInv
<1>18. CASE Shrink
  <2>1. WindowInv
    BY <1>18, LoopsAre DEF ListsInv, Shrink
  <2> QED BY <1>18, <2>1, ShrinkKeeps DEF ListsInv
<1> QED BY <1>1, <1>2, <1>3, <1>4, <1>5, <1>6, <1>7, <1>8, <1>9,
           <1>10, <1>11, <1>12, <1>13, <1>14, <1>15, <1>16, <1>17, <1>18 DEF Turn

LEMMA NothingKeeps ==
    ASSUME ListsInv, UNCHANGED listsVars
    PROVE  ListsInv'
<1>1. /\ fn' = fn /\ input' = input /\ loop' = loop /\ output' = output
      /\ left' = left /\ right' = right /\ locals' = locals /\ turns' = turns
  BY DEF listsVars
<1>2. CASE fn = "none" /\ loop = "none"
  BY <1>1, <1>2 DEF ListsInv
<1>3. CASE QuickSortInv
  <2>1. Open' = Open /\ Current' = Current
    BY <1>1 DEF Open, Current
  <2>2. TurnsBefore' = TurnsBefore /\ HasMoved' = HasMoved
    BY <1>1, <2>1 DEF TurnsBefore, HasMoved
  <2>3. Partitioned => Partitioned'
    BY <1>1, <2>1 DEF Partitioned
  <2>4. TurnsTaken => TurnsTaken'
    BY <1>1, <2>2 DEF TurnsTaken
  <2>5. QuickSortInv'
    BY <1>1, <1>3, <2>3, <2>4 DEF QuickSortInv
  <2> QED BY <2>5 DEF ListsInv
<1>4. CASE MergeInv
  <2>1. MergeInv'
    BY <1>1, <1>4 DEF MergeInv, MergePlaces
  <2> QED BY <2>1 DEF ListsInv
<1>5. CASE MergeKInv
  <2>1. MergeKInv'
    BY <1>1, <1>5 DEF MergeKInv, Behind
  <2> QED BY <2>1 DEF ListsInv
<1>6. CASE FindInv
  <2>1. FindInv'
    BY <1>1, <1>6 DEF FindInv
  <2> QED BY <2>1 DEF ListsInv
<1>7. CASE CyclesInv
  <2>1. OnLine => OnLine'
    BY <1>1 DEF OnLine
  <2>2. OnLasso => OnLasso'
    BY <1>1 DEF OnLasso
  <2>3. ToEntry => ToEntry'
    <3> SUFFICES ASSUME ToEntry PROVE ToEntry'
      OBVIOUS
    <3>1. fn' = "detectCycle"
      BY <1>1 DEF ToEntry
    <3>2. PICK n \in Nodes : \E q \in [1..n -> Nodes] : \E e \in 1..n : \E m \in 1..e, b \in e..n :
             /\ Lasso(input, n, q, e)
             /\ left = q[m] /\ right = q[b]
             /\ \E x, y \in Laps(n - e + 1) : x <= n /\ x + m = b + y /\ turns = x + m - 1
      BY DEF ToEntry
    <3>3. \E q \in [1..n -> Nodes] : \E e \in 1..n : \E m \in 1..e, b \in e..n :
             /\ Lasso(input', n, q, e)
             /\ left' = q[m] /\ right' = q[b]
             /\ \E x, y \in Laps(n - e + 1) : x <= n /\ x + m = b + y /\ turns' = x + m - 1
      BY <1>1, <3>2
    <3> QED BY <3>1, <3>2, <3>3, Zenon DEF ToEntry
  <2>4. CyclesInv'
    BY <1>1, <1>7, <2>1, <2>2, <2>3 DEF CyclesInv
  <2> QED BY <2>4 DEF ListsInv
<1>8. CASE RemoveInv
  <2>1. RemoveInv'
    BY <1>1, <1>8 DEF RemoveInv
  <2> QED BY <2>1 DEF ListsInv
<1>9. CASE TwoSumInv
  <2>1. TwoSumInv'
    BY <1>1, <1>9 DEF TwoSumInv
  <2> QED BY <2>1 DEF ListsInv
<1>10. CASE ReversingInv
  <2>1. ReversingInv'
    BY <1>1, <1>10 DEF ReversingInv
  <2> QED BY <2>1 DEF ListsInv
<1>11. CASE WindowInv
  <2>1. WindowInv'
    BY <1>1, <1>11 DEF WindowInv, WindowCounts, WindowBest
  <2> QED BY <2>1 DEF ListsInv
<1> QED BY <1>2, <1>3, <1>4, <1>5, <1>6, <1>7, <1>8, <1>9, <1>10, <1>11 DEF ListsInv

\* Whatever the values and the lengths of the inputs, each function returns what it is asked
\* for within its budget of turns, and merge() goes on for ever exactly when something of list2
\* comes before the end of list1.
THEOREM ListsCorrect == ListsSpec => []ListsRight
<1>1. ListsInit => ListsInv
  BY DEF ListsInit, ListsInv
<1>2. ListsInv /\ [ListsNext]_listsVars => ListsInv'
  <2> SUFFICES ASSUME ListsInv, [ListsNext]_listsVars PROVE ListsInv'
    OBVIOUS
  <2>1. CASE Calls /\ turns' = 0
    BY <2>1, CallsStart
  <2>2. CASE Turn /\ turns' = turns + 1 /\ UNCHANGED <<fn, input>>
    BY <2>2, TurnKeeps DEF Kept
  <2>3. CASE UNCHANGED listsVars
    BY <2>3, NothingKeeps
  <2> QED BY <2>1, <2>2, <2>3 DEF ListsNext
<1>3. ListsInv => ListsRight
  <2>1. fn = "none" /\ loop = "none" => ListsRight
    BY DEF ListsRight, Budget
  <2> QED BY <2>1, QuickSortRight, MergeRight, MergeKRight, FindRight, CyclesRight,
             RemoveRight, TwoSumRight, ReversingRight, WindowRight DEF ListsInv
<1> QED BY <1>1, <1>2, <1>3, PTL DEF ListsSpec
=============================================================================
