-------------------------- MODULE PolicyRulesProofs --------------------------
(***************************************************************************)
(* Proofs about PolicyRules for all rules, of any number and length:       *)
(*   RulesOnlyReordered  OnlyReordered                                     *)
(*   ComparisonIsRight   AnswerIsRight, from the two loop invariants and   *)
(*                       the uniqueness of sorted permutations             *)
(***************************************************************************)
EXTENDS PolicyRules, FiniteSets, FiniteSetTheorems, TLAPS

-----------------------------------------------------------------------------
(***************************************************************************)
(* Permutations.                                                           *)
(***************************************************************************)
LEMMA StringsOfSlice ==
    ASSUME NEW s \in Seq(Strings)
    PROVE  /\ s # NilSlice
           /\ Length(s) = Len(s)
           /\ Len(s) \in Nat
           /\ \A a \in 1..Len(s) : s[a] \in Nat
<1>1. s # NilSlice /\ Len(s) \in Nat
  BY PolicyAssumption
<1>2. \A a \in 1..Len(s) : s[a] \in Strings
  OBVIOUS
<1>3. \A x \in Strings : x \in Nat
  BY PolicyAssumption
<1> QED
  BY <1>1, <1>2, <1>3 DEF Length

LEMMA PermutationReflexive ==
    ASSUME NEW s \in Slice
    PROVE  IsPermutation(s, s)
<1>1. CASE s = NilSlice
  BY <1>1 DEF IsPermutation
<1>2. CASE s \in Seq(Strings)
  <2> DEFINE p == [a \in 1..Len(s) |-> a]
  <2>1. p \in [1..Len(s) -> 1..Len(s)] /\ DOMAIN s = 1..Len(s)
    BY <1>2
  <2>2. PermutedBy(s, s, p)
    BY <2>1 DEF PermutedBy
  <2> QED
    BY <1>2, <2>1, <2>2, PolicyAssumption DEF IsPermutation
<1> QED
  BY <1>1, <1>2 DEF Slice

LEMMA PermutationSymmetric ==
    ASSUME NEW r \in Slice, NEW s \in Slice, IsPermutation(r, s)
    PROVE  IsPermutation(s, r)
<1>1. CASE NilSlice \in {r, s}
  BY <1>1 DEF IsPermutation
<1>2. CASE NilSlice \notin {r, s}
  <2>1. /\ r \in Seq(Strings) /\ s \in Seq(Strings)
        /\ DOMAIN r = 1..Len(r) /\ DOMAIN s = 1..Len(s)
        /\ Len(r) = Len(s)
    BY <1>2 DEF Slice, IsPermutation
  <2>2. PICK p \in [1..Len(r) -> 1..Len(s)] : PermutedBy(r, s, p)
    BY <1>2 DEF IsPermutation
  <2> DEFINE q == [b \in 1..Len(s) |-> CHOOSE a \in 1..Len(r) : p[a] = b]
  <2>3. \A b \in 1..Len(s) : q[b] \in 1..Len(r) /\ p[q[b]] = b
    BY <2>1, <2>2 DEF PermutedBy
  <2>4. q \in [1..Len(s) -> 1..Len(r)]
    BY <2>3
  <2>5. \A a \in 1..Len(r) : q[p[a]] = a
    BY <2>1, <2>2, <2>3 DEF PermutedBy
  <2> HIDE DEF q
  <2>6. PermutedBy(s, r, q)
    BY <2>1, <2>2, <2>3, <2>4, <2>5 DEF PermutedBy
  <2> QED
    BY <1>2, <2>1, <2>4, <2>6 DEF IsPermutation
<1> QED
  BY <1>1, <1>2

LEMMA PermutationTransitive ==
    ASSUME NEW r \in Slice, NEW s \in Slice, NEW t \in Slice,
           IsPermutation(r, s), IsPermutation(s, t)
    PROVE  IsPermutation(r, t)
<1>1. CASE NilSlice \in {r, s, t}
  BY <1>1 DEF IsPermutation
<1>2. CASE NilSlice \notin {r, s, t}
  <2>1. /\ r \in Seq(Strings) /\ s \in Seq(Strings) /\ t \in Seq(Strings)
        /\ DOMAIN r = 1..Len(r) /\ DOMAIN s = 1..Len(s) /\ DOMAIN t = 1..Len(t)
        /\ Len(r) = Len(s) /\ Len(s) = Len(t)
    BY <1>2 DEF Slice, IsPermutation
  <2>2. PICK p \in [1..Len(r) -> 1..Len(s)] : PermutedBy(r, s, p)
    BY <1>2 DEF IsPermutation
  <2>3. PICK q \in [1..Len(s) -> 1..Len(t)] : PermutedBy(s, t, q)
    BY <1>2 DEF IsPermutation
  <2> DEFINE u == [a \in 1..Len(r) |-> q[p[a]]]
  <2>4. u \in [1..Len(r) -> 1..Len(t)]
    BY <2>1
  <2>5. \A a \in 1..Len(r) : u[a] = q[p[a]] /\ p[a] \in 1..Len(s)
    BY <2>1
  <2> HIDE DEF u
  <2>6. ASSUME NEW a \in 1..Len(r), NEW b \in 1..Len(r), u[a] = u[b]
        PROVE  a = b
    <3>1. /\ p[a] \in 1..Len(s) /\ p[b] \in 1..Len(s)
          /\ q[p[a]] = q[p[b]]
      BY <2>5, <2>6, Zenon
    <3>2. \A x, y \in 1..Len(s) : q[x] = q[y] => x = y
      BY <2>3, Zenon DEF PermutedBy
    <3>3. p[a] = p[b]
      BY <3>1, <3>2
    <3>4. \A x, y \in 1..Len(r) : p[x] = p[y] => x = y
      BY <2>2, Zenon DEF PermutedBy
    <3> QED
      BY <2>6, <3>3, <3>4
  <2>7. ASSUME NEW c \in 1..Len(t)
        PROVE  \E a \in 1..Len(r) : u[a] = c
    <3>1. PICK b \in 1..Len(s) : q[b] = c
      BY <2>3, Zenon DEF PermutedBy
    <3>2. PICK a \in 1..Len(r) : p[a] = b
      BY <2>2, Zenon DEF PermutedBy
    <3> QED
      BY <2>5, <3>1, <3>2, Zenon
  <2>8. ASSUME NEW a \in 1..Len(r)
        PROVE  r[a] = t[u[a]]
    <3>1. r[a] = s[p[a]]
      BY <2>2, Zenon DEF PermutedBy
    <3>2. s[p[a]] = t[q[p[a]]]
      BY <2>3, <2>5, Zenon DEF PermutedBy
    <3> QED
      BY <2>5, <3>1, <3>2, Zenon
  <2> QED
    BY <1>2, <2>1, <2>4, <2>6, <2>7, <2>8 DEF IsPermutation, PermutedBy
<1> QED
  BY <1>1, <1>2

\* A swap of neighbours is a permutation.
LEMMA SwapPermutes ==
    ASSUME NEW s \in Seq(Strings), NEW k \in 1..(Len(s) - 1)
    PROVE  /\ Swapped(s, k) \in Seq(Strings)
           /\ Len(Swapped(s, k)) = Len(s)
           /\ IsPermutation(Swapped(s, k), s)
<1> DEFINE r == Swapped(s, k)
           p == [a \in 1..Len(s) |-> IF a = k THEN k + 1 ELSE IF a = k + 1 THEN k ELSE a]
<1>1. /\ Len(s) \in Nat /\ k \in 1..Len(s) /\ k + 1 \in 1..Len(s)
      /\ DOMAIN s = 1..Len(s)
  OBVIOUS
<1>2. r \in Seq(Strings) /\ Len(r) = Len(s)
  BY <1>1 DEF Swapped
<1>3. p \in [1..Len(s) -> 1..Len(s)]
  BY <1>1
<1>4. \A a \in 1..Len(s) : r[a] = s[p[a]]
  BY <1>1 DEF Swapped
<1>5. \A b \in 1..Len(s) : p[p[b]] = b
  BY <1>1
<1>6. DOMAIN r = 1..Len(s)
  BY <1>2
<1> HIDE DEF r, p
<1>7. PermutedBy(r, s, p)
  BY <1>1, <1>3, <1>4, <1>5, <1>6 DEF PermutedBy
<1>8. NilSlice \notin {r, s}
  BY <1>2, PolicyAssumption
<1>9. IsPermutation(r, s)
  BY <1>2, <1>3, <1>7, <1>8 DEF IsPermutation
<1> QED
  BY <1>2, <1>9 DEF r

\* Of two sorted permutations of one another neither has a smaller string
\* anywhere: the strings up to there would have too few places to go.
LEMMA SortedNotSmaller ==
    ASSUME NEW r \in Seq(Strings), NEW s \in Seq(Strings), Len(r) = Len(s),
           Sorted(r), Sorted(s),
           NEW p \in [1..Len(r) -> 1..Len(s)], PermutedBy(r, s, p),
           NEW k \in 1..Len(r)
    PROVE  ~(r[k] < s[k])
<1> SUFFICES ASSUME r[k] < s[k] PROVE FALSE
  OBVIOUS
<1>1. /\ Len(r) \in Nat
      /\ \A a \in 1..Len(r) : r[a] \in Nat /\ s[a] \in Nat
      /\ Length(r) = Len(r) /\ Length(s) = Len(s)
  BY StringsOfSlice
<1>2. /\ \A a, b \in 1..Len(r) : a < b => r[a] <= r[b]
      /\ \A a, b \in 1..Len(s) : a < b => s[a] <= s[b]
  BY <1>1 DEF Sorted, SortedSave
<1>3. \A a \in 1..k : p[a] \in 1..(k - 1)
  <2> SUFFICES ASSUME NEW a \in 1..k PROVE p[a] \in 1..(k - 1)
    OBVIOUS
  <2>1. a \in 1..Len(r) /\ p[a] \in 1..Len(s) /\ r[a] = s[p[a]]
    <3>1. a \in 1..Len(r)
      BY <1>1
    <3>2. p[a] \in 1..Len(s)
      BY <3>1
    <3>3. r[a] = s[p[a]]
      BY <3>1, Zenon DEF PermutedBy
    <3> QED
      BY <3>1, <3>2, <3>3
  <2>2. r[a] <= r[k]
    BY <1>1, <1>2, <2>1
  <2>3. s[p[a]] < s[k]
    BY <1>1, <2>1, <2>2
  <2>4. ~(k <= p[a])
    BY <1>1, <1>2, <2>1, <2>3
  <2> QED
    BY <1>1, <2>1, <2>4
<1> DEFINE f == [a \in 1..k |-> p[a]]
<1>4. f \in [1..k -> 1..(k - 1)]
  BY <1>3
<1>5. /\ IsFiniteSet(1..k) /\ Cardinality(1..k) = k
      /\ IsFiniteSet(1..(k - 1)) /\ Cardinality(1..(k - 1)) = k - 1
  <2>1. 1 \in Int /\ k \in Int /\ k - 1 \in Int /\ k >= 1
    OBVIOUS
  <2>2. IsFiniteSet(1..k) /\ Cardinality(1..k) = IF 1 > k THEN 0 ELSE k - 1 + 1
    BY <2>1, FS_Interval
  <2>3. /\ IsFiniteSet(1..(k - 1))
        /\ Cardinality(1..(k - 1)) = IF 1 > k - 1 THEN 0 ELSE (k - 1) - 1 + 1
    BY <2>1, FS_Interval
  <2> QED
    BY <2>1, <2>2, <2>3
<1>6. PICK a, b \in 1..k : a # b /\ f[a] = f[b]
  <2>1. Cardinality(1..(k - 1)) < Cardinality(1..k)
    BY <1>5
  <2> HIDE DEF f
  <2> QED
    BY <1>4, <1>5, <2>1, FS_PigeonHole
<1>7. /\ a \in 1..Len(r) /\ b \in 1..Len(r)
      /\ p[a] = p[b]
  BY <1>1, <1>6
<1> QED
  BY <1>6, <1>7 DEF PermutedBy

\* A slice has one sorted order.
LEMMA SortedUnique ==
    ASSUME NEW r \in Slice, NEW s \in Slice,
           Sorted(r), Sorted(s), IsPermutation(r, s)
    PROVE  r = s
<1>1. CASE NilSlice \in {r, s}
  BY <1>1 DEF IsPermutation
<1>2. CASE NilSlice \notin {r, s}
  <2>1. r \in Seq(Strings) /\ s \in Seq(Strings) /\ Len(r) = Len(s)
    BY <1>2 DEF Slice, IsPermutation
  <2>2. \A k \in 1..Len(r) : ~(r[k] < s[k])
    <3>1. PICK p \in [1..Len(r) -> 1..Len(s)] : PermutedBy(r, s, p)
      BY <1>2 DEF IsPermutation
    <3> QED
      BY <2>1, <3>1, SortedNotSmaller
  <2>3. \A k \in 1..Len(s) : ~(s[k] < r[k])
    <3>1. IsPermutation(s, r)
      BY PermutationSymmetric
    <3>2. PICK p \in [1..Len(s) -> 1..Len(r)] : PermutedBy(s, r, p)
      BY <1>2, <3>1 DEF IsPermutation
    <3> QED
      BY <2>1, <3>2, SortedNotSmaller
  <2>4. \A k \in 1..Len(r) : r[k] \in Nat /\ s[k] \in Nat
    BY <2>1, StringsOfSlice
  <2>5. \A k \in 1..Len(r) : r[k] = s[k]
    BY <2>1, <2>2, <2>3, <2>4
  <2> QED
    BY <2>1, <2>5
<1> QED
  BY <1>1, <1>2

-----------------------------------------------------------------------------
(***************************************************************************)
(* The invariants.                                                         *)
(***************************************************************************)
RulesInv == TypeOK /\ LoopInv /\ OnlyReordered

LEMMA InitRules == Init => RulesInv
<1> SUFFICES ASSUME Init PROVE RulesInv
  OBVIOUS
<1>1. TypeOK
  BY PolicyAssumption DEF Init, TypeOK, Slice, Listed
<1>2. LoopInv
  BY DEF Init, LoopInv
<1>3. OnlyReordered
  BY <1>1, PermutationReflexive DEF Init, TypeOK, OnlyReordered
<1> QED
  BY <1>1, <1>2, <1>3 DEF RulesInv

\* One exchange of neighbours moves the hole of the inner loop down by one.
LEMMA MoveDownRules ==
    ASSUME RulesInv, MoveDown
    PROVE  RulesInv'
<1> DEFINE s == slices[slot]
<1>1. /\ pc = "inner" /\ slot \in pending /\ slot \in Slots
      /\ slices \in [Slots -> Slice] /\ s \in Slice
      /\ j \in Nat /\ i \in Nat /\ j > 0 /\ j <= i /\ i < Length(s)
      /\ s[j + 1] < s[j]
      /\ SortedSave(s, i + 1, j + 1)
  BY DEF RulesInv, TypeOK, LoopInv, MoveDown, OutOfOrder
<1>2. /\ s \in Seq(Strings) /\ Length(s) = Len(s)
      /\ j \in 1..(Len(s) - 1)
      /\ \A a \in 1..Len(s) : s[a] \in Nat
  BY <1>1, StringsOfSlice DEF Slice, Length
<1>3. /\ slices' = [slices EXCEPT ![slot] = Swapped(s, j)]
      /\ slices'[slot] = Swapped(s, j)
      /\ \A t \in Slots \ {slot} : slices'[t] = slices[t]
  BY <1>1 DEF MoveDown
<1>4. /\ Swapped(s, j) \in Seq(Strings)
      /\ Len(Swapped(s, j)) = Len(s)
      /\ IsPermutation(Swapped(s, j), s)
  BY <1>2, SwapPermutes
<1>5. TypeOK'
  BY <1>1, <1>3, <1>4 DEF RulesInv, TypeOK, MoveDown, inputVars, Slice
<1>6. OnlyReordered'
  <2>1. IsPermutation(Swapped(s, j), given[slot])
    <3>1. given[slot] \in Slice /\ Swapped(s, j) \in Slice
      BY <1>1, <1>4 DEF RulesInv, TypeOK, Slice
    <3>2. IsPermutation(s, given[slot])
      BY <1>1 DEF RulesInv, OnlyReordered
    <3> QED
      BY <1>1, <1>4, <3>1, <3>2, PermutationTransitive
  <2> QED
    BY <1>3, <2>1 DEF RulesInv, OnlyReordered, MoveDown, inputVars
<1>7. SortedSave(Swapped(s, j), i + 1, (j - 1) + 1)
  <2> DEFINE r == Swapped(s, j)
  <2>1. /\ r[j] = s[j + 1] /\ r[j + 1] = s[j]
        /\ \A a \in 1..Len(s) : a \notin {j, j + 1} => r[a] = s[a]
    BY <1>2 DEF Swapped
  <2>2. \A a, b \in 1..Len(s) : a < b /\ b <= i + 1 /\ b # j + 1 => s[a] <= s[b]
    BY <1>1, <1>2 DEF SortedSave
  <2>3. Length(r) = Len(s)
    BY <1>4, PolicyAssumption DEF Length
  <2> HIDE DEF r
  <2> SUFFICES ASSUME NEW a \in 1..Len(s), NEW b \in 1..Len(s), a < b,
                      b <= i + 1, b # j
               PROVE  r[a] <= r[b]
    BY <1>1, <2>3 DEF SortedSave, r
  <2>4. CASE b = j + 1
    BY <1>1, <1>2, <2>1, <2>2, <2>4
  <2>5. CASE b # j + 1
    BY <1>1, <1>2, <2>1, <2>2, <2>5
  <2> QED
    BY <2>4, <2>5
<1>8. LoopInv'
  <2>1. Length(Swapped(s, j)) = Len(s)
    BY <1>4, PolicyAssumption DEF Length
  <2>2. pc' = "inner" /\ i' = i /\ j' = j - 1 /\ pending' = pending /\ slot' = slot
    BY <1>1 DEF MoveDown
  <2>3. /\ i' < Length(slices'[slot'])
        /\ j' <= i'
        /\ SortedSave(slices'[slot'], i' + 1, j' + 1)
    BY <1>1, <1>2, <1>3, <1>7, <2>1, <2>2
  <2>4. \A t \in (Listed("want") \cup Listed("have")) \ pending :
            t \in Slots \ {slot} /\ Sorted(slices[t])
    BY <1>1 DEF RulesInv, LoopInv, Listed
  <2>5. Listed("want")' = Listed("want") /\ Listed("have")' = Listed("have")
    BY DEF MoveDown, inputVars, Listed
  <2> QED
    BY <1>3, <2>2, <2>3, <2>4, <2>5 DEF LoopInv
<1> QED
  BY <1>5, <1>6, <1>8 DEF RulesInv

LEMMA NextRules ==
    ASSUME RulesInv, [Next]_vars
    PROVE  RulesInv'
<1>1. TypeOK /\ LoopInv /\ OnlyReordered
  BY DEF RulesInv
<1>2. ASSUME UNCHANGED <<count, given, slices>>
      PROVE  /\ OnlyReordered'
             /\ Listed("want")' = Listed("want") /\ Listed("have")' = Listed("have")
             /\ DeepEqual' = DeepEqual
  BY <1>1, <1>2 DEF OnlyReordered, Listed, DeepEqual
<1>3. ASSUME NEW t \in pending, SortStrings(t)
      PROVE  RulesInv'
  <2>1. UNCHANGED <<count, given, slices>>
    BY <1>3 DEF SortStrings, inputVars
  <2>2. TypeOK'
    BY <1>1, <1>3 DEF SortStrings, TypeOK, inputVars
  <2>3. LoopInv'
    BY <1>1, <1>2, <1>3, <2>1 DEF SortStrings, LoopInv, SortedSave
  <2> QED
    BY <1>2, <2>1, <2>2, <2>3 DEF RulesInv
<1>4. CASE Insert
  <2>1. UNCHANGED <<count, given, slices>>
    BY <1>4 DEF Insert, inputVars
  <2>2. TypeOK'
    BY <1>1, <1>4 DEF Insert, TypeOK, inputVars
  <2>3. SortedSave(slices[slot], i + 1, i + 1)
    BY <1>1, <1>4 DEF Insert, LoopInv, TypeOK, SortedSave
  <2>4. LoopInv'
    BY <1>1, <1>2, <1>4, <2>1, <2>3 DEF Insert, LoopInv, TypeOK
  <2> QED
    BY <1>2, <2>1, <2>2, <2>4 DEF RulesInv
<1>5. CASE SliceSorted
  <2>1. UNCHANGED <<count, given, slices>>
    BY <1>5 DEF SliceSorted, inputVars
  <2>2. TypeOK'
    BY <1>1, <1>5 DEF SliceSorted, TypeOK, inputVars
  <2>3. Length(slices[slot]) \in Nat
    BY <1>1, <1>5 DEF SliceSorted, TypeOK, Length, Slice
  <2>4. Sorted(slices[slot])
    BY <1>1, <1>5, <2>3 DEF SliceSorted, LoopInv, TypeOK, Sorted, SortedSave
  <2>5. LoopInv'
    BY <1>1, <1>2, <1>5, <2>1, <2>4 DEF SliceSorted, LoopInv
  <2> QED
    BY <1>2, <2>1, <2>2, <2>5 DEF RulesInv
<1>6. CASE MoveDown
  BY <1>6, MoveDownRules
<1>7. CASE InPlace
  <2>1. UNCHANGED <<count, given, slices>>
    BY <1>7 DEF InPlace, inputVars
  <2>2. TypeOK'
    BY <1>1, <1>7 DEF InPlace, TypeOK, inputVars
  <2>3. SortedSave(slices[slot], i + 1, 0)
    <3> DEFINE s == slices[slot]
    <3>1. /\ s \in Slice /\ j \in Nat /\ i \in Nat
          /\ j <= i /\ i < Length(s)
          /\ SortedSave(s, i + 1, j + 1)
          /\ j > 0 => ~(s[j + 1] < s[j])
      BY <1>1, <1>7 DEF InPlace, OutOfOrder, LoopInv, TypeOK
    <3>2. /\ Length(s) = Len(s) /\ Len(s) \in Nat
          /\ \A a \in 1..Len(s) : s[a] \in Nat
      BY <3>1, StringsOfSlice DEF Slice, Length
    <3> HIDE DEF s
    <3> SUFFICES ASSUME NEW a \in 1..Len(s), NEW b \in 1..Len(s), a < b, b <= i + 1
                 PROVE  s[a] <= s[b]
      BY <3>2 DEF SortedSave, s
    <3>3. CASE b # j + 1
      BY <3>1, <3>2, <3>3 DEF SortedSave
    <3>4. CASE b = j + 1 /\ a = j
      BY <3>1, <3>2, <3>4
    <3>5. CASE b = j + 1 /\ a # j
      <4>1. s[a] <= s[j] /\ s[j] <= s[j + 1]
        BY <3>1, <3>2, <3>5 DEF SortedSave
      <4> QED
        BY <3>1, <3>2, <3>5, <4>1
    <3> QED
      BY <3>3, <3>4, <3>5
  <2>4. LoopInv'
    BY <1>1, <1>2, <1>7, <2>1, <2>3 DEF InPlace, LoopInv, TypeOK
  <2> QED
    BY <1>2, <2>1, <2>2, <2>4 DEF RulesInv
<1>8. CASE Compare
  <2>1. UNCHANGED <<count, given, slices>>
    BY <1>8 DEF Compare, inputVars
  <2>2. DeepEqual \in BOOLEAN
    BY DEF DeepEqual
  <2>3. TypeOK'
    BY <1>1, <1>8, <2>2 DEF Compare, TypeOK, inputVars
  <2>4. LoopInv'
    BY <1>1, <1>2, <1>8, <2>1 DEF Compare, LoopInv
  <2> QED
    BY <1>2, <2>1, <2>3, <2>4 DEF RulesInv
<1>9. CASE UNCHANGED vars
  <2>1. TypeOK'
    BY <1>1, <1>9 DEF vars, TypeOK
  <2>2. LoopInv' /\ OnlyReordered'
    BY <1>1, <1>2, <1>9 DEF vars, LoopInv
  <2> QED
    BY <2>1, <2>2 DEF RulesInv
<1> QED
  BY <1>3, <1>4, <1>5, <1>6, <1>7, <1>8, <1>9 DEF Next

\* Sorting in place leaves the caller every slice with the strings it had,
\* whatever the rules (lines 605-627).
THEOREM RulesOnlyReordered == Spec => []OnlyReordered
<1>1. Spec => []RulesInv
  BY InitRules, NextRules, PTL DEF Spec
<1>2. RulesInv => OnlyReordered
  BY DEF RulesInv
<1> QED
  BY <1>1, <1>2, PTL

LEMMA AnswerFromInv ==
    ASSUME RulesInv
    PROVE  AnswerIsRight
<1> SUFFICES ASSUME pc = "done" PROVE equal <=> SameRules
  BY DEF AnswerIsRight
<1>1. /\ equal <=> DeepEqual
      /\ \A t \in Listed("want") \cup Listed("have") : t \in Slots /\ Sorted(slices[t])
  BY DEF RulesInv, LoopInv, Listed
<1>2. ASSUME count["want"] = count["have"], NEW t \in Listed("want")
      PROVE  slices[t] = slices[Opposite(t)]
                <=> IsPermutation(given[t], given[Opposite(t)])
  <2> DEFINE u == Opposite(t)
  <2>1. u \in Listed("have")
    BY <1>2 DEF Listed, Opposite, Slots, Sides
  <2> HIDE DEF u
  <2>2. /\ t \in Slots /\ u \in Slots /\ Sorted(slices[t]) /\ Sorted(slices[u])
    BY <1>1, <1>2, <2>1
  <2>3. /\ {slices[t], slices[u], given[t], given[u]} \subseteq Slice
        /\ IsPermutation(slices[t], given[t])
        /\ IsPermutation(slices[u], given[u])
    BY <2>2 DEF RulesInv, TypeOK, OnlyReordered
  <2>4. IsPermutation(given[t], slices[t]) /\ IsPermutation(given[u], slices[u])
    BY <2>3, PermutationSymmetric
  <2>5. ASSUME slices[t] = slices[u]
        PROVE  IsPermutation(given[t], given[u])
    BY <2>3, <2>4, <2>5, PermutationTransitive
  <2>6. ASSUME IsPermutation(given[t], given[u])
        PROVE  slices[t] = slices[u]
    <3>1. IsPermutation(slices[t], given[u])
      BY <2>3, <2>6, PermutationTransitive
    <3>2. IsPermutation(slices[t], slices[u])
      BY <2>3, <2>4, <3>1, PermutationTransitive
    <3> QED
      BY <2>2, <2>3, <3>2, SortedUnique
  <2> QED
    BY <2>5, <2>6 DEF u
<1> QED
  BY <1>1, <1>2 DEF DeepEqual, SameRules

\* The comparison of two lists of policy rules is right for every number of
\* rules and every length of their slices (lines 150, 215, 274 and 605-627).
THEOREM ComparisonIsRight == Spec => []AnswerIsRight
<1>1. Spec => []RulesInv
  BY InitRules, NextRules, PTL DEF Spec
<1> QED
  BY <1>1, AnswerFromInv, PTL

=============================================================================
