----------------------------- MODULE PolicyRules -----------------------------
(***************************************************************************)
(* How the checks compare two lists of policy rules:                       *)
(*   reflect.DeepEqual(sortPolicyRules(want), sortPolicyRules(have))       *)
(* sortPolicyRules copies the list but not the slices of strings in it,    *)
(* which sortStrings then sorts in place: the caller's rules change.       *)
(*                                                                         *)
(* A slot is one slice: a field of a rule of one of the two lists.  No two *)
(* slots share strings, so that the order in which they are sorted, here   *)
(* any, makes no difference.                                               *)
(***************************************************************************)
EXTENDS Integers, Sequences

CONSTANTS
    Strings,   \* the strings, as numbers in the order of Go's <
    Fields,    \* the fields of a PolicyRule, each a slice of strings
    MaxRules,  \* bound on the length of a list of rules
    Slices,    \* the slices that a list of rules may hold
    NilSlice   \* the slice that was never set

ASSUME PolicyAssumption ==
    /\ Strings \subseteq Nat
    /\ MaxRules \in Nat
    /\ NilSlice \in Slices
    /\ Slices \subseteq Seq(Strings) \cup {NilSlice}
    /\ NilSlice \notin Seq(Strings)

Sides == {"want", "have"}
Slots == Sides \X (1..MaxRules) \X Fields
NoSlot == <<>>

VARIABLES
    count,    \* the length of each list of rules
    given,    \* the slices as the check got them
    slices,   \* the same memory, now
    pending,  \* the slots not yet sorted
    slot,     \* the one sortStrings is at
    i, j,     \* its indices
    pc, equal

vars == <<count, given, slices, pending, slot, i, j, pc, equal>>
inputVars == <<count, given>>

Length(s) == IF s = NilSlice THEN 0 ELSE Len(s)

\* s[j], s[j-1] = s[j-1], s[j], where Go counts from 0.
Swapped(s, k) == [s EXCEPT ![k + 1] = s[k], ![k] = s[k + 1]]

\* sortPolicyRules calls sortStrings on the next slice.
SortStrings(t) ==
    /\ pc = "rules"
    /\ t \in pending
    /\ slot' = t
    /\ i' = 1
    /\ pc' = "outer"
    /\ UNCHANGED <<inputVars, slices, pending, j, equal>>

\* for i := 1; i < len(s); i++
Insert ==
    /\ pc = "outer"
    /\ i < Length(slices[slot])
    /\ j' = i
    /\ pc' = "inner"
    /\ UNCHANGED <<inputVars, slices, pending, slot, i, equal>>

SliceSorted ==
    /\ pc = "outer"
    /\ i >= Length(slices[slot])
    /\ pending' = pending \ {slot}
    /\ pc' = "rules"
    /\ UNCHANGED <<inputVars, slices, slot, i, j, equal>>

\* Faulty variant: nothing moves to the front.
OutOfOrder_StopsShort == j > 1 /\ slices[slot][j + 1] < slices[slot][j]

OutOfOrder == j > 0 /\ slices[slot][j + 1] < slices[slot][j]

\* Faulty variant: an assignment of its own for each half, the first of which
\* destroys what the second reads.
MoveDown_Overwrites ==
    /\ pc = "inner"
    /\ OutOfOrder
    /\ slices' = [slices EXCEPT ![slot] = [@ EXCEPT ![j + 1] = slices[slot][j]]]
    /\ j' = j - 1
    /\ UNCHANGED <<inputVars, pending, slot, i, pc, equal>>

\* for j := i; j > 0 && s[j] < s[j-1]; j--
MoveDown ==
    /\ pc = "inner"
    /\ OutOfOrder
    /\ slices' = [slices EXCEPT ![slot] = Swapped(@, j)]
    /\ j' = j - 1
    /\ UNCHANGED <<inputVars, pending, slot, i, pc, equal>>

\* Faulty variant: i is not incremented.
InPlace_Again ==
    /\ pc = "inner"
    /\ ~OutOfOrder
    /\ pc' = "outer"
    /\ UNCHANGED <<inputVars, slices, pending, slot, i, j, equal>>

InPlace ==
    /\ pc = "inner"
    /\ ~OutOfOrder
    /\ i' = i + 1
    /\ pc' = "outer"
    /\ UNCHANGED <<inputVars, slices, pending, slot, j, equal>>

\* The slices of the lists as they are.
Listed(side) == {t \in Slots : t[1] = side /\ t[2] <= count[side]}

Opposite(t) == <<"have", t[2], t[3]>>

\* reflect.DeepEqual: rule by rule and field by field; a nil slice differs from
\* an empty one.
DeepEqual ==
    /\ count["want"] = count["have"]
    /\ \A t \in Listed("want") : slices[t] = slices[Opposite(t)]

Compare ==
    /\ pc = "rules"
    /\ pending = {}
    /\ equal' = DeepEqual
    /\ pc' = "done"
    /\ UNCHANGED <<inputVars, slices, pending, slot, i, j>>

Init ==
    /\ count \in [Sides -> 0..MaxRules]
    /\ given \in [Slots -> Slices]
    /\ \A t \in Slots \ (Listed("want") \cup Listed("have")) : given[t] = NilSlice
    /\ slices = given
    /\ pending = Listed("want") \cup Listed("have")
    /\ slot = NoSlot
    /\ i = 0
    /\ j = 0
    /\ pc = "rules"
    /\ equal = FALSE

Next ==
    \/ \E t \in pending : SortStrings(t)
    \/ Insert
    \/ SliceSorted
    \/ MoveDown
    \/ InPlace
    \/ Compare

Spec == Init /\ [][Next]_vars

\* A call runs to its end.
FairSpec == Spec /\ WF_vars(Next)

-----------------------------------------------------------------------------
\* The strings of s, each as often, in the order of r.
PermutedBy(r, s, p) ==
    /\ \A a, b \in 1..Len(r) : p[a] = p[b] => a = b
    /\ \A b \in 1..Len(s) : \E a \in 1..Len(r) : p[a] = b
    /\ \A a \in 1..Len(r) : r[a] = s[p[a]]

IsPermutation(r, s) ==
    IF NilSlice \in {r, s} THEN r = s
    ELSE /\ Len(r) = Len(s)
         /\ \E p \in [1..Len(r) -> 1..Len(s)] : PermutedBy(r, s, p)

\* Sorting in place leaves the caller the strings it had, in every slice and at
\* every moment, and leaves nil slices nil (sortPolicyRules, lines 605-627: only
\* the list of rules is a copy).
OnlyReordered == \A t \in Slots : IsPermutation(slices[t], given[t])

\* The same number of rules and, rule by rule and field by field, the same
\* strings as often: their order does not count, the order of the rules and the
\* difference between nil and empty do.
SameRules ==
    /\ count["want"] = count["have"]
    /\ \A t \in Listed("want") : IsPermutation(given[t], given[Opposite(t)])

\* The answer of the comparison is SameRules of what the check was given,
\* repeated strings and slices of different lengths included (lines 150, 215
\* and 274 with 605-627).
AnswerIsRight == pc = "done" => (equal <=> SameRules)

\* The two nested loops come to an end on every pair of lists.
EventuallyCompared == <>(pc = "done")

-----------------------------------------------------------------------------
(***************************************************************************)
(* What the proof of AnswerIsRight rests on.                               *)
(***************************************************************************)
Slice == Seq(Strings) \cup {NilSlice}

\* Every variable keeps its type, and sortStrings has a slice to work on.
TypeOK ==
    /\ count \in [Sides -> 0..MaxRules]
    /\ given \in [Slots -> Slice]
    /\ slices \in [Slots -> Slice]
    /\ pending \in SUBSET Slots
    /\ i \in Nat
    /\ j \in Nat
    /\ pc \in {"rules", "outer", "inner", "done"}
    /\ pc \in {"outer", "inner"} => slot \in pending
    /\ equal \in BOOLEAN

\* The first n strings of s are in order, save that the one at the hole may have
\* to move down.
SortedSave(s, n, hole) ==
    \A a, b \in 1..Length(s) : a < b /\ b <= n /\ b # hole => s[a] <= s[b]

Sorted(s) == SortedSave(s, Length(s), 0)

\* The invariants of the two loops of sortStrings, and of sortPolicyRules.
LoopInv ==
    /\ pc = "outer" => i >= 1 /\ SortedSave(slices[slot], i, 0)
    /\ pc = "inner" => /\ i < Length(slices[slot])
                       /\ j <= i
                       /\ SortedSave(slices[slot], i + 1, j + 1)
    /\ \A t \in (Listed("want") \cup Listed("have")) \ pending : Sorted(slices[t])
    /\ pc = "done" => pending = {} /\ (equal <=> DeepEqual)

=============================================================================
