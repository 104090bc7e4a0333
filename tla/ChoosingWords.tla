---------------------------- MODULE ChoosingWords ----------------------------
(***************************************************************************)
(* The words of the array module that choose among the elements of a       *)
(* container, or put them in order: by their keys or by what code answers  *)
(* for each of them.                                                       *)
(***************************************************************************)
EXTENDS ForthicValues

\* By keys.
SameKey(x, y) == value_to_key(x) = value_to_key(y)

UniqueOf(c) == IF Kind(c) = "array" THEN Arr(KeepFirst(c[2], SameKey)) ELSE c

\* Bug: each side is made unique, not the whole.
UnionOfSets(l, r) ==
    IF Kind(l) = "array" /\ Kind(r) = "array"
    THEN Arr(KeepFirst(l[2], SameKey) \o KeepFirst(r[2], SameKey)) ELSE EmptyArr

UnionOf(l, r) ==
    IF Kind(l) = "array" /\ Kind(r) = "array" THEN Arr(KeepFirst(l[2] \o r[2], SameKey))
    ELSE EmptyArr

SortOf(c)  == IF Kind(c) = "array" THEN Arr(SortedBy(c[2], c[2])) ELSE c

-----------------------------------------------------------------------------
\* By the answers of code: got holds what the runs left for each item.  Loops are
\* folds over the positions 1..Len(got).
OfKind(c, items) ==
    IF Kind(c) = "record" THEN Rec([i \in 1..Len(items) |-> <<items[i][1][2], items[i][2]>>])
    ELSE Arr([i \in 1..Len(items) |-> items[i][2]])

FilterOf(c, items, got) ==
    IF ~IsContainer(c) THEN c
    ELSE OfKind(c, Picked(items, {i \in 1..Len(got) : Truthy(got[i])}))

FindOf(items, got) ==
    IF got # <<>> /\ Truthy(Last(got)) THEN items[Len(got)][2] ELSE Nil

CountOf(got) == Num(FoldLeft(LAMBDA n, v : IF Truthy(v) THEN n + 1 ELSE n, 0, got))

\* Bug: of two that tie the later one wins.
extreme_or_tie(items, got, wanted) ==
    LET best == FoldLeft(LAMBDA b, i : IF b = 0 \/ natural_cmp(got[i], got[b]) \in {0, wanted}
                                       THEN i ELSE b, 0, Upto(Len(got)))
    IN  IF best = 0 THEN Nil ELSE items[best][2]

\* A later item must be strictly better.
extreme_by(items, got, wanted) ==
    LET best == FoldLeft(LAMBDA b, i : IF b = 0 \/ natural_cmp(got[i], got[b]) = wanted THEN i ELSE b,
                         0, Upto(Len(got)))
    IN  IF best = 0 THEN Nil ELSE items[best][2]

sort_by_key(items, got) == SortedBy([i \in 1..Len(items) |-> items[i][2]], got)

-----------------------------------------------------------------------------
\* What a reader of the words' documentation expects of an order and of the
\* element chosen.
Sorts(order, got) ==
    \A k, l \in 1..Len(order) : k < l =>
        LET c == natural_cmp(got[order[k]], got[order[l]])
        IN  c = -1 \/ (c = 0 /\ order[k] < order[l])

Best(i, got, wanted) ==
    /\ \A j \in 1..Len(got) : natural_cmp(got[j], got[i]) # wanted
    /\ \A j \in 1..i-1 : natural_cmp(got[i], got[j]) = wanted
=============================================================================
