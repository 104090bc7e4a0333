---------------------------- MODULE BlockResults ----------------------------
(***************************************************************************)
(* The values the words of BlockWords make of what the runs of their code  *)
(* leave, and what is promised of them.                                    *)
(***************************************************************************)
EXTENDS BlockWords, ChoosingWords, ValueEquality

UniqueByOf(items, got) ==
    LET kept == KeepFirst(Upto(Len(got)), LAMBDA i, j : values_equal(got[i], got[j]))
    IN  Arr([k \in 1..Len(kept) |-> items[kept[k]][2]])

Bucket(r, k, item) == Put(r, k, Arr(Append(Elements(Get(r, k)), item)))

GroupByOf(items, got) ==
    Rec(FoldLeft(LAMBDA r, i : Bucket(r, value_to_key_string(got[i]), items[i][2]),
                 <<>>, Upto(Len(got))))

\* INDEX lowers the keys; an answer that is no array names no bucket.
Upper == "ABCDEFGHIJKLMNOPQRSTUVWXYZ"
Lower == "abcdefghijklmnopqrstuvwxyz"
LowerChar(ch) == IF \E i \in 1..26 : CharAt(Upper, i) = ch
                 THEN CharAt(Lower, CHOOSE i \in 1..26 : CharAt(Upper, i) = ch) ELSE ch
to_lowercase(s) == FoldLeft(LAMBDA t, i : t \o LowerChar(CharAt(s, i)), "", Upto(Len(s)))

IndexOf(items, got) ==
    LET Named(i) == IF Kind(got[i]) = "array" THEN got[i][2] ELSE <<>>
        In(r, i) == FoldLeft(LAMBDA q, k : Bucket(q, to_lowercase(k[2]), items[i][2]), r, Named(i))
    IN  Rec(FoldLeft(In, <<>>, Upto(Len(got))))

\* MAP-AT puts the result where the path led to.
RECURSIVE map_at_path(_, _, _)
map_at_path(c, path, v) ==
    CASE path = <<>> -> v
      [] path # <<>> /\ Kind(c) = "array" ->
            LET i == IndexIn(c[2], Head(path))
            IN  Arr([c[2] EXCEPT ![i] = map_at_path(@, Tail(path), v)])
      [] OTHER ->
            LET k == value_to_key_string(Head(path))
            IN  Rec(Put(c[2], k, map_at_path(Get(c[2], k), Tail(path), v)))

\* What a call pushes when its runs are over.  DEFAULT-RUN pops what is on top
\* and pushes it again.
WordResult(f) ==
    LET c     == f.args[1]
        items == ItemsOf(f)
        got   == f.got
        Passed(v) == IF Kind(c) = "array" THEN v ELSE c
    IN  CASE f.word = "FILTER"   -> FilterOf(c, items, got)
          [] f.word = "FIND"     -> FindOf(items, got)
          [] f.word = "COUNT"    -> CountOf(got)
          [] f.word \in {"SORT", "SORT-BY"} -> Passed(Arr(sort_by_key(items, got)))
          [] f.word = "MIN-BY"   -> extreme_by(items, got, -1)
          [] f.word = "MAX-BY"   -> extreme_by(items, got, 1)
          [] f.word = "UNIQUE-BY" -> Passed(UniqueByOf(items, got))
          [] f.word = "GROUP-BY" -> GroupByOf(items, got)
          [] f.word = "INDEX"    -> IF Kind(c) = "record" THEN EmptyRec
                                    ELSE Passed(IndexOf(items, got))
          [] f.word = "ZIP-WITH" ->
                IF ~Zips(c, f.args[2]) THEN EmptyArr
                ELSE IF Kind(c) = "array" THEN Arr(got)
                ELSE Rec([i \in 1..Len(got) |-> <<c[2][i][1], got[i]>>])
          [] f.word = "MAP-AT"   ->
                IF got = <<>> THEN c ELSE map_at_path(c, PathOf(f.args[2]), got[1])
          [] f.word = "DEFAULT-RUN" ->
                IF got # <<>> THEN got[1] ELSE IF c \in Empty THEN Nil ELSE c

-----------------------------------------------------------------------------
\* Every value on the stack keeps its form: integers in their width, records
\* with one entry for a key.
ValuesWellFormed == \A i \in 1..Len(stack) : WellFormed(stack[i])

\* The results a reader of the words' documentation expects, given what the
\* runs left for the items, one by one and in their order.
Named(f, i) ==
    IF f.word = "GROUP-BY" THEN {value_to_key_string(f.got[i])}
    ELSE IF Kind(f.got[i]) # "array" THEN {}
    ELSE {to_lowercase(k[2]) : k \in ToSet(f.got[i][2])}

Promised(f, r) ==
    LET c     == f.args[1]
        items == [i \in 1..Len(ItemsOf(f)) |-> ItemsOf(f)[i][2]]
        got   == f.got
        all   == 1..Len(got)
        kept  == {i \in all : Truthy(got[i])}
        firsts == {i \in all : \A j \in 1..i-1 : ~values_equal(got[i], got[j])}
        Picks(s) == SetToSortSeq(s, <)
        These(s) == [k \in 1..Cardinality(s) |-> items[Picks(s)[k]]]
    IN  /\ f.word \in {"FILTER", "COUNT", "GROUP-BY"} \cup OfArrays => Len(got) = Len(items)
        /\ f.word = "FILTER" /\ IsContainer(c) =>
              /\ Elements(r) = These(kept) /\ Kind(r) = Kind(c)
              /\ Kind(c) = "record" => ToSet(r[2]) \subseteq ToSet(c[2])
        /\ f.word = "COUNT" => r = Num(Cardinality(kept))
        /\ f.word = "FIND" =>
              IF kept = {} THEN r = Nil /\ Len(got) = Len(items)
              ELSE kept = {Len(got)} /\ r = items[Len(got)]
        /\ f.word \in {"MIN-BY", "MAX-BY"} =>
              IF items = <<>> THEN r = Nil
              ELSE \E i \in all : r = items[i] /\ Best(i, got, IF f.word = "MIN-BY" THEN -1 ELSE 1)
        /\ f.word \in {"SORT", "SORT-BY"} /\ Kind(c) = "array" =>
              \E order \in [all -> all] :
                  /\ IsInjective(order) /\ Sorts(order, got)
                  /\ r[2] = [k \in all |-> items[order[k]]]
        /\ f.word = "UNIQUE-BY" /\ Kind(c) = "array" => r[2] = These(firsts)
        /\ f.word = "GROUP-BY" \/ (f.word = "INDEX" /\ Kind(c) = "array") =>
              /\ ToSet(KeysOf(r[2])) = UNION {Named(f, i) : i \in all}
              /\ \A k \in ToSet(KeysOf(r[2])) :
                    ToSet(Elements(Get(r[2], k))) = {items[i] : i \in {j \in all : k \in Named(f, j)}}
        /\ f.word = "MAP-AT" =>
              /\ got = <<>> => r = c
              /\ got # <<>> => /\ PlaceOf(r, PathOf(f.args[2])) = <<got[1]>>
                               /\ map_at_path(r, PathOf(f.args[2]), PlaceOf(c, PathOf(f.args[2]))[1]) = c
        /\ f.word = "DEFAULT-RUN" => r = IF c \notin Empty THEN c ELSE IF got # <<>> THEN got[1] ELSE Nil

ResultsArePromised ==
    /\ ValuesWellFormed
    /\ ended.how = "done" /\ Outs(ended.call) # <<>> =>
           Promised(ended.call, Last(ended.stack))
=============================================================================
