----------------------------- MODULE ArrayWords -----------------------------
(***************************************************************************)
(* The words of the array module that run no code: what each of them makes *)
(* of its arguments, a value or Fail.  Records keep the order of insertion,*)
(* and the payload of an array and of a record are sequences both.         *)
(* FLATTEN is in module FlattenWords.                                      *)
(***************************************************************************)
EXTENDS ValueEquality, PieceWords, ChoosingWords

-----------------------------------------------------------------------------
\* Grouping by a field.
FieldOf(item, field) == IF Kind(item) = "record" THEN Get(item[2], field[2]) ELSE Nil

\* The groups an element belongs to: an array in its field names several.
GroupsNamed(item, field) ==
    LET fv == FieldOf(item, field) IN IF Kind(fv) = "array" THEN fv[2] ELSE <<fv>>

\* A record of key -> array of the items, keys in the order they are first met.
Grouped(pairs) ==
    Rec(FoldLeft(LAMBDA r, p :
                    Put(r, p[1], Arr(Append(Elements(Get(r, p[1])), p[2]))),
                 <<>>, pairs))

CannotBeKey(v) == ~IsScalar(v)
AnyOf(s, Test(_)) == \E i \in 1..Len(s) : Test(s[i])

GroupByField(c, field) ==
    LET items == Elements(c)
        Keyed(item) == [k \in 1..Len(GroupsNamed(item, field)) |->
                          <<value_to_key_string(GroupsNamed(item, field)[k]), item>>]
        Bad(item) == Kind(item) = "null" \/ AnyOf(GroupsNamed(item, field), CannotBeKey)
    IN  IF AnyOf(items, Bad) THEN Fail("InvalidOperation")
        ELSE Grouped(FlattenSeq([i \in 1..Len(items) |-> Keyed(items[i])]))

\* The last element wins; falsy elements are passed over.
ByField(c, field) ==
    LET items == Filtered(Elements(c), Truthy)
        Bad(item) == CannotBeKey(FieldOf(item, field))
    IN  IF AnyOf(items, Bad) THEN Fail("InvalidOperation")
        ELSE Rec(Collected([i \in 1..Len(items) |->
                    <<value_to_key_string(FieldOf(items[i], field)), items[i]>>]))

KeyOf(c, v) ==
    LET hits == {i \in 1..Len(Elements(c)) : values_equal(Elements(c)[i], v)}
    IN  IF hits = {} THEN Nil ELSE keyed_items(c)[Min(hits)][1]

Numbered(c) ==
    IF Kind(c) # "array" THEN EmptyArr
    ELSE Arr([i \in 1..Size(c) |-> Arr(<<Num(i - 1), c[2][i]>>)])

-----------------------------------------------------------------------------
\* Reshaping and combining.
ReverseOf(c) == IF Kind(c) = "array" THEN Arr(Reverse(c[2])) ELSE c

IsPair(v) == Kind(v) = "array" /\ Size(v) >= 2 /\ Kind(v[2][1]) = "string"

AppendOf(c, item) ==
    CASE Kind(c) = "array" -> Arr(Append(c[2], item))
      [] Kind(c) = "null"  -> Arr(<<item>>)
      [] Kind(c) = "record" /\ IsPair(item) -> Rec(Put(c[2], item[2][1][2], item[2][2]))
      [] OTHER             -> c

ZipOf(l, r) ==
    IF Kind(l) # "array" \/ Kind(r) # "array" THEN EmptyArr
    ELSE Arr([i \in 1..Min({Size(l), Size(r)}) |-> Arr(<<l[2][i], r[2][i]>>)])

-----------------------------------------------------------------------------
\* Sets.
\* An array is matched by elements, a record by keys, and only strings of an
\* array can be keys.
set_op(l, r, keep) ==
    LET keys == IF Kind(r) = "record" THEN ToSet(KeysOf(r[2]))
                ELSE {v[2] : v \in {e \in ToSet(Elements(r)) : Kind(e) = "string"}}
        Member(v) == AnyOf(Elements(r), LAMBDA e : SameKey(e, v))
    IN  CASE Kind(l) = "array"  -> Arr(Filtered(l[2], LAMBDA v : Member(v) = keep))
          [] Kind(l) = "record" -> Rec(Filtered(l[2], LAMBDA p : (p[1] \in keys) = keep))
          [] Kind(l) = "null"   -> EmptyArr
          [] OTHER              -> l

DifferenceOf(l, r)   == set_op(l, r, FALSE)
IntersectionOf(l, r) == set_op(l, r, TRUE)

\* Order.
SortUOf(c) == IF Kind(c) = "array" THEN Arr(KeepFirst(SortedBy(c[2], c[2]), values_equal)) ELSE c
=============================================================================
