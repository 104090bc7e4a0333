----------------------------- MODULE ShapingWords -----------------------------
(***************************************************************************)
(* The words of the array and of the record module that order, group and   *)
(* match the elements of containers, or take containers apart and rebuild  *)
(* them, at work on one stack.  They look at what a container holds and no *)
(* deeper.                                                                 *)
(***************************************************************************)
EXTENDS ComparingWords, ArrayWords, RecordShapes

-----------------------------------------------------------------------------
\* The array module.
word_sort      == Option("comparator", "string", "none") = "none"
                  /\ Pops(Beneath, 1, LAMBDA a : <<SortOf(a[1])>>)
word_sort_u    == Unary(SortUOf)
word_group_by_field == IF stack # <<>> /\ Kind(Top) # "string" THEN RefusesTop
                       ELSE Binary(GroupByField)
word_by_field  == IF stack # <<>> /\ Kind(Top) # "string" THEN RefusesTop ELSE Binary(ByField)
word_key_of    == Binary(KeyOf)
word_numbered  == Unary(Numbered)
word_reverse   == Unary(ReverseOf)
word_append    == Binary(AppendOf)
word_zip       == Binary(ZipOf)
word_unique    == Unary(UniqueOf)
word_difference   == Binary(DifferenceOf)
word_intersection == Binary(IntersectionOf)
word_union     == Binary(UnionOf)
word_unpack    == Pops(stack, 1, LAMBDA a : IF IsContainer(a[1]) THEN Elements(a[1]) ELSE a)

SortingWord == word_sort \/ word_sort_u

KeyedWord ==
    \/ word_group_by_field \/ word_by_field \/ word_key_of
    \/ word_numbered \/ word_reverse \/ word_append \/ word_zip \/ word_unique
    \/ word_difference \/ word_intersection \/ word_union \/ word_unpack

\* The record module.
word_merge      == Binary(MergeOf)
word_pick       == Binary(PickOf)
word_omit       == Binary(OmitOf)
word_has_key_q  == Binary(HasKeyOf)
word_delete     == Binary(DeleteOf)
word_rec_to_entries == Unary(RecToEntries)
word_entries_to_rec == Unary(EntriesToRec)
word_rec        == Unary(RecOf)
word_relabel    == Ternary(RelabelOf)
word_invert_keys == Unary(InvertKeys)
word_keys       == Unary(KeysWord)
word_values     == Unary(ValuesWord)

ShapeWord ==
    \/ word_merge \/ word_pick \/ word_omit \/ word_has_key_q \/ word_delete
    \/ word_rec_to_entries \/ word_entries_to_rec \/ word_rec \/ word_relabel
    \/ word_invert_keys \/ word_keys \/ word_values

\* Programs of these words and of those that compare, but for SORT: with a NaN
\* there is no order to sort by.
ShapingWord == ComparingWord \/ KeyedWord \/ ShapeWord

ShapingSpec == Init /\ [][ShapingWord]_vars

-----------------------------------------------------------------------------
\* GROUP-BY-FIELD puts an element into exactly the groups its field names, in
\* the order of the input, and BY-FIELD keeps the last of them that is truthy.
GroupsAgree ==
    \A i \in 1..Len(stack) - 1 :
        LET c == stack[i]
            f == stack[i + 1]
            g == GroupByField(c, f)
            b == ByField(c, f)
            Names(item, k) == \E j \in 1..Len(GroupsNamed(item, f)) :
                                  value_to_key_string(GroupsNamed(item, f)[j]) = k
            Single(item) == Kind(FieldOf(item, f)) # "array"
        IN  Kind(f) = "string" /\ IsContainer(c) /\ ~Failed(g) =>
              /\ \A j \in 1..Size(g) :
                    ToSet(g[2][j][2][2]) = {e \in ToSet(Elements(c)) : Names(e, g[2][j][1])}
              /\ \A e \in ToSet(Elements(c)) : GroupsNamed(e, f) # <<>> =>
                    \E j \in 1..Size(g) : e \in ToSet(g[2][j][2][2])
              /\ ~Failed(b) /\ (\A e \in ToSet(Elements(c)) : Single(e)) =>
                    \A j \in 1..Size(g) :
                        LET kept == Filtered(g[2][j][2][2], Truthy)
                        IN  IF kept = <<>> THEN ~Has(b[2], g[2][j][1])
                            ELSE Get(b[2], g[2][j][1]) = Last(kept)

\* No zero of the one sign and of the other among the elements of l and r.
OneZero(l, r) ==
    \A a, b \in ToSet(Elements(l)) \cup ToSet(Elements(r)) : values_equal(a, b) => SameZero(a, b)

\* UNIQUE, UNION, DIFFERENCE and INTERSECTION hash their elements, CONTAINS?,
\* KEY-OF, ANY and ALL compare them: on scalars among which -0.0 does not meet
\* another zero they tell the same story, but for an integer beyond Precise: a
\* Float may be == to it and the Int that UNION keeps in the place of that Float
\* not.  With a record on the left they are PICK and OMIT by string keys; a
\* record with a NaN in it is == to none.
SetsAgree ==
    \A i \in 1..Len(stack) - 1 :
        LET l == stack[i]
            r == stack[i + 1]
            In(v, s) == ContainsQ(s, v)[2]
            both == IntersectionOf(l, r)
            left == DifferenceOf(l, r)
            all  == UnionOf(l, r)
            Distinct(s) == \A j, k \in 1..Size(s) : j # k => ~values_equal(s[2][j], s[2][k])
        IN  /\ Kind(l) = "array" /\ Kind(r) = "array" /\ Scalars(l) /\ Scalars(r)
               /\ OneZero(l, r) =>
                  /\ \A v \in ToSet(l[2]) : In(v, both) = In(v, r) /\ In(v, left) # In(v, r)
                  /\ Size(both) + Size(left) = Size(l)
                  /\ Distinct(all)
                  /\ \A v \in Values : (Kind(v) = "int" => Scalar(v)) =>
                        In(v, all) = (In(v, l) \/ In(v, r))
                  /\ UniqueOf(all) = all /\ Size(SortUOf(l)) = Size(UniqueOf(l))
                  /\ AllIn(r, l)[2] <=> left = EmptyArr
                  /\ AnyIn(l, r)[2] <=> both # EmptyArr
                  /\ \A v \in Values : KeyOf(l, v) # Nil <=> In(v, l)
            /\ Kind(l) = "record" /\ Kind(r) = "array"
               /\ (\A v \in ToSet(r[2]) : Kind(v) = "string") =>
                  /\ left = OmitOf(l, r)
                  /\ values_equal(l, l) => values_equal(both, PickOf(l, r))

\* What is grouped or sorted out by a key is all there, where it belongs.
KeyedWordsAgree == GroupsAgree /\ SetsAgree

-----------------------------------------------------------------------------
\* Records survive the words that take them apart and rebuild them: entries,
\* PICK with OMIT, an exchange of names and its inverse, two inversions of the
\* keys.
RecordsRoundTrip ==
    \A i \in 1..Len(stack) :
        LET r   == stack[i]
            arg == IF i < Len(stack) THEN stack[i + 1] ELSE EmptyArr
            names == KeysWord(r)
            other == ReverseOf(names)
            Nested(v) == Kind(v) = "record" /\ Size(v) > 0
        IN  Kind(r) = "record" =>
              /\ EntriesToRec(RecToEntries(r)) = r /\ RecOf(RecToEntries(r)) = r
              /\ ZipOf(names, ValuesWord(r)) = RecToEntries(r)
              /\ RelabelOf(RelabelOf(r, names, other), other, names) = r
              /\ values_equal(r, r) =>
                    /\ values_equal(MergeOf(PickOf(r, arg), OmitOf(r, arg)), r)
                    /\ (\A k \in 1..Size(r) : Nested(r[2][k][2])) =>
                          values_equal(InvertKeys(InvertKeys(r)), r)
              /\ IsScalar(arg) => /\ ~HasKeyOf(DeleteOf(r, arg), arg)[2]
                                  /\ DeleteOf(r, arg) = OmitOf(r, Arr(<<arg>>))
=============================================================================
