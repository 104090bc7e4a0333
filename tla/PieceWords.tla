------------------------------ MODULE PieceWords ------------------------------
(***************************************************************************)
(* The words of the array module that take a piece of a container or say   *)
(* where its pieces are: access, TAKE, SKIP, SLICE, GROUPS-OF, and RANGE.  *)
(***************************************************************************)
EXTENDS ForthicValues

CONSTANT MaxMaterialized  \* MAX_MATERIALIZED_ELEMENTS

ASSUME LimitAssumption == MaxMaterialized \in 1..MaxInt

Size(c) == Len(c[2])

\* Entries i to j of a container: a record gives a record.
Cut(c, i, j) == <<Kind(c), SubSeq(c[2], Max({i, 1}), Min({j, Size(c)}))>>

Abs(n) == IF n < 0 THEN Wrap(-n) ELSE n

-----------------------------------------------------------------------------
\* Access.
NthOf(c, n) ==
    IF Kind(n) = "int" /\ n[2] + 1 \in DOMAIN Elements(c) THEN Elements(c)[n[2] + 1] ELSE Nil
FirstOf(c) == NthOf(c, Num(0))
LastOf(c)  == NthOf(c, Num(Len(Elements(c)) - 1))

LengthOf(c) == Num(IF IsContainer(c) \/ Kind(c) = "string" THEN Len(c[2]) ELSE 0)

\* TAKE, and what its option push_rest pushes besides.
TakeOf(c, n) ==
    CASE IsContainer(c)   -> Cut(c, 1, AsI64(n))
      [] Kind(c) = "null" -> EmptyArr
      [] OTHER            -> c
RestOf(c, n) == IF IsContainer(c) THEN Cut(c, Max({AsI64(n), 0}) + 1, Size(c)) ELSE EmptyArr

SkipOf(c, n) ==
    CASE AsI64(n) <= 0    -> c
      [] AsI64(n) > 0 /\ IsContainer(c)   -> Cut(c, AsI64(n) + 1, Size(c))
      [] AsI64(n) > 0 /\ Kind(c) = "null" -> EmptyArr
      [] OTHER            -> c

TakeLastOf(c, n) ==
    CASE AsI64(n) <= 0 -> IF Kind(c) = "record" THEN EmptyRec ELSE EmptyArr
      [] AsI64(n) > 0 /\ IsContainer(c)   -> Cut(c, Size(c) - AsI64(n) + 1, Size(c))
      [] AsI64(n) > 0 /\ Kind(c) = "null" -> EmptyArr
      [] OTHER         -> c

\* slice_indexes: the positions from start to end, in either direction, none
\* when start is outside; 0 stands for a position outside.  The arithmetic of
\* the span wraps around.
Normalize(i, len) == IF i < 0 THEN i + len ELSE i
Span(start, end)  == Wrap(Abs(Wrap(end - start)) + 1)

slice_indexes(from, to, len) ==
    LET start == Normalize(from, len)
        end   == Normalize(to, len)
        step  == IF start > end THEN -1 ELSE 1
        at(k) == start + (k - 1) * step
    IN  IF start \notin 0..len-1 THEN <<>>
        ELSE [k \in 1..(end - start) * step + 1 |->
                IF at(k) \in 0..len-1 THEN at(k) + 1 ELSE 0]

\* Arrays are padded with null, records are not: the walk begins inside, so
\* the positions that are there come first.
SliceOf(c, from, to) ==
    LET start == Normalize(AsI64(from), Size(c))
        end   == Normalize(AsI64(to), Size(c))
        idx   == slice_indexes(AsI64(from), AsI64(to), Size(c))
        there == Cardinality({k \in 1..Len(idx) : idx[k] # 0})
    IN  CASE Kind(c) = "null" -> EmptyArr
          [] ~IsContainer(c) /\ Kind(c) # "null" -> c
          [] IsContainer(c) /\ Span(start, end) > MaxMaterialized -> Fail("InvalidOperation")
          [] Kind(c) = "array" /\ Span(start, end) <= MaxMaterialized ->
                Arr([k \in 1..Len(idx) |-> IF idx[k] = 0 THEN Nil ELSE c[2][idx[k]]])
          [] OTHER -> Rec([k \in 1..there |-> c[2][idx[k]]])

\* RANGE: empty when it would run backwards.
RangeOf(from, to) ==
    LET start == AsI64(from)
        end   == AsI64(to)
    IN  IF end >= start /\ Wrap(end - start + 1) > MaxMaterialized
        THEN Fail("InvalidOperation")
        ELSE Arr([k \in 1..(IF end < start THEN 0 ELSE end - start + 1) |->
                    Num(start + k - 1)])

-----------------------------------------------------------------------------
\* Bug: the group that is not full is lost.
FullGroupsOf(c, n) ==
    IF IsContainer(c)
    THEN Arr([g \in 1..Size(c) \div AsI64(n) |->
                Cut(c, (g - 1) * AsI64(n) + 1, g * AsI64(n))])
    ELSE EmptyArr

\* Grouping.  GroupsOf is called with n > 0.
GroupsOf(c, n) ==
    IF IsContainer(c)
    THEN Arr([g \in 1..(Size(c) + AsI64(n) - 1) \div AsI64(n) |->
                Cut(c, (g - 1) * AsI64(n) + 1, g * AsI64(n))])
    ELSE EmptyArr
=============================================================================
