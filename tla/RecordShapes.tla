---------------------------- MODULE RecordShapes ----------------------------
(***************************************************************************)
(* The words of the record module that take a record apart and build one:  *)
(* what each word makes of its arguments, a value or Fail.                 *)
(***************************************************************************)
EXTENDS ForthicValues

BadOperation == Fail("InvalidOperation")

\* Any value as a key: containers by their Debug text.
key_string(v) == IF IsScalar(v) THEN ScalarText(v) ELSE ToString(v)

\* The keys a list names.
NamedKeys(keys) ==
    IF Kind(keys) = "array"
    THEN [i \in 1..Len(keys[2]) |-> key_string(keys[2][i])] ELSE <<>>

PairsOf(v) == IF Kind(v) = "record" THEN v[2] ELSE <<>>

-----------------------------------------------------------------------------
\* Reshaping.
MergeOf(r1, r2) == Rec(Collected(PairsOf(r1) \o PairsOf(r2)))

\* Bug: a key that is listed twice is picked twice.
PickTwice(r, keys) ==
    LET there == Filtered(NamedKeys(keys), LAMBDA k : Has(PairsOf(r), k))
    IN  Rec([i \in 1..Len(there) |-> <<there[i], Get(r[2], there[i])>>])

PickOf(r, keys) ==
    LET there == Filtered(NamedKeys(keys), LAMBDA k : Has(PairsOf(r), k))
    IN  Rec(Collected([i \in 1..Len(there) |-> <<there[i], Get(r[2], there[i])>>]))

OmitOf(r, keys) ==
    Rec(Filtered(PairsOf(r), LAMBDA p : p[1] \notin ToSet(NamedKeys(keys))))

HasKeyOf(r, key) == Bool(Has(PairsOf(r), key_string(key)))

\* n counts from the end when it is negative; 0 is a position outside.
normalize_index(n, len) ==
    LET i == IF n < 0 THEN n + len ELSE n IN IF i \in 0..len-1 THEN i + 1 ELSE 0

RemoveIndex(s, i) == IF i = 0 THEN s ELSE RemoveAt(s, i)

IsInteger(v) ==
    Kind(v) \in {"int", "negzero"} \/ (Kind(v) = "float" /\ v[2] % 2 = 0)

DeleteOf(c, key) ==
    CASE Kind(c) = "record" -> Rec(ShiftRemove(c[2], key_string(key)))
      [] Kind(c) = "array" /\ IsInteger(key) ->
            Arr(RemoveIndex(c[2], normalize_index(AsI64(key), Len(c[2]))))
      [] Kind(c) = "array" /\ ~IsInteger(key) -> BadOperation
      [] OTHER -> c

RecToEntries(r) ==
    Arr([i \in 1..Len(PairsOf(r)) |-> Arr(<<Str(r[2][i][1]), r[2][i][2]>>)])

\* build_record is strict about pairs, REC passes over what is none.
IsEntry(v) == Kind(v) = "array" /\ Len(v[2]) = 2
EntriesToRec(pairs) ==
    LET s == IF Kind(pairs) = "array" THEN pairs[2] ELSE <<>> IN
    IF \E i \in 1..Len(s) : ~IsEntry(s[i]) THEN BadOperation
    ELSE Rec(Collected([i \in 1..Len(s) |-> <<key_string(s[i][2][1]), s[i][2][2]>>]))

RecOf(pairs) ==
    LET s == Filtered(IF Kind(pairs) = "array" THEN pairs[2] ELSE <<>>,
                       LAMBDA v : /\ Kind(v) = "array" /\ Len(v[2]) >= 2
                                  /\ Kind(v[2][1]) = "string")
    IN  Rec(Collected([i \in 1..Len(s) |-> <<s[i][2][1][2], s[i][2][2]>>]))

\* The value at old[i] moves to new[i]; unlisted keys are dropped.
RelabelOf(r, old, new) ==
    IF \/ Kind(r) # "record" \/ Kind(old) # "array" \/ Kind(new) # "array"
       \/ Len(old[2]) # Len(new[2])
    THEN r
    ELSE LET moved == Filtered([i \in 1..Len(old[2]) |-> <<old[2][i], new[2][i]>>],
                        LAMBDA p : /\ Kind(p[1]) = "string" /\ Kind(p[2]) = "string"
                                   /\ Has(r[2], p[1][2]))
         IN  Rec(Collected([i \in 1..Len(moved) |->
                                <<moved[i][2][2], Get(r[2], moved[i][1][2])>>]))

\* Bug: the inner record is begun again for every outer key.
InvertKeysAnew(r) ==
    LET cells == FlattenSeq([i \in 1..Len(PairsOf(r)) |->
                    [j \in 1..Len(PairsOf(r[2][i][2])) |->
                        <<r[2][i][2][2][j][1], r[2][i][1], r[2][i][2][2][j][2]>>]])
    IN  IF Kind(r) # "record" THEN r
        ELSE Rec(FoldLeft(LAMBDA out, c : Put(out, c[1], Rec(<<<<c[2], c[3]>>>>)),
                          <<>>, cells))

\* result[inner][outer] = r[outer][inner]; what is no record is dropped.
InvertKeys(r) ==
    LET cells == FlattenSeq([i \in 1..Len(PairsOf(r)) |->
                    [j \in 1..Len(PairsOf(r[2][i][2])) |->
                        <<r[2][i][2][2][j][1], r[2][i][1], r[2][i][2][2][j][2]>>]])
    IN  IF Kind(r) # "record" THEN r
        ELSE Rec(FoldLeft(LAMBDA out, c :
                    Put(out, c[1], Rec(Put(PairsOf(Get(out, c[1])), c[2], c[3]))),
                 <<>>, cells))

KeysWord(c) ==
    CASE Kind(c) = "record" -> Arr([i \in 1..Len(c[2]) |-> Str(c[2][i][1])])
      [] Kind(c) = "array"  -> Arr([i \in 1..Len(c[2]) |-> Num(i - 1)])
      [] OTHER              -> EmptyArr

ValuesWord(c) == Arr(Elements(c))
=============================================================================
