---------------------------- MODULE ForthicValues ----------------------------
(***************************************************************************)
(* The values of Forthic and what every standard word asks of them: truth, *)
(* equality, order, the keys of sets and of records.                       *)
(*                                                                         *)
(* A value is <<kind, payload>>.  A record is a sequence of <<key, value>> *)
(* pairs: an IndexMap keeps the order of insertion.  A float is given in   *)
(* halves, so that it can have a fraction; NaN and -0.0, which is 0 but    *)
(* has a text of its own, are kinds apart.  Integers run from MinInt to    *)
(* MaxInt, and a float has room for integers up to Precise: the i64 and    *)
(* f64 of the code, scaled down.                                           *)
(***************************************************************************)
EXTENDS Integers, SequencesExt

CONSTANTS
    MaxInt,   \* i64::MAX
    Precise   \* 2^53: larger integers lose their last bits as f64

ASSUME WidthAssumption == MaxInt \in Nat /\ Precise \in 1..MaxInt

MinInt == -MaxInt - 1

Nil           == <<"null", 0>>
Bool(b)       == <<"bool", b>>
Num(n)        == <<"int", n>>
Half(h)       == <<"float", h>>
NaN           == <<"nan", 0>>
NegZero       == <<"negzero", 0>>
Str(s)        == <<"string", s>>
Arr(s)        == <<"array", s>>
Rec(pairs)    == <<"record", pairs>>
DateTime(i, z) == <<"datetime", <<i, z>>>>
Options(pairs) == <<"options", pairs>>

\* What a word returns in the place of a value when it fails.
Fail(e)   == <<"fail", e>>
Failed(v) == v[1] = "fail"

Kind(v)        == v[1]
IsNumber(v)    == Kind(v) \in {"int", "float", "negzero", "nan"}
IsContainer(v) == Kind(v) \in {"array", "record"}

\* The form of a value at its top: a number, a string that has a length, a
\* container over a sequence.
IsSequence(s) == Len(s) \in Nat /\ s = [i \in 1..Len(s) |-> s[i]]

Shaped(v) ==
    /\ v = <<v[1], v[2]>>
    /\ Kind(v) \in {"int", "float"} => v[2] \in Int
    /\ Kind(v) = "negzero" => v[2] = 0
    /\ Kind(v) = "string" => Len(v[2]) \in Nat
    /\ IsContainer(v)     => IsSequence(v[2])

EmptyArr == Arr(<<>>)
EmptyRec == Rec(<<>>)

-----------------------------------------------------------------------------
\* The positions of a loop, and the elements of s that a loop over them keeps:
\* those at the positions I, in their order.
Upto(n) == [i \in 1..n |-> i]
Picked(s, I) ==
    FoldLeft(LAMBDA kept, i : IF i \in I THEN Append(kept, s[i]) ELSE kept, <<>>, Upto(Len(s)))

\* Those that pass a test.  (The provers do not know what SelectSeq is.)
Filtered(s, Test(_)) == Picked(s, {i \in 1..Len(s) : Test(s[i])})

-----------------------------------------------------------------------------
\* Records as insertion-ordered maps.  Put is IndexMap::insert: a key that is
\* there keeps its position.
Has(pairs, k) == \E i \in 1..Len(pairs) : pairs[i][1] = k
Get(pairs, k) ==
    IF Has(pairs, k)
    THEN pairs[CHOOSE i \in 1..Len(pairs) : pairs[i][1] = k][2]
    ELSE Nil
Put(pairs, k, v) ==
    IF Has(pairs, k)
    THEN [i \in 1..Len(pairs) |-> IF pairs[i][1] = k THEN <<k, v>> ELSE pairs[i]]
    ELSE Append(pairs, <<k, v>>)
ShiftRemove(pairs, k) == Filtered(pairs, LAMBDA p : p[1] # k)

\* collect() into an IndexMap: later duplicates win, at the first position.
Collected(pairs) == FoldLeft(LAMBDA r, p : Put(r, p[1], p[2]), <<>>, pairs)

KeysOf(pairs) == [i \in 1..Len(pairs) |-> pairs[i][1]]

\* Elements of an array, values of a record; keyed_items gives them their keys.
Elements(c) ==
    CASE Kind(c) = "array"  -> c[2]
      [] Kind(c) = "record" -> [i \in 1..Len(c[2]) |-> c[2][i][2]]
      [] OTHER              -> <<>>
keyed_items(c) ==
    [i \in 1..Len(Elements(c)) |->
        <<IF Kind(c) = "array" THEN Num(i - 1) ELSE Str(c[2][i][1]), Elements(c)[i]>>]

-----------------------------------------------------------------------------
\* Arithmetic of the release build wraps around.
Wrap(n) == ((n - MinInt) % (MaxInt - MinInt + 1)) + MinInt

\* The integers that an f64 holds: a mantissa times a power of two.
Exact == {x \in MinInt..MaxInt + 1 :
             \E c \in -Precise..Precise, e \in 0..MaxInt : x = c * 2^e}

Distance(x, y) == IF x < y THEN y - x ELSE x - y

Nearest(n) == {x \in Exact : \A y \in Exact : Distance(x, n) <= Distance(y, n)}

\* The nearest of them; halfway between two, the one of even mantissa.
Rounded == [n \in MinInt..MaxInt |->
    CHOOSE x \in Nearest(n) : \A y \in Nearest(n) \ {x} :
        y % (2 * Distance(x, y)) = 0 => x % (2 * Distance(x, y)) = 0]

\* An i64 as f64, in halves.
ToF64(n) == 2 * Rounded[n]

\* A number as f64, in halves: -0.0 is 0 for all that reckons or compares.
AsF64(v) == IF Kind(v) = "int" THEN ToF64(v[2]) ELSE v[2]

\* `f as i64' drops the fraction and stops at the ends; NaN, -0.0 and what is
\* no number count as 0.
Clamp(n) == IF n > MaxInt THEN MaxInt ELSE IF n < MinInt THEN MinInt ELSE n

AsI64(v) ==
    CASE Kind(v) = "int"   -> v[2]
      [] Kind(v) = "float" -> Clamp(IF v[2] >= 0 THEN v[2] \div 2 ELSE -((-v[2]) \div 2))
      [] OTHER             -> 0

Truthy(v) ==
    CASE Kind(v) \in {"null", "nan", "negzero"} -> FALSE
      [] Kind(v) = "bool"            -> v[2]
      [] Kind(v) \in {"int", "float"} -> v[2] # 0
      [] Kind(v) = "string"          -> v[2] # ""
      [] OTHER                       -> TRUE

-----------------------------------------------------------------------------
\* The order of SORT and its kin: numbers on one line, strings by the
\* alphabet, times by their instant, kinds by rank, null last.
Rank(v) ==
    CASE Kind(v) = "bool" -> 0 [] IsNumber(v) -> 1 [] Kind(v) = "string" -> 2
      [] Kind(v) = "datetime" -> 5 [] Kind(v) = "array" -> 6
      [] Kind(v) = "record" -> 7 [] Kind(v) = "null" -> 9 [] OTHER -> 8

Sign(x, y) == IF x < y THEN -1 ELSE IF x = y THEN 0 ELSE 1

\* Strings compare character by character, a prefix first.
CharAt(s, i) == IF i \in 1..Len(s) THEN SubSeq(s, i, i) ELSE ""
Alphabet == "\t \"'-.0123456789<>ABCDEFGHIJKLMNOPQRSTUVWXYZ[]abcdefghijklmnopqrstuvwxyz"
Letter(c) == CHOOSE i \in 1..Len(Alphabet) : CharAt(Alphabet, i) = c

StringLess(s, t) ==
    \E i \in 0..Len(s) :
        /\ i < Len(t) /\ SubSeq(s, 1, i) = SubSeq(t, 1, i)
        /\ i = Len(s) \/ Letter(CharAt(s, i + 1)) < Letter(CharAt(t, i + 1))

natural_cmp(a, b) ==
    CASE IsNumber(a) /\ IsNumber(b) ->
            IF NaN \in {a, b} THEN 0 ELSE Sign(AsF64(a), AsF64(b))
      [] Kind(a) = "string" /\ Kind(b) = "string" ->
            IF a = b THEN 0 ELSE IF StringLess(a[2], b[2]) THEN -1 ELSE 1
      [] Kind(a) = "bool" /\ Kind(b) = "bool" ->
            Sign(IF a[2] THEN 1 ELSE 0, IF b[2] THEN 1 ELSE 0)
      [] Kind(a) = "datetime" /\ Kind(b) = "datetime" -> Sign(a[2][1], b[2][1])
      [] OTHER -> Sign(Rank(a), Rank(b))

\* sort_by is stable: an element comes after those that are smaller and after
\* its equals that stood before it.  items and keys go together.
SortedBy(items, keys) ==
    LET Before(j, i) == natural_cmp(keys[j], keys[i]) = -1
                        \/ (natural_cmp(keys[j], keys[i]) = 0 /\ j < i)
        place == [i \in 1..Len(items) |->
                    Cardinality({j \in 1..Len(items) : Before(j, i)}) + 1]
    IN  [p \in 1..Len(items) |-> items[CHOOSE i \in 1..Len(items) : place[i] = p]]

-----------------------------------------------------------------------------
\* Bug: an Int and a Float of one value are two keys.
typed_key(v) == v

\* The key of a value in the HashSets of UNIQUE, UNION and the set words: the
\* text of a number as f64, which tells -0.0 from 0, containers by their Debug
\* text, which tells 1 from 1.0 too.
value_to_key(v) ==
    IF Kind(v) \in {"int", "float"} THEN <<"num", AsF64(v)>> ELSE v

\* The text of a float that is not -0.0: 1 for 1.0, 0.5 for a half.
HalfText(h) ==
    IF h % 2 = 0 THEN ToString(h \div 2)
    ELSE IF h < 0 THEN "-" \o ToString((-h) \div 2) \o ".5" ELSE ToString(h \div 2) \o ".5"

ScalarText(v) ==
    CASE Kind(v) = "string" -> v[2]
      [] Kind(v) = "int"    -> ToString(v[2])
      [] Kind(v) = "float"  -> HalfText(v[2])
      [] Kind(v) = "negzero" -> "-0"
      [] Kind(v) = "nan"    -> "NaN"
      [] Kind(v) = "bool"   -> IF v[2] THEN "true" ELSE "false"
      [] OTHER              -> "null"

IsScalar(v) ==
    Kind(v) \in {"string", "int", "float", "negzero", "nan", "bool", "null"}

\* A scalar as the key of a record; containers cannot be keys.
value_to_key_string(v) == IF IsScalar(v) THEN ScalarText(v) ELSE "(no key)"

\* Both are -0.0 or neither is.  -0.0 is == to 0 and ties with it, but it is
\* another key in a set ("num:-0") and in a record ("-0").
SameZero(a, b) == a = NegZero <=> b = NegZero

\* The elements that are not the Same as one that was kept before.
KeepFirst(items, Same(_, _)) ==
    FoldLeft(LAMBDA kept, x : IF \E i \in 1..Len(kept) : Same(kept[i], x)
                              THEN kept ELSE Append(kept, x),
             <<>>, items)
=============================================================================
