---------------------------- MODULE BooleanWords ----------------------------
(***************************************************************************)
(* The words of the boolean module, and the words of the core module that  *)
(* look at values without running code.                                    *)
(***************************************************************************)
EXTENDS ValueEquality

Both(a, b, kind) == Kind(a) = kind /\ Kind(b) = kind

\* <: integers exactly, other numbers as f64; what does not compare is false.
LessThan(a, b) ==
    CASE Both(a, b, "int")    -> a[2] < b[2]
      [] Both(a, b, "string") -> StringLess(a[2], b[2])
      [] IsNumber(a) /\ IsNumber(b) /\ ~Both(a, b, "int") ->
            NaN \notin {a, b} /\ AsF64(a) < AsF64(b)
      [] OTHER -> FALSE

\* <= compares numbers and strings by their order, the rest by ==.
AtMost(a, b) == LessThan(a, b) \/ values_equal(a, b)

Equal(a, b)    == Bool(values_equal(a, b))
NotEqual(a, b) == Bool(~values_equal(a, b))
Less(a, b)     == Bool(LessThan(a, b))
LessEq(a, b)   == Bool(AtMost(a, b))
More(a, b)     == Bool(LessThan(b, a))
MoreEq(a, b)   == Bool(AtMost(b, a))

-----------------------------------------------------------------------------
\* OR and AND refuse arrays, XOR and NAND do not.
NoArray(a, b, v) ==
    IF "array" \in {Kind(a), Kind(b)} THEN Fail("InvalidOperation") ELSE Bool(v)
OrOf(a, b)   == NoArray(a, b, Truthy(a) \/ Truthy(b))
AndOf(a, b)  == NoArray(a, b, Truthy(a) /\ Truthy(b))
XorOf(a, b)  == Bool(Truthy(a) # Truthy(b))
NandOf(a, b) == Bool(~(Truthy(a) /\ Truthy(b)))
NotOf(a)     == Bool(~Truthy(a))
ToBool(a)    == Bool(Truthy(a))

\* Membership.
Holds(s, v) == \E i \in 1..Len(s) : values_equal(s[i], v)

ContainsQ(haystack, needle) ==
    Bool(Kind(haystack) = "array" /\ Holds(haystack[2], needle))
AnyQ(bools) ==
    IF Kind(bools) # "array" THEN Fail("InvalidOperation")
    ELSE Bool(\E i \in 1..Len(bools[2]) : Truthy(bools[2][i]))
AllQ(bools) ==
    IF Kind(bools) # "array" THEN Fail("InvalidOperation")
    ELSE Bool(\A i \in 1..Len(bools[2]) : Truthy(bools[2][i]))
AnyIn(items1, items2) ==
    Bool(/\ Both(items1, items2, "array")
         /\ \E i \in 1..Len(items1[2]) : Holds(items2[2], items1[2][i]))
AllIn(items1, items2) ==
    Bool(/\ Both(items1, items2, "array")
         /\ \A i \in 1..Len(items2[2]) : Holds(items1[2], items2[2][i]))

-----------------------------------------------------------------------------
\* Core: selection, predicates, outcomes, options.
If(b, then, else) == IF Truthy(b) THEN then ELSE else
DefaultOf(v, d)   == IF v \in {Nil, Str("")} THEN d ELSE v

IsNull(v)   == Bool(Kind(v) = "null")
IsEmpty(v)  == Bool(v \in {Nil, Str(""), EmptyArr, EmptyRec})
IsString(v) == Bool(Kind(v) = "string")
IsNum(v)    == Bool(Kind(v) \in {"int", "float", "negzero"})  \* NaN is none
IsRecord(v) == Bool(Kind(v) = "record")
IsArray(v)  == Bool(Kind(v) = "array")

\* ~>: a flat array of keys and values; null when it is no such thing.
ToOptions(v) ==
    LET s == v[2]
        pairs == [i \in 1..Len(s) \div 2 |-> <<s[2*i - 1][2], s[2*i]>>]
    IN  IF /\ Kind(v) = "array" /\ Len(s) % 2 = 0
           /\ \A i \in 1..Len(s) \div 2 : Kind(s[2*i - 1]) = "string"
        THEN Options(Collected(pairs)) ELSE Nil
=============================================================================
