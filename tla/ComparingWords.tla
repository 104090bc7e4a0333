---------------------------- MODULE ComparingWords ----------------------------
(***************************************************************************)
(* The words of the boolean and of the core module that run no code, at    *)
(* work on one stack: they compare values, look at them and choose, and    *)
(* leave containers as they are.                                           *)
(***************************************************************************)
EXTENDS DataStack, BooleanWords, ChoosingWords

-----------------------------------------------------------------------------
\* The boolean module.
word_equals     == Binary(Equal)
word_not_equals == Binary(NotEqual)
word_less_than  == Binary(Less)
word_less_than_or_equal    == Binary(LessEq)
word_greater_than          == Binary(More)
word_greater_than_or_equal == Binary(MoreEq)
word_or         == Binary(OrOf)
word_and        == Binary(AndOf)
word_not        == Unary(NotOf)
word_xor        == Binary(XorOf)
word_nand       == Binary(NandOf)
word_contains_q == Binary(ContainsQ)
word_any_q      == Unary(AnyQ)
word_all_q      == Unary(AllQ)
word_any        == Binary(AnyIn)
word_all        == Binary(AllIn)
word_to_bool    == Unary(ToBool)

BooleanWord ==
    \/ word_equals \/ word_not_equals \/ word_less_than \/ word_less_than_or_equal
    \/ word_greater_than \/ word_greater_than_or_equal \/ word_or \/ word_and
    \/ word_not \/ word_xor \/ word_nand \/ word_contains_q \/ word_any_q
    \/ word_all_q \/ word_any \/ word_all \/ word_to_bool

\* The core module.
word_drop       == Pops(stack, 1, LAMBDA a : <<>>)
word_dup        == Pops(stack, 1, LAMBDA a : a \o a)
word_swap       == Pops(stack, 2, LAMBDA a : <<a[2], a[1]>>)
word_null       == Pops(stack, 0, LAMBDA a : <<Nil>>)
word_if         == Ternary(If)
word_default    == Binary(DefaultOf)
word_null_q     == Unary(IsNull)
word_empty_q    == Unary(IsEmpty)
word_string_q   == Unary(IsString)
word_number_q   == Unary(IsNum)
word_record_q   == Unary(IsRecord)
word_is_array   == Unary(IsArray)
word_to_options == Unary(ToOptions)

CoreWord ==
    \/ word_drop \/ word_dup \/ word_swap \/ word_null \/ word_if \/ word_default
    \/ word_null_q \/ word_empty_q \/ word_string_q \/ word_number_q
    \/ word_record_q \/ word_is_array \/ word_to_options

\* Programs of these words alone.
ComparingWord == BooleanWord \/ CoreWord

ComparingSpec == Init /\ [][ComparingWord]_vars

-----------------------------------------------------------------------------
\* The values at hand: those on the stack and the elements of its containers.
Values == ToSet(stack) \cup UNION {ToSet(Elements(v)) : v \in ToSet(stack)}

\* NaN is not even itself, and integers beyond Precise are apart for == but
\* one key for UNIQUE.
Scalar(v)  == /\ IsScalar(v) /\ v # NaN
              /\ Kind(v) = "int" => v[2] \in -Precise..Precise
Scalars(c) == \A i \in 1..Len(Elements(c)) : Scalar(Elements(c)[i])

\* ==, the order of SORT, <, the keys of UNIQUE and the keys of the grouping
\* words are written five times over; they agree on scalars, across Int and
\* Float too, as long as floats hold the integers exactly, but for one pair:
\* 0 and -0.0 are == and have two keys.  Values that are == are ties of SORT.
OneNotionOfEquality ==
    \A a, b \in Values :
        /\ values_equal(a, b) = values_equal(b, a)
        /\ natural_cmp(a, b) = -natural_cmp(b, a)
        /\ values_equal(a, b) => natural_cmp(a, b) = 0 /\ Truthy(a) = Truthy(b)
        /\ Scalar(a) /\ Scalar(b) =>
              /\ SameKey(a, b) <=> values_equal(a, b) /\ SameZero(a, b)
              /\ values_equal(a, b) <=> natural_cmp(a, b) = 0
              /\ SameKey(a, b) => value_to_key_string(a) = value_to_key_string(b)
              /\ LessThan(a, b) <=> /\ natural_cmp(a, b) = -1
                                    /\ Kind(a) = Kind(b) \/ (IsNumber(a) /\ IsNumber(b))
                                    /\ Kind(a) # "bool"
=============================================================================
