--------------------------- MODULE MCStandardWords ---------------------------
(***************************************************************************)
(* The stacks the runs of StandardWords begin with.                        *)
(***************************************************************************)
EXTENDS StandardWords

N(i) == Num(i)
S(s) == Str(s)
A(s) == Arr(s)
R1(k, v) == Rec(<<<<k, v>>>>)
R2(k, v, l, w) == Rec(<<<<k, v>>, <<l, w>>>>)

Inner == R2("b", N(1), "a", Nil)

\* Arrays with duplicates across Int and Float, nested ones, arrays of
\* records, of pairs and of keys; records nested, empty and with number keys.
Arrays == {
    EmptyArr,
    A(<<N(2), Half(2), N(1)>>),
    A(<<NegZero, N(1), NegZero>>),
    A(<<S("b"), S("a"), Nil, Bool(TRUE), S("a")>>),
    A(<<A(<<N(1), A(<<Half(2)>>)>>), A(<<>>), N(0)>>),
    A(<<R1("a", S("b")), R1("a", A(<<S("b"), N(1)>>)), Inner>>),
    A(<<A(<<S("a"), N(1)>>), A(<<S("b"), Inner>>)>>) }

Records == {
    EmptyRec,
    R2("b", N(1), "a", S("b")),
    R2("a", R1("b", Inner), "1", A(<<N(1), N(2)>>)),
    R2("b", R1("a", N(1)), "a", R2("a", N(2), "b", Nil)) }

Containers == Arrays \cup Records

Atoms == {
    Nil, NaN, NegZero, Half(1), Half(-2), N(-1), N(0), N(1), N(2), N(3), N(Precise + 1), S(""), S("a"), S("1"),
    Bool(FALSE), DateTime(1, "UTC"), DateTime(1, "CET"),
    Options(<<<<"push_rest", Bool(TRUE)>>>>), Options(<<<<"depth", N(1)>>>>) }

Lists == { A(<<S("a"), S("b")>>), A(<<S("a"), N(1)>>), A(<<N(1), S("b"), Half(4)>>),
          A(<<N(0), NegZero, Half(0)>>) }

Paths == {
    S(""), S("a.b"), S(".a['b'].a"), S("[1]"), S("[-1].a"), S("a[0].b[2]"),
    S("[].b"), S("[].[]"), S("a["), S("['a"), S("a[x]"), Half(1),
    EmptyArr, A(<<S("a"), S("b")>>), A(<<S("a"), N(1), S("b")>>), A(<<N(1)>>),
    A(<<A(<<>>)>>) }

MCStacks ==
    {<<>>} \cup {<<v>> : v \in Containers \cup Atoms}
    \cup {<<c, a>> : c \in Containers, a \in Atoms \cup Lists}
    \cup {<<c, d>> : c \in Containers, d \in Containers}
    \cup {<<a, b>> : a \in Atoms, b \in Atoms}
    \cup {<<c, v, p>> : c \in Containers \cup {Nil, N(1)}, v \in {N(3), Inner}, p \in Paths}
    \cup {<<c, N(2), o>> : c \in Containers, o \in {a \in Atoms : Kind(a) = "options"}}
    \cup {<<c, a, b>> : c \in Containers, a \in {N(0), N(-1), N(2)}, b \in {N(-2), N(0), N(1), N(7)}}
    \cup {<<c, l, m>> : c \in Records, l \in Lists, m \in Lists}
    \cup {<<A(<<N(Precise), Half(2*Precise)>>), EmptyArr, N(Precise + 1)>>,
          <<R2("b", NaN, "a", R1("b", NaN)), A(<<S("b"), S("a")>>)>>}

\* The ends of the number line.
WideStacks ==
    {<<A(<<N(1)>>), N(a), N(b)>> : a, b \in {MinInt, -1, 0, MaxInt}}
    \cup {<<N(1), S("a"), R1("a", N(b)), Bool(c)>> : b \in 0..9, c \in BOOLEAN}
=============================================================================
