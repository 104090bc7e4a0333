----------------------------- MODULE CuttingWords -----------------------------
(***************************************************************************)
(* The words of the array module that take a container to pieces, at work  *)
(* on the stack.                                                           *)
(***************************************************************************)
EXTENDS PieceWords, DataStack

word_first     == Unary(FirstOf)
word_last      == Unary(LastOf)
word_length    == Unary(LengthOf)
word_nth       == Binary(NthOf)
word_slice     == Ternary(SliceOf)
word_take      == Pops(Beneath, 2, LAMBDA a :
                      IF Option("push_rest", "bool", FALSE)
                      THEN <<TakeOf(a[1], a[2]), RestOf(a[1], a[2])>>
                      ELSE <<TakeOf(a[1], a[2])>>)
word_skip      == Binary(SkipOf)
word_take_last == Binary(TakeLastOf)
word_groups_of == IF stack # <<>> /\ AsI64(Top) <= 0 THEN RefusesTop ELSE Binary(GroupsOf)
word_range     == Binary(RangeOf)

CuttingWord ==
    \/ word_first \/ word_last \/ word_length \/ word_nth \/ word_slice \/ word_take
    \/ word_skip \/ word_take_last \/ word_groups_of \/ word_range

\* Programs of these words alone.
CuttingSpec == Init /\ [][CuttingWord]_vars

-----------------------------------------------------------------------------
StackShaped == IsSequence(stack) /\ \A i \in 1..Len(stack) : Shaped(stack[i])

\* Groups of k cover c in order: all are full but the last, which is not empty.
GroupsCover(g, c, k) ==
    /\ (Size(g) - 1) * k < Size(c) /\ Size(c) <= Size(g) * k
    /\ \A j \in 1..Size(g) :
          /\ Kind(g[2][j]) = Kind(c)
          /\ Size(g[2][j]) = IF j < Size(g) THEN k ELSE Size(c) - (j - 1) * k
          /\ \A m \in 1..Size(g[2][j]) : g[2][j][2][m] = c[2][(j - 1) * k + m]

CutsAgree(c, n) ==
    LET k == AsI64(n)
    IN  /\ {Kind(p) : p \in {TakeOf(c, n), RestOf(c, n), SkipOf(c, n), TakeLastOf(c, n)}}
              = {Kind(c)}
        /\ TakeOf(c, n)[2] \o RestOf(c, n)[2] = c[2]
        /\ TakeOf(c, n)[2] \o SkipOf(c, n)[2] = c[2]
        /\ k > 0 => /\ TakeLastOf(c, n) = SkipOf(c, Num(Size(c) - k))
                    /\ GroupsCover(GroupsOf(c, n), c, k)
        /\ k \in 1..Size(c) => Size(TakeLastOf(c, n)) = k
        /\ k \in 1..Size(c) /\ k <= MaxMaterialized =>
              /\ SliceOf(c, Num(0), Num(k - 1)) = TakeOf(c, n)
              /\ SliceOf(c, Num(-k), Num(-1))   = TakeLastOf(c, n)
              /\ SliceOf(c, Num(k - 1), Num(0))[2] = Reverse(TakeOf(c, n)[2])

\* TAKE, its push_rest, SKIP, TAKE-LAST, SLICE and GROUPS-OF cut a container
\* at the same places, wherever the boundary falls: nothing is lost or doubled
\* and the pieces are of the container's own kind.
PiecesAgree ==
    \A i \in 1..Len(stack) - 1 :
        IsContainer(stack[i]) => CutsAgree(stack[i], stack[i + 1])

-----------------------------------------------------------------------------
\* What the comments say of the code, and it does not do.

\* "Guards the span size": SLICE and RANGE materialize no more than the limit.
SpansAreGuarded ==
    [][word_slice \/ word_range =>
          \A v \in ToSet(stack') \ ToSet(stack) : Kind(v) = "array" => Size(v) <= MaxMaterialized]_vars
=============================================================================
