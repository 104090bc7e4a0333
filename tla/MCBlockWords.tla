---------------------------- MODULE MCBlockWords ----------------------------
(***************************************************************************)
(* Stacks with the arguments of every word that runs code, the code on top *)
(* or still to be pushed.                                                  *)
(***************************************************************************)
EXTENDS BlockResults

Pair  == Arr(<<Num(0), Num(1)>>)
Twice == Arr(<<Num(1), Half(2)>>)
Both  == Rec(<<<<"b", Num(1)>>, <<"a", Pair>>>>)
Path  == Arr(<<Str("a"), Num(1)>>)
Code  == Str("w")

WithKeys == Options(<<<<"with_key", Bool(TRUE)>>>>)
ByKey    == Options(<<<<"comparator", Code>>>>)

\* Two values of the caller lie beneath the arguments.
MCStacks == {<<Nil, Num(1)>> \o args : args \in
    {<<v, Code>> : v \in {Str(""), Num(2)}} \cup {<<Both, Code, WithKeys>>, <<Twice, ByKey>>}
    \cup {<<Twice, Pair, Code>>, <<Both, Both, Code>>, <<Both, Path, Code>>, <<Num(1), Code, Nil>>}}

MCLiterals == {Num(0), Arr(<<Str("A"), Str("a")>>)}
MCAmends == {Nil}
MCGiven == {[w \in Words |-> IF w \in Keyed THEN <<"h1", "h2">> ELSE <<>>]}
MCHandlers == {"h1", "h2"}
=============================================================================
