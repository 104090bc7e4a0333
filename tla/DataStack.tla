------------------------------ MODULE DataStack ------------------------------
(***************************************************************************)
(* One stack of values and what a word that runs no code does to it: pops  *)
(* off its arguments, then pushes its results, or fails with them gone.    *)
(***************************************************************************)
EXTENDS ForthicValues

CONSTANTS
    Stacks,    \* the stacks to begin with
    MaxWords   \* how many words are executed

VARIABLES
    stack,     \* the data stack, its top last
    res,       \* "ok" or the error of the word that failed
    executed   \* how many words have been

vars == <<stack, res, executed>>

Init == stack \in Stacks /\ res = "ok" /\ executed = 0

-----------------------------------------------------------------------------
\* n values are popped off s, Outs(args) are pushed.  A pop from the empty
\* stack fails, with what was popped before it gone; so does a failing word.
Fails(outs) == IF outs = <<>> THEN FALSE ELSE Failed(outs[1])

Pops(s, n, Outs(_)) ==
    LET rest == SubSeq(s, 1, Len(s) - n)
        outs == Outs(SubSeq(s, Len(s) - n + 1, Len(s)))
    IN  /\ res = "ok" /\ executed < MaxWords /\ executed' = executed + 1
        /\ \/ /\ Len(s) < n
              /\ stack' = <<>> /\ res' = "StackUnderflow"
           \/ /\ Len(s) >= n /\ Fails(outs)
              /\ stack' = rest /\ res' = outs[1][2]
           \/ /\ Len(s) >= n /\ ~Fails(outs)
              /\ stack' = rest \o outs /\ UNCHANGED res

Unary(Op(_))       == Pops(stack, 1, LAMBDA a : <<Op(a[1])>>)
Binary(Op(_, _))   == Pops(stack, 2, LAMBDA a : <<Op(a[1], a[2])>>)
Ternary(Op(_,_,_)) == Pops(stack, 3, LAMBDA a : <<Op(a[1], a[2], a[3])>>)

\* The top of the stack, and a word that fails on it before it pops the rest.
Top == IF stack = <<>> THEN Nil ELSE Last(stack)
RefusesTop == Unary(LAMBDA v : Fail("InvalidOperation"))

\* pop_options: the options on top, if there are any, and the stack below.
OnTop   == IF Kind(Top) = "options" THEN Top[2] ELSE <<>>
Beneath == IF Kind(Top) = "options" THEN Front(stack) ELSE stack
Option(k, kind, default) == IF Kind(Get(OnTop, k)) = kind THEN Get(OnTop, k)[2] ELSE default
=============================================================================
