------------------------------ MODULE MemoCell ------------------------------
(***************************************************************************)
(* What a memo word promises to the requests that share it: one cell.  A   *)
(* refresh puts a value in it, a call answers with the value it holds, and *)
(* nothing ever empties it.                                                *)
(***************************************************************************)
CONSTANTS Thread, Result, NoResult

VARIABLES cell, answer

Init ==
    /\ cell = NoResult
    /\ answer = [t \in Thread |-> NoResult]

\* A refresh, by whatever thread.
Store == cell' \in Result /\ UNCHANGED answer

\* A call of F or F!@ pushes what the cell holds at that moment.
Answer(t) ==
    /\ cell # NoResult
    /\ answer' = [answer EXCEPT ![t] = cell]
    /\ UNCHANGED cell

\* The thread starts another call.
Forget(t) == answer' = [answer EXCEPT ![t] = NoResult] /\ UNCHANGED cell

Next == Store \/ \E t \in Thread : Answer(t) \/ Forget(t)

Spec == Init /\ [][Next]_<<cell, answer>>
=============================================================================
