----------------------------- MODULE RpcPromise -----------------------------
(***************************************************************************)
(* What a caller of a remote Forthic runtime may conclude from what its    *)
(* call returns.  Refused: none of its words ran, and none will.  Ok: all  *)
(* of them ran, once each.  Failed: it is over, some of them may have run. *)
(* Unknown (timeout, lost connection, crash): words may still be running.  *)
(***************************************************************************)
EXTENDS Naturals

CONSTANT Call

VARIABLES words, ran, told

Init ==
    /\ words \in [Call -> Nat]
    /\ ran = [k \in Call |-> 0]
    /\ told = [k \in Call |-> "nothing"]

RunWord(k) ==
    /\ told[k] \in {"nothing", "unknown"}
    /\ ran[k] < words[k]
    /\ ran' = [ran EXCEPT ![k] = @ + 1]
    /\ UNCHANGED <<words, told>>

Tell(k, what) ==
    /\ told[k] = "nothing"
    /\ what = "refused" => ran[k] = 0
    /\ what = "ok" => ran[k] = words[k]
    /\ told' = [told EXCEPT ![k] = what]
    /\ UNCHANGED <<words, ran>>

Next == \E k \in Call :
    RunWord(k) \/ \E what \in {"refused", "ok", "failed", "unknown"} : Tell(k, what)

Spec == Init /\ [][Next]_<<words, ran, told>>
=============================================================================
