----------------------------- MODULE NameScopes -----------------------------
(***************************************************************************)
(* What names mean to Forthic code, without modules as objects: nested     *)
(* scopes, searched from the innermost.  Code binds names in the innermost *)
(* scope only.  An import binds in the outermost scope and in the base,    *)
(* which is what a reset goes back to.  A scope opens with one of a fixed  *)
(* set of contents, or with the base; closing it forgets all it bound.     *)
(***************************************************************************)
EXTENDS Naturals, Sequences

CONSTANTS Names, Openings, Done, Failed

VARIABLES base, scopes, out

vars == <<base, scopes, out>>

Empty == [words |-> [k \in {} |-> Done], vars |-> [k \in {} |-> Done]]

\* bindings of new, and those of old that new does not replace
Over(new, old) ==
    [k \in DOMAIN new \cup DOMAIN old |-> IF k \in DOMAIN new THEN new[k] ELSE old[k]]

\* a word hides a variable of the same scope
Meanings(s) == Over(s.words, s.vars)

\* what the innermost function of a sequence with k in its domain gives, else Failed
Innermost(fs, k) ==
    LET having == {i \in DOMAIN fs : k \in DOMAIN fs[i]}
    IN  IF having = {} THEN Failed
        ELSE fs[CHOOSE i \in having : \A j \in having : j <= i][k]

Meaning(k) == Innermost([i \in DOMAIN scopes |-> Meanings(scopes[i])], k)
Value(k) == Innermost([i \in DOMAIN scopes |-> scopes[i].vars], k)

Init == base = Empty /\ scopes = <<Empty>> /\ out = Done

\* the only value a binding may give back is one it has made a variable's
Bind ==
    /\ Len(scopes') = Len(scopes)
    /\ \A i \in 1 .. Len(scopes) - 1 : scopes'[i] = scopes[i]
    /\ LET innermost == scopes'[Len(scopes)].vars
       IN  out' \in {Done, Failed} \cup {innermost[k] : k \in DOMAIN innermost}
    /\ base' = base

Import == \E D \in SUBSET DOMAIN base'.words :
    LET imported == [k \in D |-> base'.words[k]]
    IN  /\ base' = [base EXCEPT !.words = Over(imported, @)]
        /\ scopes' = [scopes EXCEPT ![1].words = Over(imported, @)]

Open == \E s \in Openings \cup {base} :
    scopes' = Append(scopes, s) /\ base' = base

Close ==
    /\ Len(scopes) > 1
    /\ scopes' = SubSeq(scopes, 1, Len(scopes) - 1)
    /\ base' = base

Reset == scopes' = <<base>> /\ base' = base

Look == \E k \in Names :
    out' \in {Meaning(k), Value(k)} /\ UNCHANGED <<base, scopes>>

Change == out' \in {Done, Failed} /\ (Import \/ Open \/ Close \/ Reset)

Next == Bind \/ Change \/ Look

Spec == Init /\ [][Next]_vars
=============================================================================
