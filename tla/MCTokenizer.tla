----------------------------- MODULE MCTokenizer -----------------------------
(***************************************************************************)
(* The texts of the run of Tokenizer: every short text over all classes of *)
(* characters, and longer ones over the characters that interact.          *)
(***************************************************************************)
EXTENDS Tokenizer

TextsOf(S, n) == UNION {[1..k -> S] : k \in 0..n}

MCTexts ==
    TextsOf(Char, 3)
    \cup TextsOf({"q", "a"}, 8) \cup TextsOf({"q", "p", "a"}, 5)
    \cup TextsOf({"T", "[", "]", " ", "a"}, 5)
    \cup TextsOf({"#", ":", "@", "a", Newline}, 4)
=============================================================================
