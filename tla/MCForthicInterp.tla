--------------------------- MODULE MCForthicInterp ---------------------------
(***************************************************************************)
(* Vocabularies for the runs of ForthicInterp.                             *)
(***************************************************************************)
EXTENDS ForthicInterp

Push(v) == [t |-> "word", w |-> [op |-> "push", v |-> v]]
Builtins(ops) == {[t |-> "word", w |-> [op |-> o]] : o \in ops}
Names(ops) == [t : {"name"}, n : DefName, op : ops]
Opens(ms) == [t : {"start_module"}, m : ms]
Marks(ts) == [t : ts]
Defines(ts) == [t : ts, n : DefName]

\* Definitions and memos made, called, refreshed and made again in modules; begun,
\* with modules opened and stops raised, inside code that is caught.
CatchTokens ==
    {Push("a"), Push("code"), Push("arr")} \cup Builtins({"TRY", "MAP-OUTCOMES", "PEEK!"})
    \cup Names({"call", "bang"}) \cup Opens(ModName)
    \cup Defines({"start_def", "start_memo"}) \cup Marks({"end_module", "end_def"})

\* Everything: words that run code, errors, outcomes and definitions; the modules
\* opened are the ones without a name.
AllTokens ==
    {Push("mark")} \cup (CatchTokens \ Opens(ModName)) \cup Opens({AppName})
    \cup Names(NameOp) \cup Builtins({"DUP", "DROP", "RUN", "MAP", "UNWRAP", "end_array"})
    \cup Marks({"malformed"})

TwoValues == {"a", "code"}
=============================================================================
