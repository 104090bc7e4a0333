--------------------------- MODULE MCModuleSystem ---------------------------
(***************************************************************************)
(* The host has two modules of one name, whose exported word differs.  One *)
(* of them keeps a word and a variable to itself.                          *)
(***************************************************************************)
EXTENDS ModuleSystem

CONSTANTS lib, w, dunder, v1, v2

Exporting(v, hidden, variables) ==
    [name |-> lib, words |-> Over(hidden, One(Plain(w), v)), exportable |-> {Plain(w)},
     vars |-> variables, modules |-> Nothing]

TwoVersions == {Exporting(v1, Nothing, Nothing),
                Exporting(v2, One(<<lib, w>>, v2), One(Plain(w), v1))}

MCReserved == {Plain(dunder)}
MCCodeNames == {Plain(w)}
MCNameLists == {<<Plain(w), Plain(dunder)>>}
Entry(n, p) == [name |-> n, prefix |-> p]
MCUseLists == {<<Entry(lib, Blank), Entry(Malformed, Blank)>>, <<Entry(lib, lib)>>}
=============================================================================
