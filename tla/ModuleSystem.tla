---------------------------- MODULE ModuleSystem ----------------------------
(***************************************************************************)
(* Modules, variables and imports of an interpreter.  A Module owns its    *)
(* words, variables and registered modules, and is copied when it is       *)
(* opened, registered or imported: the app module and the bottom of the    *)
(* module stack are two copies that the host's and the code's operations   *)
(* must keep in step.                                                      *)
(*                                                                         *)
(* What a word does when it runs is the subject of ForthicInterp: here it  *)
(* stands for the value it pushes.  Operations are those of the host       *)
(* between runs and those of code; code left open by one run ("{x") is     *)
(* still open in the next.                                                 *)
(***************************************************************************)
EXTENDS Naturals, Sequences

CONSTANTS
    ModuleNames,    \* names of modules
    Blank,          \* the empty string: the app module's name, and "no prefix"
    PlainNames,     \* names without a prefix
    Reserved,       \* those that begin with "__"
    CodeNames,      \* names that code defines or stores to
    Values,         \* what words push and variables hold
    Null,           \* the value of a variable that is declared and not set
    Library,        \* modules built by the host
    NameLists,      \* operands of VARIABLES
    UseLists,       \* operands of USE-MODULES
    Malformed,      \* stands for an entry of them that is no name and no pair
    Done, Failed,   \* outcomes of operations that give no value
    MaxDepth        \* bound on the length of the module stack

\* the name of a word imported with a prefix is "prefix.name"
Names == (ModuleNames \cup {Blank}) \X PlainNames
Plain(n) == <<Blank, n>>
Data == Values \cup {Null}

Nothing == [k \in {} |-> Null]
Fresh(n) == [name |-> n, words |-> Nothing, exportable |-> {},
             vars |-> Nothing, modules |-> Nothing]

\* modules nobody has added to: new ones and those the host built
Pristine == {Fresh(n) : n \in ModuleNames} \cup Library

PartialFns(S, T) == UNION {[D -> T] : D \in SUBSET S}

IsModule(m) ==
    /\ m = [name |-> m.name, words |-> m.words, exportable |-> m.exportable,
            vars |-> m.vars, modules |-> m.modules]
    /\ m.name \in ModuleNames \cup {Blank}
    /\ m.words \in PartialFns(Names, Data) /\ m.vars \in PartialFns(Names, Data)
    /\ m.exportable \subseteq Names
    /\ DOMAIN m.modules \subseteq ModuleNames

\* each module registered in m is pristine
HoldsPristine(m) == m.modules \in PartialFns(ModuleNames, Pristine)

ASSUME ModulesAssumption ==
    /\ Blank \notin ModuleNames
    /\ Reserved \subseteq Names /\ CodeNames \subseteq Names
    /\ Done \notin Data /\ Failed \notin Data /\ Done # Failed
    /\ MaxDepth \in Nat \ {0}
    /\ NameLists \subseteq Seq(Names)
    /\ UseLists \subseteq Seq([name : ModuleNames \cup {Malformed},
                             prefix : ModuleNames \cup {Blank}])
    /\ Malformed \notin ModuleNames
    /\ \A m \in Library : IsModule(m) /\ m.name \in ModuleNames /\ HoldsPristine(m)

VARIABLES
    app,       \* app_module
    mstack,    \* module_stack
    using,     \* entries that a USE-MODULES in progress has still to import
    out,       \* what the last operation gave
    own        \* history: names bound at the outermost level since their last import

vars == <<app, mstack, using, out, own>>

----------------------------------------------------------------------------
Bottom == mstack[1]
Cur == mstack[Len(mstack)]

\* bindings of new, and those of old that new does not replace
Over(new, old) ==
    [k \in DOMAIN new \cup DOMAIN old |-> IF k \in DOMAIN new THEN new[k] ELSE old[k]]

One(k, v) == [j \in {k} |-> v]

\* Module::find_word: the dictionary, then the variables
Meanings(m) == Over(m.words, m.vars)

\* the innermost of the functions that has k, else Failed
Innermost(fs, k) ==
    LET having == {i \in DOMAIN fs : k \in DOMAIN fs[i]}
    IN  IF having = {} THEN Failed
        ELSE fs[CHOOSE i \in having : \A j \in having : j <= i][k]

find_word(k) == Innermost([i \in DOMAIN mstack |-> Meanings(mstack[i])], k)
find_variable_value(k) == Innermost([i \in DOMAIN mstack |-> mstack[i].vars], k)

\* exportable_words, named as import_module names them
Exports(m, prefix) ==
    [k \in {<<prefix, n>> : n \in {n \in PlainNames : Plain(n) \in m.exportable \cap DOMAIN m.words}}
       |-> m.words[Plain(k[2])]]

Register(target, m) == [target EXCEPT !.modules = Over(One(m.name, m), @)]

Import(target, prefix, m) ==
    Register([target EXCEPT !.words = Over(Exports(m, prefix), @)], m)

add_word(target, k, v) == [target EXCEPT !.words = Over(One(k, v), @)]

\* changes the current module only
SetCur(m) == mstack' = [mstack EXCEPT ![Len(mstack)] = m] /\ app' = app

\* an outermost binding of the names in D
Owned(D) == own' = IF Len(mstack) = 1 THEN own \cup D ELSE own

Ready == using = <<>>

----------------------------------------------------------------------------
Init ==
    /\ app = Fresh(Blank)
    /\ mstack = <<Fresh(Blank)>>
    /\ using = <<>>
    /\ out = Done
    /\ own = {}

----------------------------------------------------------------------------
(***************************************************************************)
(* The host, between runs.                                                 *)
(***************************************************************************)
\* Only in the app module, not in its live copy.
register_moduleInApp(m) ==
    /\ Ready
    /\ app' = Register(app, m)
    /\ out' = Done
    /\ UNCHANGED <<mstack, using, own>>

register_module(m) ==
    /\ Ready
    /\ app' = Register(app, m)
    /\ mstack' = [mstack EXCEPT ![1] = Register(@, m)]
    /\ out' = Done
    /\ UNCHANGED <<using, own>>

\* registers m, then imports it: the second registration is of the same module
import_module(m, prefix) ==
    /\ Ready
    /\ app' = Import(app, prefix, m)
    /\ mstack' = [mstack EXCEPT ![1] = Import(@, prefix, m)]
    /\ out' = Done
    /\ own' = own \ DOMAIN Exports(m, prefix)
    /\ using' = using

\* begins to run the code of m; EndModule is its end
run_module_code(m) ==
    /\ Ready /\ Len(mstack) < MaxDepth
    /\ mstack' = Append(mstack, m)
    /\ out' = Done
    /\ UNCHANGED <<app, using, own>>

reset ==
    /\ Ready
    /\ mstack' = <<app>>
    /\ out' = Done
    /\ own' = {}
    /\ UNCHANGED <<app, using>>

----------------------------------------------------------------------------
(***************************************************************************)
(* Code.                                                                   *)
(***************************************************************************)
\* "{}" opens the live copy of the app module.
StartModuleAtBottom(n) ==
    /\ Ready /\ Len(mstack) < MaxDepth
    /\ mstack' =
         IF n = Blank THEN Append(mstack, Bottom)
         ELSE IF n \in DOMAIN Cur.modules THEN Append(mstack, Cur.modules[n])
         ELSE Append([mstack EXCEPT ![Len(mstack)] = Register(@, Fresh(n))], Fresh(n))
    /\ out' = Done
    /\ UNCHANGED <<app, using, own>>

StartModule(n) ==
    /\ Ready /\ Len(mstack) < MaxDepth
    /\ mstack' =
         IF n = Blank THEN Append(mstack, app)
         ELSE IF n \in DOMAIN Cur.modules THEN Append(mstack, Cur.modules[n])
         ELSE Append([mstack EXCEPT ![Len(mstack)] = Register(@, Fresh(n))], Fresh(n))
    /\ out' = Done
    /\ UNCHANGED <<app, using, own>>

\* Without the check that one module is left.
EndModuleUnchecked ==
    /\ Ready
    /\ IF mstack = <<>>
       THEN out' = Failed /\ mstack' = mstack
       ELSE out' = Done /\ mstack' = SubSeq(mstack, 1, Len(mstack) - 1)
    /\ UNCHANGED <<app, using, own>>

\* What was added to the closed module is kept in the one around it.
EndModuleKept ==
    /\ Ready
    /\ IF Len(mstack) <= 1
       THEN out' = Failed /\ mstack' = mstack
       ELSE /\ out' = Done
            /\ mstack' = LET i == Len(mstack) - 1
                         IN  [SubSeq(mstack, 1, i) EXCEPT ![i] =
                                IF Cur.name = Blank THEN @ ELSE Register(@, Cur)]
    /\ UNCHANGED <<app, using, own>>

EndModule ==
    /\ Ready
    /\ IF Len(mstack) <= 1
       THEN out' = Failed /\ mstack' = mstack
       ELSE out' = Done /\ mstack' = SubSeq(mstack, 1, Len(mstack) - 1)
    /\ UNCHANGED <<app, using, own>>

\* ": k literal ;"
DefineLiteral(k, v) ==
    /\ Ready
    /\ SetCur(add_word(Cur, k, v))
    /\ Owned({k})
    /\ out' = Done
    /\ using' = using

\* ": k other ;" keeps what other means now, even if it is a variable
DefineAs(k, other) ==
    /\ Ready
    /\ IF find_word(other) = Failed
       THEN out' = Failed /\ UNCHANGED <<app, mstack, own>>
       ELSE /\ SetCur(add_word(Cur, k, find_word(other)))
            /\ Owned({k})
            /\ out' = Done
    /\ using' = using

\* declares the names before the first reserved one
word_variables(ns) ==
    LET declared == {ns[i] : i \in {i \in DOMAIN ns : \A h \in 1 .. i : ns[h] \notin Reserved}}
        unset == [k \in declared |-> Null]
    IN  /\ Ready
        /\ SetCur([Cur EXCEPT !.vars = Over(@, unset)])
        /\ Owned(declared)
        /\ out' = IF \E i \in DOMAIN ns : ns[i] \in Reserved THEN Failed ELSE Done
        /\ using' = using

\* "!" gives nothing back, "!@" the value
Store(v, k, result) ==
    /\ Ready
    /\ IF k \in Reserved
       THEN out' = Failed /\ UNCHANGED <<app, mstack, own>>
       ELSE /\ SetCur([Cur EXCEPT !.vars = Over(One(k, v), @)])
            /\ Owned({k})
            /\ out' = result
    /\ using' = using

word_store(v, k) == Store(v, k, Done)
word_store_fetch(v, k) == Store(v, k, v)

word_fetch(k) ==
    /\ Ready
    /\ out' = IF k \in Reserved THEN Failed ELSE find_variable_value(k)
    /\ UNCHANGED <<app, mstack, using, own>>

RunWord(k) ==
    /\ Ready
    /\ out' = find_word(k)
    /\ UNCHANGED <<app, mstack, using, own>>

word_use_modules(entries) ==
    /\ Ready
    /\ using' = entries
    /\ out' = Done
    /\ UNCHANGED <<app, mstack, own>>

\* Imports into the app module, not into its live copy.
use_moduleInApp ==
    LET e == Head(using)
        m == app.modules[e.name]
    IN  /\ using # <<>>
        /\ IF e.name \in DOMAIN app.modules
           THEN /\ app' = Import(app, e.prefix, m)
                /\ own' = own \ DOMAIN Exports(m, e.prefix)
                /\ using' = Tail(using)
                /\ out' = Done
                /\ mstack' = mstack
           ELSE /\ using' = <<>>
                /\ out' = Failed
                /\ UNCHANGED <<app, mstack, own>>

\* one entry: a failure leaves the entries before it imported
use_module ==
    LET e == Head(using)
        m == app.modules[e.name]
    IN  /\ using # <<>>
        /\ IF e.name \in DOMAIN app.modules
           THEN /\ app' = Import(app, e.prefix, m)
                /\ mstack' = [mstack EXCEPT ![1] = Import(@, e.prefix, m)]
                /\ own' = own \ DOMAIN Exports(m, e.prefix)
                /\ using' = Tail(using)
                /\ out' = Done
           ELSE /\ using' = <<>>
                /\ out' = Failed
                /\ UNCHANGED <<app, mstack, own>>

----------------------------------------------------------------------------
Host ==
    \/ \E m \in Library : register_module(m) \/ run_module_code(m)
    \/ \E m \in Library, p \in ModuleNames \cup {Blank} : import_module(m, p)
    \/ reset

Code ==
    \/ \E n \in ModuleNames \cup {Blank} : StartModule(n)
    \/ EndModule
    \/ \E k \in Names : RunWord(k) \/ word_fetch(k)
    \/ \E k \in CodeNames, v \in Values : DefineLiteral(k, v)
    \/ \E k \in CodeNames \cup Reserved, v \in Values : word_store(v, k) \/ word_store_fetch(v, k)
    \/ \E k \in CodeNames, other \in Names : DefineAs(k, other)
    \/ \E ns \in NameLists : word_variables(ns)
    \/ \E es \in UseLists : word_use_modules(es)
    \/ use_module

Next == Host \/ Code

Spec == Init /\ [][Next]_vars

----------------------------------------------------------------------------
(***************************************************************************)
(* Properties.                                                             *)
(***************************************************************************)

\* The values the variables take.
TypeOK ==
    /\ IsModule(app)
    /\ DOMAIN mstack = 1 .. Len(mstack) /\ Len(mstack) >= 1
    /\ \A i \in DOMAIN mstack : IsModule(mstack[i])
    /\ using \in Seq([name : ModuleNames \cup {Malformed}, prefix : ModuleNames \cup {Blank}])
    /\ out \in Data \cup {Done, Failed}
    /\ own \subseteq Names

\* A registered module is never added to, wherever it is registered and
\* whatever code does between "{m" and "}": code works on a copy, and the copy
\* is dropped (StartModuleWord and EndModuleWord, interpreter.rs:51-75, 101-104).
ModulesStayAsGiven ==
    HoldsPristine(app) /\ \A i \in DOMAIN mstack : HoldsPristine(mstack[i])

\* A module that the host registered is the one that "{m" opens at the outermost
\* level and the one that USE-MODULES imports, now and after a reset: the two
\* copies of the app module agree on it (register_module, interpreter.rs:911-920).
RegisteredAgree ==
    \A n \in DOMAIN app.modules :
        n \in DOMAIN Bottom.modules /\ Bottom.modules[n] = app.modules[n]

\* A reset forgets what code bound at the outermost level and nothing else: any
\* other name means the same in the app module and in its live copy, so imports
\* are runnable at once and survive (reset, interpreter.rs:495-504).
ResetKeepsImports ==
    \A k \in Names \ own :
        /\ k \in DOMAIN Meanings(app) <=> k \in DOMAIN Meanings(Bottom)
        /\ k \in DOMAIN Meanings(app) => Meanings(app)[k] = Meanings(Bottom)[k]

\* Names mean what nested scopes say they mean, although modules are copied:
\* NameScopes, with the module stack as its scopes.
ScopeOf(m) == [words |-> m.words, vars |-> m.vars]

Scopes == INSTANCE NameScopes WITH
    base <- ScopeOf(app),
    scopes <- [i \in DOMAIN mstack |-> ScopeOf(mstack[i])],
    Openings <- {ScopeOf(m) : m \in Pristine}

ImplementsScopes == Scopes!Spec
=============================================================================
