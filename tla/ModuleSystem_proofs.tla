------------------------ MODULE ModuleSystem_proofs ------------------------
(***************************************************************************)
(* Proofs about modules, for every library, every code and every depth of  *)
(* the module stack.                                                       *)
(***************************************************************************)
EXTENDS ModuleSystem, SequenceTheorems, WellFoundedInduction, TLAPS

-----------------------------------------------------------------------------
(***************************************************************************)
(* Partial functions.                                                      *)
(***************************************************************************)

\* Membership, without the union of function spaces.
LEMMA PartialFnsDef ==
    ASSUME NEW S, NEW T, NEW f
    PROVE  f \in PartialFns(S, T) <=> f \in [DOMAIN f -> T] /\ DOMAIN f \subseteq S
<1>1. ASSUME f \in PartialFns(S, T)
      PROVE  f \in [DOMAIN f -> T] /\ DOMAIN f \subseteq S
  <2>1. PICK D \in SUBSET S : f \in [D -> T]
    BY <1>1 DEF PartialFns
  <2> QED
    BY <2>1
<1>2. ASSUME f \in [DOMAIN f -> T], DOMAIN f \subseteq S
      PROVE  f \in PartialFns(S, T)
  <2>1. DOMAIN f \in SUBSET S
    BY <1>2
  <2>2. [DOMAIN f -> T] \in {[D -> T] : D \in SUBSET S}
    BY <2>1
  <2> QED
    BY <1>2, <2>2 DEF PartialFns
<1> QED
  BY <1>1, <1>2

\* The function without bindings is a partial function to any set.
LEMMA NothingType ==
    ASSUME NEW S, NEW T
    PROVE  Nothing \in PartialFns(S, T)
<1>1. Nothing \in [DOMAIN Nothing -> T] /\ DOMAIN Nothing \subseteq S
  BY DEF Nothing
<1> QED
  BY <1>1, PartialFnsDef

\* A single binding.
LEMMA OneType ==
    ASSUME NEW S, NEW T, NEW k \in S, NEW v \in T
    PROVE  One(k, v) \in PartialFns(S, T)
<1>1. One(k, v) \in [DOMAIN One(k, v) -> T] /\ DOMAIN One(k, v) \subseteq S
  BY DEF One
<1> QED
  BY <1>1, PartialFnsDef

\* Overriding keeps the type.
LEMMA OverType ==
    ASSUME NEW S, NEW T, NEW f \in PartialFns(S, T), NEW g \in PartialFns(S, T)
    PROVE  Over(f, g) \in PartialFns(S, T)
<1>1. /\ f \in [DOMAIN f -> T] /\ DOMAIN f \subseteq S
      /\ g \in [DOMAIN g -> T] /\ DOMAIN g \subseteq S
  BY PartialFnsDef
<1>2. Over(f, g) \in [DOMAIN Over(f, g) -> T] /\ DOMAIN Over(f, g) \subseteq S
  BY <1>1 DEF Over
<1> QED
  BY <1>2, PartialFnsDef

\* A non-empty set of positions has a last one.
LEMMA Largest ==
    ASSUME NEW n \in Nat, NEW T, T \subseteq 1 .. n, T # {}
    PROVE  \E i \in T : \A j \in T : j <= i
<1> DEFINE R == OpToRel(<, Nat)
           B == {k \in Nat : \E i \in T : i + k = n}
<1>1. B # {}
  <2>1. PICK i \in T : TRUE
    OBVIOUS
  <2>2. n - i \in Nat /\ i + (n - i) = n
    BY i \in 1 .. n
  <2> QED
    BY <2>2
<1>2. B \subseteq Nat
  OBVIOUS
<1>3. PICK b \in B : \A c \in B : ~ <<c, b>> \in R
  <2>1. IsWellFoundedOn(R, Nat)
    BY NatLessThanWellFounded
  <2> HIDE DEF R, B
  <2> QED
    BY <1>1, <1>2, <2>1, WFMin
<1>4. \A c \in B : ~ (c < b)
  BY <1>3 DEF OpToRel
<1>5. PICK i \in T : i + b = n
  OBVIOUS
<1>6. ASSUME NEW j \in T PROVE j <= i
  <2>1. j \in 1 .. n /\ i \in 1 .. n /\ b \in Nat
    OBVIOUS
  <2>2. n - j \in Nat /\ j + (n - j) = n
    BY <2>1
  <2>3. n - j \in B
    BY <2>2
  <2>4. ~ (n - j < b)
    BY <1>4, <2>3
  <2> HIDE DEF B, R
  <2> QED
    BY <1>5, <2>1, <2>4
<1> QED
  BY <1>6

\* A lookup through scopes gives a value that one of them holds, or fails.
LEMMA InnermostType ==
    ASSUME NEW n \in Nat, NEW T, NEW fs, DOMAIN fs = 1 .. n,
           \A i \in 1 .. n : fs[i] \in [DOMAIN fs[i] -> T],
           NEW k
    PROVE  Innermost(fs, k) \in T \cup {Failed}
<1> DEFINE having == {i \in DOMAIN fs : k \in DOMAIN fs[i]}
           last == CHOOSE i \in having : \A j \in having : j <= i
<1>1. CASE having = {}
  BY <1>1 DEF Innermost
<1>2. CASE having # {}
  <2>1. \E i \in having : \A j \in having : j <= i
    BY <1>2, Largest
  <2>2. last \in having
    BY <2>1
  <2>3. fs[last][k] \in T
    BY <2>2
  <2>4. Innermost(fs, k) = fs[last][k]
    BY <1>2 DEF Innermost
  <2> QED
    BY <2>3, <2>4
<1> QED
  BY <1>1, <1>2

-----------------------------------------------------------------------------
(***************************************************************************)
(* Modules.                                                                *)
(***************************************************************************)
Entries == Seq([name : ModuleNames \cup {Malformed}, prefix : ModuleNames \cup {Blank}])

Mods == [name : ModuleNames \cup {Blank},
         words : PartialFns(Names, Data),
         exportable : SUBSET Names,
         vars : PartialFns(Names, Data),
         modules : PartialFns(ModuleNames, Pristine)]

\* The modules of the type invariant and of ModulesStayAsGiven.
LEMMA ModsDef ==
    ASSUME NEW m
    PROVE  m \in Mods <=> IsModule(m) /\ HoldsPristine(m)
<1>1. HoldsPristine(m) => DOMAIN m.modules \subseteq ModuleNames
  BY PartialFnsDef DEF HoldsPristine
<1>2. m \in Mods => IsModule(m) /\ HoldsPristine(m)
  BY <1>1 DEF Mods, IsModule, HoldsPristine
<1>3. IsModule(m) /\ HoldsPristine(m) => m \in Mods
  <2> SUFFICES ASSUME IsModule(m), HoldsPristine(m) PROVE m \in Mods
    OBVIOUS
  <2>1. [name |-> m.name, words |-> m.words, exportable |-> m.exportable,
         vars |-> m.vars, modules |-> m.modules] \in Mods
    BY DEF IsModule, HoldsPristine, Mods
  <2> QED
    BY <2>1 DEF IsModule
<1> QED
  BY <1>2, <1>3

\* A new module is a module.
LEMMA FreshType ==
    ASSUME NEW n \in ModuleNames \cup {Blank}
    PROVE  Fresh(n) \in Mods
BY NothingType DEF Fresh, Mods

\* So is each pristine one.
LEMMA PristineType == Pristine \subseteq Mods
<1>1. Library \subseteq Mods
  BY ModulesAssumption, ModsDef
<1> QED
  BY <1>1, FreshType DEF Pristine

\* What a module exports under a prefix is a dictionary.
LEMMA ExportsType ==
    ASSUME NEW m \in Mods, NEW p \in ModuleNames \cup {Blank}
    PROVE  Exports(m, p) \in PartialFns(Names, Data)
<1> DEFINE E == {n \in PlainNames : Plain(n) \in m.exportable \cap DOMAIN m.words}
           K == {<<p, n>> : n \in E}
<1>1. Exports(m, p) = [k \in K |-> m.words[Plain(k[2])]]
  BY DEF Exports
<1>2. K \subseteq Names
  BY DEF Names
<1>3. ASSUME NEW k \in K PROVE m.words[Plain(k[2])] \in Data
  <2>1. PICK n \in E : k = <<p, n>>
    OBVIOUS
  <2>2. k[2] = n
    BY <2>1
  <2>3. m.words \in [DOMAIN m.words -> Data]
    BY PartialFnsDef DEF Mods
  <2> QED
    BY <2>2, <2>3
<1>4. Exports(m, p) \in [K -> Data]
  BY <1>1, <1>3
<1>5. Exports(m, p) \in [DOMAIN Exports(m, p) -> Data] /\ DOMAIN Exports(m, p) \subseteq Names
  <2> HIDE DEF K
  <2> QED
    BY <1>2, <1>4
<1> QED
  BY <1>5, PartialFnsDef

\* Registering changes only the registered modules.
LEMMA RegisterFacts ==
    ASSUME NEW t \in Mods, NEW m \in Pristine, m.name \in ModuleNames
    PROVE  /\ Register(t, m) \in Mods
           /\ Register(t, m).words = t.words
           /\ Register(t, m).vars = t.vars
           /\ Register(t, m).modules = Over(One(m.name, m), t.modules)
<1>1. Over(One(m.name, m), t.modules) \in PartialFns(ModuleNames, Pristine)
  BY OneType, OverType DEF Mods
<1> QED
  BY <1>1 DEF Register, Mods

\* Importing changes the dictionary and the registered modules.
LEMMA ImportFacts ==
    ASSUME NEW t \in Mods, NEW m \in Pristine, m.name \in ModuleNames,
           NEW p \in ModuleNames \cup {Blank}
    PROVE  /\ Import(t, p, m) \in Mods
           /\ Import(t, p, m).words = Over(Exports(m, p), t.words)
           /\ Import(t, p, m).vars = t.vars
           /\ Import(t, p, m).modules = Over(One(m.name, m), t.modules)
<1> DEFINE u == [t EXCEPT !.words = Over(Exports(m, p), @)]
<1>1. Over(Exports(m, p), t.words) \in PartialFns(Names, Data)
  BY PristineType, ExportsType, OverType DEF Mods
<1>2. /\ u \in Mods /\ u.words = Over(Exports(m, p), t.words)
      /\ u.vars = t.vars /\ u.modules = t.modules
  BY <1>1 DEF Mods
<1>3. Import(t, p, m) = Register(u, m)
  BY DEF Import
<1> HIDE DEF u
<1> QED
  BY <1>2, <1>3, RegisterFacts

\* A registered module is pristine and has a module's name.
LEMMA RegisteredFacts ==
    ASSUME NEW t \in Mods, NEW n \in DOMAIN t.modules
    PROVE  t.modules[n] \in Pristine /\ t.modules[n].name \in ModuleNames
<1>1. t.modules \in [DOMAIN t.modules -> Pristine]
  BY PartialFnsDef DEF Mods
<1>2. \A m \in Pristine : m.name \in ModuleNames
  BY ModulesAssumption DEF Pristine, Fresh
<1> QED
  BY <1>1, <1>2

\* Names mean data.
LEMMA MeaningsType ==
    ASSUME NEW m \in Mods
    PROVE  Meanings(m) \in PartialFns(Names, Data)
BY OverType DEF Meanings, Mods

-----------------------------------------------------------------------------
(***************************************************************************)
(* The inductive invariant: the types, with modules that hold pristine     *)
(* modules only, and the agreement of the two copies of the app module.    *)
(***************************************************************************)
Types ==
    /\ app \in Mods
    /\ mstack \in Seq(Mods) /\ mstack # <<>>
    /\ using \in Entries
    /\ out \in Data \cup {Done, Failed}
    /\ own \subseteq Names

IInv == Types /\ RegisteredAgree /\ ResetKeepsImports

\* The invariant implies the type invariant and ModulesStayAsGiven.
LEMMA IInvImplies == IInv => TypeOK /\ ModulesStayAsGiven
<1> SUFFICES ASSUME IInv PROVE TypeOK /\ ModulesStayAsGiven
  OBVIOUS
<1>1. /\ DOMAIN mstack = 1 .. Len(mstack) /\ Len(mstack) \in Nat
      /\ \A i \in DOMAIN mstack : mstack[i] \in Mods
  BY DEF IInv, Types
<1>2. Len(mstack) >= 1
  BY EmptySeq DEF IInv, Types
<1> QED
  BY <1>1, <1>2, ModsDef DEF IInv, Types, TypeOK, ModulesStayAsGiven, Entries

\* The invariant holds initially.
LEMMA InitIInv == Init => IInv
<1> SUFFICES ASSUME Init PROVE IInv
  OBVIOUS
<1>1. Fresh(Blank) \in Mods
  BY FreshType
<1>2. mstack \in Seq(Mods) /\ mstack # <<>> /\ Bottom = app
  BY <1>1 DEF Init, Bottom
<1>3. Types
  BY <1>1, <1>2 DEF Init, Types, Entries
<1> QED
  BY <1>2, <1>3 DEF IInv, RegisteredAgree, ResetKeepsImports

\* The module stack has a bottom and a top.
LEMMA StackFacts ==
    ASSUME Types
    PROVE  /\ Len(mstack) \in Nat \ {0} /\ DOMAIN mstack = 1 .. Len(mstack)
           /\ Bottom \in Mods /\ Cur \in Mods
           /\ \A i \in 1 .. Len(mstack) : mstack[i] \in Mods
<1>1. Len(mstack) \in Nat \ {0} /\ DOMAIN mstack = 1 .. Len(mstack)
  BY EmptySeq DEF Types
<1>2. \A i \in 1 .. Len(mstack) : mstack[i] \in Mods
  BY DEF Types
<1> QED
  BY <1>1, <1>2 DEF Bottom, Cur

\* Replacing one module of the stack.
LEMMA ReplaceFacts ==
    ASSUME Types, NEW i \in 1 .. Len(mstack), NEW m \in Mods
    PROVE  LET s == [mstack EXCEPT ![i] = m]
           IN  /\ s \in Seq(Mods) /\ s # <<>> /\ Len(s) = Len(mstack)
               /\ s[i] = m
               /\ \A j \in 1 .. Len(mstack) : j # i => s[j] = mstack[j]
<1>1. mstack \in Seq(Mods) /\ Len(mstack) \in Nat \ {0}
  BY StackFacts DEF Types
<1> QED
  BY <1>1

\* Appending a module to a stack, or dropping the last of several.
LEMMA PushPop ==
    ASSUME NEW s \in Seq(Mods), s # <<>>, NEW m \in Mods
    PROVE  /\ Append(s, m) \in Seq(Mods) /\ Append(s, m) # <<>> /\ Append(s, m)[1] = s[1]
           /\ Len(s) > 1 => LET r == SubSeq(s, 1, Len(s) - 1)
                            IN  r \in Seq(Mods) /\ r # <<>> /\ r[1] = s[1]
<1>1. Len(s) \in Nat \ {0}
  BY EmptySeq
<1>2. Append(s, m) \in Seq(Mods) /\ Append(s, m) # <<>> /\ Append(s, m)[1] = s[1]
  BY <1>1
<1>3. ASSUME Len(s) > 1
      PROVE  LET r == SubSeq(s, 1, Len(s) - 1)
             IN  r \in Seq(Mods) /\ r # <<>> /\ r[1] = s[1]
  <2>1. Len(s) - 1 \in 0 .. Len(s) /\ Len(s) - 1 >= 1
    BY <1>1, <1>3
  <2>2. /\ SubSeq(s, 1, Len(s) - 1) \in Seq(Mods)
        /\ Len(SubSeq(s, 1, Len(s) - 1)) = Len(s) - 1
        /\ SubSeq(s, 1, Len(s) - 1)[1] = s[1]
    BY <1>1, <2>1
  <2> DEFINE r == SubSeq(s, 1, Len(s) - 1)
  <2>3. Len(r) >= 1
    BY <2>1, <2>2
  <2>4. r # <<>>
    <3> HIDE DEF r
    <3> QED
      BY <2>3
  <2> QED
    BY <2>2, <2>4
<1> QED
  BY <1>2, <1>3

\* Steps that leave the app module and the bottom of the stack alone.
LEMMA SameBottom ==
    ASSUME IInv, app' = app, own' = own, Bottom' = Bottom
    PROVE  RegisteredAgree' /\ ResetKeepsImports'
BY DEF IInv, RegisteredAgree, ResetKeepsImports, Meanings, Over

\* Steps that register m in both copies, import it in both, or do neither.
LEMMA BothCopies ==
    ASSUME IInv, NEW m \in Pristine, m.name \in ModuleNames,
           NEW p \in ModuleNames \cup {Blank},
           \/ app' = Register(app, m) /\ Bottom' = Register(Bottom, m) /\ own' = own
           \/ /\ app' = Import(app, p, m) /\ Bottom' = Import(Bottom, p, m)
              /\ own' = own \ DOMAIN Exports(m, p)
    PROVE  RegisteredAgree' /\ ResetKeepsImports'
<1> DEFINE ex == IF own' = own /\ app' = Register(app, m) /\ Bottom' = Register(Bottom, m)
                 THEN Nothing ELSE Exports(m, p)
<1>1. app \in Mods /\ Bottom \in Mods
  BY StackFacts DEF IInv, Types
<1>2. /\ app'.modules = Over(One(m.name, m), app.modules)
      /\ Bottom'.modules = Over(One(m.name, m), Bottom.modules)
      /\ app'.vars = app.vars /\ Bottom'.vars = Bottom.vars
  <2>1. CASE app' = Register(app, m) /\ Bottom' = Register(Bottom, m)
    <3>1. /\ Register(app, m).modules = Over(One(m.name, m), app.modules)
          /\ Register(app, m).vars = app.vars
      BY <1>1, RegisterFacts
    <3>2. /\ Register(Bottom, m).modules = Over(One(m.name, m), Bottom.modules)
          /\ Register(Bottom, m).vars = Bottom.vars
      BY <1>1, RegisterFacts
    <3> QED
      BY <2>1, <3>1, <3>2
  <2>2. CASE app' = Import(app, p, m) /\ Bottom' = Import(Bottom, p, m)
    <3>1. /\ Import(app, p, m).modules = Over(One(m.name, m), app.modules)
          /\ Import(app, p, m).vars = app.vars
      BY <1>1, ImportFacts
    <3>2. /\ Import(Bottom, p, m).modules = Over(One(m.name, m), Bottom.modules)
          /\ Import(Bottom, p, m).vars = Bottom.vars
      BY <1>1, ImportFacts
    <3> QED
      BY <2>2, <3>1, <3>2
  <2> QED
    BY <2>1, <2>2
<1>3. RegisteredAgree'
  BY <1>2 DEF IInv, RegisteredAgree, Over, One
<1>4. CASE app' = Register(app, m) /\ Bottom' = Register(Bottom, m) /\ own' = own
  <2>1. app'.words = app.words /\ Bottom'.words = Bottom.words
    BY <1>1, <1>4, RegisterFacts
  <2>2. ResetKeepsImports'
    BY <1>2, <1>4, <2>1 DEF IInv, ResetKeepsImports, Meanings
  <2> QED
    BY <1>3, <2>2
<1>5. CASE /\ app' = Import(app, p, m) /\ Bottom' = Import(Bottom, p, m)
           /\ own' = own \ DOMAIN Exports(m, p)
  <2>1. /\ app'.words = Over(Exports(m, p), app.words)
        /\ Bottom'.words = Over(Exports(m, p), Bottom.words)
    BY <1>1, <1>5, ImportFacts
  <2>2. ASSUME NEW k \in Names \ own'
        PROVE  /\ k \in DOMAIN Meanings(app)' <=> k \in DOMAIN Meanings(Bottom)'
               /\ k \in DOMAIN Meanings(app)' => Meanings(app)'[k] = Meanings(Bottom)'[k]
    <3>1. CASE k \in DOMAIN Exports(m, p)
      BY <1>2, <2>1, <3>1 DEF Meanings, Over
    <3>2. CASE k \notin DOMAIN Exports(m, p)
      <4>1. k \in Names \ own
        BY <1>5, <3>2
      <4>2. /\ k \in DOMAIN Meanings(app) <=> k \in DOMAIN Meanings(Bottom)
            /\ k \in DOMAIN Meanings(app) => Meanings(app)[k] = Meanings(Bottom)[k]
        BY <4>1 DEF IInv, ResetKeepsImports
      <4> QED
        BY <1>2, <2>1, <3>2, <4>2 DEF Meanings, Over
    <3> QED
      BY <3>1, <3>2
  <2> QED
    BY <1>3, <2>2 DEF ResetKeepsImports
<1> QED
  BY <1>4, <1>5

\* Steps that bind the names of D in the current module.
LEMMA Binding ==
    ASSUME IInv, NEW m \in Mods, NEW D \in SUBSET Names, SetCur(m), Owned(D),
           m.modules = Cur.modules,
           \A k \in Names \ D :
               /\ k \in DOMAIN Meanings(m) <=> k \in DOMAIN Meanings(Cur)
               /\ k \in DOMAIN Meanings(m) => Meanings(m)[k] = Meanings(Cur)[k]
    PROVE  /\ app' \in Mods /\ mstack' \in Seq(Mods) /\ mstack' # <<>>
           /\ own' \subseteq Names
           /\ RegisteredAgree' /\ ResetKeepsImports'
<1>1. Types /\ Len(mstack) \in 1 .. Len(mstack) /\ Len(mstack) \in Nat \ {0}
  BY StackFacts DEF IInv
<1>2. /\ mstack' \in Seq(Mods) /\ mstack' # <<>> /\ mstack'[Len(mstack)] = m
      /\ \A j \in 1 .. Len(mstack) : j # Len(mstack) => mstack'[j] = mstack[j]
  BY <1>1, ReplaceFacts DEF SetCur
<1>3. app' = app /\ app' \in Mods /\ own' \subseteq Names
  BY <1>1 DEF SetCur, Types, Owned
<1>4. CASE Len(mstack) = 1
  <2>1. Bottom' = m /\ Cur = Bottom /\ own' = own \cup D
    BY <1>2, <1>4 DEF Bottom, Cur, Owned
  <2>2. RegisteredAgree'
    BY <1>3, <2>1 DEF IInv, RegisteredAgree
  <2>3. ASSUME NEW k \in Names \ own'
        PROVE  /\ k \in DOMAIN Meanings(app)' <=> k \in DOMAIN Meanings(Bottom)'
               /\ k \in DOMAIN Meanings(app)' => Meanings(app)'[k] = Meanings(Bottom)'[k]
    <3>1. /\ k \in DOMAIN Meanings(app) <=> k \in DOMAIN Meanings(Bottom)
          /\ k \in DOMAIN Meanings(app) => Meanings(app)[k] = Meanings(Bottom)[k]
      BY <2>1 DEF IInv, ResetKeepsImports
    <3>2. Meanings(app)' = Meanings(app) /\ Meanings(Bottom)' = Meanings(m)
      BY <1>3, <2>1 DEF Meanings
    <3> QED
      BY <2>1, <3>1, <3>2
  <2> QED
    BY <1>2, <1>3, <2>2, <2>3 DEF ResetKeepsImports
<1>5. CASE Len(mstack) # 1
  <2>1. Bottom' = Bottom
    <3>1. 1 \in 1 .. Len(mstack) /\ 1 # Len(mstack)
      BY <1>1, <1>5
    <3> QED
      BY <1>2, <3>1 DEF Bottom
  <2>2. own' = own
    BY <1>5 DEF Owned
  <2> QED
    BY <1>2, <1>3, <2>1, <2>2, SameBottom
<1> QED
  BY <1>4, <1>5

\* A module with words, with variables, or with variables it did not have.
Define(t, f) == [t EXCEPT !.words = Over(f, @)]
Assign(t, f) == [t EXCEPT !.vars = Over(f, @)]
Declare(t, f) == [t EXCEPT !.vars = Over(@, f)]

\* Each of the three changes the meanings of the names in f only.
LEMMA BindFacts ==
    ASSUME NEW t \in Mods, NEW f \in PartialFns(Names, Data),
           NEW u \in {Define(t, f), Assign(t, f), Declare(t, f)}
    PROVE  /\ u \in Mods /\ u.modules = t.modules
           /\ \A k \in Names \ DOMAIN f :
                /\ k \in DOMAIN Meanings(u) <=> k \in DOMAIN Meanings(t)
                /\ k \in DOMAIN Meanings(u) => Meanings(u)[k] = Meanings(t)[k]
<1>1. /\ Over(f, t.words) \in PartialFns(Names, Data)
      /\ Over(f, t.vars) \in PartialFns(Names, Data)
      /\ Over(t.vars, f) \in PartialFns(Names, Data)
  BY OverType DEF Mods
<1>2. CASE u = Define(t, f)
  <2>1. u \in Mods /\ u.modules = t.modules /\ u.words = Over(f, t.words) /\ u.vars = t.vars
    BY <1>1, <1>2 DEF Mods, Define
  <2> QED
    BY <2>1 DEF Meanings, Over
<1>3. CASE u = Assign(t, f)
  <2>1. u \in Mods /\ u.modules = t.modules /\ u.words = t.words /\ u.vars = Over(f, t.vars)
    BY <1>1, <1>3 DEF Mods, Assign
  <2> QED
    BY <2>1 DEF Meanings, Over
<1>4. CASE u = Declare(t, f)
  <2>1. u \in Mods /\ u.modules = t.modules /\ u.words = t.words /\ u.vars = Over(t.vars, f)
    BY <1>1, <1>4 DEF Mods, Declare
  <2> QED
    BY <2>1 DEF Meanings, Over
<1> QED
  BY <1>2, <1>3, <1>4

\* What names give.
LEMMA LookupType ==
    ASSUME Types, NEW k
    PROVE  find_word(k) \in Data \cup {Failed} /\ find_variable_value(k) \in Data \cup {Failed}
<1> DEFINE ws == [i \in DOMAIN mstack |-> Meanings(mstack[i])]
           vs == [i \in DOMAIN mstack |-> mstack[i].vars]
<1>1. Len(mstack) \in Nat /\ DOMAIN mstack = 1 .. Len(mstack)
  BY StackFacts
<1>2. ASSUME NEW i \in 1 .. Len(mstack)
      PROVE  ws[i] \in [DOMAIN ws[i] -> Data] /\ vs[i] \in [DOMAIN vs[i] -> Data]
  <2>1. mstack[i] \in Mods
    BY StackFacts
  <2>2. Meanings(mstack[i]) \in PartialFns(Names, Data) /\ mstack[i].vars \in PartialFns(Names, Data)
    BY <2>1, MeaningsType DEF Mods
  <2>3. ws[i] = Meanings(mstack[i]) /\ vs[i] = mstack[i].vars
    BY <1>1
  <2> QED
    BY <2>2, <2>3, PartialFnsDef
<1>3. DOMAIN ws = 1 .. Len(mstack) /\ DOMAIN vs = 1 .. Len(mstack)
  BY <1>1
<1>4. Innermost(ws, k) \in Data \cup {Failed} /\ Innermost(vs, k) \in Data \cup {Failed}
  <2> HIDE DEF ws, vs
  <2> QED
    BY <1>1, <1>2, <1>3, InnermostType
<1> QED
  BY <1>4 DEF find_word, find_variable_value

-----------------------------------------------------------------------------
(***************************************************************************)
(* Every operation preserves the invariant.                                *)
(***************************************************************************)
\* The operations of the host preserve the invariant.
LEMMA HostPreserves ==
    ASSUME IInv, Host
    PROVE  IInv'
<1>1. Types
  BY DEF IInv
<1>2. /\ Len(mstack) \in Nat \ {0} /\ 1 \in 1 .. Len(mstack)
      /\ app \in Mods /\ Bottom \in Mods /\ mstack \in Seq(Mods) /\ mstack # <<>>
  BY <1>1, StackFacts DEF Types
<1>3. ASSUME NEW m \in Library PROVE m \in Pristine /\ m \in Mods /\ m.name \in ModuleNames
  BY ModulesAssumption, PristineType DEF Pristine
<1>4. ASSUME NEW m \in Library, register_module(m) PROVE IInv'
  <2>1. app' = Register(app, m) /\ mstack' = [mstack EXCEPT ![1] = Register(Bottom, m)]
    BY <1>4 DEF register_module, Bottom
  <2>2. app' \in Mods /\ Register(Bottom, m) \in Mods
    BY <1>2, <1>3, <2>1, RegisterFacts
  <2>3. mstack' \in Seq(Mods) /\ mstack' # <<>> /\ Bottom' = Register(Bottom, m)
    BY <1>1, <1>2, <2>1, <2>2, ReplaceFacts DEF Bottom
  <2>4. Types'
    BY <1>1, <1>4, <2>2, <2>3 DEF Types, register_module
  <2>5. RegisteredAgree' /\ ResetKeepsImports'
    BY <1>3, <1>4, <2>1, <2>3, BothCopies DEF register_module
  <2> QED
    BY <2>4, <2>5 DEF IInv
<1>5. ASSUME NEW m \in Library, NEW p \in ModuleNames \cup {Blank}, import_module(m, p) PROVE IInv'
  <2>1. app' = Import(app, p, m) /\ mstack' = [mstack EXCEPT ![1] = Import(Bottom, p, m)]
    BY <1>5 DEF import_module, Bottom
  <2>2. app' \in Mods /\ Import(Bottom, p, m) \in Mods
    BY <1>2, <1>3, <2>1, ImportFacts
  <2>3. mstack' \in Seq(Mods) /\ mstack' # <<>> /\ Bottom' = Import(Bottom, p, m)
    BY <1>1, <1>2, <2>1, <2>2, ReplaceFacts DEF Bottom
  <2>4. Types'
    BY <1>1, <1>5, <2>2, <2>3 DEF Types, import_module
  <2>5. RegisteredAgree' /\ ResetKeepsImports'
    BY <1>3, <1>5, <2>1, <2>3, BothCopies DEF import_module
  <2> QED
    BY <2>4, <2>5 DEF IInv
<1>6. ASSUME NEW m \in Library, run_module_code(m) PROVE IInv'
  <2>1. mstack' \in Seq(Mods) /\ mstack' # <<>> /\ Bottom' = Bottom
    BY <1>2, <1>3, <1>6, PushPop DEF run_module_code, Bottom
  <2>2. Types'
    BY <1>1, <1>6, <2>1 DEF Types, run_module_code
  <2> QED
    BY <1>6, <2>1, <2>2, SameBottom DEF IInv, run_module_code
<1>7. ASSUME reset PROVE IInv'
  <2>1. app' = app /\ mstack' = <<app>> /\ Bottom' = app' /\ own' = {}
    BY <1>7 DEF reset, Bottom
  <2>2. Types'
    BY <1>1, <1>2, <1>7, <2>1 DEF Types, reset
  <2> QED
    BY <2>1, <2>2 DEF IInv, RegisteredAgree, ResetKeepsImports
<1> QED
  BY <1>4, <1>5, <1>6, <1>7 DEF Host

\* Opening and closing a module preserve it.
LEMMA ScopePreserves ==
    ASSUME IInv, NEW n \in ModuleNames \cup {Blank}, StartModule(n) \/ EndModule
    PROVE  IInv'
<1>1. Types
  BY DEF IInv
<1>2. /\ Len(mstack) \in Nat \ {0} /\ Len(mstack) \in 1 .. Len(mstack)
      /\ app \in Mods /\ Bottom \in Mods /\ Cur \in Mods /\ mstack \in Seq(Mods) /\ mstack # <<>>
  BY <1>1, StackFacts DEF Types
<1>3. CASE EndModule
  <2>1. mstack' \in Seq(Mods) /\ mstack' # <<>> /\ Bottom' = Bottom
    BY <1>2, <1>3, PushPop DEF EndModule, Bottom
  <2>2. Types'
    BY <1>1, <1>3, <2>1 DEF Types, EndModule
  <2> QED
    BY <1>3, <2>1, <2>2, SameBottom DEF IInv, EndModule
<1>4. CASE StartModule(n) /\ n = Blank
  <2>1. mstack' = Append(mstack, app)
    BY <1>4 DEF StartModule
  <2>2. mstack' \in Seq(Mods) /\ mstack' # <<>> /\ Bottom' = Bottom
    BY <1>2, <2>1, PushPop DEF Bottom
  <2>3. Types'
    BY <1>1, <1>4, <2>2 DEF Types, StartModule
  <2> QED
    BY <1>4, <2>2, <2>3, SameBottom DEF IInv, StartModule
<1>5. CASE StartModule(n) /\ n # Blank /\ n \in DOMAIN Cur.modules
  <2>1. mstack' = Append(mstack, Cur.modules[n])
    BY <1>5 DEF StartModule
  <2>2. Cur.modules[n] \in Mods
    BY <1>2, <1>5, RegisteredFacts, PristineType
  <2>3. mstack' \in Seq(Mods) /\ mstack' # <<>> /\ Bottom' = Bottom
    BY <1>2, <2>1, <2>2, PushPop DEF Bottom
  <2>4. Types'
    BY <1>1, <1>5, <2>3 DEF Types, StartModule
  <2> QED
    BY <1>5, <2>3, <2>4, SameBottom DEF IInv, StartModule
<1>6. CASE StartModule(n) /\ n # Blank /\ n \notin DOMAIN Cur.modules
  <2> DEFINE s == [mstack EXCEPT ![Len(mstack)] = Register(Cur, Fresh(n))]
  <2>1. n \in ModuleNames /\ Fresh(n) \in Mods /\ Fresh(n) \in Pristine /\ Fresh(n).name = n
    BY <1>6, FreshType DEF Pristine, Fresh
  <2>2. mstack' = Append(s, Fresh(n))
    BY <1>6 DEF StartModule, Cur
  <2>3. /\ Register(Cur, Fresh(n)) \in Mods
        /\ Register(Cur, Fresh(n)).words = Cur.words /\ Register(Cur, Fresh(n)).vars = Cur.vars
        /\ Register(Cur, Fresh(n)).modules = Over(One(n, Fresh(n)), Cur.modules)
    BY <1>2, <2>1, RegisterFacts
  <2>4. /\ s \in Seq(Mods) /\ s # <<>>
        /\ s[1] = IF Len(mstack) = 1 THEN Register(Cur, Fresh(n)) ELSE Bottom
    BY <1>1, <1>2, <2>3, ReplaceFacts DEF Bottom
  <2>5. mstack' \in Seq(Mods) /\ mstack' # <<>> /\ Bottom' = s[1]
    <3> HIDE DEF s
    <3> QED
      BY <2>1, <2>2, <2>4, PushPop DEF Bottom
  <2>6. Types'
    BY <1>1, <1>6, <2>5 DEF Types, StartModule
  <2>7. app' = app /\ own' = own
    BY <1>6 DEF StartModule
  <2>8. CASE Len(mstack) = 1
    <3>1. Cur = Bottom /\ Bottom' = Register(Cur, Fresh(n))
      BY <2>4, <2>5, <2>8 DEF Cur, Bottom
    <3>2. n \notin DOMAIN app.modules
      BY <1>6, <3>1 DEF IInv, RegisteredAgree
    <3>3. RegisteredAgree'
      BY <2>3, <2>7, <3>1, <3>2 DEF IInv, RegisteredAgree, Over, One
    <3>4. Meanings(Bottom)' = Meanings(Bottom) /\ Meanings(app)' = Meanings(app)
      BY <2>3, <2>7, <3>1 DEF Meanings
    <3>5. ResetKeepsImports'
      BY <2>7, <3>4 DEF IInv, ResetKeepsImports
    <3> QED
      BY <2>6, <3>3, <3>5 DEF IInv
  <2>9. CASE Len(mstack) # 1
    BY <2>4, <2>5, <2>6, <2>7, <2>9, SameBottom DEF IInv
  <2> QED
    BY <2>8, <2>9
<1> QED
  BY <1>3, <1>4, <1>5, <1>6

\* One definition, declaration or assignment, by the function it overrides with.
LEMMA BindPreserves ==
    ASSUME IInv, NEW f \in PartialFns(Names, Data), Owned(DOMAIN f), using' = using,
           NEW m \in {Define(Cur, f), Assign(Cur, f), Declare(Cur, f)}, SetCur(m),
           out' \in Data \cup {Done, Failed}
    PROVE  IInv'
<1>1. Types /\ Cur \in Mods
  BY StackFacts DEF IInv
<1>2. DOMAIN f \in SUBSET Names
  BY PartialFnsDef
<1>3. /\ m \in Mods /\ m.modules = Cur.modules
      /\ \A k \in Names \ DOMAIN f :
            /\ k \in DOMAIN Meanings(m) <=> k \in DOMAIN Meanings(Cur)
            /\ k \in DOMAIN Meanings(m) => Meanings(m)[k] = Meanings(Cur)[k]
  BY <1>1, BindFacts
<1>4. /\ app' \in Mods /\ mstack' \in Seq(Mods) /\ mstack' # <<>>
      /\ own' \subseteq Names
      /\ RegisteredAgree' /\ ResetKeepsImports'
  BY <1>2, <1>3, Binding
<1> QED
  BY <1>1, <1>4 DEF IInv, Types

\* Definitions preserve it.
LEMMA DefinePreserves ==
    ASSUME IInv, NEW k \in Names,
           \/ \E v \in Values : DefineLiteral(k, v)
           \/ \E other \in Names : DefineAs(k, other)
    PROVE  IInv'
<1>1. ASSUME NEW v \in Data, SetCur(add_word(Cur, k, v)), Owned({k}), out' = Done, using' = using
      PROVE  IInv'
  <2>1. One(k, v) \in PartialFns(Names, Data) /\ DOMAIN One(k, v) = {k}
    BY OneType DEF One
  <2>2. SetCur(Define(Cur, One(k, v)))
    BY <1>1 DEF add_word, Define
  <2> QED
    BY <1>1, <2>1, <2>2, BindPreserves
<1>2. ASSUME NEW v \in Values, DefineLiteral(k, v) PROVE IInv'
  BY <1>1, <1>2 DEF DefineLiteral, Data
<1>3. ASSUME NEW other \in Names, DefineAs(k, other) PROVE IInv'
  <2>1. CASE find_word(other) = Failed
    <3>1. UNCHANGED <<app, mstack, using, own>> /\ out' = Failed
      BY <1>3, <2>1 DEF DefineAs
    <3> QED
      BY <3>1, SameBottom DEF IInv, Types, Bottom
  <2>2. CASE find_word(other) # Failed
    <3>1. find_word(other) \in Data
      BY <2>2, LookupType DEF IInv
    <3> QED
      BY <1>1, <1>3, <2>2, <3>1 DEF DefineAs
  <2> QED
    BY <2>1, <2>2
<1> QED
  BY <1>2, <1>3

\* Declarations and assignments preserve it.
LEMMA VariablePreserves ==
    ASSUME IInv,
           \/ \E ns \in NameLists : word_variables(ns)
           \/ \E k \in Names, v \in Values : word_store(v, k) \/ word_store_fetch(v, k)
    PROVE  IInv'
<1>1. ASSUME NEW ns \in NameLists, word_variables(ns) PROVE IInv'
  <2> DEFINE declared == {ns[i] : i \in {i \in DOMAIN ns : \A h \in 1 .. i : ns[h] \notin Reserved}}
             unset == [k \in declared |-> Null]
  <2>1. declared \subseteq Names
    BY ModulesAssumption
  <2>2. unset \in PartialFns(Names, Data)
    <3>1. unset \in [DOMAIN unset -> Data] /\ DOMAIN unset \subseteq Names
      BY <2>1 DEF Data
    <3> HIDE DEF unset
    <3> QED
      BY <3>1, PartialFnsDef
  <2>3. /\ SetCur(Declare(Cur, unset)) /\ Owned(DOMAIN unset)
        /\ using' = using /\ out' \in Data \cup {Done, Failed}
    BY <1>1 DEF word_variables, Declare
  <2> HIDE DEF unset
  <2> QED
    BY <2>2, <2>3, BindPreserves
<1>2. ASSUME NEW k \in Names, NEW v \in Values, NEW r \in Data \cup {Done}, Store(v, k, r)
      PROVE  IInv'
  <2>1. CASE k \in Reserved
    <3>1. UNCHANGED <<app, mstack, using, own>> /\ out' = Failed
      BY <1>2, <2>1 DEF Store
    <3> QED
      BY <3>1, SameBottom DEF IInv, Types, Bottom
  <2>2. CASE k \notin Reserved
    <3>1. One(k, v) \in PartialFns(Names, Data) /\ DOMAIN One(k, v) = {k}
      BY OneType DEF One, Data
    <3>2. /\ SetCur(Assign(Cur, One(k, v))) /\ Owned({k})
          /\ using' = using /\ out' = r
      BY <1>2, <2>2 DEF Store, Assign
    <3> QED
      BY <3>1, <3>2, BindPreserves
  <2> QED
    BY <2>1, <2>2
<1> QED
  BY <1>1, <1>2 DEF word_store, word_store_fetch, Data

\* Running a word and reading a variable preserve it.
LEMMA LookPreserves ==
    ASSUME IInv, NEW k \in Names, RunWord(k) \/ word_fetch(k)
    PROVE  IInv'
<1>1. out' \in Data \cup {Done, Failed}
  BY LookupType DEF IInv, RunWord, word_fetch
<1>2. UNCHANGED <<app, mstack, using, own>>
  BY DEF RunWord, word_fetch
<1> QED
  BY <1>1, <1>2, SameBottom DEF IInv, Types, Bottom

\* USE-MODULES preserves it, entry by entry.
LEMMA UsePreserves ==
    ASSUME IInv, use_module \/ \E es \in UseLists : word_use_modules(es)
    PROVE  IInv'
<1>1. Types
  BY DEF IInv
<1>2. /\ Len(mstack) \in Nat \ {0} /\ 1 \in 1 .. Len(mstack)
      /\ app \in Mods /\ Bottom \in Mods
  BY <1>1, StackFacts DEF Types
<1>3. ASSUME NEW es \in UseLists, word_use_modules(es) PROVE IInv'
  <2>1. using' \in Entries
    BY <1>3, ModulesAssumption DEF word_use_modules, Entries
  <2>2. UNCHANGED <<app, mstack, own>> /\ out' = Done
    BY <1>3 DEF word_use_modules
  <2> QED
    BY <2>1, <2>2, SameBottom DEF IInv, Types, Bottom
<1>4. ASSUME use_module PROVE IInv'
  <2> DEFINE e == Head(using)
             m == app.modules[e.name]
  <2>1. /\ using # <<>> /\ e.prefix \in ModuleNames \cup {Blank} /\ Tail(using) \in Entries
    <3>1. using # <<>>
      BY <1>4 DEF use_module
    <3>2. using \in Entries
      BY <1>1 DEF Types
    <3>3. e \in [name : ModuleNames \cup {Malformed}, prefix : ModuleNames \cup {Blank}]
      BY <3>1, <3>2, HeadTailProperties DEF Entries
    <3>4. Tail(using) \in Entries
      BY <3>1, <3>2 DEF Entries
    <3> QED
      BY <3>1, <3>3, <3>4
  <2>2. CASE e.name \notin DOMAIN app.modules
    <3>1. UNCHANGED <<app, mstack, own>> /\ using' = <<>> /\ out' = Failed
      BY <1>4, <2>2 DEF use_module
    <3>2. <<>> \in Entries
      BY DEF Entries
    <3> QED
      BY <3>1, <3>2, SameBottom DEF IInv, Types, Bottom
  <2>3. CASE e.name \in DOMAIN app.modules
    <3>1. m \in Pristine /\ m.name \in ModuleNames
      BY <1>2, <2>3, RegisteredFacts
    <3>2. /\ app' = Import(app, e.prefix, m)
          /\ mstack' = [mstack EXCEPT ![1] = Import(Bottom, e.prefix, m)]
          /\ own' = own \ DOMAIN Exports(m, e.prefix)
          /\ using' = Tail(using) /\ out' = Done
      BY <1>4, <2>3 DEF use_module, Bottom
    <3> HIDE DEF e, m
    <3>3. app' \in Mods /\ Import(Bottom, e.prefix, m) \in Mods
      BY <1>2, <2>1, <3>1, <3>2, ImportFacts
    <3>4. mstack' \in Seq(Mods) /\ mstack' # <<>> /\ Bottom' = Import(Bottom, e.prefix, m)
      BY <1>1, <1>2, <3>2, <3>3, ReplaceFacts DEF Bottom
    <3>5. Types'
      BY <1>1, <2>1, <3>2, <3>3, <3>4 DEF Types
    <3>6. RegisteredAgree' /\ ResetKeepsImports'
      BY <2>1, <3>1, <3>2, <3>4, BothCopies
    <3> QED
      BY <3>5, <3>6 DEF IInv
  <2> QED
    BY <2>2, <2>3
<1> QED
  BY <1>3, <1>4

\* Every step preserves it.
LEMMA StepIInv == IInv /\ [Next]_vars => IInv'
<1> SUFFICES ASSUME IInv, [Next]_vars PROVE IInv'
  OBVIOUS
<1>1. CASE Host
  BY <1>1, HostPreserves
<1>2. CASE Code
  <2>1. CodeNames \subseteq Names /\ Reserved \subseteq Names
    BY ModulesAssumption
  <2> QED
    BY <1>2, <2>1, ScopePreserves, DefinePreserves, VariablePreserves, LookPreserves, UsePreserves
    DEF Code
<1>3. CASE UNCHANGED vars
  BY <1>3, SameBottom DEF IInv, Types, vars, Bottom
<1> QED
  BY <1>1, <1>2, <1>3 DEF Next

-----------------------------------------------------------------------------
(***************************************************************************)
(* The theorems.                                                           *)
(***************************************************************************)
\* The invariant holds in every state of the program.
THEOREM ModulesInvariance == Spec => []IInv
BY InitIInv, StepIInv, PTL DEF Spec

\* The variables keep their types.
THEOREM ModulesTypes == Spec => []TypeOK
BY ModulesInvariance, IInvImplies, PTL

\* No code adds to a registered module: a "{m ... }" works on a copy that is
\* dropped, so that opening m again finds it as the host gave it, or empty.
THEOREM RegisteredStay == Spec => []ModulesStayAsGiven
BY ModulesInvariance, IInvImplies, PTL

\* register_module, import_module and use_module keep the registered modules of the
\* app module and of its live copy the same.
THEOREM CopiesAgree == Spec => []RegisteredAgree
<1>1. IInv => RegisteredAgree
  BY DEF IInv
<1> QED
  BY <1>1, ModulesInvariance, PTL

\* What is imported runs at once and survives a reset.
THEOREM ImportsSurvive == Spec => []ResetKeepsImports
<1>1. IInv => ResetKeepsImports
  BY DEF IInv
<1> QED
  BY <1>1, ModulesInvariance, PTL

-----------------------------------------------------------------------------
(***************************************************************************)
(* The refinement.                                                         *)
(***************************************************************************)
scopes == [i \in DOMAIN mstack |-> ScopeOf(mstack[i])]

\* Overriding and searching are the same operators in both specifications.
LEMMA SameOperators ==
    /\ \A f, g : Scopes!Over(f, g) = Over(f, g)
    /\ \A fs, k : Scopes!Innermost(fs, k) = Innermost(fs, k)
BY DEF Over, Scopes!Over, Innermost, Scopes!Innermost

\* Initially there is one empty scope.
LEMMA InitRefines == Init => Scopes!Init
<1> SUFFICES ASSUME Init PROVE Scopes!Init
  OBVIOUS
<1>1. ScopeOf(Fresh(Blank)) = Scopes!Empty
  <2>1. Nothing = [k \in {} |-> Done]
    BY DEF Nothing
  <2> QED
    BY <2>1 DEF ScopeOf, Fresh, Scopes!Empty
<1>2. scopes = <<ScopeOf(Fresh(Blank))>>
  BY DEF Init, scopes
<1> QED
  BY <1>1, <1>2 DEF Init, Scopes!Init, scopes

\* The scopes after a module of the stack is replaced, pushed or popped.
LEMMA ScopesReplaced ==
    ASSUME Types, NEW i \in 1 .. Len(mstack), NEW m, mstack' = [mstack EXCEPT ![i] = m]
    PROVE  /\ Len(scopes) = Len(mstack) /\ Len(scopes') = Len(mstack)
           /\ scopes' = [scopes EXCEPT ![i] = ScopeOf(m)]
           /\ \A j \in 1 .. Len(mstack) : scopes[j] = ScopeOf(mstack[j])
<1>1. Len(mstack) \in Nat \ {0} /\ DOMAIN mstack = 1 .. Len(mstack)
  BY StackFacts
<1>2. scopes = [j \in 1 .. Len(mstack) |-> ScopeOf(mstack[j])] /\ Len(scopes) = Len(mstack)
  BY <1>1 DEF scopes
<1>3. scopes' = [j \in 1 .. Len(mstack) |-> ScopeOf(mstack'[j])] /\ Len(scopes') = Len(mstack)
  BY <1>1 DEF scopes
<1>4. \A j \in 1 .. Len(mstack) : ScopeOf(mstack'[j]) = IF j = i THEN ScopeOf(m) ELSE scopes[j]
  BY <1>1, <1>2
<1>5. scopes' = [scopes EXCEPT ![i] = ScopeOf(m)]
  BY <1>2, <1>3, <1>4
<1> QED
  BY <1>2, <1>3, <1>5

\* The scopes after a module is pushed.
LEMMA ScopesPushed ==
    ASSUME NEW s, NEW m, s \in Seq(Mods), m \in Mods
    PROVE  [i \in DOMAIN Append(s, m) |-> ScopeOf(Append(s, m)[i])]
             = Append([i \in DOMAIN s |-> ScopeOf(s[i])], ScopeOf(m))
<1> DEFINE f == [i \in DOMAIN s |-> ScopeOf(s[i])]
<1>1. Len(s) \in Nat /\ DOMAIN s = 1 .. Len(s) /\ DOMAIN Append(s, m) = 1 .. Len(s) + 1
  OBVIOUS
<1> DEFINE S == {ScopeOf(u) : u \in Mods}
           g == Append(f, ScopeOf(m))
<1>2. f \in Seq(S) /\ Len(f) = Len(s) /\ ScopeOf(m) \in S
  BY <1>1
<1>3. /\ \A i \in 1 .. Len(s) : Append(s, m)[i] = s[i]
      /\ Append(s, m)[Len(s) + 1] = m
  BY <1>1
<1>4. /\ g \in Seq(S) /\ Len(g) = Len(s) + 1
      /\ \A i \in 1 .. Len(s) : g[i] = f[i]
      /\ g[Len(s) + 1] = ScopeOf(m)
  <2> HIDE DEF f, S
  <2> QED
    BY <1>2, AppendProperties
<1>5. g = [i \in 1 .. Len(s) + 1 |-> g[i]]
  <2> HIDE DEF g, S
  <2> QED
    BY <1>4
<1>6. \A i \in 1 .. Len(s) + 1 : g[i] = ScopeOf(Append(s, m)[i])
  <2> HIDE DEF g
  <2> QED
    BY <1>1, <1>3, <1>4
<1>7. [i \in DOMAIN Append(s, m) |-> ScopeOf(Append(s, m)[i])] = g
  <2> HIDE DEF g
  <2> QED
    BY <1>1, <1>5, <1>6
<1> QED
  BY <1>7

\* The scopes after the last module is popped.
LEMMA ScopesPopped ==
    ASSUME Types, Len(mstack) > 1, mstack' = SubSeq(mstack, 1, Len(mstack) - 1)
    PROVE  Len(scopes) > 1 /\ scopes' = SubSeq(scopes, 1, Len(scopes) - 1)
<1>1. Len(mstack) \in Nat \ {0} /\ DOMAIN mstack = 1 .. Len(mstack) /\ mstack \in Seq(Mods)
  BY StackFacts DEF Types
<1>2. Len(scopes) = Len(mstack) /\ scopes \in Seq({ScopeOf(u) : u \in Mods})
  BY <1>1 DEF scopes
<1>3. /\ DOMAIN mstack' = 1 .. Len(mstack) - 1
      /\ \A i \in 1 .. Len(mstack) - 1 : mstack'[i] = mstack[i]
  BY <1>1
<1>4. scopes' = [i \in 1 .. Len(mstack) - 1 |-> ScopeOf(mstack[i])]
  BY <1>3 DEF scopes
<1>5. SubSeq(scopes, 1, Len(scopes) - 1) = [i \in 1 .. Len(mstack) - 1 |-> scopes[i]]
  BY <1>1, <1>2
<1>6. \A i \in 1 .. Len(mstack) - 1 : scopes[i] = ScopeOf(mstack[i])
  BY <1>1 DEF scopes
<1> QED
  BY <1>1, <1>2, <1>4, <1>5, <1>6

\* Steps that leave every scope but the innermost alone.
LEMMA BindRefines ==
    ASSUME Types, app' = app,
           NEW m, mstack' = [mstack EXCEPT ![Len(mstack)] = m],
           out' \in {Done, Failed} \cup {m.vars[k] : k \in DOMAIN m.vars}
    PROVE  Scopes!Bind
<1>1. Len(mstack) \in Nat \ {0} /\ Len(mstack) \in 1 .. Len(mstack)
  BY StackFacts
<1>2. /\ Len(scopes) = Len(mstack) /\ Len(scopes') = Len(mstack)
      /\ scopes' = [scopes EXCEPT ![Len(mstack)] = ScopeOf(m)]
  BY <1>1, ScopesReplaced
<1>3. DOMAIN scopes = 1 .. Len(mstack)
  BY StackFacts DEF scopes
<1>4. /\ Len(scopes') = Len(scopes)
      /\ \A i \in 1 .. Len(scopes) - 1 : scopes'[i] = scopes[i]
      /\ scopes'[Len(scopes)] = ScopeOf(m)
  <2>1. \A i \in 1 .. Len(mstack) - 1 : i \in 1 .. Len(mstack) /\ i # Len(mstack)
    BY <1>1
  <2>2. \A i \in 1 .. Len(mstack) : i # Len(mstack) => scopes'[i] = scopes[i]
    BY <1>2, <1>3
  <2>3. scopes'[Len(mstack)] = ScopeOf(m)
    BY <1>1, <1>2, <1>3
  <2> HIDE DEF scopes
  <2> QED
    BY <1>2, <2>1, <2>2, <2>3
<1>5. ScopeOf(m).vars = m.vars
  BY DEF ScopeOf
<1>6. ScopeOf(app)' = ScopeOf(app)
  BY DEF ScopeOf
<1> QED
  BY <1>4, <1>5, <1>6 DEF Scopes!Bind, scopes

\* The same for steps that change no module at all.
LEMMA IdleRefines ==
    ASSUME Types, app' = app, mstack' = mstack, out' \in {Done, Failed}
    PROVE  Scopes!Bind
<1>1. mstack' = [mstack EXCEPT ![Len(mstack)] = Cur]
  BY StackFacts DEF Types, Cur
<1> QED
  BY <1>1, BindRefines

\* An import binds the same words in the base and in the outermost scope.
LEMMA ImportRefines ==
    ASSUME Types, NEW m \in Pristine, m.name \in ModuleNames,
           NEW p \in ModuleNames \cup {Blank},
           app' = Import(app, p, m), mstack' = [mstack EXCEPT ![1] = Import(@, p, m)],
           out' = Done
    PROVE  Scopes!Change
<1>1. /\ Len(mstack) \in Nat \ {0} /\ 1 \in 1 .. Len(mstack) /\ DOMAIN mstack = 1 .. Len(mstack)
      /\ app \in Mods /\ Bottom \in Mods
  BY StackFacts DEF Types
<1> DEFINE ex == Exports(m, p)
           D == DOMAIN ex
<1>2. /\ app'.words = Over(ex, app.words) /\ app'.vars = app.vars
      /\ Import(Bottom, p, m).words = Over(ex, Bottom.words)
      /\ Import(Bottom, p, m).vars = Bottom.vars
  BY <1>1, ImportFacts
<1>3. scopes' = [scopes EXCEPT ![1] = ScopeOf(Import(Bottom, p, m))] /\ scopes[1] = ScopeOf(Bottom)
  BY <1>1, ScopesReplaced DEF Bottom
<1>4. ex = [k \in D |-> ScopeOf(app').words[k]] /\ D \subseteq DOMAIN ScopeOf(app').words
  <2>1. ScopeOf(app').words = Over(ex, app.words)
    BY <1>2 DEF ScopeOf
  <2>2. ex = [k \in D |-> ex[k]]
    BY DEF Exports
  <2> HIDE DEF ex
  <2> QED
    BY <2>1, <2>2 DEF Over
<1>5. ScopeOf(app') = [ScopeOf(app) EXCEPT !.words = Over(ex, @)]
  BY <1>2 DEF ScopeOf
<1>6. scopes' = [scopes EXCEPT ![1].words = Over(ex, @)]
  <2>1. ScopeOf(Import(Bottom, p, m)) = [ScopeOf(Bottom) EXCEPT !.words = Over(ex, @)]
    BY <1>2 DEF ScopeOf
  <2> QED
    BY <1>3, <2>1
<1>7. Scopes!Import
  <2> HIDE DEF ex
  <2>1. Over(ex, ScopeOf(app).words) = Scopes!Over(ex, ScopeOf(app).words)
        /\ Over(ex, scopes[1].words) = Scopes!Over(ex, scopes[1].words)
    BY SameOperators
  <2>2. D \in SUBSET DOMAIN ScopeOf(app').words
    BY <1>4
  <2>3. /\ ScopeOf(app') = [ScopeOf(app) EXCEPT !.words = Scopes!Over(ex, @)]
        /\ scopes' = [scopes EXCEPT ![1].words = Scopes!Over(ex, @)]
    BY <1>5, <1>6, <2>1
  <2> HIDE DEF D
  <2>4. \E E \in SUBSET DOMAIN ScopeOf(app').words :
          LET imported == [k \in E |-> ScopeOf(app').words[k]]
          IN  /\ ScopeOf(app') = [ScopeOf(app) EXCEPT !.words = Scopes!Over(imported, @)]
              /\ scopes' = [scopes EXCEPT ![1].words = Scopes!Over(imported, @)]
    BY <1>4, <2>2, <2>3
  <2> QED
    BY <2>4 DEF Scopes!Import, scopes
<1> QED
  BY <1>7 DEF Scopes!Change

\* A module is opened with the content of a pristine one or of the app module.
LEMMA OpenRefines ==
    ASSUME Types, NEW m \in Pristine \cup {app}, app' = app,
           NEW s \in Seq(Mods), mstack' = Append(s, m),
           [i \in DOMAIN s |-> ScopeOf(s[i])] = scopes, out' = Done
    PROVE  Scopes!Change
<1>1. m \in Mods
  BY PristineType DEF Types
<1>2. scopes' = Append(scopes, ScopeOf(m))
  BY <1>1, ScopesPushed DEF scopes
<1>3. ScopeOf(app') = ScopeOf(app)
  BY DEF ScopeOf
<1>4. ScopeOf(m) \in {ScopeOf(u) : u \in Pristine} \cup {ScopeOf(app)}
  OBVIOUS
<1>5. Scopes!Open
  BY <1>2, <1>3, <1>4 DEF Scopes!Open, scopes
<1> QED
  BY <1>5 DEF Scopes!Change

\* A lookup through modules is a lookup through their scopes.
LEMMA LookRefines ==
    ASSUME Types, NEW k \in Names, RunWord(k) \/ word_fetch(k)
    PROVE  Scopes!Next
<1>1. DOMAIN scopes = DOMAIN mstack
  BY DEF scopes
<1>2. \A i \in DOMAIN mstack :
        /\ Scopes!Meanings(scopes[i]) = Meanings(mstack[i])
        /\ scopes[i].vars = mstack[i].vars
  BY SameOperators DEF scopes, ScopeOf, Scopes!Meanings, Meanings
<1>3. /\ [i \in DOMAIN scopes |-> Scopes!Meanings(scopes[i])]
           = [i \in DOMAIN mstack |-> Meanings(mstack[i])]
      /\ [i \in DOMAIN scopes |-> scopes[i].vars] = [i \in DOMAIN mstack |-> mstack[i].vars]
  BY <1>1, <1>2
<1>4. Scopes!Meaning(k) = find_word(k) /\ Scopes!Value(k) = find_variable_value(k)
  BY <1>3, SameOperators
  DEF Scopes!Meaning, Scopes!Value, find_word, find_variable_value, scopes
<1>5. app' = app /\ mstack' = mstack
  BY DEF RunWord, word_fetch
<1>6. CASE out' = Failed
  BY <1>5, <1>6, IdleRefines DEF Scopes!Next
<1>7. CASE out' # Failed
  <2>1. out' \in {Scopes!Meaning(k), Scopes!Value(k)}
    BY <1>4, <1>7 DEF RunWord, word_fetch
  <2>2. scopes' = scopes /\ ScopeOf(app') = ScopeOf(app)
    BY <1>5 DEF scopes
  <2>3. Scopes!Look
    BY <2>1, <2>2 DEF Scopes!Look, scopes
  <2> QED
    BY <2>3 DEF Scopes!Next
<1> QED
  BY <1>6, <1>7

\* The operations of the host are steps of NameScopes.
LEMMA HostRefines ==
    ASSUME IInv, Host
    PROVE  Scopes!Next
<1>1. /\ Types /\ Len(mstack) \in Nat \ {0} /\ 1 \in 1 .. Len(mstack) /\ DOMAIN mstack = 1 .. Len(mstack)
      /\ app \in Mods /\ Bottom \in Mods /\ mstack \in Seq(Mods)
  BY StackFacts DEF IInv, Types
<1>2. \A m \in Library : m \in Pristine /\ m.name \in ModuleNames
  BY ModulesAssumption DEF Pristine
<1>3. ASSUME NEW m \in Library, register_module(m) PROVE Scopes!Next
  <2>1. app' = Register(app, m) /\ mstack' = [mstack EXCEPT ![1] = Register(Bottom, m)] /\ out' = Done
    BY <1>3 DEF register_module, Bottom
  <2>2. ScopeOf(app') = ScopeOf(app) /\ ScopeOf(Register(Bottom, m)) = ScopeOf(Bottom)
    BY <1>1, <1>2, <2>1, RegisterFacts DEF ScopeOf
  <2>3. /\ scopes' = [scopes EXCEPT ![1] = ScopeOf(Bottom)] /\ scopes[1] = ScopeOf(Bottom)
        /\ Len(scopes') = Len(scopes)
    <3> DEFINE r == Register(Bottom, m)
    <3>1. Types /\ 1 \in 1 .. Len(mstack) /\ mstack' = [mstack EXCEPT ![1] = r]
      BY <1>1, <2>1
    <3>2. ScopeOf(r) = ScopeOf(Bottom)
      BY <2>2
    <3> HIDE DEF r
    <3>3. /\ Len(scopes) = Len(mstack) /\ Len(scopes') = Len(mstack)
          /\ scopes' = [scopes EXCEPT ![1] = ScopeOf(r)]
          /\ \A j \in 1 .. Len(mstack) : scopes[j] = ScopeOf(mstack[j])
      BY <3>1, ScopesReplaced
    <3>4. scopes[1] = ScopeOf(Bottom)
      BY <3>1, <3>3 DEF Bottom
    <3> QED
      BY <3>2, <3>3, <3>4
  <2>4. scopes' = scopes
    BY <2>3 DEF scopes
  <2>5. Scopes!Bind
    BY <2>1, <2>2, <2>4 DEF Scopes!Bind, scopes
  <2> QED
    BY <2>5 DEF Scopes!Next
<1>4. ASSUME NEW m \in Library, NEW p \in ModuleNames \cup {Blank}, import_module(m, p)
      PROVE  Scopes!Next
  BY <1>1, <1>2, <1>4, ImportRefines DEF import_module, Scopes!Next
<1>5. ASSUME NEW m \in Library, run_module_code(m) PROVE Scopes!Next
  BY <1>1, <1>2, <1>5, OpenRefines DEF run_module_code, Scopes!Next, scopes
<1>6. ASSUME reset PROVE Scopes!Next
  <2>1. app' = app /\ mstack' = <<app>> /\ out' = Done
    BY <1>6 DEF reset
  <2>2. scopes' = <<ScopeOf(app)>> /\ ScopeOf(app') = ScopeOf(app)
    BY <2>1 DEF scopes
  <2>3. Scopes!Reset
    BY <2>2 DEF Scopes!Reset, scopes
  <2> QED
    BY <2>1, <2>3 DEF Scopes!Change, Scopes!Next
<1> QED
  BY <1>3, <1>4, <1>5, <1>6 DEF Host

\* Opening and closing a module are.
LEMMA ScopeRefines ==
    ASSUME IInv, NEW n \in ModuleNames \cup {Blank}, StartModule(n) \/ EndModule
    PROVE  Scopes!Next
<1>1. /\ Types /\ Len(mstack) \in Nat \ {0} /\ Len(mstack) \in 1 .. Len(mstack)
      /\ DOMAIN mstack = 1 .. Len(mstack)
      /\ app \in Mods /\ Cur \in Mods /\ mstack \in Seq(Mods)
  BY StackFacts DEF IInv, Types
<1>2. CASE EndModule /\ Len(mstack) <= 1
  BY <1>1, <1>2, IdleRefines DEF EndModule, Scopes!Next
<1>3. CASE EndModule /\ Len(mstack) > 1
  <2>1. app' = app /\ mstack' = SubSeq(mstack, 1, Len(mstack) - 1) /\ out' = Done
    BY <1>1, <1>3 DEF EndModule
  <2>2. Len(scopes) > 1 /\ scopes' = SubSeq(scopes, 1, Len(scopes) - 1)
    BY <1>1, <1>3, <2>1, ScopesPopped
  <2>3. ScopeOf(app') = ScopeOf(app)
    BY <2>1
  <2>4. Scopes!Close
    BY <2>2, <2>3 DEF Scopes!Close, scopes
  <2> QED
    BY <2>1, <2>4 DEF Scopes!Change, Scopes!Next
<1>4. CASE StartModule(n) /\ (n = Blank \/ n \in DOMAIN Cur.modules)
  <2>1. PICK m \in Pristine \cup {app} : mstack' = Append(mstack, m)
    BY <1>1, <1>4, RegisteredFacts DEF StartModule
  <2> QED
    BY <1>1, <1>4, <2>1, OpenRefines DEF StartModule, Scopes!Next, scopes
<1>5. CASE StartModule(n) /\ n # Blank /\ n \notin DOMAIN Cur.modules
  <2> DEFINE new == Register(Cur, Fresh(n))
             s == [mstack EXCEPT ![Len(mstack)] = new]
  <2>1. n \in ModuleNames /\ Fresh(n) \in Pristine /\ Fresh(n).name = n
    BY <1>5 DEF Pristine, Fresh
  <2>2. new \in Mods /\ ScopeOf(new) = ScopeOf(Cur)
    BY <1>1, <2>1, RegisterFacts DEF ScopeOf
  <2>3. s \in Seq(Mods) /\ DOMAIN s = 1 .. Len(mstack)
    BY <1>1, <2>2
  <2>4. [i \in DOMAIN s |-> ScopeOf(s[i])] = scopes
    <3>1. \A i \in 1 .. Len(mstack) : ScopeOf(s[i]) = ScopeOf(mstack[i])
      BY <1>1, <2>2 DEF Cur
    <3> HIDE DEF s
    <3> QED
      BY <1>1, <2>3, <3>1 DEF scopes
  <2>5. app' = app /\ mstack' = Append(s, Fresh(n)) /\ out' = Done
    BY <1>5 DEF StartModule, Cur
  <2>6. Fresh(n) \in Pristine \cup {app}
    BY <2>1
  <2> HIDE DEF s
  <2> QED
    BY <1>1, <2>3, <2>4, <2>5, <2>6, OpenRefines DEF Scopes!Next
<1> QED
  BY <1>1, <1>2, <1>3, <1>4, <1>5

\* Definitions, declarations and assignments are.
LEMMA BindingRefines ==
    ASSUME IInv,
           \/ \E k \in Names, v \in Values : DefineLiteral(k, v)
           \/ \E k, other \in Names : DefineAs(k, other)
           \/ \E ns \in NameLists : word_variables(ns)
           \/ \E k \in Names, v \in Values : word_store(v, k) \/ word_store_fetch(v, k)
    PROVE  Scopes!Next
<1>1. Types /\ Cur \in Mods
  BY StackFacts DEF IInv
<1>2. ASSUME NEW m, SetCur(m), out' \in {Done, Failed} PROVE Scopes!Next
  BY <1>1, <1>2, BindRefines DEF SetCur, Scopes!Next
<1>3. ASSUME NEW k \in Names, NEW v \in Values, DefineLiteral(k, v) PROVE Scopes!Next
  BY <1>2, <1>3 DEF DefineLiteral
<1>4. ASSUME NEW k \in Names, NEW other \in Names, DefineAs(k, other) PROVE Scopes!Next
  <2>1. CASE find_word(other) = Failed
    BY <1>1, <1>4, <2>1, IdleRefines DEF DefineAs, Scopes!Next
  <2>2. CASE find_word(other) # Failed
    BY <1>2, <1>4, <2>2 DEF DefineAs
  <2> QED
    BY <2>1, <2>2
<1>5. ASSUME NEW ns \in NameLists, word_variables(ns) PROVE Scopes!Next
  BY <1>2, <1>5 DEF word_variables
<1>6. ASSUME NEW k \in Names, NEW v \in Values, NEW r \in {Done, v}, Store(v, k, r)
      PROVE  Scopes!Next
  <2>1. CASE k \in Reserved
    BY <1>1, <1>6, <2>1, IdleRefines DEF Store, Scopes!Next
  <2>2. CASE k \notin Reserved
    <3> DEFINE m == [Cur EXCEPT !.vars = Over(One(k, v), @)]
    <3>1. SetCur(m) /\ out' = r
      BY <1>6, <2>2 DEF Store
    <3>2. m.vars = Over(One(k, v), Cur.vars)
      BY <1>1 DEF Mods
    <3>3. k \in DOMAIN m.vars /\ m.vars[k] = v
      BY <3>2 DEF Over, One
    <3>4. out' \in {Done, Failed} \cup {m.vars[j] : j \in DOMAIN m.vars}
      BY <3>1, <3>3
    <3> HIDE DEF m
    <3> QED
      BY <1>1, <3>1, <3>4, BindRefines DEF SetCur, Scopes!Next
  <2> QED
    BY <2>1, <2>2
<1> QED
  BY <1>3, <1>4, <1>5, <1>6 DEF word_store, word_store_fetch

\* So is each step of USE-MODULES.
LEMMA UseRefines ==
    ASSUME IInv, use_module \/ \E es \in UseLists : word_use_modules(es)
    PROVE  Scopes!Next
<1>1. Types /\ app \in Mods
  BY DEF IInv, Types
<1>2. ASSUME NEW es \in UseLists, word_use_modules(es) PROVE Scopes!Next
  BY <1>1, <1>2, IdleRefines DEF word_use_modules, Scopes!Next
<1>3. ASSUME use_module PROVE Scopes!Next
  <2> DEFINE e == Head(using)
             m == app.modules[e.name]
  <2>1. CASE e.name \notin DOMAIN app.modules
    BY <1>1, <1>3, <2>1, IdleRefines DEF use_module, Scopes!Next
  <2>2. CASE e.name \in DOMAIN app.modules
    <3>1. m \in Pristine /\ m.name \in ModuleNames
      BY <1>1, <2>2, RegisteredFacts
    <3>2. e.prefix \in ModuleNames \cup {Blank}
      <4>1. using \in Entries /\ using # <<>>
        BY <1>1, <1>3 DEF Types, use_module
      <4>2. e \in [name : ModuleNames \cup {Malformed}, prefix : ModuleNames \cup {Blank}]
        BY <4>1, HeadTailProperties DEF Entries
      <4> HIDE DEF e
      <4> QED
        BY <4>2
    <3>3. /\ app' = Import(app, e.prefix, m)
          /\ mstack' = [mstack EXCEPT ![1] = Import(@, e.prefix, m)]
          /\ out' = Done
      BY <1>3, <2>2 DEF use_module
    <3> HIDE DEF e, m
    <3> QED
      BY <1>1, <3>1, <3>2, <3>3, ImportRefines DEF Scopes!Next
  <2> QED
    BY <2>1, <2>2
<1> QED
  BY <1>2, <1>3

\* Every step is a step of NameScopes or a stutter.
LEMMA NextRefines == IInv /\ [Next]_vars => [Scopes!Next]_<<ScopeOf(app), scopes, out>>
<1> SUFFICES ASSUME IInv, [Next]_vars
             PROVE  Scopes!Next \/ UNCHANGED <<ScopeOf(app), scopes, out>>
  OBVIOUS
<1>1. CASE Host
  BY <1>1, HostRefines
<1>2. CASE Code
  <2>1. CodeNames \subseteq Names /\ Reserved \subseteq Names
    BY ModulesAssumption
  <2>2. Types
    BY DEF IInv
  <2> QED
    BY <1>2, <2>1, <2>2, ScopeRefines, BindingRefines, LookRefines, UseRefines DEF Code
<1>3. CASE UNCHANGED vars
  BY <1>3 DEF vars, scopes
<1> QED
  BY <1>1, <1>2, <1>3 DEF Next

\* Copying modules does not show: names mean what the nested scopes of NameScopes
\* say, for every depth of the module stack.
THEOREM ScopesImplemented == Spec => ImplementsScopes
BY InitRefines, NextRefines, ModulesInvariance, PTL
DEF Spec, ImplementsScopes, Scopes!Spec, Scopes!vars, scopes
=============================================================================
