------------------------ MODULE ForthicInterp_proofs ------------------------
(***************************************************************************)
(* Proofs about the interpreter, for every vocabulary and every bound.     *)
(***************************************************************************)
EXTENDS ForthicInterp, SequenceTheorems, TLAPS

-----------------------------------------------------------------------------
\* Popping a non-empty sequence: its type, its length and its elements.
LEMMA RestProperties ==
    ASSUME NEW S, NEW s \in Seq(S), s # <<>>
    PROVE  /\ Rest(s) \in Seq(S)
           /\ Len(s) \in Nat \ {0}
           /\ Len(Rest(s)) = Len(s) - 1
           /\ \A i \in 1..Len(s) - 1 : Rest(s)[i] = s[i]
           /\ Top(s) \in S
<1>1. Len(s) \in Nat \ {0}
  BY EmptySeq
<1>2. Top(s) \in S
  BY <1>1 DEF Top
<1>3. Len(s) - 1 \in 0..Len(s)
  BY <1>1
<1>4. /\ Rest(s) \in Seq(S)
      /\ Len(Rest(s)) = Len(s) - 1
      /\ \A i \in 1..Len(s) - 1 : Rest(s)[i] = s[i]
  BY <1>3, SubSeqProperties DEF Rest
<1> QED
  BY <1>1, <1>2, <1>4

\* Cutting a sequence: a prefix has the same type and the same elements.
LEMMA PrefixProperties ==
    ASSUME NEW S, NEW s \in Seq(S), NEW n \in 0..Len(s)
    PROVE  /\ SubSeq(s, 1, n) \in Seq(S)
           /\ Len(SubSeq(s, 1, n)) = n
           /\ \A i \in 1..n : SubSeq(s, 1, n)[i] = s[i]
OBVIOUS

\* Appending: the type, the length and the elements of the new sequence.
LEMMA AppendFacts ==
    ASSUME NEW S, NEW s \in Seq(S), NEW e \in S
    PROVE  /\ Append(s, e) \in Seq(S)
           /\ Len(Append(s, e)) = Len(s) + 1
           /\ Append(s, e)[Len(s) + 1] = e
           /\ \A i \in 1..Len(s) : Append(s, e)[i] = s[i]
           /\ Append(s, e) # <<>>
OBVIOUS

\* Replacing the top of a call stack.
LEMMA ExceptProperties ==
    ASSUME NEW S, NEW s \in Seq(S), NEW n \in 1..Len(s), NEW e \in S
    PROVE  /\ [s EXCEPT ![n] = e] \in Seq(S)
           /\ Len([s EXCEPT ![n] = e]) = Len(s)
           /\ [s EXCEPT ![n] = e][n] = e
           /\ \A i \in 1..Len(s) : i # n => [s EXCEPT ![n] = e][i] = s[i]
OBVIOUS

\* Appending two frames at once is appending them in turn.
LEMMA ConcatTwo ==
    ASSUME NEW S, NEW s \in Seq(S), NEW e \in S, NEW f \in S
    PROVE  s \o <<e, f>> = Append(Append(s, e), f)
OBVIOUS

-----------------------------------------------------------------------------
(***************************************************************************)
(* The call stack c with the tokenizers t, when n definitions exist.       *)
(***************************************************************************)
\* The host calls run() or run_module_code(), and the latter calls run() first.
HostAtBottom(c) ==
    /\ c # <<>> => c[1].k \in {"run", "module"}
    /\ Len(c) >= 2 /\ c[1].k = "module" => c[2].k = "run"
    /\ \A d \in 2..Len(c) : c[d].k # "module"

FramesRefer(c, n) ==
    \A d \in 1..Len(c) : c[d].k \in {"def", "memo"} => c[d].def \in 1..n

CallStack(c, t, n) ==
    /\ c \in Seq(Frames)
    /\ t \in Seq(Nat)
    /\ OwnTokenizers(c, t)
    /\ HostAtBottom(c)
    /\ FramesRefer(c, n)

\* The call stack from which a word can be executed.
Executing(c) == c # <<>> /\ Top(c).k # "module"

\* The frames a word may enter other than a run.
WordFrames(n) ==
    {f \in Frames : /\ f.k \notin {"run", "module"}
                    /\ f.k \in {"def", "memo"} => f.def \in 1..n}

\* Entering a word with a body keeps the call stack and its tokenizers matched.
LEMMA PushWordFrame ==
    ASSUME NEW c, NEW t, NEW n \in Nat, CallStack(c, t, n), Executing(c),
           NEW f \in WordFrames(n)
    PROVE  /\ CallStack(Append(c, f), t, n)
           /\ Executing(Append(c, f))
           /\ Len(Append(c, f)) = Len(c) + 1
<1> DEFINE b == Append(c, f)
<1>1. c \in Seq(Frames) /\ f \in Frames /\ t \in Seq(Nat)
  BY DEF CallStack, WordFrames
<1>2. /\ b \in Seq(Frames) /\ Len(b) = Len(c) + 1 /\ b[Len(c) + 1] = f
      /\ \A i \in 1..Len(c) : b[i] = c[i]
      /\ b # <<>> /\ Len(c) \in Nat \ {0}
  BY <1>1, AppendFacts, EmptySeq DEF Executing
<1> HIDE DEF b
<1>3. f.k \notin {"run", "module"}
  BY DEF WordFrames
<1>4. OwnTokenizers(b, t)
  <2>1. ASSUME NEW i \in 1..Len(t)
        PROVE  t[i] \in 1..Len(b) /\ b[t[i]].k = "run"
    <3>1. t[i] \in 1..Len(c) /\ c[t[i]].k = "run"
      BY DEF CallStack, OwnTokenizers
    <3> QED
      BY <3>1, <1>2
  <2>2. \A d \in 1..Len(b) : b[d].k = "run" => d \in 1..Len(c) /\ c[d].k = "run"
    BY <1>2, <1>3
  <2> QED
    BY <2>1, <2>2 DEF CallStack, OwnTokenizers
<1>5. HostAtBottom(b)
  <2>1. HostAtBottom(c)
    BY DEF CallStack
  <2>2. b[1].k \in {"run", "module"}
    BY <2>1, <1>2 DEF HostAtBottom, Executing
  <2>3. Len(b) >= 2 /\ b[1].k = "module" => b[2].k = "run"
    <3>1. c[1].k = "module" => Len(c) >= 2
      BY <1>2 DEF Executing, Top
    <3> QED
      BY <3>1, <2>1, <1>2 DEF HostAtBottom
  <2>4. \A d \in 2..Len(b) : b[d].k # "module"
    <3> TAKE d \in 2..Len(b)
    <3>1. CASE d = Len(c) + 1
      BY <3>1, <1>2, <1>3
    <3>2. CASE d \in 2..Len(c)
      BY <3>2, <2>1, <1>2 DEF HostAtBottom
    <3> QED
      BY <3>1, <3>2, <1>2
  <2> QED
    BY <2>2, <2>3, <2>4 DEF HostAtBottom
<1>6. FramesRefer(b, n)
  BY <1>2, <1>3 DEF CallStack, FramesRefer, WordFrames
<1>7. Executing(b)
  BY <1>2, <1>3 DEF Executing, Top
<1> QED
  BY <1>1, <1>2, <1>4, <1>5, <1>6, <1>7 DEF CallStack, b

\* Starting a run adds a frame and the tokenizer that belongs to it.
LEMMA PushRunFrame ==
    ASSUME NEW c, NEW t, NEW n \in Nat, CallStack(c, t, n)
    PROVE  CallStack(Append(c, RunFrame), Append(t, Len(c) + 1), n)
<1> DEFINE b == Append(c, RunFrame)
           u == Append(t, Len(c) + 1)
<1>1. c \in Seq(Frames) /\ RunFrame \in Frames /\ t \in Seq(Nat)
  BY DEF CallStack, RunFrame, Frames, RunFrames
<1>2. /\ b \in Seq(Frames) /\ Len(b) = Len(c) + 1 /\ b[Len(c) + 1] = RunFrame
      /\ \A i \in 1..Len(c) : b[i] = c[i]
      /\ Len(c) \in Nat
  BY <1>1, AppendFacts
<1>3. /\ u \in Seq(Nat) /\ Len(u) = Len(t) + 1 /\ u[Len(t) + 1] = Len(c) + 1
      /\ \A i \in 1..Len(t) : u[i] = t[i]
      /\ Len(t) \in Nat
  BY <1>1, <1>2, AppendFacts
<1> HIDE DEF b, u
<1>4. RunFrame.k = "run"
  BY DEF RunFrame
<1>5. OwnTokenizers(b, u)
  <2>1. \A i \in 1..Len(t) : t[i] \in 1..Len(c) /\ c[t[i]].k = "run"
    BY DEF CallStack, OwnTokenizers
  <2>2. \A i \in 1..Len(u) : u[i] \in 1..Len(b) /\ b[u[i]].k = "run"
    <3> SUFFICES ASSUME NEW i \in 1..Len(u)
                 PROVE  u[i] \in 1..Len(b) /\ b[u[i]].k = "run"
      OBVIOUS
    <3>1. CASE i = Len(t) + 1
      <4>1. u[i] = Len(c) + 1
        BY <3>1, <1>3
      <4>2. b[u[i]].k = "run"
        BY <4>1, <1>2, <1>4
      <4>3. u[i] \in 1..Len(b)
        BY <4>1, <1>2
      <4> QED
        BY <4>2, <4>3
    <3>2. CASE i \in 1..Len(t)
      <4>1. u[i] = t[i] /\ t[i] \in 1..Len(c) /\ c[t[i]].k = "run"
        BY <3>2, <1>3, <2>1
      <4>2. b[t[i]] = c[t[i]]
        BY <4>1, <1>2
      <4>3. t[i] \in 1..Len(b)
        BY <4>1, <1>2
      <4> QED
        BY <4>1, <4>2, <4>3
    <3> QED
      BY <3>1, <3>2, <1>3
  <2>3. \A i, j \in 1..Len(u) : i < j => u[i] < u[j]
    <3> SUFFICES ASSUME NEW i \in 1..Len(u), NEW j \in 1..Len(u), i < j
                 PROVE  u[i] < u[j]
      OBVIOUS
    <3>1. i \in 1..Len(t) /\ u[i] = t[i] /\ t[i] \in 1..Len(c)
      BY <1>3, <2>1
    <3>2. CASE j = Len(t) + 1
      BY <3>1, <3>2, <1>2, <1>3
    <3>3. CASE j \in 1..Len(t)
      BY <3>1, <3>3, <1>3 DEF CallStack, OwnTokenizers
    <3> QED
      BY <3>2, <3>3, <1>3
  <2>4. ASSUME NEW d \in 1..Len(b), b[d].k = "run"
        PROVE  \E i \in 1..Len(u) : u[i] = d
    <3>1. CASE d = Len(c) + 1
      <4>1. Len(t) + 1 \in 1..Len(u) /\ u[Len(t) + 1] = d
        BY <3>1, <1>3
      <4> QED
        BY <4>1
    <3>2. CASE d \in 1..Len(c)
      <4>1. PICK i \in 1..Len(t) : t[i] = d
        BY <3>2, <2>4, <1>2 DEF CallStack, OwnTokenizers
      <4>2. i \in 1..Len(u) /\ u[i] = d
        BY <4>1, <1>3
      <4> QED
        BY <4>2
    <3> QED
      BY <3>1, <3>2, <1>2
  <2> QED
    BY <2>2, <2>3, <2>4 DEF OwnTokenizers
<1>6. HostAtBottom(b)
  <2>1. c # <<>> => Len(c) # 0
    BY <1>1, EmptySeq
  <2>2. c = <<>> => Len(c) = 0
    OBVIOUS
  <2>3. b # <<>> => b[1].k \in {"run", "module"}
    <3>1. CASE c = <<>>
      BY <3>1, <2>2, <1>2, <1>4
    <3>2. CASE c # <<>>
      BY <3>2, <2>1, <1>2 DEF CallStack, HostAtBottom
    <3> QED
      BY <3>1, <3>2
  <2>4. Len(b) >= 2 /\ b[1].k = "module" => b[2].k = "run"
    <3>1. CASE Len(c) = 1
      BY <3>1, <1>2, <1>4
    <3>2. CASE Len(c) >= 2
      BY <3>2, <1>2 DEF CallStack, HostAtBottom
    <3>3. CASE Len(c) = 0
      BY <3>3, <1>2
    <3>4. Len(c) = 0 \/ Len(c) = 1 \/ Len(c) >= 2
      <4>1. \A m \in Nat : m = 0 \/ m = 1 \/ m >= 2
        OBVIOUS
      <4> QED
        BY <4>1, <1>2
    <3> QED
      BY <3>1, <3>2, <3>3, <3>4
  <2>5. \A d \in 2..Len(b) : b[d].k # "module"
    <3> TAKE d \in 2..Len(b)
    <3>1. CASE d = Len(c) + 1
      BY <3>1, <1>2, <1>4
    <3>2. CASE d \in 2..Len(c)
      BY <3>2, <1>2 DEF CallStack, HostAtBottom
    <3> QED
      BY <3>1, <3>2, <1>2
  <2> QED
    BY <2>3, <2>4, <2>5 DEF HostAtBottom
<1>7. FramesRefer(b, n)
  <2> SUFFICES ASSUME NEW d \in 1..Len(b), b[d].k \in {"def", "memo"}
               PROVE  b[d].def \in 1..n
    BY DEF FramesRefer
  <2>1. d \in 1..Len(c)
    BY <1>2, <1>4
  <2> QED
    BY <2>1, <1>2 DEF CallStack, FramesRefer
<1> QED
  BY <1>2, <1>3, <1>5, <1>6, <1>7 DEF CallStack, b, u

\* Returning from a word: the frame below can execute words again.
LEMMA PopWordFrame ==
    ASSUME NEW c, NEW t, NEW n \in Nat, CallStack(c, t, n), c # <<>>,
           Top(c).k \notin {"run", "module"}
    PROVE  /\ CallStack(Rest(c), t, n)
           /\ Executing(Rest(c))
<1> DEFINE b == Rest(c)
<1>1. c \in Seq(Frames) /\ t \in Seq(Nat)
  BY DEF CallStack
<1>2. /\ b \in Seq(Frames) /\ Len(c) \in Nat \ {0} /\ Len(b) = Len(c) - 1
      /\ \A i \in 1..Len(c) - 1 : b[i] = c[i]
  BY <1>1, RestProperties
<1>3. Len(c) >= 2 /\ Top(c) = c[Len(c)]
  BY <1>2 DEF CallStack, HostAtBottom, Top
<1> HIDE DEF b
<1>4. OwnTokenizers(b, t)
  <2>1. ASSUME NEW i \in 1..Len(t)
        PROVE  t[i] \in 1..Len(b) /\ b[t[i]].k = "run"
    <3>1. t[i] \in 1..Len(c) /\ c[t[i]].k = "run"
      BY DEF CallStack, OwnTokenizers
    <3>2. t[i] # Len(c)
      BY <3>1, <1>3
    <3> QED
      BY <3>1, <3>2, <1>2
  <2>2. \A d \in 1..Len(b) : d \in 1..Len(c) /\ b[d] = c[d]
    BY <1>2
  <2> QED
    BY <2>1, <2>2 DEF CallStack, OwnTokenizers
<1>5. HostAtBottom(b)
  BY <1>2, <1>3 DEF CallStack, HostAtBottom
<1>6. FramesRefer(b, n)
  BY <1>2 DEF CallStack, FramesRefer
<1>7. Executing(b)
  <2>1. b # <<>>
    BY <1>2, <1>3
  <2>2. Top(b) = c[Len(c) - 1]
    BY <1>2, <1>3 DEF Top
  <2>3. c[Len(c) - 1].k # "module"
    BY <1>2, <1>3 DEF CallStack, HostAtBottom
  <2> QED
    BY <2>1, <2>2, <2>3 DEF Executing
<1> QED
  BY <1>1, <1>2, <1>4, <1>5, <1>6, <1>7 DEF CallStack, b

\* Leaving a run: its tokenizer is the last one.
LEMMA PopRunFrame ==
    ASSUME NEW c, NEW t, NEW n \in Nat, CallStack(c, t, n), c # <<>>,
           Top(c).k = "run"
    PROVE  CallStack(Rest(c), Rest(t), n)
<1> DEFINE b == Rest(c)
           u == Rest(t)
<1>1. c \in Seq(Frames) /\ t \in Seq(Nat)
  BY DEF CallStack
<1>2. /\ b \in Seq(Frames) /\ Len(c) \in Nat \ {0} /\ Len(b) = Len(c) - 1
      /\ \A i \in 1..Len(c) - 1 : b[i] = c[i]
      /\ Top(c) = c[Len(c)]
  BY <1>1, RestProperties DEF Top
<1>3. \A i \in 1..Len(t) : t[i] \in 1..Len(c) /\ c[t[i]].k = "run"
  BY DEF CallStack, OwnTokenizers
<1>4. PICK k \in 1..Len(t) : t[k] = Len(c)
  BY <1>2 DEF CallStack, OwnTokenizers
<1>5. t # <<>>
  BY <1>4
<1>6. /\ u \in Seq(Nat) /\ Len(t) \in Nat \ {0} /\ Len(u) = Len(t) - 1
      /\ \A i \in 1..Len(t) - 1 : u[i] = t[i]
  BY <1>1, <1>5, RestProperties
<1> HIDE DEF b, u
<1>7. k = Len(t)
  <2>1. \A i, j \in 1..Len(t) : i < j => t[i] < t[j]
    BY DEF CallStack, OwnTokenizers
  <2>2. SUFFICES ASSUME k < Len(t) PROVE FALSE
    BY <1>6
  <2>3. t[k] < t[Len(t)] /\ t[Len(t)] \in 1..Len(c)
    BY <2>1, <2>2, <1>3, <1>6
  <2> QED
    BY <2>3, <1>4, <1>2
<1>8. \A i \in 1..Len(u) : u[i] \in 1..Len(b)
  <2> SUFFICES ASSUME NEW i \in 1..Len(u) PROVE u[i] \in 1..Len(b)
    OBVIOUS
  <2>1. i \in 1..Len(t) /\ i < Len(t) /\ u[i] = t[i]
    BY <1>6
  <2>2. t[i] < t[Len(t)]
    <3>1. \A m, j \in 1..Len(t) : m < j => t[m] < t[j]
      BY DEF CallStack, OwnTokenizers
    <3>2. Len(t) \in 1..Len(t)
      BY <1>6
    <3> QED
      BY <2>1, <3>1, <3>2
  <2> QED
    BY <2>1, <2>2, <1>3, <1>4, <1>7, <1>2
<1>9. OwnTokenizers(b, u)
  <2>1. ASSUME NEW i \in 1..Len(u) PROVE b[u[i]].k = "run"
    <3>1. i \in 1..Len(t) /\ u[i] = t[i] /\ u[i] \in 1..Len(b)
      BY <1>6, <1>8
    <3>2. c[t[i]].k = "run"
      BY <3>1, <1>3
    <3> QED
      BY <3>1, <3>2, <1>2
  <2>2. ASSUME NEW i \in 1..Len(u), NEW j \in 1..Len(u), i < j
        PROVE  u[i] < u[j]
    <3>1. i \in 1..Len(t) /\ j \in 1..Len(t) /\ u[i] = t[i] /\ u[j] = t[j]
      BY <1>6
    <3> QED
      BY <3>1, <2>2 DEF CallStack, OwnTokenizers
  <2>3. ASSUME NEW d \in 1..Len(b), b[d].k = "run"
        PROVE  \E i \in 1..Len(u) : u[i] = d
    <3>0. d \in 1..Len(c) /\ c[d].k = "run"
      BY <2>3, <1>2
    <3>1. PICK i \in 1..Len(t) : t[i] = d
      BY <3>0 DEF CallStack, OwnTokenizers
    <3>2. i # Len(t)
      BY <3>1, <1>2, <1>4, <1>7
    <3>3. i \in 1..Len(u) /\ u[i] = d
      BY <3>1, <3>2, <1>6
    <3> QED
      BY <3>3
  <2> QED
    BY <1>8, <2>1, <2>2, <2>3 DEF OwnTokenizers
<1>10. HostAtBottom(b)
  <2>1. b # <<>> => Len(b) # 0
    BY <1>2, EmptySeq
  <2>2. b # <<>> => b[1].k \in {"run", "module"}
    BY <1>2, <2>1 DEF CallStack, HostAtBottom
  <2> QED
    BY <1>2, <2>2 DEF CallStack, HostAtBottom
<1>11. FramesRefer(b, n)
  <2>1. \A d \in 1..Len(c) : c[d].k \in {"def", "memo"} => c[d].def \in 1..n
    BY DEF CallStack, FramesRefer
  <2>2. ASSUME NEW d \in 1..Len(b) PROVE d \in 1..Len(c) /\ b[d] = c[d]
    BY <1>2
  <2> QED
    BY <2>1, <2>2 DEF FramesRefer
<1> QED
  BY <1>2, <1>6, <1>9, <1>10, <1>11 DEF CallStack, b, u

-----------------------------------------------------------------------------
(***************************************************************************)
(* The module stack ms, when n definitions exist.                          *)
(***************************************************************************)
WordsRefer(m, n) == \A x \in DefName \X NameOp : m.words[x] \in 0..n

ModuleStack(ms, n) ==
    /\ ms \in Seq(Module)
    /\ ms # <<>>
    /\ ms[1].name = AppName
    /\ \A i \in 1..Len(ms) : WordsRefer(ms[i], n)

\* A new module is a module, and refers to nothing.
LEMMA EmptyModuleType ==
    ASSUME NEW m \in ModName \cup {AppName}, NEW n \in Nat
    PROVE  EmptyModule(m) \in Module /\ WordsRefer(EmptyModule(m), n)
BY DEF EmptyModule, Module, WordsRefer

\* Opening a module keeps the module stack well formed.
LEMMA PushModule ==
    ASSUME NEW ms, NEW n \in Nat, ModuleStack(ms, n), NEW m \in Module, WordsRefer(m, n)
    PROVE  ModuleStack(Append(ms, m), n)
<1> DEFINE u == Append(ms, m)
<1>1. ms \in Seq(Module) /\ ms # <<>> /\ ms[1].name = AppName
  BY DEF ModuleStack
<1>2. /\ u \in Seq(Module) /\ Len(u) = Len(ms) + 1 /\ u[Len(ms) + 1] = m
      /\ u # <<>> /\ Len(ms) \in Nat \ {0}
      /\ \A i \in 1..Len(ms) : u[i] = ms[i]
  BY <1>1, AppendFacts, EmptySeq
<1> HIDE DEF u
<1>3. ASSUME NEW i \in 1..Len(u) PROVE WordsRefer(u[i], n)
  <2>1. CASE i = Len(ms) + 1
    BY <2>1, <1>2
  <2>2. CASE i \in 1..Len(ms)
    BY <2>2, <1>2 DEF ModuleStack
  <2> QED
    BY <2>1, <2>2, <1>2
<1> QED
  BY <1>1, <1>2, <1>3 DEF ModuleStack, u

\* The module stack with its top replaced by a module of the same name.
LEMMA ReplaceModule ==
    ASSUME NEW ms, NEW n \in Nat, ModuleStack(ms, n), NEW m \in Module, WordsRefer(m, n),
           m.name = ms[Len(ms)].name
    PROVE  ModuleStack([ms EXCEPT ![Len(ms)] = m], n)
<1> DEFINE u == [ms EXCEPT ![Len(ms)] = m]
<1>1. ms \in Seq(Module) /\ ms # <<>> /\ ms[1].name = AppName
  BY DEF ModuleStack
<1>2. Len(ms) \in 1..Len(ms)
  BY <1>1, EmptySeq
<1>3. /\ u \in Seq(Module) /\ Len(u) = Len(ms) /\ u[Len(ms)] = m
      /\ \A i \in 1..Len(ms) : i # Len(ms) => u[i] = ms[i]
  BY <1>1, <1>2, ExceptProperties
<1> HIDE DEF u
<1>4. u # <<>>
  BY <1>2, <1>3
<1>5. u[1].name = AppName
  BY <1>1, <1>2, <1>3
<1>6. ASSUME NEW i \in 1..Len(u) PROVE WordsRefer(u[i], n)
  BY <1>3 DEF ModuleStack
<1> QED
  BY <1>3, <1>4, <1>5, <1>6 DEF ModuleStack, u

\* A non-empty prefix of the module stack is well formed.
LEMMA CutModules ==
    ASSUME NEW ms, NEW n \in Nat, ModuleStack(ms, n), NEW d \in 1..Len(ms)
    PROVE  ModuleStack(SubSeq(ms, 1, d), n)
<1> DEFINE u == SubSeq(ms, 1, d)
<1>1. ms \in Seq(Module) /\ ms # <<>> /\ ms[1].name = AppName
  BY DEF ModuleStack
<1>2. Len(ms) \in Nat /\ d \in 0..Len(ms)
  BY <1>1
<1>3. u \in Seq(Module) /\ Len(u) = d /\ \A i \in 1..d : u[i] = ms[i]
  BY <1>1, <1>2, PrefixProperties
<1> HIDE DEF u
<1>4. u # <<>> /\ u[1].name = AppName
  BY <1>1, <1>3
<1>5. ASSUME NEW i \in 1..Len(u) PROVE WordsRefer(u[i], n)
  BY <1>2, <1>3 DEF ModuleStack
<1> QED
  BY <1>3, <1>4, <1>5 DEF ModuleStack, u

\* What was well formed stays so when there are more definitions.
LEMMA MoreDefinitions ==
    ASSUME NEW n \in Nat, NEW ms, ModuleStack(ms, n)
    PROVE  ModuleStack(ms, n + 1)
<1>1. ASSUME NEW i \in 1..Len(ms) PROVE WordsRefer(ms[i], n + 1)
  BY DEF ModuleStack, WordsRefer
<1> QED
  BY <1>1 DEF ModuleStack

-----------------------------------------------------------------------------
(***************************************************************************)
(* The execution of one word.                                              *)
(***************************************************************************)
\* A word all of whose references are to existing definitions.
WordRefers(w, n) == w.op \in NameOp => w.ref \in 1..n

\* The fields that each kind of word has.
LEMMA WordFields ==
    ASSUME NEW w \in Word
    PROVE  /\ w.op = "push" => w.v \in Value
           /\ w.op = "start_module" => w.m \in ModName \cup {AppName}
           /\ w.op \in NameOp => w.ref \in Nat
BY DEF Word, PushWord, PlainWord, OpenWord, RefWord, Builtin, NameOp

\* The state a word is executed in, and what execution leaves.
Ready(c) ==
    /\ stack \in Seq(Value)
    /\ heap \in Seq(CompiledDef)
    /\ ModuleStack(module_stack, Len(heap))
    /\ CallStack(c, tokenizer_stack, Len(heap))

Executed ==
    /\ stack' \in Seq(Value)
    /\ heap' = heap
    /\ ModuleStack(module_stack', Len(heap))
    /\ CallStack(control', tokenizer_stack', Len(heap))
    /\ res' \in Error \cup {"ok"}
    /\ Executing(control')

\* The ways a word ends, for a stack s of values.
LEMMA ReturnsExecuted ==
    ASSUME NEW c, Ready(c), Executing(c), NEW s \in Seq(Value), Returns(c, s)
    PROVE  Executed
BY DEF Ready, Executed, Returns

\* A word that fails leaves the call stack it was executed from.
LEMMA RaisesExecuted ==
    ASSUME NEW c, Ready(c), Executing(c), NEW s \in Seq(Value), NEW e \in Error,
           Raises(c, s, e)
    PROVE  Executed
BY DEF Ready, Executed, Raises

\* A word that runs code leaves a run, with its tokenizer, on top.
LEMMA RunsExecuted ==
    ASSUME NEW c, Ready(c), NEW s \in Seq(Value), Runs(c, s)
    PROVE  Executed
<1> DEFINE n == Len(heap)
<1>1. n \in Nat
  BY DEF Ready
<1>2. CallStack(control', tokenizer_stack', n)
  BY <1>1, PushRunFrame DEF Ready, Runs
<1>3. Executing(control')
  <2>1. c \in Seq(Frames) /\ RunFrame \in Frames
    BY DEF Ready, CallStack, RunFrame, Frames, RunFrames
  <2>2. /\ Append(c, RunFrame) # <<>>
        /\ Top(Append(c, RunFrame)) = RunFrame
    BY <2>1, AppendFacts DEF Top
  <2> QED
    BY <2>2 DEF Runs, Executing, RunFrame
<1> QED
  BY <1>2, <1>3 DEF Ready, Executed, Runs, RunFrame

\* A word may go on in a frame of its own.
LEMMA EntersExecuted ==
    ASSUME NEW c, Ready(c), Executing(c), NEW s \in Seq(Value),
           NEW f \in WordFrames(Len(heap)), Returns(Append(c, f), s)
    PROVE  Executed
<1>1. Len(heap) \in Nat
  BY DEF Ready
<1>2. /\ CallStack(Append(c, f), tokenizer_stack, Len(heap))
      /\ Executing(Append(c, f))
  BY <1>1, PushWordFrame DEF Ready
<1> QED
  BY <1>2 DEF Ready, Executed, Returns

\* A memo word goes on in two frames, its own and that of its definition.
LEMMA EntersTwoExecuted ==
    ASSUME NEW c, Ready(c), Executing(c), NEW s \in Seq(Value),
           NEW f \in WordFrames(Len(heap)), NEW g \in WordFrames(Len(heap)),
           Returns(c \o <<f, g>>, s)
    PROVE  Executed
<1>1. Len(heap) \in Nat
  BY DEF Ready
<1>2. c \o <<f, g>> = Append(Append(c, f), g)
  BY ConcatTwo DEF Ready, CallStack, WordFrames
<1>3. /\ CallStack(Append(c, f), tokenizer_stack, Len(heap))
      /\ Executing(Append(c, f))
  BY <1>1, PushWordFrame DEF Ready
<1>4. /\ CallStack(Append(Append(c, f), g), tokenizer_stack, Len(heap))
      /\ Executing(Append(Append(c, f), g))
  BY <1>1, <1>3, PushWordFrame
<1> QED
  BY <1>2, <1>4 DEF Ready, Executed, Returns

\* A word that finds too few operands fails with an empty stack.
LEMMA UnderflowExecuted ==
    ASSUME NEW c, Ready(c), Executing(c), NEW needed \in Nat, Underflow(c, needed)
    PROVE  Executed
<1>1. "StackUnderflow" \in Error
  BY DEF Error
<1>2. <<>> \in Seq(Value)
  OBVIOUS
<1> QED
  BY <1>1, <1>2, RaisesExecuted DEF Underflow

\* The frames of user words are frames of the call stack.
LEMMA DefFrameType ==
    ASSUME NEW n \in Nat, NEW i \in 1..n, NEW push \in BOOLEAN
    PROVE  DefFrame(i) \in WordFrames(n) /\ MemoFrame(i, push) \in WordFrames(n)
BY DEF DefFrame, MemoFrame, WordFrames, Frames, DefFrames, MemoFrames

\* So are those of TRY and MAP.
LEMMA CatchFrameType ==
    ASSUME NEW n \in Nat, ModuleStack(module_stack, n), NEW s \in Seq(Value),
           NEW into \in Value, NEW left \in Nat, NEW outcomes \in BOOLEAN
    PROVE  TryFrame(s) \in WordFrames(n) /\ MapFrame(into, left, outcomes) \in WordFrames(n)
<1>1. Len(module_stack) \in Nat \ {0}
  BY EmptySeq DEF ModuleStack
<1>2. <<>> \in Seq(Value)
  OBVIOUS
<1> QED
  BY <1>1, <1>2 DEF TryFrame, MapFrame, WordFrames, Frames, TryFrames, MapFrames

\* Every word leaves a well-formed interpreter, whatever it was called with.
LEMMA ExecuteExecuted ==
    ASSUME ConstantsAssumption, NEW c, Ready(c), Executing(c),
           NEW w \in Word, WordRefers(w, Len(heap)), Execute(w, c)
    PROVE  Executed
<1> DEFINE n == Len(heap)
<1>1. /\ n \in Nat /\ stack \in Seq(Value) /\ heap \in Seq(CompiledDef)
      /\ ModuleStack(module_stack, n) /\ CallStack(c, tokenizer_stack, n)
  BY DEF Ready
<1>2. stack # <<>> => /\ Rest(stack) \in Seq(Value) /\ Top(stack) \in Value
                      /\ Len(Rest(stack)) = Len(stack) - 1 /\ Len(stack) \in Nat
  BY <1>1, RestProperties
<1>3. \A s \in Seq(Value), v \in Value : Append(s, v) \in Seq(Value)
  OBVIOUS
<1>4. {"StackUnderflow", "InvalidOperation", "IntentionalStop"} \subseteq Error
  BY DEF Error
<1>5. {"arr", "ok", "err"} \subseteq Value /\ ItemValues \subseteq Value
  BY DEF Value, ConstantsAssumption
<1>6. CASE PushValue(w, c)
  BY <1>6, <1>1, <1>3, WordFields, ReturnsExecuted DEF PushValue
<1>7. CASE Drop(w, c)
  BY <1>7, <1>2, UnderflowExecuted, ReturnsExecuted DEF Drop
<1>8. CASE Dup(w, c)
  BY <1>8, <1>1, <1>2, <1>3, UnderflowExecuted, ReturnsExecuted DEF Dup
<1>9. CASE EndArray(w, c)
  <2> DEFINE marks == {i \in 1..Len(stack) : stack[i] = "mark"}
  <2>1. CASE marks = {} /\ Raises(c, <<>>, "StackUnderflow")
    <3>1. <<>> \in Seq(Value)
      OBVIOUS
    <3> QED
      BY <2>1, <3>1, <1>4, RaisesExecuted
  <2>2. ASSUME NEW i \in marks, Returns(c, Append(SubSeq(stack, 1, i - 1), "arr"))
        PROVE  Executed
    <3>1. i - 1 \in 0..Len(stack)
      BY <1>1
    <3>2. SubSeq(stack, 1, i - 1) \in Seq(Value)
      BY <3>1, <1>1, PrefixProperties
    <3> QED
      BY <2>2, <3>2, <1>3, <1>5, ReturnsExecuted
  <2> QED
    BY <1>9, <2>1, <2>2 DEF EndArray
<1>10. CASE StartModule(w, c)
  <2>1. PICK m \in ModName \cup {AppName} : w.m = m
    BY <1>10, WordFields DEF StartModule
  <2>2. EmptyModule(m) \in Module /\ WordsRefer(EmptyModule(m), n) /\ AppName \in ModName \cup {AppName}
    BY <1>1, EmptyModuleType
  <2>3. ModuleStack(module_stack', n)
    <3> DEFINE top == module_stack[Len(module_stack)]
               reg == [top EXCEPT !.subs = @ \cup {m}]
    <3>1. CASE m = AppName
      BY <3>1, <2>1, <2>2, <1>1, <1>10, PushModule DEF StartModule
    <3>2. CASE m # AppName
      <4>1. m \in ModName
        BY <3>2
      <4>2. /\ Len(module_stack) \in 1..Len(module_stack)
            /\ top \in Module /\ WordsRefer(top, n)
        BY <1>1, EmptySeq DEF ModuleStack
      <4>3. reg \in Module /\ WordsRefer(reg, n) /\ reg.name = top.name
        BY <4>1, <4>2 DEF Module, WordsRefer
      <4>4. ModuleStack([module_stack EXCEPT ![Len(module_stack)] = reg], n)
        BY <1>1, <4>3, ReplaceModule
      <4>5. module_stack' = Append([module_stack EXCEPT ![Len(module_stack)] = reg],
                                   EmptyModule(m))
        BY <3>2, <2>1, <1>10 DEF StartModule
      <4> QED
        BY <4>4, <4>5, <2>2, <1>1, PushModule
    <3> QED
      BY <3>1, <3>2
  <2> QED
    BY <2>3, <1>1, <1>10 DEF StartModule, Executed
<1>11. CASE EndModule(w, c)
  <2>1. Len(module_stack) \in Nat
    BY <1>1 DEF ModuleStack
  <2>2. CASE Len(module_stack) <= 1
    BY <2>1, <2>2, <1>1, <1>4, <1>11 DEF EndModule, Executed
  <2>3. CASE ~(Len(module_stack) <= 1)
    <3>1. Len(module_stack) - 1 \in 1..Len(module_stack)
      BY <2>1, <2>3
    <3>2. ModuleStack(Rest(module_stack), n)
      BY <3>1, <1>1, CutModules DEF Rest
    <3> QED
      BY <2>3, <3>2, <1>1, <1>11 DEF EndModule, Executed
  <2> QED
    BY <2>2, <2>3
<1>12. CASE Call(w, c)
  <2>1. w.ref \in 1..n
    BY <1>12 DEF Call, WordRefers, NameOp
  <2>2. DefFrame(w.ref) \in WordFrames(n) /\ MemoFrame(w.ref, TRUE) \in WordFrames(n)
    BY <2>1, <1>1, DefFrameType
  <2>3. heap[w.ref].cache # NoValue => heap[w.ref].cache \in Value
    <3>1. heap[w.ref] \in CompiledDef
      BY <2>1, <1>1, ElementOfSeq
    <3> QED
      BY <3>1 DEF CompiledDef
  <2>4. CASE ~heap[w.ref].memo
    BY <2>2, <2>4, <1>1, <1>12, EntersExecuted DEF Call
  <2>5. CASE heap[w.ref].memo /\ heap[w.ref].cache # NoValue
    BY <2>3, <2>5, <1>1, <1>3, <1>12, ReturnsExecuted DEF Call
  <2>6. CASE heap[w.ref].memo /\ heap[w.ref].cache = NoValue
    BY <2>2, <2>6, <1>1, <1>12, EntersTwoExecuted DEF Call
  <2> QED
    BY <2>4, <2>5, <2>6
<1>13. CASE Refresh(w, c)
  <2>1. w.ref \in 1..n
    BY <1>13 DEF Refresh, WordRefers, NameOp
  <2>2. DefFrame(w.ref) \in WordFrames(n) /\ MemoFrame(w.ref, w.op = "bangat") \in WordFrames(n)
    BY <2>1, <1>1, DefFrameType
  <2> QED
    BY <2>2, <1>1, <1>13, EntersTwoExecuted DEF Refresh
<1>14. CASE Run(w, c)
  BY <1>14, <1>2, <1>4, UnderflowExecuted, ReturnsExecuted, RunsExecuted, RaisesExecuted
     DEF Run
<1>15. CASE Try(w, c)
  <2>1. CASE stack # <<>> /\ Runs(Append(c, TryFrame(Rest(stack))), Rest(stack))
    <3> DEFINE f == TryFrame(Rest(stack))
    <3>1. f \in WordFrames(n)
      BY <2>1, <1>1, <1>2, <1>5, CatchFrameType
    <3>2. CallStack(Append(c, f), tokenizer_stack, n)
      BY <3>1, <1>1, PushWordFrame
    <3>3. Ready(Append(c, f))
      BY <3>2, <1>1 DEF Ready
    <3> QED
      BY <2>1, <3>3, <1>2, RunsExecuted
  <2>2. CASE stack # <<>> /\ Raises(c, Rest(stack), "InvalidOperation")
    BY <2>2, <1>2, <1>4, RaisesExecuted
  <2> QED
    BY <1>15, <2>1, <2>2, UnderflowExecuted DEF Try
<1>16. CASE Map(w, c)
  <2>1. CASE Underflow(c, 2)
    BY <2>1, UnderflowExecuted
  <2>2. CASE ~Underflow(c, 2)
    <3> DEFINE s2 == Rest(Rest(stack))
               items == Top(Rest(stack))
    <3>1. Len(stack) >= 2
      BY <1>16, <2>2 DEF Map
    <3>2. stack # <<>> /\ Rest(stack) # <<>>
      <4>1. stack # <<>>
        BY <3>1
      <4>2. Len(Rest(stack)) >= 1
        BY <3>1, <4>1, <1>2
      <4> QED
        BY <4>1, <4>2
    <3>3. s2 \in Seq(Value) /\ items \in Value
      BY <3>2, <1>2, RestProperties
    <3>4. CASE Raises(c, s2, "InvalidOperation")
      BY <3>3, <3>4, <1>4, RaisesExecuted
    <3>5. CASE Returns(c, Append(s2, items))
      BY <3>3, <3>5, <1>3, ReturnsExecuted
    <3>6. ASSUME NEW k \in LeafCounts(items),
                 Returns(Append(c, MapFrame(items, k, w.op = "MAP-OUTCOMES")), s2)
          PROVE  Executed
      <4>1. k \in Nat
        BY DEF LeafCounts, ConstantsAssumption
      <4>2. MapFrame(items, k, w.op = "MAP-OUTCOMES") \in WordFrames(n)
        BY <4>1, <3>3, <1>1, CatchFrameType
      <4> QED
        BY <4>2, <3>3, <3>6, EntersExecuted
    <3> QED
      BY <2>2, <3>4, <3>5, <3>6, <1>16 DEF Map
  <2> QED
    BY <2>1, <2>2
<1>17. CASE Unwrap(w, c)
  BY <1>17, <1>2, <1>3, <1>4, <1>5, UnderflowExecuted, ReturnsExecuted, RaisesExecuted
     DEF Unwrap
<1>18. CASE PeekBang(w, c)
  BY <1>18, <1>1, <1>4, RaisesExecuted DEF PeekBang
<1> QED
  BY <1>6, <1>7, <1>8, <1>9, <1>10, <1>11, <1>12, <1>13, <1>14, <1>15, <1>16,
     <1>17, <1>18 DEF Execute

-----------------------------------------------------------------------------
(***************************************************************************)
(* The inductive invariant.  TypeOK alone is not inductive: executing a    *)
(* compiled word needs its reference to exist (CallsGoBack), popping a     *)
(* tokenizer needs it to be the run's own (TokenizersBelongToRuns), and a  *)
(* catch pops modules down to a depth that must leave the app module.      *)
(***************************************************************************)
Compiling ==
    /\ is_compiling \in BOOLEAN
    /\ is_memo_definition \in BOOLEAN
    /\ cur_definition \in [name : DefName, words : Seq(Word)] \cup {NoDefinition}
    /\ RefsWithin(cur_definition.words, Len(heap))
    /\ CompileStateAgrees

Definitions == \A i \in 1..Len(heap) : RefsWithin(heap[i].words, i - 1)

\* Where control can only come by a successful end of code, none is open.
NothingOpenAtEnd ==
    Going /\ (control = <<>> \/ Top(control).k = "module") => ~is_compiling

Status ==
    /\ res \in Error \cup {"ok"}
    /\ fuel \in 0..MaxTokens
    /\ calls \in 0..MaxCalls
    /\ NothingOpenAtEnd

Inv == Ready(control) /\ Compiling /\ Definitions /\ Status

\* The initial interpreter is well formed.
LEMMA InitInv == ConstantsAssumption /\ Init => Inv
<1> SUFFICES ASSUME ConstantsAssumption, Init PROVE Inv
  OBVIOUS
<1> USE DEF Init
<1>1. <<>> \in Seq(Value) /\ heap \in Seq(CompiledDef) /\ Len(heap) = 0
  OBVIOUS
<1>2. ModuleStack(module_stack, 0)
  <2>1. EmptyModule(AppName) \in Module /\ WordsRefer(EmptyModule(AppName), 0)
        /\ EmptyModule(AppName).name = AppName
    BY EmptyModuleType DEF EmptyModule
  <2> QED
    BY <2>1 DEF ModuleStack
<1>3. CallStack(control, tokenizer_stack, 0)
  BY DEF CallStack, OwnTokenizers, HostAtBottom, FramesRefer
<1>4. Compiling
  <2>1. cur_definition = NoDefinition /\ cur_definition.words = <<>> /\ ~is_compiling
    BY DEF NoDefinition
  <2>2. RefsWithin(<<>>, Len(heap))
    BY DEF RefsWithin
  <2> QED
    BY <2>1, <2>2 DEF Compiling, CompileStateAgrees
<1>5. Definitions
  BY DEF Definitions
<1>6. Status
  BY DEF Status, NothingOpenAtEnd, ConstantsAssumption
<1> QED
  BY <1>1, <1>2, <1>3, <1>4, <1>5, <1>6 DEF Inv, Ready

\* A step that executed a word and compiled nothing keeps the invariant.
LEMMA ExecutedInv ==
    ASSUME Inv, Executed, UNCHANGED compileVars,
           fuel' \in 0..MaxTokens, calls' \in 0..MaxCalls
    PROVE  Inv'
<1>1. Ready(control)'
  BY DEF Ready, Executed, Inv
<1>2. Compiling'
  BY DEF Compiling, CompileStateAgrees, Executed, Inv, compileVars
<1>3. Definitions'
  BY DEF Definitions, Executed, Inv
<1>4. Status'
  BY DEF Status, NothingOpenAtEnd, Executed, Executing, Inv
<1> QED
  BY <1>1, <1>2, <1>3, <1>4 DEF Inv

\* A run that reads a token can execute words.
LEMMA InRunExecuting ==
    ASSUME Inv, InFrame("run") \/ InFrame("def")
    PROVE  Ready(control) /\ Executing(control)
BY DEF Inv, InFrame, Executing

\* Compiling a word that exists keeps the interpreter well formed.
LEMMA AddWordCompiling ==
    ASSUME Inv, is_compiling, NEW w \in Word, WordRefers(w, Len(heap)), AddWord(w),
           UNCHANGED <<is_compiling, is_memo_definition, heap>>
    PROVE  Compiling'
<1>1. /\ cur_definition # NoDefinition
      /\ cur_definition \in [name : DefName, words : Seq(Word)]
      /\ RefsWithin(cur_definition.words, Len(heap))
  BY DEF Inv, Compiling, CompileStateAgrees
<1> DEFINE ws == cur_definition.words
           us == Append(ws, w)
<1>2. ws \in Seq(Word)
  BY <1>1
<1>3. /\ us \in Seq(Word) /\ Len(us) = Len(ws) + 1 /\ us[Len(ws) + 1] = w
      /\ us # <<>> /\ Len(ws) \in Nat
      /\ \A j \in 1..Len(ws) : us[j] = ws[j]
  BY <1>2, AppendFacts
<1>4. cur_definition' = [cur_definition EXCEPT !.words = us]
  BY DEF AddWord
<1> HIDE DEF us
<1>5. cur_definition'.words = us /\ cur_definition' \in [name : DefName, words : Seq(Word)]
  BY <1>1, <1>3, <1>4
<1>6. cur_definition' # NoDefinition
  BY <1>3, <1>5 DEF NoDefinition
<1>7. RefsWithin(us, Len(heap))
  <2> SUFFICES ASSUME NEW j \in 1..Len(us), us[j].op \in NameOp
               PROVE  us[j].ref \in 1..Len(heap)
    BY DEF RefsWithin
  <2>1. CASE j = Len(ws) + 1
    BY <2>1, <1>3 DEF WordRefers
  <2>2. CASE j \in 1..Len(ws)
    BY <2>2, <1>1, <1>3 DEF RefsWithin
  <2> QED
    BY <2>1, <2>2, <1>3
<1> QED
  BY <1>5, <1>6, <1>7 DEF Inv, Compiling, CompileStateAgrees

\* Executing or compiling a word keeps the invariant.
LEMMA HandleWordInv ==
    ASSUME ConstantsAssumption, Inv, Going, InFrame("run"), NEW w \in Word,
           WordRefers(w, Len(heap)), HandleWord(w),
           fuel' \in 0..MaxTokens, calls' = calls
    PROVE  Inv'
<1>1. CASE is_compiling /\ AddWord(w) /\ UNCHANGED <<stack, module_stack, tokenizer_stack,
             heap, control, res, is_compiling, is_memo_definition>>
  <2>1. Compiling'
    BY <1>1, AddWordCompiling
  <2>2. Ready(control)' /\ Definitions'
    BY <1>1 DEF Inv, Ready, Definitions
  <2>3. Status'
    BY <1>1 DEF Inv, Status, NothingOpenAtEnd, Going, InFrame
  <2> QED
    BY <2>1, <2>2, <2>3 DEF Inv
<1>2. CASE Execute(w, control) /\ UNCHANGED compileVars
  <2>1. Executed
    BY <1>2, InRunExecuting, ExecuteExecuted
  <2> QED
    BY <2>1, <1>2, ExecutedInv DEF Inv, Status
<1> QED
  BY <1>1, <1>2 DEF HandleWord

\* An error met while the run on top reads a token.
LEMMA FailInv ==
    ASSUME Inv, InFrame("run"), NEW e \in Error, Fail(e),
           fuel' \in 0..MaxTokens, calls' = calls
    PROVE  Inv'
<1>1. Ready(control) /\ Executing(control)
  BY InRunExecuting
<1>2. Executed
  BY <1>1, RaisesExecuted DEF Fail, Ready
<1> QED
  BY <1>2, ExecutedInv DEF Fail, Inv, Status

\* Looking a name up, and handling the word found, keeps the invariant.
LEMMA NameTokenInv ==
    ASSUME ConstantsAssumption, Inv, Going, InFrame("run"), NEW tok \in Token, NameToken(tok),
           fuel' \in 0..MaxTokens, calls' = calls
    PROVE  Inv'
<1>1. tok.n \in DefName /\ tok.op \in NameOp
  BY DEF NameToken, Token, PushWord
<1>2. CASE Fail("UnknownWord")
  BY <1>2, FailInv DEF Error
<1>3. ASSUME NEW i \in 1..Len(module_stack), FoundIn(i, tok.n, tok.op),
             HandleWord([op |-> tok.op, ref |-> module_stack[i].words[<<tok.n, tok.op>>]])
      PROVE  Inv'
  <2> DEFINE ref == module_stack[i].words[<<tok.n, tok.op>>]
             w == [op |-> tok.op, ref |-> ref]
  <2>1. ref \in 0..Len(heap) /\ Len(heap) \in Nat
    BY <1>1 DEF Inv, Ready, ModuleStack, WordsRefer
  <2>2. ref \in 1..Len(heap)
    BY <2>1, <1>3 DEF FoundIn
  <2>3. w \in Word /\ WordRefers(w, Len(heap))
    BY <2>1, <2>2, <1>1 DEF Word, RefWord, WordRefers
  <2> QED
    BY <2>3, <1>3, HandleWordInv
<1> QED
  BY <1>2, <1>3 DEF NameToken

\* {name and } keep the invariant, compiled or not.
LEMMA ModuleTokenInv ==
    ASSUME ConstantsAssumption, Inv, Going, InFrame("run"), NEW tok \in Token, ModuleToken(tok),
           fuel' \in 0..MaxTokens, calls' = calls
    PROVE  Inv'
<1> DEFINE w == IF tok.t = "start_module" THEN [op |-> "start_module", m |-> tok.m]
                ELSE [op |-> "end_module"]
<1>1. tok.t = "start_module" => tok.m \in ModName \cup {AppName}
  BY DEF Token
<1>2. w \in Word /\ WordRefers(w, Len(heap))
  BY <1>1 DEF Word, OpenWord, PlainWord, WordRefers, NameOp
<1>3. Execute(w, control)
  BY DEF ModuleToken, Execute
<1>4. Executed
  BY <1>2, <1>3, InRunExecuting, ExecuteExecuted
<1>5. CASE is_compiling
  <2>1. AddWord(w) /\ UNCHANGED <<is_compiling, is_memo_definition, heap>>
    BY <1>4, <1>5 DEF ModuleToken, Executed
  <2>2. Compiling'
    BY <2>1, <1>2, <1>5, AddWordCompiling
  <2>3. Ready(control)' /\ Definitions' /\ Status'
    BY <1>4 DEF Inv, Ready, Executed, Definitions, Status, NothingOpenAtEnd, Executing
  <2> QED
    BY <2>2, <2>3 DEF Inv
<1>6. CASE ~is_compiling
  BY <1>4, <1>6, ExecutedInv DEF ModuleToken, Inv, Status
<1> QED
  BY <1>5, <1>6

\* : and @: keep the invariant.
LEMMA StartDefinitionInv ==
    ASSUME Inv, Going, InFrame("run"), NEW tok \in Token, StartDefinition(tok),
           ConstantsAssumption, fuel' \in 0..MaxTokens, calls' = calls
    PROVE  Inv'
<1>1. CASE Fail("MissingSemicolon")
  BY <1>1, FailInv DEF Error
<1>2. CASE ~is_compiling /\ ~Fail("MissingSemicolon")
  <2>1. tok.n \in DefName
    BY DEF StartDefinition, Token
  <2>2. /\ cur_definition' = [name |-> tok.n, words |-> <<>>]
        /\ is_compiling' = TRUE
        /\ is_memo_definition' \in BOOLEAN
        /\ UNCHANGED <<stack, module_stack, tokenizer_stack, heap, control, res>>
    BY <1>2 DEF StartDefinition
  <2>3. cur_definition' # NoDefinition
    BY <2>1, <2>2 DEF NoDefinition, ConstantsAssumption
  <2>4. RefsWithin(<<>>, Len(heap)) /\ <<>> \in Seq(Word)
    BY DEF RefsWithin
  <2>5. Compiling'
    BY <2>1, <2>2, <2>3, <2>4 DEF Compiling, CompileStateAgrees
  <2>6. Ready(control)' /\ Definitions' /\ Status'
    BY <2>2 DEF Inv, Ready, Definitions, Status, NothingOpenAtEnd, Going, InFrame
  <2> QED
    BY <2>5, <2>6 DEF Inv
<1> QED
  BY <1>1, <1>2 DEF StartDefinition

\* ; keeps the invariant: the new definition calls older ones only.
LEMMA EndDefinitionInv ==
    ASSUME Inv, Going, InFrame("run"), NEW tok \in Token, EndDefinition(tok),
           ConstantsAssumption, fuel' \in 0..MaxTokens, calls' = calls
    PROVE  Inv'
<1>1. CASE Fail("ExtraSemicolon")
  BY <1>1, FailInv DEF Error
<1>2. CASE is_compiling /\ cur_definition # NoDefinition /\ ~Fail("ExtraSemicolon")
  <2> DEFINE n   == Len(heap)
             top == Len(module_stack)
             old == module_stack[top]
             e   == [words |-> cur_definition.words, memo |-> is_memo_definition,
                     cache |-> NoValue]
             ws  == [x \in DOMAIN old.words |-> IF x \in AddedWords(cur_definition.name)
                                               THEN n + 1 ELSE old.words[x]]
             new == [old EXCEPT !.words = ws]
  <2>1. /\ heap' = Append(heap, e)
        /\ module_stack' = [module_stack EXCEPT ![top] = new]
        /\ cur_definition' = NoDefinition
        /\ is_compiling' = FALSE
        /\ UNCHANGED <<stack, tokenizer_stack, control, res, is_memo_definition>>
    BY <1>2 DEF EndDefinition
  <2>2. /\ n \in Nat /\ heap \in Seq(CompiledDef)
        /\ ModuleStack(module_stack, n)
        /\ CallStack(control, tokenizer_stack, n)
        /\ stack \in Seq(Value)
    BY DEF Inv, Ready
  <2>3. /\ cur_definition \in [name : DefName, words : Seq(Word)]
        /\ RefsWithin(cur_definition.words, n)
        /\ is_memo_definition \in BOOLEAN
    BY <1>2 DEF Inv, Compiling
  <2>4. e \in CompiledDef
    BY <2>3 DEF CompiledDef
  <2>5. /\ heap' \in Seq(CompiledDef) /\ Len(heap') = n + 1
        /\ heap'[n + 1] = e
        /\ \A i \in 1..n : heap'[i] = heap[i]
    BY <2>1, <2>2, <2>4, AppendFacts
  <2>6. ModuleStack(module_stack, n + 1)
    BY <2>2, MoreDefinitions
  <2>7. /\ top \in 1..Len(module_stack)
        /\ old \in Module /\ WordsRefer(old, n + 1)
    BY <2>6, EmptySeq DEF ModuleStack
  <2>8. /\ DOMAIN old.words = DefName \X NameOp
        /\ old.words \in [DefName \X NameOp -> Nat]
    BY <2>7 DEF Module
  <2>9. \A x \in DefName \X NameOp : ws[x] \in 0..(n + 1)
    BY <2>2, <2>7, <2>8 DEF WordsRefer
  <2>10. ws \in [DefName \X NameOp -> Nat]
    BY <2>8, <2>9, <2>2
  <2> HIDE DEF ws
  <2>11. new \in Module /\ WordsRefer(new, n + 1) /\ new.name = old.name
    BY <2>7, <2>9, <2>10 DEF Module, WordsRefer
  <2>12. ModuleStack(module_stack', n + 1)
    <3> HIDE DEF new
    <3>1. n + 1 \in Nat /\ new.name = module_stack[Len(module_stack)].name
      BY <2>2, <2>11
    <3>2. ModuleStack([module_stack EXCEPT ![Len(module_stack)] = new], n + 1)
      BY <3>1, <2>6, <2>11, ReplaceModule
    <3> QED
      BY <3>2, <2>1
  <2>13. CallStack(control', tokenizer_stack', n + 1)
    <3>1. FramesRefer(control, n + 1)
      BY <2>2 DEF CallStack, FramesRefer
    <3> QED
      BY <3>1, <2>1, <2>2 DEF CallStack
  <2>14. Ready(control)'
    BY <2>1, <2>2, <2>5, <2>12, <2>13 DEF Ready
  <2>15. Compiling'
    <3>1. NoDefinition.words = <<>> /\ RefsWithin(<<>>, n + 1)
      BY DEF NoDefinition, RefsWithin
    <3> QED
      BY <3>1, <2>1, <2>3, <2>5 DEF Compiling, CompileStateAgrees
  <2>16. Definitions'
    <3> SUFFICES ASSUME NEW i \in 1..(n + 1)
                 PROVE  RefsWithin(heap'[i].words, i - 1)
      BY <2>5 DEF Definitions
    <3>1. CASE i = n + 1
      BY <3>1, <2>2, <2>3, <2>5
    <3>2. CASE i \in 1..n
      BY <3>2, <2>5 DEF Inv, Definitions
    <3> QED
      BY <3>1, <3>2, <2>2
  <2>17. Status'
    BY <2>1 DEF Inv, Status, NothingOpenAtEnd, Going
  <2> QED
    BY <2>14, <2>15, <2>16, <2>17 DEF Inv
<1> QED
  BY <1>1, <1>2 DEF EndDefinition

\* Reading and handling any token keeps the invariant.
LEMMA HandleTokenInv == ConstantsAssumption /\ Inv /\ HandleToken => Inv'
<1> SUFFICES ASSUME ConstantsAssumption, Inv, HandleToken PROVE Inv'
  OBVIOUS
<1>1. fuel' \in 0..MaxTokens /\ calls' = calls /\ Going /\ InFrame("run")
  BY DEF HandleToken, Reading, ReadToken, Inv, Status, ConstantsAssumption
<1>2. PICK tok \in Tokens :
         \/ WordToken(tok) \/ NameToken(tok) \/ ModuleToken(tok)
         \/ StartDefinition(tok) \/ EndDefinition(tok) \/ MalformedToken(tok)
  BY DEF HandleToken
<1>3. tok \in Token
  BY DEF ConstantsAssumption
<1>4. CASE WordToken(tok)
  <2>1. tok.w \in Word /\ WordRefers(tok.w, Len(heap))
    BY <1>3, <1>4 DEF WordToken, Token, Word, PushWord, PlainWord, WordRefers, NameOp, Builtin
  <2> QED
    BY <1>1, <1>4, <2>1, HandleWordInv DEF WordToken
<1>5. CASE MalformedToken(tok)
  BY <1>1, <1>5, FailInv DEF MalformedToken, Error
<1> QED
  BY <1>1, <1>2, <1>3, <1>4, <1>5, NameTokenInv, ModuleTokenInv, StartDefinitionInv,
     EndDefinitionInv

-----------------------------------------------------------------------------
(***************************************************************************)
(* Leaving a run, and the frames a nested activation has returned to.      *)
(***************************************************************************)
\* Leaving a run takes away its own tokenizer.
LEMMA LeaveRunInv ==
    ASSUME Inv, InFrame("run"), NEW e \in Error \cup {"ok"}, LeaveRun(e),
           e = "ok" => ~is_compiling
    PROVE  Inv'
<1>1. Len(heap) \in Nat /\ CallStack(control, tokenizer_stack, Len(heap))
  BY DEF Inv, Ready
<1>2. CallStack(control', tokenizer_stack', Len(heap))
  BY <1>1, PopRunFrame DEF LeaveRun, InFrame
<1>3. Ready(control)'
  BY <1>2 DEF Inv, Ready, LeaveRun
<1>4. Compiling' /\ Definitions'
  BY DEF Inv, Compiling, CompileStateAgrees, Definitions, LeaveRun, compileVars
<1>5. Status'
  BY DEF Inv, Status, NothingOpenAtEnd, Going, LeaveRun, compileVars, budget
<1> QED
  BY <1>3, <1>4, <1>5 DEF Inv

\* What is known of the frame a step of FrameStep works on.
LEMMA FrameFacts ==
    ASSUME Inv, ~Idle, Frame.k \notin {"run", "module"}
    PROVE  /\ Frame \in WordFrames(Len(heap))
           /\ Len(heap) \in Nat
           /\ Ready(Rest(control))
           /\ Executing(Rest(control))
<1>1. /\ Len(heap) \in Nat
      /\ CallStack(control, tokenizer_stack, Len(heap))
      /\ control \in Seq(Frames) /\ control # <<>>
  BY DEF Inv, Ready, CallStack, Idle
<1>2. Frame \in Frames /\ Len(control) \in 1..Len(control)
  BY <1>1, RestProperties DEF Frame
<1>3. Frame \in WordFrames(Len(heap))
  BY <1>1, <1>2 DEF WordFrames, Frame, Top, CallStack, FramesRefer
<1>4. CallStack(Rest(control), tokenizer_stack, Len(heap)) /\ Executing(Rest(control))
  BY <1>1, PopWordFrame DEF Frame
<1> QED
  BY <1>1, <1>3, <1>4 DEF Inv, Ready

\* A frame is of the kind its k says.
LEMMA FrameTypes ==
    ASSUME NEW n \in Nat, NEW f \in WordFrames(n)
    PROVE  /\ f.k = "def" => f.def \in 1..n /\ f.pc \in Nat \ {0} /\ f \in DefFrames
           /\ f.k = "memo" => f.def \in 1..n /\ f.push \in BOOLEAN
           /\ f.k = "try" => f.snapshot \in Seq(Value) /\ f.depth \in Nat \ {0}
           /\ f.k = "map" => /\ f \in MapFrames
                             /\ f.snapshot \in Seq(Value) /\ f.depth \in Nat \ {0}
                             /\ f.left \in Nat /\ f.into \in Value
BY DEF WordFrames, Frames, RunFrames, ModuleFrames, DefFrames, MemoFrames, TryFrames, MapFrames

\* Unwinding modules leaves at least the app module.
LEMMA UnwoundModules ==
    ASSUME NEW n \in Nat, ModuleStack(module_stack, n), NEW d \in Nat \ {0}
    PROVE  ModuleStack(UnwoundTo(d), n)
<1>1. Len(module_stack) \in Nat
  BY DEF ModuleStack
<1> QED
  BY <1>1, CutModules DEF UnwoundTo

\* Taking the payload leaves a stack of values.
LEMMA WithoutPayloadType ==
    ASSUME stack \in Seq(Value), NEW changed \in BOOLEAN
    PROVE  WithoutPayload(changed) \in Seq(Value)
BY RestProperties DEF WithoutPayload

\* One step of a frame of the call stack.
LEMMA FrameStepExecuted ==
    ASSUME ConstantsAssumption, Inv, FrameStep, ~InFrame("module"), ~MemoReturns
    PROVE  Executed /\ UNCHANGED compileVars /\ UNCHANGED budget
<1>1. UNCHANGED compileVars /\ UNCHANGED budget
  BY DEF FrameStep, DefinitionStep, DefinitionReturns, DefinitionFails, MemoFails, TryReturns,
         TryCatches, MapElement, MapElementReturns, MapCatches, MapFails, MapReturns,
         ModuleRunEnds
<1>2. Frame.k \in {"def", "memo", "try", "map"} /\ ~Idle
  BY DEF FrameStep, DefinitionStep, DefinitionReturns, DefinitionFails, MemoFails, TryReturns,
         TryCatches, MapElement, MapElementReturns, MapCatches, MapFails, MapReturns,
         ModuleRunEnds, InFrame, Idle, Frame
<1> DEFINE n == Len(heap)
           c == Rest(control)
<1>3. Frame \in WordFrames(n) /\ n \in Nat /\ Ready(c) /\ Executing(c)
  BY <1>2, FrameFacts
<1>4. stack \in Seq(Value) /\ heap \in Seq(CompiledDef) /\ ModuleStack(module_stack, n)
  BY DEF Inv, Ready
<1>5. stack # <<>> => Rest(stack) \in Seq(Value)
  BY <1>4, RestProperties
<1>6. \A s \in Seq(Value), v \in Value : Append(s, v) \in Seq(Value)
  OBVIOUS
<1>7. {"ok", "err"} \subseteq Value /\ ItemValues \subseteq Value
  BY DEF Value, ConstantsAssumption
<1>8. "StackUnderflow" \in Error /\ "WordExecution" \in Error /\ res \in Error \cup {"ok"}
  BY DEF Error, Inv, Status
<1>9. Failing => res \in Error
  BY <1>8 DEF Failing
<1> HIDE DEF c
<1>10. CASE DefinitionStep
  <2> DEFINE f == [Frame EXCEPT !.pc = @ + 1]
             w == heap[Frame.def].words[Frame.pc]
  <2>1. Frame.k = "def" /\ Frame.pc <= Len(heap[Frame.def].words) /\ Execute(w, Append(c, f))
    BY <1>10 DEF DefinitionStep, InFrame, Frame, c
  <2>2. Frame.def \in 1..n /\ Frame.pc \in Nat \ {0} /\ Frame \in DefFrames
    BY <1>3, <2>1, FrameTypes
  <2>3. f \in DefFrames /\ f.k = "def" /\ f.def = Frame.def
    BY <2>2 DEF DefFrames
  <2>4. f \in WordFrames(n)
    BY <2>2, <2>3 DEF WordFrames, Frames
  <2> HIDE DEF f
  <2>5. CallStack(Append(c, f), tokenizer_stack, n) /\ Executing(Append(c, f))
    BY <1>3, <2>4, PushWordFrame DEF Ready
  <2>6. Ready(Append(c, f))
    BY <1>4, <2>5 DEF Ready
  <2>7. heap[Frame.def] \in CompiledDef
    BY <1>4, <2>2, ElementOfSeq
  <2>8. heap[Frame.def].words \in Seq(Word)
    BY <2>7 DEF CompiledDef
  <2>9. Frame.pc \in 1..Len(heap[Frame.def].words)
    BY <2>1, <2>2, <2>8
  <2>10. w \in Word
    BY <2>8, <2>9, ElementOfSeq
  <2>11. RefsWithin(heap[Frame.def].words, Frame.def - 1)
    BY <2>2 DEF Inv, Definitions
  <2>12. WordRefers(w, n)
    BY <2>2, <2>9, <2>11, <1>3 DEF RefsWithin, WordRefers
  <2> QED
    BY <1>1, <2>1, <2>5, <2>6, <2>10, <2>12, ExecuteExecuted
<1>11. CASE DefinitionReturns
  BY <1>1, <1>3, <1>4, <1>11, ReturnsExecuted DEF DefinitionReturns, c
<1>12. CASE DefinitionFails
  BY <1>1, <1>3, <1>4, <1>8, <1>9, <1>12, RaisesExecuted DEF DefinitionFails, c
<1>13. CASE MemoFails
  BY <1>1, <1>3, <1>4, <1>9, <1>13, RaisesExecuted DEF MemoFails, c
<1>14. CASE TryReturns
  <2>1. PICK changed \in ChangedVerdicts(Frame.snapshot, stack) :
           Returns(c, Append(WithoutPayload(changed), "ok"))
    BY <1>14 DEF TryReturns, c
  <2>2. changed \in BOOLEAN
    BY DEF ChangedVerdicts
  <2>3. Append(WithoutPayload(changed), "ok") \in Seq(Value)
    BY <1>4, <1>6, <1>7, <2>2, WithoutPayloadType
  <2> QED
    BY <1>1, <1>3, <2>1, <2>3, ReturnsExecuted
<1>15. CASE TryCatches
  <2>1. Frame.snapshot \in Seq(Value) /\ Frame.depth \in Nat \ {0}
    BY <1>3, <1>15, FrameTypes DEF TryCatches, InFrame, Frame
  <2>2. ModuleStack(UnwoundTo(Frame.depth), n)
    BY <1>3, <1>4, <2>1, UnwoundModules
  <2> QED
    BY <1>1, <1>3, <1>6, <1>7, <1>15, <2>1, <2>2 DEF TryCatches, Executed, Ready, c
<1>16. CASE MapElement
  <2>1. PICK v \in ItemValues :
           Runs(Append(c, [Frame EXCEPT !.busy = TRUE, !.snapshot = stack,
                                        !.depth = Len(module_stack)]),
                Append(stack, v))
    BY <1>16 DEF MapElement, c
  <2> DEFINE f == [Frame EXCEPT !.busy = TRUE, !.snapshot = stack,
                                !.depth = Len(module_stack)]
  <2>2. Frame \in MapFrames /\ Frame.k = "map"
    BY <1>3, <1>16, FrameTypes DEF MapElement, InFrame, Frame
  <2>3. Len(module_stack) \in Nat \ {0}
    BY <1>4, EmptySeq DEF ModuleStack
  <2>4. f \in MapFrames /\ f.k = "map"
    <3>1. Frame.left > 0
      BY <1>16 DEF MapElement
    <3> QED
      BY <2>2, <2>3, <3>1, <1>4 DEF MapFrames
  <2>5. f \in WordFrames(n)
    BY <2>4 DEF WordFrames, Frames
  <2> HIDE DEF f
  <2>6. CallStack(Append(c, f), tokenizer_stack, n)
    BY <1>3, <2>5, PushWordFrame DEF Ready
  <2>7. Ready(Append(c, f))
    BY <1>4, <2>6 DEF Ready
  <2>8. Append(stack, v) \in Seq(Value)
    BY <1>4, <1>6, <1>7
  <2> QED
    BY <1>1, <2>1, <2>7, <2>8, RunsExecuted DEF f
<1>17. ASSUME InFrame("map"), Frame.busy
       PROVE  /\ CallStack(Append(c, NextElement), tokenizer_stack, n)
              /\ Executing(Append(c, NextElement))
              /\ Ready(Append(c, NextElement))
              /\ Frame.snapshot \in Seq(Value) /\ Frame.depth \in Nat \ {0}
  <2>1. Frame \in MapFrames /\ Frame.k = "map" /\ Frame.left \in Nat
    BY <1>3, <1>17, FrameTypes DEF InFrame, Frame
  <2>2. Frame.left - 1 \in Nat
    BY <2>1, <1>17 DEF MapFrames
  <2>3. NextElement \in MapFrames /\ NextElement.k = "map"
    BY <2>1, <2>2 DEF NextElement, MapFrames
  <2>4. NextElement \in WordFrames(n)
    BY <2>3 DEF WordFrames, Frames
  <2>5. CallStack(Append(c, NextElement), tokenizer_stack, n) /\ Executing(Append(c, NextElement))
    BY <1>3, <2>4, PushWordFrame DEF Ready
  <2>6. Frame.snapshot \in Seq(Value) /\ Frame.depth \in Nat \ {0}
    BY <2>1 DEF MapFrames
  <2> QED
    BY <1>4, <2>5, <2>6 DEF Ready
<1>18. CASE MapElementReturns
  <2>1. InFrame("map") /\ Frame.busy
    BY <1>18 DEF MapElementReturns
  <2>2. ASSUME NEW changed \in ChangedVerdicts(Frame.snapshot, stack),
               Returns(Append(c, NextElement), WithoutPayload(changed))
        PROVE  Executed
    <3>1. changed \in BOOLEAN
      BY DEF ChangedVerdicts
    <3> QED
      BY <1>4, <1>17, <2>1, <2>2, <3>1, WithoutPayloadType, ReturnsExecuted
  <2>3. CASE stack # <<>> /\ Returns(Append(c, NextElement), Rest(stack))
    BY <1>1, <1>5, <1>17, <2>1, <2>3, ReturnsExecuted
  <2>4. CASE Raises(c, stack, "StackUnderflow")
    BY <1>1, <1>3, <1>4, <1>8, <2>4, RaisesExecuted
  <2> QED
    BY <1>1, <1>18, <2>2, <2>3, <2>4 DEF MapElementReturns, c
<1>19. CASE MapCatches
  <2>1. InFrame("map") /\ Frame.busy
    BY <1>19 DEF MapCatches
  <2>2. ModuleStack(UnwoundTo(Frame.depth), n)
    BY <1>3, <1>4, <1>17, <2>1, UnwoundModules
  <2> QED
    BY <1>1, <1>17, <1>19, <2>1, <2>2 DEF MapCatches, Executed, Ready, c
<1>20. CASE MapFails
  BY <1>1, <1>3, <1>4, <1>9, <1>20, RaisesExecuted DEF MapFails, c
<1>21. CASE MapReturns
  <2>1. Frame.into \in Value
    BY <1>3, <1>21, FrameTypes DEF MapReturns, InFrame, Frame
  <2> QED
    BY <1>1, <1>3, <1>4, <1>6, <1>21, <2>1, ReturnsExecuted DEF MapReturns, c
<1> QED
  BY <1>10, <1>11, <1>12, <1>13, <1>14, <1>15, <1>16, <1>18, <1>19, <1>20, <1>21
     DEF FrameStep, ModuleRunEnds

\* Caching a value keeps the definitions well formed.
LEMMA MemoReturnsInv ==
    ASSUME Inv, MemoReturns
    PROVE  Inv'
<1> DEFINE n == Len(heap)
           c == Rest(control)
           i == Frame.def
<1>1. UNCHANGED compileVars /\ UNCHANGED budget /\ Frame.k = "memo" /\ ~Idle
  BY DEF MemoReturns, InFrame, Idle, Frame
<1>2. Frame \in WordFrames(n) /\ n \in Nat /\ Ready(c) /\ Executing(c)
  BY <1>1, FrameFacts
<1>3. i \in 1..n
  BY <1>1, <1>2, FrameTypes
<1>4. stack \in Seq(Value) /\ heap \in Seq(CompiledDef)
  BY DEF Inv, Ready
<1>5. CASE Raises(c, stack, "StackUnderflow")
  <2>1. Executed
    BY <1>2, <1>4, <1>5, RaisesExecuted DEF Error
  <2> QED
    BY <1>1, <2>1, ExecutedInv DEF budget, Inv, Status
<1>6. CASE stack # <<>> /\ ~Raises(c, stack, "StackUnderflow")
  <2> DEFINE e == [heap[i] EXCEPT !.cache = Top(stack)]
  <2>1. /\ heap' = [heap EXCEPT ![i] = e]
        /\ stack' \in Seq(Value)
        /\ control' = c
        /\ UNCHANGED <<tokenizer_stack, module_stack, res>>
    <3>1. Rest(stack) \in Seq(Value)
      BY <1>4, <1>6, RestProperties
    <3> QED
      BY <1>4, <1>6, <3>1 DEF MemoReturns
  <2>2. heap[i] \in CompiledDef /\ Top(stack) \in Value
    BY <1>3, <1>4, <1>6, ElementOfSeq, RestProperties
  <2>3. e \in CompiledDef /\ e.words = heap[i].words
    BY <2>2 DEF CompiledDef
  <2> HIDE DEF e
  <2>4. /\ heap' \in Seq(CompiledDef) /\ Len(heap') = n /\ heap'[i] = e
        /\ \A j \in 1..n : j # i => heap'[j] = heap[j]
    BY <1>3, <1>4, <2>1, <2>3, ExceptProperties
  <2>5. Ready(control)'
    BY <1>2, <2>1, <2>4 DEF Ready
  <2>6. Compiling'
    BY <1>1, <2>4 DEF Inv, Compiling, CompileStateAgrees, compileVars
  <2>7. Definitions'
    <3> SUFFICES ASSUME NEW j \in 1..n PROVE RefsWithin(heap'[j].words, j - 1)
      BY <2>4 DEF Definitions
    <3>1. heap'[j].words = heap[j].words
      BY <2>3, <2>4
    <3> QED
      BY <3>1 DEF Inv, Definitions
  <2>8. Status'
    BY <1>1, <1>2, <2>1 DEF Inv, Status, NothingOpenAtEnd, Executing, budget
  <2> QED
    BY <2>5, <2>6, <2>7, <2>8 DEF Inv
<1> QED
  BY <1>5, <1>6 DEF MemoReturns

\* Popping the module of a module run keeps the invariant.
LEMMA ModuleRunEndsInv ==
    ASSUME Inv, ModuleRunEnds
    PROVE  Inv'
<1> DEFINE n == Len(heap)
           c == Rest(control)
<1>1. /\ n \in Nat /\ CallStack(control, tokenizer_stack, n)
      /\ ModuleStack(module_stack, n)
      /\ control \in Seq(Frames) /\ control # <<>> /\ Top(control).k = "module"
  BY DEF Inv, Ready, CallStack, ModuleRunEnds, InFrame
<1>2. Len(control) = 1 /\ Len(control) \in Nat
  <2>1. Len(control) \in Nat \ {0}
    BY <1>1, EmptySeq
  <2>2. \A d \in 2..Len(control) : control[d].k # "module"
    BY <1>1 DEF CallStack, HostAtBottom
  <2> QED
    <3>1. control[Len(control)].k = "module"
      BY <1>1 DEF Top
    <3>2. ~(Len(control) \in 2..Len(control))
      BY <2>2, <3>1
    <3>3. \A m \in Nat \ {0} : ~(m \in 2..m) => m = 1
      OBVIOUS
    <3> QED
      BY <2>1, <3>2, <3>3
<1>3. c \in Seq(Frames) /\ Len(c) = 0
  BY <1>1, <1>2, RestProperties
<1>4. c = <<>>
  BY <1>3, EmptySeq
<1>5. CallStack(c, tokenizer_stack, n)
  <2>1. Len(tokenizer_stack) = 0
    <3>1. SUFFICES ASSUME NEW i \in 1..Len(tokenizer_stack) PROVE FALSE
      BY <1>1 DEF CallStack
    <3>2. tokenizer_stack[i] = 1 /\ control[tokenizer_stack[i]].k = "run"
      BY <1>1, <1>2 DEF CallStack, OwnTokenizers
    <3> QED
      BY <3>2, <1>1, <1>2 DEF Top
  <2> QED
    BY <1>1, <1>3, <1>4, <2>1 DEF CallStack, OwnTokenizers, HostAtBottom, FramesRefer
<1>6. /\ control' = c
      /\ UNCHANGED <<stack, tokenizer_stack, compileVars, heap, budget>>
  BY DEF ModuleRunEnds
<1>7. ModuleStack(module_stack', n)
  <2>1. Len(module_stack) \in Nat
    BY <1>1 DEF ModuleStack
  <2>2. CASE Len(module_stack) <= 1
    BY <1>1, <2>2 DEF ModuleRunEnds
  <2>3. CASE ~(Len(module_stack) <= 1)
    <3>1. Len(module_stack) - 1 \in 1..Len(module_stack)
      BY <2>1, <2>3
    <3> QED
      BY <1>1, <2>3, <3>1, CutModules DEF ModuleRunEnds, Rest
  <2> QED
    BY <2>2, <2>3
<1>8. Ready(control)'
  BY <1>5, <1>6, <1>7 DEF Inv, Ready
<1>9. Compiling' /\ Definitions'
  BY <1>6 DEF Inv, Compiling, CompileStateAgrees, Definitions, compileVars
<1>10. Status'
  <2>1. res' \in Error \cup {"ok"} /\ (res' = "ok" => Going)
    BY DEF ModuleRunEnds, Error
  <2>2. Going => ~is_compiling
    BY <1>1 DEF Inv, Status, NothingOpenAtEnd
  <2> QED
    BY <1>6, <2>1, <2>2 DEF Inv, Status, NothingOpenAtEnd, Going, compileVars, budget
<1> QED
  BY <1>8, <1>9, <1>10 DEF Inv

-----------------------------------------------------------------------------
(***************************************************************************)
(* The host.                                                               *)
(***************************************************************************)
\* Every call of the host keeps the invariant, whatever the last one left.
LEMMA HostCallInv ==
    ASSUME ConstantsAssumption, Inv, HostCall
    PROVE  Inv'
<1> DEFINE n == Len(heap)
<1>1. calls' \in 0..MaxCalls /\ fuel' = fuel /\ control = <<>> /\ fuel \in 0..MaxTokens
  BY DEF HostCall, HostRun, HostRunsModule, HostResets, CallFromHost, Inv, Status,
         ConstantsAssumption, Idle
<1>2. /\ n \in Nat /\ CallStack(<<>>, tokenizer_stack, n) /\ ModuleStack(module_stack, n)
      /\ stack \in Seq(Value) /\ heap \in Seq(CompiledDef)
  BY <1>1 DEF Inv, Ready
<1>3. CASE HostRun
  <2>1. Ready(<<>>)
    BY <1>2 DEF Ready
  <2>2. Executed /\ UNCHANGED compileVars
    BY <1>2, <1>3, <2>1, RunsExecuted DEF HostRun
  <2> QED
    BY <1>1, <2>2, ExecutedInv
<1>4. ASSUME NEW m \in ModName, HostRunsModule(m) PROVE Inv'
  <2>1. /\ module_stack' = Append(module_stack, EmptyModule(m))
        /\ control' = <<ModuleFrame, RunFrame>>
        /\ tokenizer_stack' = Append(tokenizer_stack, 2)
        /\ res' = "ok"
        /\ UNCHANGED <<stack, compileVars, heap>>
    BY <1>4 DEF HostRunsModule
  <2>2. ModuleStack(module_stack', n)
    BY <1>2, <2>1, EmptyModuleType, PushModule
  <2>3. Len(module_stack) \in Nat
    BY <1>2 DEF ModuleStack
  <2>4. ModuleFrame \in Frames /\ ModuleFrame.k = "module"
    BY <2>3 DEF ModuleFrame, Frames, ModuleFrames
  <2>5. CallStack(<<ModuleFrame>>, tokenizer_stack, n)
    <3>1. tokenizer_stack \in Seq(Nat) /\ Len(tokenizer_stack) = 0
      <4>1. tokenizer_stack \in Seq(Nat)
        BY <1>2 DEF CallStack
      <4>2. \A i \in 1..Len(tokenizer_stack) : FALSE
        BY <1>2 DEF CallStack, OwnTokenizers
      <4> QED
        BY <4>1, <4>2, LenProperties
    <3>2. <<ModuleFrame>> \in Seq(Frames) /\ Len(<<ModuleFrame>>) = 1
          /\ <<ModuleFrame>>[1] = ModuleFrame
      BY <2>4
    <3>3. OwnTokenizers(<<ModuleFrame>>, tokenizer_stack)
      BY <2>4, <3>1, <3>2 DEF OwnTokenizers
    <3>4. HostAtBottom(<<ModuleFrame>>) /\ FramesRefer(<<ModuleFrame>>, n)
      BY <2>4, <3>2 DEF HostAtBottom, FramesRefer
    <3> QED
      BY <3>1, <3>2, <3>3, <3>4 DEF CallStack
  <2>6. CallStack(Append(<<ModuleFrame>>, RunFrame), Append(tokenizer_stack, 1 + 1), n)
    <3>1. Len(<<ModuleFrame>>) = 1
      OBVIOUS
    <3> QED
      BY <1>2, <2>5, <3>1, PushRunFrame
  <2>7. CallStack(control', tokenizer_stack', n)
    <3>1. control' = Append(<<ModuleFrame>>, RunFrame)
      BY <2>1
    <3>2. 1 + 1 = 2
      OBVIOUS
    <3> QED
      BY <2>1, <2>6, <3>1, <3>2
  <2>8. Ready(control)'
    BY <1>2, <2>1, <2>2, <2>7 DEF Ready
  <2>9. Compiling' /\ Definitions'
    BY <2>1 DEF Inv, Compiling, CompileStateAgrees, Definitions, compileVars
  <2>10. control' # <<>> /\ Top(control').k = "run"
    BY <2>1 DEF Top, RunFrame
  <2>11. Status'
    BY <1>1, <2>1, <2>10 DEF Status, NothingOpenAtEnd, Error
  <2> QED
    BY <2>8, <2>9, <2>11 DEF Inv
<1>5. CASE HostResets
  <2>1. ModuleStack(module_stack', n)
    <3>1. EmptyModule(AppName) \in Module /\ WordsRefer(EmptyModule(AppName), n)
          /\ EmptyModule(AppName).name = AppName
      BY <1>2, EmptyModuleType DEF EmptyModule
    <3> QED
      BY <3>1, <1>5 DEF HostResets, ModuleStack
  <2>2. CallStack(control', tokenizer_stack', n)
    BY <1>1, <1>5 DEF HostResets, CallStack, OwnTokenizers, HostAtBottom, FramesRefer
  <2>3. Ready(control)'
    BY <1>2, <1>5, <2>1, <2>2 DEF HostResets, Ready
  <2>4. Compiling'
    <3>1. NoDefinition.words = <<>> /\ RefsWithin(<<>>, n)
      BY DEF NoDefinition, RefsWithin
    <3> QED
      BY <3>1, <1>5 DEF HostResets, Compiling, CompileStateAgrees
  <2>5. Definitions' /\ Status'
    BY <1>1, <1>5 DEF Inv, HostResets, Definitions, Status, NothingOpenAtEnd, Error
  <2> QED
    BY <2>3, <2>4, <2>5 DEF Inv
<1> QED
  BY <1>3, <1>4, <1>5 DEF HostCall

-----------------------------------------------------------------------------
\* The invariant is inductive.
LEMMA NextInv == ConstantsAssumption /\ Inv /\ [Next]_vars => Inv'
<1> SUFFICES ASSUME ConstantsAssumption, Inv, [Next]_vars PROVE Inv'
  OBVIOUS
<1>1. CASE HandleToken
  BY <1>1, HandleTokenInv
<1>2. CASE EndOfStream
  BY <1>2, LeaveRunInv DEF EndOfStream, Error
<1>3. CASE RunFails
  BY <1>3, LeaveRunInv DEF RunFails, Failing, Inv, Status
<1>4. CASE FrameStep
  <2>1. CASE MemoReturns
    BY <2>1, MemoReturnsInv
  <2>2. CASE ModuleRunEnds
    BY <2>2, ModuleRunEndsInv
  <2>3. CASE ~MemoReturns /\ ~ModuleRunEnds
    <3>1. ~InFrame("module")
      BY <1>4, <2>3 DEF FrameStep, DefinitionStep, DefinitionReturns, DefinitionFails,
         MemoFails, TryReturns, TryCatches, MapElement, MapElementReturns, MapCatches,
         MapFails, MapReturns, InFrame
    <3>2. Executed /\ UNCHANGED compileVars /\ UNCHANGED budget
      BY <1>4, <2>3, <3>1, FrameStepExecuted
    <3> QED
      BY <3>2, ExecutedInv DEF budget, Inv, Status
  <2> QED
    BY <2>1, <2>2, <2>3
<1>5. CASE HostCall
  BY <1>5, HostCallInv
<1>6. CASE UNCHANGED vars
  BY <1>6 DEF vars, compileVars, budget, Inv, Ready, Compiling, CompileStateAgrees,
     Definitions, Status, NothingOpenAtEnd, Going
<1> QED
  BY <1>1, <1>2, <1>3, <1>4, <1>5, <1>6 DEF Next, InterpreterStep

\* The interpreter is always well formed, however often and whatever the host
\* calls, and whatever fails.
THEOREM Invariance == Spec => []Inv
<1>1. Init => Inv
  BY InitInv, ConstantsAssumption
<1>2. Inv /\ [Next]_vars => Inv'
  BY NextInv, ConstantsAssumption
<1> QED
  BY <1>1, <1>2, PTL DEF Spec

\* Type correctness of the interpreter's fields and of the call stack.
THEOREM TypeCorrect == Spec => []TypeOK
<1>1. Inv => TypeOK
  BY DEF Inv, Ready, ModuleStack, CallStack, Compiling, Status, TypeOK
<1> QED
  BY <1>1, Invariance, PTL

\* The module stack always has the app module at its bottom: cur_module() and
\* module_stack[0] never panic.
THEOREM AppModuleAtBottom == Spec => []AppModuleStays
<1>1. Inv => AppModuleStays
  BY DEF Inv, Ready, ModuleStack, AppModuleStays
<1> QED
  BY <1>1, Invariance, PTL

\* is_compiling is set exactly when there is a definition to compile into.
THEOREM CompileState == Spec => []CompileStateAgrees
<1>1. Inv => CompileStateAgrees
  BY DEF Inv, Compiling
<1> QED
  BY <1>1, Invariance, PTL

\* Every run reads from its own tokenizer.
THEOREM OwnTokenizer == Spec => []TokenizersBelongToRuns
<1>1. Inv => TokenizersBelongToRuns
  BY DEF Inv, Ready, CallStack, TokenizersBelongToRuns
<1> QED
  BY <1>1, Invariance, PTL

\* No definition calls itself or a younger one, and no reference dangles.
THEOREM NoRecursion == Spec => []CallsGoBack
<1>1. Inv => CallsGoBack
  BY DEF Inv, Ready, CallStack, ModuleStack, FramesRefer, WordsRefer, Compiling,
     Definitions, CallsGoBack
<1> QED
  BY <1>1, Invariance, PTL

\* A call that returns Ok leaves no definition open.
THEOREM OkClosesDefinitions == Spec => []OkMeansNothingOpen
<1>1. Inv => OkMeansNothingOpen
  BY DEF Inv, Status, NothingOpenAtEnd, OkMeansNothingOpen, Idle
<1> QED
  BY <1>1, Invariance, PTL

\* The compile state is sound across failed, caught and reset code.
THEOREM CompileStateSound == Spec => []CompileStateIsSound
<1>1. CompileStateAgrees /\ OkMeansNothingOpen => CompileStateIsSound
  BY DEF CompileStateIsSound
<1> QED
  BY <1>1, CompileState, OkClosesDefinitions, PTL

-----------------------------------------------------------------------------
(***************************************************************************)
(* What no step may do.                                                    *)
(***************************************************************************)
\* While an error is on its way, the only steps are those that pass it on or
\* catch it.
LEMMA FailingSteps ==
    ASSUME Failing, control # <<>>, Next
    PROVE  RunFails \/ DefinitionFails \/ MemoFails \/ TryCatches \/ MapCatches
              \/ MapFails \/ ModuleRunEnds
BY DEF Next, InterpreterStep, HandleToken, Reading, EndOfStream, FrameStep,
   DefinitionStep, DefinitionReturns, MemoReturns, TryReturns, MapElement,
   MapElementReturns, MapReturns, HostCall, HostRun, HostRunsModule, HostResets,
   CallFromHost, Idle, Going, Failing

\* A stop that nothing catches stays a stop, in whatever activation it is.
THEOREM StopsPassThrough == Spec => StopPassesThrough
<1> DEFINE A == res = "IntentionalStop" /\ ~Idle /\ ~Catching /\ ~InFrame("module")
                   => res' = res
<1>1. ASSUME Next, res = "IntentionalStop", ~Idle, ~Catching, ~InFrame("module")
      PROVE  res' = res
  <2>1. RunFails \/ DefinitionFails \/ MemoFails \/ MapFails
    <3>1. Failing /\ control # <<>>
      BY <1>1 DEF Failing, Idle
    <3>2. ~TryCatches /\ ~MapCatches /\ ~ModuleRunEnds
      BY <1>1 DEF TryCatches, MapCatches, ModuleRunEnds, Catching
    <3> QED
      BY <1>1, <3>1, <3>2, FailingSteps
  <2> QED
    BY <1>1, <2>1 DEF RunFails, LeaveRun, DefinitionFails, MemoFails, MapFails, Raises
<1>2. [Next]_vars => [A]_vars
  BY <1>1
<1> QED
  BY <1>2, PTL DEF Spec, StopPassesThrough

\* A prefix of the stack is found again below what was pushed on it.
LEMMA AppendedPrefix ==
    ASSUME NEW S, NEW s \in Seq(S), NEW e \in S
    PROVE  SubSeq(Append(s, e), 1, Len(s)) = s /\ SubSeq(s, 1, Len(s)) = s
OBVIOUS

\* What a frame that catches errors remembers.
LEMMA CatchingFrame ==
    ASSUME Inv, control # <<>>, Frame.k \in {"try", "map"}
    PROVE  Frame.snapshot \in Seq(Value) /\ Frame.depth \in Nat \ {0}
<1>1. control \in Seq(Frames)
  BY DEF Inv, Ready, CallStack
<1>2. Frame \in Frames
  BY <1>1, RestProperties DEF Frame
<1> QED
  BY <1>2 DEF Frames, RunFrames, ModuleFrames, DefFrames, MemoFrames, TryFrames, MapFrames

\* An error that is caught, and is not a stop, leaves the data stack as the
\* activation found it, no module more, and the tokenizers of the runs that go on.
THEOREM CaughtErrors == Spec => CaughtErrorsRestore
<1> DEFINE A == Failing /\ res # "IntentionalStop" /\ Catching =>
                  /\ res' = "ok"
                  /\ SubSeq(stack', 1, Len(Frame.snapshot)) = Frame.snapshot
                  /\ Len(module_stack') <= Frame.depth
                  /\ tokenizer_stack' = tokenizer_stack
<1>1. ASSUME Inv, Next, Failing, Catching PROVE A
  <2>1. control # <<>> /\ Frame.k \in {"try", "map"}
    BY <1>1 DEF Catching, InFrame, Frame
  <2>2. Frame.snapshot \in Seq(Value) /\ Frame.depth \in Nat \ {0}
    BY <1>1, <2>1, CatchingFrame
  <2>3. TryCatches \/ MapCatches
    <3>1. ~RunFails /\ ~DefinitionFails /\ ~MemoFails /\ ~ModuleRunEnds
      BY <2>1 DEF RunFails, DefinitionFails, MemoFails, ModuleRunEnds, InFrame, Frame
    <3>2. ~MapFails
      BY <1>1 DEF MapFails, Catching, InFrame
    <3> QED
      BY <1>1, <2>1, <3>1, <3>2, FailingSteps
  <2>4. Len(UnwoundTo(Frame.depth)) <= Frame.depth
    <3>1. module_stack \in Seq(Module) /\ Len(module_stack) \in Nat
      BY <1>1 DEF Inv, Ready, ModuleStack
    <3> QED
      BY <2>2, <3>1 DEF UnwoundTo
  <2>5. stack' = Append(Frame.snapshot, "err") \/ stack' = Frame.snapshot
    BY <2>3 DEF TryCatches, MapCatches
  <2>6. SubSeq(stack', 1, Len(Frame.snapshot)) = Frame.snapshot
    <3>1. "err" \in Value
      BY DEF Value
    <3> QED
      BY <2>2, <2>5, <3>1, AppendedPrefix
  <2> QED
    BY <2>3, <2>4, <2>6 DEF TryCatches, MapCatches
<1>2. Inv /\ [Next]_vars => [A]_vars
  BY <1>1
<1> QED
  BY <1>2, Invariance, PTL DEF Spec, CaughtErrorsRestore

\* Executing a word leaves the definitions alone, and only the words of modules
\* touch the module stack.
LEMMA ExecuteLeaves ==
    ASSUME NEW w, NEW c, Execute(w, c)
    PROVE  /\ heap' = heap
           /\ module_stack' = module_stack \/ StartModule(w, c) \/ EndModule(w, c)
<1>1. CASE StartModule(w, c) \/ EndModule(w, c)
  BY <1>1 DEF StartModule, EndModule
<1>2. CASE PushValue(w, c) \/ Drop(w, c) \/ Dup(w, c) \/ EndArray(w, c)
  BY <1>2 DEF PushValue, Drop, Dup, EndArray, Returns, Raises, Underflow
<1>3. CASE Call(w, c) \/ Refresh(w, c)
  BY <1>3 DEF Call, Refresh, Returns
<1>4. CASE Run(w, c) \/ Try(w, c)
  BY <1>4 DEF Run, Try, Returns, Raises, Runs, Underflow
<1>5. CASE Map(w, c) \/ Unwrap(w, c) \/ PeekBang(w, c)
  BY <1>5 DEF Map, Unwrap, PeekBang, Returns, Raises, Underflow
<1> QED
  BY <1>1, <1>2, <1>3, <1>4, <1>5 DEF Execute

\* What a step does to the module stack, but for a reset.
ModulesStep ==
    \/ module_stack' = module_stack
    \/ \E w, c : StartModule(w, c) \/ EndModule(w, c)
    \/ \E tok : EndDefinition(tok)
    \/ \E d \in Nat \ {0} : module_stack' = UnwoundTo(d)
    \/ ModuleRunEnds
    \/ \E m : module_stack' = Append(module_stack, EmptyModule(m))

\* The steps that change definitions: a new one, and a value for a memo.
HeapStep ==
    \/ heap' = heap
    \/ \E d : heap' = Append(heap, d)
    \/ MemoReturns

\* Every step is one of them.
LEMMA StepLeaves ==
    ASSUME Inv, Next
    PROVE  (ModulesStep \/ HostResets) /\ HeapStep
<1>1. CASE HandleToken
  <2> PICK tok \in Tokens : \/ WordToken(tok) \/ NameToken(tok) \/ ModuleToken(tok)
                            \/ StartDefinition(tok) \/ EndDefinition(tok) \/ MalformedToken(tok)
    BY <1>1 DEF HandleToken
  <2>1. ASSUME NEW w, HandleWord(w) PROVE ModulesStep /\ heap' = heap
    BY <2>1, ExecuteLeaves DEF HandleWord, ModulesStep
  <2>2. CASE WordToken(tok)
    BY <2>2, <2>1 DEF WordToken, HeapStep
  <2>3. CASE NameToken(tok)
    BY <2>3, <2>1 DEF NameToken, Fail, Raises, HeapStep, ModulesStep
  <2>4. CASE ModuleToken(tok)
    <3>1. PICK w : StartModule(w, control) \/ EndModule(w, control)
      BY <2>4 DEF ModuleToken
    <3>2. heap' = heap
      BY <3>1 DEF StartModule, EndModule
    <3> QED
      BY <3>1, <3>2 DEF HeapStep, ModulesStep
  <2>5. CASE StartDefinition(tok)
    BY <2>5 DEF StartDefinition, Fail, Raises, HeapStep, ModulesStep
  <2>6. CASE EndDefinition(tok)
    <3>1. HeapStep
      BY <2>6 DEF EndDefinition, Fail, Raises, HeapStep
    <3> QED
      BY <2>6, <3>1 DEF ModulesStep
  <2>7. CASE MalformedToken(tok)
    BY <2>7 DEF MalformedToken, Fail, Raises, HeapStep, ModulesStep
  <2> QED
    BY <2>2, <2>3, <2>4, <2>5, <2>6, <2>7
<1>2. CASE EndOfStream \/ RunFails
  BY <1>2 DEF EndOfStream, RunFails, LeaveRun, HeapStep, ModulesStep
<1>3. CASE FrameStep
  <2>1. CASE DefinitionStep
    BY <2>1, ExecuteLeaves DEF DefinitionStep, HeapStep, ModulesStep
  <2>2. CASE TryCatches \/ MapCatches
    <3>1. Frame.k \in {"try", "map"} /\ control # <<>>
      BY <2>2 DEF TryCatches, MapCatches, InFrame, Frame
    <3>2. Frame.depth \in Nat \ {0}
      BY <3>1, CatchingFrame
    <3> QED
      BY <2>2, <3>2 DEF TryCatches, MapCatches, HeapStep, ModulesStep
  <2>3. CASE MemoReturns
    BY <2>3 DEF MemoReturns, Raises, HeapStep, ModulesStep
  <2>4. CASE ModuleRunEnds
    BY <2>4 DEF ModuleRunEnds, HeapStep, ModulesStep
  <2>5. CASE DefinitionReturns \/ DefinitionFails \/ MemoFails \/ TryReturns \/ MapElement
               \/ MapElementReturns \/ MapFails \/ MapReturns
    BY <2>5 DEF DefinitionReturns, DefinitionFails, MemoFails, TryReturns, MapElement,
       MapElementReturns, MapFails, MapReturns, Returns, Raises, Runs, HeapStep, ModulesStep
  <2> QED
    BY <1>3, <2>1, <2>2, <2>3, <2>4, <2>5 DEF FrameStep
<1>4. CASE HostCall
  BY <1>4 DEF HostCall, HostRun, HostRunsModule, HostResets, Runs, HeapStep, ModulesStep
<1> QED
  BY <1>1, <1>2, <1>3, <1>4 DEF Next, InterpreterStep

\* No step changes a finished definition but for the value of a memo.
FinishedStay ==
    \A i \in 1..Len(heap) :
        /\ heap'[i].words = heap[i].words /\ heap'[i].memo = heap[i].memo
        /\ heap'[i].cache # heap[i].cache =>
             Going /\ Frame.k = "memo" /\ Frame.def = i /\ heap'[i].cache # NoValue

LEMMA NextFinishedStay == ASSUME Inv, Next PROVE FinishedStay
<1> SUFFICES ASSUME NEW i \in 1..Len(heap)
             PROVE  /\ heap'[i].words = heap[i].words /\ heap'[i].memo = heap[i].memo
                    /\ heap'[i].cache # heap[i].cache =>
                         Going /\ Frame.k = "memo" /\ Frame.def = i /\ heap'[i].cache # NoValue
  BY DEF FinishedStay
<1>1. heap \in Seq(CompiledDef) /\ stack \in Seq(Value)
  BY DEF Inv, Ready
<1>2. HeapStep
  BY StepLeaves
<1>3. CASE heap' = heap
  BY <1>3
<1>4. ASSUME NEW d, heap' = Append(heap, d) PROVE heap'[i] = heap[i]
  BY <1>1, <1>4
<1>5. CASE MemoReturns /\ heap' # heap
  <2>1. /\ heap' = [heap EXCEPT ![Frame.def].cache = Top(stack)] /\ stack # <<>>
        /\ Going /\ Frame.k = "memo"
    BY <1>5 DEF MemoReturns, Raises, InFrame, Frame
  <2>2. Top(stack) \in Value
    BY <1>1, <2>1, RestProperties
  <2>3. heap[i] \in CompiledDef
    BY <1>1
  <2>4. CASE Frame.def = i
    <3>1. heap'[i] = [heap[i] EXCEPT !.cache = Top(stack)]
      BY <1>1, <2>1, <2>4
    <3>2. /\ heap'[i].words = heap[i].words /\ heap'[i].memo = heap[i].memo
          /\ heap'[i].cache = Top(stack)
      BY <2>3, <3>1 DEF CompiledDef
    <3> QED
      BY <2>1, <2>2, <2>4, <3>2 DEF Value, NoValue
  <2>5. CASE Frame.def # i
    BY <1>1, <2>1, <2>5
  <2> QED
    BY <2>4, <2>5
<1> QED
  BY <1>2, <1>3, <1>4, <1>5 DEF HeapStep

\* A definition that is finished keeps its words; the value of a memo changes only
\* where a refresh of that memo returns, and is never taken away.
THEOREM FinishedDefinitions == Spec => DefinitionsAreFinal
<1>1. Inv /\ [Next]_vars => [FinishedStay]_vars
  BY NextFinishedStay
<1> QED
  BY <1>1, Invariance, PTL DEF Spec, DefinitionsAreFinal, FinishedStay

\* Whatever a step does, the modules below the current one stay as they are.
THEOREM OtherModulesStay == Spec => OnlyCurrentModuleChanges
<1> DEFINE A == \A i \in 1..Len(module_stack) - 1 :
                  i <= Len(module_stack') => \/ module_stack'[i] = module_stack[i]
                                             \/ HostResets
<1>1. ASSUME Inv, Next PROVE A
  <2> SUFFICES ASSUME NEW i \in 1..Len(module_stack) - 1, i <= Len(module_stack'),
                      ModulesStep
               PROVE  module_stack'[i] = module_stack[i]
    BY <1>1, StepLeaves
  <2>1. /\ module_stack \in Seq(Module) /\ Len(module_stack) \in Nat
        /\ i \in 1..Len(module_stack) /\ i # Len(module_stack)
    BY <1>1 DEF Inv, Ready, ModuleStack
  <2>2. ASSUME NEW w, NEW c, StartModule(w, c) PROVE module_stack'[i] = module_stack[i]
    <3>1. CASE module_stack' = Append(module_stack, EmptyModule(AppName))
      BY <2>1, <3>1
    <3>2. CASE module_stack' = Append([module_stack EXCEPT ![Len(module_stack)].subs = @ \cup {w.m}],
                                      EmptyModule(w.m))
      <4> DEFINE ms == [module_stack EXCEPT ![Len(module_stack)].subs = @ \cup {w.m}]
      <4>1. \A T : module_stack \in Seq(T) => Len(ms) = Len(module_stack) /\ ms[i] = module_stack[i]
        BY <2>1
      <4>2. Append(ms, EmptyModule(w.m))[i] = ms[i]
        BY <2>1
      <4> QED
        BY <2>1, <3>2, <4>1, <4>2
    <3> QED
      BY <2>2, <3>1, <3>2 DEF StartModule
  <2>3. CASE module_stack' = Rest(module_stack)
    BY <2>1, <2>3 DEF Rest
  <2>4. ASSUME NEW tok, EndDefinition(tok) PROVE module_stack'[i] = module_stack[i]
    <3>1. CASE module_stack' = module_stack
      BY <3>1
    <3>2. CASE module_stack' # module_stack
      <4>1. PICK f : module_stack' = [module_stack EXCEPT ![Len(module_stack)].words = f]
        BY <2>4, <3>2 DEF EndDefinition, Fail, Raises
      <4> QED
        BY <2>1, <4>1
    <3> QED
      BY <3>1, <3>2
  <2>5. ASSUME NEW d \in Nat \ {0}, module_stack' = UnwoundTo(d)
        PROVE  module_stack'[i] = module_stack[i]
    BY <2>1, <2>5 DEF UnwoundTo
  <2>6. ASSUME NEW m, module_stack' = Append(module_stack, m)
        PROVE  module_stack'[i] = module_stack[i]
    BY <2>1, <2>6
  <2> QED
    BY <2>2, <2>3, <2>4, <2>5, <2>6 DEF ModulesStep, EndModule, ModuleRunEnds
<1>2. Inv /\ [Next]_vars => [A]_vars
  BY <1>1
<1> QED
  BY <1>2, Invariance, PTL DEF Spec, OnlyCurrentModuleChanges

-----------------------------------------------------------------------------
(***************************************************************************)
(* The three words of a memo.  ; adds all of them at once, nothing removes *)
(* a word, and a plain definition of the same name replaces F by a younger *)
(* definition: so F! and F!@ of a module are words of one memo, and F is   *)
(* that memo or younger.                                                   *)
(***************************************************************************)
\* words, the words of a module, are linked, for the definitions h.
Linked(words, h) ==
    \A n \in DefName :
        /\ words[<<n, "bang">>] = words[<<n, "bangat">>]
        /\ words[<<n, "bang">>] # 0 => /\ h[words[<<n, "bang">>]].memo
                                      /\ words[<<n, "call">>] >= words[<<n, "bang">>]

LEMMA LinkedModules ==
    MemoWordsComeTogether <=> \A i \in 1..Len(module_stack) : Linked(module_stack[i].words, heap)
BY DEF MemoWordsComeTogether, Linked

\* Modules whose words are those of linked modules, or none, are linked, also when
\* definitions are added.
LEMMA StillLinked ==
    ASSUME Inv, Next, NEW words, words \in [DefName \X NameOp -> Nat],
           \A x \in DefName \X NameOp : words[x] \in 0..Len(heap),
           Linked(words, heap)
    PROVE  Linked(words, heap')
<1> SUFFICES ASSUME NEW n \in DefName, words[<<n, "bang">>] # 0
             PROVE  heap'[words[<<n, "bang">>]].memo
  BY DEF Linked
<1>1. <<n, "bang">> \in DefName \X NameOp
  BY DEF NameOp
<1>2. words[<<n, "bang">>] \in 1..Len(heap)
  <2>1. Len(heap) \in Nat
    BY DEF Inv, Ready
  <2> QED
    BY <1>1, <2>1
<1>3. heap'[words[<<n, "bang">>]].memo = heap[words[<<n, "bang">>]].memo
  BY <1>2, NextFinishedStay DEF FinishedStay
<1> QED
  BY <1>3 DEF Linked

\* ; adds the words it adds to one module, for one new definition.
LEMMA EndDefinitionLinked ==
    ASSUME Inv, Next, MemoWordsComeTogether, NEW tok, EndDefinition(tok)
    PROVE  MemoWordsComeTogether'
<1>1. /\ heap \in Seq(CompiledDef) /\ Len(heap) \in Nat
      /\ module_stack \in Seq(Module) /\ Len(module_stack) \in 1..Len(module_stack)
      /\ \A i \in 1..Len(module_stack) : WordsRefer(module_stack[i], Len(heap))
      /\ is_memo_definition \in BOOLEAN
      /\ cur_definition \in [name : DefName, words : Seq(Word)] \cup {NoDefinition}
  BY EmptySeq DEF Inv, Ready, ModuleStack, Compiling
<1>2. \A i \in 1..Len(module_stack) :
         /\ module_stack[i].words \in [DefName \X NameOp -> Nat]
         /\ Linked(module_stack[i].words, heap)
  <2> TAKE i \in 1..Len(module_stack)
  <2>1. module_stack[i] \in Module
    BY <1>1
  <2>2. Linked(module_stack[i].words, heap)
    BY LinkedModules
  <2> QED
    BY <2>1, <2>2 DEF Module
<1>3. \A i \in 1..Len(module_stack) : Linked(module_stack[i].words, heap')
  BY <1>1, <1>2, StillLinked DEF WordsRefer
<1>4. CASE module_stack' = module_stack
  BY <1>3, <1>4 DEF MemoWordsComeTogether, Linked
<1>5. CASE module_stack' # module_stack
  <2> DEFINE top  == Len(module_stack)
             old  == module_stack[top].words
             name == cur_definition.name
             d    == [words |-> cur_definition.words, memo |-> is_memo_definition,
                      cache |-> NoValue]
             new  == [x \in DOMAIN old |-> IF x \in AddedWords(name)
                                            THEN Len(heap) + 1 ELSE old[x]]
  <2>1. /\ heap' = Append(heap, d)
        /\ module_stack' = [module_stack EXCEPT ![top].words = new]
        /\ cur_definition # NoDefinition
    BY <1>5 DEF EndDefinition, Fail, Raises
  <2>2. name \in DefName
    BY <1>1, <2>1
  <2>3. heap'[Len(heap) + 1].memo = is_memo_definition
    BY <1>1, <2>1
  <2>4. /\ DOMAIN old = DefName \X NameOp
        /\ \A x \in DOMAIN old : old[x] \in Nat /\ old[x] <= Len(heap)
    BY <1>1, <1>2 DEF WordsRefer
  <2>5. Linked(old, heap')
    BY <1>1, <1>3
  <2>6. Linked(new, heap')
    <3> SUFFICES ASSUME NEW n \in DefName
                 PROVE  /\ new[<<n, "bang">>] = new[<<n, "bangat">>]
                        /\ new[<<n, "bang">>] # 0 =>
                             /\ heap'[new[<<n, "bang">>]].memo
                             /\ new[<<n, "call">>] >= new[<<n, "bang">>]
      BY DEF Linked
    <3>1. /\ <<n, "call">> \in DOMAIN old /\ <<n, "bang">> \in DOMAIN old
          /\ <<n, "bangat">> \in DOMAIN old
      BY <2>4 DEF NameOp
    <3>2. CASE n # name
      <4>1. \A op : <<n, op>> \notin AddedWords(name)
        BY <3>2 DEF AddedWords
      <4>2. \A op \in NameOp : new[<<n, op>>] = old[<<n, op>>]
        BY <4>1, <2>4
      <4> QED
        BY <4>2, <2>5 DEF Linked, NameOp
    <3>3. CASE n = name /\ is_memo_definition
      <4>1. \A op \in NameOp : <<n, op>> \in AddedWords(name)
        BY <3>3 DEF AddedWords
      <4>2. \A op \in NameOp : new[<<n, op>>] = Len(heap) + 1
        BY <4>1, <2>4
      <4> HIDE DEF new
      <4>3. /\ new[<<n, "call">>] = Len(heap) + 1 /\ new[<<n, "bang">>] = Len(heap) + 1
            /\ new[<<n, "bangat">>] = Len(heap) + 1
        BY <4>2 DEF NameOp
      <4>4. heap'[new[<<n, "bang">>]].memo
        BY <4>3, <3>3, <2>3
      <4> QED
        BY <4>3, <4>4, <1>1
    <3>4. CASE n = name /\ ~is_memo_definition
      <4>1. /\ <<n, "call">> \in AddedWords(name)
            /\ <<n, "bang">> \notin AddedWords(name)
            /\ <<n, "bangat">> \notin AddedWords(name)
        BY <3>4 DEF AddedWords
      <4>2. /\ new[<<n, "call">>] = Len(heap) + 1
            /\ new[<<n, "bang">>] = old[<<n, "bang">>]
            /\ new[<<n, "bangat">>] = old[<<n, "bangat">>]
        BY <4>1, <3>1
      <4>3. old[<<n, "bang">>] \in Nat /\ old[<<n, "bang">>] <= Len(heap)
        BY <3>1, <2>4
      <4> HIDE DEF new, old
      <4>4. new[<<n, "call">>] >= new[<<n, "bang">>]
        BY <4>2, <4>3, <1>1
      <4> QED
        BY <4>2, <4>4, <2>5 DEF Linked
    <3> QED
      BY <3>2, <3>3, <3>4, <1>1
  <2> HIDE DEF new
  <2>7. ASSUME NEW i \in 1..Len(module_stack') PROVE Linked(module_stack'[i].words, heap')
    <3>1. i \in 1..Len(module_stack)
      BY <1>1, <2>1, <2>7
    <3>2. module_stack[i] \in Module
      BY <1>1, <3>1
    <3>3. CASE i = top
      <4>1. module_stack'[i].words = new
        BY <1>1, <2>1, <3>1, <3>2, <3>3 DEF Module
      <4> QED
        BY <4>1, <2>6
    <3>4. CASE i # top
      <4>1. module_stack'[i] = module_stack[i]
        BY <1>1, <2>1, <3>1, <3>4
      <4> QED
        BY <4>1, <3>1, <1>3
    <3> QED
      BY <3>3, <3>4
  <2> QED
    BY <2>7 DEF MemoWordsComeTogether, Linked
<1> QED
  BY <1>4, <1>5

\* Every module open after a step has the words of one that was open before it, or
\* none, unless the step ends a definition.
LEMMA WordsAreKept ==
    ASSUME Inv, Next, \A tok : ~EndDefinition(tok), NEW i \in 1..Len(module_stack')
    PROVE  \/ \E j \in 1..Len(module_stack) : module_stack'[i].words = module_stack[j].words
           \/ \E m : module_stack'[i] = EmptyModule(m)
<1>1. /\ module_stack \in Seq(Module) /\ Len(module_stack) \in Nat
      /\ Len(module_stack) \in 1..Len(module_stack)
  BY EmptySeq DEF Inv, Ready, ModuleStack
<1>2. CASE module_stack' = module_stack
  BY <1>2
<1>3. ASSUME NEW m, module_stack' = Append(module_stack, EmptyModule(m))
      PROVE  \/ module_stack'[i] = EmptyModule(m)
             \/ i \in 1..Len(module_stack) /\ module_stack'[i] = module_stack[i]
  BY <1>1, <1>3
<1>4. ASSUME NEW w, NEW c, StartModule(w, c), w.m # AppName
      PROVE  \/ module_stack'[i] = EmptyModule(w.m)
             \/ /\ i \in 1..Len(module_stack)
                /\ module_stack'[i].words = module_stack[i].words
  <2> DEFINE n  == Len(module_stack)
             ms == [module_stack EXCEPT ![n].subs = @ \cup {w.m}]
  <2>1. module_stack' = Append(ms, EmptyModule(w.m))
    BY <1>4 DEF StartModule
  <2>2. Len(ms) = n /\ DOMAIN ms = 1..n
    BY <1>1
  <2>3. CASE i = n + 1
    <3> DEFINE T == {ms[k] : k \in 1..n} \cup {EmptyModule(w.m)}
    <3>1. ms \in Seq(T) /\ EmptyModule(w.m) \in T
      <4>1. ms = [k \in 1..n |-> ms[k]]
        BY <2>2
      <4>2. ms \in [1..n -> T]
        BY <4>1, Zenon
      <4> HIDE DEF ms
      <4> QED
        BY <4>2, <1>1, SeqDef
    <3> HIDE DEF T, ms
    <3>2. Append(ms, EmptyModule(w.m))[Len(ms) + 1] = EmptyModule(w.m)
      BY <3>1, AppendFacts
    <3> QED
      BY <2>1, <2>2, <2>3, <3>2
  <2>4. CASE i \in 1..n
    <3>1. module_stack'[i] = ms[i]
      BY <2>1, <2>2, <2>4, <1>1
    <3>2. ms[i].words = module_stack[i].words
      <4>1. module_stack[i] \in Module
        BY <1>1, <2>4
      <4> QED
        BY <4>1, <1>1, <2>4 DEF Module
    <3> QED
      BY <3>1, <3>2, <2>4
  <2>5. Len(module_stack') = n + 1
    BY <2>1, <2>2, <1>1
  <2> QED
    BY <2>3, <2>4, <2>5, <1>1
<1>5. CASE module_stack' = Rest(module_stack)
  <2>1. i \in 1..Len(module_stack) /\ module_stack'[i] = module_stack[i]
    BY <1>1, <1>5 DEF Rest
  <2> QED
    BY <2>1
<1>6. ASSUME NEW d \in Nat \ {0}, module_stack' = UnwoundTo(d)
      PROVE  i \in 1..Len(module_stack) /\ module_stack'[i] = module_stack[i]
  BY <1>1, <1>6 DEF UnwoundTo
<1>7. CASE HostResets
  <2>1. module_stack' = <<EmptyModule(AppName)>>
    BY <1>7 DEF HostResets
  <2>2. module_stack'[i] = EmptyModule(AppName)
    BY <2>1
  <2> QED
    BY <2>2
<1>8. ASSUME NEW w, NEW c, StartModule(w, c), w.m = AppName
      PROVE  module_stack' = Append(module_stack, EmptyModule(AppName))
  BY <1>8 DEF StartModule
<1>9. ASSUME NEW w, NEW c, EndModule(w, c)
      PROVE  module_stack' = module_stack \/ module_stack' = Rest(module_stack)
  BY <1>9 DEF EndModule
<1>10. ModulesStep \/ HostResets
  BY StepLeaves
<1> QED
  BY <1>2, <1>3, <1>4, <1>5, <1>6, <1>7, <1>8, <1>9, <1>10 DEF ModulesStep, ModuleRunEnds

\* No step takes the three words of a memo apart.
LEMMA NextLinked ==
    ASSUME Inv, Next, MemoWordsComeTogether
    PROVE  MemoWordsComeTogether'
<1>1. CASE \E tok : EndDefinition(tok)
  BY <1>1, EndDefinitionLinked
<1>2. CASE \A tok : ~EndDefinition(tok)
  <2> SUFFICES ASSUME NEW i \in 1..Len(module_stack')
               PROVE  Linked(module_stack'[i].words, heap')
    BY DEF MemoWordsComeTogether, Linked
  <2>1. ASSUME NEW j \in 1..Len(module_stack),
               module_stack'[i].words = module_stack[j].words
        PROVE  Linked(module_stack'[i].words, heap')
    <3>1. module_stack \in Seq(Module) /\ WordsRefer(module_stack[j], Len(heap))
      BY DEF Inv, Ready, ModuleStack
    <3>2. module_stack[j] \in Module
      BY <3>1
    <3>3. Linked(module_stack[j].words, heap)
      BY LinkedModules
    <3> QED
      BY <3>1, <3>2, <3>3, <2>1, StillLinked DEF WordsRefer, Module
  <2>2. ASSUME NEW m, module_stack'[i] = EmptyModule(m)
        PROVE  Linked(module_stack'[i].words, heap')
    BY <2>2 DEF Linked, EmptyModule, NameOp
  <2> QED
    BY <1>2, <2>1, <2>2, WordsAreKept
<1> QED
  BY <1>1, <1>2

\* F! and F!@ exist only beside the memo they refresh, in every module, whatever is
\* defined after them.
THEOREM MemoWordsStay == Spec => []MemoWordsComeTogether
<1>1. Init => MemoWordsComeTogether
  BY DEF Init, MemoWordsComeTogether, EmptyModule, NameOp
<1>2. Inv /\ MemoWordsComeTogether /\ [Next]_vars => MemoWordsComeTogether'
  <2>1. ASSUME MemoWordsComeTogether, UNCHANGED vars PROVE MemoWordsComeTogether'
    BY <2>1 DEF MemoWordsComeTogether, vars
  <2> QED
    BY <2>1, NextLinked
<1> QED
  BY <1>1, <1>2, Invariance, PTL DEF Spec

\* References are there and older, and the words of a memo stay together.
THEOREM SoundReferences == Spec => []ReferencesAreSound
<1>1. CallsGoBack /\ MemoWordsComeTogether => ReferencesAreSound
  BY DEF ReferencesAreSound
<1> QED
  BY <1>1, NoRecursion, MemoWordsStay, PTL
=============================================================================
