-------------------------- MODULE BlockWords_proofs --------------------------
(***************************************************************************)
(* Proofs about the words that run code: what a call leaves on the stack   *)
(* when its code keeps to what it owes, and the order its error handlers   *)
(* are asked in, for all stacks, handlers, results and bounds.             *)
(***************************************************************************)
EXTENDS BlockWords, SequenceTheorems, WellFoundedInduction, TLAPS

-----------------------------------------------------------------------------
\* The inductive invariant.
\* b lies under all that is on s.
Under(b, s) == Len(b) <= Len(s) /\ \A i \in 1..Len(b) : s[i] = b[i]

\* t has what s had up to n.
Kept(n, s, t) == \A i \in 1..n : i <= Len(s) => i <= Len(t) /\ t[i] = s[i]

\* The height of the stack between two runs of a call.
Resting(f) == Len(f.below) + (IF f.word = "REDUCE" THEN 1 ELSE 0)

Fields == {"word", "options", "args", "begun", "got", "phase", "left", "err",
           "given", "asked", "below", "low", "base", "tidy"}

\* A call on the stack s, whatever it does.
GoodCall(f, s) ==
    /\ DOMAIN f = Fields
    /\ f.word \in Words /\ f.left \in 0..MaxSteps
    /\ IsSequence(f.below) /\ f.low \in Nat /\ f.base \in Nat /\ f.tidy \in BOOLEAN
    /\ f.tidy /\ f.low >= Len(f.below) => Under(f.below, s)

InCode(f) ==
    /\ f.phase = "code" /\ f.err = "none"
    /\ f.tidy => f.base = Resting(f)

InFailure(f) ==
    /\ f.phase = "failed" /\ f.err # "none"
    /\ f.given \in Seq(Handlers) /\ f.asked \in Seq(Handlers) /\ Under(f.asked, f.given)
    /\ f.err = "IntentionalStop" => f.given = <<>>

\* Calls that wait for the one they called, and calls of which the last may fail.
Running(cs, s) ==
    IsSequence(cs) /\ \A i \in 1..Len(cs) : GoodCall(cs[i], s) /\ InCode(cs[i])

GoodCalls(cs, s) ==
    /\ IsSequence(cs)
    /\ \A i \in 1..Len(cs) :
          GoodCall(cs[i], s) /\ (InCode(cs[i]) \/ (i = Len(cs) /\ InFailure(cs[i])))

BlockInv ==
    /\ IsSequence(stack) /\ GoodCalls(calls, stack)
    /\ handlers \in [Words -> Seq(Handlers)]
    /\ called \in 0..MaxCalls /\ Len(calls) <= called + 1 /\ edits \in 0..MaxEdits
    /\ StackEffects /\ HandlersInTurn

-----------------------------------------------------------------------------
\* Sequences whose elements may be anything.

\* A sequence over some set is one.
LEMMA SequenceOver ==
    ASSUME NEW S, NEW s \in Seq(S)
    PROVE  IsSequence(s) /\ Len(s) \in Nat /\ DOMAIN s = 1..Len(s)
<1>1. /\ Len(s) \in Nat /\ s \in [1..Len(s) -> S] /\ DOMAIN s = 1..Len(s)
    BY LenProperties
<1>2. \A i \in 1..Len(s) : s[i] \in ToSet(s)
    BY <1>1 DEF ToSet
<1>3. s \in [1..Len(s) -> ToSet(s)]
    BY <1>1, <1>2
<1> QED BY <1>1, <1>3, SeqDef DEF IsSequence

\* What its elements are, in terms the provers take.
LEMMA SequenceFacts ==
    ASSUME NEW s, IsSequence(s)
    PROVE  Len(s) \in Nat /\ DOMAIN s = 1..Len(s) /\ s \in Seq(ToSet(s))
<1>1. Len(s) \in Nat /\ s = [i \in 1..Len(s) |-> s[i]]
    BY DEF IsSequence
<1>2. DOMAIN s = 1..Len(s)
    BY <1>1
<1>3. \A i \in 1..Len(s) : s[i] \in ToSet(s)
    BY <1>2 DEF ToSet
<1>4. s \in [1..Len(s) -> ToSet(s)]
    BY <1>1, <1>3
<1> QED BY <1>1, <1>2, <1>4, SeqDef

\* The empty sequence, and tuples of one and two.
LEMMA Tuples ==
    /\ IsSequence(<<>>) /\ Len(<<>>) = 0
    /\ \A a : IsSequence(<<a>>) /\ Len(<<a>>) = 1 /\ <<a>>[1] = a
    /\ \A a, b : IsSequence(<<a, b>>) /\ Len(<<a, b>>) = 2
<1>1. IsSequence(<<>>) /\ Len(<<>>) = 0
  <2>1. <<>> \in Seq({}) BY EmptySeq
  <2> QED BY <2>1, SequenceOver, EmptySeq
<1>2. ASSUME NEW a PROVE IsSequence(<<a>>) /\ Len(<<a>>) = 1 /\ <<a>>[1] = a
  <2>1. <<a>> \in Seq({a}) OBVIOUS
  <2> QED BY <2>1, SequenceOver
<1>3. ASSUME NEW a, NEW b PROVE IsSequence(<<a, b>>) /\ Len(<<a, b>>) = 2
  <2>1. <<a, b>> \in Seq({a, b}) OBVIOUS
  <2> QED BY <2>1, SequenceOver
<1> QED BY <1>1, <1>2, <1>3

\* One sequence after another.
LEMMA Joining ==
    ASSUME NEW s, NEW t, IsSequence(s), IsSequence(t)
    PROVE  /\ IsSequence(s \o t) /\ Len(s \o t) = Len(s) + Len(t)
           /\ \A i \in 1..Len(s) : (s \o t)[i] = s[i]
<1> DEFINE S == ToSet(s) \cup ToSet(t)
<1>1. s \in Seq(S) /\ t \in Seq(S)
    BY SeqMonotonic, SequenceFacts
<1>2. Len(s) \in Nat /\ Len(t) \in Nat
    BY SequenceFacts
<1> HIDE DEF S
<1>3. s \o t \in Seq(S) /\ Len(s \o t) = Len(s) + Len(t)
    BY <1>1, ConcatProperties
<1>4. \A i \in 1..Len(s) : (s \o t)[i] = s[i]
    BY <1>1, <1>2, ConcatProperties
<1> QED BY <1>3, <1>4, SequenceOver

\* A sequence with one more element.
LEMMA Appending ==
    ASSUME NEW s, NEW e, IsSequence(s)
    PROVE  /\ IsSequence(Append(s, e)) /\ Len(Append(s, e)) = Len(s) + 1
           /\ \A i \in 1..Len(s) : Append(s, e)[i] = s[i]
           /\ Append(s, e)[Len(s) + 1] = e
<1> DEFINE S == ToSet(s) \cup {e}
<1>1. s \in Seq(S) /\ e \in S
    BY SeqMonotonic, SequenceFacts
<1> HIDE DEF S
<1>2. Append(s, e) \in Seq(S)
    BY <1>1, AppendProperties
<1>3. Len(s) \in Nat
    BY SequenceFacts
<1>4. /\ Len(Append(s, e)) = Len(s) + 1
      /\ \A i \in 1..Len(s) : Append(s, e)[i] = s[i]
      /\ Append(s, e)[Len(s) + 1] = e
    BY <1>1, <1>3, AppendProperties
<1> QED BY <1>2, <1>4, SequenceOver

\* The lower part of a sequence.
LEMMA Cutting ==
    ASSUME NEW s, NEW n \in Nat, IsSequence(s), n <= Len(s)
    PROVE  /\ IsSequence(SubSeq(s, 1, n)) /\ Len(SubSeq(s, 1, n)) = n
           /\ \A i \in 1..n : SubSeq(s, 1, n)[i] = s[i]
<1>1. Len(s) \in Nat /\ s \in Seq(ToSet(s))
    BY SequenceFacts
<1>2. \A i \in 1..n : s[i] \in ToSet(s)
    BY <1>1, ElementOfSeq
<1>3. SubSeq(s, 1, n) \in Seq(ToSet(s)) /\ Len(SubSeq(s, 1, n)) = n
    BY <1>2, SubSeqProperties
<1>4. \A i \in 1..n : SubSeq(s, 1, n)[i] = s[i]
    BY <1>2, SubSeqProperties
<1> QED BY <1>3, <1>4, SequenceOver

\* What is left when the top is taken off.
LEMMA TakingOff ==
    ASSUME NEW s, IsSequence(s), s # <<>>
    PROVE  /\ Len(s) \in Nat \ {0} /\ IsSequence(Front(s)) /\ Len(Front(s)) = Len(s) - 1
           /\ \A i \in 1..Len(s)-1 : Front(s)[i] = s[i]
<1>1. Len(s) \in Nat \ {0}
    BY EmptySeq, SequenceFacts
<1> QED BY <1>1, Cutting DEF Front

\* A part that lies under the whole is a prefix of it, and all of it when as long.
LEMMA UnderIsPrefix ==
    ASSUME NEW b, NEW s, IsSequence(b), IsSequence(s), Under(b, s)
    PROVE  IsPrefix(b, s) /\ (Len(b) >= Len(s) => b = s)
<1> DEFINE S == ToSet(b) \cup ToSet(s)
<1>1. b \in Seq(S) /\ s \in Seq(S) /\ Len(b) \in Nat /\ Len(s) \in Nat
    BY SeqMonotonic, SequenceFacts DEF IsSequence
<1>2. Len(b) <= Len(s) /\ \A i \in 1..Len(b) : s[i] = b[i]
    BY DEF Under
<1>3. /\ IsSequence(SubSeq(s, 1, Len(b))) /\ Len(SubSeq(s, 1, Len(b))) = Len(b)
      /\ \A i \in 1..Len(b) : SubSeq(s, 1, Len(b))[i] = s[i]
    BY <1>1, <1>2, Cutting
<1> HIDE DEF S
<1>4. SubSeq(b, 1, Len(b)) = b
    BY <1>1, SubSeqFull
<1>5. SubSeq(s, 1, Len(b)) \in Seq(S)
  <2>1. \A i \in 1..Len(b) : s[i] \in S
      BY <1>1, <1>2, ElementOfSeq
  <2> QED BY <1>1, <2>1, SubSeqProperties
<1>6. SubSeq(s, 1, Len(b)) = b
    BY <1>1, <1>2, <1>3, <1>5, SeqEqual
<1>7. Len(b) >= Len(s) => b = s
    BY <1>1, <1>2, SeqEqual
<1> QED BY <1>2, <1>4, <1>6, <1>7 DEF IsPrefix

\* The smaller of two numbers.
LEMMA MinOfTwo ==
    ASSUME NEW a \in Nat, NEW b \in Nat
    PROVE  Min({a, b}) \in Nat /\ Min({a, b}) <= a /\ Min({a, b}) <= b
<1>1. \E x \in {a, b} : \A y \in {a, b} : x <= y
    OBVIOUS
<1> QED BY <1>1 DEF Min

\* Any set of natural numbers with a member has a least one.
LEMMA MinOfNats ==
    ASSUME NEW I, I \subseteq Nat, I # {}
    PROVE  Min(I) \in I
<1>1. PICK x \in I : \A y \in I : ~ (<<y, x>> \in OpToRel(<, Nat))
    BY NatLessThanWellFounded, WFMin, Zenon
<1>2. ASSUME NEW y \in I PROVE x <= y
  <2>1. ~ (y < x)
      BY <1>1 DEF OpToRel
  <2> QED BY <2>1
<1> QED BY <1>2 DEF Min

-----------------------------------------------------------------------------
\* Calls and the stack they stand on.

\* What was under b is under it still when the stack keeps that much of itself.
LEMMA KeptUnder ==
    ASSUME NEW b, NEW s, NEW t, NEW n \in Nat, IsSequence(b), IsSequence(s), IsSequence(t),
           Kept(n, s, t), Len(b) <= n, Under(b, s)
    PROVE  Under(b, t)
<1>1. Len(b) \in Nat /\ Len(s) \in Nat /\ Len(t) \in Nat
    BY SequenceFacts
<1>2. \A i \in 1..Len(b) : i <= Len(t) /\ t[i] = b[i]
    BY <1>1 DEF Kept, Under
<1>3. Len(b) <= Len(t)
  <2>1. CASE Len(b) = 0 BY <2>1, <1>1
  <2>2. CASE Len(b) # 0
    <3>1. Len(b) \in 1..Len(b) BY <2>2, <1>1
    <3> QED BY <3>1, <1>2
  <2> QED BY <2>1, <2>2
<1> QED BY <1>2, <1>3 DEF Under

\* A call stays a good one when the stack sinks to n and goes on as t.
LEMMA SinkingOne ==
    ASSUME NEW f, NEW s, NEW t, NEW n \in Nat, IsSequence(s), IsSequence(t),
           Kept(n, s, t), GoodCall(f, s)
    PROVE  LET g == [f EXCEPT !.low = Min({@, n})]
           IN  /\ GoodCall(g, t)
               /\ InCode(f) => InCode(g)
               /\ InFailure(f) => InFailure(g)
<1> DEFINE g == [f EXCEPT !.low = Min({@, n})]
<1>1. f.low \in Nat /\ DOMAIN f = Fields /\ "low" \in Fields
    BY DEF GoodCall, Fields
<1>2. /\ DOMAIN g = Fields /\ g.low = Min({f.low, n})
      /\ \A x \in Fields \ {"low"} : g[x] = f[x]
    BY <1>1
<1>3. /\ g.word = f.word /\ g.left = f.left /\ g.below = f.below /\ g.base = f.base
      /\ g.tidy = f.tidy /\ g.phase = f.phase /\ g.err = f.err /\ g.given = f.given
      /\ g.asked = f.asked
    BY <1>2 DEF Fields
<1>4. g.low \in Nat /\ g.low <= f.low /\ g.low <= n
    BY <1>1, <1>2, MinOfTwo
<1> HIDE DEF g
<1>5. ASSUME g.tidy, g.low >= Len(g.below) PROVE Under(g.below, t)
  <2>1. IsSequence(f.below) /\ Len(f.below) \in Nat
      BY SequenceFacts DEF GoodCall
  <2>2. f.low >= Len(f.below) /\ Len(f.below) <= n
      BY <1>1, <1>3, <1>4, <1>5, <2>1
  <2>3. Under(f.below, s)
      BY <1>3, <1>5, <2>2 DEF GoodCall
  <2>4. Under(f.below, t)
      BY <2>1, <2>2, <2>3, KeptUnder
  <2> QED BY <1>3, <2>4
<1>6. GoodCall(g, t)
    BY <1>2, <1>3, <1>4, <1>5 DEF GoodCall
<1>7. InCode(f) => InCode(g)
    BY <1>3 DEF InCode, Resting
<1>8. InFailure(f) => InFailure(g)
    BY <1>3 DEF InFailure
<1> QED BY <1>6, <1>7, <1>8 DEF g

\* So do all of them.
LEMMA Sinking ==
    ASSUME NEW cs, NEW s, NEW t, NEW n \in Nat, IsSequence(s), IsSequence(t), Kept(n, s, t),
           GoodCalls(cs, s)
    PROVE  /\ GoodCalls(Sunk(cs, n), t) /\ Len(Sunk(cs, n)) = Len(cs)
           /\ Running(cs, s) => Running(Sunk(cs, n), t)
<1> DEFINE ds == Sunk(cs, n)
           g(i) == [cs[i] EXCEPT !.low = Min({@, n})]
           S == {g(i) : i \in 1..Len(cs)}
<1>1. IsSequence(cs) /\ Len(cs) \in Nat
    BY SequenceFacts DEF GoodCalls
<1>2. ds = [i \in 1..Len(cs) |-> g(i)]
    BY DEF Sunk
<1>3. \A i \in 1..Len(cs) : g(i) \in S
    OBVIOUS
<1>4. \A i \in 1..Len(cs) :
        /\ GoodCall(g(i), t)
        /\ InCode(cs[i]) => InCode(g(i))
        /\ InFailure(cs[i]) => InFailure(g(i))
  <2> TAKE i \in 1..Len(cs)
  <2>1. GoodCall(cs[i], s)
      BY DEF GoodCalls
  <2> QED BY <2>1, SinkingOne
<1> HIDE DEF g, S, ds
<1>5. ds \in [1..Len(cs) -> S]
    BY <1>2, <1>3
<1>6. ds \in Seq(S)
    BY <1>1, <1>5, SeqDef
<1>7. IsSequence(ds) /\ DOMAIN ds = 1..Len(ds)
    BY <1>6, SequenceOver
<1>8. Len(ds) = Len(cs)
  <2>1. 1..Len(ds) = 1..Len(cs) BY <1>5, <1>7
  <2>2. Len(ds) \in Nat BY <1>6, SequenceOver
  <2> QED BY <2>1, <2>2, <1>1
<1>9. \A i \in 1..Len(ds) : ds[i] = g(i)
    BY <1>2, <1>8
<1>10. GoodCalls(ds, t)
    BY <1>4, <1>7, <1>8, <1>9 DEF GoodCalls
<1>11. Running(cs, s) => Running(ds, t)
    BY <1>4, <1>7, <1>8, <1>9 DEF Running
<1> QED BY <1>8, <1>10, <1>11 DEF ds

\* A call on top of calls that wait for it.
LEMMA OnTop ==
    ASSUME NEW cs, NEW s, NEW f, Running(cs, s), GoodCall(f, s), InCode(f) \/ InFailure(f)
    PROVE  /\ GoodCalls(Append(cs, f), s) /\ Len(Append(cs, f)) = Len(cs) + 1
           /\ InCode(f) => Running(Append(cs, f), s)
<1>1. IsSequence(cs) /\ Len(cs) \in Nat
    BY SequenceFacts DEF Running
<1>2. /\ IsSequence(Append(cs, f)) /\ Len(Append(cs, f)) = Len(cs) + 1
      /\ \A i \in 1..Len(cs) : Append(cs, f)[i] = cs[i]
      /\ Append(cs, f)[Len(cs) + 1] = f
    BY <1>1, Appending
<1>3. \A i \in 1..Len(cs)+1 : i \in 1..Len(cs) \/ i = Len(cs) + 1
    BY <1>1
<1> QED BY <1>2, <1>3 DEF GoodCalls, Running

\* Calls that wait are good ones.
LEMMA RunningGood ==
    ASSUME NEW cs, NEW s, Running(cs, s)
    PROVE  GoodCalls(cs, s)
BY DEF Running, GoodCalls

\* Under the innermost call all wait.
LEMMA Beneath ==
    ASSUME NEW cs, NEW s, GoodCalls(cs, s), cs # <<>>
    PROVE  /\ Running(Front(cs), s) /\ Len(cs) \in Nat \ {0} /\ Len(Front(cs)) = Len(cs) - 1
           /\ GoodCall(Last(cs), s) /\ (InCode(Last(cs)) \/ InFailure(Last(cs)))
<1>1. IsSequence(cs)
    BY DEF GoodCalls
<1>2. /\ Len(cs) \in Nat \ {0} /\ IsSequence(Front(cs)) /\ Len(Front(cs)) = Len(cs) - 1
      /\ \A i \in 1..Len(cs)-1 : Front(cs)[i] = cs[i]
    BY <1>1, TakingOff
<1>3. \A i \in 1..Len(cs)-1 : i \in 1..Len(cs) /\ i # Len(cs)
    BY <1>2
<1>4. Len(cs) \in 1..Len(cs)
    BY <1>2
<1> QED BY <1>2, <1>3, <1>4 DEF GoodCalls, Running, Last

-----------------------------------------------------------------------------
\* What steps do to the calls and the stack.

\* The properties speak of a call only in the step that ends it.
LEMMA NothingEnds ==
    ASSUME ended' = NoCall
    PROVE  StackEffects' /\ HandlersInTurn'
BY DEF NoCall, StackEffects, HandlersInTurn

\* The calls go on.
LEMMA GoingOn ==
    ASSUME NEW cs, NEW s, NEW n \in Nat, IsSequence(stack), IsSequence(s), Kept(n, stack, s),
           GoodCalls(cs, stack), GoOn(cs, s, n)
    PROVE  /\ IsSequence(stack') /\ GoodCalls(calls', stack') /\ Len(calls') = Len(cs)
           /\ StackEffects' /\ HandlersInTurn'
<1>1. calls' = Sunk(cs, n) /\ stack' = s /\ ended' = NoCall
    BY DEF GoOn
<1>2. GoodCalls(Sunk(cs, n), s) /\ Len(Sunk(cs, n)) = Len(cs)
    BY Sinking
<1> QED BY <1>1, <1>2, NothingEnds

\* The innermost call ends, however it does.
LEMMA Ending ==
    ASSUME NEW f, NEW how, NEW below, NEW s, NEW n \in Nat, IsSequence(stack), IsSequence(s),
           Kept(n, stack, s), Running(below, stack), Ends(f, how, below, s, n)
    PROVE  /\ IsSequence(stack') /\ GoodCalls(calls', stack') /\ Len(calls') = Len(below)
           /\ stack' = s /\ ended' = [how |-> how, call |-> f, stack |-> s]
<1>1. /\ calls' = Sunk(below, n) /\ stack' = s
      /\ ended' = [how |-> how, call |-> f, stack |-> s]
    BY DEF Ends
<1>2. GoodCalls(Sunk(below, n), s) /\ Len(Sunk(below, n)) = Len(below)
    BY RunningGood, Sinking
<1> QED BY <1>1, <1>2

\* A call that fails has the handlers of its word before it, none of them asked.
LEMMA FailingCall ==
    ASSUME NEW f, NEW s, NEW e, GoodCall(f, s), e # "none",
           handlers \in [Words -> Seq(Handlers)]
    PROVE  GoodCall(Failing(f, e), s) /\ InFailure(Failing(f, e))
<1> DEFINE g == Failing(f, e)
<1>1. DOMAIN f = Fields
    BY DEF GoodCall
<1>2. /\ DOMAIN g = Fields /\ g.phase = "failed" /\ g.err = e /\ g.asked = <<>>
      /\ g.given = IF e = "IntentionalStop" THEN <<>> ELSE handlers[f.word]
      /\ \A x \in Fields \ {"phase", "err", "given", "asked"} : g[x] = f[x]
    BY <1>1 DEF Failing, Fields
<1>3. /\ g.word = f.word /\ g.left = f.left /\ g.below = f.below /\ g.base = f.base
      /\ g.tidy = f.tidy /\ g.low = f.low
    BY <1>2 DEF Fields
<1> HIDE DEF g
<1>4. GoodCall(g, s)
    BY <1>2, <1>3 DEF GoodCall
<1>5. g.given \in Seq(Handlers) /\ g.asked \in Seq(Handlers)
  <2>1. handlers[f.word] \in Seq(Handlers) BY DEF GoodCall
  <2> QED BY <1>2, <2>1, EmptySeq
<1>6. Under(g.asked, g.given)
  <2>1. Len(g.given) \in Nat /\ Len(g.asked) = 0
      BY <1>2, <1>5, LenProperties, EmptySeq
  <2> QED BY <2>1 DEF Under
<1>7. InFailure(g)
    BY <1>2, <1>5, <1>6 DEF InFailure
<1> QED BY <1>4, <1>7 DEF g

\* Between two runs a call stands on s, and what it takes of it.
Settled(f, s) ==
    /\ GoodCall(f, s) /\ f.err = "none"
    /\ f.tidy => Len(s) = Resting(f)

\* The next run begins.
LEMMA NextRun ==
    ASSUME NEW f, NEW below, NEW s, NEW n \in Nat, IsSequence(stack), IsSequence(s),
           Kept(n, stack, s), Running(below, stack), Settled(f, s),
           f.begun < Runs(f), ~Found(f), Settles(f, below, s, n)
    PROVE  /\ IsSequence(stack') /\ GoodCalls(calls', stack') /\ Len(calls') = Len(below) + 1
           /\ StackEffects' /\ HandlersInTurn'
<1> DEFINE p == PushedAt(f, f.begun + 1)
           g == [f EXCEPT !.begun = @ + 1, !.phase = "code", !.left = MaxSteps, !.base = Len(s)]
<1>1. stack' = s \o p /\ ended' = NoCall /\ calls' = Append(Sunk(below, n), g)
    BY DEF Settles
<1>2. IsSequence(p)
    BY Tuples DEF PushedAt
<1>3. DOMAIN f = Fields
    BY DEF Settled, GoodCall
<1>4. /\ DOMAIN g = Fields /\ g.phase = "code" /\ g.left = MaxSteps /\ g.base = Len(s)
      /\ g.word = f.word /\ g.below = f.below /\ g.low = f.low /\ g.tidy = f.tidy
      /\ g.err = f.err
    BY <1>3 DEF Fields
<1> HIDE DEF p, g
<1>5. /\ IsSequence(s \o p) /\ Len(s) \in Nat
      /\ Len(s \o p) = Len(s) + Len(p) /\ Len(p) \in Nat
      /\ \A i \in 1..Len(s) : (s \o p)[i] = s[i]
    BY <1>2, Joining, SequenceFacts
<1>6. Kept(n, stack, s \o p) /\ Kept(Len(s), s, s \o p)
  <2>1. Len(stack) \in Nat BY SequenceFacts
  <2> QED BY <1>5, <2>1 DEF Kept
<1>7. Running(Sunk(below, n), s \o p) /\ Len(Sunk(below, n)) = Len(below)
    BY <1>5, <1>6, RunningGood, Sinking
<1>8. GoodCall(g, s \o p)
  <2>1. ASSUME g.tidy, g.low >= Len(g.below) PROVE Under(g.below, s \o p)
    <3>1. Under(f.below, s) /\ IsSequence(f.below)
        BY <1>4, <2>1 DEF Settled, GoodCall
    <3>2. Len(f.below) <= Len(s)
        BY <3>1 DEF Under
    <3> QED BY <1>4, <1>5, <1>6, <3>1, <3>2, KeptUnder
  <2>2. MaxSteps \in 0..MaxSteps
      BY BlockBounds
  <2> QED BY <1>4, <1>5, <2>1, <2>2 DEF Settled, GoodCall
<1>9. InCode(g)
    BY <1>4 DEF InCode, Settled, Resting
<1>10. GoodCalls(calls', stack') /\ Len(calls') = Len(below) + 1
    BY <1>1, <1>7, <1>8, <1>9, OnTop
<1> QED BY <1>1, <1>5, <1>10, NothingEnds

\* The last run is over.
LEMMA LastRun ==
    ASSUME NEW f, NEW below, NEW s, NEW n \in Nat, IsSequence(stack), IsSequence(s),
           Kept(n, stack, s), Running(below, stack), Settled(f, s),
           Ends(f, "done", below, s \o Outs(f), n)
    PROVE  /\ IsSequence(stack') /\ GoodCalls(calls', stack') /\ Len(calls') = Len(below)
           /\ StackEffects' /\ HandlersInTurn'
<1> DEFINE o == Outs(f)
           t == s \o o
<1>1. /\ IsSequence(o) /\ Len(o) = IF f.word \in Silent \cup {"REDUCE"} THEN 0 ELSE 1
    BY Tuples DEF Outs
<1> HIDE DEF o
<1>2. /\ IsSequence(t) /\ Len(s) \in Nat /\ Len(t) = Len(s) + Len(o) /\ Len(o) \in Nat
      /\ \A i \in 1..Len(s) : t[i] = s[i]
    BY <1>1, Joining, SequenceFacts
<1> HIDE DEF t
<1>3. Kept(n, stack, t) /\ Kept(Len(s), s, t)
  <2>1. Len(stack) \in Nat BY SequenceFacts
  <2> QED BY <1>2, <2>1 DEF Kept
<1>4. Ends(f, "done", below, t, n)
    BY DEF t, o
<1>5. /\ IsSequence(stack') /\ GoodCalls(calls', stack') /\ Len(calls') = Len(below)
      /\ stack' = t /\ ended' = [how |-> "done", call |-> f, stack |-> t]
    BY <1>2, <1>3, <1>4, Ending
<1>6. StackEffects'
  <2>1. ASSUME f.tidy, f.low >= Len(f.below)
        PROVE  IsPrefix(f.below, t) /\ Len(t) = Len(f.below) + (IF f.word \in Silent THEN 0 ELSE 1)
    <3>1. Under(f.below, s) /\ IsSequence(f.below) /\ Len(f.below) <= Len(s)
          /\ Len(f.below) \in Nat /\ Len(s) = Resting(f)
        BY <2>1, SequenceFacts DEF Settled, GoodCall, Under
    <3>2. Under(f.below, t)
        BY <1>2, <1>3, <3>1, KeptUnder
    <3>3. Len(t) = Len(f.below) + (IF f.word \in Silent THEN 0 ELSE 1)
      <4>1. Len(t) = Resting(f) + Len(o)
          BY <1>2, <3>1
      <4>2. CASE f.word = "REDUCE"
        <5>1. Len(o) = 0 /\ Resting(f) = Len(f.below) + 1 /\ f.word \notin Silent
            BY <1>1, <4>2 DEF Resting, Silent
        <5> QED BY <3>1, <4>1, <5>1
      <4>3. CASE f.word # "REDUCE"
        <5>1. Resting(f) = Len(f.below) + 0
            BY <4>3 DEF Resting
        <5>2. Len(o) = IF f.word \in Silent THEN 0 ELSE 1
            BY <1>1, <4>3
        <5> QED BY <3>1, <4>1, <5>1, <5>2
      <4> QED BY <4>2, <4>3
    <3> QED BY <1>2, <3>1, <3>2, <3>3, UnderIsPrefix
  <2>2. /\ ended'.how = "done" /\ ended'.call = f
      BY <1>5
  <2> QED BY <1>5, <2>1, <2>2 DEF StackEffects
<1>7. HandlersInTurn'
    BY <1>5 DEF HandlersInTurn
<1> QED BY <1>5, <1>6, <1>7

\* The loop of a word goes on, fails or ends.
LEMMA Settling ==
    ASSUME NEW f, NEW below, NEW s, NEW n \in Nat, IsSequence(stack), IsSequence(s),
           Kept(n, stack, s), Running(below, stack), Settled(f, s),
           handlers \in [Words -> Seq(Handlers)], Settles(f, below, s, n)
    PROVE  /\ IsSequence(stack') /\ GoodCalls(calls', stack')
           /\ Len(calls') <= Len(below) + 1
           /\ StackEffects' /\ HandlersInTurn'
<1>1. Len(below) \in Nat
    BY SequenceFacts DEF Running
<1>2. CASE f.begun < Runs(f) /\ ~Found(f)
  <2>1. /\ IsSequence(stack') /\ GoodCalls(calls', stack') /\ Len(calls') = Len(below) + 1
        /\ StackEffects' /\ HandlersInTurn'
      BY <1>2, NextRun
  <2> QED BY <1>1, <2>1
<1>3. CASE ~(f.begun < Runs(f) /\ ~Found(f)) /\ f.word = "REDUCE" /\ s = <<>>
  <2> DEFINE g == Failing(f, "StackUnderflow")
  <2>1. GoOn(Append(below, g), s, n)
      BY <1>3 DEF Settles
  <2>2. ~f.tidy
    <3>1. Len(s) = 0 /\ Len(f.below) \in Nat
        BY <1>3, EmptySeq, SequenceFacts DEF Settled, GoodCall
    <3> QED BY <1>3, <3>1 DEF Settled, Resting
  <2>3. GoodCall(f, stack)
      BY <2>2 DEF Settled, GoodCall
  <2>4. GoodCall(g, stack) /\ InFailure(g)
      BY <2>3, FailingCall
  <2> HIDE DEF g
  <2>5. GoodCalls(Append(below, g), stack) /\ Len(Append(below, g)) = Len(below) + 1
      BY <2>4, OnTop
  <2>6. /\ IsSequence(stack') /\ GoodCalls(calls', stack')
        /\ Len(calls') = Len(Append(below, g)) /\ StackEffects' /\ HandlersInTurn'
      BY <2>1, <2>5, GoingOn
  <2> QED BY <1>1, <2>5, <2>6
<1>4. CASE ~(f.begun < Runs(f) /\ ~Found(f)) /\ ~(f.word = "REDUCE" /\ s = <<>>)
  <2>1. Ends(f, "done", below, s \o Outs(f), n)
      BY <1>4 DEF Settles
  <2>2. /\ IsSequence(stack') /\ GoodCalls(calls', stack') /\ Len(calls') = Len(below)
        /\ StackEffects' /\ HandlersInTurn'
      BY <2>1, LastRun
  <2> QED BY <1>1, <2>2
<1> QED BY <1>2, <1>3, <1>4

-----------------------------------------------------------------------------
\* A word is called.

\* What lies under the arguments of a word is the lower part of the stack.
LEMMA UnderArguments ==
    ASSUME NEW w \in Words, NEW s, IsSequence(s)
    PROVE  IsSequence(ArgsOf(w, s).below) /\ Under(ArgsOf(w, s).below, s)
<1> DEFINE at(j) == s[Len(s) - j + 1]
           bad   == {j \in 1..Min({Codes(w), Len(s)}) : ~IsCode(w, at(j))}
<1>1. Len(s) \in Nat
    BY SequenceFacts
<1>2. \A k \in 0..Len(s) : IsSequence(SubSeq(s, 1, k)) /\ Under(SubSeq(s, 1, k), s)
  <2> TAKE k \in 0..Len(s)
  <2>1. k \in Nat /\ k <= Len(s) BY <1>1
  <2>2. /\ IsSequence(SubSeq(s, 1, k)) /\ Len(SubSeq(s, 1, k)) = k
        /\ \A i \in 1..k : SubSeq(s, 1, k)[i] = s[i]
      BY <2>1, Cutting
  <2> QED BY <2>1, <2>2 DEF Under
<1>3. CASE bad # {}
  <2>1. Codes(w) \in Nat BY DEF Codes
  <2>2. Min({Codes(w), Len(s)}) <= Len(s) /\ Min({Codes(w), Len(s)}) \in Nat
      BY <1>1, <2>1, MinOfTwo
  <2>3. bad \subseteq 1..Len(s)
      BY <1>1, <2>2
  <2>4. ArgsOf(w, s).below = SubSeq(s, 1, Len(s) - Min(bad))
      BY <1>3 DEF ArgsOf
  <2> HIDE DEF bad
  <2>5. bad \subseteq Nat
      BY <1>1, <2>3
  <2>6. Min(bad) \in bad
      BY <1>3, <2>5, MinOfNats
  <2>7. Min(bad) \in 1..Len(s)
      BY <2>3, <2>6
  <2>8. Len(s) - Min(bad) \in 0..Len(s)
      BY <1>1, <2>7
  <2> QED BY <1>2, <2>4, <2>8
<1>4. CASE bad = {} /\ Len(s) < Arity(w)
  <2>1. ArgsOf(w, s).below = <<>>
      BY <1>4 DEF ArgsOf
  <2> QED BY <1>1, <2>1, Tuples DEF Under
<1>5. CASE bad = {} /\ ~(Len(s) < Arity(w))
  <2>1. ArgsOf(w, s).below = SubSeq(s, 1, Len(s) - Arity(w))
      BY <1>5 DEF ArgsOf
  <2>2. Arity(w) \in 1..3
      BY DEF Arity
  <2>3. Len(s) - Arity(w) \in 0..Len(s)
      BY <1>1, <1>5, <2>2
  <2> QED BY <1>2, <2>1, <2>3
<1> QED BY <1>3, <1>4, <1>5

\* The same where the options are popped first.
LEMMA UnderOptions ==
    ASSUME NEW w \in Words, NEW s, IsSequence(s)
    PROVE  LET b == ArgsOf(w, Without(w, s)).below
           IN  IsSequence(b) /\ Under(b, s) /\ Len(b) \in Nat /\ Kept(Len(b), s, b)
<1> DEFINE v == Without(w, s)
           b == ArgsOf(w, v).below
<1>1. IsSequence(v) /\ Len(v) <= Len(s) /\ \A i \in 1..Len(v) : v[i] = s[i]
  <2>1. CASE HasOptions(w, s)
    <3>1. s # <<>> /\ v = Front(s)
        BY <2>1 DEF HasOptions, Without
    <3> QED BY <3>1, TakingOff
  <2>2. CASE ~HasOptions(w, s)
    <3>1. v = s BY <2>2 DEF Without
    <3> QED BY <3>1, SequenceFacts
  <2> QED BY <2>1, <2>2
<1> HIDE DEF v
<1>2. IsSequence(b) /\ Under(b, v)
    BY <1>1, UnderArguments
<1> HIDE DEF b
<1>3. Len(b) \in Nat /\ Len(v) \in Nat /\ Len(s) \in Nat
    BY <1>1, <1>2, SequenceFacts
<1>4. Under(b, s)
    BY <1>1, <1>2, <1>3 DEF Under
<1>5. Kept(Len(b), s, b)
    BY <1>3, <1>4 DEF Kept, Under
<1> QED BY <1>2, <1>3, <1>4, <1>5 DEF b, v

\* A call that is opened stands on what lies under its arguments.
LEMMA OpenedCall ==
    ASSUME NEW w \in Words, NEW options, NEW a, NEW s, IsSequence(a.below), Under(a.below, s)
    PROVE  LET f == Opened(w, options, a)
           IN  /\ GoodCall(f, s) /\ f.word = w /\ f.err = a.err /\ f.below = a.below
               /\ f.args = a.args
<1> DEFINE f == Opened(w, options, a)
<1>1. /\ DOMAIN f = Fields /\ f.word = w /\ f.left = 0 /\ f.err = a.err /\ f.below = a.below
      /\ f.low = Len(a.below) /\ f.base = 0 /\ f.tidy = TRUE /\ f.args = a.args
    BY DEF Opened, Fields
<1>2. Len(a.below) \in Nat
    BY SequenceFacts
<1> HIDE DEF f
<1>3. f.left \in 0..MaxSteps /\ f.low \in Nat /\ f.base \in Nat /\ f.tidy \in BOOLEAN
  <2>1. 0 \in 0..MaxSteps BY BlockBounds
  <2>2. f.left \in 0..MaxSteps BY <1>1, <2>1
  <2>3. f.tidy \in BOOLEAN BY <1>1
  <2> QED BY <1>1, <1>2, <2>2, <2>3
<1>4. IsSequence(f.below) /\ Under(f.below, s)
    BY <1>1
<1>5. GoodCall(f, s)
    BY <1>1, <1>3, <1>4 DEF GoodCall
<1> QED BY <1>1, <1>5 DEF f

\* Whatever word code calls, the invariant goes on.
LEMMA CallingKeeps ==
    ASSUME BlockInv, NEW w \in Words, Calls(w)
    PROVE  BlockInv'
<1> DEFINE a == ArgsOf(w, Without(w, stack))
           f == Opened(w, OptionsOn(w, stack), a)
           c == [Call EXCEPT !.left = @ - 1]
           below == Append(Front(calls), c)
           s == a.below \o (IF w = "REDUCE" THEN <<f.args[2]>> ELSE <<>>)
           n == Len(a.below)
<1>1. /\ Busy("code") /\ Call.left > 0 /\ called < MaxCalls /\ called' = called + 1
      /\ handlers' = handlers /\ edits' = edits
      /\ IF a.err # "none" THEN GoOn(Append(below, Failing(f, a.err)), a.below, n)
         ELSE IF Astray(f) THEN GoOn(Append(below, Failing(f, "InvalidOperation")), a.below, n)
         ELSE Settles(f, below, s, n)
    BY DEF Calls
<1>2. IsSequence(stack) /\ GoodCalls(calls, stack) /\ handlers \in [Words -> Seq(Handlers)]
    BY DEF BlockInv
<1>3. IsSequence(a.below) /\ Under(a.below, stack) /\ n \in Nat /\ Kept(n, stack, a.below)
    BY <1>2, UnderOptions
<1>4. /\ GoodCall(f, stack) /\ f.word = w /\ f.err = a.err /\ f.below = a.below
    BY <1>3, OpenedCall
<1>5. Running(below, stack) /\ Len(below) = Len(calls) /\ Len(calls) \in Nat
  <2>1. /\ Running(Front(calls), stack) /\ Len(calls) \in Nat \ {0}
        /\ Len(Front(calls)) = Len(calls) - 1
        /\ GoodCall(Call, stack) /\ InCode(Call)
      BY <1>1, <1>2, Beneath DEF Busy, Call, InFailure
  <2>2. /\ DOMAIN c = Fields /\ c.word = Call.word /\ c.left = Call.left - 1
        /\ c.below = Call.below /\ c.low = Call.low /\ c.base = Call.base
        /\ c.tidy = Call.tidy /\ c.phase = Call.phase /\ c.err = Call.err
      BY <2>1 DEF GoodCall, Fields
  <2>3. Call.left - 1 \in 0..MaxSteps
      BY <1>1, <2>1, BlockBounds DEF GoodCall
  <2> HIDE DEF c
  <2>4. GoodCall(c, stack) /\ InCode(c)
      BY <2>1, <2>2, <2>3 DEF GoodCall, InCode, Resting
  <2> QED BY <2>1, <2>4, OnTop
<1> HIDE DEF a, f, below, n
<1>6. ASSUME NEW e, e # "none", GoOn(Append(below, Failing(f, e)), a.below, n)
      PROVE  /\ IsSequence(stack') /\ GoodCalls(calls', stack') /\ Len(calls') <= Len(calls) + 1
             /\ StackEffects' /\ HandlersInTurn'
  <2> DEFINE g == Failing(f, e)
  <2>1. GoodCall(g, stack) /\ InFailure(g)
      BY <1>2, <1>4, <1>6, FailingCall
  <2>2. GoOn(Append(below, g), a.below, n)
      BY <1>6
  <2> HIDE DEF g
  <2>3. GoodCalls(Append(below, g), stack) /\ Len(Append(below, g)) = Len(below) + 1
      BY <1>5, <2>1, OnTop
  <2>4. /\ IsSequence(stack') /\ GoodCalls(calls', stack')
        /\ Len(calls') = Len(Append(below, g)) /\ StackEffects' /\ HandlersInTurn'
      BY <1>2, <1>3, <2>2, <2>3, GoingOn
  <2> QED BY <1>5, <2>3, <2>4
<1>7. ASSUME a.err = "none", Settles(f, below, s, n)
      PROVE  /\ IsSequence(stack') /\ GoodCalls(calls', stack') /\ Len(calls') <= Len(calls) + 1
             /\ StackEffects' /\ HandlersInTurn'
  <2> DEFINE o == IF w = "REDUCE" THEN <<f.args[2]>> ELSE <<>>
  <2>1. IsSequence(o) /\ Len(o) = IF w = "REDUCE" THEN 1 ELSE 0
      BY Tuples
  <2>2. s = a.below \o o
      OBVIOUS
  <2> HIDE DEF o, s
  <2>3. /\ IsSequence(s) /\ Len(s) = Len(a.below) + Len(o)
        /\ \A i \in 1..Len(a.below) : s[i] = a.below[i]
      BY <1>3, <2>1, <2>2, Joining
  <2>4. n = Len(a.below) /\ n <= Len(s) /\ Len(s) \in Nat
    <3>1. n = Len(a.below) BY DEF n
    <3>2. Len(o) \in Nat BY <2>1, SequenceFacts
    <3> QED BY <1>3, <2>3, <3>1, <3>2
  <2>5. Kept(n, stack, s)
    <3>1. \A i \in 1..n : i <= Len(s) /\ s[i] = a.below[i] /\ a.below[i] = stack[i]
        BY <1>3, <2>3, <2>4 DEF Under
    <3> QED BY <3>1 DEF Kept
  <2>6. Under(a.below, a.below)
      BY <1>3, <2>4 DEF Under
  <2>7. Under(a.below, s)
      BY <1>3, <2>1, <2>3, <2>4 DEF Under
  <2>8. GoodCall(f, s)
      BY <1>4, <2>7 DEF GoodCall
  <2>9. Settled(f, s)
      BY <1>4, <1>7, <2>1, <2>3, <2>8 DEF Settled, Resting
  <2>10. /\ IsSequence(stack') /\ GoodCalls(calls', stack') /\ Len(calls') <= Len(below) + 1
         /\ StackEffects' /\ HandlersInTurn'
      BY <1>2, <1>3, <1>5, <1>7, <2>3, <2>5, <2>9, Settling
  <2> QED BY <1>5, <2>10
<1>8. /\ IsSequence(stack') /\ GoodCalls(calls', stack') /\ Len(calls') <= Len(calls) + 1
      /\ StackEffects' /\ HandlersInTurn'
    BY <1>1, <1>6, <1>7
<1>9. GoodCalls(calls', stack') => Len(calls') \in Nat
    BY SequenceFacts DEF GoodCalls
<1> QED BY <1>1, <1>2, <1>5, <1>8, <1>9, BlockBounds DEF BlockInv

-----------------------------------------------------------------------------
\* Code runs.

\* The innermost call, at its code or failing, and those beneath it.
LEMMA Innermost ==
    ASSUME BlockInv, calls # <<>>
    PROVE  /\ IsSequence(stack) /\ Len(stack) \in Nat
           /\ Running(Front(calls), stack) /\ Len(calls) \in Nat \ {0}
           /\ Len(Front(calls)) = Len(calls) - 1
           /\ GoodCall(Call, stack)
           /\ (Call.phase = "code" => InCode(Call)) /\ (Call.phase = "failed" => InFailure(Call))
<1>1. IsSequence(stack) /\ GoodCalls(calls, stack)
    BY DEF BlockInv
<1>2. Len(stack) \in Nat
    BY <1>1, SequenceFacts
<1> QED BY <1>1, <1>2, Beneath DEF Call, InCode, InFailure

\* The calls after a step of the code, and after one that breaks it.
LEMMA CodeGoesOn ==
    ASSUME BlockInv, Busy("code"), Call.left > 0
    PROVE  GoodCalls(OneStep, stack) /\ Len(OneStep) = Len(calls)
<1> DEFINE c == [Call EXCEPT !.left = @ - 1]
<1>1. /\ Running(Front(calls), stack) /\ Len(calls) \in Nat \ {0}
      /\ Len(Front(calls)) = Len(calls) - 1 /\ GoodCall(Call, stack) /\ InCode(Call)
    BY Innermost DEF Busy
<1>2. /\ DOMAIN c = Fields /\ c.word = Call.word /\ c.left = Call.left - 1
      /\ c.below = Call.below /\ c.low = Call.low /\ c.base = Call.base
      /\ c.tidy = Call.tidy /\ c.phase = Call.phase /\ c.err = Call.err
    BY <1>1 DEF GoodCall, Fields
<1>3. Call.left - 1 \in 0..MaxSteps
    BY <1>1, BlockBounds DEF GoodCall
<1> HIDE DEF c
<1>4. GoodCall(c, stack) /\ InCode(c)
    BY <1>1, <1>2, <1>3 DEF GoodCall, InCode, Resting
<1>5. OneStep = Append(Front(calls), c)
    BY DEF OneStep, c
<1>6. /\ GoodCalls(Append(Front(calls), c), stack)
      /\ Len(Append(Front(calls), c)) = Len(Front(calls)) + 1
    BY <1>1, <1>4, OnTop
<1> QED BY <1>1, <1>5, <1>6

\* A step that leaves the words, their handlers and the number of calls alone.
LEMMA OtherwiseKept ==
    ASSUME BlockInv, UNCHANGED <<handlers, edits, called>>,
           IsSequence(stack'), GoodCalls(calls', stack'), Len(calls') <= Len(calls),
           StackEffects', HandlersInTurn'
    PROVE  BlockInv'
<1>1. Len(calls) \in Nat /\ Len(calls') \in Nat
    BY SequenceFacts DEF BlockInv, GoodCalls
<1> QED BY <1>1, BlockBounds DEF BlockInv

\* Code that moves the stack to s, having sunk to n.
LEMMA CodeMoves ==
    ASSUME BlockInv, CodeActs, NEW s, NEW n \in Nat, IsSequence(s), Kept(n, stack, s),
           GoOn(OneStep, s, n)
    PROVE  BlockInv'
<1>1. GoodCalls(OneStep, stack) /\ Len(OneStep) = Len(calls)
    BY CodeGoesOn DEF CodeActs
<1>2. IsSequence(stack)
    BY DEF BlockInv
<1>3. /\ IsSequence(stack') /\ GoodCalls(calls', stack') /\ Len(calls') = Len(OneStep)
      /\ StackEffects' /\ HandlersInTurn'
    BY <1>1, <1>2, GoingOn
<1>4. Len(calls) \in Nat
    BY SequenceFacts DEF BlockInv, GoodCalls
<1>5. UNCHANGED <<handlers, edits, called>>
    BY DEF CodeActs
<1>6. Len(calls') <= Len(calls)
    BY <1>1, <1>3, <1>4
<1> QED BY <1>3, <1>5, <1>6, OtherwiseKept

\* Code that breaks, the stack cut to a part of it.
LEMMA CodeBreaks ==
    ASSUME BlockInv, Busy("code"), UNCHANGED <<handlers, edits, called>>,
           NEW e, e # "none", NEW s, IsSequence(s), Under(s, stack), Breaks(e, s)
    PROVE  BlockInv'
<1> DEFINE g == Failing(Call, e)
           cs == Append(Front(calls), g)
<1>1. /\ Running(Front(calls), stack) /\ Len(calls) \in Nat \ {0} /\ IsSequence(stack)
      /\ Len(Front(calls)) = Len(calls) - 1 /\ GoodCall(Call, stack)
    BY Innermost DEF Busy
<1>2. GoodCall(g, stack) /\ InFailure(g)
    BY <1>1, FailingCall DEF BlockInv
<1>3. GoOn(cs, s, Len(s))
    BY DEF Breaks
<1> HIDE DEF g
<1>4. GoodCalls(cs, stack) /\ Len(cs) = Len(Front(calls)) + 1
    BY <1>1, <1>2, OnTop
<1> HIDE DEF cs
<1>5. Len(s) \in Nat /\ Kept(Len(s), stack, s)
    BY SequenceFacts DEF Under, Kept
<1>6. /\ IsSequence(stack') /\ GoodCalls(calls', stack') /\ Len(calls') = Len(cs)
      /\ StackEffects' /\ HandlersInTurn'
    BY <1>1, <1>3, <1>4, <1>5, GoingOn
<1> QED BY <1>1, <1>4, <1>6, OtherwiseKept

\* The stack without its top lies under it; so do nothing and all of it.
LEMMA Parts ==
    ASSUME NEW s, IsSequence(s)
    PROVE  /\ Under(s, s) /\ Under(<<>>, s)
           /\ s # <<>> => /\ Under(Front(s), s) /\ IsSequence(Front(s))
                          /\ Len(Front(s)) = Len(s) - 1 /\ Len(s) - 1 \in Nat
                          /\ Kept(Len(s) - 1, s, Front(s))
<1>1. Len(s) \in Nat
    BY SequenceFacts
<1>2. Under(s, s) /\ Under(<<>>, s)
    BY <1>1, Tuples DEF Under
<1>3. ASSUME s # <<>>
      PROVE  /\ Under(Front(s), s) /\ IsSequence(Front(s))
             /\ Len(Front(s)) = Len(s) - 1 /\ Len(s) - 1 \in Nat
             /\ Kept(Len(s) - 1, s, Front(s))
  <2>1. /\ Len(s) \in Nat \ {0} /\ IsSequence(Front(s)) /\ Len(Front(s)) = Len(s) - 1
        /\ \A i \in 1..Len(s)-1 : Front(s)[i] = s[i]
      BY <1>3, TakingOff
  <2> QED BY <2>1 DEF Under, Kept
<1> QED BY <1>2, <1>3

\* Code pushes a value.
LEMMA PushingKeeps == BlockInv /\ CodePushes => BlockInv'
<1> SUFFICES ASSUME BlockInv, CodePushes PROVE BlockInv'
    OBVIOUS
<1>1. PICK v : CodeActs /\ GoOn(OneStep, Append(stack, v), Len(stack))
    BY DEF CodePushes
<1>2. IsSequence(stack) /\ Len(stack) \in Nat
    BY SequenceFacts DEF BlockInv
<1>3. /\ IsSequence(Append(stack, v)) /\ Len(Append(stack, v)) = Len(stack) + 1
      /\ \A i \in 1..Len(stack) : Append(stack, v)[i] = stack[i]
    BY <1>2, Appending
<1>4. Kept(Len(stack), stack, Append(stack, v))
    BY <1>2, <1>3 DEF Kept
<1> QED BY <1>1, <1>2, <1>3, <1>4, CodeMoves

\* Code pops a value, or fails where there is none.
LEMMA PoppingKeeps == BlockInv /\ CodePops => BlockInv'
<1> SUFFICES ASSUME BlockInv, CodePops PROVE BlockInv'
    OBVIOUS
<1>1. IsSequence(stack)
    BY DEF BlockInv
<1>2. CASE stack = <<>>
  <2>1. Breaks("StackUnderflow", <<>>) /\ Busy("code") /\ UNCHANGED <<handlers, edits, called>>
      BY <1>2 DEF CodePops, CodeActs
  <2> QED BY <1>1, <2>1, Tuples, Parts, CodeBreaks
<1>3. CASE stack # <<>>
  <2>1. CodeActs /\ GoOn(OneStep, Front(stack), Len(stack) - 1)
      BY <1>3 DEF CodePops
  <2> QED BY <1>1, <1>3, <2>1, Parts, CodeMoves
<1> QED BY <1>2, <1>3

\* Code puts a value in the place of the top.
LEMMA ReplacingKeeps == BlockInv /\ CodeReplaces => BlockInv'
<1> SUFFICES ASSUME BlockInv, CodeReplaces PROVE BlockInv'
    OBVIOUS
<1>1. PICK v : CodeActs /\ stack # <<>>
               /\ GoOn(OneStep, Append(Front(stack), v), Len(stack) - 1)
    BY DEF CodeReplaces
<1>2. IsSequence(stack) /\ Len(stack) \in Nat
    BY SequenceFacts DEF BlockInv
<1>3. /\ IsSequence(Front(stack)) /\ Len(Front(stack)) = Len(stack) - 1 /\ Len(stack) - 1 \in Nat
      /\ Under(Front(stack), stack)
    BY <1>1, <1>2, Parts
<1>4. /\ IsSequence(Append(Front(stack), v)) /\ Len(Append(Front(stack), v)) = Len(stack)
      /\ \A i \in 1..Len(stack)-1 : Append(Front(stack), v)[i] = Front(stack)[i]
    BY <1>2, <1>3, Appending
<1>5. Kept(Len(stack) - 1, stack, Append(Front(stack), v))
    BY <1>2, <1>3, <1>4 DEF Kept, Under
<1> QED BY <1>1, <1>3, <1>4, <1>5, CodeMoves

\* Code fails or stops.
LEMMA FailureKeeps == BlockInv /\ CodeFails => BlockInv'
<1> SUFFICES ASSUME BlockInv, CodeFails PROVE BlockInv'
    OBVIOUS
<1>1. PICK e \in {"Failed", "IntentionalStop"} : Breaks(e, stack)
    BY DEF CodeFails
<1>2. e # "none" /\ Busy("code") /\ UNCHANGED <<handlers, edits, called>>
    BY DEF CodeFails, CodeActs
<1>3. IsSequence(stack)
    BY DEF BlockInv
<1> QED BY <1>1, <1>2, <1>3, Parts, CodeBreaks

\* A run of the code is over: its value is taken, refused or left, and the loop
\* of the word goes on.
LEMMA EndingKeeps == BlockInv /\ CodeEnds => BlockInv'
<1> SUFFICES ASSUME BlockInv, CodeEnds PROVE BlockInv'
    OBVIOUS
<1> DEFINE f == [Call EXCEPT !.phase = "loop", !.low = Min({@, Len(stack)}),
                             !.tidy = @ /\ Len(stack) = Call.base + Owes(Call)]
           r == Last(stack)
           g == [f EXCEPT !.got = Append(@, r)]
           below == Front(calls)
<1>1. /\ Busy("code") /\ UNCHANGED <<handlers, edits, called>>
      /\ IF ~Takes(f) THEN Settles(f, below, stack, Len(stack))
         ELSE IF stack = <<>> THEN Breaks("StackUnderflow", <<>>)
         ELSE IF Refuses(f, r) THEN Breaks("InvalidOperation", Front(stack))
         ELSE Settles(g, below, Front(stack), Len(stack) - 1)
    BY DEF CodeEnds
<1>2. /\ Running(below, stack) /\ Len(calls) \in Nat \ {0} /\ Len(below) = Len(calls) - 1
      /\ GoodCall(Call, stack) /\ InCode(Call) /\ IsSequence(stack) /\ Len(stack) \in Nat
      /\ handlers \in [Words -> Seq(Handlers)]
    BY <1>1, Innermost DEF Busy, BlockInv
<1>3. DOMAIN Call = Fields /\ Call.tidy \in BOOLEAN /\ Call.low \in Nat /\ Call.base \in Nat
    BY <1>2 DEF GoodCall
<1>4. /\ DOMAIN f = Fields /\ f.word = Call.word /\ f.left = Call.left /\ f.below = Call.below
      /\ f.base = Call.base /\ f.err = Call.err /\ f.low = Min({Call.low, Len(stack)})
    BY <1>3 DEF Fields
<1>5. f.tidy = (Call.tidy /\ Len(stack) = Call.base + Owes(Call))
    BY <1>3 DEF Fields
<1>6. /\ DOMAIN g = Fields /\ g.word = f.word /\ g.left = f.left /\ g.below = f.below
      /\ g.base = f.base /\ g.err = f.err /\ g.low = f.low /\ g.tidy = f.tidy
    BY <1>4 DEF Fields
<1>7. Takes(f) <=> Owes(Call) = 1
    BY <1>4 DEF Takes, Owes
<1>8. Owes(Call) \in {0, 1}
    BY DEF Owes
<1> HIDE DEF f, g, below, r
<1>9. f.low \in Nat /\ f.low <= Call.low /\ f.tidy \in BOOLEAN
    BY <1>2, <1>3, <1>4, <1>5, MinOfTwo
<1>10. ASSUME f.tidy
       PROVE  Call.tidy /\ Len(stack) = Resting(Call) + Owes(Call)
    BY <1>2, <1>5, <1>10 DEF InCode
<1>11. IsSequence(f.below) /\ Len(f.below) \in Nat
    BY <1>2, <1>4, SequenceFacts DEF GoodCall
<1>12. Resting(f) = Resting(Call) /\ Resting(g) = Resting(Call) /\ Resting(Call) \in Nat
  <2>1. g.word = Call.word /\ g.below = Call.below
      BY <1>4, <1>6
  <2>2. Resting(f) = Resting(Call) /\ Resting(g) = Resting(Call)
      BY <1>4, <2>1 DEF Resting
  <2>3. Len(Call.below) \in Nat
      BY <1>4, <1>11
  <2>4. Resting(Call) \in Nat
    <3>1. Call.word = "REDUCE" => Resting(Call) = Len(Call.below) + 1
        BY DEF Resting
    <3>2. Call.word # "REDUCE" => Resting(Call) = Len(Call.below) + 0
        BY DEF Resting
    <3> QED BY <2>3, <3>1, <3>2
  <2> QED BY <2>2, <2>4
<1>13. f.tidy /\ f.low >= Len(f.below) => Under(f.below, stack)
  <2> SUFFICES ASSUME f.tidy, f.low >= Len(f.below) PROVE Under(f.below, stack)
      OBVIOUS
  <2>1. Call.low >= Len(Call.below)
      BY <1>3, <1>4, <1>9, <1>11
  <2> QED BY <1>2, <1>4, <1>10, <2>1 DEF GoodCall
<1>14. f.word \in Words /\ f.left \in 0..MaxSteps /\ f.base \in Nat /\ f.err = "none"
    BY <1>2, <1>4 DEF GoodCall, InCode
<1>15. GoodCall(f, stack)
    BY <1>4, <1>9, <1>11, <1>13, <1>14 DEF GoodCall
<1>16. ASSUME NEW h, NEW s, NEW n \in Nat, IsSequence(s), Kept(n, stack, s), Settled(h, s),
              Settles(h, below, s, n)
       PROVE  BlockInv'
  <2>1. /\ IsSequence(stack') /\ GoodCalls(calls', stack') /\ Len(calls') <= Len(below) + 1
        /\ StackEffects' /\ HandlersInTurn'
      BY <1>2, <1>16, Settling
  <2>2. Len(below) + 1 = Len(calls)
      BY <1>2
  <2> QED BY <1>1, <2>1, <2>2, OtherwiseKept
<1>17. CASE ~Takes(f)
  <2>1. Settled(f, stack)
      BY <1>7, <1>8, <1>10, <1>12, <1>14, <1>15, <1>17 DEF Settled
  <2>2. Kept(Len(stack), stack, stack)
      BY DEF Kept
  <2> QED BY <1>1, <1>2, <1>16, <1>17, <2>1, <2>2
<1>18. CASE Takes(f) /\ stack = <<>>
  <2>1. Breaks("StackUnderflow", <<>>)
      BY <1>1, <1>18
  <2> QED BY <1>1, <1>2, <2>1, Tuples, Parts, CodeBreaks
<1>19. CASE Takes(f) /\ stack # <<>> /\ Refuses(f, r)
  <2>1. Breaks("InvalidOperation", Front(stack))
      BY <1>1, <1>19
  <2> QED BY <1>1, <1>2, <1>19, <2>1, Parts, CodeBreaks
<1>20. CASE Takes(f) /\ stack # <<>> /\ ~Refuses(f, r)
  <2>1. /\ IsSequence(Front(stack)) /\ Len(Front(stack)) = Len(stack) - 1
        /\ Len(stack) - 1 \in Nat /\ Kept(Len(stack) - 1, stack, Front(stack))
        /\ Under(Front(stack), stack)
      BY <1>2, <1>20, Parts
  <2>2. Settles(g, below, Front(stack), Len(stack) - 1)
      BY <1>1, <1>20
  <2>3. f.word # "REDUCE" /\ Owes(Call) = 1
      BY <1>7, <1>20 DEF Takes
  <2>4. g.tidy => Len(Front(stack)) = Resting(g)
    <3> SUFFICES ASSUME g.tidy PROVE Len(Front(stack)) = Resting(g)
        OBVIOUS
    <3>1. Len(stack) = Resting(Call) + 1
        BY <1>6, <1>10, <2>3
    <3> QED BY <1>12, <2>1, <3>1
  <2>5. g.tidy /\ g.low >= Len(g.below) => Under(g.below, Front(stack))
    <3> SUFFICES ASSUME g.tidy, g.low >= Len(g.below) PROVE Under(g.below, Front(stack))
        OBVIOUS
    <3>1. Under(f.below, stack)
        BY <1>6, <1>13
    <3>2. Len(f.below) = Len(Front(stack))
        BY <1>6, <1>11, <2>3, <2>4 DEF Resting
    <3>3. Under(f.below, Front(stack))
        BY <1>2, <1>11, <2>1, <3>1, <3>2, KeptUnder
    <3> QED BY <1>6, <3>3
  <2>6. GoodCall(g, Front(stack)) /\ g.err = "none"
      BY <1>6, <1>9, <1>4, <1>11, <1>14, <2>5 DEF GoodCall
  <2>7. Settled(g, Front(stack))
      BY <2>4, <2>6 DEF Settled
  <2> QED BY <1>16, <2>1, <2>2, <2>7
<1> QED BY <1>17, <1>18, <1>19, <1>20

-----------------------------------------------------------------------------
\* Error handlers.

\* The handler that is asked is the next of those the call had.
LEMMA AskingNext ==
    ASSUME BlockInv, HandlerRuns
    PROVE  /\ GoodCall(Asked, stack) /\ InFailure(Asked) /\ Asked.asked # <<>>
           /\ Asked.err # "IntentionalStop"
<1>1. GoodCall(Call, stack) /\ InFailure(Call)
    BY Innermost DEF HandlerRuns, Busy
<1> DEFINE k == Len(Call.asked)
           h == Call.given[k + 1]
<1>2. /\ DOMAIN Call = Fields /\ Call.given \in Seq(Handlers) /\ Call.asked \in Seq(Handlers)
      /\ Under(Call.asked, Call.given) /\ k \in Nat /\ Len(Call.given) \in Nat
      /\ k < Len(Call.given)
    BY <1>1, LenProperties DEF GoodCall, InFailure, HandlerRuns, Tried
<1>3. h \in Handlers
    BY <1>2, ElementOfSeq
<1>4. /\ DOMAIN Asked = Fields /\ Asked.asked = Append(Call.asked, h)
      /\ \A x \in Fields \ {"asked"} : Asked[x] = Call[x]
    BY <1>2 DEF Asked, Tried, Fields
<1>5. /\ Asked.word = Call.word /\ Asked.left = Call.left /\ Asked.below = Call.below
      /\ Asked.low = Call.low /\ Asked.base = Call.base /\ Asked.tidy = Call.tidy
      /\ Asked.phase = Call.phase /\ Asked.err = Call.err /\ Asked.given = Call.given
    BY <1>4 DEF Fields
<1>6. /\ Append(Call.asked, h) \in Seq(Handlers) /\ Append(Call.asked, h) # <<>>
      /\ Len(Append(Call.asked, h)) = k + 1
      /\ \A i \in 1..k : Append(Call.asked, h)[i] = Call.asked[i]
      /\ Append(Call.asked, h)[k + 1] = h
    BY <1>2, <1>3, AppendProperties
<1>7. Under(Append(Call.asked, h), Call.given)
    BY <1>2, <1>6 DEF Under
<1>8. Call.err # "IntentionalStop"
    BY <1>1, <1>2, EmptySeq DEF InFailure
<1>9. GoodCall(Asked, stack)
    BY <1>1, <1>4, <1>5 DEF GoodCall
<1>10. InFailure(Asked)
    BY <1>1, <1>4, <1>5, <1>6, <1>7 DEF InFailure
<1> QED BY <1>4, <1>5, <1>6, <1>8, <1>9, <1>10

\* What a handler makes of the stack keeps what it did not pop.
LEMMA HandlersReach ==
    ASSUME IsSequence(stack), NEW s \in Reached
    PROVE  IsSequence(s) /\ Len(s) \in Nat /\ Kept(Len(s), stack, s)
<1>1. Len(stack) \in Nat
    BY SequenceFacts
<1>2. CASE s = stack
    BY <1>1, <1>2 DEF Kept
<1>3. CASE stack # <<>> /\ s = Front(stack)
    BY <1>3, Parts
<1>4. ASSUME NEW v \in Amends, s = Append(stack, v)
      PROVE  IsSequence(s) /\ Len(s) \in Nat /\ Kept(Len(s), stack, s)
  <2>1. /\ IsSequence(s) /\ Len(s) = Len(stack) + 1
        /\ \A i \in 1..Len(stack) : s[i] = stack[i]
      BY <1>4, Appending
  <2> QED BY <1>1, <2>1 DEF Kept
<1> QED BY <1>2, <1>3, <1>4 DEF Reached

\* A handler takes the error: the call ends.
LEMMA TakingKeeps == BlockInv /\ HandlerTakes => BlockInv'
<1> SUFFICES ASSUME BlockInv, HandlerTakes PROVE BlockInv'
    OBVIOUS
<1>1. PICK s \in Reached : Ends(Asked, "handled", Front(calls), s, Len(s))
    BY DEF HandlerTakes
<1>2. HandlerRuns /\ UNCHANGED <<handlers, edits, called>> /\ calls # <<>>
    BY DEF HandlerTakes, HandlerRuns, Busy
<1>3. /\ IsSequence(stack) /\ Running(Front(calls), stack) /\ Len(calls) \in Nat \ {0}
      /\ Len(Front(calls)) = Len(calls) - 1
    BY <1>2, Innermost
<1>4. IsSequence(s) /\ Len(s) \in Nat /\ Kept(Len(s), stack, s)
    BY <1>3, HandlersReach
<1>5. /\ IsSequence(stack') /\ GoodCalls(calls', stack') /\ Len(calls') = Len(Front(calls))
      /\ ended' = [how |-> "handled", call |-> Asked, stack |-> s]
    BY <1>1, <1>3, <1>4, Ending
<1>6. InFailure(Asked) /\ Asked.asked # <<>> /\ Asked.err # "IntentionalStop"
    BY <1>2, AskingNext
<1>7. IsPrefix(Asked.asked, Asked.given)
    BY <1>6, SequenceOver, UnderIsPrefix DEF InFailure
<1>8. StackEffects' /\ HandlersInTurn'
    BY <1>5, <1>6, <1>7 DEF StackEffects, HandlersInTurn
<1>9. Len(calls') <= Len(calls)
    BY <1>3, <1>5
<1> QED BY <1>2, <1>5, <1>8, <1>9, OtherwiseKept

\* A handler refuses: the next one is asked.
LEMMA RefusingKeeps == BlockInv /\ HandlerRefuses => BlockInv'
<1> SUFFICES ASSUME BlockInv, HandlerRefuses PROVE BlockInv'
    OBVIOUS
<1> DEFINE cs == Append(Front(calls), Asked)
<1>1. PICK s \in Reached : GoOn(cs, s, Len(s))
    BY DEF HandlerRefuses
<1>2. HandlerRuns /\ UNCHANGED <<handlers, edits, called>> /\ calls # <<>>
    BY DEF HandlerRefuses, HandlerRuns, Busy
<1>3. /\ IsSequence(stack) /\ Running(Front(calls), stack) /\ Len(calls) \in Nat \ {0}
      /\ Len(Front(calls)) = Len(calls) - 1
    BY <1>2, Innermost
<1>4. IsSequence(s) /\ Len(s) \in Nat /\ Kept(Len(s), stack, s)
    BY <1>3, HandlersReach
<1>5. GoodCalls(cs, stack) /\ Len(cs) = Len(Front(calls)) + 1
    BY <1>2, <1>3, AskingNext, OnTop
<1> HIDE DEF cs
<1>6. /\ IsSequence(stack') /\ GoodCalls(calls', stack') /\ Len(calls') = Len(cs)
      /\ StackEffects' /\ HandlersInTurn'
    BY <1>1, <1>3, <1>4, <1>5, GoingOn
<1>7. Len(calls') <= Len(calls)
    BY <1>3, <1>5, <1>6
<1> QED BY <1>2, <1>6, <1>7, OtherwiseKept

\* No handler is left: the call beneath fails with the error.
LEMMA ReraisingKeeps == BlockInv /\ Reraises => BlockInv'
<1> SUFFICES ASSUME BlockInv, Reraises PROVE BlockInv'
    OBVIOUS
<1> DEFINE below == Front(calls)
<1>1. /\ Busy("failed") /\ Len(Call.asked) >= Len(Call.given) /\ calls # <<>>
      /\ UNCHANGED <<stack, handlers, edits, called>>
      /\ ended' = [how |-> "raised", call |-> Call, stack |-> stack]
      /\ calls' = IF below = <<>> THEN <<>>
                  ELSE Append(Front(below), Failing(Last(below), Call.err))
    BY DEF Reraises, Busy, Tried
<1>2. /\ IsSequence(stack) /\ Running(below, stack) /\ Len(calls) \in Nat \ {0}
      /\ Len(below) = Len(calls) - 1 /\ InFailure(Call)
    BY <1>1, Innermost DEF Busy
<1> HIDE DEF below
<1>3. GoodCalls(calls', stack) /\ Len(calls') <= Len(calls)
  <2>1. CASE below = <<>>
    <3>1. calls' = <<>> BY <1>1, <2>1
    <3> QED BY <1>2, <3>1, Tuples DEF GoodCalls
  <2>2. CASE below # <<>>
    <3> DEFINE g == Failing(Last(below), Call.err)
    <3>1. /\ Running(Front(below), stack) /\ Len(Front(below)) = Len(below) - 1
          /\ GoodCall(Last(below), stack)
        BY <1>2, <2>2, RunningGood, Beneath
    <3>2. GoodCall(g, stack) /\ InFailure(g)
        BY <1>2, <3>1, FailingCall DEF InFailure, BlockInv
    <3>3. calls' = Append(Front(below), g)
        BY <1>1, <2>2
    <3> HIDE DEF g
    <3>4. /\ GoodCalls(Append(Front(below), g), stack)
          /\ Len(Append(Front(below), g)) = Len(Front(below)) + 1
        BY <3>1, <3>2, OnTop
    <3> QED BY <1>2, <3>1, <3>3, <3>4
  <2> QED BY <2>1, <2>2
<1>4. Call.asked = Call.given
    BY <1>1, <1>2, SequenceOver, UnderIsPrefix DEF InFailure
<1>5. Call.err = "IntentionalStop" => Call.asked = <<>>
    BY <1>2, <1>4 DEF InFailure
<1>6. StackEffects' /\ HandlersInTurn'
    BY <1>1, <1>4, <1>5 DEF StackEffects, HandlersInTurn
<1>7. stack' = stack /\ UNCHANGED <<handlers, edits, called>>
    BY <1>1
<1> QED BY <1>2, <1>3, <1>6, <1>7, OtherwiseKept

\* The list of handlers is changed while a call fails.
LEMMA ChangingKeeps ==
    ASSUME BlockInv, NEW hs \in Seq(Handlers), Changes(hs)
    PROVE  BlockInv'
<1>1. /\ edits < MaxEdits /\ edits' = edits + 1 /\ handlers' = [handlers EXCEPT ![Call.word] = hs]
      /\ ended' = NoCall /\ UNCHANGED <<stack, calls, called>>
    BY DEF Changes
<1>2. handlers' \in [Words -> Seq(Handlers)]
    BY <1>1 DEF BlockInv
<1>3. edits' \in 0..MaxEdits
    BY <1>1, BlockBounds DEF BlockInv
<1> QED BY <1>1, <1>2, <1>3, NothingEnds DEF BlockInv

\* Taking the first of a handler off a list leaves a list of handlers.
LEMMA RemovingFirst ==
    ASSUME NEW hs \in Seq(Handlers), NEW h
    PROVE  RemoveFirst(hs, h) \in Seq(Handlers)
<1> DEFINE I == {i \in 1..Len(hs) : hs[i] = h}
<1>1. Len(hs) \in Nat
    BY LenProperties
<1>2. CASE I = {}
  <2>1. RemoveFirst(hs, h) = hs BY <1>2 DEF RemoveFirst
  <2> QED BY <2>1
<1>3. CASE I # {}
  <2>1. I \subseteq Nat
      BY <1>1
  <2>2. RemoveFirst(hs, h) = RemoveAt(hs, Min(I))
      BY <1>3 DEF RemoveFirst, SelectInSeq
  <2>3. Min(I) \in I
      BY <1>3, <2>1, MinOfNats
  <2>4. Min(I) \in 1..Len(hs)
      BY <2>3
  <2> DEFINE i == Min(I)
  <2> HIDE DEF I
  <2>5. \A j \in 1..Len(hs) : hs[j] \in Handlers
      BY ElementOfSeq
  <2>6. SubSeq(hs, 1, i - 1) \in Seq(Handlers) /\ SubSeq(hs, i + 1, Len(hs)) \in Seq(Handlers)
    <3>1. i \in 1..Len(hs) BY <2>4
    <3> HIDE DEF i
    <3>2. \A j \in 1..i-1 : hs[j] \in Handlers BY <1>1, <2>5, <3>1
    <3>3. \A j \in i+1..Len(hs) : hs[j] \in Handlers BY <1>1, <2>5, <3>1
    <3>4. i - 1 \in Int /\ i + 1 \in Int /\ Len(hs) \in Int BY <1>1, <3>1
    <3>5. SubSeq(hs, 1, i - 1) \in Seq(Handlers) BY <3>2, <3>4, SubSeqProperties
    <3>6. SubSeq(hs, i + 1, Len(hs)) \in Seq(Handlers) BY <3>3, <3>4, SubSeqProperties
    <3> QED BY <3>5, <3>6
  <2> QED BY <2>2, <2>6, ConcatProperties DEF RemoveAt
<1> QED BY <1>2, <1>3

\* Every change keeps a list of handlers.
LEMMA EditingKeeps ==
    BlockInv /\ (add_error_handler \/ remove_error_handler \/ clear_error_handlers) => BlockInv'
<1> SUFFICES ASSUME BlockInv,
                    add_error_handler \/ remove_error_handler \/ clear_error_handlers
             PROVE  BlockInv'
    OBVIOUS
<1>1. HandlersNow \in Seq(Handlers)
  <2>1. CASE Busy("failed")
    <3>1. Call.word \in Words
        BY <2>1, Innermost DEF Busy, GoodCall
    <3> QED BY <2>1, <3>1 DEF HandlersNow, BlockInv
  <2>2. CASE ~Busy("failed")
      BY <2>2, EmptySeq DEF HandlersNow
  <2> QED BY <2>1, <2>2
<1>2. CASE add_error_handler
  <2>1. PICK h \in Handlers : Changes(Append(HandlersNow, h))
      BY <1>2 DEF add_error_handler
  <2> QED BY <1>1, <2>1, AppendProperties, ChangingKeeps
<1>3. CASE remove_error_handler
  <2>1. PICK h : Changes(RemoveFirst(HandlersNow, h))
      BY <1>3 DEF remove_error_handler
  <2> QED BY <1>1, <2>1, RemovingFirst, ChangingKeeps
<1>4. CASE clear_error_handlers
    BY <1>4, EmptySeq, ChangingKeeps DEF clear_error_handlers
<1> QED BY <1>2, <1>3, <1>4

-----------------------------------------------------------------------------
\* The theorems.

\* A program starts with its own code on the stack it was given.
LEMMA BlockInvInit == Init => BlockInv
<1> SUFFICES ASSUME Init PROVE BlockInv
    OBVIOUS
<1> DEFINE f == [Program EXCEPT !.below = stack, !.low = Len(stack), !.base = Len(stack)]
<1>1. /\ stack \in Stacks /\ calls = <<f>> /\ handlers \in Given
      /\ edits = 0 /\ called = 0 /\ ended = NoCall
    BY DEF Init
<1>2. IsSequence(stack) /\ Len(stack) \in Nat
    BY <1>1, StacksAssumption, SequenceFacts
<1>3. /\ DOMAIN f = Fields /\ f.word = "RUN" /\ f.left = MaxSteps /\ f.phase = "code"
      /\ f.err = "none" /\ f.below = stack /\ f.low = Len(stack) /\ f.base = Len(stack)
      /\ f.tidy = TRUE
    BY DEF Program, Opened, Fields
<1> HIDE DEF f
<1>4. GoodCall(f, stack)
  <2>1. f.tidy \in BOOLEAN BY <1>3
  <2>2. Under(f.below, stack) BY <1>2, <1>3, Parts
  <2>3. f.word \in Words BY <1>3 DEF Words, Branching
  <2>4. MaxSteps \in 0..MaxSteps BY BlockBounds
  <2> QED BY <1>2, <1>3, <2>1, <2>2, <2>3, <2>4 DEF GoodCall
<1>5. InCode(f)
    BY <1>2, <1>3 DEF InCode, Resting
<1>6. GoodCalls(calls, stack) /\ Len(calls) = 1
  <2>1. IsSequence(<<f>>) /\ Len(<<f>>) = 1 /\ <<f>>[1] = f
      BY Tuples
  <2>2. \A i \in 1..1 : i = 1
      OBVIOUS
  <2> QED BY <1>1, <1>4, <1>5, <2>1, <2>2 DEF GoodCalls
<1>7. StackEffects /\ HandlersInTurn
    BY <1>1 DEF NoCall, StackEffects, HandlersInTurn
<1> QED BY <1>1, <1>2, <1>6, <1>7, GivenAssumption, BlockBounds DEF BlockInv

\* Every word that can be called is one of the words.
LEMMA CallsOfWords == BlockInv /\ WordIsCalled => BlockInv'
<1> SUFFICES ASSUME BlockInv, WordIsCalled PROVE BlockInv'
    OBVIOUS
<1>1. \E w \in Words : Calls(w)
    BY DEF WordIsCalled, Words, Iterating, Keyed, OfArrays, Branching,
           word_filter, word_foreach, word_reduce, word_find, word_count, word_sort,
           word_sort_by, word_min_by, word_max_by, word_unique_by, word_times_run,
           word_zip_with, word_map_at, word_group_by, word_index, word_run,
           word_if_run, word_when, word_default_run
<1> QED BY <1>1, CallingKeeps

\* Every step keeps the invariant.
LEMMA BlockInvNext == BlockInv /\ [Next]_vars => BlockInv'
<1> SUFFICES ASSUME BlockInv, [Next]_vars PROVE BlockInv'
    OBVIOUS
<1>1. CASE WordIsCalled BY <1>1, CallsOfWords
<1>2. CASE CodePushes BY <1>2, PushingKeeps
<1>3. CASE CodePops BY <1>3, PoppingKeeps
<1>4. CASE CodeReplaces BY <1>4, ReplacingKeeps
<1>5. CASE CodeFails BY <1>5, FailureKeeps
<1>6. CASE CodeEnds BY <1>6, EndingKeeps
<1>7. CASE HandlerTakes BY <1>7, TakingKeeps
<1>8. CASE HandlerRefuses BY <1>8, RefusingKeeps
<1>9. CASE Reraises BY <1>9, ReraisingKeeps
<1>10. CASE add_error_handler \/ remove_error_handler \/ clear_error_handlers
    BY <1>10, EditingKeeps
<1>11. CASE UNCHANGED vars
    BY <1>11 DEF vars, BlockInv, StackEffects, HandlersInTurn
<1> QED BY <1>1, <1>2, <1>3, <1>4, <1>5, <1>6, <1>7, <1>8, <1>9, <1>10, <1>11 DEF Next

\* The invariant holds in every state.
THEOREM BlockInvariance == Spec => []BlockInv
<1> QED BY BlockInvInit, BlockInvNext, PTL DEF Spec

\* The counters keep to their bounds; only the innermost call may be failing, and
\* a call fails exactly when it has an error.
THEOREM BlockTypeCorrect == Spec => []TypeOK
<1>1. BlockInv => TypeOK
    BY DEF BlockInv, TypeOK, GoodCalls, GoodCall, InCode, InFailure
<1> QED BY <1>1, BlockInvariance, PTL

\* A word whose runs left what they owe, and never reached below its arguments,
\* leaves the stack under its arguments as it was, and its result on top of it.
THEOREM StackEffectsHold == Spec => []StackEffects
<1>1. BlockInv => StackEffects
    BY DEF BlockInv
<1> QED BY <1>1, BlockInvariance, PTL

\* A failing word asks the handlers it had when it failed, in their order, up to
\* the first that takes the error; with none left it fails; a stop asks none.
THEOREM HandlersAreAskedInTurn == Spec => []HandlersInTurn
<1>1. BlockInv => HandlersInTurn
    BY DEF BlockInv
<1> QED BY <1>1, BlockInvariance, PTL

=============================================================================
