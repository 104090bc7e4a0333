------------------------------ MODULE BlockWords ------------------------------
(***************************************************************************)
(* The standard words that run code: FILTER, REDUCE, SORT-BY, IF-RUN and   *)
(* their kin, called from code and calling code, with the error handlers   *)
(* every word of a module may have.                                        *)
(*                                                                         *)
(* What a code string does is left open: within a bound of steps it pops   *)
(* and pushes anything, calls any of these words, fails, stops or ends.    *)
(* So is the value a word makes of what its runs leave: BlockResults says  *)
(* what it is.                                                             *)
(***************************************************************************)
EXTENDS ForthicValues

CONSTANTS
    Stacks,    \* the stacks to begin with
    Literals,  \* what code pushes
    Amends,    \* what handlers push
    Handlers,  \* the error handlers there are
    Given,     \* which of them each word has to begin with
    ResultOf(_), \* what a call pushes when its runs are over
    MaxSteps,  \* steps of one run of code
    MaxCalls,  \* words that code calls, all told
    MaxStack,  \* where code stops pushing
    MaxEdits   \* changes of handlers while words run

ASSUME BlockBounds ==
    MaxSteps \in Nat /\ MaxCalls \in Nat /\ MaxStack \in Nat /\ MaxEdits \in Nat

ASSUME StacksAssumption == \A s \in Stacks : IsSequence(s)

VARIABLES
    stack,     \* the data stack, its top last
    calls,     \* the words that run, the innermost last
    handlers,  \* the error handlers of each word
    edits,     \* how often they were changed
    called,    \* how many words were called
    ended      \* the last call that ended, and how

vars == <<stack, calls, handlers, edits, called, ended>>

-----------------------------------------------------------------------------
\* Arguments.
Keyed      == {"FILTER", "FOREACH", "GROUP-BY"}        \* may have the option with_key
OfArrays   == {"SORT", "SORT-BY", "MIN-BY", "MAX-BY", "UNIQUE-BY", "INDEX"}
Branching  == {"RUN", "IF-RUN", "WHEN", "DEFAULT-RUN"} \* null is code that does nothing
Iterating  == Keyed \cup OfArrays \cup {"FIND", "COUNT", "REDUCE"}
Words      == Iterating \cup Branching \cup {"ZIP-WITH", "MAP-AT", "TIMES-RUN"}

ASSUME GivenAssumption == Given \subseteq [Words -> Seq(Handlers)]

Arity(w) == CASE w \in {"RUN", "SORT"} -> 1
              [] w \in {"REDUCE", "ZIP-WITH", "MAP-AT", "IF-RUN"} -> 3
              [] OTHER -> 2

\* How many of them are code, and what may stand there.
Codes(w) == CASE w = "IF-RUN" -> 2 [] w \in {"SORT", "TIMES-RUN"} -> 0 [] OTHER -> 1
IsCode(w, v) == Kind(v) = "string" \/ (w \in Branching /\ v = Nil)

HasOptions(w, s) == w \in Keyed \cup {"SORT"} /\ s # <<>> /\ Kind(Last(s)) = "options"
OptionsOn(w, s)  == IF HasOptions(w, s) THEN Last(s)[2] ELSE <<>>
Without(w, s)    == IF HasOptions(w, s) THEN Front(s) ELSE s

\* The arguments of w on s, popped one by one, the options first; code that is
\* none is refused where it is popped.
ArgsOf(w, s) ==
    LET at(j) == s[Len(s) - j + 1]
        bad   == {j \in 1..Min({Codes(w), Len(s)}) : ~IsCode(w, at(j))}
    IN  CASE bad # {} -> [err |-> "InvalidOperation", args |-> <<>>,
                          below |-> SubSeq(s, 1, Len(s) - Min(bad))]
          [] bad = {} /\ Len(s) < Arity(w) ->
                [err |-> "StackUnderflow", args |-> <<>>, below |-> <<>>]
          [] OTHER -> [err |-> "none", args |-> SubSeq(s, Len(s) - Arity(w) + 1, Len(s)),
                       below |-> SubSeq(s, 1, Len(s) - Arity(w))]

-----------------------------------------------------------------------------
\* MAP-AT: the place a path leads to.
PathOf(key) == IF Kind(key) = "array" THEN key[2] ELSE <<key>>

\* An index may be written as a string, in its usual form (the code also reads
\* +1 and 01); a container cannot be a key.
IndexIn(arr, head) ==
    LET i == CASE Kind(head) = "int" -> head[2]
               [] Kind(head) = "float" /\ head[2] % 2 = 0 -> AsI64(head)
               [] Kind(head) = "negzero" -> 0
               [] Kind(head) = "string" /\ \E n \in 0..MaxInt : ToString(n) = head[2] ->
                     CHOOSE n \in 0..MaxInt : ToString(n) = head[2]
               [] OTHER -> -1
    IN  IF i \in 0..Len(arr)-1 THEN i + 1 ELSE 0

\* Where a key leads to in a container: <<>> where nothing is.
ChildOf(c, head) ==
    LET i == IndexIn(c[2], head)
        k == value_to_key_string(head)
    IN  CASE Kind(c) = "array" /\ i # 0 -> <<c[2][i]>>
          [] Kind(c) = "record" /\ ~IsScalar(head) -> <<Fail("InvalidOperation")>>
          [] Kind(c) = "record" /\ IsScalar(head) /\ Has(c[2], k) -> <<Get(c[2], k)>>
          [] OTHER -> <<>>

PlaceOf(c, path) ==
    FoldLeft(LAMBDA at, head : IF at = <<>> \/ Failed(at[1]) THEN at ELSE ChildOf(at[1], head),
             <<c>>, path)

-----------------------------------------------------------------------------
\* A call of w: what is pushed before each run of its code.
WithKey(f) == Get(f.options, "with_key") = Bool(TRUE)

ItemsOf(f) ==
    LET c == f.args[1] IN
    CASE f.word \in OfArrays -> IF Kind(c) = "array" THEN keyed_items(c) ELSE <<>>
      [] f.word \in Iterating \ OfArrays -> keyed_items(c)
      [] OTHER -> <<>>

\* ZIP-WITH pads what the second container lacks with null.
ZipPartner(c, d, i) ==
    IF Kind(c) = "array" THEN IF i <= Len(d[2]) THEN d[2][i] ELSE Nil
    ELSE Get(d[2], c[2][i][1])

Zips(c, d) == IsContainer(c) /\ Kind(c) = Kind(d)

\* WHEN, IF-RUN, RUN: the code that is chosen; "" and null do nothing.
Chosen(f) ==
    CASE f.word = "RUN"    -> f.args[1]
      [] f.word = "WHEN"   -> IF Truthy(f.args[1]) THEN f.args[2] ELSE Nil
      [] f.word = "IF-RUN" -> IF Truthy(f.args[1]) THEN f.args[2] ELSE f.args[3]
      [] f.word = "SORT"   -> Get(f.options, "comparator")
      [] OTHER             -> Last(f.args)

Empty == {Nil, Str("")}

Times(f) == IF IsNumber(f.args[1]) /\ Kind(f.args[2]) = "string" /\ f.args[2] \notin Empty
            THEN AsI64(f.args[1]) ELSE 0

\* How often the code runs, and what is pushed before its run i.
Runs(f) ==
    LET a == f.args IN
    CASE f.word \in Iterating -> Len(ItemsOf(f))
      [] f.word = "ZIP-WITH"  -> IF Zips(a[1], a[2]) THEN Len(a[1][2]) ELSE 0
      [] f.word = "MAP-AT"    -> IF a[1] = Nil THEN 0 ELSE Len(PlaceOf(a[1], PathOf(a[2])))
      [] f.word = "TIMES-RUN" -> Times(f)
      [] f.word = "DEFAULT-RUN" -> IF a[1] \in Empty /\ a[2] # Nil THEN 1 ELSE 0
      [] OTHER -> IF Chosen(f) \in Empty THEN 0 ELSE 1

PushedAt(f, i) ==
    LET a == f.args
        item == ItemsOf(f)[i]
    IN  CASE f.word \in Keyed /\ WithKey(f) -> <<item[1], item[2]>>
          [] f.word \in Iterating /\ ~(f.word \in Keyed /\ WithKey(f)) -> <<item[2]>>
          [] f.word = "ZIP-WITH" -> <<Elements(a[1])[i], ZipPartner(a[1], a[2], i)>>
          [] f.word = "MAP-AT"   -> <<PlaceOf(a[1], PathOf(a[2]))[1]>>
          [] OTHER -> <<>>

\* MAP-AT refuses a path with a key that cannot be one.
Astray(f) ==
    f.word = "MAP-AT" /\ \E i \in 1..Runs(f) : Failed(PlaceOf(f.args[1], PathOf(f.args[2]))[i])

\* Bug: what a run of REDUCE leaves is popped too.
TakesReduced(f) == f.word \notin {"FOREACH", "TIMES-RUN", "RUN", "IF-RUN", "WHEN"}

\* Whether the word pops what a run leaves on top, and the result it refuses.
Takes(f) == f.word \notin {"FOREACH", "REDUCE", "TIMES-RUN", "RUN", "IF-RUN", "WHEN"}

Refuses(f, v) ==
    \/ f.word = "GROUP-BY" /\ ~IsScalar(v)
    \/ f.word = "INDEX" /\ Kind(v) = "array" /\ \E i \in 1..Len(v[2]) : Kind(v[2][i]) # "string"

\* A word that promises no result pushes none; REDUCE leaves the accumulator.
Silent  == {"FOREACH", "TIMES-RUN", "RUN", "IF-RUN", "WHEN"}
Outs(f) == IF f.word \in Silent \cup {"REDUCE"} THEN <<>> ELSE <<ResultOf(f)>>

-----------------------------------------------------------------------------
\* A call: its arguments, the runs begun and what they left; while it
\* fails, the handlers it had and those that were asked.  below, low, base and
\* tidy are kept for the properties: the stack under the arguments, the lowest
\* its code let it sink, where the run began, and whether all runs left what they owe.
NoCall == [how |-> "none"]

Opened(w, options, a) ==
    [word |-> w, options |-> options, args |-> a.args, begun |-> 0, got |-> <<>>,
     phase |-> "loop", left |-> 0, err |-> a.err, given |-> <<>>, asked |-> <<>>,
     below |-> a.below, low |-> Len(a.below), base |-> 0, tidy |-> TRUE]

\* The code that runs when nothing was called yet: word_run of the program.
Program == [Opened("RUN", <<>>, [args |-> <<Str("w")>>, err |-> "none", below |-> <<>>])
                EXCEPT !.begun = 1, !.phase = "code", !.left = MaxSteps]

Init ==
    /\ stack \in Stacks
    /\ calls = <<[Program EXCEPT !.below = stack, !.low = Len(stack), !.base = Len(stack)]>>
    /\ handlers \in Given
    /\ edits = 0 /\ called = 0 /\ ended = NoCall

Call == Last(calls)
Busy(phase) == calls # <<>> /\ Call.phase = phase

\* The calls go on as cs, on the stack s, which had sunk to n.
Sunk(cs, n) == [i \in 1..Len(cs) |-> [cs[i] EXCEPT !.low = Min({@, n})]]
GoOn(cs, s, n) == calls' = Sunk(cs, n) /\ stack' = s /\ ended' = NoCall

Ends(f, how, below, s, n) ==
    /\ calls' = Sunk(below, n) /\ stack' = s
    /\ ended' = [how |-> how, call |-> f, stack |-> s]

\* The handlers are copied when the word fails; a stop has none.
Failing(f, e) == [f EXCEPT !.phase = "failed", !.err = e, !.asked = <<>>,
                           !.given = IF e = "IntentionalStop" THEN <<>> ELSE handlers[f.word]]

\* FIND asks no further than the first that is truthy.
Found(f) == f.word = "FIND" /\ f.got # <<>> /\ Truthy(Last(f.got))

\* The loop of the word: the next run, or its end.
Settles(f, below, s, n) ==
    IF f.begun < Runs(f) /\ ~Found(f)
    THEN /\ stack' = s \o PushedAt(f, f.begun + 1) /\ ended' = NoCall
         /\ calls' = Append(Sunk(below, n), [f EXCEPT !.begun = @ + 1, !.phase = "code",
                                                     !.left = MaxSteps, !.base = Len(s)])
    ELSE IF f.word = "REDUCE" /\ s = <<>>
    THEN GoOn(Append(below, Failing(f, "StackUnderflow")), s, n)
    ELSE Ends(f, "done", below, s \o Outs(f), n)

\* Code calls w; a step of the code is used up.
Calls(w) ==
    LET a == ArgsOf(w, Without(w, stack))
        f == Opened(w, OptionsOn(w, stack), a)
        below == Append(Front(calls), [Call EXCEPT !.left = @ - 1])
        Lost == a.err # "none"
    IN  /\ Busy("code") /\ Call.left > 0 /\ called < MaxCalls /\ called' = called + 1
        /\ UNCHANGED <<handlers, edits>>
        /\ IF Lost THEN GoOn(Append(below, Failing(f, a.err)), a.below, Len(a.below))
           ELSE IF Astray(f) THEN GoOn(Append(below, Failing(f, "InvalidOperation")), a.below, Len(a.below))
           ELSE Settles(f, below, a.below \o (IF w = "REDUCE" THEN <<f.args[2]>> ELSE <<>>),
                        Len(a.below))

word_filter      == Calls("FILTER")
word_foreach     == Calls("FOREACH")
word_reduce      == Calls("REDUCE")
word_find        == Calls("FIND")
word_count       == Calls("COUNT")
word_sort        == HasOptions("SORT", stack) /\ Kind(Get(OptionsOn("SORT", stack), "comparator")) = "string"
                    /\ Calls("SORT")
word_sort_by     == Calls("SORT-BY")
word_min_by      == Calls("MIN-BY")
word_max_by      == Calls("MAX-BY")
word_unique_by   == Calls("UNIQUE-BY")
word_times_run   == Calls("TIMES-RUN")
word_zip_with    == Calls("ZIP-WITH")
word_map_at      == Calls("MAP-AT")
word_group_by    == Calls("GROUP-BY")
word_index       == Calls("INDEX")
word_run         == Calls("RUN")
word_if_run      == Calls("IF-RUN")
word_when        == Calls("WHEN")
word_default_run == Calls("DEFAULT-RUN")

WordIsCalled ==
    \/ word_filter \/ word_foreach \/ word_reduce \/ word_find \/ word_count \/ word_sort
    \/ word_sort_by \/ word_min_by \/ word_max_by \/ word_unique_by \/ word_times_run
    \/ word_zip_with \/ word_map_at \/ word_group_by \/ word_index \/ word_run
    \/ word_if_run \/ word_when \/ word_default_run

-----------------------------------------------------------------------------
\* Code.  An empty string can only end.
CodeOf(f) == IF f.word \in {"RUN", "WHEN", "IF-RUN", "SORT"} THEN Chosen(f) ELSE Last(f.args)
CodeActs == Busy("code") /\ Call.left > 0 /\ CodeOf(Call) # Str("") /\ UNCHANGED <<handlers, edits, called>>
OneStep == Append(Front(calls), [Call EXCEPT !.left = @ - 1])

\* Bug: the word fails without leaving its loop.
BreaksWithin(e, s) == GoOn(Append(calls, Failing(Call, e)), s, Len(s))

Breaks(e, s) == GoOn(Append(Front(calls), Failing(Call, e)), s, Len(s))

\* It pops nothing or a value, and pushes nothing or one.
CodePushes ==
    /\ CodeActs /\ Len(stack) < MaxStack
    /\ \E v \in Literals : GoOn(OneStep, Append(stack, v), Len(stack))

CodePops ==
    /\ CodeActs
    /\ IF stack = <<>> THEN Breaks("StackUnderflow", <<>>)
       ELSE GoOn(OneStep, Front(stack), Len(stack) - 1)

CodeReplaces ==
    /\ CodeActs /\ stack # <<>>
    /\ \E v \in Literals : GoOn(OneStep, Append(Front(stack), v), Len(stack) - 1)

CodeFails == CodeActs /\ \E e \in {"Failed", "IntentionalStop"} : Breaks(e, stack)

\* What code owes: the words that build a result want a value of each run.
Owes(f) == IF f.word \in {"FOREACH", "REDUCE", "TIMES-RUN", "RUN", "IF-RUN", "WHEN"} THEN 0 ELSE 1

\* run_on_item: the result is popped when the code is over.
CodeEnds ==
    LET f == [Call EXCEPT !.phase = "loop", !.low = Min({@, Len(stack)}), !.tidy = @ /\ Len(stack) = Call.base + Owes(Call)]
        r == Last(stack)
        below == Front(calls)
    IN  /\ Busy("code") /\ UNCHANGED <<handlers, edits, called>>
        /\ IF ~Takes(f) THEN Settles(f, below, stack, Len(stack))
           ELSE IF stack = <<>> THEN Breaks("StackUnderflow", <<>>)
           ELSE IF Refuses(f, r) THEN Breaks("InvalidOperation", Front(stack))
           ELSE Settles([f EXCEPT !.got = Append(@, r)], below, Front(stack), Len(stack) - 1)

-----------------------------------------------------------------------------
\* try_error_handlers: the copy is tried in order until one takes the error.
TriedNow(f) == handlers[f.word]  \* Bug: the list is read again for every handler.
Tried(f) == f.given
HandlerRuns == Busy("failed") /\ Len(Call.asked) < Len(Tried(Call)) /\ UNCHANGED <<handlers, edits, called>>
Asked == [Call EXCEPT !.asked = Append(@, Tried(Call)[Len(@) + 1])]

\* A handler is given the context: it pushes, or pops, and takes the error or not.
Reached ==
    {stack} \cup (IF stack = <<>> THEN {} ELSE {Front(stack)})
    \cup (IF Len(stack) < MaxStack THEN {Append(stack, v) : v \in Amends} ELSE {})

HandlerTakes ==
    HandlerRuns /\ \E s \in Reached : Ends(Asked, "handled", Front(calls), s, Len(s))

HandlerRefuses ==
    HandlerRuns /\ \E s \in Reached : GoOn(Append(Front(calls), Asked), s, Len(s))

\* No handler took it: the error goes to the code that called the word.
Reraises ==
    LET below == Front(calls) IN
    /\ Busy("failed") /\ Len(Call.asked) >= Len(Tried(Call)) /\ UNCHANGED <<stack, handlers, edits, called>>
    /\ ended' = [how |-> "raised", call |-> Call, stack |-> stack]
    /\ calls' = IF below = <<>> THEN <<>>
                ELSE Append(Front(below), Failing(Last(below), Call.err))

\* Whoever holds a word can change its handlers at any time, on any thread.
\* Until the word fails, that is as if it had been given the others.
Changes(hs) ==
    /\ Busy("failed") /\ edits < MaxEdits /\ edits' = edits + 1
    /\ handlers' = [handlers EXCEPT ![Call.word] = hs]
    /\ ended' = NoCall /\ UNCHANGED <<stack, calls, called>>
HandlersNow == IF Busy("failed") THEN handlers[Call.word] ELSE <<>>

add_error_handler    == \E h \in Handlers : Changes(Append(HandlersNow, h))
remove_error_handler == \E h \in ToSet(HandlersNow) : Changes(RemoveFirst(HandlersNow, h))
clear_error_handlers == Changes(<<>>)

Next ==
    \/ WordIsCalled \/ CodePushes \/ CodePops \/ CodeReplaces \/ CodeFails \/ CodeEnds
    \/ HandlerTakes \/ HandlerRefuses \/ Reraises
    \/ add_error_handler \/ remove_error_handler \/ clear_error_handlers

Spec == Init /\ [][Next]_vars

-----------------------------------------------------------------------------
\* Only the innermost call may be failing, and one that fails has an error;
\* the counters keep to their bounds, handlers are such.
TypeOK ==
    /\ called \in 0..MaxCalls /\ Len(calls) <= called + 1 /\ edits \in 0..MaxEdits
    /\ handlers \in [Words -> Seq(Handlers)]
    /\ \A i \in 1..Len(calls) :
          /\ calls[i].word \in Words /\ calls[i].left \in 0..MaxSteps
          /\ calls[i].phase = "code" \/ (calls[i].phase = "failed" /\ i = Len(calls))
          /\ (calls[i].phase = "failed") = (calls[i].err # "none")

\* Words whose code keeps to its effect keep to theirs: when every run left
\* what it owes and none reached below the arguments, the word leaves the
\* stack as it was but for its result.
StackEffects ==
    LET f == ended.call IN
    ended.how = "done" /\ f.tidy /\ f.low >= Len(f.below) =>
        /\ IsPrefix(f.below, stack)
        /\ Len(stack) = Len(f.below) + (IF f.word \in Silent THEN 0 ELSE 1)

\* A failing word asks the handlers it had when it failed, in their order and
\* each once, up to the first that takes the error, whatever is done to the
\* list meanwhile; it fails with its own error when none did; a stop asks none.
HandlersInTurn ==
    LET f == ended.call IN
    /\ ended.how = "handled" => f.asked # <<>> /\ IsPrefix(f.asked, f.given)
    /\ ended.how = "raised"  => f.asked = f.given
    /\ ended.how \in {"handled", "raised"} /\ f.err = "IntentionalStop" =>
          ended.how = "raised" /\ f.asked = <<>>
=============================================================================
