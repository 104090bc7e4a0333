---------------------------- MODULE ForthicInterp ----------------------------
(***************************************************************************)
(* The Forthic interpreter: the token loop of Interpreter::run, the        *)
(* compiler of : and @: definitions, and the words that run code of their  *)
(* own (RUN, TRY, MAP, user definitions, memo words, run_module_code).     *)
(*                                                                         *)
(* The Rust call stack is a variable, control: one frame per activation    *)
(* that is waiting for nested code.  A Result::Err travelling up the call  *)
(* stack is the variable res.  Code strings are not spelled out: a run     *)
(* frame draws its tokens one by one from Tokens, so one frame stands for  *)
(* every string of at most `fuel' more tokens.                             *)
(***************************************************************************)
EXTENDS Naturals, Sequences

CONSTANTS
    DefName,     \* names that : and @: may define
    ModName,     \* names that {name may open
    Tokens,      \* the vocabulary of the code that is run
    ItemValues,  \* what an element of an abstract container may be
    MaxItems,    \* bound: elements of a container given to MAP
    MaxTokens,   \* bound: tokens read in a behaviour, over all runs
    MaxCalls     \* bound: calls of the host

-----------------------------------------------------------------------------
(***************************************************************************)
(* Data.  Literals a, b, NULL and the array marker are themselves; strings *)
(* (all of them runnable code), arrays and the {"ok": ..} / {"error": ..}  *)
(* records are kept only as their kind.                                    *)
(***************************************************************************)
Value  == {"a", "b", "null", "mark", "code", "arr", "ok", "err"}
Opaque == {"code", "arr", "ok", "err"}

NoValue == "no_value"

AppName   == ""                      \* the app module has the blank name
Builtin   == {"DUP", "DROP", "RUN", "TRY", "MAP", "MAP-OUTCOMES", "UNWRAP", "PEEK!"}
NameOp    == {"call", "bang", "bangat"}     \* the words F, F! and F!@ of a name F

\* A word as it is executed or compiled; an Arc to a definition is its index
\* in heap.
PushWord  == [op : {"push"}, v : Value]
PlainWord == [op : Builtin \cup {"end_array", "end_module"}]
OpenWord  == [op : {"start_module"}, m : ModName \cup {AppName}]
RefWord   == [op : NameOp, ref : Nat]
Word      == PushWord \cup PlainWord \cup OpenWord \cup RefWord

\* What next_token returns.  A "word" token stands for every token that
\* handle_word receives without a lookup in the dictionary of user words.
Token == [t : {"word"}, w : PushWord \cup [op : Builtin \cup {"end_array"}]]
    \cup [t : {"name"}, n : DefName, op : NameOp]
    \cup [t : {"start_module"}, m : ModName \cup {AppName}]
    \cup [t : {"start_def", "start_memo"}, n : DefName]
    \cup [t : {"end_module", "end_def", "malformed"}]

ASSUME ConstantsAssumption ==
    /\ Tokens \subseteq Token
    /\ ItemValues \subseteq Value
    /\ MaxItems \in Nat /\ MaxTokens \in Nat /\ MaxCalls \in Nat
    /\ AppName \notin ModName /\ AppName \notin DefName

Error == {"UnknownWord", "StackUnderflow", "MissingSemicolon", "ExtraSemicolon",
          "InvalidOperation", "InvalidToken", "IntentionalStop",
          "WordExecution", "Module"}

-----------------------------------------------------------------------------
VARIABLES
    stack,               \* the data stack
    module_stack,        \* the module stack: module values, not references
    tokenizer_stack,     \* the tokenizers, each known by the depth of its run
    is_compiling,
    is_memo_definition,
    cur_definition,
    heap,                \* the definitions ever finished, with their memo caches
    control,             \* the Rust call stack
    res,                 \* "ok", or the error on its way up the call stack
    fuel,                \* tokens that may still be read
    calls                \* calls the host has made

compileVars == <<is_compiling, is_memo_definition, cur_definition>>
budget      == <<fuel, calls>>
vars == <<stack, module_stack, tokenizer_stack, compileVars, heap, control,
          res, budget>>

-----------------------------------------------------------------------------
\* Modules.  words maps a name and the word kind to a heap index, 0 if absent;
\* a submodule registered by {name is always empty, so its name says it all.
EmptyModule(m) == [name |-> m, words |-> [x \in DefName \X NameOp |-> 0], subs |-> {}]

NoDefinition == [name |-> AppName, words |-> <<>>]

\* Frames of the call stack.
RunFrame    == [k |-> "run"]
ModuleFrame == [k |-> "module", depth |-> Len(module_stack)]
DefFrame(i) == [k |-> "def", def |-> i, pc |-> 1]
MemoFrame(i, push) == [k |-> "memo", def |-> i, push |-> push]
TryFrame(s) == [k |-> "try", snapshot |-> s, depth |-> Len(module_stack)]
MapFrame(into, n, outcomes) ==
    [k |-> "map", into |-> into, left |-> n, outcomes |-> outcomes,
     busy |-> FALSE, snapshot |-> <<>>, depth |-> Len(module_stack)]

Top(s)  == s[Len(s)]
Rest(s) == SubSeq(s, 1, Len(s) - 1)

Idle       == control = <<>>
InFrame(k) == control # <<>> /\ Top(control).k = k
Going      == res = "ok"
Failing    == res # "ok"

\* find_word: the topmost module that has the word wins.
FoundIn(i, n, op) ==
    /\ i \in 1..Len(module_stack)
    /\ module_stack[i].words[<<n, op>>] # 0
    /\ \A j \in i+1..Len(module_stack) : module_stack[j].words[<<n, op>>] = 0

-----------------------------------------------------------------------------
(***************************************************************************)
(* How the execution of one word goes on: it returns Ok or goes on in a    *)
(* body, it returns an error, or it runs code in a nested run.  c is the   *)
(* call stack then, s the data stack the word leaves.                      *)
(***************************************************************************)
Returns(c, s) ==
    /\ control' = c /\ stack' = s /\ res' = "ok"
    /\ UNCHANGED <<tokenizer_stack, module_stack, heap>>

Raises(c, s, e) ==
    /\ control' = c /\ stack' = s /\ res' = e
    /\ UNCHANGED <<tokenizer_stack, module_stack, heap>>

Runs(c, s) ==
    /\ control' = Append(c, RunFrame) /\ stack' = s /\ res' = "ok"
    /\ tokenizer_stack' = Append(tokenizer_stack, Len(c) + 1)
    /\ UNCHANGED <<module_stack, heap>>

\* Each word pops its operands one at a time: an underflow keeps what the
\* word had already taken.
Underflow(c, needed) == Len(stack) < needed /\ Raises(c, <<>>, "StackUnderflow")

PushValue(w, c) == w.op = "push" /\ Returns(c, Append(stack, w.v))

Drop(w, c) ==
    /\ w.op = "DROP"
    /\ \/ Underflow(c, 1)
       \/ stack # <<>> /\ Returns(c, Rest(stack))

Dup(w, c) ==
    /\ w.op = "DUP"
    /\ \/ Underflow(c, 1)
       \/ stack # <<>> /\ Returns(c, Append(stack, Top(stack)))

\* ]: pops until the marker; without one it empties the stack and fails.
EndArray(w, c) ==
    LET marks == {i \in 1..Len(stack) : stack[i] = "mark"} IN
    /\ w.op = "end_array"
    /\ \/ marks = {} /\ Raises(c, <<>>, "StackUnderflow")
       \/ \E i \in marks :
            /\ \A j \in marks : j <= i
            /\ Returns(c, Append(SubSeq(stack, 1, i - 1), "arr"))

\* {name: the new module is registered in the module that was current.
StartModule(w, c) ==
    LET n == Len(module_stack) IN
    /\ w.op = "start_module"
    /\ module_stack' =
         IF w.m = AppName THEN Append(module_stack, EmptyModule(AppName))
         ELSE Append([module_stack EXCEPT ![n].subs = @ \cup {w.m}], EmptyModule(w.m))
    /\ control' = c /\ res' = "ok"
    /\ UNCHANGED <<stack, tokenizer_stack, heap>>

\* Without the check of module_stack_pop.
EndModuleUnchecked(w, c) ==
    /\ w.op = "end_module"
    /\ control' = c
    /\ res' = "ok" /\ module_stack' = Rest(module_stack)
    /\ UNCHANGED <<stack, tokenizer_stack, heap>>

EndModule(w, c) ==
    /\ w.op = "end_module"
    /\ control' = c
    /\ IF Len(module_stack) <= 1
         THEN res' = "StackUnderflow" /\ UNCHANGED module_stack
         ELSE res' = "ok" /\ module_stack' = Rest(module_stack)
    /\ UNCHANGED <<stack, tokenizer_stack, heap>>

\* A user word.  F of a memo pushes the cached value, or computes it first;
\* F! and F!@ always compute it.
Call(w, c) ==
    /\ w.op = "call"
    /\ IF ~heap[w.ref].memo
         THEN Returns(Append(c, DefFrame(w.ref)), stack)
       ELSE IF heap[w.ref].cache # NoValue
         THEN Returns(c, Append(stack, heap[w.ref].cache))
         ELSE Returns(c \o <<MemoFrame(w.ref, TRUE), DefFrame(w.ref)>>, stack)

Refresh(w, c) ==
    /\ w.op \in {"bang", "bangat"}
    /\ Returns(c \o <<MemoFrame(w.ref, w.op = "bangat"), DefFrame(w.ref)>>, stack)

\* RUN: NULL and the empty string run nothing.
Run(w, c) ==
    /\ w.op = "RUN"
    /\ \/ Underflow(c, 1)
       \/ stack # <<>> /\ Top(stack) \in {"null", "code"} /\ Returns(c, Rest(stack))
       \/ stack # <<>> /\ Top(stack) = "code" /\ Runs(c, Rest(stack))
       \/ stack # <<>> /\ Top(stack) \notin {"null", "code"}
            /\ Raises(c, Rest(stack), "InvalidOperation")

Try(w, c) ==
    /\ w.op = "TRY"
    /\ \/ Underflow(c, 1)
       \/ stack # <<>> /\ Top(stack) = "code"
            /\ Runs(Append(c, TryFrame(Rest(stack))), Rest(stack))
       \/ stack # <<>> /\ Top(stack) # "code"
            /\ Raises(c, Rest(stack), "InvalidOperation")

\* MAP over an array or over the one value of an outcome record; any other
\* value passes through.
Containers == {"arr", "ok", "err"}
LeafCounts(v) == IF v = "arr" THEN 0..MaxItems ELSE 1..1

Map(w, c) ==
    LET s2    == Rest(Rest(stack))
        items == Top(Rest(stack)) IN
    /\ w.op \in {"MAP", "MAP-OUTCOMES"}
    /\ \/ Underflow(c, 2)
       \/ /\ Len(stack) >= 2 /\ Top(stack) # "code"
          /\ Raises(c, s2, "InvalidOperation")
       \/ /\ Len(stack) >= 2 /\ Top(stack) = "code" /\ items \notin Containers
          /\ Returns(c, Append(s2, items))
       \/ /\ Len(stack) >= 2 /\ Top(stack) = "code" /\ items \in Containers
          /\ \E n \in LeafCounts(items) :
               Returns(Append(c, MapFrame(items, n, w.op = "MAP-OUTCOMES")), s2)

Unwrap(w, c) ==
    /\ w.op = "UNWRAP"
    /\ \/ Underflow(c, 1)
       \/ /\ stack # <<>> /\ Top(stack) = "ok"
          /\ \E v \in ItemValues : Returns(c, Append(Rest(stack), v))
       \/ /\ stack # <<>> /\ Top(stack) # "ok"
          /\ Raises(c, Rest(stack), "InvalidOperation")

PeekBang(w, c) == w.op = "PEEK!" /\ Raises(c, stack, "IntentionalStop")

Execute(w, c) ==
    \/ PushValue(w, c) \/ Drop(w, c) \/ Dup(w, c) \/ EndArray(w, c)
    \/ StartModule(w, c) \/ EndModule(w, c) \/ Call(w, c) \/ Refresh(w, c)
    \/ Run(w, c) \/ Try(w, c) \/ Map(w, c) \/ Unwrap(w, c) \/ PeekBang(w, c)

-----------------------------------------------------------------------------
(***************************************************************************)
(* handle_token, for the run on top of the call stack.                     *)
(***************************************************************************)
Reading == Going /\ InFrame("run") /\ fuel > 0

ReadToken == fuel' = fuel - 1 /\ UNCHANGED calls

Fail(e) == Raises(control, stack, e) /\ UNCHANGED compileVars

AddWord(w) == cur_definition' = [cur_definition EXCEPT !.words = Append(@, w)]

\* handle_word: compile the word or execute it.
HandleWord(w) ==
    \/ /\ is_compiling
       /\ AddWord(w)
       /\ UNCHANGED <<stack, module_stack, tokenizer_stack, heap, control, res,
                      is_compiling, is_memo_definition>>
    \/ ~is_compiling /\ Execute(w, control) /\ UNCHANGED compileVars

WordToken(tok) == tok.t = "word" /\ HandleWord(tok.w)

\* An identifier must resolve when it is read, compiled or not.
NameToken(tok) ==
    /\ tok.t = "name"
    /\ \/ /\ \A i \in 1..Len(module_stack) : ~FoundIn(i, tok.n, tok.op)
          /\ Fail("UnknownWord")
       \/ \E i \in 1..Len(module_stack) :
            /\ FoundIn(i, tok.n, tok.op)
            /\ HandleWord([op |-> tok.op, ref |-> module_stack[i].words[<<tok.n, tok.op>>]])

\* {name and } are immediate: they run even while a definition is compiled,
\* and are compiled into it as well.
ModuleToken(tok) ==
    /\ tok.t \in {"start_module", "end_module"}
    /\ LET w == IF tok.t = "start_module" THEN [op |-> "start_module", m |-> tok.m]
                ELSE [op |-> "end_module"] IN
         /\ IF is_compiling
              THEN AddWord(w) /\ UNCHANGED <<is_compiling, is_memo_definition>>
              ELSE UNCHANGED compileVars
         /\ StartModule(w, control) \/ EndModule(w, control)

StartDefinition(tok) ==
    /\ tok.t \in {"start_def", "start_memo"}
    /\ \/ is_compiling /\ Fail("MissingSemicolon")
       \/ /\ ~is_compiling
          /\ cur_definition' = [name |-> tok.n, words |-> <<>>]
          /\ is_compiling' = TRUE
          /\ is_memo_definition' = (tok.t = "start_memo")
          /\ UNCHANGED <<stack, module_stack, tokenizer_stack, heap, control, res>>

\* A memo that is not given its F!@.
AddedWordsWithoutBangAt(n) ==
    {n} \X (IF is_memo_definition THEN {"call", "bang"} ELSE {"call"})

\* A memo adds the three words F, F! and F!@ to the module, a definition F alone.
AddedWords(n) == {n} \X (IF is_memo_definition THEN NameOp ELSE {"call"})

\* A definition of the same name is replaced in place, under the words that
\* refer to it.
EndDefinitionInPlace(tok) ==
    LET top == Len(module_stack)
        old == module_stack[top].words[<<cur_definition.name, "call">>]
        def == [words |-> cur_definition.words, memo |-> is_memo_definition,
                cache |-> NoValue] IN
    /\ tok.t = "end_def" /\ is_compiling
    /\ heap' = IF old # 0 THEN [heap EXCEPT ![old] = def] ELSE Append(heap, def)
    /\ module_stack' = [module_stack EXCEPT ![top].words =
         [x \in DOMAIN @ |-> IF x \in AddedWords(cur_definition.name) /\ old = 0
                             THEN Len(heap) + 1 ELSE @[x]]]
    /\ cur_definition' = NoDefinition
    /\ is_compiling' = FALSE
    /\ UNCHANGED <<stack, tokenizer_stack, control, res, is_memo_definition>>

\* The definition goes to the app module, as variables do.
EndDefinitionInApp(tok) ==
    /\ tok.t = "end_def" /\ is_compiling
    /\ heap' = Append(heap, [words |-> cur_definition.words, memo |-> is_memo_definition,
                             cache |-> NoValue])
    /\ module_stack' = [module_stack EXCEPT ![1].words =
         [x \in DOMAIN @ |-> IF x \in AddedWords(cur_definition.name)
                             THEN Len(heap) + 1 ELSE @[x]]]
    /\ cur_definition' = NoDefinition
    /\ is_compiling' = FALSE
    /\ UNCHANGED <<stack, tokenizer_stack, control, res, is_memo_definition>>

\* ;: the definition goes to the module that is current now.
EndDefinition(tok) ==
    LET top == Len(module_stack) IN
    /\ tok.t = "end_def"
    /\ \/ /\ ~is_compiling \/ cur_definition = NoDefinition
          /\ Fail("ExtraSemicolon")
       \/ /\ is_compiling /\ cur_definition # NoDefinition
          /\ heap' = Append(heap, [words |-> cur_definition.words,
                                   memo  |-> is_memo_definition,
                                   cache |-> NoValue])
          /\ module_stack' = [module_stack EXCEPT ![top].words =
               [x \in DOMAIN @ |-> IF x \in AddedWords(cur_definition.name)
                                   THEN Len(heap) + 1 ELSE @[x]]]
          /\ cur_definition' = NoDefinition
          /\ is_compiling' = FALSE
          /\ UNCHANGED <<stack, tokenizer_stack, control, res, is_memo_definition>>

\* next_token itself fails: an unterminated string or an invalid word name.
MalformedToken(tok) == tok.t = "malformed" /\ Fail("InvalidToken")

HandleToken ==
    /\ Reading /\ ReadToken
    /\ \E tok \in Tokens :
         \/ WordToken(tok) \/ NameToken(tok) \/ ModuleToken(tok)
         \/ StartDefinition(tok) \/ EndDefinition(tok) \/ MalformedToken(tok)

\* End of the code: run() pops its tokenizer on success and on error.
LeaveRun(e) ==
    /\ tokenizer_stack' = Rest(tokenizer_stack)
    /\ control' = Rest(control)
    /\ res' = e
    /\ UNCHANGED <<stack, module_stack, compileVars, heap, budget>>

\* handle_eos_token without its check.
EndOfStreamUnchecked == Going /\ InFrame("run") /\ LeaveRun("ok")

EndOfStream ==
    /\ Going /\ InFrame("run")
    /\ LeaveRun(IF is_compiling THEN "MissingSemicolon" ELSE "ok")

\* run with a ? on run_with_tokenizer: the tokenizer stays.
RunFailsEarly ==
    /\ Failing /\ InFrame("run")
    /\ control' = Rest(control)
    /\ UNCHANGED <<stack, module_stack, tokenizer_stack, compileVars, heap, res, budget>>

RunFails == Failing /\ InFrame("run") /\ LeaveRun(res)

-----------------------------------------------------------------------------
(***************************************************************************)
(* Frames above which a nested activation has just returned.               *)
(***************************************************************************)
Frame == Top(control)

DefinitionStep ==
    /\ Going /\ InFrame("def")
    /\ Frame.pc <= Len(heap[Frame.def].words)
    /\ Execute(heap[Frame.def].words[Frame.pc],
               Append(Rest(control), [Frame EXCEPT !.pc = @ + 1]))
    /\ UNCHANGED <<compileVars, budget>>

DefinitionReturns ==
    /\ Going /\ InFrame("def")
    /\ Frame.pc > Len(heap[Frame.def].words)
    /\ Returns(Rest(control), stack)
    /\ UNCHANGED <<compileVars, budget>>

\* Every error is wrapped.
DefinitionFailsWrapping ==
    /\ Failing /\ InFrame("def")
    /\ Raises(Rest(control), stack, "WordExecution")
    /\ UNCHANGED <<compileVars, budget>>

\* Errors are wrapped on their way out of a definition, an intentional stop
\* is not.
DefinitionFails ==
    /\ Failing /\ InFrame("def")
    /\ Raises(Rest(control), stack,
              IF res = "IntentionalStop" THEN res ELSE "WordExecution")
    /\ UNCHANGED <<compileVars, budget>>

\* refresh: pop what the memo's word left on top, and cache it; the words F
\* and F!@ then push it again.
MemoReturns ==
    /\ Going /\ InFrame("memo")
    /\ \/ stack = <<>> /\ Raises(Rest(control), stack, "StackUnderflow")
       \/ /\ stack # <<>>
          /\ heap' = [heap EXCEPT ![Frame.def].cache = Top(stack)]
          /\ stack' = IF Frame.push THEN stack ELSE Rest(stack)
          /\ control' = Rest(control)
          /\ UNCHANGED <<tokenizer_stack, module_stack, res>>
    /\ UNCHANGED <<compileVars, budget>>

MemoFails ==
    /\ Failing /\ InFrame("memo")
    /\ Raises(Rest(control), stack, res)
    /\ UNCHANGED <<compileVars, budget>>

\* Did the run change the stack?  Equal kinds of opaque values may or may not
\* be equal values.
ChangedVerdicts(before, after) ==
    IF before # after THEN {TRUE}
    ELSE IF \E i \in 1..Len(after) : after[i] \in Opaque THEN {TRUE, FALSE}
    ELSE {FALSE}

\* The stack once the payload of an ok outcome is taken from it.
WithoutPayload(changed) ==
    IF changed /\ stack # <<>> THEN Rest(stack) ELSE stack

TryReturns ==
    /\ Going /\ InFrame("try")
    /\ \E changed \in ChangedVerdicts(Frame.snapshot, stack) :
         Returns(Rest(control), Append(WithoutPayload(changed), "ok"))
    /\ UNCHANGED <<compileVars, budget>>

\* The modules that failed code left open stay open.
UnwoundNowhere(depth) == module_stack

\* Pop modules until no more than depth are left; the app module stays.
UnwoundTo(depth) ==
    IF Len(module_stack) > depth THEN SubSeq(module_stack, 1, depth) ELSE module_stack

TryCatches ==
    /\ Failing /\ InFrame("try")
    /\ stack' = Append(Frame.snapshot, "err")
    /\ module_stack' = UnwoundTo(Frame.depth)
    /\ control' = Rest(control)
    /\ res' = "ok"
    /\ UNCHANGED <<tokenizer_stack, compileVars, heap, budget>>

\* The element is not counted off.
NextElementAgain == [Frame EXCEPT !.busy = FALSE]

\* The frame once an element is done.
NextElement == [Frame EXCEPT !.busy = FALSE, !.left = @ - 1]

\* The loop goes one element too far.
MapElementPastEnd ==
    /\ Going /\ InFrame("map") /\ ~Frame.busy
    /\ \E v \in ItemValues :
         Runs(Append(Rest(control), [Frame EXCEPT !.busy = TRUE,
                                                 !.snapshot = stack,
                                                 !.depth = Len(module_stack)]),
              Append(stack, v))
    /\ UNCHANGED <<compileVars, budget>>

MapElement ==
    /\ Going /\ InFrame("map") /\ ~Frame.busy /\ Frame.left > 0
    /\ \E v \in ItemValues :
         Runs(Append(Rest(control), [Frame EXCEPT !.busy = TRUE,
                                                 !.snapshot = stack,
                                                 !.depth = Len(module_stack)]),
              Append(stack, v))
    /\ UNCHANGED <<compileVars, budget>>

MapElementReturns ==
    /\ Going /\ InFrame("map") /\ Frame.busy
    /\ \/ /\ Frame.outcomes
          /\ \E changed \in ChangedVerdicts(Frame.snapshot, stack) :
               Returns(Append(Rest(control), NextElement), WithoutPayload(changed))
       \/ /\ ~Frame.outcomes /\ stack # <<>>
          /\ Returns(Append(Rest(control), NextElement), Rest(stack))
       \/ /\ ~Frame.outcomes /\ stack = <<>>
          /\ Raises(Rest(control), stack, "StackUnderflow")
    /\ UNCHANGED <<compileVars, budget>>

MapCatches ==
    /\ Failing /\ InFrame("map") /\ Frame.busy /\ Frame.outcomes
    /\ stack' = Frame.snapshot
    /\ module_stack' = UnwoundTo(Frame.depth)
    /\ control' = Append(Rest(control), NextElement)
    /\ res' = "ok"
    /\ UNCHANGED <<tokenizer_stack, compileVars, heap, budget>>

MapFails ==
    /\ Failing /\ InFrame("map") /\ ~Frame.outcomes
    /\ Raises(Rest(control), stack, res)
    /\ UNCHANGED <<compileVars, budget>>

MapReturns ==
    /\ Going /\ InFrame("map") /\ ~Frame.busy /\ Frame.left = 0
    /\ Returns(Rest(control), Append(stack, Frame.into))
    /\ UNCHANGED <<compileVars, budget>>

\* run_module_code after its run: pop the module, then report the error.
ModuleRunEnds ==
    /\ InFrame("module")
    /\ control' = Rest(control)
    /\ IF Len(module_stack) <= 1
         THEN res' = "StackUnderflow" /\ UNCHANGED module_stack
         ELSE /\ res' = (IF Going THEN "ok" ELSE "Module")
              /\ module_stack' = Rest(module_stack)
    /\ UNCHANGED <<stack, tokenizer_stack, compileVars, heap, budget>>

-----------------------------------------------------------------------------
(***************************************************************************)
(* The host: one call at a time, whatever the last one left behind.        *)
(***************************************************************************)
CallFromHost == Idle /\ calls < MaxCalls /\ calls' = calls + 1 /\ UNCHANGED fuel

HostRun ==
    /\ CallFromHost
    /\ Runs(<<>>, stack)
    /\ UNCHANGED compileVars

HostRunsModule(m) ==
    /\ CallFromHost
    /\ module_stack' = Append(module_stack, EmptyModule(m))
    /\ control' = <<ModuleFrame, RunFrame>>
    /\ tokenizer_stack' = Append(tokenizer_stack, 2)
    /\ res' = "ok"
    /\ UNCHANGED <<stack, compileVars, heap>>

\* A reset that does not forget the definition it interrupts.
HostResetsHalf ==
    /\ CallFromHost
    /\ stack' = <<>>
    /\ module_stack' = <<EmptyModule(AppName)>>
    /\ tokenizer_stack' = <<>>
    /\ is_compiling' = FALSE
    /\ is_memo_definition' = FALSE
    /\ res' = "ok"
    /\ UNCHANGED <<heap, control, cur_definition>>

HostResets ==
    /\ CallFromHost
    /\ stack' = <<>>
    /\ module_stack' = <<EmptyModule(AppName)>>
    /\ tokenizer_stack' = <<>>
    /\ is_compiling' = FALSE
    /\ is_memo_definition' = FALSE
    /\ cur_definition' = NoDefinition
    /\ res' = "ok"
    /\ UNCHANGED <<heap, control>>

-----------------------------------------------------------------------------
Init ==
    /\ stack = <<>>
    /\ module_stack = <<EmptyModule(AppName)>>
    /\ tokenizer_stack = <<>>
    /\ is_compiling = FALSE
    /\ is_memo_definition = FALSE
    /\ cur_definition = NoDefinition
    /\ heap = <<>>
    /\ control = <<>>
    /\ res = "ok"
    /\ fuel = MaxTokens
    /\ calls = 0

FrameStep ==
    \/ DefinitionStep \/ DefinitionReturns \/ DefinitionFails
    \/ MemoReturns \/ MemoFails
    \/ TryReturns \/ TryCatches
    \/ MapElement \/ MapElementReturns \/ MapCatches \/ MapFails \/ MapReturns
    \/ ModuleRunEnds

InterpreterStep == HandleToken \/ EndOfStream \/ RunFails \/ FrameStep

HostCall == HostRun \/ (\E m \in ModName : HostRunsModule(m)) \/ HostResets

Next == InterpreterStep \/ HostCall

Spec == Init /\ [][Next]_vars

\* The interpreter is synchronous: a call keeps the host's thread until it
\* returns.  Nothing makes the host call again.
FairSpec == Spec /\ WF_vars(InterpreterStep)

-----------------------------------------------------------------------------
(***************************************************************************)
(* Types.                                                                  *)
(***************************************************************************)
Module == [name : ModName \cup {AppName},
           words : [DefName \X NameOp -> Nat],
           subs : SUBSET ModName]

CompiledDef == [words : Seq(Word), memo : BOOLEAN, cache : Value \cup {NoValue}]

RunFrames    == [k : {"run"}]
ModuleFrames == [k : {"module"}, depth : Nat]
DefFrames    == [k : {"def"}, def : Nat, pc : Nat \ {0}]
MemoFrames   == [k : {"memo"}, def : Nat, push : BOOLEAN]
TryFrames    == [k : {"try"}, snapshot : Seq(Value), depth : Nat \ {0}]
\* An element being mapped is still counted in left.
MapFrames    == {f \in [k : {"map"}, into : Value, left : Nat, outcomes : BOOLEAN,
                        busy : BOOLEAN, snapshot : Seq(Value), depth : Nat \ {0}] :
                   f.busy => f.left > 0}
Frames == RunFrames \cup ModuleFrames \cup DefFrames \cup MemoFrames
             \cup TryFrames \cup MapFrames

\* Type invariant of the interpreter's fields and of the call stack.
TypeOK ==
    /\ stack \in Seq(Value)
    /\ module_stack \in Seq(Module)
    /\ tokenizer_stack \in Seq(Nat)
    /\ is_compiling \in BOOLEAN
    /\ is_memo_definition \in BOOLEAN
    /\ cur_definition \in [name : DefName, words : Seq(Word)] \cup {NoDefinition}
    /\ heap \in Seq(CompiledDef)
    /\ control \in Seq(Frames)
    /\ res \in Error \cup {"ok"}
    /\ fuel \in 0..MaxTokens
    /\ calls \in 0..MaxCalls

-----------------------------------------------------------------------------
(***************************************************************************)
(* Safety.                                                                 *)
(***************************************************************************)
\* cur_module() and module_stack[0] never find the module stack empty, and no
\* sequence of }, failed TRYs and module runs pops the app module at its bottom.
AppModuleStays == module_stack # <<>> /\ module_stack[1].name = AppName

\* is_compiling and cur_definition are two fields for one fact: a definition is
\* being compiled exactly when there is one to compile into, also after errors,
\* caught errors and resets.  (handle_word drops the word otherwise.)
CompileStateAgrees == is_compiling <=> cur_definition # NoDefinition

\* t holds one tokenizer for each run of the call stack c, in their order, and
\* no other.
OwnTokenizers(c, t) ==
    /\ \A i \in 1..Len(t) : t[i] \in 1..Len(c) /\ c[t[i]].k = "run"
    /\ \A i, j \in 1..Len(t) : i < j => t[i] < t[j]
    /\ \A d \in 1..Len(c) : c[d].k = "run" => \E i \in 1..Len(t) : t[i] = d

\* Each run() in progress has its own tokenizer, in the order of nesting, and
\* nothing else has one: the loop reads the tokens of its own code, whatever
\* nested runs did, and "Tokenizer stack should not be empty" holds.
TokenizersBelongToRuns == OwnTokenizers(control, tokenizer_stack)

\* The references of a compiled body that go back to definitions before n.
RefsWithin(words, n) ==
    \A j \in 1..Len(words) : words[j].op \in NameOp => words[j].ref \in 1..n

\* A name is visible only once its definition is finished, so a definition can
\* only call older ones, never itself: a call of a user word can only loop
\* through a code string.  No reference dangles, in the dictionary of any module
\* that is open, or in any activation.
CallsGoBack ==
    /\ \A i \in 1..Len(heap) : RefsWithin(heap[i].words, i - 1)
    /\ RefsWithin(cur_definition.words, Len(heap))
    /\ \A i \in 1..Len(module_stack) : \A x \in DefName \X NameOp :
         module_stack[i].words[x] \in 0..Len(heap)
    /\ \A d \in 1..Len(control) :
         control[d].k \in {"def", "memo"} => control[d].def \in 1..Len(heap)

\* When a call of the host returns Ok, no definition is left open: the host never
\* sees success while its next code would be compiled instead of run, although
\* a nested run may have failed in the middle of a definition and been caught.
OkMeansNothingOpen == Idle /\ Going => ~is_compiling

\* The compile state across errors: its two fields agree wherever code fails, is
\* caught or is reset, and no call of the host returns Ok out of the middle of
\* a definition.
CompileStateIsSound == CompileStateAgrees /\ OkMeansNothingOpen

\* F! and F!@ exist only beside the memo they refresh: wherever a module has F!,
\* it has F!@ of the same memo, and a later plain F does not break that link.
MemoWordsComeTogether ==
    \A i \in 1..Len(module_stack) : \A n \in DefName :
        LET w == module_stack[i].words IN
        /\ w[<<n, "bang">>] = w[<<n, "bangat">>]
        /\ w[<<n, "bang">>] # 0 => /\ heap[w[<<n, "bang">>]].memo
                                   /\ w[<<n, "call">>] >= w[<<n, "bang">>]

\* Whatever a module's words, a compiled body or an activation refers to is
\* there and older, and the three words of a memo refer to one memo.
ReferencesAreSound == CallsGoBack /\ MemoWordsComeTogether

-----------------------------------------------------------------------------
(***************************************************************************)
(* What no step may do.                                                    *)
(***************************************************************************)
\* Only the current module is ever changed: definitions and modules made inside
\* {x ... } never reach the modules below, which reappear unchanged.
OnlyCurrentModuleChanges ==
    [][\A i \in 1..Len(module_stack) - 1 :
         i <= Len(module_stack') => \/ module_stack'[i] = module_stack[i]
                                    \/ HostResets]_vars

\* A finished definition never changes, and a memo loses its value to nothing: a
\* refresh that fails keeps the last one, whatever happens in its code.
DefinitionsAreFinal ==
    [][\A i \in 1..Len(heap) :
         /\ heap'[i].words = heap[i].words /\ heap'[i].memo = heap[i].memo
         /\ heap'[i].cache # heap[i].cache =>
              Going /\ Frame.k = "memo" /\ Frame.def = i /\ heap'[i].cache # NoValue]_vars

\* The activations that turn an error into a value.
Catching == InFrame("try") \/ (InFrame("map") /\ Frame.outcomes)

\* An error that reaches a TRY, or an element of MAP with outcomes, ends there
\* with the data stack as the activation found it and no module more than then.
\* (The code catches a stop too.  WORDS.md says that PEEK! and STACK! stop the
\* execution, so what becomes of a caught stop is none of this promise.)
CaughtErrorsRestore ==
    [][Failing /\ res # "IntentionalStop" /\ Catching =>
         /\ res' = "ok"
         /\ SubSeq(stack', 1, Len(Frame.snapshot)) = Frame.snapshot
         /\ Len(module_stack') <= Frame.depth
         /\ tokenizer_stack' = tokenizer_stack]_vars

\* PEEK! and STACK! stop the program: on its way to the host, IntentionalStop
\* passes nested runs, definitions, memos and plain MAP as it is.
StopPassesThrough ==
    [][res = "IntentionalStop" /\ ~Idle /\ ~Catching /\ ~InFrame("module") =>
         res' = res]_vars

-----------------------------------------------------------------------------
(***************************************************************************)
(* Liveness.                                                               *)
(***************************************************************************)
\* Every call of the host returns, with Ok or with an error.
EveryCallReturns == ~Idle ~> Idle

-----------------------------------------------------------------------------
(***************************************************************************)
(* What the documentation says and the code does not do.                   *)
(***************************************************************************)
\* array.rs, MAP with outcomes: "per-element failures don't abort".  The rest of
\* the program is executed, not compiled into a definition a failed element
\* had begun.
ElementFailureIsContained ==
    [][Failing /\ InFrame("map") /\ Frame.outcomes => ~is_compiling']_vars

=============================================================================
