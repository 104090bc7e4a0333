# Forthic in TLA+

Specifications of the Rust runtime of Forthic (`src/src`), checked with TLC and
proved with TLAPS. Forthic is a stack language embedded in a host program: the
host gives the interpreter code as a string, words pop and push values, and words
such as `RUN`, `TRY` and `MAP` run code strings in their turn. A JSON-RPC server
offers the same interpreter over HTTP.

## 1. The system

| Component | State | Operations | What is hard | What makes it correct |
|---|---|---|---|---|
| Interpreter (`interpreter.rs`) | data stack, module stack, tokenizer stack, the definition being compiled, app module, handlers | `run`, the token handlers, `reset`, `run_module_code`, imports, registrations | nested runs share all the state; an error leaves through any number of frames, each of which must put back its part | the stacks that belong to a frame are balanced on every path; compile state never outlives a successful call; the app module stays at the bottom |
| Words and modules (`module.rs`) | dictionary, variables, sub-modules; the cache of a memo word | definitions, `F`, `F!`, `F!@`, imports with and without prefix, per-word error handlers | words are bound early and shared by `Arc` between modules, their clones and the interpreters of several threads | a finished definition never changes, never calls itself, and a memo answers with a value some refresh computed |
| Words that run code (`core.rs`) | none | `RUN`, `TRY`, `UNWRAP`, `DEFAULT*`, variables, `USE-MODULES`, `INTERPOLATE`, `PEEK!` | catching an error means restoring some of the state and keeping the rest | a caught error restores the data stack and closes what the code opened |
| Array module (`array.rs`) | none | `MAP`, the words that run code per element, the array algorithms | code runs on the caller's stack and may pop or leave anything; `i64` positions; five notions of equality | each element is visited once and its failure stays its own; words that are written independently agree |
| Boolean and record modules (`boolean.rs`, `record.rs`, `jq_path.rs`) | none | comparison, logic, record words, jq paths | Int against Float, paths that create containers | what is put is found, what is taken apart can be rebuilt |
| Tokenizer (`tokenizer.rs`) | input, position, line and column | `next_token` | nested and triple quotes, escapes, UTF-8 | it always advances, and positions point at the token |
| Literals, word options, errors | none | parsing, wrapping | | round trips, precedence of handlers |
| JSON-RPC server (`jsonrpc/http.rs`, `server.rs`) | the servicer and its runtime modules, in-flight requests, shutdown signal | `serve`, `rpc_handler`, `dispatch`, `shutdown` | async handlers, a blocking pool, panics, clients that leave | only checked requests run; answers carry the id of their request; shutdown waits |
| JSON-RPC client (`jsonrpc/client.rs`) | next id | `execute_word` and the other calls | timeouts against late answers | an answer belongs to its call |
| Serializer (`jsonrpc/serializer.rs`) | none | values to typed JSON and back | | round trip |
| Standard modules: math, string, json, datetime | none | pop, compute, push | numeric edges | their own tables of tests |

How they interact: `run` drives the tokenizer and hands each token to a handler;
a handler executes a word with the interpreter as its context, and the word calls
back `stack_push`, `stack_pop`, `run`, `module_stack_push` and so on. All of it is
one synchronous call stack. Threads meet in one place only: a request of the
JSON-RPC server has an interpreter of its own, but the runtime modules it imports
are clones that hold the same `Arc` words, so the words that have state, the memo
words, are shared.

The hazards of the code are listed one by one, with the line where each bites, under
`hazards` in `PROJECT.json`.

## 2. Modules

| Module | Models | Kind |
|---|---|---|
| `ForthicInterp` | the token loop, the compiler of definitions, the words that run code | detailed specification |
| `ForthicInterp_proofs` | | theorems about it |
| `MCForthicInterp` | | vocabularies for its runs |
| `NameScopes` | what names mean to code: nested scopes, with no modules and no copies | abstract specification |
| `ModuleSystem` | modules, variables, imports and the two copies of the app module | detailed specification, refines `NameScopes` |
| `ModuleSystem_proofs`, `MCModuleSystem` | | theorems, the library of the run |
| `MemoCell` | what a shared memo promises: one cell, read and written at once | abstract specification |
| `MemoWord` | `ModuleMemoWord` called from several threads, one step per mutex operation | detailed specification, refines `MemoCell` |
| `MemoWord_proofs`, `MCMemoWord` | | theorems, runs |
| `RpcPromise` | what a caller of a remote runtime may conclude from the result of its call | abstract specification |
| `JsonRpc` | the HTTP pipeline, the blocking pool, shutdown and the client | detailed specification, refines `RpcPromise` |
| `JsonRpc_proofs`, `MCJsonRpc` | | theorems, requests for the runs |
| `Tokenizer`, `MCTokenizer` | the scanner, one step per character | detailed specification; texts for its run |
| `Tokenizer_proofs` | | theorems about it: locations; strings, and what becomes of each character |
| `ForthicValues`, `ValueEquality` | values; truth, order, set keys and record keys; and the equality that goes through them to their depth | operators |
| `PieceWords`, `ArrayWords` | what each word of the array module that runs no code makes of its arguments: those that take a container to pieces, and the others | operators |
| `ChoosingWords` | words of the array module that keep, choose or order elements, by their keys or by the answers of code | operators |
| `RecordShapes`, `RecordWords`, `BooleanWords` | the same for words that build and take apart records; nested records and jq paths; comparison, logic and word options | operators |
| `DataStack` | the stack, how a word pops its arguments and options, and how it fails | variables and action forms |
| `CuttingWords` | the words of `PieceWords` at work on the stack | detailed specification |
| `ComparingWords` | the words of the boolean and the core module at work on the stack, and the five notions of equality | detailed specification |
| `ShapingWords` | these with the words that group, sort out by keys and shape containers, and what must agree among them | detailed specification |
| `FlattenWords` | `FLATTEN`, and what it undoes | operators |
| `StandardWords`, `MCStandardWords` | all those words, `SORT` and paths at work on one stack | detailed specification; stacks for its runs |
| `Values_proofs` | | theorems about values: order, equality, sorting, choosing, records taken apart and rebuilt |
| `StandardWords_proofs` | | theorems about `CuttingWords`, `ComparingWords` and `ShapingWords` |
| `BlockWords` | the words that run code, nested in code, and error handlers, whatever their results are | detailed specification |
| `BlockResults`, `MCBlockWords` | what each of those words, with `ChoosingWords`, makes of the answers of its code; stacks for the run | operators; run |
| `BlockWords_proofs` | | theorems about `BlockWords` |

### 2.1 `ForthicInterp`

The Rust call stack is explicit. `control` has one frame per activation that waits for
nested code; a `Result::Err` on its way up is `res`.

| Specification | Code |
|---|---|
| `stack`, `module_stack`, `tokenizer_stack`, `is_compiling`, `is_memo_definition`, `cur_definition` | the fields of `Interpreter` of the same names |
| `heap` | the `Arc`s of finished definitions, with the caches of their memos; a dictionary entry or a compiled word holds an index |
| `HandleToken` and the `...Token` operators | one turn of the loop of `run_with_tokenizer`: `next_token` and the handler it dispatches to |
| `EndOfStream`, `RunFails` | the end of `run`: the check of `handle_eos_token`, the pop of the tokenizer on success and on error |
| `Execute` | `Word::execute` of the word found: pushes, `DUP`, `DROP`, `]`, `{`, `}`, `RUN`, `TRY`, `MAP`, `UNWRAP`, `PEEK!`, user definitions, memo words |
| `DefinitionStep`, `DefinitionReturns`, `DefinitionFails` | `DefinitionWord::execute` |
| `MemoReturns`, `MemoFails` | `ModuleMemoWord::refresh` around its word |
| `TryReturns`, `TryCatches` | the two arms of `word_try` |
| `MapElement`, `MapElementReturns`, `MapCatches`, `MapFails`, `MapReturns` | `map_one` and the loop around it |
| `ModuleRunEnds` | the second half of `run_module_code` |
| `HostRun`, `HostRunsModule`, `HostResets` | the public `run`, `run_module_code` and `reset` |

Code strings are not spelled out. A run frame draws its tokens one by one from `Tokens`,
so a behaviour chooses the text of every string while it is read, and a run frame stands
for all strings. Strings, arrays and outcome records are kept as their kind only; an
element of an array is any member of `ItemValues`. Where the code compares values
(`TRY` asks whether the stack changed), equal kinds may be equal or different values
and both are tried (`ChangedVerdicts`).

Only code run from `Init` is considered: a module on the module stack comes from `{` or
from `run_module_code`, where it is empty. `module_stack[1]` stands for the app module;
the second copy of it that the interpreter keeps in the field `app_module` matters to
variables and imports, and is in `ModuleSystem`.

### 2.2 `ModuleSystem`

An interpreter has its app module twice: `app_module`, which `reset` and `{}` copy, and
`module_stack[0]`, which code works on. Opening, registering and importing clone modules.
The specification asks whether the host and the code can tell.

| Specification | Code |
|---|---|
| `app`, `mstack` | `app_module`, `module_stack` (from 1) |
| a module: `name`, `words`, `exportable`, `vars`, `modules` | `Module`; `words` maps a name to the last of the words of that name, the only one that `find_dictionary_word` returns |
| `register_module`, `import_module`, `run_module_code`, `reset` | the host's operations of these names |
| `StartModule`, `EndModule` | `{m`, `{}` and `}`; the pop at the end of `run_module_code` is an `EndModule` too |
| `DefineLiteral`, `DefineAs` | `: k 1 ;` and `: k other ;`, with `other` found when it is compiled |
| `word_variables`, `word_store`, `word_fetch`, `word_store_fetch`, `RunWord` | `VARIABLES`, `!`, `@`, `!@`, and a name in the code |
| `word_use_modules`, `use_module` | `USE-MODULES`: one step for each entry, the first bad one ends it |
| `out` | what the operation gave: a value, done or failed |
| `own` | history: names that code bound at the outermost level since they were last imported there |

A word stands for the value it pushes: what code does when it runs is `ForthicInterp`. That module
chooses tokens, this one the operations they amount to, so code is any sequence of
operations, at any depth, and modules left open by one run are open in the next. An entry of
`USE-MODULES` that is neither a name nor a pair and one that names no registered module fail alike.
Left out: `module_prefixes`, which nothing reads; memo definitions (three words for one in
`ForthicInterp`); the accessor `get_app_module_mut`, which gives the host one of the two copies.

`NameScopes` knows a base, a sequence of scopes and an outcome. Code binds in the innermost scope,
an import binds in the outermost one and in the base, a reset returns to the base, and a lookup
gives the innermost meaning. `ImplementsScopes` maps the module stack to the scopes, each to its
words and variables: registered modules disappear, so the refinement also says that a
scope can only open as the base or with contents that nobody has added to.

### 2.3 `MemoWord`

`make_interpreter` clones the runtime modules for every request, but a module holds
`Arc`s to its words, so the two mutexes `has_value` and `value` of a memo are shared by
the threads of the blocking pool. Each lock, each access and each drop of a guard is a
step of its own; `Compute` runs the word with no mutex held. `ImplementsCell` maps
`value` to the one variable of `MemoCell`: every answer is what the cell holds at one
moment during the call, and the cell never becomes empty again.

### 2.4 `JsonRpc`

| Specification | Code |
|---|---|
| `handler` and `CheckHeaders`, `ReadFrame`, `ReadFails`, `BodyEnds`, `TaskAnswers` | `rpc_handler`, cut at its awaits; `read_body_capped` frame by frame |
| `task` and `StartTask`, `RunWord`, `SequenceEnds` | the closure given to `spawn_blocking`: `dispatch`, `execute_sequence` |
| `Shutdown`, `ServerStops` | the two lines of `ServerHandle::shutdown` |
| `client`, `outcome` and `Connect`, `Receive`, `ConnectionLost`, `Timeout` | `http_post` and `call`; `outcome` is the `ClientError` variant or ok |
| `Disconnected` | what hyper does when the peer closes the connection: the handler is dropped at its await (external) |
| `PoolSize` | tokio's limit on blocking threads (external) |

A request is a record of what the pipeline looks at: is the token right, is the content
JSON, the declared length, the real length, and what the body parses to. Lengths are in
units of data; frames of every size are tried. Calls may come from `JsonRpcClient` or from
any other HTTP client, so lengths need not be declared. The routes that answer 404 and
405 change nothing and are left out. The last failing branch of `rpc_handler` (`from_value`
after the envelope was validated) cannot be reached: the three fields it needs have
been checked.

`RpcPromise` has three variables: the words a call asks for, how many ran, and what the
caller was told. *Refused* (an HTTP status other than 200, or an RPC error that is
neither a runtime nor an internal error) means no word ran or will run; *ok* means all
ran; *failed* (a Forthic error) means it is over; *unknown* (timeout, lost connection,
crash) promises nothing. A caller that wants to retry needs exactly this.

### 2.5 `Tokenizer`

| Specification | Code |
|---|---|
| `text` | the input after `unescape_string`, its characters as classes |
| `pos`, `line`, `column`, `token_start_pos`, `token_line`, `token_column`, `token_string` | the fields of `Tokenizer` |
| `mode`, `delim` | which `transition_` function is scanning, and the quote it was given |
| `Start`, `Comment`, `BeforeName`, `Name`, `Module`, `String`, `TripleString`, `Word` with `Zone`, `DotSymbol` | the `transition_` functions, one turn of their loops for each step |
| `Advance`, `Stay` | `advance_position(n)`, and `(1)` followed by `(-1)` |
| `tokens`, `res` | what `next_token` has returned |

`next_token` is called until it gives `Eos` or an error. `Stay` leaves line and column alone, which
is what the two calls amount to over a character that is no newline; the one place where the
code backs up over a newline, the end of a comment, is written out: the column is then
wrong for one step, until the newline is read again.

### 2.6 `ForthicValues`, the operator modules and `StandardWords`

A value is `<<kind, payload>>`; a record is the sequence of its entries, since an `IndexMap` keeps
their order. A float is given in halves, so that fractions exist and `as i64` drops
something; `NaN` is a kind of its own, and so is `-0.0`, which the literal `-0.0` yields (`to_float`): all that compares or reckons
takes it for 0, but its text, and with it its key, is another (`SameZero`). Infinities are not apart: what is defined here treats them as it
treats any float beyond the integers. Dates, times and date-times are one kind, an instant with a
zone. `MaxInt` and `Precise` are `i64::MAX` and 2^53, in the runs 15 and 8: arithmetic
wraps around (`Wrap`), and an integer beyond `Precise` becomes the nearest `f64`, halfway between two the
one with an even mantissa (`Rounded`, `ToF64`).

An operator such as `SliceOf` is the word's body between its pops and its pushes; it returns a value or `Fail`.
The action `word_slice` of `CuttingWords` is the whole handler: pops, failure with what was popped
gone, pushes, options on top first. `ComparingWords`, `ShapingWords` and `StandardWords` each add words to those
before them. Flattening and paths recurse over values (`FlattenWords`, `RecordWords`), and a module that
reaches a recursive operator cannot be proved about, so they come last. Equality recurses too, but over the nesting of
a value only: `values_equal` compares in layers, each the pairs that the members of the one
before it lead to, down to `MaxNesting`. An array path, a string path and a number are parsed by
`parse_jq_path` as the code does it, quotes, brackets and bad paths included.

Arithmetic is that of the release build; a debug build panics where `Wrap` wraps.

Left out of `ForthicValues`: `StartArrayMarker`, which only `[` and `]` handle (`ForthicInterp`).

### 2.7 `BlockWords`

| Specification | Code |
|---|---|
| `calls` | the Rust call stack: one record for each word that runs code, with its arguments, how many runs of its code have begun and what they left |
| `Calls(w)`, `word_filter` ... `word_default_run` | the handlers: `pop_options`, `pop_code`, the other arguments, the loop |
| `Runs`, `PushedAt` | how often the loop runs the code, and what it pushes before each run (`run_on_item`: the key when `with_key` is on, the item) |
| `CodePushes`, `CodePops`, `CodeReplaces`, `CodeFails` | a step of a code string |
| `CodeEnds` | `stack_pop` after the run, the checks of the answer, the next run or the word's result (`Outs`) |
| `HandlerTakes`, `HandlerRefuses`, `Reraises` | `ModuleWord::execute` and `try_error_handlers` |
| `add_error_handler`, `remove_error_handler`, `clear_error_handlers` | the same, called while a word fails |

What a code string does is open: up to `MaxSteps` steps that pop and push anything, call any
of the words, fail, stop or end (a code string that the code would find empty too: the model allows more). So the code may reach below the word's arguments, leave nothing
or too much, and the word must cope as the code does: it pops whatever is on top.
`below`, `low`, `base` and `tidy` are history for `StackEffects`.

What a word makes of the answers is the constant operator `ResultOf`: nothing in the control of
`BlockWords` looks into a result, so its theorems hold for any. `BlockResults` defines the
results of the code (`WordResult`), which the run puts in its place. A path of `MAP-AT` is followed by a
fold, `PlaceOf`.

## 3. Runs

| Run | Shows |
|---|---|
| `interp` | compile state, references, memo words, definitions and modules over two host calls with resets, in code that is caught and in code that is not; caught errors that are no stops restore, stops pass |
| `everything` | the whole vocabulary nested in itself: types, tokenizers, and every call returns |
| `modules` | two versions of one module, registered, imported with and without prefix, opened, run and used, among definitions, variables and resets: the copies stay in step, registered modules stay as given, names mean what nested scopes say |
| `memo` | three threads, four calls of `F`, `F!`, `F!@`: mutexes, refinement, no thread waits for ever |
| `rpc` | every kind of request beside a second call, with timeouts, disconnects, panics and shutdown: the safety of the pipeline, its refinement, and that shutdown ends |
| `tokens` | locations are true, no character is lost or read twice, strings end at their delimiter, every text is read to its end |
| `words` | five notions of equality agree but for the keys of 0 and `-0.0`, pieces and groups add up, the set words agree with `CONTAINS?`, what `JQ!` puts `JQ@` gets, records survive the words that take them apart |
| `blocks` | results are those the documentation promises, words whose code keeps to its effect keep to theirs, error handlers are asked in turn |
| `element_failure`, `memo_once`, `rpc_shutdown`, `span` | what a comment says and the code does not do (section 6) |

### Bounds

* `MaxTokens` bounds the tokens read in a behaviour over all runs (5 or 6). A definition
  needs three tokens, a caught failure two, so six let a definition be begun in one caught
  run and finished, or used, in another, and a module be opened and closed around it.
  `everything` reads any five of 22 kinds of token; its behaviours include `MAP` around `TRY`
  around a definition. The bound also stands for the end of the code: a run whose fuel is
  spent reaches its end of stream.
* `MaxCalls` is 2 where something can survive a call (compile state, modules, memos), and 1
  in `everything`, where nothing is added by a second one.
* One definable name and one module name: the hazards are redefinition and the same name
  in two modules, and both need one name only.
* `MaxItems` is 2: a first and a last element, and the empty array.
* `modules` has a module stack of depth 2, the least at which the current module is not the
  outermost one; the theorems about it hold at every depth. One module name with two
  versions makes a later registration differ from an earlier one, and one plain name makes words,
  variables, exports and definitions collide.
* `memo` has three threads: one between the writes, one reading, one about to lock. Four
  calls allow one of them to come back.
* `rpc` has two calls and one pool thread, so one task waits for the other; `MaxBody` is
  2 and bodies have 1 to 3 units, below, at and above the cap; a sequence has 2 words, so it
  can fail or be abandoned before, between and after them.

* `tokens` reads every text of up to 3 characters over all 15 classes, and longer ones of
  quotes (8), of two kinds of quotes (5), of brackets and the `T` of a datetime (5) and of comments, names and
  newlines (4). Eight quotes are two triple delimiters with two to spare, one more than the greedy
  rule looks at. The reference location is not the origin, so a confusion of offsets shows.
* `MaxNesting` is how deep `==` looks and how deep a well-formed value may go: 6 in `words` and 4 in `blocks`,
  more than any value there has.
* `words` executes `MaxWords` = 2 words on stacks of up to three values: every container with every
  number, list, path and other container. Numbers are 0, 1, -1, lengths and their neighbours, halves,
  NaN and the first integer beyond `Precise`; `MaxMaterialized` is 6, so that `RANGE` and `SLICE` meet
  it. `span` needs one word and the ends of the number line only.
* `blocks` has `MaxCalls` = 2 words called by code, one of them by the other's code or after it,
  `MaxSteps` = 1 step of code in each run (so that a run leaves too much, too little or the right
  number of values), one change of a handler list while a word fails (`MaxEdits`), two handlers, and a stack of at
  most `MaxStack` = 6. The arguments stand on two values of the caller.

Deadlock is not checked in any run: the host may stop calling, and calls are bounded.
`EveryCallReturns`, `EveryCallEnds`, `ShutdownEnds` and `TextIsRead` say what must not stop.

## 4. Fairness

* `ForthicInterp`: weak fairness of `InterpreterStep`. `run` is synchronous and keeps the
  host's thread until it returns; nothing obliges the host to call again. `EveryCallReturns`
  holds under this for code of finite length: each string is read once, and the
  call stack is emptied by returns, errors and the counted loop of `MAP`.
* `MemoWord`: weak fairness of each thread's step. The pool's threads are scheduled by the
  operating system. `std::sync::Mutex` promises no queue, but with finitely many calls a
  waiting thread is overtaken finitely often.
* `JsonRpc`: weak fairness of each handler (the runtime polls a future that can go on), of
  each client's timeout (`set_read_timeout`, 30 seconds by default) and of the end of the
  server. The tasks are not fair: a word may run for ever. Hence `ShutdownEnds` shows that
  shutdown only depends on the clients: a client other than `JsonRpcClient` that never
  gives up is outside that assumption and would hold it.
* `Tokenizer`: weak fairness of `Next`. The scanner is a loop on one thread that nothing else
  holds up.

## 5. Proofs

The theorems hold for every value of the constants that satisfies the assumption of the
module: `ConstantsAssumption` (vocabularies are sets of tokens, bounds are numbers, the
app module's blank name is not a module name), `ModulesAssumption` (the host's modules are
modules that hold modules nobody has added to; marks are not values), `MemoAssumption` (the marks are not
threads or results), `TextsAssumption` and `RefAssumption` (texts are sequences of characters, the
reference location is numbers), `StacksAssumption`, `GivenAssumption` and `BlockBounds` (stacks are finite
sequences, handlers are lists, bounds are numbers), `WidthAssumption` and `LimitAssumption` (the widths are
positive, floats hold no more integers exactly than an `i64` does, and the limit on materialized elements is an `i64`),
`NestingAssumption` (a number)
and `RpcAssumption` (requests are requests, and no more data is read than
was declared, which is how HTTP frames a body).

| Module | Theorem | States |
|---|---|---|
| `ForthicInterp_proofs` | `TypeCorrect`, `AppModuleAtBottom`, `CompileStateSound`, `SoundReferences`, `OwnTokenizer` | the invariants of `interp` and `everything` |
| | `StopsPassThrough`, `CaughtErrors`, `FinishedDefinitions`, `OtherModulesStay` | the action properties |
| `ModuleSystem_proofs` | `ModulesTypes`, `RegisteredStay`, `CopiesAgree`, `ImportsSurvive`, `ScopesImplemented` | all properties of the run `modules`, at any depth and for any library |
| `MemoWord_proofs` | `MemoTypes`, `MemoProtected`, `MemoIsACell` | for any number of threads and calls |
| `JsonRpc_proofs` | `RpcTypes`, `ChecksFirst`, `IdsEchoed`, `ShutdownAnswersAll`, `PromiseKept` | for any calls, requests, cap and pool |
| `Tokenizer_proofs` | `TokenizerTypes`, `TokenLocations`, `StringsEnd`, `NothingLost` | for any text of any length and any reference location |
| `StandardWords_proofs` | `PiecesReassemble`, `CuttingKeepsValuesSound`, `CuttingAgrees` | the pieces of a container fit together again, for any container and number and in every program of the cutting words |
| | `RangeGuard`, `SliceGuard` | when exactly the guards of `RANGE` and `SLICE` hold, and the exact size of what passes |
| | `EqualityIsOne`, `ComparingKeepsValues`, `ComparingAgrees` | the five notions of equality and order are one on comparable values, 0 and `-0.0` being `==` with two keys, and in every program of the comparing words |
| | `RoundTripsHold`, `ShapingKeepsTidy`, `ShapingRoundTrips` | records survive being taken apart and rebuilt, on any tidy stack and in every program of the shaping words |
| | `KeyedWordsHold`, `ComparingKeyedWords`, `ShapingGroups` | groups and set words agree on any stack of comparable tidy values, and in every program of the comparing words that begins with one; the groups in every program of the shaping words |
| `Values_proofs` | `SortOrder`, `SortIsStable`, `TiesShareAKey`, `IntegersInOrder`, `NaNBreaksTheOrder` | what `SORT` needs of `natural_cmp`, what it then returns, and the one value that spoils it |
| | `BestIsFirst`, `KeysSortItems`, `FilterKeepsTruthy`, `CountCountsTruthy` | what `MIN-BY`, `MAX-BY`, `SORT-BY`, `FILTER` and `COUNT` make of any answers: their parts of `Promised` |
| | `UniqueKeepsFirsts`, `UnionIsUnique` | `UNIQUE` and `UNION` keep the first element of each key, in order; `UNIQUE` then has no more to drop |
| | `CollectedHolds`, `EntriesRebuildRecord`, `MergeOverrides` | records of any size, collected, taken apart, rebuilt and merged |
| `BlockWords_proofs` | `BlockTypeCorrect`, `StackEffectsHold`, `HandlersAreAskedInTurn` | for any stacks, code, handlers and nesting, whatever the results of the words |

`ForthicInterp`. `TypeOK` is not inductive: a step of a definition indexes `heap` with the
reference of a compiled word, and the end of a run pops a tokenizer that must exist. The
inductive invariant `Inv` adds that references point backwards, that each run frame has its
tokenizer in order, that the frames of the host are at the bottom, and that snapshots and depths
in frames fit what they will restore. The words of the language are handled once: a lemma
says that `Execute` from a call stack `c` keeps the invariant for any `c` it can be
called with, and both `HandleWord` and `DefinitionStep` use it. The action
properties follow from `Inv` by cases over the actions.

That the three words of a memo come together (`MemoWordsStay`) needs an induction of its own: `F`, `F!`
and `F!@` are appended to a dictionary in one step, and every other step copies whole dictionaries or
appends to one. So the invariant, that all modules on the stack are linked, is kept by whatever
is a copy of a linked module or such a module with words appended; a plain redefinition of `F` hides the
memo and leaves the other two linked to each other.

`ModuleSystem`. The invariant `IInv` is types, with the modules registered in any module being
pristine ones (that is `ModulesStayAsGiven`, and what makes an opened scope a known one),
`RegisteredAgree` and `ResetKeepsImports`. The last needs the history variable: what code
binds at the outermost level is not in `app_module`, so the copies agree on all other names, and an
import, which overrides in both, takes its names back. The refinement is proved action
by action: each operation maps to a binding, an import, an opening, a closing, a
reset or a lookup, or leaves all three abstract variables alone.

`MemoWord`. `ReadsFindAValue` is not inductive: a call that has found `has_value` set reads
`value` later without looking again. The flag is written before the value, so for two steps it
is set with no value there; what saves the reader is that the writer holds the mutex of
`has_value` over both writes. So `MemoInv` relates the mutexes to the program counters
(`MutexesHeld`), says that a set flag without a value means a thread is between the
two writes, and that a thread on its way to store has a result. The refinement needs no
more than that.

`JsonRpc`. The properties speak of one variable each, the reasons lie in the others:
`RpcInv` says, for each call, what has been checked where the handler is (`HandlerInv`),
what has run where the task is (`TaskInv`), that an answer fits how the task ended
(`ResponseInv`) and that the caller was told what was answered (`OutcomeInv`). Two lemmas
carry the proof: an answer that fits keeps the invariant (`AnswerKeeps`), and so does a return that
concludes what was answered (`ReturnKeeps`); each action then only has to show that its
answer fits. For the refinement, `ToldInv` turns this into what was told against what ran.

`Tokenizer`. The types are inductive as they stand. That locations are true is a statement about
finished tokens; `TokenizerInv` adds the two things a token is made from: the scanner is where its line
and column say (`ScannerIsLocated`, but for the column of the newline that ends a comment, which is
wrong until that newline is read again), and `token_string` is the text from the noted start to the scanner
(`StringIsGathered`). Lines are counted as newlines of a prefix, so the lemmas about one more
position rest on cardinalities; `AdvanceOverMarks` shows why stepping over two or three
characters at once is right, since none of them is a newline.

`StringsEndAtTheirDelimiter` finds out from the text alone how a string was opened, so it depends on
what stands before the string. While a string is gathered the invariant `StringInv` says that nothing
has closed it yet and that its mode is what the text shows; for the latter, a single quote that opens a
string must not stand behind two more of its kind. `NoQuoteIsLeft` is the reason: where a token may begin,
two equal quotes that were just read are not followed by a third. After an empty string `''` that
holds because three quotes would have opened a triple string, and after a triple string because closing is greedy.

For `NothingIsLost`, `TextInv` carries the stretch of text behind the last token with the
scanner: in mode `start` the marks that close that token and blanks (`Between` with nothing opened yet),
before a name also its mark, in a token the marks that opened it, up to the noted start. Lemmas about stretches
say how one begins, grows by a blank and is finished by marks. Only the newline behind a
comment stands in a token that was returned and is still to be read (`OnNewline`).

`BlockWords`. `StackEffects` compares the stack at the end of a word with the one it was called on, but
code may pop anything, so neither the rest of the stack nor its height is invariant.
`BlockInv` says of each call, and of the stack as it is now, that what lay below the call still lies under it
(`Under`) provided the call is `tidy` (each run so far left what it owes) and nothing has reached below (`low`);
and that `base`, the height its current run began at, is then the height a call has between two runs (`Resting`: what
lay below, and for `REDUCE` the value carried along). With that height the last run leaves exactly the
result. It has to hold for every call on the call stack at once, since a step of the innermost code can
reach below all of them. The results play no part. For `HandlersInTurn` a failing call keeps the list
of handlers it had when it failed, and those it has asked are the first of it.

`StandardWords_proofs`. `PiecesAgree` speaks of the values on the stack, so it holds in every state in which
these are well formed (`PiecesReassemble`; `StackShaped` is a conjunct of the `TypeOK` that the run checks).
For programs of the cutting words alone `CuttingSpec` also keeps them well formed, which has to be said
of the elements too, since `FIRST` or `NTH` puts them on the stack. A recursive definition of that is out of reach;
`Sound` says instead that a value belongs to a set of well-formed values that holds the elements of
its members. Such sets are closed under union, so a container made of sound values is sound. That the
groups of `GROUPS-OF` cover their container rests on rounding up; the cuts of `SLICE` on the difference of
two positions of one container not wrapping around. `RangeGuard` and `SliceGuard` carry that condition:
below it the guard is exact, and finding 4 is what lies beyond. What passes has a size that depends on where the walk leaves the
container: an array has `null` for each position outside, a record leaves it out (`Inside`), and a walk that begins outside is empty.

`OneNotionOfEquality` is proved in the same two steps. `EqualityIsOne` is about any stack of *comparable* values: those in a set
of values, closed under elements, whose strings are texts (`Spelled`), whose dates are instants and whose integers are in their width.
A walk of `==` over two values and the walk with the two exchanged go through the same layers, pair for pair, so `==` takes
its arguments in either order; values that it calls equal are of one rank and so ties of `SORT`; on scalars it is the order's tie and,
but for 0 and `-0.0`, the set words' key. `ComparingAgrees` follows because these words build no value but those they are
given, booleans, and the containers that options make. Programs that shape values do not keep them comparable in the model:
`NUMBERED` counts without a limit there, and the text of a number is opaque.

`RecordsRoundTrip` needs less of the values, only that a record has one entry for a key, at every depth: `Tidy`, again by a set
closed under elements. Every loop that builds a record is a fold, and what it has built after so many
rounds is said by an invariant of the rounds (which keys there are, and their values): of `RELABEL`, `INVERT-KEYS`, `MERGE`,
`PICK`, `OMIT` and `DELETE`. Two inversions give each entry back, not their order, so the result is `==` to the record
when that is `==` to itself, which it is but for a NaN inside. `ShapingKeepsTidy` goes through every word of
`ShapingWord`; `SORT` is not among them, since with a NaN its result is not determined.

For `GroupsAgree` the invariant of the loop is that a bucket holds the elements gone through that name it, in
order; `BY-FIELD` overwrites where `GROUP-BY-FIELD` appends, so it ends with the last. For `SetsAgree` a set word keeps the elements at certain
positions (`Selects`), `Shared` says at which, and sizes are compared by counting positions. On scalars the key is
`==`, by the theorems above, where `-0.0` does not meet another zero (`OneZero`, a hypothesis of `SetsAgree`). `SORT-U` keeps one element for each key as `UNIQUE` does (`UniqueSizes`). With a record on the left the
keys are its own, and the two halves are `OMIT` and, in another order, `PICK`. The hypothesis of comparable values is
the one of equality, hence `ComparingSpec` again.

`Values_proofs` holds what this rests on.

`SortOrder` compares a rank and a place on a line, except for strings. Those are sequences of letters of the
alphabet (`Spelled`): two that differ part somewhere (`FirstDifference`), and where they part decides, also along a
chain, where the earlier of two partings does. For integers `RoundedInOrder` says that rounding to the nearest float
never exchanges two of them, and small ones stay as they are. `SortIsStable` counts what
stands before each element: in a total order of n elements no two counts are equal, so, by cardinalities, every
place is filled once.

A record is a fold of `Put` over pairs. `FoldLeft` chooses a function by a recursion over sets of positions;
`CollectedGrows` shows by an induction over how far it has got that it exists, and what the result is
after each pair (`Counting` gives the induction, for a set of numbers in the place of a predicate).
`Holds` is the invariant of that loop: one entry for each key, its last value, in the order of first appearance.

The other loops need the same twice: that the chosen function exists, which `LoopExists` proves once for any
loop over positions, and an invariant of the loop. For `MIN-BY` and `MAX-BY` it is that the best so far is beaten by
none of the items gone through and beats all before it; that a new best beats all of these takes the transitivity of
`SortOrder` (`Better`), so NaN is excluded there, too. For `FILTER`, `UNIQUE` and `UNION` it is `Selects`: the
elements kept are those at certain positions, each once and in order; a key met before is met among the elements kept.

Model-checked only: the liveness properties `EveryCallReturns`, `EveryCallEnds`, `ShutdownEnds` and
`TextIsRead` (fairness is beyond the prover); `ResultsArePromised` of `BlockResults`, where `MAP-AT` recurses along its path
(what it promises of `FILTER`, `COUNT`, `MIN-BY`, `MAX-BY` and of sorting by
keys is proved of their operators, from the answers on); and of `StandardWords` its `TypeOK` and `PathsAgree`. Flattening and
paths recurse over values and texts of any depth, and neither recursive operators nor induction over such data are within the
prover's reach. `TypeOK` asks for values within the bounds of the run: nested no deeper than `MaxNesting`, with integers no greater than
`MaxInt`, which a `LENGTH` may exceed when a stack is as long as one likes; without those bounds it is
`ShapingKeepsTidy`. That the set words agree in programs that also shape values is checked by the run and not proved.

## 6. Where the code and its documents disagree

Each has a run that shows it, and a quotation under `findings` in `PROJECT.json`.

1. An element of `MAP` with outcomes that fails inside a definition leaves the interpreter
   compiling: what follows is collected, not executed (`ElementFailureIsContained`).
   `CompileStateIsSound` shows the limit of the damage: the host then gets an error.
2. Two threads may both compute a memo (`ExecutedOnce`).
3. `shutdown` returns while the task of a caller that has left is queued or runs
   (`StoppedMeansIdle`).
4. The size that `RANGE` and `SLICE` guard wraps around for numbers far apart, and the guard
   passes (`SpansAreGuarded`).

The models show more that no run is spent on:

* `run_module_code` (`interpreter.rs:1009`) pops one module after code that may have opened or
  closed others; the comment above it says "Always pop the module".
* `TRY` (`core.rs:622`) closes the modules its failed code opened, but does not reopen those it
  closed; `plans/TS-PARITY-BACKLOG.md:147` says that a failure restores the entry depth.
* `PEEK!` inside `TRY` or `MAP` with outcomes (`core.rs:620`) does not stop the program, as
  `docs/WORDS.md:33-34` say `PEEK!` and `STACK!` do. `CaughtErrorsRestore` therefore leaves stops out, and `StopPassesThrough` says
  what becomes of a stop up to the words that catch.
* `0` and `-0.0` are `==` and ties of `SORT`, but two keys (`array.rs:1847`, and `array.rs:778` for records): `[0 -0.0] UNIQUE` keeps
  both, `SORT-U` one, and `DIFFERENCE` keeps a zero that `CONTAINS?` finds. The comment at `array.rs:1840` says that Int and Float
  share one keyspace, as `values_equal` treats them. `OneNotionOfEquality` states the exception, `SetsAgree` leaves it out.
* `UNIQUE`, `UNION` and the set words take integers beyond 2^53 that differ for the same
  (`array.rs:1847`), which `==` does not.
* The "total order" of `natural_cmp` (`array.rs:729`) is none with a NaN: it ties with every number
  (`NaNBreaksTheOrder`); without one it is a total preorder (`SortOrder`).
* `==` is not transitive beyond 2^53: a float may be `==` to two integers that differ. What `UNION` keeps in the place of that float is
  one of them, so `CONTAINS?` may tell a union from its parts (`SetsAgree` leaves such integers out).
* A record that holds a NaN is `==` to no record, not even itself (`RecordsRoundTrip` leaves it out).

A comment in `register_module` (`interpreter.rs:913`) says that a module registered now is
visible to running code now. It is at the outermost level (`RegisteredAgree`); inside
a module left open, `{m` looks in that module only, and makes a new one.

## 7. What is not modelled

* The math, string, json and datetime modules: functions of their arguments with no
  control of their own, over floating point, regular expressions, JSON text and time zones, which are
  out of TLC's reach.
* Literal parsing, error wording and the locations in errors; the serializer's JSON.
* `INTERPOLATE`, `PRINT` and `STACK!`, the options `depth` and `with_key` of `MAP` (`array.rs:275`: one more value below the item), and the accessor
  `get_app_module_mut`.
* A connection that is accepted only after its client has gone: `Accept` needs a client that waits.
* Index strings in other forms than the usual (`+1`, `01`) in the path of `MAP-AT`.
* The bytes of HTTP: hyper and axum are external and enter as frames, disconnects and the
  wait for open connections.
* `StackOverflow` of the Rust stack by deeply nested code: the code has no limit to model.
* Arrays with a NaN under `SORT`: the order is then none, and what `sort_by` makes of it is
  the library's choice.

## 8. Plan

What a further step would take up, in this order:

1. `INTERPOLATE` with its scan for holes and the depth option of `MAP`.
2. The serializer: values to typed JSON and back, as an operator module with a round trip.
3. The scanner's tokens as the input of `ForthicInterp` in place of free tokens, for short texts.
