# js_vm in TLA+

js_vm compiles JavaScript to a bytecode of its own and runs that bytecode in a
virtual machine written in Rust, natively or as WebAssembly inside another JS
engine, the host.  This directory holds specifications of the parts of it whose
correctness depends on orders of events, on shared state or on algorithms over
arbitrary programs: TLA+ modules, TLC configurations, and proofs for TLAPS.

Source paths below are relative to the repository; `executor.rs`, `env.rs`,
`host.rs` and `ops.rs` are in `crates/runtime/src`, `core/lib.rs` is
`crates/core/src/lib.rs`, `parse.rs` is `crates/compiler/src/parse.rs`.

| module | models | role |
|---|---|---|
| `ScopeTypes` | `env.rs` | values, scope frames and lookup along a chain |
| `ScopeChain` | | what environments promise: chains without caches |
| `LexicalEnv` | `env.rs`, `executor.rs` | environments with name and slot caches, closures, calls, suspended frames |
| `CallFrames` | `executor.rs`, `host.rs` | runs, calls, host calls, callbacks, parked frames; the limits |
| `TryTypes` | `ops.rs` | nesting of blocks and try statements |
| `Completions` | | what try statements promise |
| `FrameFlow` | `executor.rs`, `ops.rs` | ranges, flows and errors of one frame, suspension |
| `RegisterAllocation` | `core/lib.rs` | liveness, linear scan, execution in both numberings |
| `LoweringContext`, `ExpressionLowering`, `StatementLowering` | `parse.rs` | from syntax to structured instructions |
| `BlockLayout` | `parse.rs`, `core/lib.rs` | basic blocks and their order |
| `Instructions`, `Bytecode` | `core/lib.rs` | bytecode instructions and how they are compiled |
| `Peephole`, `BranchTemplates`, `RegisterNumbering`, `Optimizer` | `core/lib.rs` | the passes over bytecode, in their order |
| `InstructionSteps` | `executor.rs` | what the executor does in one turn: an instruction or a fused group |
| `ObservedEffects`, `CompiledRun` | `executor.rs` | a run of bytecode and what it shows to the outside |
| `SourceSemantics` | | what a program means as it is written |
| `SourceRuns` | | the compiler and the executor, against `SourceSemantics` |
| `WireOperands`, `WireInstructions`, `WireModule` | `core/lib.rs` | bytes of operands, instructions and modules; seeds |
| `WireTransfer` | `core/lib.rs` | a module written, sent, perhaps damaged, and read |
| `GeneratorObjects` | | what generators promise |
| `Generators` | `executor.rs` | generator objects and the executors that run their bodies |
| `AsyncFunctions` | | what async functions promise |
| `AsyncFrames` | `executor.rs`, `value.rs` | frames that wait for promises, and the promises of calls |
| `MC...` | | instances for TLC |
| `..._proofs` | | theorems about the module of that name |

## 1. Inventory

### Components

**Lexical environments** (`env.rs`, and `executor.rs` where it pushes, clones and
clears them).  State: per executor frame a vector of scope frames pointing at
shared environment records, a cache from names and one from slots to the index
of the scope frame that answered last.  Operations: `push_frame`, `pop_frame`,
`truncate_to_depth`, `get`, `set`, the `define_*` family and their slot forms, and the
calls, closures, hoisting and suspensions that clone environments.  Correct when
the caches are never observable and frames see each other's bindings only through
closures.

**Call frames, limits and callbacks** (`executor.rs`, `host.rs`).  State per run,
shared by all of its executors through `Rc`: `call_stack`, `host_call_depth`,
`execution_budget`; per thread the installed callback invoker.  Operations: run a
module, call, return, call the host, be called back, await, resume.  Correct when
the guards are balanced on every path, the depth and recursion limits hold across
callbacks, and the step limit is not evaded by going through the host.

**Control flow of a frame** (`executor.rs` `execute_range`, `ops.rs`
`find_try_parts`).  State: the program counter, the native stack of
`execute_range` activations, the flow (`Flow` or `Err`) they return, the depth of
the environment.  Correct when returns, throws and errors leave try statements as
completions do and the environment has the scopes of the program text.

**Async functions and generators** (`executor.rs`, `value.rs`).  State:
`GeneratorState`, promises with an optional result, parked executors.  Operations:
`Yield`, `Await`, `next`, `return`, resume and reject.

**Values, objects, classes and member access** (`executor.rs`, `ops.rs`,
`value.rs`, `error.rs`).  Object graphs with prototypes, class construction with
`super`, native methods.  Mostly data; the protocol of construction is not.

**Inline, hoist and frame size caches** (`executor.rs`).  Keyed by program counter,
shared by the executors of a run.

**Host bridge and VM handles** (`host.rs`).  VM functions and objects wrapped for
the host, handle tables, overlays of properties, symbol keys.

**Debug sessions** (`executor.rs`).  Pause, step and resume around `execute_range`,
behind a feature.

**Runtime bindings** (`crates/runtime/bin`), **command line** (`crates/cli`),
**test runners and scripts** (`tests`, `scripts`), **playground** (`index.html`,
`vendor`): conversions, argument parsing, sequential drivers and a page.

**Bytecode lowering and register allocation** (`core/lib.rs`).  Passes over a flat
list of instructions: fusing and removing instructions, threading jumps, numbering
registers.  Correct when the program the passes leave computes what the source says.

**Bytecode encoding, cipher and seeds** (`core/lib.rs`).  Variable-length integers,
string cipher, opcode permutations of a seed, source maps and byte profiles.  Correct when
writer, reader, map and profile agree, and damaged bytes are refused.

**Structured IR** (`crates/core/src/ir.rs`) and **compiler front end**
(`crates/compiler/src`).  Syntax-directed translation into structured instructions, which
become basic blocks.  State: the context of a body, with its temporaries, labels, targets of
`break` and `continue` and open scopes.  Correct when evaluation order, jumps and scopes are
those of the program text.

**Fuzzing orchestrator** (`tests/Fuzz.js`).  A pool of workers with a stop flag, an
error limit and a watchdog; in differential mode each worker runs its cases in a thread of their own
that it replaces after a timeout.

### Interactions

An executor frame *owns* a `LexicalEnv` whose records it *shares* with closures.
`call` makes a new executor that shares the counters of its run.  A host call leaves
the VM with `host_call_depth` raised; the host comes back through the invoker that
was installed when the function it calls was *wrapped*, which may belong to a run
that ended.  `await` of a host promise moves the executor into a callback of the
promise, where it stays until the event loop calls it.  The compiler fixes registers,
slots and static scope depths, on which the executor relies without checking.

### What is hard

* lookup caches that are private to a frame, over records that are not;
* counters raised and lowered by guards on many exits, read to decide whether a
  callback is synchronous;
* frames that are resumed without the native stack they had when they were suspended;
* two ways to report a throw, `Flow::Throw` and `Err`, through nested ranges;
* passes that must be right for every control-flow graph.

`PROJECT.json` lists the hazards line by line with the properties that cover them.

## 2. Modules

### LexicalEnv

State is that of `LexicalEnv`, for every executor frame that exists at one time, and
of the environment records.  An action is one instruction of the active frame, or one
function entry, with every cache update that it makes: `EnterScope`, `TruncateToDepth` and
the catch entries clear the caches as `push_frame` and `pop_frame` do; `LoadName` and
`StoreName` take the cached frame when it still holds the name and otherwise scan and
cache; `DeclareVarName` and `DeclareVarSlot` walk to the nearest boundary.
`CallHoisting` is a call of a function whose body declares a function
(`hoist_functions`).  `Suspend` and `ResumeAwait` take a frame off the stack and put it back
with the caches it had.

The state of a generator object owns an environment too (`Holders` are frames and
generators).  The first `next` makes it (`Begins`, as a call does) and runs in a clone
of it without caches, a later one (`Resume`) in a clone of what is kept; `Yield` and `Return` give
the clone back (`GiveBack`), `Fail` drops it, `Close` is `return()`.  There is no
running state in the code, so a generator that is asked while it runs gets a second
activation over the same Function and block records: `owner[f]` is the generator that frame `f` runs,
and `shared` has the frames that have run beside another activation of theirs.

* `kind` is a field of the code's `ScopeFrame`.  Frame and record are created together and
  only copied together, so the model keeps it per record.
* `DeclareStoreLocal` and `StoreLocalMemberConst` are a declaration followed by a store,
  two actions of the model.
* `ScopeTree`: the scope frames of everything that is alive form a tree, without
  which a cached index would be meaningless.
* `SlotsPrivate`: no two living frames reach a common record through slots, unless
  both are activations of one generator.
* `SlotsInnermost`, `NamesInnermost`: a cached frame is the one the scan would have found.
  For slots, frames in `shared` are exempt: one activation may declare a slot in a
  block where the other has cached it further out (*Known deviations*).
* `ScopeChainSpec`: with the caches, environments implement `ScopeChain`, where
  any frame may act at any time and lookups are defined by the chain alone; a frame in
  `shared` finds a slot in one of the scopes that hold it.

### CallFrames

`native` is the native stack: activations of modules, functions, resumed frames, and
of the host.  Which function calls which is left open, so every program is covered.
`Call`, `HostCall`, `Callback` and `Run` raise the counters their guards raise,
`LeaveFrame` and `HostReturn` lower them.  `CallbackCell` and `CallbackBudget` model the
decision of the invoker between the current budget and a fresh one.

* A run is started by the host, also while another run of the thread is active; each
  installs its own invoker, and JS functions keep the one they were wrapped with.
* `Resume` continues a parked frame with the `call_depth` and the budget cell it had,
  and without an entry on the call stack, as the code does.
* A frame whose budget is spent can only unwind: the catch block's first
  instruction is refused as well.
* Hoisting takes no steps; a limit of 0 is `usize::MAX`.
* Debug sessions, which drive `execute_range` themselves, are not in the model.

`GuardsBalanced` ties the counters to the native stack; `DepthBounded`,
`RecursionBounded` and `NestingBounded` are the limits; `NoStepsFromTheHost` and
`NeverRefilled` say that the host is no source of steps; `Terminates` that a limited run
gives control back.

### FrameFlow and Completions

One frame.  The program counter is abstracted to the nesting of constructs around it,
the environment to the number of scopes inside the function's own.  `ranges` is the
stack of `execute_range` activations: each TryStart runs the parts of its statement
by calling `execute_range` again.  `flow` is what the innermost range returned.
`BodyReturned`, `CatchReturned` and `FinallyReturned` are the branches of TryStart, with the
order of `pop_frame`, `?` and truncation that the code has.

* No jump leaves a part of a try statement: the compiler turns `break` and `continue` into
  jumps only when the loop is inside the same part (`parse.rs` 589).
* A suspended frame is resumed in one flat range; a `CatchStart`, `FinallyStart` or `TryEnd`
  met there ends the range, and with it the frame (`EndRange`).
* A generator that fails leaves its state as the last yield left it, so that `next` runs the
  same instructions again (`FrameFailed`).
* A generator calling its own `next` is the subject of `Generators`; debug pauses are left out.

`Completions` is the promise: one completion per part, a throw in a body goes to the
catch, a finally keeps the completion it interrupted unless it ends abruptly.
`FrameFlow` implements it (`CompletionsSpec`) under two constants: `SuspendsInTry = FALSE`
(frames are suspended outside of try statements only) and `CatchCalls = FALSE` (no
instruction fails in a catch that has a finally).  Without either TLC finds counterexamples at
once: `pop_frame` (`executor.rs` 3025) runs although the frame is only suspended, and
`catch_flow?` (3026) leaves TryStart before its finally is looked at.  After the first `Err`
of a generator the comparison ends.

### RegisterAllocation

The function numbers the registers of one frame, that is of the instructions of one
function without the bodies nested in it.  `code` is such a frame; an instruction is
abstracted to the registers it writes and reads and to where control may go, which is what
`instruction_register_defs`, `instruction_register_uses` and `instruction_successors` extract.
`Propagate` is one position of a liveness pass, `EndPass` the decision to make another one;
`ExtendIntervals` one position of the interval construction; `Assign` one round of the linear
scan, `Dense` the numbering of frames with try statements or more than
`LIVENESS_REGISTER_ALLOCATION_LIMIT` instructions.

Then the frame runs twice in lockstep: `Execute` performs an instruction on `virtual` and,
through `mapping`, on `physical`.  Each result is a new value, the position and the register
that produced it, so equal contents mean the same result.  `Fail` enters the innermost
handler around an instruction that fails (or returns, when a finally is to run first);
`EndPart` goes on from one part of a try statement to a later one.

* The register a Yield writes when it is resumed counts as *used* in the code, and so it does
  here: it is kept alive before the yield, which costs a register and is safe.
* A branch to a nested function's declaration has no successor in the code's analysis.  Loop
  back-edges never target one and intervals are hulls, so such frames are left out.
* Without the `compiler-optimizations` feature every frame is numbered by `Dense`.

`ReadsAgree` is the correctness of sharing; `LivenessExact` compares the result of the
passes with reachability in the executor's graph; `FrameSmallest` says that the scan takes as
many registers as the widest position needs; `Allocates` that the passes and the scan end.

### The compiler, and SourceRuns

`LoweringContext` to `Optimizer` are the compiler as functions from programs to bytecode; a
module is a stage.  Programs are syntax: records with a kind and parts.

* `LoweringContext`: the context of a function body: instructions so far, temporaries, labels, targets,
  open scopes.  Operators of `ExpressionLowering` and `StatementLowering` take a context and give
  one, as the methods `lower_...` change theirs.
* `BlockLayout`: the builder cuts a body into basic blocks at labels and jumps; blocks are
  written in the order of their numbers, which is not that of the text.
* `Bytecode` compiles instructions and knows what is dead or unused; `Peephole` and
  `BranchTemplates` have one operator per pass and position, which marks positions as removed
  and rewrites others, as the loops of the passes do; `RegisterNumbering` is the result of
  `RegisterAllocation` as a function; `Optimizer` puts the passes in their order, with and
  without the feature `compiler-optimizations`.
* `CompiledRun` executes the result.  Everything that leaves the frame is an event, whose
  answer is any of a few values or an error; the state has registers, scope frames, ranges and
  the trace.
* `InstructionSteps`: in one turn the executor does an instruction or, if it is built without the
  debugger, a whole group that it recognises (`try_execute_fused_...`).  Both are sequences of
  steps, each of them an action of `CompiledRun`.  A group may give up halfway: `step = 0` says that
  the instruction is now done for itself.  `kept` is the cache of members that have been called
  (`MemberCallInlineCache`): such a member is read by the group that calls it.
* `SourceSemantics` is the abstract specification.  It goes down the syntax and knows nothing of
  temporaries, labels, jumps or blocks; given the answers of a run it says which events there
  should have been.

`RunsAsWritten` compares traces, result and variables at the end of a run; `ScopesAsWritten`
the number of scope frames at each event.  What the compiler does on purpose or by a
simplification different from ECMAScript is in `SourceSemantics` as the compiler does it, and
listed below.

### Wire format

`WireOperands` has the writers and readers of numbers, strings and operands as functions between
values and bytes; a reader gives a value and a place, or fails.  `WireInstructions` has the
layouts: which operations have a short form, which operands it implies, how lists are counted;
it has them three times, for the writer, the reader and the profile, since the code has.  `WireModule`
adds the opcode maps, the seeds and the sections.  `WireTransfer` sends: a module is written, its
seed is made, bytes may be cut or appended, and the reader takes one item per action with the
counts it has been told.

* The stream cipher is a self-inverse operation on strings that depends on key and domain, the
  seed's fingerprint of the configuration an injective function.  Names and strings are short in the
  instances, any bytes in the theorems.
* Bytes that were *changed* are left out: nothing in the format claims to detect them.
* What a module may be is what the writer takes for granted: lengths and indices of 32 bits (a length two
  below that for a string of its own, whose mark is the length and two), and parameters of kinds that have a tag
  of their own.  The reader accepts at most 65535 external slots, the writer any number: `IsSendable`.

`LoadedAsWritten` (refused only if it could not be written or has too many external slots),
`DamageRefused`, `SeedRestores`, `RangesAsRead` (source map against reader) and
`ProfileAddsUp` (profile against writer).

### Generators

A generator object keeps where its body stopped, its registers and its environment; `next` makes
an executor of copies.  `stack` has the executors that run at one time, for a body may ask
any generator, itself included, for something.  `GeneratorObjects` is the promise: each
`next` goes on where the last one stopped, with its variables as they were, and an ended body never runs
again.  Nothing is promised of a generator that is *spoiled*: whose body ended with an `Err`, or
that was asked for something while it ran.  `GeneratorObjectsSpec` says that neither disturbs
any *other* generator; `StaysFinished` holds for all.  Bodies are sequences of six kinds of
instructions; `locals` counts changes of the shared environment.

### AsyncFrames

`frame` is an executor of an async function, on the VM's stack or parked in the callbacks of a
promise; a frame that waits for the n-th time makes a promise `<<f, n>>`, and the callback
resolves the one before it with the new one.  Jobs of the host (`Resume`, `Reject`, `Adopt`,
`HostSettles`) run when the VM does not.  A call that ends without waiting returns a
thenable (`Resolved`), an import one with a mark (`Marked`).

`AsyncFunctions` knows calls and what they wait for, no promises: `AsyncFunctionsSpec` is the
refinement, `PromisesKept` relates the promise of a call to what became of the call, through
chains and returned calls, and `EveryCallAnswered` is liveness.  There are as many calls as `Frames` and
as many host promises as `HostPromises` (`HasFresh`, and the guard of `Ask`).

## 3. Runs

| run | module, cfg | question | states |
|---|---|---|---|
| `env_names` | MCLexicalEnv, LexicalEnvNames | are name caches invisible without suspension and generators? | 51 thousand |
| `env_slots` | MCLexicalEnv, LexicalEnvSlots | are slots private and slot caches invisible, with suspension and generators? | 373 thousand |
| `calls_safe` | MCCallFrames, CallFramesSafe | guards, limits and budgets of two runs | 713 thousand |
| `calls_live` | MCCallFrames, CallFramesLive | does every entry into a limited run end? | 28 thousand |
| `flow` | FrameFlow, FrameFlow | scopes balanced, completions implemented | 1.95 million |
| `register_allocation` | MCRegisterAllocation, RegisterAllocation | is the numbering safe, exact, tight and finite? | 375 thousand |
| `source_runs` | MCSourceRuns, SourceRuns | do compiled programs do what is written? | 24 thousand |
| `local_in_loop` | MCSourceRuns, LocalInLoop | violation: a local folded into a later read | |
| `wire_transfer` | MCWireTransfer, WireTransfer | do writer, reader, map, profile and seed agree? | 72 thousand |
| `generators` | MCGenerators, Generators | do generators keep their promise beside each other? | 44 thousand |
| `async_calls` | MCAsyncFrames, AsyncFrames | is every async call resumed rightly and answered? | 13 thousand |
| `async_awaits` | MCAsyncFrames, AsyncAwaits | violation: an await that does not wait gives a thenable | |

**Environments.**  Three executor frames alive at one time (a recursive call while a
third frame is suspended, or two activations of a generator), one generator in `env_slots`, the
global record and two more, two values, one name or
one slot, and at most two captured environments (the constraint `TwoFunctions`, a bound on
how many function values hold environments at once).  A stale cache needs two scopes that
hold the same key and a second frame that shares them; an interference of slots needs two
frames with a common chain; both fit.  Names and slots are bounded to one each because
the caches of different keys do not interact.

**Calls.**  `calls_safe`: two runs, two functions of which one is async, one parked frame, one
cell for fresh budgets, depth and recursion limit 2, step limits 2 and none.  Callbacks come
during and after a run, runs nest.  `calls_live`: one run, depth limit 3 and recursion limit 2, so that the
recursion limit bites before the depth limit does, and `HostEntries` includes property reads
that hold no guard.

**Frame flow.**  Every nesting of four blocks and try parts.  All interactions of TryStart
involve a statement, the one around it, and scopes in either.

**Register allocation.**  Frames of five instructions, all fillings of the middle three with
thirteen instructions closed by four kinds of backward jump; straight lines over
three registers with a branch over a part; three frames with try statements, one of which
would read a wrong register if it were not numbered densely; one frame longer than the limit, which
is 7 here instead of 4096.  With two registers and a loop every relation of two intervals
occurs; the third register makes the scan free one of two.

**Source runs.**  One program per construct and per way in which constructs interact (jumps out of
scopes, nested loops and switches, chains, patterns, spreads, try statements, yields), each
optimised and not, with all answers of a few values or an error to its first nine events
and for-each lists of at most two items.  Between them the programs make every pass rewrite something
and contain every fused group; the cache of members needs a loop that calls one twice.
`SameMethods = TRUE`: a member that has been called stays a function of the host (see Known
deviations).

**Wire.**  Eleven modules with every operation at both sides of every limit of its short forms, one with an
operand that is not allowed and one with an external slot too many, in four configurations; damage at every byte.
The constants have a -0.0 before the 0 that is loaded in a short form.

**Generators.**  Two generators of four bodies, three executors at a time, recursion limit 2, two
values.  A re-entrance within a re-entrance is refused by both limits.

**Async calls.**  Seven functions in six scripts, five calls, five promises of the host, two waits
per frame: chains, both orders, returned calls, failures after a wait.

CHECK_DEADLOCK is off where the systems may stop: every scope and record of the
bound is used, the host makes no further call, a frame ends, a program has run, all calls are
answered.  It is on in `wire_transfer` (a reader is never stuck) and `generators`.

### Fairness

`calls_live` assumes weak fairness of the VM's steps (the interpreter loop runs on) and strong
fairness of `HostReturn` at each nesting level: a host function that is called returns,
whatever callbacks it makes before.  Strong fairness is needed because a callback
disables the return of the host below it again and again.  Nothing is assumed of the events of
the page: no run, callback or promise needs to happen.  `register_allocation` assumes weak
fairness of the allocator, which is sequential code.  `async_calls` assumes weak fairness of
the whole next-state relation: the VM runs on while it has a frame, the event loop does its jobs, and
promises of the host are settled at some time, without which nothing could be promised.  No
body has a loop, so the order of jobs needs no fairness.

### What the violation runs show

Each is one property that a comment of the code states and the code does not keep;
`PROJECT.json` quotes the comments.

* `local_in_loop`: a read of a local is folded into the single use of its register (`core/lib.rs` 6656) also
  when the local is stored in between, on the way round a loop.
* `async_awaits`: `await_value` (`executor.rs` 1331) looks for the wrapper of a finished call in a form in
  which it is never made, so that `await f()` gives the thenable if `f` did not have to wait.

### Known deviations

What the code does differently from ECMAScript or from its own comments, met while
modelling.  Models have it as the code does, or exclude it by a named constant.

*Environments.*  `catch (e) { var e }`: reads in the catch body go to the function's
variable (`env.rs` 161; `CatchVar`).  Name caches from before an await are used after it
(`env.rs` 89; the run `env_names` has `Suspends = {}`).  `next` on a running generator clones the scopes
the other activation is in (`executor.rs` 6952): a slot that one of the two declares in a block is
behind the cache of the other, which goes on with the outer binding (`shared`).

*Frames.*  A host property read (`executor.rs` 4430) gives a callback a fresh budget (`HostEntries`).  An `Err` in a catch
skips its finally (3026; `CatchCalls`); a suspension in a catch loses a scope (3025), one in a
try the ranges (2460; `SuspendsInTry`).  A for-of or for-in with a lexical variable leaves the static scope
depth one too high for later code, and `break` in it leaves the scope open (`jump_target` 5260, `ops.rs` 107, `parse.rs` 1104).  `break` and
`continue` out of a try statement are markers without effect (`parse.rs` 589).

*Generators.*  `next` on a running generator starts a second activation; an `Err` leaves
the generator resumable at its old place; `return` does not run finally parts; a body runs with
the module of its caller; awaiting a promise of the host in one is an `Err`.

*Async functions.*  An error before the first wait fails the caller at once; an await of a thenable gives the
thenable; a rejection drops the frame without running its catch.

*Lowering.*  Member assignment evaluates the object and key after the value, compound assignment
twice; `a ||= b` always evaluates `b`; computed keys are evaluated after their values;
`delete` stores undefined; an optional call with a spread loses `this`; a parameter default is taken
for null as well; `super.x` is only a marker; destructuring assignment declares; a catch with a pattern drops
it; array patterns call `next` again after the end (`parse.rs` 2744); the temporaries of a for-each are
overwritten by a try statement in its body (`parse.rs` 1317).  The rest of an object pattern leaves out, for
a computed key, a property with the text of its register's name (`parse.rs` 2913, 5028): in
`{[f()]: a, ...b}` the property that `f()` names stays in `b`.  `static_property_key` is modelled as it is;
the programs of `source_runs` have static keys before a rest, and with `ComputedRest` for `Programs` TLC
shows the deviation as a violation of `RunsAsWritten`.

*Fused calls.*  The second call of a host object's member at one place reads the member first and calls it
if it is a plain host function (`executor.rs` 4491); if it is not, the member is read once more, so that a
getter of the host runs twice.  With `SameMethods = FALSE` the program `Methods` shows it as a violation of
`RunsAsWritten`.  A fused group charges its steps after it has had its effects.  The false branch of a
fused test of a local (3855) leaves scopes and then leaves them again; it does no harm because jumps
are threaded past scopes only in builds that also fold the load into the test.

*Seeds.*  A seed made from a YAML encoding drops a custom magic and codes with gaps;
the 76 operations exactly fill the 76 digits; seeds hold 76 external slots at most, modules 65535.

*Wire format.*  A module with more than 65535 external slots is written and cannot be read (`core/lib.rs` 1668;
the writer at 1413 does not count them).  Constants are looked up with the equality of `f64` (`constant_index_or_insert`,
3936), so that a short 0 behind a constant -0.0 is loaded as -0.0; no constant of the compiler is
-0.0.  `Operands` forgets the sign of a zero for that (`Unsigned`).

## 4. Proofs

All theorems hold for every value of the constants that the named ASSUMEs allow.  Each
follows from an inductive invariant that TLC checked before; the modules define the parts of
the invariants so that both tools use the same formulas.

**LexicalEnv_proofs.**  `TypeCorrect`.  `ChainsCorrect`: `ChainInv` is inductive.  Its core is `Owned`: a
record above `base[f]` was pushed by `f`, and another frame holds it only below its own base, that
is, because it cloned it, or at the same place if both run one generator.  `Activated` says when they may:
both are then in `shared`.  `Shape` places the function boundary at `base[f] + 1`.  `SlotsArePrivate`
follows: what lies inside the boundary was pushed by the frame or an activation of its generator.  `SlotCacheCorrect`, for
programs without `catch (e) { var e }` (`CatchVar = FALSE`), adds `SlotShortcut`: a
cached index is on the near side of the boundary and, in a frame outside `shared`, no frame further in holds the slot.
`ScopesFormATree` (`ScopeTree`) rests on `Tree`: chains that share a record agree up to it, and a record
that is pushed is in no chain yet.  `NameCacheCorrect` is for `Suspends = {}`: then the stack is
`Nested`, that is, a frame that has cloned records of another runs above it.  The active frame declares in
its own records only, so that what it declares is in no other running frame's chain, and `NameShortcut` is inductive: no
frame further in than the cached one holds the name.  With an await in between the code uses the
stale entry that *Known deviations* lists, and the theorem would be false.  `CachesUnobservable` is
the refinement of `ScopeChain`: lookup through a cache is lookup along the chain, and actions that only
change caches or the stack are stutters.  It needs `CatchVar = FALSE`, and no suspension or no names, which are
the first two deviations; the third is in `ScopeChain`.

**CallFrames_proofs.**  `CallsCorrect`: `CallInv` is inductive.  `DepthBounded` alone is not, since the depth of
a callback starts from the length of the call stack and that of a resumed frame from the past;
`Covered` says that the depth of a frame is at least the number of frames its run had,
`Counted` that the counters describe the native stack.  `CallTypesCorrect` and `DepthIsBounded` are
parts of it; `NoStepsGained` proves `NoStepsFromTheHost` for programs whose every way into the
host holds the guard (`HostEntries = {"call"}`).  `GuardsAreBalanced` is about the order of the
entries too: `Listed` says where in the call stack the entry of each function frame is, so that a guard that is
dropped drops its own.  `RecursionIsBounded` is the check that `Call` makes before it pushes.
`NestingIsBounded` adds `OneBase` (a run has one frame that is no call) and
`CalledByVM` (the host is on the stack only above a frame of the VM) and counts the native stack run by run; it supposes
finitely many runs, without which there is no bound.  `BudgetsOnlyShrink` is the action property
`NeverRefilled`; by `CellsStarted` the cell of a run is in use only after the run was started, so that
its start refills nobody's budget.

**FrameFlow_proofs.**  `FlowsCorrect`: `FlowInv` is inductive when frames are suspended outside of try statements
(`SuspendsInTry = FALSE`).  `ScopesBalanced` alone is not, since what a range truncates the environment to
is decided when it begins.  `RangesNest` says that each try statement around the program counter
has the range of its part on the native stack, entered with the scopes around that part;
`ScopesLeft` what a range that returned has left of its scopes; `SavedFlat` that a frame is resumed
outside of try statements.  `FlowTypes` and `ScopesAreBalanced` are parts of it.  `CompletionsRefined` is the
refinement of `Completions`, for `CatchCalls = FALSE` as well: one lemma per abstract step
(`AbstractEnter` ... `AbstractMoveOn`), lemmas for what is pending in the ranges after a step
(`PendingLeft`, `PendingMoved`, ...), and one mapping lemma per branch of TryStart.  `ErrorsOutside` is
what it needs besides `FlowInv`: no error is under way in a catch with a finally.

**RegisterAllocation_proofs.**  `AllocationCorrect`: `AllocationInv` is inductive.  `Analysed`: in a pass that has changed
nothing so far, the positions visited solve the liveness equations; when it ends, all do.
`Covered`: intervals contain the positions a register is touched at.  `Scanned`: registers
that were freed end before all that are still to come start, so that two registers with the same physical
one have intervals apart.  `Tracks`: what is live at the program counter is where the mapping
says; for densely numbered frames, whatever is mentioned.  `SharingIsSafe` (`ReadsAgree`) and
`AllocationTypes` follow.  Nothing is assumed of the frame but that its registers and targets
are in range.  `FrameIsSmallest` has `Packed`: the physical registers are numbered without a gap, and
at some position all of them are held by intervals that cross it, namely where the scan last took a new
one.  `LivenessIsExact`: one half of it is
`AllocationInv` (the solution contains what can reach a use); the other is `Grounded`, that the
passes never call live what no use justifies.  `ReachedFrom` is the smallest set of positions that is closed
under the edges that no definition blocks, so that each half is an argument about one closed set.

**Generators_proofs.**  `GeneratorsCorrect`: `GeneratorInv` is inductive.  The refinement needs more than
the types: `Alone` (a generator that is not spoiled has one executor), `Busy` (it is then not at
its end), `Resting` (one that has begun and runs no more waits for a value) and `Unborn`.  An action
changes the stack of executors in one of four ways (`Stay`, `Move`, `Pop`, `Push`) and the state of one
generator (`Acts`), so that the others look as before (`OthersAlike`).  `GeneratorTypes` is a
part of the invariant, `FinishedStays` proves `StaysFinished`, and
`ObjectsImplemented` is the refinement of `GeneratorObjects`, one lemma per action and `Spoils` for
all actions of a spoiled generator.

**AsyncFrames_proofs.**  `AsyncInvariant`: `AsyncInv` is inductive.  `DataSound` says what data can be: a promise that was
made, the thenable of a call that returned what it holds.  `StackSound`: the frames on the stack are
different ones, each has just called the next, and only the first can have waited.
`WaitsSound`: a frame off the stack that goes on stands behind an await, and still has the promise it
awaits in the variable that the answer will overwrite.  `ChainSound`: the promise of a wait follows that of the next, and
the last follows what the frame returned, as far as it has been unwrapped; the last one is open as
long as the frame goes on.  `AllKept`: a settled promise has the outcome of its call.  `TypesHold` and
`PromisesAreKept` are consequences.  The outcome of a call that returned a call is the outcome of the last
of them, which `AsyncFunctions` says without recursion: `AnsweredBy` is the least set that has the call and
is closed under `ReturnedBy`.  `CallsAsPromised` is the refinement of `AsyncFunctions`; a frame that waits is seen at its
await still, so that the steps map as follows.

| step of `AsyncFrames` | step of `AsyncFunctions` |
|---|---|
| `Start`, `Call`, `Ask`, `Import`, `Return`, `RunOff` | the same |
| `Await`, `Resume` | `Await` |
| `Suspend`, `Adopt` | none |
| `Fail` | `Throw`, or `FailWithCallee` |
| `Reject` | `AwaitRejected` |
| `HostSettles` | `Settle` |

`Resume` and `Reject` are where `AllKept` is used: what the job tells the frame is the outcome of what it awaited.  The
theorem supposes `[]~AwaitsThenable`: it leaves out the executions of the run `async_awaits`, in which an await
gives the thenable of a call that did not wait, and no others.

**WireFormat_proofs, WireTransfer_proofs.**  The first has lemmas about what is written and what is read, for all
bytes; the second `WireInvariant`: `WireInv` is inductive.  It says that the seed is that of the
configuration, that what arrives undamaged is what the writer makes of the module, and that the reader is at a
place in the bytes, with no more items to come than there are bytes.  `PlacesBounded` (`TypeOK`) follows, for
damaged bytes too: a failed read is carried along as `At0`, and everything that reads gives
a place or `At0` from any place.  `SeedsRestore` (`SeedRestores`) is
about permutations: the digits of a reordered list of names are places in the known list, which has no name twice.
`ProfileExact` (`ProfileAddsUp`) rests on `LayoutsAgree`: the writer, the profile and the reader branch on the
operation each for itself, and all three get the same items; then item by item the size in
the profile is the number of bytes written (`ItemWritten`), operand by operand (`OperandBytesType`), down to
numbers (`VarintType`).  The modules are any in `BytecodeModule`: indices are numbers of 32 bits, those of names, slots and
external slots below 2^30 as `encode_name_ref_operand` demands; an operation may have any operands, and the theorem is about
those that `write_instruction` accepts.  Configurations are any that `validate` accepts, tables of atoms any.

`RoundTrip` (`LoadedAsWritten`), `DamageNeverLoaded` (`DamageRefused`) and `RangesExact` (`RangesAsRead`) follow from
a second inductive invariant, `WireGood`, which is `ReadAsWritten`.  `Holds(bytes, at, w)` says that what there is from a place on is
`w`, perhaps cut off, and `ReadsBack` that a reader gives the value and the place behind `w` if `w` is whole and fails
if it is not: one statement for whole, cut and extended bytes.  Each reader inverts its writer in this sense: numbers
(`VarintReads`), strings (`StringReads`, by the length of the text, since a prefix leaves a shorter one),
operands (`OperandReads`), each kind of item of a layout (`EveryItemBack`), instructions (`InstructionReads`, by the items of the
layout, with `WireOpStandsFor` for the operation), functions, constants and the head.  An instruction comes
back as one that says the same, not as itself: an operand whose kind shares its tag with others comes back with
one of them, and a constant under the first index that has an equal value, which for 0 may be -0.0; `Same` and
`Meaning` do not tell these apart.  `SectionsFramed` and `ListedPlaces`
put every item at the place that the sizes of the earlier ones give.  `WireGood` says that the reader is at the place of the next item
(`PlaceIn`) and has what was written before it (`IsPartOf`).  A reader that goes on has found each item whole, so that at the end it is
one past the last byte written: `expect_end` then finds what was appended, and a cut leaves an
item that is not whole.

What `Varint`, `TextBytes`, `FlattenSeq` and the functions with `...Upto` compute is proved by induction.  The library's
induction theorems take an operator as a parameter, but well-foundedness of the numbers is a fact about a set
(`NatLessThanWellFounded`), and a least counterexample (`LeastOf`) does as well.  `Recursion` shows that a recursive
definition over a set with ranks in the numbers has a solution and the definition is it; the step lemmas
(`VarintStep`, `TextStep`, `WrittenStep`, ...) are instances.  In recursive functions the prover misreads CASE, which is why
`TextBytes` and `TextReadAt` have IF.

Every invariant, action property and refinement that the runs check is a theorem but for these, which are only
model-checked:

* `Terminates`, `Allocates` and `EveryCallAnswered`: liveness under fairness, which the prover cannot do.
* `RunsAsWritten`, `ScopesAsWritten` and types of `SourceRuns`: the compiler is recursive over syntax, and the prover
  loses its arithmetic in every module that reaches a recursive operator.

## 5. What is not modelled, and the plan

In this order; the first entries carry the most weight.

1. `NameResolution`: which names become slots (`core/lib.rs` 5540-5756, 8602-8945), so that programs of
   `SourceRuns` may use a name twice.
2. `InlineCaches`: caches keyed by program counter that executors of several modules share, against
   lookups without them.
3. `ClassConstruction`: binding of `super` and `this` in `construct_class`.
4. `FuzzPool`: worker threads, stop flag, watchdog and error limit of `tests/Fuzz.js` 318-640, and the runner
   threads of 668-798.  To settle: the watchdog starts only after a stop was requested (384-396), although
   `tests/README.md` 109 has every stuck case archived and ended; the exit of a runner that timed out fails
   whatever case is pending by then (725-734), which may be one of the next runner.
5. `HostHandles` and `DebugSession`.

Not planned: arithmetic, conversions, native methods, printing, parsing of JS, YAML and text forms of
modules, generators of test programs, bindings and pages.  They keep no state across calls that others
depend on, or are data whose tests are exhaustive enough.
