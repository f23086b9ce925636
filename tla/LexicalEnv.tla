----------------------------- MODULE LexicalEnv -----------------------------
(***************************************************************************)
(* The lexical environments of the runtime (crates/runtime/src/env.rs) as  *)
(* the executor uses them (crates/runtime/src/executor.rs).                *)
(*                                                                         *)
(* An executor frame owns a LexicalEnv: a vector of scope frames that      *)
(* point to shared environment records, and two private caches from a name *)
(* or a slot to the index of the scope frame that held it last.  Closures  *)
(* keep a clone of the environment they were created in; a call clones it  *)
(* again and pushes a Function frame.  The records are shared by every     *)
(* clone, the caches are not: that is what can make a cache stale.  So     *)
(* does a generator object: every next runs in a clone of the environment  *)
(* it keeps, even while an earlier next has not come back.                 *)
(*                                                                         *)
(* One action is one instruction (or one function entry) of the executor   *)
(* frame on top of the call stack.                                         *)
(***************************************************************************)
EXTENDS ScopeTypes

CONSTANTS
    FastSlots,      \* slots below FAST_SLOT_LIMIT, the ones that are cached
    Suspends,       \* ways a frame may be suspended: of "await" and "yield"
    CatchVar        \* TRUE: programs may hold catch (e) { var e }

ASSUME EnvAssumption ==
    /\ FastSlots \subseteq Slots
    /\ Suspends \subseteq {"await", "yield"}
    /\ CatchVar \in BOOLEAN

VARIABLES
    frames,         \* frames[x]: the records of x's scope frames; <<>> when x has none
    base,           \* how many of them come from the closure of the function
    kind,           \* the ScopeKind of each record
    bindings,       \* EnvironmentRecord.bindings
    slot_values,    \* EnvironmentRecord.slot_values and overflow_slots
    name_cache,     \* name_cache[f][n]: an index into frames[f], 0 for none
    slot_cache,     \* slot_cache[f][s]: likewise
    captured,       \* environments kept by function values
    stack,          \* running executor frames, the active one last
    suspended,      \* how each frame is suspended, "no" when it is not
    owner,          \* the generator a frame runs, the frame itself when it runs none
    done,           \* GeneratorState.done
    shared,         \* of no effect: frames that have run beside another activation
    answer          \* the last lookup

envVars == <<frames, base, kind>>
recordVars == <<bindings, slot_values>>
cacheVars == <<name_cache, slot_cache>>
generatorVars == <<owner, done, shared>>
scheduleVars == <<captured, stack, suspended, generatorVars>>
vars == <<envVars, recordVars, cacheVars, scheduleVars, answer>>

NoNames == [n \in Names |-> 0]
NoSlots == [s \in Slots |-> 0]

TypeOK ==
    /\ frames \in [Holders -> Chains]
    /\ base \in [Holders -> Nat]
    /\ kind \in [Records -> ScopeKinds \cup {Unused}]
    /\ bindings \in [Records -> [Names -> Cell]]
    /\ slot_values \in [Records -> [Slots -> Cell]]
    /\ name_cache \in [Frames -> [Names -> Nat]]
    /\ slot_cache \in [Frames -> [Slots -> Nat]]
    /\ captured \in SUBSET Chains
    /\ stack \in Seq(Frames)
    /\ suspended \in [Frames -> {"no", "await"}]
    /\ owner \in [Holders -> Holders]
    /\ done \subseteq Generators /\ shared \subseteq Frames
    /\ answer \in Answers \cup {Unbound}

-----------------------------------------------------------------------------
(* The scope frames of an executor frame.                                  *)

Depth(x) == Len(frames[x])

Alive(x) == frames[x] # <<>>

Active(f) == stack # <<>> /\ f = stack[Len(stack)]

HasName(f, i, n) == bindings[frames[f][i]][n] # Unbound

HasSlot(f, i, s) == slot_values[frames[f][i]][s] # Unbound

Boundary(f, b) == IsBoundary(kind, frames[f], b)

\* cached_name_frame and the test that the cached frame still holds n.
NameHit(f, n) ==
    name_cache[f][n] \in 1..Depth(f) /\ HasName(f, name_cache[f][n], n)

SlotHit(f, s) ==
    slot_cache[f][s] \in 1..Depth(f) /\ HasSlot(f, slot_cache[f][s], s)

\* get answers from frame i; i = 0 when no frame holds n.
Finds(f, n, i) ==
    IF NameHit(f, n) THEN i = name_cache[f][n]
    ELSE LET holders == NameHolders(bindings, frames[f], n)
         IN  (holders = {} /\ i = 0) \/ IsInnermost(holders, i)

\* get_slot answers from frame i, b being the boundary; i = 0 for none.
FindsSlot(f, s, b, i) ==
    IF SlotHit(f, s) THEN i = slot_cache[f][s]
    ELSE LET holders == SlotHolders(slot_values, frames[f], b, s)
         IN  (holders = {} /\ i = 0) \/ IsInnermost(holders, i)

CacheName(f, n, i) ==
    name_cache' = [name_cache EXCEPT ![f][n] = i]

CacheSlot(f, s, i) ==
    slot_cache' = IF s \in FastSlots
                  THEN [slot_cache EXCEPT ![f][s] = i] ELSE slot_cache

ClearLookupCaches(f) ==
    /\ name_cache' = [name_cache EXCEPT ![f] = NoNames]
    /\ slot_cache' = [slot_cache EXCEPT ![f] = NoSlots]

Bind(r, n, v) == bindings' = [bindings EXCEPT ![r][n] = v]

BindSlot(r, s, v) == slot_values' = [slot_values EXCEPT ![r][s] = v]

IfAbsent(cell, v) == IF cell = Unbound THEN v ELSE cell

\* Mutant: records that only closures keep alive are used again.
RecycledRecord(r) ==
    r # GlobalRecord /\ \A f \in Holders : \A i \in 1..Depth(f) : frames[f][i] # r

Fresh(r) == kind[r] = Unused

-----------------------------------------------------------------------------
(* Init stands for LexicalEnv::default with the externals of the module    *)
(* already injected into the global record (define_global_if_absent), just *)
(* before the first instruction runs.                                      *)
Init ==
    /\ frames = [x \in Holders |-> IF x = Main THEN <<GlobalRecord>> ELSE <<>>]
    /\ base = [x \in Holders |-> 0]
    /\ kind = [r \in Records |-> IF r = GlobalRecord THEN "Global" ELSE Unused]
    /\ \E injected \in [Names -> Cell] :
         bindings = [r \in Records |->
                        IF r = GlobalRecord THEN injected ELSE EmptyNames]
    /\ slot_values = [r \in Records |-> EmptySlots]
    /\ name_cache = [f \in Frames |-> NoNames]
    /\ slot_cache = [f \in Frames |-> NoSlots]
    /\ captured = {}
    /\ stack = <<Main>>
    /\ suspended = [f \in Frames |-> "no"]
    /\ owner = [x \in Holders |-> x]
    /\ done = {} /\ shared = {}
    /\ answer = Unbound

-----------------------------------------------------------------------------
(* Scopes.                                                                 *)

\* push_frame: which unused record is taken is immaterial.
PushFrame(f, k, r) ==
    /\ Fresh(r) /\ r = CHOOSE q \in Records : Fresh(q)
    /\ frames' = [frames EXCEPT ![f] = Append(@, r)]
    /\ kind' = [kind EXCEPT ![r] = k]

EnterScope(f) ==
    /\ Active(f)
    /\ \E r \in Records : PushFrame(f, "Block", r)
    /\ ClearLookupCaches(f)
    /\ UNCHANGED <<base, recordVars, scheduleVars, answer>>

\* TryStart, entering its catch part: push_frame, then define_catch_param
\* with a name or with a slot (a catch without parameter is EnterScope's).
EnterCatchName(f, n, v) ==
    /\ Active(f)
    /\ \E r \in Records : PushFrame(f, "Catch", r) /\ Bind(r, n, v)
    /\ name_cache' = [name_cache EXCEPT ![f] = [NoNames EXCEPT ![n] = Depth(f) + 1]]
    /\ slot_cache' = [slot_cache EXCEPT ![f] = NoSlots]
    /\ UNCHANGED <<base, slot_values, scheduleVars, answer>>

EnterCatchSlot(f, s, v) ==
    /\ Active(f)
    /\ \E r \in Records : PushFrame(f, "Catch", r) /\ BindSlot(r, s, v)
    /\ name_cache' = [name_cache EXCEPT ![f] = NoNames]
    /\ slot_cache' = [slot_cache EXCEPT ![f] =
                        IF s \in FastSlots THEN [NoSlots EXCEPT ![s] = Depth(f) + 1]
                        ELSE NoSlots]
    /\ UNCHANGED <<base, bindings, scheduleVars, answer>>

\* truncate_to_depth: LeaveScope and the end of a catch part drop one scope
\* frame, a jump, a throw or the end of a range drops several.  Bytecode
\* enters and leaves scopes in pairs, so the frame pushed by the call stays.
TruncateToDepth(f, depth) ==
    /\ Active(f)
    /\ depth \in (base[f] + 1)..(Depth(f) - 1)
    /\ frames' = [frames EXCEPT ![f] = SubSeq(@, 1, depth)]
    /\ ClearLookupCaches(f)
    /\ UNCHANGED <<base, kind, recordVars, scheduleVars, answer>>

-----------------------------------------------------------------------------
(* Bindings by name.                                                       *)

\* Mutant: an assignment always binds in the current frame.
DefineCurrentAlways(f, n, v) ==
    Bind(Current(frames[f]), n, v) /\ CacheName(f, n, Depth(f))

\* set_or_define_current: the innermost holder, else the current frame.
SetOrDefineCurrent(f, n, v) ==
    \E i \in 1..Depth(f) :
        /\ LET holders == NameHolders(bindings, frames[f], n)
           IN  IF holders = {} THEN i = Depth(f) ELSE IsInnermost(holders, i)
        /\ Bind(frames[f][i], n, v)
        /\ CacheName(f, n, i)

LoadName(f, n) ==
    /\ Active(f)
    /\ \E i \in 0..Depth(f) :
         /\ Finds(f, n, i)
         /\ answer' = [key |-> n, value |-> IF i = 0 THEN Unbound
                                            ELSE bindings[frames[f][i]][n]]
         /\ IF i = 0 THEN UNCHANGED name_cache ELSE CacheName(f, n, i)
    /\ UNCHANGED <<envVars, recordVars, slot_cache, scheduleVars>>

StoreName(f, n, v) ==
    /\ Active(f)
    /\ SetOrDefineCurrent(f, n, v)
    /\ UNCHANGED <<envVars, slot_values, slot_cache, scheduleVars, answer>>

\* Declare of a let, const or class: define_current_if_absent.
DeclareName(f, n) ==
    /\ Active(f)
    /\ LET r == Current(frames[f])
       IN  Bind(r, n, IfAbsent(bindings[r][n], Undefined))
    /\ CacheName(f, n, Depth(f))
    /\ UNCHANGED <<envVars, slot_values, slot_cache, scheduleVars, answer>>

\* Mutant: the name cache survives a var that is hoisted.
DeclareVarNameKeepingCache(f, n) ==
    /\ Active(f)
    /\ \E b \in 1..Depth(f) :
         /\ Boundary(f, b)
         /\ LET r == frames[f][b]
            IN  Bind(r, n, IfAbsent(bindings[r][n], Undefined))
    /\ UNCHANGED <<envVars, slot_values, cacheVars, scheduleVars, answer>>

\* Declare of a var: define_var_if_absent, which empties the name cache.
DeclareVarName(f, n) ==
    /\ Active(f)
    /\ \E b \in 1..Depth(f) :
         /\ Boundary(f, b)
         /\ LET r == frames[f][b]
            IN  Bind(r, n, IfAbsent(bindings[r][n], Undefined))
    /\ name_cache' = [name_cache EXCEPT ![f] = NoNames]
    /\ UNCHANGED <<envVars, slot_values, slot_cache, scheduleVars, answer>>

-----------------------------------------------------------------------------
(* Bindings by slot.                                                       *)

\* Mutant: no default for a slot that no frame holds.
LoadSlotNoDefault(f, s) ==
    /\ Active(f)
    /\ \E b \in 1..Depth(f), i \in 0..Depth(f) :
         /\ Boundary(f, b)
         /\ FindsSlot(f, s, b, i)
         /\ answer' = [key |-> s, value |-> IF i = 0 THEN Unbound
                                            ELSE slot_values[frames[f][i]][s]]
         /\ IF i = 0 THEN UNCHANGED slot_cache ELSE CacheSlot(f, s, i)
    /\ UNCHANGED <<envVars, recordVars, name_cache, scheduleVars>>

LoadSlot(f, s) ==
    /\ Active(f)
    /\ \E b \in 1..Depth(f), i \in 0..Depth(f) :
         /\ Boundary(f, b)
         /\ FindsSlot(f, s, b, i)
         /\ answer' = [key |-> s, value |-> IF i = 0 THEN Undefined
                                            ELSE slot_values[frames[f][i]][s]]
         /\ IF i = 0 THEN UNCHANGED slot_cache ELSE CacheSlot(f, s, i)
    /\ UNCHANGED <<envVars, recordVars, name_cache, scheduleVars>>

\* Mutant: set_slot forgets the scan when the cache misses.
StoreSlotUnscanned(f, s, v) ==
    /\ Active(f)
    /\ LET target == IF SlotHit(f, s) THEN slot_cache[f][s] ELSE Depth(f)
       IN  BindSlot(frames[f][target], s, v) /\ CacheSlot(f, s, target)
    /\ UNCHANGED <<envVars, bindings, name_cache, scheduleVars, answer>>

\* set_slot: the frame found, else the current frame.
StoreSlot(f, s, v) ==
    /\ Active(f)
    /\ \E b \in 1..Depth(f), i \in 0..Depth(f) :
         /\ Boundary(f, b)
         /\ FindsSlot(f, s, b, i)
         /\ LET target == IF i = 0 THEN Depth(f) ELSE i
            IN  BindSlot(frames[f][target], s, v) /\ CacheSlot(f, s, target)
    /\ UNCHANGED <<envVars, bindings, name_cache, scheduleVars, answer>>

\* Mutant: a let that shadows a slot leaves the cache alone.
DeclareSlotUncached(f, s) ==
    /\ Active(f)
    /\ LET r == Current(frames[f])
       IN  BindSlot(r, s, IfAbsent(slot_values[r][s], Undefined))
    /\ UNCHANGED <<envVars, bindings, cacheVars, scheduleVars, answer>>

DeclareSlot(f, s) ==
    /\ Active(f)
    /\ LET r == Current(frames[f])
       IN  BindSlot(r, s, IfAbsent(slot_values[r][s], Undefined))
    /\ CacheSlot(f, s, Depth(f))
    /\ UNCHANGED <<envVars, bindings, name_cache, scheduleVars, answer>>

\* define_var_slot_if_absent caches the boundary, whether or not a frame
\* further in holds the slot.  The locals of a function get one slot per
\* name, so that happens in one case only: a var that redeclares the
\* parameter of a catch it stands in.
DeclareVarSlot(f, s) ==
    /\ Active(f)
    /\ \E b \in 1..Depth(f) :
         /\ Boundary(f, b)
         /\ \A i \in SlotHolders(slot_values, frames[f], b + 1, s) :
              CatchVar /\ kind[frames[f][i]] = "Catch"
         /\ LET r == frames[f][b]
            IN  BindSlot(r, s, IfAbsent(slot_values[r][s], Undefined))
         /\ CacheSlot(f, s, b)
    /\ UNCHANGED <<envVars, bindings, name_cache, scheduleVars, answer>>

-----------------------------------------------------------------------------
(* Functions.                                                              *)

\* FunctionExprStart: the function value keeps a clone of the environment.
CreateFunction(f) ==
    /\ Active(f)
    /\ captured' = captured \cup {frames[f]}
    /\ UNCHANGED <<envVars, recordVars, cacheVars, stack, suspended, generatorVars, answer>>

\* FunctionStart, which binds the function value as well.
DeclareFunction(f, n, v) ==
    /\ Active(f)
    /\ captured' = captured \cup {frames[f]}
    /\ SetOrDefineCurrent(f, n, v)
    /\ UNCHANGED <<envVars, slot_values, slot_cache, stack, suspended, generatorVars, answer>>

\* A free frame, and what it runs: itself, or a generator that has not begun.
\* resume_generator makes the environment of the generator first and runs in
\* a clone of it.
Begins(f, o) ==
    /\ frames[f] = <<>> /\ f = CHOOSE g \in Frames : frames[g] = <<>>
    /\ o = f \/ ("yield" \in Suspends /\ o \in Generators \ done /\ frames[o] = <<>>)

\* Mutant: the frame of a call is pushed as a block.
EnterFunctionAsBlock(f, o, chain, r, S, v) ==
    /\ Begins(f, o)
    /\ chain \in captured
    /\ Fresh(r) /\ r = CHOOSE q \in Records : Fresh(q)
    /\ frames' = [frames EXCEPT ![f] = Append(chain, r), ![o] = Append(chain, r)]
    /\ base' = [base EXCEPT ![f] = Len(chain), ![o] = Len(chain)]
    /\ kind' = [kind EXCEPT ![r] = "Block"]
    /\ slot_values' = [slot_values EXCEPT ![r] =
                         [s \in Slots |-> IF s \in S THEN v ELSE Unbound]]
    /\ slot_cache' = [slot_cache EXCEPT ![f] =
                        [s \in Slots |-> IF o = f /\ s \in S \cap FastSlots
                                         THEN Len(chain) + 1 ELSE 0]]
    /\ stack' = Append(stack, f)
    /\ owner' = [owner EXCEPT ![f] = o]
    /\ UNCHANGED <<suspended, done, shared, answer>>

\* The part of execute_function_frame and of the first next of a generator
\* that calls share: frame f clones the chain of a function value and pushes
\* a Function frame r.  The names in P (this, arguments, the function's own
\* name, captured parameters) and the slots in S (FUNCTION_THIS_SLOT, the
\* other parameters) are bound in it, and cached unless f runs in a clone.
EnterFunction(f, o, chain, r, S, v) ==
    /\ Begins(f, o)
    /\ chain \in captured
    /\ Fresh(r) /\ r = CHOOSE q \in Records : Fresh(q)
    /\ frames' = [frames EXCEPT ![f] = Append(chain, r), ![o] = Append(chain, r)]
    /\ base' = [base EXCEPT ![f] = Len(chain), ![o] = Len(chain)]
    /\ kind' = [kind EXCEPT ![r] = "Function"]
    /\ slot_values' = [slot_values EXCEPT ![r] =
                         [s \in Slots |-> IF s \in S THEN v ELSE Unbound]]
    /\ slot_cache' = [slot_cache EXCEPT ![f] =
                        [s \in Slots |-> IF o = f /\ s \in S \cap FastSlots
                                         THEN Len(chain) + 1 ELSE 0]]
    /\ stack' = Append(stack, f)
    /\ owner' = [owner EXCEPT ![f] = o]
    /\ UNCHANGED <<suspended, done, shared, answer>>

\* A call by the active frame, or by the host when the stack is empty.
Call(f, o, chain, P, S, v) ==
    \E r \in Records :
        /\ EnterFunction(f, o, chain, r, S, v)
        /\ bindings' = [bindings EXCEPT ![r] =
                          [n \in Names |-> IF n \in P THEN v ELSE Unbound]]
        /\ name_cache' = [name_cache EXCEPT ![f] =
                            [n \in Names |-> IF o = f /\ n \in P THEN Len(chain) + 1 ELSE 0]]
        /\ UNCHANGED captured

\* A call of a function with a function declaration h in its body:
\* hoist_function_declarations binds h before the first instruction, with
\* set_or_define_current, and h captures the new environment.
CallHoisting(f, o, chain, P, S, v, h, w) ==
    \E r \in Records, i \in 1..(Len(chain) + 1) :
        /\ EnterFunction(f, o, chain, r, S, v)
        /\ LET holders == NameHolders(bindings, chain, h)
           IN  IF h \in P \/ holders = {} THEN i = Len(chain) + 1
               ELSE IsInnermost(holders, i)
        /\ bindings' = [bindings EXCEPT
                          ![r] = [n \in Names |-> IF n \in P THEN v ELSE Unbound],
                          ![Append(chain, r)[i]][h] = w]
        /\ name_cache' = [name_cache EXCEPT ![f] =
                            [n \in Names |-> IF n = h THEN i
                                             ELSE IF o = f /\ n \in P THEN Len(chain) + 1
                                             ELSE 0]]
        /\ captured' = captured \cup {Append(chain, r)}

\* The active frame ends.
Pop(f) ==
    /\ Active(f)
    /\ stack' = SubSeq(stack, 1, Len(stack) - 1)
    /\ owner' = [owner EXCEPT ![f] = f]
    /\ shared' = shared \ {f}
    /\ ClearLookupCaches(f)
    /\ UNCHANGED <<kind, recordVars, captured, suspended, answer>>

\* Its environment goes back to the generator it runs, whatever another
\* activation has saved there meanwhile; without one it is dropped.
GiveBack(f) ==
    /\ frames' = [frames EXCEPT ![owner[f]] = frames[f], ![f] = <<>>]
    /\ base' = [base EXCEPT ![owner[f]] = base[f], ![f] = 0]

Drop(f) ==
    /\ frames' = [frames EXCEPT ![f] = <<>>]
    /\ base' = [base EXCEPT ![f] = 0]

\* The end of a call, of the module body or of a generator's body.
Return(f) ==
    /\ Pop(f) /\ GiveBack(f)
    /\ done' = done \cup ({owner[f]} \cap Generators)

\* A generator's body ends with a Flow::Throw, which is its end, or with an
\* Err, after which the next activation starts where this one did.
Fail(f) ==
    /\ owner[f] \in Generators
    /\ Pop(f) /\ Drop(f)
    /\ done' \in {done, done \cup {owner[f]}}

\* Flow::Yield of a generator frame.
Yield(f) ==
    /\ owner[f] \in Generators
    /\ Pop(f) /\ GiveBack(f)
    /\ UNCHANGED done

\* resume_generator: a clone of the saved environment, with empty caches,
\* for a generator that is not done.  It may be running.
Resume(f, g) ==
    /\ frames[f] = <<>> /\ f = CHOOSE h \in Frames : frames[h] = <<>>
    /\ g \notin done /\ frames[g] # <<>>
    /\ frames' = [frames EXCEPT ![f] = frames[g]]
    /\ base' = [base EXCEPT ![f] = base[g]]
    /\ stack' = Append(stack, f)
    /\ owner' = [owner EXCEPT ![f] = g]
    /\ shared' = Joined(owner, shared, f, g)
    /\ ClearLookupCaches(f)
    /\ UNCHANGED <<kind, recordVars, captured, suspended, done, answer>>

\* call_generator_return
Close(g) ==
    /\ "yield" \in Suspends /\ g \notin done
    /\ done' = done \cup {g}
    /\ UNCHANGED <<envVars, recordVars, cacheVars, captured, stack, suspended, owner,
                   shared, answer>>

\* Flow::AwaitPending of an async frame; a generator frame may not wait.
Suspend(f) ==
    /\ Active(f)
    /\ f # Main
    /\ "await" \in Suspends /\ owner[f] = f
    /\ stack' = SubSeq(stack, 1, Len(stack) - 1)
    /\ suspended' = [suspended EXCEPT ![f] = "await"]
    /\ UNCHANGED <<envVars, recordVars, cacheVars, captured, generatorVars, answer>>

\* The fulfilled callback of the awaited promise: the event loop runs it on
\* an empty stack, with the very executor that was suspended.
ResumeAwait(f) ==
    /\ suspended[f] = "await"
    /\ stack = <<>>
    /\ stack' = <<f>>
    /\ suspended' = [suspended EXCEPT ![f] = "no"]
    /\ UNCHANGED <<envVars, recordVars, cacheVars, captured, generatorVars, answer>>

-----------------------------------------------------------------------------
ScopeStep(f) ==
    \/ EnterScope(f)
    \/ \E n \in Names, v \in Values : EnterCatchName(f, n, v)
    \/ \E s \in Slots, v \in Values : EnterCatchSlot(f, s, v)
    \/ \E depth \in 1..Depth(f) : TruncateToDepth(f, depth)

NameStep(f) ==
    \E n \in Names :
        \/ LoadName(f, n)
        \/ \E v \in Values : StoreName(f, n, v)
        \/ DeclareName(f, n)
        \/ DeclareVarName(f, n)

SlotStep(f) ==
    \E s \in Slots :
        \/ LoadSlot(f, s)
        \/ \E v \in Values : StoreSlot(f, s, v)
        \/ DeclareSlot(f, s)
        \/ DeclareVarSlot(f, s)

CallStep(f) ==
    \E o \in {f} \cup Generators, chain \in captured,
       P \in SUBSET Names, S \in SUBSET Slots, v \in Values :
        \/ Call(f, o, chain, P, S, v)
        \/ \E h \in Names, w \in Values : CallHoisting(f, o, chain, P, S, v, h, w)

FunctionStep(f) ==
    \/ CreateFunction(f)
    \/ \E n \in Names, v \in Values : DeclareFunction(f, n, v)
    \/ CallStep(f)
    \/ Return(f)

GeneratorStep(f) ==
    \/ Yield(f)
    \/ Fail(f)
    \/ \E g \in Generators : Resume(f, g) \/ Close(g)

SuspendStep(f) == Suspend(f) \/ ResumeAwait(f)

Next ==
    \E f \in Frames :
        \/ ScopeStep(f) \/ NameStep(f) \/ SlotStep(f)
        \/ FunctionStep(f) \/ GeneratorStep(f) \/ SuspendStep(f)

Spec == Init /\ [][Next]_vars

-----------------------------------------------------------------------------
(* Properties.                                                             *)

InUse == captured \cup {frames[x] : x \in {y \in Holders : Alive(y)}}

\* The scope frames form a tree: every chain starts at the one global scope,
\* and a record that two chains share sits at the same index under the same
\* outer scopes in both.  An index cached for a chain is meaningless
\* otherwise: closures, calls, suspended frames and generators all hold clones.
ScopeTree ==
    \A c, d \in InUse :
        /\ \A i \in 1..Len(c) : (kind[c[i]] = "Global") <=> (i = 1)
        /\ \A i \in 1..Len(c), j \in 1..Len(d) :
             c[i] = d[j] => i = j /\ SubSeq(c, 1, i) = SubSeq(d, 1, i)

\* The records two executor frames see through slots are disjoint, running
\* or suspended, recursive or not, unless both are activations of the one
\* generator: numbering the locals of every function from the same small
\* slots is safe only because of it (get_slot never crosses a function
\* boundary).
SlotsPrivate ==
    \A f, g \in Frames : owner[f] # owner[g] /\ Alive(f) /\ Alive(g) =>
        \A b \in 1..Depth(f), c \in 1..Depth(g) :
            Boundary(f, b) /\ Boundary(g, c) =>
                \A i \in b..Depth(f), j \in c..Depth(g) : frames[f][i] # frames[g][j]

\* The slot cache is only ever a shortcut: when get_slot or set_slot takes
\* the cached frame, the scan it skips would have stopped at that frame.
\* Only the activations of a generator whose next was called while it ran
\* may declare slots behind each other's caches.
SlotsInnermost ==
    \A f \in Frames \ shared, s \in Slots :
        \A b \in 1..Depth(f) :
            Boundary(f, b) /\ SlotHit(f, s) =>
                IsInnermost(SlotHolders(slot_values, frames[f], b, s), slot_cache[f][s])

\* The name cache is only ever a shortcut, for every living frame: names are
\* looked up from the current scope outwards, whatever other frames have
\* bound in the scopes they share since the entry was cached.
NamesInnermost ==
    \A f \in Frames, n \in Names :
        NameHit(f, n) =>
            IsInnermost(NameHolders(bindings, frames[f], n), name_cache[f][n])

-----------------------------------------------------------------------------
(* The inductive invariants behind them (proved in LexicalEnv_proofs).     *)

\* The scope frames from base[x] + 1 on were pushed by the executor frame x,
\* or by an activation of the generator x.
OwnFrames(x) == (base[x] + 1)..Depth(x)

\* The first scope frame of its own starts a function (the module body for
\* Main), and the others are blocks.
Shape ==
    \A x \in Holders : Alive(x) =>
        /\ base[x] < Depth(x)
        /\ \A i \in OwnFrames(x) :
             kind[frames[x][i]] \in Boundaries <=> i = base[x] + 1

\* Only records that push_frame has created are in use.
Created ==
    /\ \A chain \in captured : \A i \in 1..Len(chain) : kind[chain[i]] # Unused
    /\ \A x \in Holders : \A i \in 1..Depth(x) : kind[frames[x][i]] # Unused

\* The others hold no bindings.
FreshEmpty ==
    \A r \in Records : Fresh(r) =>
        bindings[r] = EmptyNames /\ slot_values[r] = EmptySlots

\* Another environment holds a record of x's own only if it cloned it, or is
\* of the same generator and holds it at the same index.
Owned ==
    \A x, y \in Holders :
        \A i \in OwnFrames(x), j \in 1..Depth(y) :
            frames[x][i] = frames[y][j] =>
                IF owner[x] = owner[y] THEN i = j ELSE j <= base[y]

\* The stack holds the frames that are alive and not suspended, once each.
Scheduled ==
    /\ \A f \in Frames : Alive(f) /\ suspended[f] = "no"
                         <=> \E i \in 1..Len(stack) : stack[i] = f
    /\ \A i, j \in 1..Len(stack) : stack[i] = stack[j] => i = j
    /\ \A f \in Frames : suspended[f] # "no" => Alive(f) /\ suspended[f] \in Suspends

\* A frame runs itself or a generator that has begun; two frames run the same
\* generator only after a next that found it running.
Activated ==
    /\ \A g \in Generators : owner[g] = g /\ (Alive(g) => "yield" \in Suspends)
    /\ \A f \in Frames : owner[f] # f => /\ Alive(f)
                                         /\ owner[f] \in Generators /\ Alive(owner[f])
    /\ \A f, h \in Frames : f # h /\ owner[f] = owner[h] => f \in shared /\ h \in shared

\* On the stack, a frame that cloned records of f's own runs above f.  It is
\* what suspending a frame breaks, and the name cache relies on.
Nested ==
    \A j, k \in 1..Len(stack) :
        \A i \in OwnFrames(stack[j]), m \in 1..Depth(stack[k]) :
            frames[stack[j]][i] = frames[stack[k]][m] => j <= k

\* A slot that is cached is a fast one; its index is on the near side of the
\* boundary, and if that frame holds the slot then no frame further in does.
SlotShortcut ==
    \A f \in Frames, s \in Slots :
        LET i == slot_cache[f][s]
        IN  i # 0 => /\ s \in FastSlots /\ i \in OwnFrames(f)
                     /\ f \notin shared /\ HasSlot(f, i, s) =>
                          \A j \in OwnFrames(f) : j > i => ~HasSlot(f, j, s)

\* Likewise for names, along the whole chain.
NameShortcut ==
    \A f \in Frames, n \in Names :
        LET i == name_cache[f][n]
        IN  i # 0 => /\ i \in 1..Depth(f)
                     /\ HasName(f, i, n) =>
                          \A j \in 1..Depth(f) : j > i => ~HasName(f, j, n)

\* The caches cannot be observed: with them the environments behave as the
\* scope chains of ScopeChain, which has none.  For the slots of a frame that
\* has run beside another activation of its generator it promises less.
SC == INSTANCE ScopeChain

ScopeChainSpec == SC!Spec

=============================================================================
