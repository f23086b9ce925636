------------------------------ MODULE CallFrames ------------------------------
(***************************************************************************)
(* The activations of the executor (crates/runtime/src/executor.rs): runs  *)
(* of modules, calls of VM functions, calls into the host, the callbacks   *)
(* by which the host comes back, and async frames that are resumed later.  *)
(*                                                                         *)
(* Every run has cells that all of its executors share: call_stack,        *)
(* host_call_depth and execution_budget.  The limits on depth, recursion   *)
(* and steps are enforced through them.  A VM function handed to the host  *)
(* is wrapped in a JS function that keeps the invoker installed at that    *)
(* moment, and with it the cells of the run that installed it.             *)
(*                                                                         *)
(* An action is one instruction, the entry or the end of an activation, or *)
(* an event of the host.  Which functions call which is left open.         *)
(***************************************************************************)
EXTENDS Naturals, SequencesExt

CONSTANTS
    Runs,               \* module runs; each also names its execution_budget cell
    FreshCells,         \* budget cells made for callbacks outside a run
    Functions,          \* VM functions, by the start of their body
    AsyncFunctions,     \* those declared async
    Awaits,             \* the frames that wait for a promise at one time
    None,               \* no run, no function, no frame
    MaxCallDepth,       \* max_call_depth
    MaxRecursive,       \* max_recursive_call_depth
    StepLimits,         \* the max_execution_steps a run may be given
    UsizeMax,           \* usize::MAX, the budget that never runs out
    HostEntries,        \* ways into the host: of "call" and "read"
    AsyncCallbacks      \* TRUE: the host calls back after a run ended

ASSUME CallAssumption ==
    /\ Runs \cap FreshCells = {}
    /\ AsyncFunctions \subseteq Functions
    /\ None \notin Functions \cup Runs
    /\ MaxCallDepth \in Nat \ {0}
    /\ MaxRecursive \in Nat \ {0}
    /\ UsizeMax \in Nat \ {0}
    /\ StepLimits \subseteq 0..(UsizeMax - 1)
    /\ HostEntries \subseteq {"call", "read"}
    /\ AsyncCallbacks \in BOOLEAN

VARIABLES
    native,             \* the activations on the native stack, the last one active
    call_stack,         \* call_stack[r]: bodies of the function frames of run r
    host_call_depth,    \* host_call_depth[r]
    execution_budget,   \* steps left in each budget cell
    limit,              \* the initial budget of run r, 0 before it starts
    invoker,            \* the run whose callback invoker is installed
    wrapped,            \* runs whose invoker some JS function keeps
    awaiting            \* frames parked on a promise

runVars == <<limit, invoker>>
vars == <<native, call_stack, host_call_depth, execution_budget, runVars,
          wrapped, awaiting>>

Cells == Runs \cup FreshCells
VMKinds == {"module", "function", "resumed"}

\* A host activation carries the depth and the cell of the frame that made it.
Activations ==
    [kind : VMKinds \cup HostEntries, run : Runs, fun : Functions \cup {None},
     depth : Nat, cell : Cells]

TypeOK ==
    /\ native \in Seq(Activations)
    /\ call_stack \in [Runs -> Seq(Functions)]
    /\ host_call_depth \in [Runs -> Nat]
    /\ execution_budget \in [Cells -> 0..UsizeMax]
    /\ limit \in [Runs -> 0..UsizeMax]
    /\ invoker \in Runs \cup {None}
    /\ wrapped \subseteq Runs
    /\ awaiting \in [Awaits -> Activations \cup {None}]

-----------------------------------------------------------------------------
Idle == native = <<>>

Top == Last(native)

Running == ~Idle /\ Top.kind \in VMKinds

\* The host has control: from its event loop, or called by the VM.
HostRuns == Idle \/ ~Running

Init ==
    /\ native = <<>>
    /\ call_stack = [r \in Runs |-> <<>>]
    /\ host_call_depth = [r \in Runs |-> 0]
    /\ execution_budget = [c \in Cells |-> 0]
    /\ limit = [r \in Runs |-> 0]
    /\ invoker = None
    /\ wrapped = {}
    /\ awaiting = [p \in Awaits |-> None]

InitialBudget(steps) == IF steps = 0 THEN UsizeMax ELSE steps

\* Mutant: the last step is not told from the ones before.
UntestedStep(c) ==
    execution_budget' =
        [execution_budget EXCEPT ![c] = IF @ = UsizeMax THEN @ ELSE @ - 1]

\* Mutant: the budget is tested but never charged.
UnchargedStep(c) ==
    /\ execution_budget[c] # 0
    /\ UNCHANGED execution_budget

ConsumeStep(c) ==
    /\ execution_budget[c] # 0
    /\ execution_budget' =
         [execution_budget EXCEPT ![c] = IF @ = UsizeMax THEN @ ELSE @ - 1]

\* Mutant: the recursion test alone admits a call.
AdmittedAtAnyDepth(depth, r, f) ==
    Cardinality({i \in DOMAIN call_stack[r] : call_stack[r][i] = f}) < MaxRecursive

\* Mutant: the depth test alone admits a call.
AdmittedRecursing(depth, r, f) == depth < MaxCallDepth

\* The two tests of execute_function_frame, depth being the caller's call_depth.
Admitted(depth, r, f) ==
    /\ depth < MaxCallDepth
    /\ Cardinality({i \in DOMAIN call_stack[r] : call_stack[r][i] = f}) < MaxRecursive

\* A CallStackGuard pushed with the frame, and dropped with it.
EnterFunction(r, f, depth, c) ==
    /\ native' = Append(native, [kind |-> "function", run |-> r, fun |-> f,
                                 depth |-> depth + 1, cell |-> c])
    /\ call_stack' = [call_stack EXCEPT ![r] = Append(@, f)]

\* Mutant: the guard of an async frame is forgotten.
LeaveKeepingGuard ==
    /\ native' = Front(native)
    /\ call_stack' = IF Top.kind = "function" /\ Top.fun \notin AsyncFunctions
                     THEN [call_stack EXCEPT ![Top.run] = Front(@)]
                     ELSE call_stack

LeaveFrame ==
    /\ native' = Front(native)
    /\ call_stack' = IF Top.kind = "function"
                     THEN [call_stack EXCEPT ![Top.run] = Front(@)]
                     ELSE call_stack

\* A VM value that becomes a JS value may hold a function: the JS function that
\* wraps it keeps the invoker installed now.
MayWrap == wrapped' \in {wrapped, wrapped \cup ({invoker} \ {None})}

-----------------------------------------------------------------------------
(* Steps of the VM.  Everything that executes an instruction pays for it;  *)
(* a frame whose budget is 0 can only unwind, since the RangeError is      *)
(* raised again by the first instruction of any catch block it enters.     *)

\* An instruction without effect here, a call refused by Admitted included.
Instruction ==
    /\ Running
    /\ ConsumeStep(Top.cell)
    /\ MayWrap
    /\ UNCHANGED <<native, call_stack, host_call_depth, runVars, awaiting>>

\* A call or construction of f from VM code, with or without a stored bridge.
Call(f) ==
    /\ Running
    /\ ConsumeStep(Top.cell)
    /\ Admitted(Top.depth, Top.run, f)
    /\ EnterFunction(Top.run, f, Top.depth, Top.cell)
    /\ UNCHANGED <<host_call_depth, runVars, wrapped, awaiting>>

\* The end of the body, return, throw and errors leave the frame alike.
Return ==
    /\ Running
    /\ LeaveFrame
    /\ MayWrap
    /\ UNCHANGED <<host_call_depth, execution_budget, runVars, awaiting>>

\* A host function is called or constructed.
HostCall ==
    /\ "call" \in HostEntries
    /\ Running
    /\ ConsumeStep(Top.cell)
    /\ native' = Append(native, [Top EXCEPT !.kind = "call"])
    /\ host_call_depth' = [host_call_depth EXCEPT ![Top.run] = @ + 1]
    /\ MayWrap
    /\ UNCHANGED <<call_stack, runVars, awaiting>>

\* A property of a host object is read: get_member holds no HostCallDepthGuard.
HostRead ==
    /\ "read" \in HostEntries
    /\ Running
    /\ ConsumeStep(Top.cell)
    /\ native' = Append(native, [Top EXCEPT !.kind = "read"])
    /\ UNCHANGED <<call_stack, host_call_depth, runVars, wrapped, awaiting>>

\* An async frame meets a host promise: it is parked and its caller goes on.
Await(p) ==
    /\ Running
    /\ Top.kind = "resumed" \/ Top.fun \in AsyncFunctions
    /\ awaiting[p] = None
    /\ ConsumeStep(Top.cell)
    /\ awaiting' = [awaiting EXCEPT ![p] = [Top EXCEPT !.kind = "resumed"]]
    /\ LeaveFrame
    /\ UNCHANGED <<host_call_depth, runVars, wrapped>>

-----------------------------------------------------------------------------
(* Steps of the host.                                                      *)

\* A module run, started by the page or by a host function the VM called.
Run(r, steps) ==
    /\ HostRuns
    /\ limit[r] = 0
    /\ limit' = [limit EXCEPT ![r] = InitialBudget(steps)]
    /\ execution_budget' = [execution_budget EXCEPT ![r] = InitialBudget(steps)]
    /\ invoker' = r
    /\ native' = Append(native, [kind |-> "module", run |-> r, fun |-> None,
                                 depth |-> 0, cell |-> r])
    /\ UNCHANGED <<call_stack, host_call_depth, wrapped, awaiting>>

\* The host function at nesting n returns or throws.
HostReturn(n) ==
    /\ ~Idle /\ ~Running
    /\ Len(native) = n
    /\ native' = Front(native)
    /\ host_call_depth' = IF Top.kind = "call"
                          THEN [host_call_depth EXCEPT ![Top.run] = @ - 1]
                          ELSE host_call_depth
    /\ UNCHANGED <<call_stack, execution_budget, runVars, wrapped, awaiting>>

\* Mutant: only function frames count as activity of the run.
DuringFunction(r) == call_stack[r] # <<>>

\* The invoker of run r takes the callback for a synchronous one.
DuringRun(r) == call_stack[r] # <<>> \/ host_call_depth[r] > 0

\* A cell nobody holds any more stands for a newly allocated one.
NewCell(c) ==
    /\ c \in FreshCells
    /\ \A i \in DOMAIN native : native[i].cell # c
    /\ \A p \in Awaits : awaiting[p] # None => awaiting[p].cell # c

CallbackCell(r, c) == IF DuringRun(r) THEN c = r ELSE NewCell(c)

\* Mutant: the callback executor keeps the call_depth it was made with.
DepthOfNewExecutor(r) == 0

CallbackDepth(r) == Len(call_stack[r])

\* Mutant: the budget is set again for a synchronous callback too.
ResetBudget(r, c) == execution_budget' = [execution_budget EXCEPT ![c] = limit[r]]

CallbackBudget(r, c) ==
    execution_budget' = IF DuringRun(r) THEN execution_budget
                        ELSE [execution_budget EXCEPT ![c] = limit[r]]

\* The host calls a JS function that wraps f and keeps the invoker of run r.
Callback(r, f, c) ==
    /\ HostRuns
    /\ Idle => AsyncCallbacks
    /\ r \in wrapped
    /\ CallbackCell(r, c)
    /\ Admitted(CallbackDepth(r), r, f)
    /\ CallbackBudget(r, c)
    /\ EnterFunction(r, f, CallbackDepth(r), c)
    /\ UNCHANGED <<host_call_depth, runVars, wrapped, awaiting>>

\* The promise is fulfilled: the parked executor goes on as it was, with its
\* call_depth and its budget, but without an entry on the call stack.
Resume(p) ==
    /\ Idle
    /\ awaiting[p] # None
    /\ native' = <<awaiting[p]>>
    /\ awaiting' = [awaiting EXCEPT ![p] = None]
    /\ UNCHANGED <<call_stack, host_call_depth, execution_budget, runVars, wrapped>>

\* The promise is rejected: the frame is dropped without running again.
Reject(p) ==
    /\ Idle
    /\ awaiting[p] # None
    /\ awaiting' = [awaiting EXCEPT ![p] = None]
    /\ UNCHANGED <<native, call_stack, host_call_depth, execution_budget,
                   runVars, wrapped>>

-----------------------------------------------------------------------------
VMStep ==
    \/ Instruction
    \/ \E f \in Functions : Call(f)
    \/ Return
    \/ HostCall
    \/ HostRead
    \/ \E p \in Awaits : Await(p)

HostStep ==
    \/ \E r \in Runs, steps \in StepLimits : Run(r, steps)
    \/ HostReturn(Len(native))
    \/ \E r \in Runs, f \in Functions, c \in Cells : Callback(r, f, c)
    \/ \E p \in Awaits : Resume(p) \/ Reject(p)

Next == VMStep \/ HostStep

Spec == Init /\ [][Next]_vars

\* The most activations the limits leave room for, see NestingBounded.
MaxNesting == 2 * Cardinality(Runs) * (MaxCallDepth + 1)

(* The interpreter loop runs on, and a host function that is called returns *)
(* whatever callbacks it makes.  Nothing makes the page start a run, call   *)
(* back or settle a promise.                                                *)
Fairness ==
    /\ WF_vars(VMStep)
    /\ \A n \in 1..MaxNesting : SF_vars(HostReturn(n))

FairSpec == Spec /\ Fairness

-----------------------------------------------------------------------------
(* Properties.                                                             *)

\* The function frames of run r among the first n activations of a stack s,
\* and the host calls it is inside of.
FramesOf(s, r, n) == {i \in 1..n : s[i].kind = "function" /\ s[i].run = r}

HostCallsOf(s, r) == {i \in 1..Len(s) : s[i].kind = "call" /\ s[i].run = r}

\* The guards are balanced on every way out of a frame: the call stack of a run
\* lists exactly its function frames that are running, innermost last, and its
\* host_call_depth counts the host calls it is inside of, however runs,
\* callbacks and parked frames interleave.
GuardsBalanced ==
    \A r \in Runs :
        LET frames == FramesOf(native, r, Len(native))
        IN  /\ Len(call_stack[r]) = Cardinality(frames)
            /\ \A i \in frames :
                 call_stack[r][Cardinality(FramesOf(native, r, i))] = native[i].fun
            /\ host_call_depth[r] = Cardinality(HostCallsOf(native, r))

\* No detour through the host, a parked frame or another run lets a run have
\* more function frames than max_call_depth allows.
DepthBounded ==
    \A r \in Runs : Len(call_stack[r]) <= MaxCallDepth

\* Nor more frames of one function than max_recursive_call_depth.
RecursionBounded ==
    \A r \in Runs, f \in Functions :
        Cardinality({i \in DOMAIN call_stack[r] : call_stack[r][i] = f}) <= MaxRecursive

\* The native stack is bounded too, host functions and resumed frames included.
NestingBounded == Len(native) <= MaxNesting

\* A callback the host makes while it is called by run r, through an invoker of
\* r, is paid from the budget of its caller or from that of the run: going
\* through the host never yields new steps.
NoStepsFromTheHost ==
    \A i \in 2..Len(native) :
        /\ native[i].kind = "function"
        /\ native[i].run = native[i - 1].run
        => native[i].cell \in {native[i - 1].cell, native[i].run}

InUse(c) ==
    \/ \E i \in DOMAIN native : native[i].cell = c
    \/ \E p \in Awaits : awaiting[p] # None /\ awaiting[p].cell = c

\* A budget some frame runs on, or waits to run on, is never filled up again.
NeverRefilled ==
    [][\A c \in Cells : execution_budget'[c] > execution_budget[c] => ~InUse(c)]_vars

\* Whatever loops the program makes, through callbacks or not, the host gets
\* control back, unless a run was started without a step limit.
Terminates ==
    ~Idle ~> Idle \/ \E r \in Runs : limit[r] = UsizeMax

-----------------------------------------------------------------------------
(* The parts of the inductive invariant behind DepthBounded and            *)
(* NoStepsFromTheHost, see CallFrames_proofs.                              *)

\* Only runs that were started own activations, parked frames and invokers.
Started ==
    /\ \A i \in DOMAIN native : limit[native[i].run] # 0
    /\ \A p \in Awaits : awaiting[p] # None =>
         awaiting[p].kind = "resumed" /\ limit[awaiting[p].run] # 0
    /\ \A r \in wrapped \cup ({invoker} \ {None}) : limit[r] # 0

\* The counters of a run agree with the native stack.
Counted ==
    \A r \in Runs :
        /\ Len(call_stack[r]) = Cardinality(FramesOf(native, r, Len(native)))
        /\ host_call_depth[r] = Cardinality(HostCallsOf(native, r))

\* The call_depth of a frame is at least the number of frames its run had when
\* it was entered: a resumed frame counts more than there are, none counts less.
Covered ==
    \A i \in DOMAIN native :
        native[i].depth >= Cardinality(FramesOf(native, native[i].run, i))

(* And the parts behind NestingBounded. *)

\* A run is started once, and its parked frames go on only when nothing runs.
OneBase ==
    \A i, j \in DOMAIN native :
        /\ native[i].run = native[j].run
        /\ native[i].kind \in {"module", "resumed"}
        /\ native[j].kind \in {"module", "resumed"}
        => i = j

\* Only a frame of the VM calls into the host.
CalledByVM ==
    \A i \in DOMAIN native :
        native[i].kind \in HostEntries => i > 1 /\ native[i - 1].kind \in VMKinds

(* And the part behind NeverRefilled. *)

\* The cell of a run is used only after the run was started.
CellsStarted ==
    /\ \A i \in DOMAIN native : native[i].cell \in Runs => limit[native[i].cell] # 0
    /\ \A p \in Awaits : awaiting[p] # None /\ awaiting[p].cell \in Runs =>
         limit[awaiting[p].cell] # 0

CallInv == TypeOK /\ Started /\ Counted /\ Covered /\ DepthBounded

=============================================================================
