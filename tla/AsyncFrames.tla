----------------------------- MODULE AsyncFrames -----------------------------
(***************************************************************************)
(* Async functions as the executor runs them                               *)
(* (crates/runtime/src/executor.rs, call_async_function to                 *)
(* async_resume_promise, await_value and BytecodeOp::Await).               *)
(*                                                                         *)
(* A call runs at once, in the native stack of its caller.  If it ends     *)
(* there the caller is given a thenable around its value.  If it awaits a  *)
(* promise of the host, its frame is moved into a callback of the promise  *)
(* and the caller is given a new promise.  The callback runs the frame on, *)
(* and every further wait makes a further promise, which the one before is *)
(* resolved with.  Promises and their jobs are the host's.                 *)
(***************************************************************************)
EXTENDS Naturals, Sequences

CONSTANTS
    Frames,             \* calls of async functions, over a whole run
    HostPromises,       \* promises that the host makes by itself
    Functions,          \* async functions
    Variables,          \* variables (registers) of each frame
    Body,               \* the instructions of each function
    Scripts,            \* sequences of functions that the host or the script calls
    None,               \* no frame, function or promise
    Undefined, Module,  \* data: undefined, and what an import gives
    MaxWaits            \* bound of the model: how often a frame waits

VARIABLES
    frame,              \* Executor, of a call that goes on or waits
    stack,              \* the frames that are run, each called by the one before
    promise,            \* the promises, as the host keeps them
    script              \* the functions that are still to be called

vars == <<frame, stack, promise, script>>

Waits == 1..MaxWaits
\* The promise of a frame's n-th wait.
Outer == Frames \X Waits
Promises == HostPromises \cup Outer

Instructions ==
    [op : {"ask", "import", "await", "return", "throw"}, var : Variables]
        \cup [op : {"call"}, var : Variables, callee : Functions]

ASSUME AsyncAssumption ==
    /\ MaxWaits \in Nat \ {0}
    /\ HostPromises \cap Outer = {}
    /\ None \notin Functions \cup Frames \cup Promises
    /\ Body \in [Functions -> Seq(Instructions)]
    /\ Scripts \subseteq Seq(Functions)

-----------------------------------------------------------------------------
(* Values.                                                                 *)

Datum(d) == <<"datum", d>>
Promise(q) == <<"promise", q>>
\* async_resolved_value.  The frame it comes from is of no effect.
Resolved(value, f) == <<"resolved", value, f>>
\* A thenable that carries __js_vm_async_resolved: only imports are such.
Marked(value) == <<"marked", value>>

\* Mutant: an import is not unwrapped.
AwaitNothing(value) == value

\* await_value, of anything but a promise.  The thenables of async_resolved_value are
\* objects of the host (value.rs), so the test for a VM object never finds one, and
\* they do not carry the mark.
AwaitValue(value) == IF value[1] = "marked" THEN value[2] ELSE value

Unmade == [is |-> "none"]
Unsettled == [is |-> "pending"]
Rejected == [is |-> "rejected"]

\* Mutant: a thenable is not asked for its value.
ResolvedAtOnce(value) == [is |-> "fulfilled", value |-> value]

\* What a promise becomes that is resolved with a value.
ResolvedWith(value) ==
    [is |-> IF value[1] = "datum" THEN "fulfilled" ELSE "locked", value |-> value]

-----------------------------------------------------------------------------
NoFrame ==
    [fn |-> None, pc |-> 1, variables |-> [x \in Variables |-> Datum(Undefined)],
     waits |-> 0, on |-> None, failed |-> None, result |-> <<"going">>]

Init ==
    /\ frame = [f \in Frames |-> NoFrame]
    /\ stack = <<>>
    /\ promise = [q \in Promises |-> Unmade]
    /\ script \in Scripts

Top == stack[Len(stack)]
Below == SubSeq(stack, 1, Len(stack) - 1)
Caller == stack[Len(stack) - 1]

\* The frame on top goes on and is about to do op.
At(op) ==
    /\ stack # <<>> /\ frame[Top].failed = None
    /\ frame[Top].pc \in DOMAIN Body[frame[Top].fn]
    /\ Body[frame[Top].fn][frame[Top].pc].op = op
Instruction == Body[frame[Top].fn][frame[Top].pc]
Value == frame[Top].variables[Instruction.var]

\* The frame f, past its instruction.
Past(f) == [frame[f] EXCEPT !.pc = @ + 1]
PastWith(f, value) == [Past(f) EXCEPT !.variables[Instruction.var] = value]

\* The instruction that f did last.
LastOf(f) == Body[frame[f].fn][frame[f].pc - 1]

-----------------------------------------------------------------------------
(* Ways out of the frame on top.                                           *)

\* It was called, not resumed, and not by the script.
HasCaller == frame[Top].waits = 0 /\ Len(stack) > 1

\* A caller is given value as the result of its call.
Given(value) ==
    IF HasCaller
    THEN [frame EXCEPT ![Caller].variables[LastOf(Caller).var] = value]
    ELSE frame

\* Mutant: the promise before is left alone.
SettleFirst(state) == promise

\* Whoever has the promise of a resumed frame is told.
Settle(state) ==
    IF frame[Top].waits = 0 THEN promise
    ELSE [promise EXCEPT ![<<Top, frame[Top].waits>>] = state]

\* async_flow_to_value and async_resume_result_to_js, Flow::Value and Flow::Return
Leave(value) ==
    /\ frame' = [Given(Resolved(value, Top)) EXCEPT ![Top].result = <<"returned", value>>]
    /\ promise' = Settle(ResolvedWith(value))
    /\ stack' = Below /\ UNCHANGED script

\* Flow::Throw and Err: the caller fails too, or the promise is rejected.
LeaveFailing ==
    /\ frame' = IF HasCaller
                THEN [frame EXCEPT ![Top].result = <<"failed">>, ![Caller].failed = Top]
                ELSE [frame EXCEPT ![Top].result = <<"failed">>]
    /\ promise' = Settle(Rejected)
    /\ stack' = Below /\ UNCHANGED script

\* Flow::AwaitPending: async_resume_promise_from_frame
Suspend ==
    /\ At("await") /\ Value[1] = "promise" /\ frame[Top].waits < MaxWaits
    /\ LET q == <<Top, frame[Top].waits + 1>>
       IN  /\ frame' = [Given(Promise(q)) EXCEPT
                ![Top] = [Past(Top) EXCEPT !.waits = @ + 1, !.on = Value[2]]]
           /\ promise' = [Settle(ResolvedWith(Promise(q))) EXCEPT ![q] = Unsettled]
    /\ stack' = Below /\ UNCHANGED script

-----------------------------------------------------------------------------
(* The frame on top.                                                       *)

Enter(fn) == [NoFrame EXCEPT !.fn = fn]

\* Bound of the model: there are no more calls than frames.
Fresh == CHOOSE f \in Frames : frame[f] = NoFrame
HasFresh == \E f \in Frames : frame[f] = NoFrame

\* The script, or a callback of the host, calls an async function.
Start ==
    /\ stack = <<>> /\ script # <<>> /\ HasFresh
    /\ frame' = [frame EXCEPT ![Fresh] = Enter(Head(script))]
    /\ stack' = <<Fresh>>
    /\ script' = Tail(script)
    /\ UNCHANGED promise

\* call_async_function
Call ==
    /\ At("call") /\ HasFresh
    /\ frame' = [frame EXCEPT ![Fresh] = Enter(Instruction.callee), ![Top] = Past(Top)]
    /\ stack' = Append(stack, Fresh)
    /\ UNCHANGED <<promise, script>>

Goes(value) ==
    /\ frame' = [frame EXCEPT ![Top] = PastWith(Top, value)]
    /\ UNCHANGED <<stack, script>>

\* A function of the host makes a promise.
FreshPromise == CHOOSE p \in HostPromises : promise[p].is = "none"
Ask ==
    /\ At("ask") /\ \E p \in HostPromises : promise[p].is = "none"
    /\ promise' = [promise EXCEPT ![FreshPromise] = Unsettled]
    /\ Goes(Promise(FreshPromise))

Import == At("import") /\ Goes(Marked(Datum(Module))) /\ UNCHANGED promise

Await ==
    /\ At("await") /\ Value[1] # "promise"
    /\ Goes(AwaitValue(Value))
    /\ UNCHANGED promise

Return == At("return") /\ Leave(Value)
RunOff ==
    /\ stack # <<>> /\ frame[Top].failed = None
    /\ frame[Top].pc \notin DOMAIN Body[frame[Top].fn]
    /\ Leave(Datum(Undefined))
Fail == (At("throw") \/ (stack # <<>> /\ frame[Top].failed # None)) /\ LeaveFailing

-----------------------------------------------------------------------------
(* Jobs of the host.  None is run while the VM runs.                       *)

\* on_fulfilled
Resume(f) ==
    /\ stack = <<>> /\ frame[f].on # None /\ promise[frame[f].on].is = "fulfilled"
    /\ frame' = [frame EXCEPT
        ![f].on = None, ![f].variables[LastOf(f).var] = promise[frame[f].on].value]
    /\ stack' = <<f>>
    /\ UNCHANGED <<promise, script>>

\* Mutant: the promise of the frame is resolved with nothing.
RejectedWithNothing(f) == ResolvedWith(Datum(Undefined))

\* What becomes of the promise of f when the one it waits for is rejected.
OnRejected(f) == Rejected

\* on_rejected: the frame is dropped.
Reject(f) ==
    /\ stack = <<>> /\ frame[f].on # None /\ promise[frame[f].on].is = "rejected"
    /\ frame' = [frame EXCEPT ![f].on = None, ![f].result = <<"failed">>]
    /\ promise' = [promise EXCEPT ![<<f, frame[f].waits>>] = OnRejected(f)]
    /\ UNCHANGED <<stack, script>>

\* A promise that was resolved with a promise or a thenable takes over its value.
\* then of the thenable is AsyncResolved.then, which calls back with what it holds.
Adopt(q) ==
    /\ stack = <<>> /\ promise[q].is = "locked"
    /\ LET value == promise[q].value
       IN  \/ /\ value[1] \in {"resolved", "marked"}
              /\ promise' = [promise EXCEPT ![q] = ResolvedWith(value[2])]
           \/ /\ value[1] = "promise" /\ promise[value[2]].is \in {"fulfilled", "rejected"}
              /\ promise' = [promise EXCEPT ![q] = promise[value[2]]]
    /\ UNCHANGED <<frame, stack, script>>

HostSettles(p) ==
    /\ stack = <<>> /\ promise[p].is = "pending"
    /\ \E state \in {ResolvedWith(Datum(p)), Rejected} :
        promise' = [promise EXCEPT ![p] = state]
    /\ UNCHANGED <<frame, stack, script>>

Runs == Call \/ Ask \/ Import \/ Await \/ Suspend \/ Return \/ RunOff \/ Fail
Next ==
    \/ Start \/ Runs
    \/ \E f \in Frames : Resume(f) \/ Reject(f)
    \/ \E q \in Outer : Adopt(q)
    \/ \E p \in HostPromises : HostSettles(p)

Spec == Init /\ [][Next]_vars

\* The host does not idle while it has a job, the VM while it has a frame, and promises
\* of the host are settled at some time.  Nothing is done for ever (no body has a
\* loop), so that it does not matter which of them comes first.
FairSpec == Spec /\ WF_vars(Next)

-----------------------------------------------------------------------------
(* Properties.                                                             *)

TypeOK ==
    /\ \A f \in Frames :
        /\ frame[f].fn \in Functions \cup {None} /\ frame[f].waits \in 0..MaxWaits
        /\ frame[f].on \in Promises \cup {None} /\ frame[f].failed \in Frames \cup {None}
        /\ frame[f].fn # None => frame[f].pc \in 1..(Len(Body[frame[f].fn]) + 1)
    /\ stack \in Seq(Frames)
    /\ \A q \in Promises :
        promise[q].is \in {"none", "pending", "locked", "fulfilled", "rejected"}
    /\ \A q \in Promises : promise[q].is = "fulfilled" => promise[q].value[1] = "datum"

\* The values as AsyncFunctions has them: what a call made stands for the call.
Seen(value) ==
    CASE value[1] = "datum" -> value
      [] value[1] = "marked" -> <<"import">>
      [] value[1] = "resolved" -> <<"call", value[3]>>
      [] value[1] = "promise" ->
            IF value[2] \in HostPromises THEN <<"host", value[2]>>
            ELSE <<"call", value[2][1]>>

\* The frame that f has called and is not done with.
Callees(f) ==
    {stack[k + 1] : k \in {k \in 1..(Len(stack) - 1) : stack[k] = f}}
        \cup ({frame[f].failed} \ {None})
SeenVariable(f, x) ==
    IF frame[f].result # <<"going">> THEN Datum(Undefined)
    ELSE IF Callees(f) # {} /\ x = LastOf(f).var
    THEN <<"call", CHOOSE d \in Callees(f) : TRUE>>
    ELSE Seen(frame[f].variables[x])
SeenResult(result) ==
    IF result[1] = "returned" THEN [is |-> "returned", value |-> Seen(result[2])]
    ELSE [is |-> result[1]]

\* A frame that waits is still at its await.
SeenPosition(f) ==
    IF frame[f].result # <<"going">> THEN 1
    ELSE IF frame[f].on = None THEN frame[f].pc ELSE frame[f].pc - 1

SeenCode == [f \in Frames |-> frame[f].fn]
SeenPositions == [f \in Frames |-> SeenPosition(f)]
SeenVariables == [f \in Frames |-> [x \in Variables |-> SeenVariable(f, x)]]
SeenResults == [f \in Frames |-> SeenResult(frame[f].result)]
SeenHosts == [p \in HostPromises |-> promise[p].is]

SeenCalls == INSTANCE AsyncFunctions WITH
    Calls <- Frames,
    code <- SeenCode,
    position <- SeenPositions,
    variables <- SeenVariables,
    result <- SeenResults,
    host <- SeenHosts

\* However the frames wait for the host and for each other, in whatever order promises
\* are settled, each goes on from its await exactly once, with the value awaited, and
\* ends or fails as its body says: if no function ends before its first wait and has
\* its call awaited (await_value gives the thenable itself).
AsyncFunctionsSpec == SeenCalls!Spec

\* What has the promise of a call is told what became of the call, through the chain
\* of promises that the waits of the frame made, and through returned ones.
PromisesKept ==
    \A f \in Frames : LET kept == promise[<<f, 1>>] IN
        /\ kept.is = "fulfilled" => SeenCalls!Outcome(<<"call", f>>) = kept.value
        /\ kept.is = "rejected" => SeenCalls!Outcome(<<"call", f>>) = SeenCalls!Rejected

\* Every call is answered: its promise, if it was given one, is settled.
Answered(f) ==
    IF frame[f].waits = 0 THEN frame[f].result # <<"going">>
    ELSE promise[<<f, 1>>].is \in {"fulfilled", "rejected"}
EveryCallAnswered == \A f \in Frames : (frame[f].fn # None) ~> Answered(f)

\* An await that does not wait gives a value, not a thenable (async_resolved_value is
\* a light wrapper around the result, executor.rs:6694, which await_value looks for).
AwaitGivesValues ==
    \A f \in Frames :
        /\ frame[f].fn # None /\ frame[f].on = None /\ frame[f].pc > 1
        /\ LastOf(f).op = "await"
        => frame[f].variables[LastOf(f).var][1] = "datum"

-----------------------------------------------------------------------------
(* The parts of the inductive invariant behind AsyncFunctionsSpec and       *)
(* PromisesKept, see AsyncFrames_proofs.                                    *)

Going(f) == frame[f].fn # None /\ frame[f].result = <<"going">>

\* Where f is, and that it has just done op.
InBody(f) == frame[f].pc \in 1..(Len(Body[frame[f].fn]) + 1)
HasDone(f, op) ==
    /\ frame[f].pc - 1 \in DOMAIN Body[frame[f].fn]
    /\ LastOf(f).op = op

\* A thenable holds what its call returned.
Sound(value) ==
    \/ \E d \in {Undefined, Module} \cup HostPromises : value = Datum(d)
    \/ value = Marked(Datum(Module))
    \/ \E q \in Promises : value = Promise(q) /\ promise[q].is # "none"
    \/ \E f \in Frames :
         frame[f].result[1] = "returned" /\ value = Resolved(frame[f].result[2], f)

FrameSound(f) ==
    /\ DOMAIN frame[f] = {"fn", "pc", "variables", "waits", "on", "failed", "result"}
    /\ DOMAIN frame[f].variables = Variables
    /\ \A x \in Variables : Sound(frame[f].variables[x])
    /\ \/ frame[f].result \in {<<"going">>, <<"failed">>}
       \/ /\ frame[f].result = <<"returned", frame[f].result[2]>>
          /\ Sound(frame[f].result[2])
    /\ frame[f].fn \in Functions \cup {None} /\ frame[f].waits \in 0..MaxWaits
    /\ frame[f].fn # None => InBody(f)
    /\ frame[f].fn = None => frame[f] = NoFrame

PromiseSound(q) ==
    \/ promise[q] \in {Unmade, Unsettled, Rejected}
    \/ promise[q] = ResolvedWith(promise[q].value) /\ Sound(promise[q].value)

\* Where data may be.
DataSound ==
    /\ DOMAIN frame = Frames /\ DOMAIN promise = Promises
    /\ \A f \in Frames : FrameSound(f)
    /\ \A q \in Promises : PromiseSound(q)
    /\ \A p \in HostPromises :
         promise[p] \in {Unmade, Unsettled, Rejected, ResolvedWith(Datum(p))}
    /\ script \in Seq(Functions)

\* The frames on the stack are different ones, that go on; each has just called the
\* next, which has not waited yet, and only the top one can have a call that failed.
FailureSound(f) ==
    frame[f].failed # None =>
        /\ frame[f].failed \in Frames /\ frame[frame[f].failed].result = <<"failed">>
        /\ Going(f) => stack # <<>> /\ f = Top /\ HasDone(f, "call")

StackSound ==
    /\ stack \in Seq(Frames)
    /\ \A i, j \in DOMAIN stack : stack[i] = stack[j] => i = j
    /\ \A i \in DOMAIN stack :
         /\ Going(stack[i]) /\ frame[stack[i]].on = None
         /\ i # 1 => frame[stack[i]].waits = 0
         /\ i # Len(stack) => HasDone(stack[i], "call") /\ frame[stack[i]].failed = None
    /\ \A f \in Frames : FailureSound(f)

\* A frame off the stack that goes on waits, at its await, for the promise it awaits.
WaitSound(f) ==
    /\ Going(f) /\ frame[f].on = None => \E i \in DOMAIN stack : stack[i] = f
    /\ frame[f].on # None =>
         /\ Going(f) /\ HasDone(f, "await") /\ frame[f].waits # 0
         /\ frame[f].on \in Promises /\ promise[frame[f].on].is # "none"
         /\ frame[f].variables[LastOf(f).var] = Promise(frame[f].on)

\* The promises of a frame's waits: each follows the next one, and the last follows
\* what the frame returned, as far as it was unwrapped.
LinkSound(f, n) ==
    LET p == promise[<<f, n>>] IN
    /\ p.is = "none" <=> n > frame[f].waits
    /\ n = frame[f].waits /\ Going(f) => p = Unsettled
    /\ p.is = "locked" =>
         \/ n < frame[f].waits /\ p.value = Promise(<<f, n + 1>>)
         \/ /\ n = frame[f].waits
            /\ \E e \in SeenCalls!AnsweredBy(f) :
                 frame[e].result = <<"returned", p.value>>

\* A promise of a frame that is settled has the outcome of the call.
Keeps(q) ==
    /\ promise[q].is = "fulfilled" =>
         SeenCalls!Outcome(<<"call", q[1]>>) = promise[q].value
    /\ promise[q].is = "rejected" =>
         SeenCalls!Outcome(<<"call", q[1]>>) = SeenCalls!Rejected

WaitsSound == \A f \in Frames : WaitSound(f)
ChainSound == \A f \in Frames, n \in Waits : LinkSound(f, n)
AllKept == \A q \in Outer : Keeps(q)

AsyncInv == DataSound /\ StackSound /\ WaitsSound /\ ChainSound /\ AllKept

\* The frame on top awaits the thenable of a call that did not wait.
AwaitsThenable == At("await") /\ Value[1] = "resolved"

=============================================================================
