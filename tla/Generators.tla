------------------------------ MODULE Generators ------------------------------
(***************************************************************************)
(* Generators as the executor runs them (crates/runtime/src/executor.rs,   *)
(* generator_object to call_generator_return).                             *)
(*                                                                         *)
(* A generator object keeps where its body stopped, its registers and its  *)
(* environment.  next makes an executor out of copies of them and runs it; *)
(* the copies come back when it yields or ends, but not when it fails.     *)
(* The variables in the environment are shared by all copies.  While the   *)
(* body runs it may ask any generator for something, itself included, so   *)
(* the executors form a stack.                                             *)
(***************************************************************************)
EXTENDS Naturals, Sequences, FiniteSets

CONSTANTS
    Generators,         \* generator objects
    Bodies,             \* sequences of the instructions below
    Sent,               \* values that next and return are called with
    Undefined,          \* the value undefined
    MaxCallDepth,       \* max_call_depth
    MaxRecursive,       \* max_recursive_call_depth
    MaxWork             \* bound of the model: how often a body works on its variables

\* A body works on its variables, asks a generator for something, yields, or ends.
Instructions == {"work", "yield", "ask", "return", "throw", "fail"}

ASSUME GeneratorAssumption ==
    /\ Bodies \subseteq Seq(Instructions)
    /\ MaxCallDepth \in Nat /\ MaxRecursive \in Nat /\ MaxWork \in Nat

VARIABLES
    body,               \* __generator_function, or <<>> before the object is there
    saved,              \* GeneratorState
    locals,             \* the variables of the shared environment
    stack,              \* the executors that run a body, the innermost last
    answer,             \* the last answer of each generator
    spoiled             \* of no effect: GeneratorObjects promises nothing any more

vars == <<body, saved, locals, stack, answer, spoiled>>

-----------------------------------------------------------------------------
Item(value) == [kind |-> "item", value |-> value]
Last(value) == [kind |-> "last", value |-> value]
Exception == [kind |-> "exception", value |-> Undefined]

\* generator_object
Fresh ==
    [initialized |-> FALSE, done |-> FALSE, pc |-> 1, waits |-> FALSE,
     register |-> Undefined]

\* An executor; it goes on, asks a generator for something, or was given an exception.
Executor(g, pc, register) == [gen |-> g, pc |-> pc, register |-> register, mode |-> "runs"]

Created(g) == body[g] # <<>>
Running == {stack[k].gen : k \in DOMAIN stack}
Top == stack[Len(stack)]
Below == SubSeq(stack, 1, Len(stack) - 1)
WithTop(executor) == Append(Below, executor)

Init ==
    /\ body = [g \in Generators |-> <<>>] /\ saved = [g \in Generators |-> Fresh]
    /\ locals = [g \in Generators |-> 0]
    /\ stack = <<>>
    /\ answer = [g \in Generators |-> Last(Undefined)] /\ spoiled = {}

Create(g, b) ==
    /\ stack = <<>> /\ ~Created(g)
    /\ body' = [body EXCEPT ![g] = b]
    /\ UNCHANGED <<saved, locals, stack, answer, spoiled>>

-----------------------------------------------------------------------------
(* Calls of next and return.                                               *)

\* The caller is the script, or the body that runs and asks.
MayCall == IF stack = <<>> THEN TRUE ELSE Top.mode = "asks"

\* The caller goes on; one that is given an exception does not.
Given(result, caller) ==
    IF caller = <<>> THEN caller
    ELSE [caller EXCEPT ![Len(caller)].mode =
            IF result = Exception THEN "fails" ELSE "runs"]

Give(g, result, caller) ==
    /\ answer' = [answer EXCEPT ![g] = result]
    /\ stack' = Given(result, caller)

\* The executors that run the same function as g, whichever generator they belong to.
Activations(g) == {k \in DOMAIN stack : body[stack[k].gen] = body[g]}

\* Mutant: one of the limits is not looked at.
AdmittedAtAnyDepth(g) == Cardinality(Activations(g)) < MaxRecursive

\* resume_generator: the limits, for all executors and for those of the same function.
Admitted(g) ==
    /\ Len(stack) < MaxCallDepth
    /\ Cardinality(Activations(g)) < MaxRecursive

Refuse(g) ==
    /\ MayCall /\ Created(g) /\ ~Admitted(g)
    /\ Give(g, Exception, stack)
    /\ UNCHANGED <<body, saved, locals, spoiled>>

AskDone(g) ==
    /\ MayCall /\ Created(g) /\ Admitted(g) /\ saved[g].done
    /\ Give(g, Last(Undefined), stack)
    /\ UNCHANGED <<body, saved, locals, spoiled>>

\* Mutant: the value that is sent is not written where the yield expects it.
ReceivedNothing(g, v) == saved[g].register

\* The register after the value that next was called with is written to it.
Received(g, v) ==
    IF saved[g].initialized /\ saved[g].waits THEN v ELSE saved[g].register

Resume(g, v) ==
    /\ MayCall /\ Created(g) /\ Admitted(g) /\ ~saved[g].done
    /\ saved' = [saved EXCEPT ![g].initialized = TRUE]
    /\ stack' = Append(Given(Last(v), stack), Executor(g, saved[g].pc, Received(g, v)))
    /\ spoiled' = IF g \in Running THEN spoiled \cup {g} ELSE spoiled
    /\ UNCHANGED <<body, locals, answer>>

\* call_generator_return
Close(g, v) ==
    /\ MayCall /\ Created(g)
    /\ saved' = [saved EXCEPT ![g].done = TRUE]
    /\ Give(g, Last(v), stack)
    /\ spoiled' = IF g \in Running THEN spoiled \cup {g} ELSE spoiled
    /\ UNCHANGED <<body, locals>>

-----------------------------------------------------------------------------
(* The body.                                                               *)

AtInstruction(instruction) ==
    /\ stack # <<>> /\ Top.mode = "runs"
    /\ Top.pc \in DOMAIN body[Top.gen] /\ body[Top.gen][Top.pc] = instruction

Work ==
    /\ AtInstruction("work") /\ locals[Top.gen] < MaxWork
    /\ locals' = [locals EXCEPT ![Top.gen] = @ + 1]
    /\ stack' = WithTop([Top EXCEPT !.pc = @ + 1])
    /\ UNCHANGED <<body, saved, answer, spoiled>>

Ask ==
    /\ AtInstruction("ask")
    /\ stack' = WithTop([Top EXCEPT !.pc = @ + 1, !.mode = "asks"])
    /\ UNCHANGED <<body, saved, locals, answer, spoiled>>

Value == <<locals[Top.gen], Top.register>>

\* Mutant: the yield is run again.
SavedAtYield(state, executor) ==
    [state EXCEPT !.pc = executor.pc, !.waits = TRUE, !.register = executor.register]

\* Mutant: the state is made anew from the executor.
SavedAnew(state, executor) ==
    [Fresh EXCEPT !.initialized = TRUE, !.pc = executor.pc + 1, !.waits = TRUE,
                  !.register = executor.register]

\* Flow::Yield
SavedAfterYield(state, executor) ==
    [state EXCEPT !.pc = executor.pc + 1, !.waits = TRUE, !.register = executor.register]

Yield ==
    /\ AtInstruction("yield")
    /\ saved' = [saved EXCEPT ![Top.gen] = SavedAfterYield(@, Top)]
    /\ Give(Top.gen, Item(Value), Below)
    /\ UNCHANGED <<body, locals, spoiled>>

\* Flow::Return and Flow::Value
SavedAtEnd(state, executor) ==
    [state EXCEPT !.done = TRUE, !.pc = Len(body[executor.gen]) + 1, !.waits = FALSE,
                  !.register = executor.register]

Return ==
    /\ AtInstruction("return")
    /\ saved' = [saved EXCEPT ![Top.gen] = SavedAtEnd(@, Top)]
    /\ Give(Top.gen, Last(Value), Below)
    /\ UNCHANGED <<body, locals, spoiled>>

RunOff ==
    /\ stack # <<>> /\ Top.mode = "runs" /\ Top.pc \notin DOMAIN body[Top.gen]
    /\ saved' = [saved EXCEPT ![Top.gen] = SavedAtEnd(@, Top)]
    /\ Give(Top.gen, Last(Undefined), Below)
    /\ UNCHANGED <<body, locals, spoiled>>

\* Flow::Throw
Throw ==
    /\ AtInstruction("throw")
    /\ saved' = [saved EXCEPT ![Top.gen].done = TRUE]
    /\ Give(Top.gen, Exception, Below)
    /\ UNCHANGED <<body, locals, spoiled>>

\* An Err, of the body's own or from what it asked: the state stays as it was.
Fail ==
    /\ stack # <<>> /\ (Top.mode = "fails" \/ AtInstruction("fail"))
    /\ Give(Top.gen, Exception, Below)
    /\ spoiled' = spoiled \cup {Top.gen}
    /\ UNCHANGED <<body, saved, locals>>

Next ==
    \/ \E g \in Generators :
        \/ \E b \in Bodies : Create(g, b)
        \/ Refuse(g) \/ AskDone(g)
        \/ \E v \in Sent : Resume(g, v) \/ Close(g, v)
    \/ Work \/ Ask \/ Yield \/ Return \/ RunOff \/ Throw \/ Fail

Spec == Init /\ [][Next]_vars

-----------------------------------------------------------------------------
(* Properties.                                                             *)

Values == Sent \cup {Undefined}
States == [initialized : BOOLEAN, done : BOOLEAN, pc : Nat, waits : BOOLEAN, register : Values]
Executors == [gen : Generators, pc : Nat, register : Values, mode : {"runs", "asks", "fails"}]

TypeOK ==
    /\ body \in [Generators -> Bodies \cup {<<>>}]
    /\ saved \in [Generators -> States]
    /\ locals \in [Generators -> 0..MaxWork]
    /\ stack \in Seq(Executors) /\ Len(stack) <= MaxCallDepth
    /\ DOMAIN answer = Generators
    /\ spoiled \subseteq Generators
    /\ \A g \in Generators : saved[g].pc \in 1..(Len(body[g]) + 1)
    /\ \A k \in DOMAIN stack : stack[k].pc \in 1..(Len(body[stack[k].gen]) + 1)

\* A generator that was asked to end, or has ended by itself, starts no executor any
\* more, whatever happened before: one that was still running when it was asked to end
\* does not bring it back when it yields.
ExecutorsOf(g) == {k \in DOMAIN stack : stack[k].gen = g}
NotRevived(g) == saved[g].done => saved'[g].done /\ ExecutorsOf(g)' \subseteq ExecutorsOf(g)
StaysFinished == [][\A g \in Generators : NotRevived(g)]_vars

\* A generator as others see it: which executor is its own does not matter unless
\* there are several, and then it is spoiled.
ExecutorOf(g) == stack[CHOOSE k \in DOMAIN stack : stack[k].gen = g]
Status(g) ==
    IF ~Created(g) THEN "none"
    ELSE IF g \in spoiled THEN "spoiled"
    ELSE IF g \in Running THEN "running"
    ELSE IF saved[g].done THEN "finished"
    ELSE IF saved[g].initialized THEN "suspended" ELSE "fresh"
Seen(g, running, suspended, nothing) ==
    CASE Status(g) \in {"finished", "spoiled"} -> nothing
      [] Status(g) = "running" -> running
      [] OTHER -> suspended

Position(g) == Seen(g, ExecutorOf(g).pc, saved[g].pc, 1)
Variables(g) == IF g \in spoiled THEN 0 ELSE locals[g]
LastReceived(g) == Seen(g, ExecutorOf(g).register, saved[g].register, Undefined)

\* next, return and the body do what GeneratorObjects says, for every generator whose
\* body does not fail and that is not asked for something while it runs, even if both
\* happens to the generators around it.
Objects == INSTANCE GeneratorObjects WITH
    status <- [g \in Generators |-> Status(g)],
    position <- [g \in Generators |-> Position(g)],
    variables <- [g \in Generators |-> Variables(g)],
    received <- [g \in Generators |-> LastReceived(g)]
GeneratorObjectsSpec == Objects!Spec

-----------------------------------------------------------------------------
(* What the proofs need besides: parts of the inductive invariant.         *)

\* Before the object is made there is nothing of it.
Unborn == \A g \in Generators : ~Created(g) =>
    saved[g] = Fresh /\ locals[g] = 0 /\ g \notin spoiled /\ g \notin Running

\* A generator that is not spoiled has one executor at most.
Alone == \A j, k \in DOMAIN stack :
    stack[j].gen = stack[k].gen /\ stack[j].gen \notin spoiled => j = k

\* While it has it, it is not at its end.
Busy == \A g \in Running \ spoiled : saved[g].initialized /\ ~saved[g].done

\* While it has none and has begun, its last yield waits for a value.
Resting == \A g \in Generators \ (Running \cup spoiled) :
    saved[g].initialized /\ ~saved[g].done => saved[g].waits

GeneratorInv == TypeOK /\ Unborn /\ Alone /\ Busy /\ Resting
=============================================================================
