---------------------------- MODULE AsyncFunctions ----------------------------
(***************************************************************************)
(* What async functions promise: a call goes on by itself until it awaits  *)
(* something, and from there once that is settled, with its value; what it *)
(* returns, or fails with, is what awaits of the call get in turn.         *)
(*                                                                         *)
(* There are no jobs, callbacks or executors here: an await is a step that *)
(* can be taken when the outcome is known.  One thing is as the runtime    *)
(* has it and not as JavaScript does: a function that fails before its     *)
(* first wait fails its caller at the call, not at the await.              *)
(***************************************************************************)
EXTENDS Naturals, Sequences

CONSTANTS
    Calls,              \* calls of async functions, over a whole run
    HostPromises,       \* promises the host makes
    Functions,          \* async functions
    Variables,          \* variables of each call
    Body,               \* the instructions of each function
    None,               \* neither a function nor a call
    Undefined, Module   \* data: undefined, and what an import gives

VARIABLES
    code,               \* the function of each call
    position,           \* its next instruction
    variables,          \* values of its variables
    result,             \* how it ended
    host                \* what became of the promises of the host

vars == <<code, position, variables, result, host>>

Datum(d) == <<"datum", d>>
PromiseOf(c) == <<"call", c>>
HostPromise(p) == <<"host", p>>
Imported == <<"import">>

Going == [is |-> "going"]
Failed == [is |-> "failed"]
Returned(v) == [is |-> "returned", value |-> v]

\* A call has the outcome of a call that it returned, and that of the next in turn.
ReturnedBy(c) == {d \in Calls : result[c] = Returned(PromiseOf(d))}
AnsweredBy(c) ==
    {d \in Calls : \A C \in SUBSET Calls :
        c \in C /\ (\A e \in C : ReturnedBy(e) \subseteq C) => d \in C}

\* What an await of v comes to.
Pending == <<"pending">>
Rejected == <<"rejected">>
OwnOutcome(v) ==
    CASE v[1] = "datum" -> v
      [] v[1] = "import" -> Datum(Module)
      [] v[1] = "host" -> IF host[v[2]] = "fulfilled" THEN Datum(v[2])
                          ELSE IF host[v[2]] = "rejected" THEN Rejected ELSE Pending
Outcome(v) ==
    LET last == {d \in AnsweredBy(v[2]) : ReturnedBy(d) = {}}
        end == result[CHOOSE d \in last : TRUE]
    IN  IF v[1] # "call" THEN OwnOutcome(v)
        ELSE IF last = {} \/ end = Going THEN Pending
        ELSE IF end = Failed THEN Rejected ELSE OwnOutcome(end.value)

NoVariables == [x \in Variables |-> Datum(Undefined)]

Init ==
    /\ code = [c \in Calls |-> None]
    /\ position = [c \in Calls |-> 1]
    /\ variables = [c \in Calls |-> NoVariables]
    /\ result = [c \in Calls |-> Going]
    /\ host = [p \in HostPromises |-> "none"]

Goes(c) == code[c] # None /\ result[c] = Going

\* c is about to do op.
At(c, op) ==
    /\ Goes(c) /\ position[c] \in DOMAIN Body[code[c]]
    /\ Body[code[c]][position[c]].op = op
Variable(c) == Body[code[c]][position[c]].var
Value(c) == variables[c][Variable(c)]

Advance(c) == position' = [position EXCEPT ![c] = @ + 1]
Assign(c, v) == variables' = [variables EXCEPT ![c][Variable(c)] = v]
End(c, r) ==
    /\ result' = [result EXCEPT ![c] = r]
    /\ position' = [position EXCEPT ![c] = 1]
    /\ variables' = [variables EXCEPT ![c] = NoVariables]
    /\ UNCHANGED <<code, host>>

Start(c, f) ==
    /\ code[c] = None /\ code' = [code EXCEPT ![c] = f]
    /\ UNCHANGED <<position, variables, result, host>>

Call(c, d) ==
    /\ At(c, "call") /\ code[d] = None
    /\ code' = [code EXCEPT ![d] = Body[code[c]][position[c]].callee]
    /\ Advance(c) /\ Assign(c, PromiseOf(d))
    /\ UNCHANGED <<result, host>>

Ask(c, p) ==
    /\ At(c, "ask") /\ host[p] = "none"
    /\ host' = [host EXCEPT ![p] = "pending"]
    /\ Advance(c) /\ Assign(c, HostPromise(p))
    /\ UNCHANGED <<code, result>>

Import(c) ==
    /\ At(c, "import") /\ Advance(c) /\ Assign(c, Imported)
    /\ UNCHANGED <<code, result, host>>

Await(c) ==
    /\ At(c, "await") /\ Outcome(Value(c)) \notin {Pending, Rejected}
    /\ Advance(c) /\ Assign(c, Outcome(Value(c)))
    /\ UNCHANGED <<code, result, host>>

AwaitRejected(c) == At(c, "await") /\ Outcome(Value(c)) = Rejected /\ End(c, Failed)

\* The call that c has just made has failed.
FailWithCallee(c) ==
    /\ Goes(c) /\ position[c] > 1
    /\ LET last == Body[code[c]][position[c] - 1]
       IN  last.op = "call" /\ Outcome(variables[c][last.var]) = Rejected
    /\ End(c, Failed)

Return(c) == At(c, "return") /\ End(c, Returned(Value(c)))
Throw(c) == At(c, "throw") /\ End(c, Failed)
RunOff(c) ==
    /\ Goes(c) /\ position[c] = Len(Body[code[c]]) + 1
    /\ End(c, Returned(Datum(Undefined)))

Settle(p, state) ==
    /\ host[p] = "pending" /\ state \in {"fulfilled", "rejected"}
    /\ host' = [host EXCEPT ![p] = state]
    /\ UNCHANGED <<code, position, variables, result>>

Next ==
    \/ \E c \in Calls :
        \/ \E f \in Functions : Start(c, f)
        \/ \E d \in Calls \ {c} : Call(c, d)
        \/ \E p \in HostPromises : Ask(c, p)
        \/ Import(c) \/ Await(c) \/ AwaitRejected(c) \/ FailWithCallee(c)
        \/ Return(c) \/ Throw(c) \/ RunOff(c)
    \/ \E p \in HostPromises, state \in {"fulfilled", "rejected"} : Settle(p, state)

Spec == Init /\ [][Next]_vars
=============================================================================
