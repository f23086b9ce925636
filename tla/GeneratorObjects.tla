--------------------------- MODULE GeneratorObjects ---------------------------
(***************************************************************************)
(* What generators promise: the body of one runs in pieces, each next goes *)
(* on where the last one stopped, with the variables as they were and the  *)
(* value it was given, and once the body has ended it is never run again.  *)
(*                                                                         *)
(* Nothing is promised of a generator that is spoiled: its body has ended  *)
(* with an error that is not its own throw, or it was asked for something  *)
(* while it ran (the runtime gives an answer to both, JavaScript another). *)
(***************************************************************************)
EXTENDS Naturals, Sequences

CONSTANTS
    Generators,         \* generator objects
    Bodies,             \* sequences of instructions
    Sent,               \* values that next is called with
    Undefined           \* the value undefined

VARIABLES
    status,             \* where a generator is in its life
    body,               \* its body
    position,           \* the next instruction of the body
    variables,          \* how often it has worked on its variables
    received,           \* the value that the last yield came back with
    answer              \* the last answer it has given

vars == <<status, body, position, variables, received, answer>>

Statuses == {"none", "fresh", "suspended", "running", "finished", "spoiled"}

Item(value) == [kind |-> "item", value |-> value]
Last(value) == [kind |-> "last", value |-> value]
Exception == [kind |-> "exception", value |-> Undefined]

\* What a yield of g hands out.
Yielded(g) == <<variables[g], received[g]>>

Init ==
    /\ status = [g \in Generators |-> "none"]
    /\ body = [g \in Generators |-> <<>>]
    /\ position = [g \in Generators |-> 1]
    /\ variables = [g \in Generators |-> 0]
    /\ received = [g \in Generators |-> Undefined]
    /\ answer = [g \in Generators |-> Last(Undefined)]

Answers(g, result) == answer' = [answer EXCEPT ![g] = result]

Create(g, b) ==
    /\ status[g] = "none"
    /\ status' = [status EXCEPT ![g] = "fresh"]
    /\ body' = [body EXCEPT ![g] = b]
    /\ UNCHANGED <<position, variables, received, answer>>

\* next: the first value sent is dropped, for nothing waits for it.
Resume(g, v) ==
    /\ status[g] \in {"fresh", "suspended"}
    /\ status' = [status EXCEPT ![g] = "running"]
    /\ received' = [received EXCEPT ![g] = IF status[g] = "suspended" THEN v ELSE @]
    /\ UNCHANGED <<body, position, variables, answer>>

AskFinished(g) ==
    /\ status[g] = "finished" /\ Answers(g, Last(Undefined))
    /\ UNCHANGED <<status, body, position, variables, received>>

\* A call too deep is answered with an exception and changes nothing.
TooDeep(g) ==
    /\ status[g] # "none" /\ Answers(g, Exception)
    /\ UNCHANGED <<status, body, position, variables, received>>

\* Nothing is left of what the body was doing.
Forget(g) ==
    /\ position' = [position EXCEPT ![g] = 1]
    /\ received' = [received EXCEPT ![g] = Undefined]

\* return
Close(g, v) ==
    /\ status[g] \in {"fresh", "suspended", "finished"} /\ Answers(g, Last(v))
    /\ status' = [status EXCEPT ![g] = "finished"]
    /\ Forget(g) /\ UNCHANGED <<body, variables>>

\* The body goes on to its next instruction.
At(g, instruction) ==
    /\ status[g] = "running" /\ position[g] \in DOMAIN body[g]
    /\ body[g][position[g]] = instruction

Step(g, instruction) ==
    /\ At(g, instruction)
    /\ position' = [position EXCEPT ![g] = @ + 1]
    /\ UNCHANGED <<body, received>>

Work(g) ==
    /\ Step(g, "work")
    /\ variables' = [variables EXCEPT ![g] = @ + 1]
    /\ UNCHANGED <<status, answer>>

Ask(g) == Step(g, "ask") /\ UNCHANGED <<status, variables, answer>>

Yield(g) ==
    /\ Step(g, "yield") /\ Answers(g, Item(Yielded(g)))
    /\ status' = [status EXCEPT ![g] = "suspended"]
    /\ UNCHANGED variables

Finish(g, result) ==
    /\ status[g] = "running" /\ Answers(g, result)
    /\ status' = [status EXCEPT ![g] = "finished"]
    /\ Forget(g) /\ UNCHANGED <<body, variables>>

Return(g) == At(g, "return") /\ Finish(g, Last(Yielded(g)))
Throw(g) == At(g, "throw") /\ Finish(g, Exception)
RunOff(g) == position[g] = Len(body[g]) + 1 /\ Finish(g, Last(Undefined))

\* From then on it may give any answer, but what happens to it is nobody else's
\* business.
Spoil(g) ==
    /\ status[g] \in {"running", "spoiled"}
    /\ status' = [status EXCEPT ![g] = "spoiled"]
    /\ variables' = [variables EXCEPT ![g] = 0]
    /\ \A h \in Generators \ {g} : answer'[h] = answer[h]
    /\ DOMAIN answer' = Generators
    /\ Forget(g) /\ UNCHANGED body

Next == \E g \in Generators :
    \/ \E b \in Bodies : Create(g, b)
    \/ \E v \in Sent : Resume(g, v) \/ Close(g, v)
    \/ AskFinished(g) \/ TooDeep(g)
    \/ Work(g) \/ Ask(g) \/ Yield(g) \/ Return(g) \/ Throw(g) \/ RunOff(g)
    \/ Spoil(g)

Spec == Init /\ [][Next]_vars
=============================================================================
