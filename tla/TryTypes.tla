------------------------------ MODULE TryTypes ------------------------------
(***************************************************************************)
(* The nesting of blocks and try statements around a program counter, as   *)
(* shared by the interpreter's frames (FrameFlow) and by the completions   *)
(* they promise (Completions).                                             *)
(***************************************************************************)
EXTENDS Naturals, Sequences

CONSTANTS
    FrameKinds,     \* kinds of frame: of "async" and "generator"
    MaxNesting      \* bound on the constructs around a program counter

ASSUME FrameAssumption ==
    /\ FrameKinds \subseteq {"async", "generator"}
    /\ MaxNesting \in Nat

\* A block scope, or the part of a try statement with a catch (handler) or a
\* finally (finalizer) that control is in.
Block == [part |-> "scope", handler |-> FALSE, finalizer |-> FALSE]

Constructs ==
    [part : {"scope", "body", "catch", "finally"}, handler : BOOLEAN,
     finalizer : BOOLEAN]

\* How a part of a try statement, or the whole body, may end.
Completion == {"value", "return", "throw"}

IsTry(construct) == construct.part # "scope"

\* Control is at the end of a part of a try statement or of the body.
AtEnd(where) == where # <<>> => IsTry(where[Len(where)])

Outside(where, i) == SubSeq(where, 1, i - 1)

\* Control moves from the part of try statement i it is in to another one.
Enters(where, i, part) == Append(Outside(where, i), [where[i] EXCEPT !.part = part])

=============================================================================
