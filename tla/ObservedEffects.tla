--------------------------- MODULE ObservedEffects ---------------------------
(***************************************************************************)
(* What a run of a program shows to the outside, and what the outside may  *)
(* answer.                                                                 *)
(*                                                                         *)
(* A call, a member that is read or stored, an operator that may call back *)
(* into the program, a new object or class, a yield or an await: each is   *)
(* an event, and its outcome is any of a few values or an error.  A call   *)
(* of null or undefined, and a member of one, is an error by itself.  What *)
(* the lowering writes for its own use, comparisons and the arrays that    *)
(* stand for arguments with a spread, is computed.                         *)
(***************************************************************************)
EXTENDS LoweringContext

CONSTANT MaxLength      \* bound on the length of what a for-each iterates over

ASSUME LengthAssumption == MaxLength \in Nat

Truthy(v) == v \notin {Undefined, Null, Bool(FALSE), Num(0)}
Nullish(v) == v \in {Undefined, Null}
LooselyEqual(v, w) == v = w \/ (Nullish(v) /\ Nullish(w))

Obj(n) == <<"obj", n>>
Arr(elems) == <<"arr", elems>>
Method(name, v) == <<"method", name, v>>
Str(name) == <<"str", name>>
Global(name) == <<"global", name>>

\* An element of an array that stands for all that v iterates over.
Spread(v) == <<"spread", v>>

\* Answers of the outside: a value, or an error.
Error == <<"error", 0>>
Fails(outcome) == outcome[1] = "error"

Internal == {"==", "===", "!=", "<", "+"}

\* Binary on the operators the lowering itself uses.
Apply(op, v, w) ==
    CASE op = "==" -> Bool(LooselyEqual(v, w))
      [] op = "!=" -> Bool(~LooselyEqual(v, w))
      [] op = "===" -> Bool(v = w)
      [] op = "<" -> Bool(v[2] < w[2])
      [] op = "+" -> Num(v[2] + w[2])

IsMethod(v, name) == v[1] = "method" /\ v[2] = name

\* The operations on the arrays that a spread is made of.
IsComputed(op, name, args) ==
    \/ op = "Binary" /\ name \in Internal
    \/ op = "Array"
    \/ op = "Member" /\ args[1][1] = "arr" /\ args[2] = Str("concat")
    \/ op = "Member" /\ args = <<Global("Array"), Str("from")>>
    \/ op = "Member" /\ args[2] = Str("apply") /\ ~Nullish(args[1])
    \/ op = "Call" /\ args[1][1] = "method" /\ args[1][2] \in {"concat", "from"}

Computed(op, name, args) ==
    CASE op = "Binary" -> Apply(name, args[1], args[2])
      [] op = "Array" -> Arr(args)
      [] op = "Member" -> Method(args[2][2], args[1])
      [] op = "Call" -> IF IsMethod(args[1], "from") THEN Arr(<<Spread(args[2])>>)
                        ELSE Arr(args[1][3][2] \o args[2][2])

\* f.apply(this, array) calls f with the elements of the array.
Received(op, args) ==
    IF op = "Call" /\ IsMethod(args[1], "apply") THEN <<args[1][3]>> \o args[3][2] ELSE args

\* The receiver or the callee is null or undefined.
FailsAtOnce(op, args) == op \in {"Member", "StoreMember", "Call", "New"} /\ Nullish(args[1])

\* The answers to event number n.
Outcomes(op, args, n) ==
    CASE op = "Member" ->
            IF args[2] = Str("length") THEN {Num(l) : l \in 0..MaxLength}
            ELSE IF args[2] = Str("done") THEN {Bool(TRUE), Bool(FALSE)}
            ELSE {Undefined, Obj(n)} \cup (IF args[2][1] = "num" THEN {} ELSE {Null})
      [] op \in {"yield", "await"} -> {Undefined, Null, Obj(n)}
      [] op \in {"Binary", "Unary"} -> {Num(0), Obj(n)}
      [] op \in {"Call", "New"} -> {Undefined, Obj(n), Error}
      [] OTHER -> {Obj(n)}

Event(op, name, args, frames) ==
    [op |-> op, name |-> name, args |-> args, frames |-> frames]

TypeError == <<"error", 1>>
=============================================================================
