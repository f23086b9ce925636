--------------------------- MODULE LoweringContext ---------------------------
(***************************************************************************)
(* What the lowering of a program carries along (LoweringContext of        *)
(* crates/compiler/src/parse.rs): the instructions emitted so far, the     *)
(* counters that number temporaries, labels and child contexts, and the    *)
(* stack of targets that break and continue are resolved against.          *)
(*                                                                         *)
(* A context is a record that the operators of ExpressionLowering and      *)
(* StatementLowering take and return.  A label is the prefix of its        *)
(* context and a number, with the tag "start" or "rest" for the two labels *)
(* the code derives from another one.  Names of externals are the subject  *)
(* of NameResolution and have no place here.                               *)
(***************************************************************************)
EXTENDS Integers, Sequences, SequencesExt

\* Values of a running program: a tag and a number or a name.
Undefined == <<"undefined", 0>>
Null == <<"null", 0>>
Bool(b) == <<"bool", IF b THEN 1 ELSE 0>>
Num(n) == <<"num", n>>

\* IrValue: a temporary, an immediate, or a name that is read when it is used.
Reg(n) == <<"reg", n>>
Imm(value) == <<"imm", value>>
Named(name) == <<"name", name>>

\* IrInstruction.  An instruction that computes a value, or has an effect, has a
\* destination (NoReg: none), a name that tells it from others of its kind (an
\* operator, a property) and the operands it reads.
NoReg == -1
Computes(op, dst, name, args) == [op |-> op, dst |-> dst, name |-> name, args |-> args]
StoreName(name, src) == [op |-> "StoreName", name |-> name, src |-> src]
Declare(name) == [op |-> "Declare", name |-> name]
Label(l) == [op |-> "Label", label |-> l]
Jump(l) == [op |-> "Jump", label |-> l]
JumpIfFalse(test, l) == [op |-> "JumpIfFalse", test |-> test, label |-> l]
Scope(body) == [op |-> "Scope", body |-> body]
Try(body, param, catch, finally) ==
    [op |-> "Try", body |-> body, param |-> param, catch |-> catch, finally |-> finally]
FunctionExpr(dst, fn, prefix) ==
    [op |-> "FunctionExpr", dst |-> dst, fn |-> fn, prefix |-> prefix]
Leave(op, value) == [op |-> op, value |-> value]        \* Return, Throw
Plain(op) == [op |-> op]                                \* EnterScope, LeaveScope

-----------------------------------------------------------------------------
NewContext(prefix) ==
    [code |-> <<>>, temp |-> 0, label |-> 0, child |-> 0, prefix |-> prefix,
     targets |-> <<>>, pending |-> <<>>]

\* Mutant: a child numbers its labels like its parent.
ChildSamePrefix(c) == NewContext(c.prefix)

\* The context of a function, and of each part of a try statement.
Child(c) == NewContext(Append(c.prefix, c.child))

WithChild(c) == [c EXCEPT !.child = @ + 1]

\* temp(), n times: the new ones are T(c, 0) .. T(c, n - 1) of the old context.
T(c, k) == c.temp + k
WithTemps(c, n) == [c EXCEPT !.temp = @ + n]

\* label(), n times.
L(c, k) == <<c.prefix, c.label + k, "">>
WithLabels(c, n) == [c EXCEPT !.label = @ + n]

Emit(c, instructions) == [c EXCEPT !.code = @ \o instructions]

\* lower_in_scope: what was emitted since outer becomes the body of a scope.
CloseScope(outer, inner) ==
    [inner EXCEPT !.code =
        Append(outer.code, Scope(SubSeq(@, Len(outer.code) + 1, Len(@))))]

-----------------------------------------------------------------------------
(* Targets of break and continue.                                          *)

NoLabel == <<>>
NoTarget == <<>>

Target(label, brk, cont) == [label |-> label, brk |-> brk, cont |-> cont]

\* A loop or a switch is a target without a label and one for each label of its.
PushControlTargets(c, brk, cont) ==
    [c EXCEPT !.targets = @ \o <<Target(NoLabel, brk, cont)>>
                            \o [i \in 1..Len(c.pending) |-> Target(c.pending[i], brk, cont)],
              !.pending = <<>>]

PopControlTargets(c, outer) == [c EXCEPT !.targets = outer.targets]

ResolveBreakTarget(c, label) ==
    LET found == {i \in 1..Len(c.targets) : c.targets[i].label = label}
    IN  IF found = {} THEN NoTarget ELSE c.targets[Max(found)].brk

\* Mutant: a switch stops the search for the loop that continue is for.
ResolveContinueStopsAtSwitch(c, label) ==
    LET found == {i \in 1..Len(c.targets) : c.targets[i].label = label}
    IN  IF found = {} THEN NoTarget ELSE c.targets[Max(found)].cont

\* A switch is no target of continue: the search goes on to the loop around it.
ResolveContinueTarget(c, label) ==
    LET found == {i \in 1..Len(c.targets) :
                     c.targets[i].label = label /\ c.targets[i].cont # NoTarget}
    IN  IF found = {} THEN NoTarget ELSE c.targets[Max(found)].cont
=============================================================================
