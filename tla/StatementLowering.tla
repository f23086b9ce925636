-------------------------- MODULE StatementLowering --------------------------
(***************************************************************************)
(* The lowering of statements and function bodies                          *)
(* (crates/compiler/src/parse.rs, lower_stmt to lower_try).                *)
(*                                                                         *)
(* A statement is a record with a kind k and its parts; a part that may be *)
(* missing is a sequence of at most one element.  break and continue are   *)
(* resolved against the targets of the context, and what they cannot reach *)
(* is a marker, which does nothing.  The parts of a try statement are      *)
(* lowered in child contexts, like functions.                              *)
(***************************************************************************)
EXTENDS ExpressionLowering

RECURSIVE LowerStmt(_, _)

LowerStmts(c, body) == FoldLeft(LowerStmt, c, body)

\* lower_block_scope
LowerBlock(c, body) == CloseScope(c, LowerStmts(c, body))

KeepValue(r) ==
    IF r.v[1] = "reg" THEN r.c ELSE Emit(WithTemps(r.c, 1), <<Move(T(r.c, 0), r.v)>>)

LowerExprStmt(c, e) == KeepValue(LowerExpr(c, e))

LowerVar(c, s) ==
    BindValue(IF s.init = <<>> THEN Done(c, Imm(Undefined)) ELSE LowerExpr(c, s.init[1]), s.pattern)

JumpUnless(test, l) == Emit(test.c, <<JumpIfFalse(test.v, l)>>)

LowerElse(c, alt) == IF alt = <<>> THEN c ELSE LowerStmt(c, alt[1])

LowerIf(c, s) ==
    LET cons == LowerStmt(JumpUnless(LowerExpr(WithLabels(c, 2), s.test), L(c, 0)), s.cons)
    IN  Emit(LowerElse(Emit(cons, <<Jump(L(c, 1)), Label(L(c, 0))>>), s.alt), <<Label(L(c, 1))>>)

-----------------------------------------------------------------------------
(* break, continue and their targets.                                      *)

RECURSIVE IsLabelledControlTarget(_)
IsLabelledControlTarget(s) ==
    \/ s.k \in {"while", "do", "for", "foreach", "switch"}
    \/ s.k = "labeled" /\ IsLabelledControlTarget(s.body)

\* The label of a loop or switch waits for its targets; any other labelled
\* statement is a target of break alone.
LowerLabeled(c, s) ==
    LET c1 == [WithLabels(c, 1) EXCEPT !.targets = Append(@, Target(s.label, L(c, 0), NoTarget))]
    IN  IF IsLabelledControlTarget(s.body)
        THEN LowerStmt([c EXCEPT !.pending = Append(@, s.label)], s.body)
        ELSE Emit(PopControlTargets(LowerStmt(c1, s.body), c), <<Label(L(c, 0))>>)

\* Without a target the statement is a marker.
LowerBreak(c, target) == IF target = NoTarget THEN c ELSE Emit(c, <<Jump(target)>>)

\* The body of a loop, with its targets.
LowerBody(c, brk, cont, body) ==
    PopControlTargets(LowerStmt(PushControlTargets(c, brk, cont), body), c)

ExitUnless(c, test, end) ==
    IF test = <<>> THEN c
    ELSE JumpUnless(LowerExpr(c, test[1]), end)

LowerWhile(c, s) ==
    LET start == L(c, 0)
        end == L(c, 1)
        c1 == ExitUnless(Emit(WithLabels(c, 2), <<Label(start)>>), <<s.test>>, end)
    IN  Emit(LowerBody(c1, end, start, s.body), <<Jump(start), Label(end)>>)

LowerDoWhile(c, s) ==
    LET start == L(c, 0)
        test == L(c, 1)
        end == L(c, 2)
        c1 == LowerBody(Emit(WithLabels(c, 3), <<Label(start)>>), end, test, s.body)
    IN  Emit(ExitUnless(Emit(c1, <<Label(test)>>), <<s.test>>, end), <<Jump(start), Label(end)>>)

-----------------------------------------------------------------------------
(* for.                                                                    *)

\* emit_per_iteration_scope: the names are copied from the scope of the last
\* iteration into a new one.
PerIterationScope(c, names, leave) ==
    LET n == Len(names)
    IN  Emit(WithTemps(c, n),
             [i \in 1..n |-> Computes("LoadName", T(c, i - 1), names[i], <<>>)]
             \o (IF leave THEN <<Plain("LeaveScope")>> ELSE <<>>)
             \o <<Plain("EnterScope")>>
             \o FlattenSeq([i \in 1..n |-> <<Declare(names[i]),
                                             StoreName(names[i], Reg(T(c, i - 1)))>>]))

LowerForInit(c, s) == IF s.init = <<>> THEN c ELSE LowerStmt(c, s.init[1])

NextIteration(c, names) == IF names = <<>> THEN c ELSE PerIterationScope(c, names, TRUE)

LowerUpdates(c, update) == IF update = <<>> THEN c ELSE LowerExpr(c, update[1]).c

FromUpdate(c, s, start, end) ==
    Emit(LowerUpdates(NextIteration(c, s.names), s.update), <<Jump(start), Label(end)>>)

\* From the test to the jump back; with names each iteration has its scope.
LowerForLoop(c, s) ==
    LET start == L(c, 0)
        update == L(c, 1)
        end == L(c, 2)
    IN  FromUpdate(
            Emit(LowerBody(ExitUnless(Emit(WithLabels(c, 3), <<Label(start)>>), s.test, end),
                           end, update, s.body),
                 <<Label(update)>>),
            s, start, end)

StartFor(c, s) == IF s.names = <<>> THEN c ELSE PerIterationScope(c, s.names, FALSE)

\* Mutant: the scope of the last iteration is not left.
EndForUnclosed(outer, c, s) == IF s.names = <<>> THEN c ELSE CloseScope(outer, c)

\* lower_for_lexical leaves the scope of the last iteration and closes its own.
EndFor(outer, c, s) ==
    IF s.names = <<>> THEN c ELSE CloseScope(outer, Emit(c, <<Plain("LeaveScope")>>))

LowerFor(c, s) == EndFor(c, LowerForLoop(StartFor(LowerForInit(c, s), s), s), s)

-----------------------------------------------------------------------------
(* for-in and for-of.                                                      *)

\* Both null and undefined end the loop before it starts.
EndIfNullish(c, v, end) ==
    Emit(WithTemps(WithLabels(c, 2), 2),
         <<Computes("Binary", T(c, 0), "==", <<v, Imm(Null)>>),
           JumpIfFalse(Reg(T(c, 0)), L(c, 0)), Jump(end), Label(L(c, 0)),
           Computes("Binary", T(c, 1), "==", <<v, Imm(Undefined)>>),
           JumpIfFalse(Reg(T(c, 1)), L(c, 1)), Jump(end), Label(L(c, 1))>>)

\* The keys of the object of a for-in.
ObjectKeys(c, v) ==
    Done(Emit(WithTemps(c, 3),
              <<Computes("LoadName", T(c, 0), "Object", <<>>),
                Computes("Member", T(c, 1), "", <<Reg(T(c, 0)), Text("keys")>>),
                Computes("Call", T(c, 2), "", <<Reg(T(c, 1)), v>>)>>),
         Reg(T(c, 2)))

Iterated(r, kind, end) ==
    IF kind = "in" THEN ObjectKeys(EndIfNullish(r.c, r.v, end), r.v) ELSE r

\* The iterated value is read by index, up to the length it had at first.
NextItem(c, v, start, end, lexical) ==
    LET index == T(c, 0)
        length == T(c, 1)
        test == T(c, 2)
    IN  Emit(WithTemps(c, 4),
             <<Move(index, Imm(Num(0))),
               Computes("Member", length, "", <<v, Text("length")>>),
               Label(start),
               Computes("Binary", test, "<", <<Reg(index), Reg(length)>>),
               JumpIfFalse(Reg(test), end),
               Computes("Member", T(c, 3), "", <<v, Reg(index)>>)>>
             \o (IF lexical THEN <<Plain("EnterScope")>> ELSE <<>>))

StepIndex(c, index, start, update) ==
    Emit(WithTemps(c, 1),
         <<Label(update),
           Computes("Binary", T(c, 0), "+", <<Reg(index), Imm(Num(1))>>),
           Move(index, Reg(T(c, 0))), Jump(start)>>)

\* c binds the item; a lexical head has a scope that no instruction leaves.
ForEachBody(c, s, index, start, update, end) ==
    LET scopedEnd == L(c, 0)
        inner == IF s.lexical THEN WithLabels(c, 1) ELSE c
        exit == IF s.lexical THEN scopedEnd ELSE end
    IN  Emit(StepIndex(LowerBody(inner, exit, update, s.body), index, start, update),
             (IF s.lexical THEN <<Label(scopedEnd), Jump(end)>> ELSE <<>>) \o <<Label(end)>>)

ForEachFrom(c, s, v, start, update, end) ==
    ForEachBody(LowerPattern(NextItem(c, v, start, end, s.lexical), s.pattern, Reg(T(c, 3))),
                s, T(c, 0), start, update, end)

\* lower_for_each_inner
ForEachIn(r, s, start, update, end) ==
    ForEachFrom(EndIfNullish(r.c, r.v, end), s, r.v, start, update, end)

LowerForEach(c, s) ==
    ForEachIn(Iterated(LowerExpr(WithLabels(c, 3), s.right), s.kind, L(c, 2)),
              s, L(c, 0), L(c, 1), L(c, 2))

-----------------------------------------------------------------------------
(* switch and try.                                                         *)

IsDefault(case) == case.test = <<>>

TestCase(r, d, at) ==
    Emit(WithTemps(WithLabels(r.c, 1), 1),
         <<Computes("Binary", T(r.c, 0), "===", <<d, r.v>>),
           JumpIfFalse(Reg(T(r.c, 0)), L(r.c, 0)), Jump(at), Label(L(r.c, 0))>>)

LowerTest(c, case, d, at) ==
    IF IsDefault(case) THEN c ELSE TestCase(LowerExpr(c, case.test[1]), d, at)

\* All tests come first, in order; then the bodies, each falling into the next.
SwitchOn(d, s) ==
    LET end == L(d.c, 0)
        At(i) == L(d.c, i + 1)
        order == [i \in 1..Len(s.cases) |-> i]
        default == {i \in 1..Len(s.cases) : IsDefault(s.cases[i])}
        other == Jump(IF default = {} THEN end ELSE At(CHOOSE i \in default : TRUE))
        tests == FoldLeft(LAMBDA c, i : LowerTest(c, s.cases[i], d.v, At(i)),
                          WithLabels(d.c, Len(s.cases) + 2), order)
    IN  Emit(PopControlTargets(
                 FoldLeft(LAMBDA c, i : LowerStmts(Emit(c, <<Label(At(i))>>), s.cases[i].body),
                          PushControlTargets(Emit(tests, <<other>>), end, NoTarget), order),
                 d.c),
             <<Label(end)>>)

LowerSwitch(c, s) == SwitchOn(LowerExpr(c, s.discriminant), s)

\* The parts are lowered in child contexts: their temporaries start at 0 again,
\* and they see no target of break and continue outside the part.  The parameter
\* of a catch is bound if it is a plain name.
LowerTry(c, s) ==
    LET Part(d, body) == LowerBlock(Child(d), body).code
        c1 == WithChild(c)
        c2 == IF s.catch = <<>> THEN c1 ELSE WithChild(c1)
        c3 == IF s.finally = <<>> THEN c2 ELSE WithChild(c2)
    IN  Emit(c3, <<Try(Part(c, s.body), s.param,
                       IF s.catch = <<>> THEN <<>> ELSE Part(c1, s.catch[1]),
                       IF s.finally = <<>> THEN <<>> ELSE Part(c2, s.finally[1]))>>)

-----------------------------------------------------------------------------
LeaveWith(r, op) == Emit(r.c, <<Leave(op, r.v)>>)

LowerLeave(c, op, value) ==
    IF value = <<>> THEN Emit(c, <<Leave(op, Imm(Undefined))>>)
    ELSE LeaveWith(LowerExpr(c, value[1]), op)

LowerStmt(c, s) ==
    CASE s.k = "empty" -> c
      [] s.k = "expr" -> LowerExprStmt(c, s.e)
      [] s.k = "var" -> LowerVar(c, s)
      [] s.k = "block" -> LowerBlock(c, s.body)
      [] s.k = "if" -> LowerIf(c, s)
      [] s.k = "labeled" -> LowerLabeled(c, s)
      [] s.k = "break" -> LowerBreak(c, ResolveBreakTarget(c, s.label))
      [] s.k = "continue" -> LowerBreak(c, ResolveContinueTarget(c, s.label))
      [] s.k = "while" -> LowerWhile(c, s)
      [] s.k = "do" -> LowerDoWhile(c, s)
      [] s.k = "for" -> LowerFor(c, s)
      [] s.k = "foreach" -> LowerForEach(c, s)
      [] s.k = "switch" -> LowerSwitch(c, s)
      [] s.k = "try" -> LowerTry(c, s)
      [] s.k = "return" -> LowerLeave(c, "Return", s.value)
      [] s.k = "throw" -> LowerLeave(c, "Throw", s.value)

\* lower_param_initializer: a pattern is bound from the argument, a plain name
\* may have a default.
LowerParameter(c, p) ==
    CASE p.k = "ident" -> c
      [] p.k = "default" /\ p.left.k = "ident" -> ParameterDefault(c, p.left.name, p.default)
      [] OTHER -> BindValue(Load(c, p.argument), p)

\* The instructions of a function: its parameters, then its body, in no scope.
LowerFunctionBody(prefix, fn) ==
    LowerStmts(FoldLeft(LowerParameter, NewContext(prefix), fn.params), fn.body).code
=============================================================================
