-------------------------- MODULE ExpressionLowering --------------------------
(***************************************************************************)
(* The lowering of expressions and of binding patterns                     *)
(* (crates/compiler/src/parse.rs, lower_expr to lower_assign_target).      *)
(*                                                                         *)
(* An expression is a record with a kind k and its parts.  Its lowering    *)
(* takes a context and gives the context after it with the operand v that  *)
(* holds the value.  What the abstraction keeps is which instruction comes *)
(* when, what it reads and writes, and where the jumps lead.  Operators,   *)
(* property names and literals are names; functions are lowered as bodies  *)
(* of their own by StatementLowering and are given here with their code.   *)
(***************************************************************************)
EXTENDS LoweringContext

\* The result of an expression; of a member also its object, of a part of an
\* optional chain also the flag that tells whether the chain was cut short.
Done(c, v) == [c |-> c, v |-> v, flag |-> NoReg, object |-> Imm(Undefined)]

Text(name) == Imm(<<"str", name>>)

\* An instruction whose destination is a fresh temporary.
IntoTemp(c, op, name, args) ==
    Done(Emit(WithTemps(c, 1), <<Computes(op, T(c, 0), name, args)>>), Reg(T(c, 0)))

Move(dst, v) == Computes("Move", dst, "", <<v>>)

Load(c, name) == IntoTemp(c, "LoadName", name, <<>>)

Chains == {"optmember", "optcall"}

IsPrefixOfChain(e) == e.k \in Chains

IsSpread(e) == e.k = "spread"

HasSpread(args) == \E i \in 1..Len(args) : IsSpread(args[i])

\* A member or a call at the end of a chain that was cut short is skipped.
SkippedWhen(c, flag, dst) ==
    Emit(WithLabels(c, 2),
         <<JumpIfFalse(Reg(flag), L(c, 0)), Move(dst, Imm(Undefined)),
           Jump(L(c, 1)), Label(L(c, 0))>>)
EndSkipped(c, read) == Emit(read, <<Label(L(c, 1))>>)

\* Mutant: the flag of the chain is not set when the chain is cut short.
NullishUnset(c, v, dst) ==
    Emit(WithTemps(WithLabels(c, 2), 2),
         <<Computes("Binary", T(c, 0), "==", <<v, Imm(Null)>>),
           JumpIfFalse(Reg(T(c, 0)), L(c, 0)),
           Move(dst, Imm(Undefined)), Move(T(c, 1), Imm(Bool(FALSE))),
           Jump(L(c, 1)), Label(L(c, 0))>>)

\* ?. : the rest of the chain runs only if v is neither null nor undefined.
Nullish(c, v, dst) ==
    Emit(WithTemps(WithLabels(c, 2), 2),
         <<Computes("Binary", T(c, 0), "==", <<v, Imm(Null)>>),
           JumpIfFalse(Reg(T(c, 0)), L(c, 0)),
           Move(dst, Imm(Undefined)), Move(T(c, 1), Imm(Bool(TRUE))),
           Jump(L(c, 1)), Label(L(c, 0))>>)

\* The read follows Nullish(c, ...); it reached its end, so nothing is cut short.
Optional(c, read, dst) ==
    [Done(Emit(read, <<Move(T(c, 1), Imm(Bool(FALSE))), Label(L(c, 1))>>), Reg(dst)) EXCEPT
        !.flag = T(c, 1)]

-----------------------------------------------------------------------------
RECURSIVE LowerExpr(_, _), LowerPattern(_, _, _)

\* The expressions in turn; the values in the same order.
LowerAll(c, es) ==
    FoldLeft(LAMBDA done, e :
                 LET r == LowerExpr(done.c, IF IsSpread(e) THEN e.e ELSE e)
                 IN  [c |-> r.c, vs |-> Append(done.vs, r.v)],
             [c |-> c, vs |-> <<>>], es)

\* lower_member_property and lower_prop_name_value.
LowerProp(c, prop) ==
    IF prop.k = "static" THEN Done(c, Imm(<<"str", prop.name>>)) ELSE LowerExpr(c, prop)

-----------------------------------------------------------------------------
(* Arrays, calls and their spread elements.                                *)

MethodCall(t, object, method, args) ==
    <<Computes("Member", t, "", <<object, Text(method)>>),
      Computes("Call", t + 1, "", <<Reg(t)>> \o args)>>

Combine(r, op, name) == IntoTemp(r.c, op, name, r.vs)

\* Instructions that compute a value from the values of the parts of e.
LowerInstruction(c, op, name, es) == Combine(LowerAll(c, es), op, name)

LowerBinary(c, e) == LowerInstruction(c, "Binary", e.op, <<e.left, e.right>>)

CallMethod(c, object, method, args) ==
    Done(Emit(WithTemps(c, 2), MethodCall(T(c, 0), object, method, args)), Reg(T(c, 1)))

\* The elements before a spread become an array; it joins the ones before it.
Concat(sofar, array) ==
    IF sofar = <<>> THEN [c |-> array.c, sofar |-> <<array.v>>, segment |-> <<>>]
    ELSE LET r == CallMethod(array.c, sofar[1], "concat", <<array.v>>)
         IN  [c |-> r.c, sofar |-> <<r.v>>, segment |-> <<>>]

FlushSegment(s) ==
    IF s.segment = <<>> THEN s ELSE Concat(s.sofar, IntoTemp(s.c, "Array", "", s.segment))

ArrayFrom(r) == CallMethod(r.c, Named("Array"), "from", <<r.v>>)

AddSpread(s, e) == Concat(s.sofar, ArrayFrom(LowerExpr(s.c, e)))

AddElement(s, r) == [s EXCEPT !.c = r.c, !.segment = Append(@, r.v)]

OneArray(s) == IF s.sofar = <<>> THEN IntoTemp(s.c, "Array", "", <<>>) ELSE Done(s.c, s.sofar[1])

AddToArray(s, e) ==
    IF IsSpread(e) THEN AddSpread(FlushSegment(s), e.e) ELSE AddElement(s, LowerExpr(s.c, e))

SpreadElements(c, es) ==
    OneArray(FlushSegment(FoldLeft(AddToArray, [c |-> c, sofar |-> <<>>, segment |-> <<>>], es)))

LowerArray(c, es) ==
    IF HasSpread(es) THEN SpreadElements(c, es) ELSE LowerInstruction(c, "Array", "", es)

EmitApply(array, dst, callee, this) ==
    Emit(WithTemps(array.c, 1),
         <<Computes("Member", T(array.c, 0), "", <<callee, Text("apply")>>),
           Computes("Call", dst, "", <<Reg(T(array.c, 0)), this, array.v>>)>>)

EmitPlain(r, dst, callee) == Emit(r.c, <<Computes("Call", dst, "", <<callee>> \o r.vs)>>)

\* With a spread argument the call goes through apply.
EmitCallTo(c, dst, callee, args, this) ==
    IF HasSpread(args) THEN EmitApply(SpreadElements(c, args), dst, callee, this)
    ELSE EmitPlain(LowerAll(c, args), dst, callee)

\* lower_expr_with_short_circuit
LowerWithFlag(c, e) ==
    IF IsPrefixOfChain(e) THEN LowerExpr(c, e) ELSE [LowerExpr(c, e) EXCEPT !.flag = NoReg]

\* The callee of a call; its object is what receives a call with a spread.
LowerCallee(c, e, args) ==
    IF HasSpread(args) /\ e.k = "member" THEN LowerExpr(c, e) ELSE LowerWithFlag(c, e)

\* What follows is skipped if the callee is the end of a chain that was cut short.
UnlessSkipped(c, flag, dst) == IF flag = NoReg THEN c ELSE SkippedWhen(c, flag, dst)
EndUnlessSkipped(c, flag, read) == IF flag = NoReg THEN read ELSE EndSkipped(c, read)

CallCallee(c, callee, dst, args) ==
    EndUnlessSkipped(c, callee.flag,
        EmitCallTo(UnlessSkipped(c, callee.flag, dst), dst, callee.v, args, callee.object))

CallInto(callee, args) ==
    Done(CallCallee(WithTemps(callee.c, 1), callee, T(callee.c, 0), args), Reg(T(callee.c, 0)))

\* super(...) calls the base class; what it returns is this.
ThisOfSuper(r, callee) ==
    IF callee.k = "super" THEN Done(Emit(r.c, <<StoreName("this", r.v)>>), r.v) ELSE r

LowerCall(c, e) ==
    LET callee == IF e.callee.k = "super" THEN Done(c, Named("super"))
                  ELSE LowerCallee(c, e.callee, e.args)
    IN  ThisOfSuper(CallInto(callee, e.args), e.callee)

-----------------------------------------------------------------------------
(* Members and optional chains.                                            *)

Read(c, dst, object, prop) ==
    LET p == LowerProp(c, prop)
    IN  Emit(p.c, <<Computes("Member", dst, "", <<object, p.v>>)>>)

PlainMember(object, prop) ==
    [IntoTemp(prop.c, "Member", "", <<object.v, prop.v>>) EXCEPT !.object = object.v]

\* A member of an optional chain is read unless the chain was cut short.
MemberOf(object, prop) ==
    LET c == WithTemps(object.c, 1)
        dst == T(object.c, 0)
    IN  IF object.flag = NoReg THEN PlainMember(object, LowerProp(object.c, prop))
        ELSE [c |-> EndSkipped(c, Read(SkippedWhen(c, object.flag, dst), dst, object.v, prop)),
              v |-> Reg(dst), flag |-> object.flag, object |-> object.v]

LowerMember(c, e) == MemberOf(LowerWithFlag(c, e.object), e.prop)

OptionalRead(object, dst, prop) ==
    Optional(object.c, Read(Nullish(object.c, object.v, dst), dst, object.v, prop), dst)

OptionalMember(c, e) == OptionalRead(LowerExpr(WithTemps(c, 1), e.object), T(c, 0), e.prop)

MovedTo(dst, r) ==
    [Done(Emit(r.c, <<Move(dst, r.v)>>), Reg(dst)) EXCEPT !.flag = r.flag]

MemberOfChain(c, e) == MovedTo(T(c, 0), LowerMember(WithTemps(c, 1), e))

\* The call itself comes between the two; both leave the context of the callee.
StartLink(callee, dst, optional) ==
    IF optional THEN Nullish(callee.c, callee.v, dst) ELSE UnlessSkipped(callee.c, callee.flag, dst)

EndLink(callee, dst, optional, call) ==
    IF optional THEN Optional(callee.c, call, dst)
    ELSE [Done(EndUnlessSkipped(callee.c, callee.flag, call), Reg(dst)) EXCEPT !.flag = callee.flag]

LinkCall(callee, dst, e) ==
    EndLink(callee, dst, e.optional,
            EmitCallTo(StartLink(callee, dst, e.optional), dst, callee.v, e.args, callee.object))

CallOfChain(c, e) == LinkCall(LowerCallee(WithTemps(c, 1), e.callee, e.args), T(c, 0), e)

\* lower_opt_chain_with_short_circuit
LowerChain(c, e) ==
    IF e.k = "optcall" THEN CallOfChain(c, e)
    ELSE IF e.optional THEN OptionalMember(c, e) ELSE MemberOfChain(c, e)

-----------------------------------------------------------------------------
(* Operators that run a part of their operands.                            *)

MoveAndEnd(r, dst, end) == Done(Emit(r.c, <<Move(dst, r.v), Label(end)>>), Reg(dst))

\* The operand on the right is lowered after code and moved to dst.
RightOperand(c, code, e, dst, end) == MoveAndEnd(LowerExpr(Emit(c, code), e.right), dst, end)

AndRight(left, e) ==
    LET dst == T(left.c, 0)
        end == L(left.c, 0)
    IN  RightOperand(WithLabels(WithTemps(left.c, 1), 1),
                     <<Move(dst, left.v), JumpIfFalse(left.v, end)>>, e, dst, end)

LowerAnd(c, e) == AndRight(LowerExpr(c, e.left), e)

OrRight(left, e) ==
    LET dst == T(left.c, 0)
        rhs == L(left.c, 0)
        end == L(left.c, 1)
    IN  RightOperand(WithLabels(WithTemps(left.c, 1), 2),
                     <<Move(dst, left.v), JumpIfFalse(left.v, rhs), Jump(end), Label(rhs)>>,
                     e, dst, end)

LowerOr(c, e) == OrRight(LowerExpr(c, e.left), e)

NullishRight(left, e) ==
    LET dst == T(left.c, 0)
        check == L(left.c, 0)
        rhs == L(left.c, 1)
        end == L(left.c, 2)
    IN  RightOperand(WithLabels(WithTemps(left.c, 3), 3),
                     <<Move(dst, left.v),
                       Computes("Binary", dst + 1, "==", <<left.v, Imm(Null)>>),
                       JumpIfFalse(Reg(dst + 1), check), Jump(rhs), Label(check),
                       Computes("Binary", dst + 2, "==", <<left.v, Imm(Undefined)>>),
                       JumpIfFalse(Reg(dst + 2), end), Label(rhs)>>,
                     e, dst, end)

LowerNullish(c, e) == NullishRight(LowerExpr(c, e.left), e)

LowerCond(c, e) ==
    LET dst == T(c, 0)
        else == L(c, 0)
        end == L(c, 1)
        test == LowerExpr(WithLabels(WithTemps(c, 1), 2), e.test)
        cons == LowerExpr(Emit(test.c, <<JumpIfFalse(test.v, else)>>), e.cons)
        alt == LowerExpr(Emit(cons.c, <<Move(dst, cons.v), Jump(end), Label(else)>>), e.alt)
    IN  Done(Emit(alt.c, <<Move(dst, alt.v), Label(end)>>), Reg(dst))

-----------------------------------------------------------------------------
(* Assignment.                                                             *)

\* lower_assign_target_read
ReadTarget(c, target) ==
    CASE target.k = "id" -> Load(c, target.name)
      [] target.k = "member" -> LowerMember(c, target)
      [] target.k = "pattern" -> Done(c, Imm(Undefined))

StoreAt(object, prop, v) ==
    Emit(prop.c, <<Computes("StoreMember", NoReg, "", <<object, prop.v, v>>)>>)

StoreInto(object, prop, v) == StoreAt(object.v, LowerProp(object.c, prop), v)

\* lower_assign_target: the object and the property are evaluated here, after the
\* value, and for a compound assignment a second time.
AssignTo(c, target, v) ==
    CASE target.k = "id" -> Emit(c, <<StoreName(target.name, v)>>)
      [] target.k = "member" -> StoreInto(LowerExpr(c, target.object), target.prop, v)
      [] target.k = "pattern" -> LowerPattern(c, target.pattern, v)

AssignResult(r, target) == Done(AssignTo(r.c, target, r.v), r.v)

LowerAssign(c, e) == AssignResult(LowerExpr(c, e.right), e.target)

Combined(current, e) ==
    LET right == LowerExpr(current.c, e.right)
    IN  IntoTemp(right.c, "Binary", e.op, <<current.v, right.v>>)

LowerCompound(c, e) == AssignResult(Combined(ReadTarget(c, e.target), e), e.target)

Updated(old, e) ==
    LET new == IntoTemp(old.c, "Unary", "++", <<old.v>>)
    IN  Done(AssignTo(new.c, e.target, new.v), IF e.prefix THEN new.v ELSE old.v)

LowerUpdate(c, e) == Updated(LowerExpr(c, e.target), e)

\* delete stores undefined into the member.
LowerDelete(c, e) ==
    IF e.e.k = "member"
    THEN Done(AssignTo(c, e.e, Imm(Undefined)), Imm(Bool(TRUE)))
    ELSE Done(LowerExpr(c, e.e).c, Imm(Bool(TRUE)))

-----------------------------------------------------------------------------
(* Objects, classes and functions.                                         *)

\* The value comes before a computed key.
AddValue(s, r, p) ==
    LET key == LowerProp(r.c, p.prop)
    IN  IF p.k = "spread" \/ p.prop.k = "static"
        THEN [s EXCEPT !.c = r.c, !.static = Append(@, r.v)]
        ELSE [s EXCEPT !.c = key.c, !.dynamic = Append(@, <<key.v, r.v>>)]

\* Computed properties are stored when the object has been made.
StoreComputed(object, dynamic) ==
    Done(Emit(object.c,
              [i \in 1..Len(dynamic) |->
                  Computes("StoreMember", NoReg, "", <<object.v, dynamic[i][1], dynamic[i][2]>>)]),
         object.v)

NewObject(s) == StoreComputed(IntoTemp(s.c, "Object", "", s.static), s.dynamic)

LowerObject(c, e) ==
    LET Add(s, p) == AddValue(s, LowerExpr(s.c, p.e), p)
    IN  NewObject(FoldLeft(Add, [c |-> c, static |-> <<>>, dynamic |-> <<>>], e.props))

\* The body is lowered in a child context when the function is built.
LowerFunction(c, e) ==
    Done(Emit(WithChild(WithTemps(c, 1)),
              <<FunctionExpr(T(c, 0), e, Append(c.prefix, c.child))>>),
         Reg(T(c, 0)))

\* Members are stored into the class, those of instances under prototype.
LowerClass(c, e) ==
    LET c1 == WithTemps(c, 1)
        super == IF e.super = <<>> THEN Done(c1, Imm(Undefined)) ELSE LowerExpr(c1, e.super[1])
        c2 == Emit(super.c, <<Computes("Class", T(c, 0), "", <<super.v>>)>>)
        Add(d, m) ==
            LET r == LowerExpr(d, m.e)
            IN  Emit(r.c, <<Computes("StoreMember", NoReg, "",
                              <<Reg(T(c, 0)), Text(m.name), r.v>>)>>)
    IN  Done(FoldLeft(Add, c2, e.members), Reg(T(c, 0)))

-----------------------------------------------------------------------------
(* Patterns.                                                               *)

\* lower_defaulted_value
Defaulted(c, v, default) ==
    LET dst == T(c, 0)
        test == Emit(WithLabels(WithTemps(c, 2), 1),
                     <<Move(dst, v),
                       Computes("Binary", dst + 1, "===", <<Reg(dst), Imm(Undefined)>>),
                       JumpIfFalse(Reg(dst + 1), L(c, 0))>>)
    IN  IF v = Imm(Undefined) THEN LowerExpr(c, default)
        ELSE MoveAndEnd(LowerExpr(test, default), dst, L(c, 0))

\* lower_pat_default: the default of a parameter that is a plain name.
StoreAndEnd(r, name, end) == Emit(r.c, <<StoreName(name, r.v), Label(end)>>)

ParameterDefault(c, name, default) ==
    LET test == Emit(WithLabels(WithTemps(c, 2), 1),
                     <<Computes("LoadName", T(c, 0), name, <<>>),
                       Computes("Binary", T(c, 1), "==", <<Reg(T(c, 0)), Imm(Undefined)>>),
                       JumpIfFalse(Reg(T(c, 1)), L(c, 0))>>)
    IN  StoreAndEnd(LowerExpr(test, default), name, L(c, 0))

\* lower_iterator_next_value: v is the item, undefined at the end, done the flag.
IteratorNext(c, iterator) ==
    LET step == Reg(T(c, 1))
        done == T(c, 2)
        item == T(c, 3)
        end == L(c, 0)
        value == L(c, 1)
    IN  [c |-> Emit(WithLabels(WithTemps(c, 4), 2),
                    MethodCall(T(c, 0), iterator, "next", <<>>)
                    \o <<Computes("Member", done, "", <<step, Text("done")>>),
                         Move(item, Imm(Undefined)), JumpIfFalse(Reg(done), value), Jump(end),
                         Label(value), Computes("Member", item, "", <<step, Text("value")>>),
                         Label(end)>>),
         v |-> Reg(item), done |-> Reg(done)]

\* lower_iterator_rest
PushNext(next, array, start, end) ==
    LET push == <<start[1], start[2], "push">>
    IN  Done(Emit(WithTemps(next.c, 2),
                  <<JumpIfFalse(next.done, push), Jump(end), Label(push)>>
                  \o MethodCall(T(next.c, 0), array, "push", <<next.v>>)
                  \o <<Jump(start), Label(end)>>),
             array)

IteratorRest(c, iterator) ==
    LET start == L(c, 0)
        c1 == Emit(WithLabels(WithTemps(c, 1), 2),
                   <<Computes("Array", T(c, 0), "", <<>>), Label(start)>>)
    IN  PushNext(IteratorNext(c1, iterator), Reg(T(c, 0)), start, L(c, 1))

\* lower_iterator_close: an iterator that is not done is told to return.
IteratorClose(c, iterator, done) ==
    LET end == L(c, 0)
        check == <<end[1], end[2], "check_return">>
        method == T(c, 0)
        has == T(c, 1)
    IN  Emit(WithLabels(WithTemps(c, 3), 1),
             <<JumpIfFalse(done, check), Jump(end), Label(check),
               Computes("Member", method, "", <<iterator, Text("return")>>),
               Computes("Binary", has, "!=", <<Reg(method), Imm(Undefined)>>),
               JumpIfFalse(Reg(has), end),
               Computes("Call", T(c, 2), "", <<Reg(method)>>), Label(end)>>)

LowerElement(next, done, elem) ==
    LET c == Emit(next.c, <<Move(done, next.done)>>)
    IN  IF elem.k = "hole" THEN c ELSE LowerPattern(c, elem, next.v)

LowerRest(rest, done, elem) ==
    LowerPattern(Emit(rest.c, <<Move(done, Imm(Bool(TRUE)))>>), elem, rest.v)

CloseUnlessRest(c, elems, iterator, done) ==
    IF \E i \in 1..Len(elems) : elems[i].k = "rest" THEN c ELSE IteratorClose(c, iterator, Reg(done))

LowerElements(c, iterator, elems) ==
    CloseUnlessRest(
        FoldLeft(LAMBDA d, elem :
                     IF elem.k = "rest" THEN LowerRest(IteratorRest(d, iterator), T(c, 0), elem)
                     ELSE LowerElement(IteratorNext(d, iterator), T(c, 0), elem),
                 Emit(WithTemps(c, 1), <<Move(T(c, 0), Imm(Bool(FALSE)))>>), elems),
        elems, iterator, T(c, 0))

ElementsOf(iterator, elems) == LowerElements(iterator.c, iterator.v, elems)

LowerArrayPattern(c, elems, v) ==
    ElementsOf(CallMethod(c, v, "Symbol.iterator", <<>>), elems)

BindRest(s, rest, pattern) == [s EXCEPT !.c = LowerPattern(rest.c, pattern, rest.v)]

\* static_property_key: of a computed key, which is in a register, the text of
\* the register's name.
StaticKey(key) == IF key[1] = "imm" THEN key ELSE Imm(<<"text", key>>)

BindItem(s, key, item, pattern) ==
    [c |-> LowerPattern(item.c, pattern, item.v), keys |-> Append(s.keys, StaticKey(key.v))]

BindKey(s, key, v, pattern) ==
    BindItem(s, key, IntoTemp(key.c, "Member", "", <<v, key.v>>), pattern)

BindProperty(s, p, v) ==
    IF p.k = "rest" THEN BindRest(s, IntoTemp(s.c, "ObjectRest", "", <<v>> \o s.keys), p.arg)
    ELSE BindKey(s, LowerProp(s.c, p.prop), v, p.pattern)

\* A member is read to see that v is an object; the rest leaves out the static
\* keys before it.
LowerObjectPattern(c, props, v) ==
    FoldLeft(LAMBDA s, p : BindProperty(s, p, v),
             [c |-> IntoTemp(c, "Member", "", <<v, Text("__js_vm_to_object_check__")>>).c,
              keys |-> <<>>],
             props).c

BindValue(r, pattern) == LowerPattern(r.c, pattern, r.v)

\* lower_pat_binding
LowerPattern(c, pattern, v) ==
    CASE pattern.k = "ident" ->
            Emit(c, <<Declare(pattern.name), StoreName(pattern.name, v)>>)
      [] pattern.k = "default" ->
            BindValue(Defaulted(c, v, pattern.default), pattern.left)
      [] pattern.k = "array" -> LowerArrayPattern(c, pattern.elems, v)
      [] pattern.k = "object" -> LowerObjectPattern(c, pattern.props, v)
      [] pattern.k = "rest" -> LowerPattern(c, pattern.arg, v)
      [] pattern.k = "target" -> AssignTo(c, pattern.target, v)

-----------------------------------------------------------------------------
LastOf(r) == Done(r.c, Last(r.vs))

LowerSequence(c, es) == LastOf(LowerAll(c, es))

LowerExpr(c, e) ==
    CASE e.k = "lit" -> IntoTemp(c, "Move", "", <<Imm(e.value)>>)
      [] e.k = "undefined" -> Done(c, Imm(Undefined))
      [] e.k = "this" -> Done(c, Named("this"))
      [] e.k = "id" -> Load(c, e.name)
      [] e.k = "binary" -> LowerBinary(c, e)
      [] e.k = "and" -> LowerAnd(c, e)
      [] e.k = "or" -> LowerOr(c, e)
      [] e.k = "nullish" -> LowerNullish(c, e)
      [] e.k = "cond" -> LowerCond(c, e)
      [] e.k = "unary" -> LowerInstruction(c, "Unary", e.op, <<e.e>>)
      [] e.k = "delete" -> LowerDelete(c, e)
      [] e.k = "assign" -> LowerAssign(c, e)
      [] e.k = "compound" -> LowerCompound(c, e)
      [] e.k = "update" -> LowerUpdate(c, e)
      [] e.k = "call" -> LowerCall(c, e)
      [] e.k = "new" -> LowerInstruction(c, "New", "", <<e.callee>> \o e.args)
      [] e.k = "member" -> LowerMember(c, e)
      [] e.k \in Chains -> LowerChain(c, e)
      [] e.k = "array" -> LowerArray(c, e.elems)
      [] e.k = "object" -> LowerObject(c, e)
      [] e.k = "template" -> LowerInstruction(c, "Template", "", e.exprs)
      [] e.k = "seq" -> LowerSequence(c, e.exprs)
      [] e.k \in {"yield", "await"} -> LowerInstruction(c, e.k, "", <<e.e>>)
      [] e.k = "fn" -> LowerFunction(c, e)
      [] e.k = "class" -> LowerClass(c, e)
=============================================================================
