--------------------------- MODULE SourceSemantics ---------------------------
(***************************************************************************)
(* What a program means as it is written: the reference that compiled code *)
(* is compared with.  It goes down the syntax of the program and knows     *)
(* nothing of temporaries, labels, jumps or blocks.                        *)
(*                                                                         *)
(* A state has the trace of events so far, the answers left for those to   *)
(* come, the values of names, the number of scope frames, how the last     *)
(* statement or expression ended (out) and the value it had (v).  Nothing  *)
(* is evaluated in a state that did not end normally, so that an operator  *)
(* says what comes after what and abrupt completions pass through it.      *)
(***************************************************************************)
EXTENDS ObservedEffects

Normal == <<"value">>
Ok(s) == s.out = Normal
Give(s, v) == IF Ok(s) THEN [s EXCEPT !.v = v] ELSE s
Abrupt(s, out) == IF Ok(s) THEN [s EXCEPT !.out = out] ELSE s
Bind(s, name, v) == IF Ok(s) THEN [s EXCEPT !.vars = (name :> v) @@ @] ELSE s
Lookup(s, name) == IF name \in DOMAIN s.vars THEN s.vars[name] ELSE Global(name)

\* An event, and the answer to it.
Happens(s, op, name, args) ==
    CASE ~Ok(s) -> s
      [] Ok(s) /\ FailsAtOnce(op, args) -> Abrupt(s, <<"throw", TypeError>>)
      [] Ok(s) /\ ~FailsAtOnce(op, args) /\ s.left = <<>> -> Abrupt(s, <<"cut">>)
      [] OTHER ->
            LET after == [s EXCEPT !.trace = Append(@, Event(op, name, args, s.frames)),
                                   !.left = Tail(@)]
            IN  IF Fails(s.left[1]) THEN Abrupt(after, <<"throw", s.left[1]>>)
                ELSE Give(after, s.left[1])

Get(s, object, key) == Happens(s, "Member", "", <<object, key>>)

CallOf(f, args) == Happens(f, "Call", "", <<f.v>> \o args)
Invoke(s, object, method) == CallOf(Get(s, object, Str(method)), <<>>)

\* Inside n more scopes, and back in those of s.
Inside(s, n) == [s EXCEPT !.frames = @ + n]
Outside(t, s) == [t EXCEPT !.frames = s.frames]

RECURSIVE Ev(_, _), Link(_, _), BindTo(_, _, _)

AddValue(vs, t, isSpread) ==
    [s |-> t, vs |-> Append(vs, IF isSpread THEN Spread(t.v) ELSE t.v)]

\* The values of expressions from left to right; a spread keeps its place.
EvAll(s, es) ==
    FoldLeft(LAMBDA done, e :
                 AddValue(done.vs, Ev(done.s, IF e.k = "spread" THEN e.e ELSE e), e.k = "spread"),
             [s |-> s, vs |-> <<>>], es)

Key(s, prop) == IF prop.k = "static" THEN Give(s, Str(prop.name)) ELSE Ev(s, prop)

GetKey(k, object) == Get(k, object, k.v)
MemberOf(s, object, prop) == GetKey(Key(s, prop), object)

CallsWith(all, callee) == Happens(all.s, "Call", "", <<callee>> \o all.vs)
CallWith(s, callee, args) == CallsWith(EvAll(s, args), callee)

HappensWith(all, op, name) == Happens(all.s, op, name, all.vs)
Eager(s, op, name, es) == HappensWith(EvAll(s, es), op, name)

StoreAt(k, object, v) == Give(Happens(k, "StoreMember", "", <<object, k.v, v>>), v)
StoreInto(o, prop, v) == StoreAt(Key(o, prop), o.v, v)

Assign(s, target, v) ==
    CASE target.k = "id" -> Give(Bind(s, target.name, v), v)
      [] target.k = "member" -> StoreInto(Ev(s, target.object), target.prop, v)
      [] target.k = "pattern" -> Give(BindTo(s, target.pattern, v), v)

AssignResult(r, target) == Assign(r, target, r.v)

-----------------------------------------------------------------------------
(* Expressions.                                                            *)

\* A link of an optional chain: "short" leaves the whole chain.
Cut(t, optional) == IF optional /\ Nullish(t.v) THEN Abrupt(t, <<"short">>) ELSE t

LinkMember(object, e) == MemberOf(Cut(object, e.optional), object.v, e.prop)
LinkCall(callee, e) == CallWith(Cut(callee, e.optional), callee.v, e.args)

Link(s, e) ==
    CASE e.k = "optmember" -> LinkMember(Link(s, e.object), e)
      [] e.k = "optcall" -> LinkCall(Link(s, e.callee), e)
      [] OTHER -> Ev(s, e)

EndChain(t) == IF t.out = <<"short">> THEN [t EXCEPT !.out = Normal, !.v = Undefined] ELSE t

\* Comparisons and sums of numbers are known; other operators are answered.
BinaryOp(all, op) ==
    IF Ok(all.s) /\ op \in Internal THEN Give(all.s, Apply(op, all.vs[1], all.vs[2]))
    ELSE HappensWith(all, "Binary", op)

\* The operand on the right is evaluated when it decides.
Decides(op, v) ==
    CASE op = "and" -> Truthy(v)
      [] op = "or" -> ~Truthy(v)
      [] op = "nullish" -> Nullish(v)

RightOf(left, e) == IF Ok(left) /\ Decides(e.k, left.v) THEN Ev(left, e.right) ELSE left

Chosen(t, e) == IF ~Ok(t) THEN t ELSE Ev(t, IF Truthy(t.v) THEN e.cons ELSE e.alt)

Updated(new, old, e) == Give(Assign(new, e.target, new.v), IF e.prefix THEN new.v ELSE old)
Update(old, e) == Updated(Happens(old, "Unary", "++", <<old.v>>), old.v, e)

BindThis(t) == Bind(t, "this", t.v)

CallValue(callee, args) == CallWith(callee, callee.v, args)

Call(s, e) ==
    IF e.callee.k = "super" THEN BindThis(CallWith(s, Lookup(s, "super"), e.args))
    ELSE CallValue(Ev(s, e.callee), e.args)

MemberOfValue(o, prop) == MemberOf(o, o.v, prop)

ArrayOf(all) == Give(all.s, Arr(all.vs))

StoreMember(v, class, name) == Happens(v, "StoreMember", "", <<class, Str(name), v.v>>)

StoreMembers(class, members) ==
    Give(FoldLeft(LAMBDA t, m : StoreMember(Ev(t, m.e), class.v, m.name), class, members), class.v)

NewClass(base, members) == StoreMembers(Happens(base, "Class", "", <<base.v>>), members)

Ev(s, e) ==
    IF ~Ok(s) THEN s
    ELSE CASE e.k = "lit" -> Give(s, e.value)
           [] e.k = "undefined" -> Give(s, Undefined)
           [] e.k = "this" -> Give(s, Lookup(s, "this"))
           [] e.k = "id" -> Give(s, Lookup(s, e.name))
           [] e.k = "binary" -> BinaryOp(EvAll(s, <<e.left, e.right>>), e.op)
           [] e.k \in {"and", "or", "nullish"} -> RightOf(Ev(s, e.left), e)
           [] e.k = "cond" -> Chosen(Ev(s, e.test), e)
           [] e.k = "unary" -> Eager(s, "Unary", e.op, <<e.e>>)
           [] e.k = "assign" -> AssignResult(Ev(s, e.right), e.target)
           [] e.k = "compound" ->
                AssignResult(Eager(s, "Binary", e.op, <<e.target, e.right>>), e.target)
           [] e.k = "update" -> Update(Ev(s, e.target), e)
           [] e.k = "call" -> Call(s, e)
           [] e.k = "new" -> Eager(s, "New", "", <<e.callee>> \o e.args)
           [] e.k = "member" -> MemberOfValue(Ev(s, e.object), e.prop)
           [] e.k \in {"optmember", "optcall"} -> EndChain(Link(s, e))
           [] e.k = "array" -> ArrayOf(EvAll(s, e.elems))
           [] e.k = "object" -> Eager(s, "Object", "", [i \in DOMAIN e.props |-> e.props[i].e])
           [] e.k = "template" -> Eager(s, "Template", "", e.exprs)
           [] e.k = "seq" -> EvAll(s, e.exprs).s
           [] e.k \in {"yield", "await"} -> Eager(s, e.k, "", <<e.e>>)
           [] e.k = "fn" -> Give(s, <<"fn", e.id>>)
           [] e.k = "class" ->
                NewClass(IF e.super = <<>> THEN Give(s, Undefined) ELSE Ev(s, e.super[1]), e.members)

-----------------------------------------------------------------------------
(* Patterns.  An iterator is asked for an item for each element, and told  *)
(* to return when the pattern ends before it does.                         *)

StepValue(done, step) ==
    IF Ok(done) /\ Truthy(done.v) THEN [s |-> Give(done, Undefined), done |-> TRUE]
    ELSE [s |-> Get(done, step, Str("value")), done |-> FALSE]

StepDone(step) == StepValue(Get(step, step.v, Str("done")), step.v)

Step(s, iterator) == StepDone(Invoke(s, iterator, "next"))

CallReturn(return) ==
    IF Ok(return) /\ ~Nullish(return.v) THEN CallOf(return, <<>>) ELSE return

Close(s, iterator) == CallReturn(Get(s, iterator, Str("return")))

\* What an iterator has left goes into an array, item by item.
RECURSIVE Rest(_, _)

PushAll(next, iterator) ==
    IF ~Ok(next.s) \/ next.done THEN Give(next.s, Arr(<<>>))
    ELSE Rest(CallOf(Get(next.s, Arr(<<>>), Str("push")), <<next.s.v>>), iterator)

Rest(s, iterator) == PushAll(Step(s, iterator), iterator)

NextOf(b, iterator) ==
    IF b.done THEN [s |-> Give(b.s, Undefined), done |-> TRUE] ELSE Step(b.s, iterator)

BindValue(t, pattern) == BindTo(t, pattern, t.v)

BindItem(next, elem) == IF elem.k = "hole" THEN next ELSE [next EXCEPT !.s = BindValue(@, elem)]

BindElement(b, elem, iterator) ==
    IF elem.k = "rest" THEN [s |-> BindValue(Rest(b.s, iterator), elem), done |-> TRUE]
    ELSE BindItem(NextOf(b, iterator), elem)

EndElements(b, iterator) == IF Ok(b.s) /\ ~b.done THEN Close(b.s, iterator) ELSE b.s

BindElements(iterator, elems) ==
    EndElements(FoldLeft(LAMBDA b, elem : BindElement(b, elem, iterator.v),
                         [s |-> iterator, done |-> FALSE], elems),
                iterator.v)

BindKey(keys, key, v, pattern) ==
    [s |-> BindValue(Get(key, v, key.v), pattern), keys |-> Append(keys, key.v)]

BindProperty(b, p, v) ==
    IF p.k = "rest"
    THEN [b EXCEPT !.s = BindValue(Happens(@, "ObjectRest", "", <<v>> \o b.keys), p.arg)]
    ELSE BindKey(b.keys, Key(b.s, p.prop), v, p.pattern)

BindProperties(check, props, v) ==
    FoldLeft(LAMBDA b, p : BindProperty(b, p, v), [s |-> check, keys |-> <<>>], props).s

BindTo(s, pattern, v) ==
    IF ~Ok(s) THEN s
    ELSE CASE pattern.k = "ident" -> Bind(s, pattern.name, v)
           [] pattern.k = "default" ->
                BindValue(IF v = Undefined THEN Ev(s, pattern.default) ELSE Give(s, v), pattern.left)
           [] pattern.k = "array" -> BindElements(Invoke(s, v, "Symbol.iterator"), pattern.elems)
           [] pattern.k = "object" ->
                BindProperties(Get(s, v, Str("__js_vm_to_object_check__")), pattern.props, v)
           [] pattern.k = "rest" -> BindTo(s, pattern.arg, v)
           [] pattern.k = "target" -> Assign(s, pattern.target, v)

-----------------------------------------------------------------------------
(* Statements.                                                             *)

RECURSIVE Ex(_, _, _), Loop(_, _, _, _), EachFrom(_, _, _, _, _, _)

ExAll(s, body) == FoldLeft(LAMBDA t, l : Ex(t, l, {}), s, body)
Scoped(s, n, body) == Outside(ExAll(Inside(s, n), body), s)

\* Labels of a loop that its own statement has.
Ends(out, kind, labels) == out[1] = kind /\ (out[2] = <<>> \/ out[2] \in labels)

Resumed(s) == [s EXCEPT !.out = Normal]

\* An iteration ends normally or with a continue of its own loop.
Continued(s, labels) == IF Ends(s.out, "continue", labels) THEN Resumed(s) ELSE s

Broken(s, labels) == IF Ends(s.out, "break", labels) THEN Resumed(s) ELSE s

TestOf(s, test) == IF test = <<>> THEN Give(s, Bool(TRUE)) ELSE Ev(s, test[1])

UpdateOf(s, update) == IF update = <<>> THEN s ELSE Ev(s, update[1])

\* while and for: test, body, update.
Iterate(test, l, labels) ==
    IF Ok(test) /\ ~Truthy(test.v) THEN test
    ELSE Loop(UpdateOf(Continued(Ex(test, l.body, {}), labels), l.update), l, labels, FALSE)

Loop(s, l, labels, first) ==
    IF ~Ok(s) THEN s
    ELSE Iterate(IF first THEN Give(s, Bool(TRUE)) ELSE TestOf(s, l.test), l, labels)

EachItem(item, l, labels) ==
    Continued(Ex(BindValue(Inside(item, IF l.lexical THEN 1 ELSE 0), l.pattern), l.body, {}), labels)

EachFrom(s, l, labels, v, i, n) ==
    IF ~Ok(s) \/ i >= n THEN s
    ELSE EachFrom(Outside(EachItem(Get(s, v, Num(i)), l, labels), s), l, labels, v, i + 1, n)

KeysOf(right) == CallOf(Get(right, Global("Object"), Str("keys")), <<right.v>>)

EachOf(length, l, labels, v) ==
    IF Ok(length) THEN EachFrom(length, l, labels, v, 0, length.v[2]) ELSE length

Iterated(from, l, labels) ==
    IF Ok(from) /\ Nullish(from.v) THEN from
    ELSE EachOf(Get(from, from.v, Str("length")), l, labels, from.v)

Each(right, l, labels) ==
    IF Ok(right) /\ Nullish(right.v) THEN right
    ELSE Iterated(IF l.kind = "in" THEN KeysOf(right) ELSE right, l, labels)

\* The first case that matches.
Matches(t, d, i) == [s |-> t, at |-> IF Ok(t) /\ t.v = d THEN i ELSE 0]

FindCase(found, d, case, i) ==
    IF case.test = <<>> \/ found.at # 0 \/ ~Ok(found.s) THEN found
    ELSE Matches(Ev(found.s, case.test[1]), d, i)

\* From that case on, from the default one if there is none.
FromCase(found, cases) ==
    LET n == Len(cases)
        default == {i \in 1..n : cases[i].test = <<>>}
        start == IF found.at # 0 THEN found.at
                 ELSE IF default = {} THEN n + 1 ELSE CHOOSE i \in default : TRUE
    IN  ExAll(found.s, FlattenSeq([i \in 1..(n - start + 1) |-> cases[start + i - 1].body]))

Switch(d, cases) ==
    FromCase(FoldLeft(LAMBDA found, i : FindCase(found, d.v, cases[i], i), [s |-> d, at |-> 0],
                      [i \in 1..Len(cases) |-> i]),
             cases)

BindParameter(s, param, v) == IF param = "" THEN s ELSE Bind(s, param, v)

Caught(body, l) ==
    IF l.catch = <<>> \/ body.out[1] # "throw" THEN body
    ELSE Outside(Scoped(BindParameter(Inside(Resumed(body), 1), l.param, body.out[2]), 1, l.catch[1]),
                 body)

\* What the finally part does not end itself ends as the part before it did.
EndFinally(final, out) == IF Ok(final) THEN [final EXCEPT !.out = out] ELSE final

Finally(caught, l) ==
    IF l.finally = <<>> \/ caught.out[1] = "cut" THEN caught
    ELSE EndFinally(Scoped(Resumed(caught), 1, l.finally[1]), caught.out)

BreakLabelled(t, label) ==
    IF Ends(t.out, "break", {label}) /\ t.out[2] # <<>> THEN Resumed(t) ELSE t

\* A lexical head has its scope, and each iteration one more.
For(s, l, labels) ==
    LET n == IF l.names = <<>> THEN 0 ELSE 1
        init == IF l.init = <<>> THEN Inside(s, n) ELSE Ex(Inside(s, n), l.init[1], {})
    IN  Outside(Loop(Inside(init, n), l, labels, FALSE), s)

BothBranches(t, l) ==
    IF ~Ok(t) THEN t
    ELSE IF Truthy(t.v) THEN Ex(t, l.cons, {})
    ELSE IF l.alt = <<>> THEN t ELSE Ex(t, l.alt[1], {})

LeaveWith(t, kind) == Abrupt(t, <<kind, t.v>>)

\* A statement with the labels before it.
Ex(s, l, labels) ==
    IF ~Ok(s) THEN s
    ELSE CASE l.k = "empty" -> s
           [] l.k = "expr" -> Ev(s, l.e)
           [] l.k = "var" ->
                BindValue(IF l.init = <<>> THEN Give(s, Undefined) ELSE Ev(s, l.init[1]), l.pattern)
           [] l.k = "block" -> Scoped(s, 1, l.body)
           [] l.k = "if" -> BothBranches(Ev(s, l.test), l)
           [] l.k = "break" -> Abrupt(s, <<"break", l.label>>)
           [] l.k = "continue" -> Abrupt(s, <<"continue", l.label>>)
           [] l.k = "try" -> Finally(Caught(Scoped(s, 1, l.body), l), l)
           [] l.k \in {"return", "throw"} ->
                LeaveWith(IF l.value = <<>> THEN Give(s, Undefined) ELSE Ev(s, l.value[1]), l.k)
           [] l.k = "labeled" -> BreakLabelled(Ex(s, l.body, labels \cup {l.label}), l.label)
           [] l.k \in {"while", "do"} ->
                Broken(Loop(s, [test |-> <<l.test>>, update |-> <<>>, body |-> l.body], labels,
                            l.k = "do"), labels)
           [] l.k = "for" -> Broken(For(s, l, labels), labels)
           [] l.k = "foreach" -> Broken(Each(Ev(s, l.right), l, labels), labels)
           [] l.k = "switch" -> Broken(Switch(Ev(s, l.discriminant), l.cases), labels)

-----------------------------------------------------------------------------
\* A parameter is bound to its argument.
Enter(s, p) == BindTo(s, p, Lookup(s, p.argument))

\* The whole run of a function, given its arguments and the answers it gets.
Meaning(fn, given, answers, frames) ==
    LET start == [trace |-> <<>>, left |-> answers, vars |-> given, frames |-> frames,
                  out |-> Normal, v |-> Undefined]
    IN  ExAll(FoldLeft(Enter, start, fn.params), fn.body)
=============================================================================
