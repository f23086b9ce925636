---------------------------- MODULE MCSourceRuns ----------------------------
(***************************************************************************)
(* Programs for SourceRuns.  Their variables have different names: which   *)
(* of two variables a name means is the subject of LexicalEnv.             *)
(***************************************************************************)
EXTENDS SourceRuns

-----------------------------------------------------------------------------
(* Syntax.                                                                 *)

Id(n) == [k |-> "id", name |-> n]
Lit(v) == [k |-> "lit", value |-> v]
Two(op, left, right) == [k |-> op, left |-> left, right |-> right]
Bin(op, left, right) == [k |-> "binary", op |-> op, left |-> left, right |-> right]
Cond(test, cons, alt) == [k |-> "cond", test |-> test, cons |-> cons, alt |-> alt]
Set(target, right) == [k |-> "assign", target |-> target, right |-> right]
Compound(target, op, right) == [k |-> "compound", op |-> op, target |-> target, right |-> right]
Update(target, prefix) == [k |-> "update", target |-> target, prefix |-> prefix]
Ask(f, args) == [k |-> "call", callee |-> f, args |-> args]
F(f) == Ask(Id(f), <<>>)
F1(f, arg) == Ask(Id(f), <<arg>>)
F2(f, a, b) == Ask(Id(f), <<a, b>>)
New(f, args) == [k |-> "new", callee |-> f, args |-> args]
Static(name) == [k |-> "static", name |-> name]
Dot(object, name) == [k |-> "member", object |-> object, prop |-> Static(name)]
At(object, prop) == [k |-> "member", object |-> object, prop |-> prop]
ChainDot(object, optional, prop) ==
    [k |-> "optmember", object |-> object, optional |-> optional, prop |-> prop]
ChainCall(callee, optional, args) ==
    [k |-> "optcall", callee |-> callee, optional |-> optional, args |-> args]
Dots(e) == [k |-> "spread", e |-> e]
ArrayOf(elems) == [k |-> "array", elems |-> elems]
ObjectOf(props) == [k |-> "object", props |-> props]
Prop(name, e) == [k |-> "value", prop |-> Static(name), e |-> e]
Fn(id, params, body) == [k |-> "fn", id |-> id, params |-> params, body |-> body]

Ident(n) == [k |-> "ident", name |-> n]
Default(left, default) == [k |-> "default", left |-> left, default |-> default]
Items(elems) == [k |-> "array", elems |-> elems]
Keys(props) == [k |-> "object", props |-> props]
KeyAs(prop, pattern) == [k |-> "key", prop |-> prop, pattern |-> pattern]
RestAs(arg) == [k |-> "rest", arg |-> arg]

Empty == [k |-> "empty"]
Expr(e) == [k |-> "expr", e |-> e]
Var(pattern, e) == [k |-> "var", pattern |-> pattern, init |-> <<e>>]
Bare(name) == [k |-> "var", pattern |-> Ident(name), init |-> <<>>]
Do(f) == Expr(F(f))
Do1(f, arg) == Expr(F1(f, arg))
BlockOf(body) == [k |-> "block", body |-> body]
If(test, cons) == [k |-> "if", test |-> test, cons |-> cons, alt |-> <<>>]
IfElse(test, cons, alt) == [k |-> "if", test |-> test, cons |-> cons, alt |-> <<alt>>]
Labelled(l, body) == [k |-> "labeled", label |-> <<l>>, body |-> body]
Break == [k |-> "break", label |-> <<>>]
BreakTo(l) == [k |-> "break", label |-> <<l>>]
Continue == [k |-> "continue", label |-> <<>>]
ContinueTo(l) == [k |-> "continue", label |-> <<l>>]
While(test, body) == [k |-> "while", test |-> test, body |-> body]
DoWhile(body, test) == [k |-> "do", test |-> test, body |-> body]
For(init, test, update, names, body) ==
    [k |-> "for", init |-> init, test |-> test, update |-> update, names |-> names, body |-> body]
ForEach(kind, lexical, pattern, right, body) ==
    [k |-> "foreach", kind |-> kind, lexical |-> lexical, pattern |-> pattern, right |-> right,
     body |-> body]
Case(test, body) == [test |-> <<test>>, body |-> body]
DefaultCase(body) == [test |-> <<>>, body |-> body]
SwitchOn(d, cases) == [k |-> "switch", discriminant |-> d, cases |-> cases]
TryOf(body, param, catch, finally) ==
    [k |-> "try", body |-> body, param |-> param, catch |-> catch, finally |-> finally]
Return(e) == [k |-> "return", value |-> <<e>>]
Throw(e) == [k |-> "throw", value |-> <<e>>]

\* A program is a function; most have no parameters.
Body(statements) == Fn("program", <<>>, statements)

-----------------------------------------------------------------------------
(* Programs that run as they are written.                                  *)

Branches == Body(<<
    IfElse(F("f"), Expr(Set(Id("a"), F("g"))), Do("h")),
    If(Id("a"), BlockOf(<<Do1("k", Id("a"))>>))>>)

Operators == Body(<<
    Var(Ident("a"), Two("and", F("f"), F("g"))),
    Var(Ident("b"), Two("or", Id("a"), F("h"))),
    Var(Ident("c"), Two("nullish", Id("b"), F("k"))),
    Return(Cond(Id("c"), Bin("-", Id("b"), Id("c")), ArrayOf(<<Id("a"), F("m")>>)))>>)

Loops == Body(<<
    Labelled("outer",
        While(F("f"), BlockOf(<<
            DoWhile(BlockOf(<<
                If(F("g"), ContinueTo("outer")),
                If(F("h"), Break)>>), F("k"))>>))),
    Do("end")>>)

Counting == Body(<<
    For(<<Var(Ident("i"), Lit(Num(0)))>>, <<F1("f", Id("i"))>>, <<Update(Id("i"), FALSE)>>, <<>>,
        BlockOf(<<If(F("g"), Continue), If(F("h"), Return(Id("i")))>>))>>)

Iterations == Body(<<
    For(<<Var(Ident("i"), Lit(Num(0)))>>, <<F1("f", Id("i"))>>, <<Update(Id("i"), TRUE)>>, <<"i">>,
        BlockOf(<<If(F1("g", Id("i")), Break), Do1("h", Fn("closure", <<>>, <<Do1("x", Id("i"))>>))>>)),
    Do("end")>>)

Items1 == Body(<<
    ForEach("of", TRUE, Ident("x"), F("f"),
        BlockOf(<<If(F1("g", Id("x")), Continue), Do1("h", Id("x"))>>)),
    Do("end")>>)

KeysOf == Body(<<
    ForEach("in", FALSE, Ident("x"), F("f"),
        BlockOf(<<If(F1("g", Id("x")), Break)>>)),
    Do("end")>>)

Cases == Body(<<
    While(F("f"),
        SwitchOn(F("g"), <<
            Case(F("a"), <<Do("h")>>),
            DefaultCase(<<Do("k"), Continue>>),
            Case(Id("b"), <<If(F("m"), Break)>>)>>)),
    Do("end")>>)

Tries == Body(<<
    TryOf(<<Expr(Set(Id("a"), F("f"))), If(Id("a"), Return(F("g")))>>, "e", <<<<
          If(Bin("===", Id("e"), Id("a")), Throw(Id("e"))), Expr(Set(Id("a"), Id("e")))>>>>, <<>>),
    TryOf(<<Throw(F("h"))>>, "", <<>>, <<<<Do("k"), If(Id("a"), Return(Id("a")))>>>>)>>)

NestedTries == Body(<<
    Var(Ident("i"), F("f")),
    TryOf(<<
        TryOf(<<Do("g")>>, "", <<>>, <<<<Do("h")>>>>),
        Return(Id("i"))>>, "e", <<<<Throw(Id("e"))>>>>, <<<<
        BlockOf(<<Do1("k", Id("i"))>>)>>>>)>>)

Chains == Body(<<
    Var(Ident("a"), ChainCall(ChainDot(ChainDot(F("f"), TRUE, Static("p")), FALSE, F("g")), TRUE,
                             <<F("h")>>)),
    Var(Ident("b"), ChainDot(ChainCall(ChainDot(Id("a"), FALSE, Static("q")), TRUE, <<>>), FALSE,
                             Static("r")))>>)

Spreads == Body(<<
    Var(Ident("a"), Ask(Dot(Id("o"), "m"), <<F("f"), Dots(F("g")), F("h")>>)),
    Return(ArrayOf(<<Dots(Id("a")), Dots(Id("b")), F("k")>>))>>)

Targets == Body(<<
    Expr(Compound(Id("x"), "-", F("f"))),
    Var(Ident("y"), Update(Id("x"), FALSE)),
    Var(Ident("z"), Update(Id("y"), TRUE)),
    Expr(Set(Dot(Id("o"), "p"), Set(Id("w"), New(Id("C"), <<Id("x"), Id("y"), Id("z")>>))))>>)

Objects == Fn("program", <<
    [k |-> "object", argument |-> "param0", props |-> <<
        KeyAs(Static("p"), Default(Ident("a"), F("f"))),
        KeyAs(Static("q"), Keys(<<KeyAs(F("g"), Ident("b"))>>)),
        RestAs(Ident("c"))>>]>>, <<
    Return(ObjectOf(<<Prop("a", Id("b")), [k |-> "spread", e |-> Id("c")]>>))>>)

Arrays == Fn("program", <<
    [k |-> "default", argument |-> "x", left |-> Ident("x"), default |-> F("f")]>>, <<
    Var(Items(<<Default(Ident("a"), Lit(Null))>>), Id("x")),
    Do1("g", Id("a"))>>)

RestOf == Body(<<
    Var(Items(<<RestAs(Ident("a"))>>), Id("x")),
    Do1("f", Id("a"))>>)

Values == Body(<<
    Expr([k |-> "unary", op |-> "typeof", e |-> F("f")]),
    Var(Ident("t"), [k |-> "template", exprs |-> <<F("g"), Id("t")>>]),
    Var(Ident("c"), [k |-> "class", super |-> <<Id("t")>>, members |-> <<
        [name |-> "m", e |-> Fn("m", <<>>, <<Expr(Ask([k |-> "super"], <<Dots(Id("t"))>>))>>)]>>]),
    Return([k |-> "seq", exprs |-> <<[k |-> "yield", e |-> Id("c")], [k |-> "await", e |-> Id("t")]>>])>>)

Blocks == Body(<<
    Labelled("l", BlockOf(<<
        If(F("f"), BlockOf(<<BreakTo("l")>>)),
        Expr(Ask([k |-> "super"], <<F("g")>>))>>)),
    Bare("u"),
    Expr(Set(Id("v"), [k |-> "this"]))>>)

Guards == Body(<<
    Var(Ident("x"), F("f")),
    IfElse(Id("x"), Empty, Return(Lit(Null))),
    Return(Bin("-", Dot(Id("x"), "p"), Lit(Num(1))))>>)

Tests == Body(<<
    Var(Ident("x"), Dot(Id("o"), "p")),
    If(F("f"), If(Bin("===", Id("x"), Lit(Num(1))), Do("g"))),
    If(Bin("===", F("f"), F("g")), Do("h")),
    If(Two("and", Id("x"), Two("or", F("h"), F("m"))), Do("k"))>>)

Methods == Body(<<
    Var(Ident("x"), F("f")),
    While(F("g"), BlockOf(<<
        Var(Ident("y"), Ask(Dot(Id("o"), "m"), <<Id("x")>>)),
        Var(Ident("z"), F1("h", Id("y")))>>))>>)

Receivers == Body(<<
    While(F("g"), BlockOf(<<
        Var(Ident("y"), Ask(Dot(F("f"), "m"), <<>>)),
        IfElse(Id("y"), Do("h"), Do("k"))>>))>>)

Previous == Body(<<
    Var(Ident("i"), F("f")),
    Var(Ident("a"), F("g")),
    If(Bin("===", Id("i"), At(Id("a"), Bin("-", Id("i"), Lit(Num(1))))), Do("h")),
    Do1("k", Id("i"))>>)

MCPrograms ==
    <<Branches, Operators, Loops, Counting, Iterations, Items1, KeysOf, Cases, Tries, NestedTries,
      Chains, Spreads, Targets, Objects, Arrays, RestOf, Values, Blocks,
      Guards, Tests, Methods, Receivers, Previous>>

-----------------------------------------------------------------------------
(* Two that do not: a load folded out of a loop, and a computed key before *)
(* the rest of an object, which stays in the rest.                         *)

LocalInLoop == <<Body(<<
    Var(Ident("x"), F("f")),
    While(F("g"), Expr(F2("h", Update(Id("x"), FALSE), Cond(F("k"), Id("a"), Id("b")))))>>)>>

ComputedRest == <<Body(<<
    Var(Keys(<<KeyAs(F("f"), Ident("a")), RestAs(Ident("b"))>>), Id("x"))>>)>>
=============================================================================
