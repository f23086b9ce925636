------------------------------- MODULE Peephole -------------------------------
(***************************************************************************)
(* The passes over bytecode that fold adjacent instructions into one, take *)
(* out jumps and moves, and thread jumps to jumps (crates/core/src/lib.rs, *)
(* compile_module).                                                        *)
(*                                                                         *)
(* A pass goes through the positions in order with the list as changed so  *)
(* far and the set of positions to be removed; what is removed is taken    *)
(* out at the end of the pass, and the pass is repeated until it removes   *)
(* nothing.  Which positions are jumped to, and how often registers are    *)
(* used, is counted when a pass begins.                                    *)
(***************************************************************************)
EXTENDS Bytecode

\* A pass: the list, what is removed of it, the positions it goes through, the
\* list they were counted in and what is jumped to from them.
Pass(code) ==
    [code |-> code, removed |-> {}, frame |-> [k \in 1..Len(code) |-> k], before |-> code,
     targeted |-> UNION {TargetsOf(code[k]) : k \in 1..Len(code)}]

InFrame(s, frame) ==
    [s EXCEPT !.frame = frame, !.before = s.code,
              !.targeted = UNION {TargetsOf(s.code[k]) : k \in Range(frame)}]

Removing(s, positions) == [s EXCEPT !.removed = @ \cup positions]

Rewriting(s, k, i, positions) == Removing([s EXCEPT !.code[k] = i], positions)

At(code, k) == IF k \in 1..Len(code) THEN code[k] ELSE Nothing

\* resolved_jump_target_ref_counts
RefCount(s, t) == Cardinality({<<k, j>> \in Range(s.frame) \X {1, 2} :
                                  j <= Len(s.before[k].to) /\ t \in TargetsOf([s.before[k] EXCEPT !.to = <<@[j]>>])})

\* frame_register_use_counts
UseCount(s, r) == Cardinality({k \in Range(s.frame) : r \in Uses(s.before[k])})

-----------------------------------------------------------------------------
(* On labels: jumps to the label after them.                               *)

RedundantJumps(code) ==
    {k \in 1..Len(code) : /\ code[k].op = "Jump" /\ IsLabel(At(code, k + 1))
                          /\ code[k + 1].to = code[k].to}

RECURSIVE ControlFlow(_)
ControlFlow(code) ==
    LET redundant == RedundantJumps(code)
    IN  IF redundant = {} THEN code
        ELSE ControlFlow(WithoutUnreferencedLabels(WithoutIndexes(code, redundant)))

-----------------------------------------------------------------------------
(* Constants that only the next instruction reads.                         *)

FoldUnary(op, v) ==
    CASE op = "!" -> Bool(v \in {Undefined, Null, Bool(FALSE), Num(0)})
      [] op = "void" -> Undefined

TakesConstant(i, r) ==
    \/ i.op = "Binary" /\ i.args[2] = Reg(r)
    \/ i.op = "Unary" /\ i.name \in {"!", "void"} /\ i.args[1] = Reg(r)

WithConstant(i, v) ==
    IF i.op = "Binary" THEN [i EXCEPT !.args[2] = v]
    ELSE [i EXCEPT !.op = "LoadConst", !.name = "", !.args = <<Imm(FoldUnary(i.name, v[2]))>>]

\* fold_constant_temporaries_in_frame.  A label in between keeps them apart.
FoldConstant(s, k) ==
    LET i == s.code[k]
        next == At(s.code, k + 1)
    IN  IF /\ i.op \in {"Move", "LoadConst"} /\ IsConst(i.args[1])
           /\ UseCount(s, i.dst) = 1
           /\ TakesConstant(next, i.dst)
        THEN Rewriting(s, k + 1, WithConstant(next, i.args[1]), {k})
        ELSE s

-----------------------------------------------------------------------------
(* Jumps to jumps.                                                         *)

\* threaded_jump_target: where a chain of jumps ends; a chain that comes back to
\* itself or to its origin, or leaves the list, is left as it is.
RECURSIVE Threaded(_, _, _, _, _)
Threaded(code, target, origin, seen, current) ==
    IF current \notin 1..Len(code) \/ current = origin \/ current \in seen THEN target
    ELSE IF code[current].op # "Jump" \/ code[current].to[1] = current THEN current
    ELSE Threaded(code, target, origin, seen \cup {current}, code[current].to[1])

\* thread_resolved_jumps; a second time it changes nothing.
ThreadJumps(code) ==
    Evaluated([k \in 1..Len(code) |->
        MapTargets(code[k], [t \in TargetsOf(code[k]) |-> Threaded(code, t, k, {}, t)])])

\* redundant_resolved_jump_indexes: a jump to the next instruction.
FoldRedundantJump(s, k) ==
    IF s.code[k].op = "Jump" /\ s.code[k].to[1] = k + 1 THEN Removing(s, {k}) ELSE s

-----------------------------------------------------------------------------
(* What follows a jump or a return and is not jumped to.                   *)

Structural == {"TryStart", "CatchStart", "FinallyStart", "TryEnd", "FunctionExpr", "EnterScope",
               "LeaveScope"}

Terminal == {"Jump", "Return", "ReturnIfLocalFalseElseMemberBinary", "Throw"}

\* Mutant: a label between them is not seen.
UnreachableOver(s) ==
    {s.frame[p] : p \in {p \in 2..Len(s.frame) :
        \E t \in 1..(p - 1) :
            /\ s.code[s.frame[t]].op \in Terminal
            /\ \A q \in (t + 1)..p : s.code[s.frame[q]].op \notin Structural}}

\* remove_unreachable_after_terminal
Unreachable(s) ==
    {s.frame[p] : p \in {p \in 2..Len(s.frame) :
        \E t \in 1..(p - 1) :
            /\ s.code[s.frame[t]].op \in Terminal
            /\ \A q \in (t + 1)..p :
                 s.code[s.frame[q]].op \notin Structural /\ s.frame[q] \notin s.targeted}}

-----------------------------------------------------------------------------
(* Returns, and branches on a local.                                       *)

IsLocalLoad(i) == i.op = "LoadName" /\ IsSlot(i.args[1])
IsMemberConst(i) == i.op = "Member" /\ IsConst(i.args[2])
IsBinaryConst(i, r) == i.op = "Binary" /\ i.args[1] = Reg(r) /\ IsConst(i.args[2])
IsStoreOf(i, slot, r) == i.op = "StoreName" /\ i.args = <<slot, Reg(r)>>
IsReturnOf(i, r) == i.op = "Return" /\ i.args = <<Reg(r)>>

\* fold_member_const_declare_store_local: const x = object.key.  The register is
\* not written any more.
MemberDeclareStore(s, k) ==
    LET i == s.code[k]
        slot == At(s.code, k + 1).args[1]
        after == At(s.code, k + 3)
    IN  /\ IsMemberConst(i)
        /\ {k + 1, k + 2} \cap s.targeted = {}
        /\ At(s.code, k + 1).op = "Declare" /\ IsSlot(slot)
        /\ IsStoreOf(At(s.code, k + 2), slot, i.dst)
        /\ \/ UseCount(s, i.dst) <= 1
           \/ after = Nothing
           \/ i.dst \in Defs(after) \ Uses(after)

StoreLocalMember(s, k) ==
    Rewriting(s, k, Instruction("StoreLocalMember", NoReg, "", <<s.code[k + 1].args[1]>> \o s.code[k].args, <<>>),
              {k + 1, k + 2})

\* fold_return_if_local_false_member_binary_const: if (!x) return v; return x.key - c.
ReturnsMemberBinary(s, k) ==
    LET Next(n) == At(s.code, k + n)
    IN  /\ s.code[k].op = "ReturnIfLocalFalse"
        /\ (k + 1)..(k + 4) \cap (s.targeted \cup s.removed) = {}
        /\ IsLocalLoad(Next(1)) /\ Next(1).args[1] = s.code[k].args[1]
        /\ IsMemberConst(Next(2)) /\ Next(2).args[1] = Reg(Next(1).dst)
        /\ IsBinaryConst(Next(3), Next(2).dst)
        /\ IsReturnOf(Next(4), Next(3).dst)

ReturnElseMemberBinary(s, k) ==
    Rewriting(s, k, Instruction("ReturnIfLocalFalseElseMemberBinary", NoReg, s.code[k + 3].name,
                                s.code[k].args \o <<s.code[k + 2].args[2], s.code[k + 3].args[2]>>, <<>>),
              (k + 1)..(k + 4))

\* fold_local_false_return_branch: if (!x) return v.
ReturnsOnFalse(s, k) ==
    LET i == s.code[k]
        test == At(s.code, k + 1)
        jump == At(s.code, k + 2)
    IN  /\ IsLocalLoad(i)
        /\ test.op = "JumpIfFalse" /\ test.args = <<Reg(i.dst)>> /\ test.to = <<k + 3>>
        /\ jump.op = "Jump" /\ jump.to = <<k + 4>>
        /\ RefCount(s, k + 3) = 1
        /\ At(s.code, k + 3).op = "Return"

ReturnIfLocalFalse(s, k) ==
    Rewriting(s, k, Instruction("ReturnIfLocalFalse", s.code[k].dst, "",
                                s.code[k].args \o s.code[k + 3].args, <<>>),
              (k + 1)..(k + 3))

\* fold_local_binary_const_jump_branch
TestsLocalBinary(s, k) ==
    LET i == s.code[k]
        binary == At(s.code, k + 1)
        test == At(s.code, k + 2)
    IN  /\ IsLocalLoad(i)
        /\ {k + 1, k + 2} \cap s.targeted = {}
        /\ IsBinaryConst(binary, i.dst)
        /\ test.op = "JumpIfFalse" /\ test.args = <<Reg(binary.dst)>>

JumpIfLocalBinaryFalse(s, k) ==
    LET binary == s.code[k + 1]
    IN  Rewriting(s, k, Instruction("JumpIfLocalBinaryFalse", s.code[k].dst, binary.name,
                                    <<s.code[k].args[1], binary.args[2], Reg(binary.dst)>>,
                                    s.code[k + 2].to),
                  {k + 1, k + 2})

ReturnValue(v) == Instruction("Return", NoReg, "", <<v>>, <<>>)

\* fold_move_return_branch: the value is returned where it would be moved.
MovesToReturn(s, k) ==
    LET i == s.code[k]
        next == At(s.code, k + 1)
    IN  /\ i.op = "Move"
        /\ \/ IsReturnOf(next, i.dst)
           \/ next.op = "Jump" /\ IsReturnOf(At(s.code, next.to[1]), i.dst)

ReturnMoved(s, k) ==
    Rewriting(s, k, ReturnValue(s.code[k].args[1]),
              IF s.code[k + 1].op = "Jump" THEN {k + 1} ELSE {k + 1} \ s.targeted)

\* fold_literal_return_branch: a literal, perhaps moved once, that is returned.
LoadsToReturn(s, k) ==
    LET i == s.code[k]
        next == At(s.code, k + 1)
    IN  /\ i.op = "LoadConst"
        /\ \/ IsReturnOf(next, i.dst)
           \/ /\ next.op = "Move" /\ next.args = <<Reg(i.dst)>>
              /\ IsReturnOf(At(s.code, k + 2), next.dst)

ReturnLiteral(s, k) ==
    Rewriting(s, k, ReturnValue(s.code[k].args[1]),
              IF s.code[k + 1].op = "Move" THEN {k + 1} \cup ({k + 2} \ s.targeted)
              ELSE {k + 1} \ s.targeted)

\* fold_return_branches_in_frame: the first that applies.
FoldReturn(s, k) ==
    CASE MemberDeclareStore(s, k) -> StoreLocalMember(s, k)
      [] ReturnsMemberBinary(s, k) -> ReturnElseMemberBinary(s, k)
      [] ReturnsOnFalse(s, k) -> ReturnIfLocalFalse(s, k)
      [] TestsLocalBinary(s, k) -> JumpIfLocalBinaryFalse(s, k)
      [] MovesToReturn(s, k) -> ReturnMoved(s, k)
      [] LoadsToReturn(s, k) -> ReturnLiteral(s, k)
      [] OTHER -> s
=============================================================================
