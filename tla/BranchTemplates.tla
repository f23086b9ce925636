--------------------------- MODULE BranchTemplates ---------------------------
(***************************************************************************)
(* The passes over resolved bytecode that follow Peephole's: a value and   *)
(* the branch on it, a branch around a jump, a move and what reads it, a   *)
(* declaration and what it is set to, a local and what reads it            *)
(* (crates/core/src/lib.rs).                                               *)
(***************************************************************************)
EXTENDS Peephole

(* A branch on a register and the jump after it.                           *)

IsBranch(i) == i.op \in {"JumpIfFalse", "JumpIfTrue"} /\ IsReg(i.args[1])

\* branch_then_jump_targets
BranchesAfter(code, k) == IsBranch(At(code, k + 1)) /\ At(code, k + 2).op = "Jump"

Tested(code, k) == code[k + 1].args[1]

\* Where it goes on false and on true.
BranchTargets(code, k) ==
    IF code[k + 1].op = "JumpIfFalse" THEN code[k + 1].to \o code[k + 2].to
    ELSE code[k + 2].to \o code[k + 1].to

\* fallthrough_branch_target: one of the two is the position after them.
FallsThrough(k, to) == (k + 3) \in Range(to) /\ to[1] # to[2]

PackedBranch(k, to) ==
    IF to[1] = k + 3 THEN PackTarget(to[2], TRUE) ELSE PackTarget(to[1], FALSE)

WithBranch(s, k, jump, fallthrough) ==
    LET to == BranchTargets(s.code, k)
        i == [s.code[k] EXCEPT !.args = Append(@, Tested(s.code, k))]
    IN  Rewriting(s, k,
            IF FallsThrough(k, to)
            THEN [i EXCEPT !.op = fallthrough, !.to = <<PackedBranch(k, to)>>]
            ELSE [i EXCEPT !.op = jump, !.to = to],
            {k + 1, k + 2})

\* fold_binary_reg_reg_jump_template
BinaryThenBranch(s, k) ==
    /\ s.code[k].op = "Binary" /\ \A v \in Range(s.code[k].args) : IsReg(v)
    /\ UseCount(s, s.code[k].dst) = 1
    /\ BranchesAfter(s.code, k)
    /\ Tested(s.code, k) = Reg(s.code[k].dst)

\* fold_move_jump_template
MoveThenBranch(s, k) ==
    /\ s.code[k].op = "Move"
    /\ BranchesAfter(s.code, k)
    /\ Tested(s.code, k) \in {Reg(s.code[k].dst), s.code[k].args[1]}

\* fold_branch_templates_in_frame
FoldBranch(s, k) ==
    IF {k + 1, k + 2} \cap s.targeted # {} THEN s
    ELSE IF BinaryThenBranch(s, k) THEN WithBranch(s, k, "BinaryJump", "BinaryJumpFallthrough")
    ELSE IF MoveThenBranch(s, k) THEN WithBranch(s, k, "MoveJump", "MoveJumpFallthrough")
    ELSE s

-----------------------------------------------------------------------------
(* A jump on false over a jump.                                            *)

JumpsOver(code, k) ==
    /\ code[k].op = "JumpIfLocalBinaryFalse" \/ (code[k].op = "JumpIfFalse" /\ IsReg(code[k].args[1]))
    /\ code[k].to = <<k + 2>>
    /\ At(code, k + 1).op = "Jump"

OnTrue(op) == IF op = "JumpIfFalse" THEN "JumpIfTrue" ELSE "JumpIfLocalBinaryTrue"

\* fold_conditional_jump_pair
FoldPair(s, k) ==
    IF (k + 1) \notin s.targeted /\ JumpsOver(s.code, k)
    THEN Rewriting(s, k, [s.code[k] EXCEPT !.op = OnTrue(@), !.to = s.code[k + 1].to], {k + 1})
    ELSE s

-----------------------------------------------------------------------------
(* Moves.                                                                  *)

\* move_elimination_can_remove_before
KeepsMoveBefore ==
    {"Jump", "JumpIfFalse", "JumpIfTrue", "Label", "Declare"}
    \cup LocalJumps \cup BinaryJumps \cup MoveJumps \cup Structural

\* Mutant: the register may be read again by a later instruction.
SingleUseMoveOfMany(s, k) ==
    LET next == At(s.code, k + 1)
        dst == s.code[k].dst
    IN  /\ s.code[k].op = "Move" /\ s.code[k].args # <<Reg(dst)>>
        /\ (k + 1) \notin s.targeted
        /\ next # Nothing /\ next.op \notin KeepsMoveBefore
        /\ dst \in Uses(next) \ Defs(next)

\* eliminate_single_use_move: the register is read by the next instruction, which
\* does not write it, and by no other.
SingleUseMove(s, k) ==
    LET next == At(s.code, k + 1)
        dst == s.code[k].dst
    IN  /\ s.code[k].op = "Move" /\ s.code[k].args # <<Reg(dst)>>
        /\ (k + 1) \notin s.targeted
        /\ UseCount(s, dst) = 1
        /\ next # Nothing /\ next.op \notin KeepsMoveBefore
        /\ dst \in Uses(next) \ Defs(next)

\* replace_register_uses_in_instruction
Replacing(i, r, v) ==
    [i EXCEPT !.args = Evaluated([j \in DOMAIN @ |-> IF @[j] = Reg(r) THEN v ELSE @[j]])]

FoldMove(s, k) ==
    IF SingleUseMove(s, k)
    THEN Rewriting(s, k + 1, Replacing(s.code[k + 1], s.code[k].dst, s.code[k].args[1]), {k})
    ELSE s

-----------------------------------------------------------------------------
(* Declarations.                                                           *)

FoldMember(s, k) == IF MemberDeclareStore(s, k) THEN StoreLocalMember(s, k) ELSE s

\* fold_declare_store_local_pair
DeclaresAndStores(s, k) ==
    /\ s.code[k].op = "Declare" /\ IsSlot(s.code[k].args[1])
    /\ (k + 1) \notin s.targeted
    /\ At(s.code, k + 1).op = "StoreName"
    /\ s.code[k + 1].args[1] = s.code[k].args[1] /\ IsReg(s.code[k + 1].args[2])

FoldDeclare(s, k) ==
    IF DeclaresAndStores(s, k)
    THEN Rewriting(s, k, [s.code[k + 1] EXCEPT !.op = "DeclareStore"], {k + 1})
    ELSE s

-----------------------------------------------------------------------------
(* Loads of locals.                                                        *)

\* Mutant: whether the register is read later is not looked at.
UsedAfterNextNever(s, p, r) == FALSE

\* register_used_after_next_before_def: whether r is read at a position of the
\* frame, as it is written, after the next one and before it is written again.
UsedAfterNext(s, p, r) ==
    LET later == {q \in (p + 2)..Len(s.frame) : s.frame[q] \notin s.removed}
        Mentions(q) == r \in Uses(s.code[s.frame[q]]) \cup Defs(s.code[s.frame[q]])
        first == {q \in later : Mentions(q) /\ \A o \in later : o < q => ~Mentions(o)}
    IN  /\ ~(/\ p < Len(s.frame) /\ s.frame[p + 1] \notin s.removed
             /\ r \in Defs(s.code[s.frame[p + 1]]))
        /\ \E q \in first : r \in Uses(s.code[s.frame[q]])

\* fold_local_load_template: the next instruction reads the slot itself.  What the
\* code writes at the place of the load, for small slots and registers, has an
\* operation of its own and does the same.
ReadsLoaded(s, k) ==
    LET r == s.code[k].dst
        next == At(s.code, k + 1)
        p == CHOOSE p \in DOMAIN s.frame : s.frame[p] = k
    IN  /\ IsLocalLoad(s.code[k])
        /\ (k + 1) \notin s.removed \cup s.targeted
        /\ ~UsedAfterNext(s, p, r)
        /\ Cardinality(PositionsOf(next, ValuePositions(next), r)) = 1
        /\ PositionsOf(next, UsePositions(next), r) = PositionsOf(next, ValuePositions(next), r)

FoldLoad(s, k) ==
    IF ReadsLoaded(s, k)
    THEN Rewriting(s, k + 1, Replacing(s.code[k + 1], s.code[k].dst, s.code[k].args[1]), {k})
    ELSE s

=============================================================================
