--------------------------- MODULE InstructionSteps ---------------------------
(***************************************************************************)
(* What the executor does in one turn of its loop, step by step            *)
(* (crates/runtime/src/executor.rs, execute_range and                      *)
(* try_execute_fused_...).                                                 *)
(*                                                                         *)
(* An instruction that does what several others do is executed as these.   *)
(* So is a group of instructions that follow each other and that the       *)
(* executor, unless it is built with a debugger, recognises and does at    *)
(* once.  A group is a sequence of steps and the number of instructions    *)
(* that it goes past when the last step does not jump.                     *)
(***************************************************************************)
EXTENDS Instructions

\* A register that no program has.
Scratch == 1000

LoadSlot(dst, slot) == Instruction("LoadName", dst, "", <<slot>>, <<>>)
BinaryOf(dst, op, left, right) == Instruction("Binary", dst, op, <<left, right>>, <<>>)
JumpOn(when, test, target) ==
    Instruction(IF when THEN "JumpIfTrue" ELSE "JumpIfFalse", NoReg, "", <<test>>, <<target>>)
ReturnOf(v) == Instruction("Return", NoReg, "", <<v>>, <<>>)
ReturnIfFalse(test, v) == Instruction("ReturnIfFalse", NoReg, "", <<test, v>>, <<>>)

\* A branch that goes on to the next instruction, or to one of two targets.
BranchSteps(i, test) ==
    IF i.op \in Packed THEN <<JumpOn(TakenWhen(i.to[1]), test, UnpackTarget(i.to[1]))>>
    ELSE <<JumpOn(FALSE, test, i.to[1]), Instruction("Jump", NoReg, "", <<>>, <<i.to[2]>>)>>

\* The steps of one instruction.
Steps(i) ==
    CASE i.op \in BinaryJumps ->
            <<BinaryOf(i.dst, i.name, i.args[1], i.args[2])>> \o BranchSteps(i, i.args[3])
      [] i.op \in MoveJumps ->
            <<Instruction("Move", i.dst, "", <<i.args[1]>>, <<>>)>> \o BranchSteps(i, i.args[2])
      [] i.op \in LocalJumps ->
            <<LoadSlot(i.dst, i.args[1]), BinaryOf(i.args[3][2], i.name, i.args[1], i.args[2]),
              JumpOn(i.op = "JumpIfLocalBinaryTrue", i.args[3], i.to[1])>>
      [] i.op = "StoreLocalMember" ->
            <<Instruction("Member", Scratch, "", SubSeq(i.args, 2, 3), <<>>),
              Instruction("StoreName", NoReg, "", <<i.args[1], Reg(Scratch)>>, <<>>)>>
      [] i.op = "ReturnIfLocalFalse" ->
            <<LoadSlot(i.dst, i.args[1]), ReturnIfFalse(Reg(i.dst), i.args[2])>>
      [] i.op = "ReturnIfLocalFalseElseMemberBinary" ->
            <<ReturnIfFalse(i.args[1], i.args[2]),
              Instruction("Member", Scratch, "", <<i.args[1], i.args[3]>>, <<>>),
              BinaryOf(Scratch, i.name, Reg(Scratch), i.args[4]),
              ReturnOf(Reg(Scratch))>>
      [] OTHER -> <<i>>

-----------------------------------------------------------------------------
(* Groups.  A group is inside the range that ends before end.              *)

InRange(code, p) == IF p \in 1..Len(code) THEN code[p] ELSE Nothing

LoadsLocal(i) == i.op = "LoadName" /\ IsSlot(i.args[1])
LoadsName(i) == i.op = "LoadName" /\ i.args[1][1] = "name"
TestsReg(i) == i.op \in {"JumpIfFalse", "JumpIfTrue"} /\ IsReg(i.args[1])
ReturnsReg(i, r) == i.op = "Return" /\ i.args = <<Reg(r)>>

JumpAt(code, p, end) ==
    IF p < end /\ InRange(code, p).op = "Jump" THEN <<code[p]>> ELSE <<>>

Group(steps, past) == [steps |-> steps, past |-> past]
NoGroup == Group(<<>>, 0)

\* try_execute_fused_numeric_local_update: x++ of a local.  A value that is not a
\* number is left to the three instructions, which do the same.
UpdatesLocal(code, p, end) ==
    /\ p + 2 < end
    /\ LoadsLocal(code[p]) /\ code[p + 1].op = "Unary" /\ code[p + 1].name \in {"++", "--"}
    /\ code[p + 1].args = <<Reg(code[p].dst)>>
    /\ code[p + 2].op = "StoreName"
    /\ code[p + 2].args = <<code[p].args[1], Reg(code[p + 1].dst)>>

\* try_execute_fused_local_index_member_binary_jump: x op a[i op c] of locals.
ComparesItem(code, p, end) ==
    /\ p + 4 < end
    /\ LoadsLocal(code[p]) /\ LoadsLocal(code[p + 1])
    /\ code[p + 2].op = "Binary" /\ IsSlot(code[p + 2].args[1]) /\ IsConst(code[p + 2].args[2])
    /\ code[p + 3].op = "Member"
    /\ code[p + 3].args = <<Reg(code[p + 1].dst), Reg(code[p + 2].dst)>>
    /\ code[p + 4].op \in BinaryJumps
    /\ code[p + 4].args = <<Reg(code[p].dst), Reg(code[p + 3].dst), Reg(code[p + 4].dst)>>

\* try_execute_fused_binary_reg_branch, try_execute_fused_move_branch
ComputesTest(code, p, end) ==
    /\ p + 1 < end /\ TestsReg(code[p + 1])
    /\ \/ /\ code[p].op = "Binary" /\ IsReg(code[p].args[1]) /\ IsReg(code[p].args[2])
          /\ code[p + 1].args[1] = Reg(code[p].dst)
       \/ /\ code[p].op = "Move"
          /\ code[p + 1].args[1] \in {Reg(code[p].dst), code[p].args[1]}

\* try_execute_fused_local_branch.  What it does if a literal is loaded and returned at
\* the false target is left out: the lowering moves literals, and loads none.
TestsLocal(code, p, end) ==
    /\ p + 2 < end
    /\ LoadsLocal(code[p])
    /\ code[p + 1].op = "JumpIfFalse" /\ code[p + 1].args = <<Reg(code[p].dst)>>
    /\ code[p + 2].op = "Jump"
    /\ code[p + 1].to[1] < end /\ code[p + 2].to[1] < end

\* try_execute_fused_move_return
ReturnsMoved(code, p, end) ==
    LET next == InRange(code, p + 1)
    IN  /\ code[p].op = "Move"
        /\ \/ ReturnsReg(next, code[p].dst)
           \/ next.op = "Jump" /\ next.to[1] < end /\ ReturnsReg(code[next.to[1]], code[p].dst)

\* small_call_parts
CallsReg(i, r) == i.op = "Call" /\ i.args[1] = Reg(r) /\ Len(i.args) <= 4

\* The call at p, and the declaration of a local with its result after it
\* (try_execute_fused_declare_store_local), of a function in register r.
CallSteps(code, p, end, r) ==
    LET call == [code[p] EXCEPT !.args[1] = Reg(r)]
        store == InRange(code, p + 1)
    IN  <<call>> \o IF /\ p + 1 < end /\ store.op = "DeclareStore"
                       /\ IsSlot(store.args[1]) /\ store.args[2] = Reg(call.dst)
                    THEN <<store>> ELSE <<>>

\* The read of a member at position site that is called next, if the function
\* read there before is kept (try_call_member_with_ic).  Only the call reads dst.
KeptMember(code, site, object, dst) ==
    Instruction("KeptMember", dst, code[site].name, <<object, code[site].args[2]>>, <<site>>)

\* try_execute_fused_member_call
CallsMember(code, p, end, kept) ==
    /\ p + 1 < end /\ p \in kept
    /\ code[p].op = "Member" /\ ~IsSlot(code[p].args[1]) /\ CallsReg(code[p + 1], code[p].dst)

\* try_execute_fused_name_local_call: f(x).
CallsName(code, p, end) ==
    /\ p + 2 < end
    /\ LoadsName(code[p]) /\ LoadsLocal(code[p + 1])
    /\ code[p + 2].op = "Call" /\ code[p + 2].args = <<Reg(code[p].dst), Reg(code[p + 1].dst)>>

\* try_execute_fused_name_member_local_call: o.f(x).
CallsNameMember(code, p, end) ==
    /\ p + 3 < end
    /\ LoadsName(code[p])
    /\ code[p + 1].op = "Member" /\ code[p + 1].args[1] = Reg(code[p].dst)
    /\ IsConst(code[p + 1].args[2])
    /\ LoadsLocal(code[p + 2])
    /\ code[p + 3].op = "Call"
    /\ code[p + 3].args = <<Reg(code[p + 1].dst), Reg(code[p + 2].dst)>>

\* The group that begins at p; kept are the positions of members that have been
\* read and called.
GroupAt(code, p, end, kept) ==
    CASE UpdatesLocal(code, p, end) -> Group(SubSeq(code, p, p + 2), 3)
      [] ComparesItem(code, p, end) -> Group(SubSeq(code, p, p + 3) \o Steps(code[p + 4]), 5)
      [] ComputesTest(code, p, end) ->
            Group(SubSeq(code, p, p + 1) \o JumpAt(code, p + 2, end), 2)
      [] TestsLocal(code, p, end) ->
            Group(<<code[p], Instruction("LocalBranch", NoReg, "", <<Reg(code[p].dst)>>,
                                         code[p + 1].to \o code[p + 2].to)>>, 3)
      [] ReturnsMoved(code, p, end) -> Group(<<ReturnOf(code[p].args[1])>>, 2)
      [] TestsReg(code[p]) /\ InRange(code, p + 1).op = "Jump" ->
            Group(<<code[p]>> \o JumpAt(code, p + 1, end), 1)
      [] CallsMember(code, p, end, kept) ->
            LET calls == CallSteps(code, p + 1, end, Scratch)
            IN  Group(<<KeptMember(code, p, code[p].args[1], Scratch)>> \o calls, 1 + Len(calls))
      [] CallsNameMember(code, p, end) ->
            LET site == code[p + 1]
                read == IF p + 1 \in kept THEN KeptMember(code, p + 1, Reg(code[p].dst), site.dst)
                        ELSE [site EXCEPT !.to = <<p + 1>>]
                calls == CallSteps(code, p + 3, end, site.dst)
            IN  Group(<<code[p], code[p + 2], read>> \o calls, 3 + Len(calls))
      [] CallsName(code, p, end) ->
            LET calls == CallSteps(code, p + 2, end, code[p].dst)
            IN  Group(SubSeq(code, p, p + 1) \o calls, 2 + Len(calls))
      [] OTHER -> NoGroup
=============================================================================
