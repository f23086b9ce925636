---------------------------- MODULE Instructions ----------------------------
(***************************************************************************)
(* Bytecode instructions (crates/core/src/lib.rs, BytecodeInstruction) and *)
(* what they read and write.                                               *)
(*                                                                         *)
(* An instruction has a destination, a name that tells it from others of   *)
(* its kind (an operator), its operands, and its targets: labels at first, *)
(* then positions.  An operand is a register, a constant, a local slot or  *)
(* a name.  The start of a function expression also has the end of its     *)
(* body.                                                                   *)
(***************************************************************************)
EXTENDS LoweringContext

\* A sequence; as a concatenation, TLC evaluates each element once.
Evaluated(s) == <<>> \o s

Slot(name) == <<"slot", name>>

Instruction(op, dst, name, args, to) ==
    [op |-> op, dst |-> dst, name |-> name, args |-> args, to |-> to, end |-> 0]

\* What is before the first and after the last instruction.
Nothing == Instruction("nothing", NoReg, "", <<>>, <<>>)

-----------------------------------------------------------------------------
(* Registers that an instruction reads and writes.                         *)

IsReg(v) == v[1] = "reg"
IsConst(v) == v[1] = "imm"
IsSlot(v) == v[1] = "slot"

LocalJumps == {"JumpIfLocalBinaryFalse", "JumpIfLocalBinaryTrue"}
MoveJumps == {"MoveJump", "MoveJumpFallthrough"}
BinaryJumps == {"BinaryJump", "BinaryJumpFallthrough"}

\* instruction_register_uses.  The register that a yield writes when it is
\* resumed counts as used; the last operand of a local jump is written.
Uses(i) ==
    IF i.op \in LocalJumps THEN {}
    ELSE {v[2] : v \in {w \in Range(i.args) : IsReg(w)}} \cup (IF i.op = "yield" THEN {i.dst} ELSE {})

\* instruction_register_defs
Defs(i) ==
    (IF i.op = "yield" THEN {} ELSE {i.dst} \ {NoReg})
    \cup (IF i.op \in LocalJumps THEN {i.args[3][2]} ELSE {})

\* value_operand_positions: where any operand may stand, not only a register.
ValuePositions(i) ==
    CASE i.op \in BinaryJumps \cup LocalJumps \cup {"JumpIfTrue", "DeclareStore"} -> {}
      [] i.op \in MoveJumps -> {1}
      [] OTHER -> DOMAIN i.args

\* use_operand_positions
UsePositions(i) == IF i.op \in LocalJumps THEN {} ELSE DOMAIN i.args

PositionsOf(i, positions, r) == {j \in positions : i.args[j] = Reg(r)}

-----------------------------------------------------------------------------
(* Targets.  Two kinds of jumps have one target and the truth it is taken  *)
(* on, packed into a number.                                               *)

Packed == {"MoveJumpFallthrough", "BinaryJumpFallthrough"}

PackTarget(target, when) == 2 * target + (IF when THEN 1 ELSE 0)
UnpackTarget(packed) == packed \div 2
TakenWhen(packed) == packed % 2 = 1

TargetsOf(i) ==
    {IF i.op \in Packed THEN UnpackTarget(i.to[j]) ELSE i.to[j] : j \in DOMAIN i.to}

MapTargets(i, to) ==
    [i EXCEPT !.to = Evaluated([j \in DOMAIN @ |->
        IF i.op \in Packed THEN PackTarget(to[UnpackTarget(@[j])], TakenWhen(@[j])) ELSE to[@[j]]])]

=============================================================================
