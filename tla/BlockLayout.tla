----------------------------- MODULE BlockLayout -----------------------------
(***************************************************************************)
(* From the instructions of a function to one list: the basic blocks of    *)
(* crates/compiler/src/parse.rs (StructuredIrBuilder), and how             *)
(* crates/core/src/lib.rs writes them one after the other.                 *)
(*                                                                         *)
(* Only the labels, jumps, returns and throws of the body itself make      *)
(* blocks; those inside a scope or a try statement stay in line.  Blocks   *)
(* are written in the order of their numbers: the entry, the labels, then  *)
(* the blocks that have none, whatever their place in the program was.     *)
(***************************************************************************)
EXTENDS StatementLowering

\* The end of an inline function body, and a block, as labels.
BodyEnd(prefix) == <<prefix, 0, "body_end">>
BlockLabel(prefix, b) == <<prefix, b, "block">>

RECURSIVE Inline(_), BuildFunction(_, _)

\* lower_instruction and lower_linear_inline: scopes and try statements become
\* instructions that open and close them, functions their own list of blocks.
Inlined(instructions) ==
    FlattenSeq([i \in 1..Len(instructions) |-> Inline(instructions[i])])

Part(start, body) == IF body = <<>> THEN <<>> ELSE <<start>> \o Inlined(body)

CatchStart(param) == [op |-> "CatchStart", param |-> param]

Inline(i) ==
    CASE i.op = "Scope" -> <<Plain("EnterScope")>> \o Inlined(i.body) \o <<Plain("LeaveScope")>>
      [] i.op = "Try" -> <<Plain("TryStart")>> \o Inlined(i.body)
                         \o Part(CatchStart(i.param), i.catch)
                         \o Part(Plain("FinallyStart"), i.finally)
                         \o <<Plain("TryEnd")>>
      [] i.op = "FunctionExpr" ->
            <<[op |-> "FunctionExpr", dst |-> i.dst, id |-> i.fn.id, label |-> BodyEnd(i.prefix)]>>
            \o BuildFunction(i.prefix, i.fn) \o <<Label(BodyEnd(i.prefix))>>
      [] OTHER -> <<i>>

-----------------------------------------------------------------------------
(* lower_blocks                                                            *)

\* Terminators; a block without one is Open.
Open == <<>>

NewBlock == [code |-> <<>>, end |-> Open]

\* The labels of the body itself have the numbers after that of the entry.
NumberedLabels(instructions) ==
    SelectSeq(instructions, LAMBDA i : i.op = "Label")

BlockOf(labels, l) == 1 + CHOOSE k \in 1..Len(labels) : labels[k].label = l

FreshBlock(b) == [b EXCEPT !.blocks = Append(@, NewBlock), !.at = Len(b.blocks) + 1]

\* The block ends with the given instructions, and a fresh one begins.
EndBlock(b, end) == FreshBlock([b EXCEPT !.blocks[b.at].end = end])

AddInstruction(prefix, labels, b, i) ==
    LET To(l) == BlockLabel(prefix, BlockOf(labels, l))
        block == BlockOf(labels, i.label)
        closed == IF b.blocks[b.at].end = Open /\ b.at # block
                  THEN [b EXCEPT !.blocks[b.at].end = <<Jump(To(i.label))>>]
                  ELSE b
    IN  CASE i.op = "Label" ->
                [closed EXCEPT !.at = block, !.blocks[block].code = Append(@, i)]
          [] i.op = "Jump" -> EndBlock(b, <<Jump(To(i.label))>>)
          [] i.op = "JumpIfFalse" ->
                EndBlock(b, <<JumpIfFalse(i.test, To(i.label)),
                              Jump(BlockLabel(prefix, Len(b.blocks) + 1))>>)
          [] i.op \in {"Return", "Throw"} -> EndBlock(b, <<i>>)
          [] OTHER -> [b EXCEPT !.blocks[b.at].code = @ \o Inline(i)]

RECURSIVE AddInstructions(_, _, _, _)

\* One after the other; in two halves, which keeps TLC's recursion short.
AddInstructions(prefix, labels, b, list) ==
    LET half == Len(list) \div 2
    IN  CASE list = <<>> -> b
          [] Len(list) = 1 -> AddInstruction(prefix, labels, b, list[1])
          [] OTHER -> AddInstructions(prefix, labels,
                          AddInstructions(prefix, labels, b, SubSeq(list, 1, half)),
                          SubSeq(list, half + 1, Len(list)))

LowerBlocks(prefix, instructions) ==
    LET labels == NumberedLabels(instructions)
        start == [blocks |-> <<NewBlock>> \o [k \in 1..Len(labels) |-> NewBlock], at |-> 1]
    IN  AddInstructions(prefix, labels, start, instructions).blocks

\* lower_function_body: one block after the other; what is left open goes to the
\* exit block, which is the last.
WriteBlocks(prefix, blocks) ==
    LET exit == BlockLabel(prefix, Len(blocks) + 1)
        End(b) == IF b.end = Open /\ b.code # <<>> THEN <<Jump(exit)>> ELSE b.end
    IN  FlattenSeq([k \in 1..Len(blocks) |->
                       <<Label(BlockLabel(prefix, k))>> \o blocks[k].code \o End(blocks[k])])
        \o <<Label(exit)>>

BuildFunction(prefix, fn) ==
    WriteBlocks(prefix, LowerBlocks(prefix, LowerFunctionBody(prefix, fn)))

=============================================================================
