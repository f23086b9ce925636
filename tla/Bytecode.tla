------------------------------- MODULE Bytecode -------------------------------
(***************************************************************************)
(* How the instructions of a program are compiled to bytecode, how some of *)
(* them are taken out of it, and what the frames of its functions are      *)
(* (crates/core/src/lib.rs).                                               *)
(***************************************************************************)
EXTENDS BlockLayout, Instructions

-----------------------------------------------------------------------------
(* compile_instruction                                                     *)

\* Positions inside the body of the function expression at k, up to its end.
BodyOf(code, k) ==
    {j \in (k + 1)..Len(code) :
        \A e \in (k + 1)..j : ~(code[e].op = "Label" /\ code[e].label = code[k].label)}

FunctionStarts(code) == {k \in 1..Len(code) : code[k].op = "FunctionExpr"}

DeclaredBy(i) ==
    CASE i.op = "Declare" -> {i.name}
      [] i.op = "CatchStart" -> {i.param} \ {""}
      [] OTHER -> {}

MentionedBy(i) ==
    DeclaredBy(i) \cup (IF i.op \in {"LoadName", "StoreName"} THEN {i.name} ELSE {})

\* lower_local_binding: the names a function declares are slots of its frame, but
\* those that a function inside it mentions, or declares itself, are names.
SlotNames(code, params) ==
    LET inner == UNION {BodyOf(code, k) : k \in FunctionStarts(code)}
    IN  (params \cup {"this"} \cup UNION {DeclaredBy(code[k]) : k \in DOMAIN code})
        \ UNION {MentionedBy(code[k]) : k \in inner}

Binding(slots, name) == IF name \in slots THEN Slot(name) ELSE Named(name)

Operand(slots, v) == IF v[1] = "name" THEN Binding(slots, v[2]) ELSE v

CompileInstruction(slots, i) ==
    LET Value(v) == Operand(slots, v)
        Bound(name) == Binding(slots, name)
    IN  CASE i.op \in {"Label", "Jump"} -> Instruction(i.op, NoReg, "", <<>>, <<i.label>>)
          [] i.op = "JumpIfFalse" -> Instruction(i.op, NoReg, "", <<Value(i.test)>>, <<i.label>>)
          [] i.op = "FunctionExpr" ->
                [Instruction(i.op, i.dst, i.id, <<>>, <<>>) EXCEPT !.end = i.label]
          [] i.op \in {"Return", "Throw"} -> Instruction(i.op, NoReg, "", <<Value(i.value)>>, <<>>)
          [] i.op = "LoadName" -> Instruction(i.op, i.dst, "", <<Bound(i.name)>>, <<>>)
          [] i.op = "StoreName" ->
                Instruction(i.op, NoReg, "", <<Bound(i.name), Value(i.src)>>, <<>>)
          [] i.op = "Declare" -> Instruction(i.op, NoReg, "", <<Bound(i.name)>>, <<>>)
          [] i.op = "CatchStart" ->
                Instruction(i.op, NoReg, "", IF i.param = "" THEN <<>> ELSE <<Bound(i.param)>>, <<>>)
          [] i.op \in {"EnterScope", "LeaveScope", "TryStart", "FinallyStart", "TryEnd"} ->
                Instruction(i.op, NoReg, "", <<>>, <<>>)
          [] OTHER -> Instruction(i.op, i.dst, i.name,
                                  Evaluated([j \in DOMAIN i.args |-> Value(i.args[j])]), <<>>)

IsLabel(i) == i.op = "Label"

\* The labels that a jump goes to, and those that end a function.
Referenced(code) ==
    UNION {Range(i.to) : i \in {j \in Range(code) : ~IsLabel(j)}}
    \cup {i.end : i \in {j \in Range(code) : j.op = "FunctionExpr"}}

WithoutUnreferencedLabels(code) ==
    LET referenced == Referenced(code)
    IN  SelectSeq(code, LAMBDA i : IsLabel(i) => i.to[1] \in referenced)

\* compile_instructions
CompileInstructions(code, params) ==
    LET slots == SlotNames(code, params)
    IN  WithoutUnreferencedLabels(
            Evaluated([k \in 1..Len(code) |-> CompileInstruction(slots, code[k])]))

-----------------------------------------------------------------------------
(* Taking instructions out.                                                *)

WithoutIndexes(code, removed) ==
    LET kept == SelectSeq([k \in 1..Len(code) |-> k], LAMBDA k : k \notin removed)
    IN  Evaluated([j \in 1..Len(kept) |-> code[kept[j]]])

\* Mutant: an instruction that is taken out itself counts as before its place.
RemapIncluding(boundary, removed) == boundary - Cardinality({k \in removed : k <= boundary})

\* remap_instruction_boundary
Remap(boundary, removed) == boundary - Cardinality({k \in removed : k < boundary})

\* remove_resolved_instruction_indexes
WithoutResolved(code, removed) ==
    IF removed = {} THEN code
    ELSE LET list == WithoutIndexes(code, removed)
         IN  Evaluated([k \in 1..Len(list) |->
                 [MapTargets(list[k], [t \in TargetsOf(list[k]) |-> Remap(t, removed)]) EXCEPT
                     !.end = IF list[k].op = "FunctionExpr" THEN Remap(@, removed) ELSE @]])

-----------------------------------------------------------------------------
(* resolve_labels_to_jump_targets                                          *)

\* Mutant: the position of a label is counted from 1 twice.
PositionOff(code, l) ==
    LET at == CHOOSE k \in 1..Len(code) : IsLabel(code[k]) /\ code[k].to[1] = l
    IN  2 + Cardinality({k \in 1..at : ~IsLabel(code[k])})

\* The position of a label is that of the instruction after it.
PositionIn(code, l) ==
    LET at == CHOOSE k \in 1..Len(code) : IsLabel(code[k]) /\ code[k].to[1] = l
    IN  1 + Cardinality({k \in 1..at : ~IsLabel(code[k])})

ResolveLabels(code) ==
    LET kept == SelectSeq(code, LAMBDA i : ~IsLabel(i))
    IN  Evaluated([k \in 1..Len(kept) |->
            [MapTargets(kept[k], [l \in TargetsOf(kept[k]) |-> PositionIn(code, l)]) EXCEPT
                !.end = IF kept[k].op = "FunctionExpr" THEN PositionIn(code, @) ELSE @]])

-----------------------------------------------------------------------------
(* Frames: the positions of the main program and of each function body,    *)
(* those of the functions inside it left out.                              *)

\* function_body_end
EndOfFunction(code, k) ==
    LET labels == {j \in 1..Len(code) : IsLabel(code[j]) /\ code[j].to[1] = code[k].end}
    IN  IF labels = {} THEN code[k].end ELSE CHOOSE j \in labels : TRUE

\* The innermost function around a position, 0 outside of all.
OwnerOf(code, k) ==
    LET around == {j \in 1..(k - 1) : code[j].op = "FunctionExpr" /\ k < EndOfFunction(code, j)}
    IN  IF around = {} THEN 0 ELSE CHOOSE j \in around : \A i \in around : i <= j

FrameAt(code, f) == SelectSeq([k \in 1..Len(code) |-> k], LAMBDA k : OwnerOf(code, k) = f)

\* Functions before the frames they are in.
Frames(code) ==
    LET starts == SelectSeq([k \in 1..Len(code) |-> k], LAMBDA k : code[k].op = "FunctionExpr")
    IN  Append([j \in 1..Len(starts) |-> FrameAt(code, starts[Len(starts) + 1 - j])],
               FrameAt(code, 0))
=============================================================================
