--------------------------- MODULE WireInstructions ---------------------------
(***************************************************************************)
(* Instructions as bytes (crates/core/src/lib.rs, specialized_wire_op,     *)
(* write_instruction_operands, profile_instruction_operands and            *)
(* read_instruction_operands).                                             *)
(*                                                                         *)
(* An instruction has an operation and operands.  The three functions that *)
(* go through its operands each have a layout of their own for the         *)
(* operations with a varying number of operands or with short forms, and   *)
(* share one for the others.                                               *)
(***************************************************************************)
EXTENDS WireOperands

Instr(op, args) == [op |-> op, args |-> args]

-----------------------------------------------------------------------------
(* Constants.                                                              *)

\* BytecodeConstant: its value is a sequence of numbers.
Const(type, v) == [type |-> type, v |-> v]
Undefined == Const("undefined", <<>>)
Null == Const("null", <<>>)
Bool(b) == Const("bool", <<IF b THEN 1 ELSE 0>>)
IntegerOf(n) == Const("integer", <<n>>)

ConstantTypes == {"integer", "double", "string", "bigint", "bool", "null", "undefined"}
BytecodeConstant ==
    {c \in [type : ConstantTypes, v : Seq(Int)] :
        /\ c.type = "integer" => Len(c.v) = 1 /\ U32(Zigzag(c.v[1]))
        /\ c.type \in {"double", "string", "bigint"} => c.v \in Seq(Byte)
        /\ c.type = "double" => Len(c.v) = 8
        /\ c.type \in {"string", "bigint"} => U32(Len(c.v) + 2)
        /\ c.type = "bool" => c \in {Bool(TRUE), Bool(FALSE)}
        /\ c.type \in {"null", "undefined"} => c.v = <<>>}

ConstantAt(constants, i) == constants[i + 1]
HasConstant(constants, i) == i + 1 \in DOMAIN constants

\* -0.0, which is written in eight bytes as its sign would be lost, and is equal to
\* 0.0 all the same.  (That no NaN is equal to itself makes no difference: none is
\* looked up.)
NegativeZero == Const("double", <<0, 0, 0, 0, 0, 0, 0, 128>>)
Unsigned(c) == IF c = NegativeZero THEN IntegerOf(0) ELSE c

\* BytecodeConstant: PartialEq, of numbers that of f64.
Equals(candidate, c) == Unsigned(candidate) = Unsigned(c)

\* constant_index_or_insert: the first that is equal, or a new one.
Places(constants, c) == {i \in DOMAIN constants : Equals(constants[i], c)}
WithConstant(constants, c) ==
    IF Places(constants, c) # {} THEN constants ELSE Append(constants, c)
IndexOf(constants, c) == Min(Places(constants, c)) - 1

\* is_small_i32; a Number of another type is -0.0, has a fraction or is not so small.
IsSmall(c) == c.type = "integer" /\ c.v[1] \in -64..63

-----------------------------------------------------------------------------
(* The operation that is written.                                          *)

Kinds(i) == [k \in DOMAIN i.args |-> i.args[k][1]]
Fits4(n) == n < 16

LoadOf(c) ==
    CASE c = Undefined -> "LoadUndefined" [] c = Null -> "LoadNull"
      [] c = Bool(TRUE) -> "LoadTrue" [] c = Bool(FALSE) -> "LoadFalse"
      [] IsSmall(c) -> "LoadIntSmall"
      [] OTHER -> "LoadConstConst"

\* specialized_wire_op
WireOp(i, constants) ==
    LET kinds == Kinds(i)
        small == Fits4(Number(i.args[1])) /\ Fits4(Number(i.args[2]))
        count == IF Len(i.args) >= 3 THEN i.args[3] ELSE None
    IN  CASE i.op = "LoadName" /\ kinds = <<"reg", "slot">> ->
                IF small THEN "LoadLocalSmall" ELSE "LoadLocal"
          [] i.op = "StoreName" /\ kinds = <<"slot", "reg">> ->
                IF small THEN "StoreLocalSmall" ELSE "StoreLocal"
          [] i.op = "LoadConst" /\ kinds = <<"reg", "const">> ->
                IF HasConstant(constants, Number(i.args[2]))
                THEN LoadOf(ConstantAt(constants, Number(i.args[2]))) ELSE "LoadConstConst"
          [] i.op = "Member" /\ kinds[3] = "const" -> "MemberConst"
          [] i.op = "StoreMember" /\ kinds[2] = "const" -> "StoreMemberConst"
          [] i.op = "Pop" /\ kinds = <<"reg">> -> "PopReg"
          [] i.op = "Call" /\ Len(i.args) = 3 + Number(count) /\ Number(count) \in 0..2 ->
                <<"CallZero", "CallOne", "CallTwo">>[Number(count) + 1]
          [] i.op = "Return" /\ kinds = <<"reg">> -> "ReturnReg"
          [] i.op = "Return" /\ kinds = <<"const">> -> "ReturnConst"
          [] i.op = "JumpIfFalse" /\ kinds = <<"reg", "count">> -> "JumpIfFalseReg"
          [] i.op = "Binary" /\ kinds = <<"reg", "operator", "reg", "reg">> -> "BinaryRegReg"
          [] i.op = "Binary" /\ kinds = <<"reg", "operator", "reg", "const">> -> "BinaryRegConst"
          [] OTHER -> i.op

-----------------------------------------------------------------------------
(* Layouts: sequences of items.                                            *)

\* Operands of given kinds, one after the other.
Plain(kinds) == [k \in DOMAIN kinds |-> [item |-> "one", kinds |-> <<kinds[k]>>]]

\* A count, and as many times operands of the given kinds.
Many(kinds) == <<[item |-> "many", kinds |-> kinds]>>

\* Two operands of given kinds in one byte.
Pair(kinds) == <<[item |-> "pair", kinds |-> kinds]>>

\* What is not written, for the operation says it: a count, a constant; a small
\* integer is written without its place among the constants.
Implied(n) == <<[item |-> "implied", n |-> n]>>
ImpliedConst(c) == <<[item |-> "const", c |-> c]>>
SmallInt == <<[item |-> "small"]>>

LocalPair == Pair(<<"reg", "slot">>)

ImmediateLoads == {"LoadUndefined", "LoadNull", "LoadTrue", "LoadFalse"}

LoadedBy(op) ==
    CASE op = "LoadUndefined" -> Undefined [] op = "LoadNull" -> Null
      [] op = "LoadTrue" -> Bool(TRUE) [] op = "LoadFalse" -> Bool(FALSE)

\* fixed_operand_schema
FixedSchema(op) ==
    CASE op \in {"Marker", "Unsupported", "ReturnConst"} -> <<"const">>
      [] op = "Label" -> <<"label">>
      [] op = "Declare" -> <<"decl", "nameref">>
      [] op \in {"LoadConst", "Move", "Await"} -> <<"reg", "value">>
      [] op = "LoadConstConst" -> <<"reg", "const">>
      [] op = "LoadName" -> <<"reg", "nameref">>
      [] op = "LoadLocal" -> <<"reg", "slot">>
      [] op = "StoreName" -> <<"nameref", "value">>
      [] op = "StoreLocal" -> <<"slot", "reg">>
      [] op = "StoreLocalMemberConst" -> <<"decl", "slot", "value", "const">>
      [] op = "DeclareStoreLocal" -> <<"decl", "slot", "reg">>
      [] op = "StoreMember" -> <<"value", "value", "value">>
      [] op = "StoreMemberConst" -> <<"value", "const", "value">>
      [] op = "Binary" -> <<"reg", "operator", "value", "value">>
      [] op = "BinaryRegReg" -> <<"reg", "operator", "reg", "reg">>
      [] op = "BinaryRegConst" -> <<"reg", "operator", "reg", "const">>
      [] op \in {"JumpIfLocalBinaryConstFalse", "JumpIfLocalBinaryConstTrue"} ->
            <<"reg", "slot", "reg", "operator", "const", "count">>
      [] op = "Unary" -> <<"reg", "operator", "value">>
      [] op = "Member" -> <<"reg", "value", "value">>
      [] op = "MemberConst" -> <<"reg", "value", "const">>
      [] op \in {"FunctionEnd", "FunctionExprEnd", "TryStart", "FinallyStart", "TryEnd",
                 "LeaveScope"} -> <<>>
      [] op = "EnterScope" -> <<"scope">>
      [] op = "CatchStart" -> <<"optname">>
      [] op \in {"Throw", "Pop"} -> <<"value">>
      [] op = "Return" -> <<"optvalue">>
      [] op \in {"ReturnReg", "PopReg"} -> <<"reg">>
      [] op = "ReturnIfLocalFalse" -> <<"reg", "slot", "optvalue">>
      [] op = "ReturnIfLocalFalseElseMemberBinaryConst" ->
            <<"slot", "optvalue", "const", "operator", "const">>
      [] op = "Jump" -> <<"count">>
      [] op = "JumpIfFalse" -> <<"value", "count">>
      [] op \in {"JumpIfFalseReg", "JumpIfTrueReg"} -> <<"reg", "count">>
      [] op = "MoveJumpReg" -> <<"reg", "value", "reg", "count", "count">>
      [] op = "MoveJumpFallthroughReg" -> <<"reg", "value", "reg", "count">>
      [] op = "BinaryRegRegJump" -> <<"reg", "operator", "reg", "reg", "reg", "count", "count">>
      [] op = "BinaryRegRegJumpFallthrough" -> <<"reg", "operator", "reg", "reg", "reg", "count">>
      [] op = "Yield" -> <<"optvalue", "optvalue">>
      [] OTHER -> <<>>

\* The operations of the parts that the three functions below have.
Short == ImmediateLoads \cup
         {"LoadIntSmall", "LoadLocalSmall", "MemberLocalConst", "BinaryLocalConst", "MemberLocal",
          "CallLocalZero", "CallLocalOne", "CallLocalTwo", "StoreLocalSmall"}
Counted == {"Array", "Object", "Call", "New"}
CallForms == {"CallZero", "CallOne", "CallTwo"}
MemberForms == {"MemberConst", "StoreMemberConst"}
Bodies == {"Template", "FunctionStart", "FunctionExprStart"}
Exports == {"Class", "Import", "Export"}

\* write_instruction_operands
WrittenShort(op) ==
    CASE op \in ImmediateLoads -> Plain(<<"reg">>) \o ImpliedConst(LoadedBy(op))
      [] op = "LoadIntSmall" -> Plain(<<"reg">>) \o SmallInt
      [] op = "LoadLocalSmall" -> LocalPair
      [] op = "MemberLocalConst" -> LocalPair \o Plain(<<"const">>)
      [] op = "BinaryLocalConst" -> LocalPair \o Plain(<<"operator", "const">>)
      [] op = "MemberLocal" -> LocalPair \o Plain(<<"value">>)
      [] op = "CallLocalZero" -> LocalPair \o Implied(0)
      [] op = "CallLocalOne" -> LocalPair \o Implied(1) \o Plain(<<"value">>)
      [] op = "CallLocalTwo" -> LocalPair \o Implied(2) \o Plain(<<"value", "value">>)
      [] op = "StoreLocalSmall" -> Pair(<<"slot", "reg">>)

WrittenCounted(op) ==
    CASE op = "Array" -> Plain(<<"reg">>) \o Many(<<"value">>)
      [] op = "Object" -> Plain(<<"reg">>) \o Many(<<"const", "value">>)
      [] op = "ObjectRest" -> Plain(<<"reg", "value">>) \o Many(<<"const">>)
      [] op \in {"Call", "New"} -> Plain(<<"reg", "value">>) \o Many(<<"value">>)

WrittenCalls(op) ==
    CASE op = "MemberConst" -> Plain(<<"reg", "value", "const">>)
      [] op = "StoreMemberConst" -> Plain(<<"value", "const", "value">>)
      [] op = "CallZero" -> Plain(<<"reg", "value">>) \o Implied(0)
      [] op = "CallOne" -> Plain(<<"reg", "value">>) \o Implied(1) \o Plain(<<"value">>)
      [] op = "CallTwo" -> Plain(<<"reg", "value">>) \o Implied(2) \o Plain(<<"value", "value">>)

WrittenBodies(op) ==
    CASE op = "Template" -> Plain(<<"reg">>) \o Many(<<"const">>) \o Many(<<"value">>)
      [] op = "FunctionStart" -> Plain(<<"fn">>)
      [] op = "FunctionExprStart" -> Plain(<<"reg", "fn">>)

WrittenExports(op) ==
    CASE op = "Class" -> Plain(<<"optreg", "optname", "optvalue">>) \o Many(<<"const">>)
      [] op = "Import" -> Plain(<<"const">>) \o Many(<<"const">>)
      [] op = "Export" -> Plain(<<"const">>) \o Many(<<"const", "value">>)

WrittenLayout(op) ==
    CASE op \in Short -> WrittenShort(op)
      [] op \in Counted \cup {"ObjectRest"} -> WrittenCounted(op)
      [] op \in MemberForms \cup CallForms -> WrittenCalls(op)
      [] op \in Bodies -> WrittenBodies(op)
      [] op \in Exports -> WrittenExports(op)
      [] OTHER -> Plain(FixedSchema(op))

\* profile_instruction_operands
ProfiledShort(op) ==
    CASE op \in ImmediateLoads -> Plain(<<"reg">>) \o ImpliedConst(LoadedBy(op))
      [] op = "LoadIntSmall" -> Plain(<<"reg">>) \o SmallInt
      [] op = "LoadLocalSmall" -> LocalPair
      [] op = "MemberLocalConst" -> LocalPair \o Plain(<<"const">>)
      [] op = "BinaryLocalConst" -> LocalPair \o Plain(<<"operator", "const">>)
      [] op = "MemberLocal" -> LocalPair \o Plain(<<"value">>)
      [] op = "CallLocalZero" -> LocalPair \o Implied(0)
      [] op = "CallLocalOne" -> LocalPair \o Implied(1) \o Plain(<<"value">>)
      [] op = "CallLocalTwo" -> LocalPair \o Implied(2) \o Plain(<<"value", "value">>)
      [] op = "StoreLocalSmall" -> Pair(<<"slot", "reg">>)

ProfiledCounted(op) ==
    CASE op = "Array" -> Plain(<<"reg">>) \o Many(<<"value">>)
      [] op = "Object" -> Plain(<<"reg">>) \o Many(<<"const", "value">>)
      [] op \in {"Call", "New"} -> Plain(<<"reg", "value">>) \o Many(<<"value">>)

ProfiledCalls(op) ==
    CASE op = "MemberConst" -> Plain(<<"reg", "value", "const">>)
      [] op = "StoreMemberConst" -> Plain(<<"value", "const", "value">>)
      [] op = "CallZero" -> Plain(<<"reg", "value">>) \o Implied(0)
      [] op = "CallOne" -> Plain(<<"reg", "value">>) \o Implied(1) \o Plain(<<"value">>)
      [] op = "CallTwo" -> Plain(<<"reg", "value">>) \o Implied(2) \o Plain(<<"value", "value">>)

ProfiledBodies(op) ==
    CASE op = "Template" -> Plain(<<"reg">>) \o Many(<<"const">>) \o Many(<<"value">>)
      [] op = "FunctionStart" -> Plain(<<"fn">>)
      [] op = "FunctionExprStart" -> Plain(<<"reg", "fn">>)

ProfiledExports(op) ==
    CASE op = "Class" -> Plain(<<"optreg", "optname", "optvalue">>) \o Many(<<"const">>)
      [] op = "Import" -> Plain(<<"const">>) \o Many(<<"const">>)
      [] op = "Export" -> Plain(<<"const">>) \o Many(<<"const", "value">>)
      [] op = "ObjectRest" -> Plain(<<"reg", "value">>) \o Many(<<"const">>)

ProfiledLayout(op) ==
    CASE op \in Short -> ProfiledShort(op)
      [] op \in Counted -> ProfiledCounted(op)
      [] op \in MemberForms \cup CallForms -> ProfiledCalls(op)
      [] op \in Bodies -> ProfiledBodies(op)
      [] op \in Exports \cup {"ObjectRest"} -> ProfiledExports(op)
      [] OTHER -> Plain(FixedSchema(op))

\* read_instruction_operands
ReadShort(op) ==
    CASE op \in ImmediateLoads -> Plain(<<"reg">>) \o ImpliedConst(LoadedBy(op))
      [] op = "LoadIntSmall" -> Plain(<<"reg">>) \o SmallInt
      [] op = "LoadLocalSmall" -> LocalPair
      [] op = "MemberLocalConst" -> LocalPair \o Plain(<<"const">>)
      [] op = "BinaryLocalConst" -> LocalPair \o Plain(<<"operator", "const">>)
      [] op = "MemberLocal" -> LocalPair \o Plain(<<"value">>)
      [] op = "CallLocalZero" -> LocalPair \o Implied(0)
      [] op = "CallLocalOne" -> LocalPair \o Implied(1) \o Plain(<<"value">>)
      [] op = "CallLocalTwo" -> LocalPair \o Implied(2) \o Plain(<<"value", "value">>)
      [] op = "StoreLocalSmall" -> Pair(<<"slot", "reg">>)

\* Mutant: the object that a rest pattern takes from is not read.
ReadCountedShort(op) ==
    CASE op = "Array" -> Plain(<<"reg">>) \o Many(<<"value">>)
      [] op = "Object" -> Plain(<<"reg">>) \o Many(<<"const", "value">>)
      [] op = "ObjectRest" -> Plain(<<"reg">>) \o Many(<<"const">>)
      [] op \in {"Call", "New"} -> Plain(<<"reg", "value">>) \o Many(<<"value">>)

ReadCounted(op) ==
    CASE op = "Array" -> Plain(<<"reg">>) \o Many(<<"value">>)
      [] op = "Object" -> Plain(<<"reg">>) \o Many(<<"const", "value">>)
      [] op = "ObjectRest" -> Plain(<<"reg", "value">>) \o Many(<<"const">>)
      [] op \in {"Call", "New"} -> Plain(<<"reg", "value">>) \o Many(<<"value">>)

ReadRest(op) ==
    CASE op = "CallZero" -> Plain(<<"reg", "value">>) \o Implied(0)
      [] op = "CallOne" -> Plain(<<"reg", "value">>) \o Implied(1) \o Plain(<<"value">>)
      [] op = "CallTwo" -> Plain(<<"reg", "value">>) \o Implied(2) \o Plain(<<"value", "value">>)
      [] op = "Template" -> Plain(<<"reg">>) \o Many(<<"const">>) \o Many(<<"value">>)
      [] op = "FunctionStart" -> Plain(<<"fn">>)
      [] op = "FunctionExprStart" -> Plain(<<"reg", "fn">>)
      [] op = "Class" -> Plain(<<"optreg", "optname", "optvalue">>) \o Many(<<"const">>)
      [] op = "Import" -> Plain(<<"const">>) \o Many(<<"const">>)
      [] op = "Export" -> Plain(<<"const">>) \o Many(<<"const", "value">>)

ReadLayout(op) ==
    CASE op \in Short -> ReadShort(op)
      [] op \in Counted \cup {"ObjectRest"} -> ReadCounted(op)
      [] op \in CallForms \cup Bodies \cup Exports -> ReadRest(op)
      [] OTHER -> Plain(FixedSchema(op))

-----------------------------------------------------------------------------
(* Writing.                                                                *)

\* The kinds that the operands from number k on are written as.
Repeated(kinds, n) == [j \in 1..(n * Len(kinds)) |-> kinds[((j - 1) % Len(kinds)) + 1]]

\* w has what is written so far, the number of the next operand, and whether all had
\* the kinds they are written as.

\* write_repeated_operands
WriteOperands(w, args, kinds, tags) ==
    LET Arg(k) == args[w.next + k - 1]
    IN  IF w.next + Len(kinds) - 1 > Len(args) THEN [w EXCEPT !.ok = FALSE]
        ELSE [bytes |-> w.bytes \o FlattenSeq([k \in DOMAIN kinds |->
                                                OperandBytes(Arg(k), kinds[k], tags)]),
              sizes |-> w.sizes \o [k \in DOMAIN kinds |-> OperandLength(Arg(k), kinds[k])],
              next |-> w.next + Len(kinds),
              ok |-> w.ok /\ \A k \in DOMAIN kinds : IsOfKind(Arg(k), kinds[k])]

\* write_call_local_small_prefix, validate_local_pair_operand: both are below 16.
WritePair(w, args, kinds) ==
    LET first == args[w.next]
        second == args[w.next + 1]
        fit == w.next + 1 <= Len(args) /\ <<first[1], second[1]>> = kinds
               /\ Fits4(Number(first)) /\ Fits4(Number(second))
    IN  IF ~fit THEN [w EXCEPT !.ok = FALSE]
        ELSE [w EXCEPT !.bytes = Append(@, 16 * Number(first) + Number(second)),
                       !.sizes = Append(@, 1), !.next = @ + 2]

WriteItem(w, args, constants, item, tags) ==
    LET here == args[w.next]
    IN  IF item.item \in {"many", "implied", "const", "small"} /\ w.next > Len(args)
        THEN [w EXCEPT !.ok = FALSE]
        ELSE CASE item.item = "one" -> WriteOperands(w, args, item.kinds, tags)
          [] item.item = "pair" -> WritePair(w, args, item.kinds)
          [] item.item = "many" ->
                WriteOperands(w, args, <<"count">> \o Repeated(item.kinds, Number(here)), tags)
          [] item.item = "implied" ->
                [w EXCEPT !.next = @ + 1, !.ok = @ /\ here = Operand("count", item.n)]
          [] item.item = "const" ->
                [w EXCEPT !.next = @ + 1,
                          !.ok = @ /\ here[1] = "const" /\ HasConstant(constants, Number(here))
                                 /\ ConstantAt(constants, Number(here)) = item.c]
          [] item.item = "small" ->
                LET c == Unsigned(ConstantAt(constants, Number(here)))
                IN  IF ~(here[1] = "const" /\ HasConstant(constants, Number(here)) /\ IsSmall(c))
                    THEN [w EXCEPT !.ok = FALSE]
                    ELSE [w EXCEPT !.next = @ + 1, !.bytes = @ \o Varint[Zigzag(c.v[1])],
                                   !.sizes = Append(@, VarintLength[Zigzag(c.v[1])])]

\* Nothing more is written after an operand that is not allowed.
WriteNext(w, args, constants, item, tags) ==
    IF w.ok THEN WriteItem(w, args, constants, item, tags) ELSE w

\* What is written after so many items of a layout.
NothingWritten == [bytes |-> <<>>, sizes |-> <<>>, next |-> 1, ok |-> TRUE]
WrittenUpto(layout, args, constants, tags) ==
    LET upto[k \in 0..Len(layout)] ==
            IF k = 0 THEN NothingWritten
            ELSE WriteNext(upto[k - 1], args, constants, layout[k], tags)
    IN  upto

Written(layout, args, constants, tags) ==
    LET end == WrittenUpto(layout, args, constants, tags)[Len(layout)]
    IN  [end EXCEPT !.ok = @ /\ end.next = Len(args) + 1]

\* write_instruction
WriteInstruction(i, constants, encoding) ==
    LET op == WireOp(i, constants)
        w == Written(WrittenLayout(op), i.args, constants, encoding.tags)
    IN  [ok |-> w.ok, bytes |-> <<encoding.opcodes[op]>> \o w.bytes]

\* The sizes of the operands in a profile.
ProfileInstruction(i, constants, encoding) ==
    Written(ProfiledLayout(WireOp(i, constants)), i.args, constants, encoding.tags).sizes

-----------------------------------------------------------------------------
(* Reading.                                                                *)

ReadOne(r, bytes, kind, tags) ==
    LET operand == ReadOperand(bytes, r.at, kind, tags)
    IN  [r EXCEPT !.at = operand.at, !.args = IF operand.at = At0 THEN @ ELSE Append(@, operand.v)]

\* read_repeated_operands
OperandsReadUpto(r, bytes, kinds, tags) ==
    LET upto[k \in 0..Len(kinds)] ==
            IF k = 0 THEN r ELSE ReadOne(upto[k - 1], bytes, kinds[k], tags)
    IN  upto
ReadOperands(r, bytes, kinds, tags) == OperandsReadUpto(r, bytes, kinds, tags)[Len(kinds)]

Remaining(bytes, at) == Len(bytes) - at + 1

ReadItem(r, bytes, item, tags) ==
    LET byte == ReadByte(bytes, r.at)
        number == ReadVarint(bytes, r.at)
        counted == [r EXCEPT !.at = number.at, !.args = Append(@, Operand("count", number.v))]
        index(c) == IndexOf(WithConstant(r.constants, c), c)
        Inserted(at, c) == [r EXCEPT !.at = at, !.constants = WithConstant(@, c),
                                     !.args = Append(@, Operand("const", index(c)))]
    IN  CASE item.item = "one" -> ReadOperands(r, bytes, item.kinds, tags)
          [] item.item = "pair" ->
                [r EXCEPT !.at = byte.at,
                          !.args = @ \o <<Operand(item.kinds[1], byte.v \div 16),
                                         Operand(item.kinds[2], byte.v % 16)>>]
          [] item.item = "many" ->
                IF number.at = At0 \/ number.v > Remaining(bytes, number.at)
                THEN [r EXCEPT !.at = At0]
                ELSE ReadOperands(counted, bytes, Repeated(item.kinds, number.v), tags)
          [] item.item = "implied" -> [r EXCEPT !.args = Append(@, Operand("count", item.n))]
          [] item.item = "const" -> Inserted(r.at, item.c)
          [] item.item = "small" -> IF number.at = At0 THEN [r EXCEPT !.at = At0]
                                    ELSE Inserted(number.at, IntegerOf(Unzigzag(number.v)))

\* What is read after so many items of a layout; there is nothing to read behind one
\* that cannot be read.
ItemsReadUpto(start, bytes, layout, tags) ==
    LET upto[k \in 0..Len(layout)] ==
            IF k = 0 THEN start ELSE ReadItem(upto[k - 1], bytes, layout[k], tags)
    IN  upto

\* The operation, then its operands; constants that it needs are added.
Decoded(op, end) ==
    [at |-> end.at, args |-> end.args, constants |-> end.constants, op |-> op]
ReadInstruction(bytes, at, constants, encoding) ==
    LET code == ReadByte(bytes, at)
        ops == {op \in DOMAIN encoding.opcodes : encoding.opcodes[op] = code.v}
        start == [at |-> code.at, args |-> <<>>, constants |-> constants]
        op == CHOOSE o \in ops : TRUE
        layout == ReadLayout(op)
    IN  IF code.at = At0 \/ ops = {}
        THEN [at |-> At0, args |-> <<>>, constants |-> constants, op |-> "none"]
        ELSE Decoded(op, ItemsReadUpto(start, bytes, layout, encoding.tags)[Len(layout)])
=============================================================================
