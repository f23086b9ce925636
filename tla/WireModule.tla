----------------------------- MODULE WireModule -----------------------------
(***************************************************************************)
(* A module as bytes, and the seeds that say how it is encoded             *)
(* (crates/core/src/lib.rs, ObfuscationConfig, EncodingConfig and          *)
(* BytecodeModule).                                                        *)
(*                                                                         *)
(* A configuration says which code every operation, kind of operand and    *)
(* type of constant has, in which order the external slots are, and the    *)
(* key of the strings.  It travels as a seed that only fits the bytes it   *)
(* was made for.                                                           *)
(***************************************************************************)
EXTENDS WireInstructions

\* BytecodeOp::all, default_operand_tag_keys and default_constant_tag_keys
Ops ==
    <<"Marker", "Label", "Declare", "LoadConst", "LoadName", "StoreName", "StoreMember",
      "Move", "Binary", "Unary", "Member", "Array", "Object", "Call", "New", "Template",
      "FunctionStart", "FunctionEnd", "FunctionExprStart", "FunctionExprEnd", "Class",
      "Import", "Export", "Throw", "TryStart", "CatchStart", "FinallyStart", "TryEnd",
      "Return", "Pop", "Jump", "JumpIfFalse", "Unsupported", "LoadConstConst", "PopReg",
      "CallOne", "EnterScope", "LeaveScope", "LoadLocal", "StoreLocal", "LoadUndefined",
      "LoadNull", "LoadTrue", "LoadFalse", "LoadIntSmall", "MemberConst", "StoreMemberConst",
      "CallZero", "CallTwo", "ReturnReg", "ReturnConst", "JumpIfFalseReg", "BinaryRegReg",
      "BinaryRegConst", "LoadLocalSmall", "StoreLocalSmall", "ObjectRest", "Yield", "Await",
      "ReturnIfLocalFalse", "JumpIfLocalBinaryConstFalse",
      "ReturnIfLocalFalseElseMemberBinaryConst", "StoreLocalMemberConst", "JumpIfTrueReg",
      "JumpIfLocalBinaryConstTrue", "DeclareStoreLocal", "MoveJumpReg", "BinaryRegRegJump",
      "MoveJumpFallthroughReg", "BinaryRegRegJumpFallthrough", "MemberLocalConst",
      "BinaryLocalConst", "MemberLocal", "CallLocalZero", "CallLocalOne", "CallLocalTwo">>

OperandTags == <<"reg", "const", "name", "slot", "extern", "label", "count", "none", "fn">>
ConstantTags == <<"number", "string", "bool", "null", "undefined", "bigint">>

\* BytecodeOp::canonical: the operation that a written one stands for.
Canonical(op) ==
    CASE op \in {"LoadConstConst", "LoadIntSmall"} \cup ImmediateLoads -> "LoadConst"
      [] op = "PopReg" -> "Pop"
      [] op \in CallForms \cup {"CallLocalZero", "CallLocalOne", "CallLocalTwo"} -> "Call"
      [] op \in {"LoadLocal", "LoadLocalSmall"} -> "LoadName"
      [] op \in {"StoreLocal", "StoreLocalSmall", "StoreLocalMemberConst", "DeclareStoreLocal"} ->
            "StoreName"
      [] op \in {"MemberConst", "MemberLocal", "MemberLocalConst"} -> "Member"
      [] op = "StoreMemberConst" -> "StoreMember"
      [] op \in {"ReturnReg", "ReturnConst", "ReturnIfLocalFalseElseMemberBinaryConst"} -> "Return"
      [] op \in {"BinaryRegReg", "BinaryRegConst", "BinaryLocalConst"} -> "Binary"
      [] op \in {"JumpIfFalseReg", "JumpIfTrueReg", "JumpIfLocalBinaryConstFalse",
                 "JumpIfLocalBinaryConstTrue", "MoveJumpReg", "MoveJumpFallthroughReg",
                 "BinaryRegRegJump", "BinaryRegRegJumpFallthrough"} -> "JumpIfFalse"
      [] OTHER -> op

-----------------------------------------------------------------------------
(* Configurations.                                                         *)

\* ObfuscationConfig
Config(opcodes, tags, types, externs, key) ==
    [opcodes |-> opcodes, tags |-> tags, types |-> types, externs |-> externs, key |-> key]
ObfuscationConfig ==
    [opcodes : Seq(Range(Ops)), tags : Seq(Range(OperandTags)), types : Seq(Range(ConstantTags)),
     externs : Seq(Nat), key : Nat]
DefaultConfig == Config(Ops, OperandTags, ConstantTags, <<>>, NoKey)

\* names_to_encoding_map: the code of a name is its place.
Reorders(names, allowed) == Len(names) = Len(allowed) /\ Range(names) = Range(allowed)
PlaceOf(names, name) == (CHOOSE k \in DOMAIN names : names[k] = name) - 1
Codes(names) == [name \in Range(names) |-> PlaceOf(names, name)]

\* SEED_DIGITS, and validate_slot_permutation
SeedDigits == 76
IsSlotPermutation(slots) == Len(slots) <= SeedDigits /\ Range(slots) = 0..(Len(slots) - 1)

\* ObfuscationConfig::validate
Valid(config) ==
    /\ Reorders(config.opcodes, Ops) /\ Reorders(config.tags, OperandTags)
    /\ Reorders(config.types, ConstantTags) /\ IsSlotPermutation(config.externs)

\* EncodingConfig::from_names and ObfuscationConfig::encoding_config
EncodingOf(config) ==
    [opcodes |-> Codes(config.opcodes), tags |-> Codes(config.tags),
     types |-> Codes(config.types), key |-> config.key]

-----------------------------------------------------------------------------
(* Seeds: sections of digits, and a fingerprint of them and of the bytes.  *)
(* Two that differ have fingerprints that differ.                          *)

Fingerprint(sections, bytes) == <<sections, bytes>>

\* names_to_seed_permutation and seed_permutation_to_names
Digits(names, allowed) == [k \in DOMAIN names |-> PlaceOf(allowed, names[k])]
NamesOf(digits, allowed) == [k \in DOMAIN digits |-> allowed[digits[k] + 1]]
AreDigitsOf(digits, allowed) == Len(digits) = Len(allowed) /\ IsSlotPermutation(digits)

\* The section of the key begins with the digit that the letter k stands for.
LetterK == 46
KeySection(key) == <<LetterK, key>>

\* Mutant: there is a section of external slots only if there are any.
SectionsUnpadded(config) ==
    <<Digits(config.opcodes, Ops), Digits(config.tags, OperandTags),
      Digits(config.types, ConstantTags)>>
    \o (IF config.externs = <<>> THEN <<>> ELSE <<config.externs>>)
    \o (IF config.key = NoKey THEN <<>> ELSE <<KeySection(config.key)>>)

\* ObfuscationConfig::seed_permutation
Sections(config) ==
    <<Digits(config.opcodes, Ops), Digits(config.tags, OperandTags),
      Digits(config.types, ConstantTags)>>
    \o (IF config.externs = <<>> /\ config.key = NoKey THEN <<>> ELSE <<config.externs>>)
    \o (IF config.key = NoKey THEN <<>> ELSE <<KeySection(config.key)>>)

\* ObfuscationSeed::from_config
PairedSeed(config, bytes) ==
    [fingerprint |-> Fingerprint(Sections(config), bytes), sections |-> Sections(config)]

\* validate_seed_permutation
AreSections(sections) ==
    /\ Len(sections) \in 3..5
    /\ AreDigitsOf(sections[1], Ops) /\ AreDigitsOf(sections[2], OperandTags)
    /\ AreDigitsOf(sections[3], ConstantTags)
    /\ Len(sections) >= 4 => IsSlotPermutation(sections[4])
    /\ Len(sections) = 5 => Len(sections[5]) = 2 /\ sections[5][1] = LetterK

\* obfuscation_config_from_seed_permutation
FromSections(sections) ==
    Config(NamesOf(sections[1], Ops), NamesOf(sections[2], OperandTags),
           NamesOf(sections[3], ConstantTags),
           IF Len(sections) >= 4 THEN sections[4] ELSE <<>>,
           IF Len(sections) = 5 THEN sections[5][2] ELSE NoKey)

\* ObfuscationSeed::parse_for_bytes: whether a seed is one for these bytes.
Fits(seed, bytes) ==
    AreSections(seed.sections) /\ seed.fingerprint = Fingerprint(seed.sections, bytes)

-----------------------------------------------------------------------------
(* Modules.                                                                *)

Magic == <<74, 83>>

\* BytecodeModule and BytecodeFunction; kind is bytecode_module_kind_id.
Module(kind, externs, names, functions, constants, code) ==
    [kind |-> kind, externs |-> externs, names |-> names, functions |-> functions,
     constants |-> constants, code |-> code]
Function(name, start, end, flags, returns, params) ==
    [name |-> name, start |-> start, end |-> end, flags |-> flags, returns |-> returns,
     params |-> params]

BytecodeFunction ==
    {f \in [name : Nat \cup {NoIndex}, start : Nat, end : Nat, flags : Nat, returns : BOOLEAN,
            params : Seq(BytecodeOperand)] :
        /\ U32(f.name + 1) /\ U32(f.start) /\ U32(f.end) /\ U32(f.flags) /\ U32(Len(f.params))
        /\ \A k \in DOMAIN f.params : TagOf(f.params[k][1]) = f.params[k][1]}
BytecodeInstruction == [op : Range(Ops), args : Seq(BytecodeOperand)]
BytecodeModule ==
    {m \in [kind : {0, 1}, externs : {n \in Nat : U32(n)}, names : Seq(Seq(Byte)),
            functions : Seq(BytecodeFunction), constants : Seq(BytecodeConstant),
            code : Seq(BytecodeInstruction)] :
        /\ U32(Len(m.names)) /\ U32(Len(m.functions)) /\ U32(Len(m.constants)) /\ U32(Len(m.code))
        /\ \A i \in DOMAIN m.names : U32(Len(m.names[i]) + 2)}

\* write_number: eight bytes unless it is an integer of 32 bits.
NumberBytes(c) == IF c.type = "integer" THEN <<0>> \o Varint[Zigzag(c.v[1])] ELSE <<1>> \o c.v

TypeTag(c) == IF c.type \in {"integer", "double"} THEN "number" ELSE c.type

FunctionBytes(f, encoding) ==
    OptionalVarint(f.name) \o Varint[f.start] \o Varint[f.end] \o Varint[f.flags]
    \o Varint[Len(f.params)] \o <<IF f.returns THEN 1 ELSE 0>>
    \o FlattenSeq([k \in DOMAIN f.params |-> TaggedBytes(f.params[k], encoding.tags)])

ConstantBytes(c, index, encoding) ==
    <<encoding.types[TypeTag(c)]>>
    \o CASE TypeTag(c) = "number" -> NumberBytes(c)
         [] c.type \in {"string", "bigint"} ->
                StringBytes(c.v, encoding.key, ConstantDomain, index)
         [] c.type = "bool" -> c.v
         [] OTHER -> <<>>

Listed(items) == Varint[Len(items)] \o FlattenSeq(items)

HeadBytes(m, encoding) ==
    <<Magic, <<m.kind>>, Varint[m.externs],
      Listed([i \in DOMAIN m.names |->
                StringBytes(m.names[i], encoding.key, NameDomain, i - 1)]),
      Listed([i \in DOMAIN m.functions |-> FunctionBytes(m.functions[i], encoding)]),
      Listed([i \in DOMAIN m.constants |-> ConstantBytes(m.constants[i], i - 1, encoding)])>>

CodeBytes(m, encoding) ==
    [k \in DOMAIN m.code |-> WriteInstruction(m.code[k], m.constants, encoding).bytes]

\* Every instruction can be written; otherwise there are no bytes.
IsWritable(m, encoding) ==
    \A k \in DOMAIN m.code : WriteInstruction(m.code[k], m.constants, encoding).ok

\* to_bytes_with_encoding
ModuleBytes(m, encoding) ==
    FlattenSeq(HeadBytes(m, encoding)) \o Listed(CodeBytes(m, encoding))

Sizes(sequences) == [k \in DOMAIN sequences |-> Len(sequences[k])]
TotalUpto(numbers) ==
    LET upto[k \in 0..Len(numbers)] == IF k = 0 THEN 0 ELSE upto[k - 1] + numbers[k]
    IN  upto
Total(numbers) == TotalUpto(numbers)[Len(numbers)]

\* Mutant: an instruction begins after its operation.
RangesAfterOp(m, encoding) ==
    LET before == Total(Sizes(HeadBytes(m, encoding))) + VarintLength[Len(m.code)]
        Upto(k) == before + TotalUpto(Sizes(CodeBytes(m, encoding)))[k]
    IN  [k \in DOMAIN m.code |-> <<Upto(k - 1) + 1, Upto(k)>>]

\* instruction_byte_ranges_with_encoding: before the first byte and after the last.
Ranges(m, encoding) ==
    LET before == Total(Sizes(HeadBytes(m, encoding))) + VarintLength[Len(m.code)]
        Upto(k) == before + TotalUpto(Sizes(CodeBytes(m, encoding)))[k]
    IN  [k \in DOMAIN m.code |-> <<Upto(k - 1), Upto(k)>>]

\* bytes_profile_with_encoding
Profile(m, encoding) ==
    LET sizes == Sizes(CodeBytes(m, encoding))
    IN  [sections |-> Sizes(HeadBytes(m, encoding))
                      \o <<VarintLength[Len(m.code)] + Total(sizes)>>,
         opcodes |-> sizes,
         operands |-> [k \in DOMAIN m.code |->
                        ProfileInstruction(m.code[k], m.constants, encoding)]]

-----------------------------------------------------------------------------
(* Reading.                                                                *)

\* read_slice
ReadBytes(bytes, at, n) ==
    IF at = At0 \/ at + n - 1 > Len(bytes) THEN Failed
    ELSE Got(at + n, SubSeq(bytes, at, at + n - 1))

\* Mutant: there may be more items than bytes.
ReadCountUnbounded(bytes, at) == ReadVarint(bytes, at)

\* read_bounded_count
ReadCount(bytes, at) ==
    LET count == ReadVarint(bytes, at)
    IN  IF count.at # At0 /\ count.v > Remaining(bytes, count.at) THEN Failed ELSE count

\* The magic, the kind and the number of external slots.
MaxExterns == 65535
ReadHead(bytes) ==
    LET magic == ReadBytes(bytes, 1, Len(Magic))
        kind == ReadByte(bytes, magic.at)
        externs == ReadVarint(bytes, kind.at)
    IN  IF externs.at = At0 THEN Failed
        ELSE IF magic.v # Magic \/ kind.v \notin {0, 1} \/ externs.v > MaxExterns THEN Failed
        ELSE Got(externs.at, [kind |-> kind.v, externs |-> externs.v])

\* The numbers of a function, one after the other, and then its parameters.
ReadFunction(bytes, at, tags) ==
    LET name == ReadVarint(bytes, at)
        start == ReadVarint(bytes, name.at)
        end == ReadVarint(bytes, start.at)
        flags == ReadVarint(bytes, end.at)
        count == ReadCount(bytes, flags.at)
        returns == ReadByte(bytes, count.at)
        params == ReadOperands([at |-> returns.at, args |-> <<>>], bytes,
                               Repeated(<<"tagged">>, count.v), tags)
    IN  Got(params.at, Function(name.v - 1, start.v, end.v, flags.v, returns.v # 0, params.args))

\* read_number
ReadNumber(bytes, at) ==
    LET form == ReadByte(bytes, at)
        integer == ReadVarint(bytes, form.at)
        double == ReadBytes(bytes, form.at, 8)
    IN  CASE form.at = At0 \/ form.v > 1 -> Failed
          [] form.at # At0 /\ form.v = 0 -> Got(integer.at, IntegerOf(Unzigzag(integer.v)))
          [] OTHER -> Got(double.at, Const("double", double.v))

\* ByteReader::read_constant
ReadConstant(bytes, at, index, encoding) ==
    LET tag == ReadByte(bytes, at)
        types == {t \in DOMAIN encoding.types : encoding.types[t] = tag.v}
        type == CHOOSE t \in types : TRUE
        text == ReadString(bytes, tag.at, encoding.key, ConstantDomain, index)
        byte == ReadByte(bytes, tag.at)
    IN  IF tag.at = At0 \/ types = {} THEN Failed
        ELSE CASE type = "number" -> ReadNumber(bytes, tag.at)
               [] type \in {"string", "bigint"} -> Got(text.at, Const(type, text.v))
               [] type = "bool" -> Got(byte.at, Bool(byte.v # 0))
               [] OTHER -> Got(tag.at, Const(type, <<>>))
=============================================================================
