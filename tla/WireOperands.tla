----------------------------- MODULE WireOperands -----------------------------
(***************************************************************************)
(* Numbers, strings and operands as bytes (crates/core/src/lib.rs,         *)
(* write_u32 to string_prefix_atom, write_operand to                       *)
(* decode_name_ref_operand).                                               *)
(*                                                                         *)
(* Bytes are numbers below 256.  What reads has a position in the bytes    *)
(* and returns the one after what it read, or At0 when it cannot be read.  *)
(* Numbers are below 2^31, the largest TLC has.                            *)
(***************************************************************************)
EXTENDS Integers, SequencesExt, FiniteSetsExt, Functions

CONSTANTS
    StringAtoms,        \* CONSTANT_STRING_ATOMS: strings that are written as a number
    PrefixAtoms         \* STRING_PREFIX_ATOMS

Byte == 0..255

\* A number of 32 bits.
U32(n) == n \in Nat /\ n \div 65536 < 65536

ASSUME TablesAssumption ==
    /\ StringAtoms \in Seq(Seq(Byte)) /\ PrefixAtoms \in Seq(Seq(Byte))
    /\ U32(Len(StringAtoms)) /\ U32(Len(PrefixAtoms))
    /\ \A i \in DOMAIN PrefixAtoms : PrefixAtoms[i] # <<>>

\* The position after what could not be read, and a result that has none.
At0 == 0
Failed == [at |-> At0, v |-> 0]

Got(at, v) == [at |-> at, v |-> v]

-----------------------------------------------------------------------------
(* Numbers of variable length: seven bits a byte, the lowest first, and the *)
(* eighth set but in the last.                                             *)

\* write_u32
Varint[n \in Nat] == IF n < 128 THEN <<n>> ELSE <<128 + (n % 128)>> \o Varint[n \div 128]

\* encoded_u32_len
VarintLength[n \in Nat] == IF n < 128 THEN 1 ELSE 1 + VarintLength[n \div 128]

ReadByte(bytes, at) == IF at \in DOMAIN bytes THEN Got(at + 1, bytes[at]) ELSE Failed

\* How much of each byte there is room for in 32 bits, and what it weighs.
Rooms == <<128, 128, 128, 128, 16>>
Weights == <<1, 128, 16384, 2097152, 268435456>>

\* Where a number that begins at some place may end, and what its byte number n adds.
Ends(bytes, at) == {k \in at..(at + 4) : k \in DOMAIN bytes /\ bytes[k] < 128}
Part(bytes, at, last, n) ==
    IF at + n - 1 <= last THEN (bytes[at + n - 1] % Rooms[n]) * Weights[n] ELSE 0
NumberUpto(bytes, at, last) ==
    Got(last + 1, Part(bytes, at, last, 1) + Part(bytes, at, last, 2) + Part(bytes, at, last, 3)
                  + Part(bytes, at, last, 4) + Part(bytes, at, last, 5))

\* read_u32: at most five bytes; what there is no room for in the last is lost.
ReadVarint(bytes, at) ==
    IF at = At0 \/ Ends(bytes, at) = {} THEN Failed
    ELSE NumberUpto(bytes, at, Min(Ends(bytes, at)))

\* Mutant: the sign is dropped.
ZigzagUnsigned(n) == IF n >= 0 THEN 2 * n ELSE -2 * n

\* encode_zigzag_i32
Zigzag(n) == IF n >= 0 THEN 2 * n ELSE -2 * n - 1

\* decode_zigzag_u32
Unzigzag(n) == IF n % 2 = 0 THEN n \div 2 ELSE -(n \div 2) - 1

\* write_optional_u32
NoIndex == -1
OptionalVarint(index) == Varint[index + 1]

-----------------------------------------------------------------------------
(* Strings.  The stream that encrypts one depends on a key, on the section *)
(* and place of the string, and on how long it is; a byte is combined with *)
(* the stream by an operation that undoes itself.                          *)

NoKey == 0
NameDomain == 1
ConstantDomain == 2

Stream(key, domain, index, length) == (5 * key + 7 * domain + 31 * index + 101 * length) % 256

\* crypt_string_bytes
Crypt(text, key, domain, index) ==
    IF key = NoKey THEN text
    ELSE [k \in 1..Len(text) |-> (Stream(key, domain, index, Len(text)) - text[k]) % 256]

PositionIn(table, text) == {i \in DOMAIN table : table[i] = text}

\* string_prefix_atom_index: the longest that leaves something over.
PrefixesOf(text) == {i \in DOMAIN PrefixAtoms : IsStrictPrefix(PrefixAtoms[i], text)}
LongestPrefix(text) ==
    CHOOSE i \in PrefixesOf(text) :
        \A j \in PrefixesOf(text) : Len(PrefixAtoms[j]) <= Len(PrefixAtoms[i])

\* What is left of a text behind its prefix.
Suffix(text) == SubSeq(text, Len(PrefixAtoms[LongestPrefix(text)]) + 1, Len(text))

\* write_string_payload: an atom, a prefix and the rest, or the bytes.
TextBytes(key, domain, index) ==
    LET written[t \in Seq(Byte)] ==
            IF PositionIn(StringAtoms, t) # {}
            THEN Varint[0] \o Varint[Min(PositionIn(StringAtoms, t)) - 1]
            ELSE IF PrefixesOf(t) # {}
            THEN Varint[1] \o Varint[LongestPrefix(t) - 1] \o written[Suffix(t)]
            ELSE Varint[Len(t) + 2] \o Crypt(t, key, domain, index)
    IN  written
StringBytes(text, key, domain, index) == TextBytes(key, domain, index)[text]

\* The number of a table's entry, and the bytes of a string of its own.
ReadAtom(bytes, at, table) ==
    LET entry == ReadVarint(bytes, at)
    IN  IF entry.at # At0 /\ entry.v < Len(table) THEN Got(entry.at, table[entry.v + 1]) ELSE Failed
ReadOwn(bytes, at, length, key, domain, index) ==
    IF at + length <= Len(bytes) + 1
    THEN Got(at + length, Crypt(SubSeq(bytes, at, at + length - 1), key, domain, index)) ELSE Failed

\* read_constant_string, read_prefixed_string, read_name_string
TextReadAt(bytes, key, domain, index) ==
    LET read[at \in Nat] ==
            LET mark == ReadVarint(bytes, at)
                prefix == ReadAtom(bytes, mark.at, PrefixAtoms)
            IN  IF mark.at = At0 THEN Failed
                ELSE IF mark.v = 0 THEN ReadAtom(bytes, mark.at, StringAtoms)
                ELSE IF mark.v = 1
                THEN IF prefix.at # At0 /\ read[prefix.at].at # At0
                     THEN Got(read[prefix.at].at, prefix.v \o read[prefix.at].v) ELSE Failed
                ELSE ReadOwn(bytes, mark.at, mark.v - 2, key, domain, index)
    IN  read
ReadString(bytes, start, key, domain, index) == TextReadAt(bytes, key, domain, index)[start]

-----------------------------------------------------------------------------
(* Operands.                                                               *)

Operand(kind, n) == <<kind, n>>
None == <<"none", 0>>
Number(operand) == operand[2]

\* BytecodeOperand: a number of 32 bits, and for one that names something a number that
\* its reference leaves two bits for.
OperandKinds ==
    {"reg", "const", "name", "slot", "extern", "label", "count", "none", "fn", "operator",
     "decl", "scope"}
BytecodeOperand ==
    {o \in OperandKinds \X Nat :
        /\ U32(Number(o))
        /\ o[1] \in {"name", "slot", "extern"} => U32(4 * Number(o) + 2)
        /\ o[1] = "none" => o = None}

\* Where an operand of any kind may stand.
Tagged == {"value", "optreg", "optname", "optvalue"}

\* compact_value_operand_byte: the kinds that fit into one byte, the first byte of
\* each, and how many there are.
CompactBase(kind) ==
    CASE kind = "reg" -> 128 [] kind = "const" -> 192 [] kind = "slot" -> 224
      [] kind = "extern" -> 240 [] kind = "fn" -> 248 [] kind = "name" -> 252
      [] kind = "none" -> 255
      [] OTHER -> 0
CompactSize(kind) ==
    CASE kind = "reg" -> 64 [] kind = "const" -> 32 [] kind = "slot" -> 16
      [] kind = "extern" -> 8 [] kind = "fn" -> 4 [] kind = "name" -> 3 [] kind = "none" -> 1
      [] OTHER -> 0

\* Mutant: the number of the first one that does not fit is taken for one that does.
IsCompactOver(operand) == Number(operand) <= CompactSize(operand[1]) /\ CompactSize(operand[1]) > 0

IsCompact(operand) == Number(operand) < CompactSize(operand[1])

CompactByte(operand) == CompactBase(operand[1]) + Number(operand)

\* decode_compact_value_operand; there is none below 128.
CompactKinds == {"reg", "const", "slot", "extern", "fn", "name", "none"}
FromCompact(byte) ==
    LET kind == CHOOSE k \in CompactKinds :
                    CompactBase(k) <= byte /\ byte < CompactBase(k) + CompactSize(k)
    IN  Operand(kind, byte - CompactBase(kind))

\* encode_name_ref_operand and decode_name_ref_operand
NameRefKinds == <<"name", "slot", "extern">>
NameRef(operand) ==
    4 * Number(operand) + (CHOOSE i \in 1..3 : NameRefKinds[i] = operand[1]) - 1
FromNameRef(n) == Operand(NameRefKinds[IF n % 4 = 3 THEN 1 ELSE (n % 4) + 1], n \div 4)

\* ensure_operand_kind, and BytecodeOperand::tag for the kinds that any may stand for.
TagOf(kind) == IF kind \in {"operator", "decl", "scope"} THEN "count" ELSE kind
IsOfKind(operand, kind) ==
    \/ kind \in Tagged
    \/ operand[1] = kind
    \/ kind = "nameref" /\ operand[1] \in Range(NameRefKinds)

\* write_tagged_operand
TaggedBytes(operand, tags) == <<tags[TagOf(operand[1])]>> \o Varint[Number(operand)]

\* write_operand
OperandBytes(operand, kind, tags) ==
    CASE kind \in Tagged -> IF IsCompact(operand) THEN <<CompactByte(operand)>>
                            ELSE TaggedBytes(operand, tags)
      [] kind = "nameref" -> Varint[NameRef(operand)]
      [] OTHER -> Varint[Number(operand)]

\* Mutant: the tag is forgotten.
OperandLengthUntagged(operand, kind) ==
    IF kind \in Tagged /\ IsCompact(operand) THEN 1
    ELSE VarintLength[IF kind = "nameref" THEN NameRef(operand) ELSE Number(operand)]

\* encoded_operand_len
OperandLength(operand, kind) ==
    CASE kind \in Tagged -> IF IsCompact(operand) THEN 1 ELSE 1 + VarintLength[Number(operand)]
      [] kind = "nameref" -> VarintLength[NameRef(operand)]
      [] OTHER -> VarintLength[Number(operand)]

\* read_tagged_operand
ReadTagged(bytes, at, tags) ==
    LET tag == ReadByte(bytes, at)
        payload == ReadVarint(bytes, tag.at)
        kinds == {k \in DOMAIN tags : tags[k] = tag.v}
    IN  IF payload.at = At0 \/ kinds = {} THEN Failed
        ELSE LET kind == CHOOSE k \in kinds : TRUE
             IN  Got(payload.at, IF kind = "none" THEN None ELSE Operand(kind, payload.v))

\* read_operand; an operand that is never in one byte has a kind of its own.
ReadOperand(bytes, at, kind, tags) ==
    LET number == ReadVarint(bytes, at)
        first == ReadByte(bytes, at)
    IN  IF kind = "tagged" THEN ReadTagged(bytes, at, tags)
        ELSE IF kind \in Tagged
        THEN IF first.at # At0 /\ first.v >= 128 THEN Got(first.at, FromCompact(first.v))
             ELSE ReadTagged(bytes, at, tags)
        ELSE IF number.at = At0 THEN Failed
        ELSE Got(number.at, IF kind = "nameref" THEN FromNameRef(number.v)
                            ELSE Operand(kind, number.v))
=============================================================================
