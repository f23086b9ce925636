----------------------------- MODULE WireTransfer -----------------------------
(***************************************************************************)
(* A module travels as bytes: it is written with some configuration, the   *)
(* bytes are cut or something is appended to them on the way, and they are *)
(* read, with a seed or with an encoding that is known (to_bytes_with_     *)
(* encoding, from_bytes_with_seed and from_bytes_with_encoding of          *)
(* crates/core/src/lib.rs).  The reader goes through the sections one item *)
(* at a time and gives up at the first that is wrong.                      *)
(***************************************************************************)
EXTENDS WireModule

CONSTANTS
    Modules,            \* modules that are written
    Configs,            \* configurations they are written with
    Trailing            \* bytes that may be appended

ASSUME ModulesAssumption == Modules \subseteq BytecodeModule
ASSUME ConfigsAssumption == Configs \subseteq {c \in ObfuscationConfig : Valid(c)}
ASSUME TrailingAssumption == Trailing \subseteq Byte

VARIABLES
    phase,              \* what happens next: a section to read, or how it ended
    source,             \* the module
    config,             \* the configuration it is written with
    bytes,              \* what was written and, later, what arrives
    seed,               \* the seed made for what was written
    damaged,            \* whether what arrives is something else
    encoding,           \* what the reader takes for the encoding
    at,                 \* ByteReader::offset: where it is, or At0
    left,               \* items left in the section
    loaded              \* the module read so far

reader == <<encoding, at, left, loaded>>
vars == <<phase, source, config, bytes, seed, damaged, reader>>

Sending == {"write", "arrive"}
Reading == {"names", "functions", "constants", "code"}
Ended == {"loaded", "refused"}

Empty == Module(0, 0, <<>>, <<>>, <<>>, <<>>)

Init ==
    /\ phase = "write" /\ source \in Modules /\ config \in Configs
    /\ bytes = <<>> /\ damaged = FALSE /\ seed = PairedSeed(config, <<>>)
    /\ encoding = EncodingOf(DefaultConfig)
    /\ at = At0 /\ left = 0 /\ loaded = Empty

-----------------------------------------------------------------------------
(* The bytes and their seed, and the way.                                  *)

\* Nothing is sent if write_instruction finds an operand that is not allowed.
Write ==
    /\ phase = "write"
    /\ IF IsWritable(source, EncodingOf(config))
       THEN bytes' = ModuleBytes(source, EncodingOf(config)) /\ phase' = "arrive"
       ELSE UNCHANGED bytes /\ phase' = "refused"
    /\ seed' = PairedSeed(config, bytes')
    /\ UNCHANGED <<source, config, damaged, reader>>

Cut ==
    /\ phase = "arrive" /\ ~damaged
    /\ \E n \in 0..(Len(bytes) - 1) : bytes' = SubSeq(bytes, 1, n)
    /\ damaged' = TRUE
    /\ UNCHANGED <<phase, source, config, seed, reader>>

Extend ==
    /\ phase = "arrive" /\ ~damaged
    /\ \E byte \in Trailing : bytes' = Append(bytes, byte)
    /\ damaged' = TRUE
    /\ UNCHANGED <<phase, source, config, seed, reader>>

-----------------------------------------------------------------------------
(* The reader.                                                             *)

\* The head, and the number of names.
Begin(e) ==
    LET head == ReadHead(bytes)
        count == ReadCount(bytes, head.at)
    IN  /\ encoding' = e
        /\ at' = count.at /\ left' = count.v
        /\ phase' = IF count.at = At0 THEN "refused" ELSE "names"
        /\ loaded' = IF head.at = At0 THEN Empty
                     ELSE [Empty EXCEPT !.kind = head.v.kind, !.externs = head.v.externs]
        /\ UNCHANGED <<source, config, bytes, seed, damaged>>

\* from_bytes_with_encoding, by one who has the encoding
Open ==
    /\ phase = "arrive"
    /\ Begin(EncodingOf(config))

\* from_bytes_with_seed
OpenWithSeed ==
    /\ phase = "arrive" /\ Fits(seed, bytes)
    /\ Begin(EncodingOf(FromSections(seed.sections)))

RefuseSeed ==
    /\ phase = "arrive" /\ ~Fits(seed, bytes)
    /\ phase' = "refused"
    /\ UNCHANGED <<source, config, bytes, seed, damaged, reader>>

\* The item that was read is added, unless it could not be.
Take(section, item) ==
    /\ phase = section /\ left > 0
    /\ at' = item.at /\ left' = left - 1
    /\ phase' = IF item.at = At0 THEN "refused" ELSE phase
    /\ loaded' = [loaded EXCEPT ![section] = IF item.at = At0 THEN @ ELSE Append(@, item.v)]
    /\ UNCHANGED <<source, config, bytes, seed, damaged, encoding>>

ReadName == Take("names", ReadString(bytes, at, encoding.key, NameDomain, Len(loaded.names)))
TakeFunction == Take("functions", ReadFunction(bytes, at, encoding.tags))
TakeConstant == Take("constants", ReadConstant(bytes, at, Len(loaded.constants), encoding))

\* An instruction may bring a constant with it.
TakeDecoded(read) ==
    /\ phase = "code" /\ left > 0
    /\ at' = read.at /\ left' = left - 1
    /\ phase' = IF read.at = At0 THEN "refused" ELSE phase
    /\ loaded' = IF read.at = At0 THEN loaded
                 ELSE [loaded EXCEPT !.constants = read.constants,
                                     !.code = Append(@, Instr(read.op, read.args))]
    /\ UNCHANGED <<source, config, bytes, seed, damaged, encoding>>

TakeInstruction == TakeDecoded(ReadInstruction(bytes, at, loaded.constants, encoding))

\* The number of items in the next section.
NextSection(section, next) ==
    LET count == ReadCount(bytes, at)
    IN  /\ phase = section /\ left = 0
        /\ at' = count.at /\ left' = count.v
        /\ phase' = IF count.at = At0 THEN "refused" ELSE next
        /\ UNCHANGED <<source, config, bytes, seed, damaged, encoding, loaded>>

\* Mutant: what is left over is ignored.
ExpectNothing == at >= 0

\* expect_end
ExpectEnd == Remaining(bytes, at) = 0

Finish ==
    /\ phase = "code" /\ left = 0
    /\ phase' = IF ExpectEnd THEN "loaded" ELSE "refused"
    /\ UNCHANGED <<source, config, bytes, seed, damaged, reader>>

\* It is over; in all other states the reader can go on.
Rest == phase \in Ended /\ UNCHANGED vars

Next ==
    \/ Write \/ Cut \/ Extend
    \/ Open \/ OpenWithSeed \/ RefuseSeed
    \/ ReadName \/ TakeFunction \/ TakeConstant \/ TakeInstruction
    \/ NextSection("names", "functions") \/ NextSection("functions", "constants")
    \/ NextSection("constants", "code") \/ Finish \/ Rest

Spec == Init /\ [][Next]_vars

-----------------------------------------------------------------------------
(* Properties.                                                             *)

\* Types; and no section is taken to have more items than there are bytes, whatever
\* arrives (with_capacity in from_bytes_with_encoding).
TypeOK ==
    /\ phase \in Sending \cup Reading \cup Ended
    /\ damaged \in BOOLEAN
    /\ at \in 0..(Len(bytes) + 1)
    /\ left \in 0..Len(bytes)
    /\ loaded.externs \in 0..MaxExterns

\* An instruction says the same in two modules if it stands for the same operation
\* and has the same operands, a constant being the same if its value is, but for the
\* sign of a zero.
Operands(i, constants) ==
    [k \in DOMAIN i.args |->
        IF i.args[k][1] = "const" /\ HasConstant(constants, Number(i.args[k]))
        THEN <<"const", Unsigned(ConstantAt(constants, Number(i.args[k])))>>
        ELSE IF i.args[k][1] \in {"operator", "decl", "scope", "count"}
        THEN <<"count", Number(i.args[k])>>
        ELSE i.args[k]]
Meaning(i, constants) == <<Canonical(i.op), Operands(i, constants)>>

SaysTheSame(m, n) ==
    /\ m.kind = n.kind /\ m.externs = n.externs
    /\ m.names = n.names /\ m.functions = n.functions
    /\ Len(m.code) = Len(n.code)
    /\ \A k \in DOMAIN m.code : Meaning(m.code[k], m.constants) = Meaning(n.code[k], n.constants)

\* A module that can be written can be read if it has not too many external slots.
IsSendable(m, e) == IsWritable(m, e) /\ m.externs <= MaxExterns

\* What arrives as it was written is not refused, and the module that is loaded
\* says what the written one says: no operand at a boundary of its short form, no
\* short form of an operation, no order of the codes and no key makes a difference.
\* (A short 0 behind a constant -0.0 is loaded as -0.0, to which it is equal.)
LoadedAsWritten ==
    ~damaged => /\ phase = "refused" => ~IsSendable(source, EncodingOf(config))
                /\ phase = "loaded" => SaysTheSame(loaded, source)

\* Bytes that were cut anywhere, or that something was appended to, are never
\* loaded, neither with their seed nor without.
DamageRefused == damaged => phase # "loaded"

\* The seed that goes with the bytes gives back the configuration: the order of the
\* external slots and the key too.
SeedRestores ==
    phase = "arrive" => AreSections(seed.sections) /\ FromSections(seed.sections) = config

\* The ranges that the source map gives to the instructions are the ones the reader
\* finds them at.
RangesAsRead ==
    phase = "code" /\ ~damaged =>
        LET ranges == Ranges(source, EncodingOf(config))
            done == Len(loaded.code)
        IN  /\ left > 0 => at = ranges[done + 1][1] + 1
            /\ done > 0 => at = ranges[done][2] + 1

\* The profile accounts for every byte once: its sections make up the module, and
\* the operation and the operands of an instruction make up the instruction.
ProfileAddsUp ==
    phase = "arrive" /\ ~damaged =>
        LET profile == Profile(source, EncodingOf(config))
        IN  /\ Total(profile.sections) = Len(bytes)
            /\ \A k \in DOMAIN source.code :
                    profile.opcodes[k] = 1 + Total(profile.operands[k])
=============================================================================
