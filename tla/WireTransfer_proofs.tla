-------------------------- MODULE WireTransfer_proofs --------------------------
(***************************************************************************)
(* Theorems about WireTransfer: the readers invert the writers, so that    *)
(* what arrives as it was written is loaded with its meaning and nothing   *)
(* that was cut or extended is loaded; the ranges and the profile agree    *)
(* with the bytes, the seed that goes with them gives back the             *)
(* configuration, and whatever arrives no place in it and no number of     *)
(* items goes beyond it.                                                   *)
(***************************************************************************)
EXTENDS WireTransfer, WireFormat_proofs

-----------------------------------------------------------------------------
(* Seeds.                                                                  *)

\* No name is there twice.
IsInjectiveList(s) == \A i, j \in 1..Len(s) : s[i] = s[j] => i = j

\* No operation, kind or type is named twice.
LEMMA OpsDiffer == IsInjectiveList(Ops)
BY DEF IsInjectiveList, Ops
LEMMA OperandTagsDiffer == IsInjectiveList(OperandTags)
BY DEF IsInjectiveList, OperandTags
LEMMA ConstantTagsDiffer == IsInjectiveList(ConstantTags)
BY DEF IsInjectiveList, ConstantTags

\* The places of names that are another order of the ones that are known give the
\* names back.
LEMMA DigitsRestore ==
    ASSUME NEW S, NEW names \in Seq(S), NEW allowed \in Seq(S), IsInjectiveList(allowed),
           Reorders(names, allowed), Len(allowed) <= SeedDigits
    PROVE  /\ AreDigitsOf(Digits(names, allowed), allowed)
           /\ NamesOf(Digits(names, allowed), allowed) = names
<1>1. PICK n \in Nat : /\ n = Len(allowed) /\ n = Len(names) /\ DOMAIN allowed = 1..n
                       /\ DOMAIN names = 1..n
  BY DEF Reorders
<1>2. PICK d : d = Digits(names, allowed)
  OBVIOUS
<1>3. d = [k \in 1..n |-> PlaceOf(allowed, names[k])]
  BY <1>1, <1>2 DEF Digits
<1>4. ASSUME NEW k \in 1..n
      PROVE  d[k] \in 0..(n - 1) /\ allowed[d[k] + 1] = names[k]
  <2>1. names[k] \in Range(allowed)
    BY <1>1 DEF Reorders, Range
  <2>2. \E p \in DOMAIN allowed : allowed[p] = names[k]
    BY <2>1 DEF Range
  <2>3. PICK p : p = CHOOSE q \in DOMAIN allowed : allowed[q] = names[k]
    OBVIOUS
  <2>4. p \in 1..n /\ allowed[p] = names[k]
    BY <1>1, <2>2, <2>3
  <2>5. d[k] = p - 1
    BY <1>3, <2>3 DEF PlaceOf
  <2> QED
    BY <2>4, <2>5
<1>5. d \in [1..n -> 0..(n - 1)]
  BY <1>3, <1>4
<1>6. d \in Seq(0..(n - 1)) /\ Len(d) = n /\ DOMAIN d = 1..n
  BY <1>5
<1>7. Range(d) = 0..(n - 1)
  <2>1. Range(d) \subseteq 0..(n - 1)
    BY <1>4, <1>6 DEF Range
  <2>2. ASSUME NEW j \in 0..(n - 1)
        PROVE  j \in Range(d)
    <3>1. j + 1 \in 1..n
      OBVIOUS
    <3>2. allowed[j + 1] \in Range(names)
      BY <1>1, <3>1 DEF Reorders, Range
    <3>3. PICK k \in 1..n : names[k] = allowed[j + 1]
      BY <1>1, <3>2 DEF Range
    <3>4. d[k] \in 0..(n - 1) /\ allowed[d[k] + 1] = allowed[j + 1]
      BY <1>4, <3>3
    <3>5. PICK i \in 0..(n - 1) : i = d[k] /\ allowed[i + 1] = allowed[j + 1]
      BY <3>4
    <3>6. i + 1 \in 1..n
      OBVIOUS
    <3>7. i + 1 = j + 1
      BY <1>1, <3>1, <3>5, <3>6 DEF IsInjectiveList
    <3>8. d[k] = j
      BY <3>5, <3>7
    <3> QED
      BY <1>6, <3>8 DEF Range
  <2> QED
    BY <2>1, <2>2
<1>8. AreDigitsOf(d, allowed)
  BY <1>1, <1>6, <1>7 DEF AreDigitsOf, IsSlotPermutation
<1>9. NamesOf(d, allowed) = names
  <2>1. NamesOf(d, allowed) = [k \in 1..n |-> allowed[d[k] + 1]]
    BY <1>6 DEF NamesOf
  <2>2. names = [k \in 1..n |-> names[k]]
    BY <1>1
  <2> QED
    BY <1>4, <2>1, <2>2
<1> QED
  BY <1>2, <1>8, <1>9

\* The names are sequences of their own elements.
LEMMA NamesTyped ==
    /\ Ops \in Seq(Range(Ops)) /\ OperandTags \in Seq(Range(OperandTags))
    /\ ConstantTags \in Seq(Range(ConstantTags))
<1>1. ASSUME NEW s, NEW n \in Nat, s = [k \in 1..n |-> s[k]]
      PROVE  s \in Seq(Range(s))
  <2>1. s \in [1..n -> Range(s)]
    BY <1>1 DEF Range
  <2> QED
    BY <2>1
<1>2. Ops = [k \in 1..76 |-> Ops[k]]
  BY DEF Ops
<1>3. OperandTags = [k \in 1..9 |-> OperandTags[k]]
  BY DEF OperandTags
<1>4. ConstantTags = [k \in 1..6 |-> ConstantTags[k]]
  BY DEF ConstantTags
<1>5. PICK a \in Nat, b \in Nat, c \in Nat : a = 76 /\ b = 9 /\ c = 6
  OBVIOUS
<1>6. Ops \in Seq(Range(Ops))
  BY <1>1, <1>2, <1>5
<1>7. OperandTags \in Seq(Range(OperandTags))
  BY <1>1, <1>3, <1>5
<1>8. ConstantTags \in Seq(Range(ConstantTags))
  BY <1>1, <1>4, <1>5
<1> QED
  BY <1>6, <1>7, <1>8

\* One more section.
LEMMA Lengthened ==
    ASSUME NEW S, NEW p \in Seq(S), NEW n \in Nat, Len(p) = n, NEW x \in S
    PROVE  /\ p \o <<x>> \in Seq(S) /\ Len(p \o <<x>>) = n + 1
           /\ (p \o <<x>>)[n + 1] = x /\ \A i \in 1..n : (p \o <<x>>)[i] = p[i]
<1>1. p \o <<x>> = Append(p, x)
  BY AppendIsConcat
<1>2. /\ Append(p, x) \in Seq(S) /\ Len(Append(p, x)) = n + 1
      /\ \A i \in 1..n : Append(p, x)[i] = p[i]
      /\ Append(p, x)[n + 1] = x
  OBVIOUS
<1> QED
  BY <1>1, <1>2, Zenon

\* The sections of a seed, one after the other.
LEMMA SectionsAre ==
    ASSUME NEW a, NEW b, NEW c, NEW given, NEW sections,
           a = Digits(given.opcodes, Ops), b = Digits(given.tags, OperandTags),
           c = Digits(given.types, ConstantTags), sections = Sections(given)
    PROVE  /\ sections[1] = a /\ sections[2] = b /\ sections[3] = c
           /\ Len(sections) = IF given.key # NoKey THEN 5 ELSE IF given.externs # <<>> THEN 4 ELSE 3
           /\ Len(sections) >= 4 => sections[4] = given.externs
           /\ Len(sections) = 5 => sections[5] = KeySection(given.key)
<1>1. PICK d, k, S : d = given.externs /\ k = KeySection(given.key) /\ S = {a, b, c, d, k}
  OBVIOUS
<1>2. PICK s3 : s3 = <<a, b, c>>
  OBVIOUS
<1>3. s3 \in Seq(S) /\ Len(s3) = 3 /\ s3[1] = a /\ s3[2] = b /\ s3[3] = c
  BY <1>1, <1>2
<1>4. PICK none \in Seq(S) : none = <<>> /\ Len(none) = 0
  <2>1. <<>> \in Seq(S) /\ Len(<<>>) = 0
    OBVIOUS
  <2> QED
    BY <2>1, Zenon
<1>5. PICK d1, k1 : d1 = <<d>> /\ k1 = <<k>>
  OBVIOUS
<1>6. d \in S /\ k \in S
  BY <1>1
<1>7. sections = s3 \o (IF given.externs = <<>> /\ given.key = NoKey THEN none ELSE d1)
                    \o (IF given.key = NoKey THEN none ELSE k1)
  BY <1>1, <1>2, <1>4, <1>5, Zenon DEF Sections
<1>8. \A p \in Seq(S) : p \o none = p
  BY <1>4
<1>9. PICK t : t = s3 \o d1
  OBVIOUS
<1>10. PICK n \in Nat : n = 3
  OBVIOUS
<1>11. /\ t \in Seq(S) /\ Len(t) = n + 1 /\ t[n + 1] = d /\ \A i \in 1..n : t[i] = s3[i]
  <2>1. t = s3 \o <<d>>
    BY <1>5, <1>9, Zenon
  <2>2. s3 \in Seq(S) /\ Len(s3) = n
    BY <1>3, <1>10, Zenon
  <2>3. d \in S
    BY <1>6
  <2> QED
    BY <2>1, <2>2, <2>3, Lengthened
<1>12. Len(t) = 4 /\ t[1] = a /\ t[2] = b /\ t[3] = c /\ t[4] = d
  <2>1. n + 1 = 4 /\ 1 \in 1..n /\ 2 \in 1..n /\ 3 \in 1..n
    BY <1>10
  <2> QED
    BY <1>3, <1>11, <2>1, Zenon
<1>13. PICK u : u = t \o k1
  OBVIOUS
<1>14. PICK m \in Nat : m = n + 1
  OBVIOUS
<1>15. /\ u \in Seq(S) /\ Len(u) = m + 1 /\ u[m + 1] = k /\ \A i \in 1..m : u[i] = t[i]
  <2>1. u = t \o <<k>>
    BY <1>5, <1>13, Zenon
  <2>2. t \in Seq(S) /\ Len(t) = m
    BY <1>11, <1>14, Zenon
  <2>3. k \in S
    BY <1>6
  <2> QED
    BY <2>1, <2>2, <2>3, Lengthened
<1>16. /\ Len(u) = 5 /\ u[1] = a /\ u[2] = b /\ u[3] = c /\ u[4] = d /\ u[5] = k
  <2>1. m + 1 = 5 /\ 1 \in 1..m /\ 2 \in 1..m /\ 3 \in 1..m /\ 4 \in 1..m
    BY <1>10, <1>14
  <2> QED
    BY <1>12, <1>15, <2>1, Zenon
<1>17. CASE given.externs = <<>> /\ given.key = NoKey
  <2>1. sections = (s3 \o none) \o none
    BY <1>7, <1>17, Zenon
  <2>2. sections = s3
    BY <1>3, <1>8, <2>1
  <2>3. Len(sections) = 3
    BY <1>3, <2>2
  <2>4. 3 = IF given.key # NoKey THEN 5 ELSE IF given.externs # <<>> THEN 4 ELSE 3
    BY <1>17, Zenon
  <2>5. Len(sections) = IF given.key # NoKey THEN 5 ELSE IF given.externs # <<>> THEN 4 ELSE 3
    BY <2>3, <2>4, Zenon
  <2>6. sections[1] = a /\ sections[2] = b /\ sections[3] = c
    BY <1>3, <2>2, Zenon
  <2>7. PICK l \in Nat : l = Len(sections) /\ l = 3
    BY <2>3
  <2>8. ~ l >= 4 /\ l # 5
    BY <2>7
  <2>9. ~ Len(sections) >= 4 /\ Len(sections) # 5
    BY <2>7, <2>8, Zenon
  <2> QED
    BY <2>5, <2>6, <2>9, Zenon
<1>18. CASE given.externs # <<>> /\ given.key = NoKey
  <2>1. sections = (s3 \o d1) \o none
    BY <1>7, <1>18, Zenon
  <2>2. sections = t
    BY <1>8, <1>9, <1>11, <2>1
  <2>3. Len(sections) = 4
    BY <1>12, <2>2
  <2>4. 4 = IF given.key # NoKey THEN 5 ELSE IF given.externs # <<>> THEN 4 ELSE 3
    BY <1>18, Zenon
  <2> QED
    BY <1>1, <1>12, <2>2, <2>3, <2>4
<1>19. CASE given.key # NoKey
  <2>1. sections = (s3 \o d1) \o k1
    BY <1>7, <1>19, Zenon
  <2>2. sections = u
    BY <1>9, <1>13, <2>1, Zenon
  <2> QED
    BY <1>1, <1>16, <1>19, <2>2
<1> QED
  BY <1>17, <1>18, <1>19

\* The sections of a configuration are ones, and give it back.
LEMMA SectionsRestore ==
    ASSUME NEW given \in ObfuscationConfig, Valid(given)
    PROVE  AreSections(Sections(given)) /\ FromSections(Sections(given)) = given
<1>1. PICK a, b, c : /\ a = Digits(given.opcodes, Ops) /\ b = Digits(given.tags, OperandTags)
                     /\ c = Digits(given.types, ConstantTags)
  OBVIOUS
<1>2. PICK s : s = Sections(given)
  OBVIOUS
<1>3. /\ s[1] = a /\ s[2] = b /\ s[3] = c
      /\ Len(s) = IF given.key # NoKey THEN 5 ELSE IF given.externs # <<>> THEN 4 ELSE 3
      /\ Len(s) >= 4 => s[4] = given.externs
      /\ Len(s) = 5 => s[5] = KeySection(given.key)
  BY <1>1, <1>2, SectionsAre
<1>4. /\ given.opcodes \in Seq(Range(Ops)) /\ given.tags \in Seq(Range(OperandTags))
      /\ given.types \in Seq(Range(ConstantTags)) /\ given.key \in Nat
      /\ given = [opcodes |-> given.opcodes, tags |-> given.tags, types |-> given.types,
                   externs |-> given.externs, key |-> given.key]
  BY DEF ObfuscationConfig
<1>5. /\ Reorders(given.opcodes, Ops) /\ Reorders(given.tags, OperandTags)
      /\ Reorders(given.types, ConstantTags) /\ IsSlotPermutation(given.externs)
  BY DEF Valid
<1>6. Len(Ops) <= SeedDigits /\ Len(OperandTags) <= SeedDigits /\ Len(ConstantTags) <= SeedDigits
  BY NamesLengths DEF SeedDigits
<1>7. AreDigitsOf(a, Ops) /\ NamesOf(a, Ops) = given.opcodes
  BY <1>1, <1>4, <1>5, <1>6, NamesTyped, OpsDiffer, DigitsRestore
<1>8. AreDigitsOf(b, OperandTags) /\ NamesOf(b, OperandTags) = given.tags
  BY <1>1, <1>4, <1>5, <1>6, NamesTyped, OperandTagsDiffer, DigitsRestore
<1>9. AreDigitsOf(c, ConstantTags) /\ NamesOf(c, ConstantTags) = given.types
  BY <1>1, <1>4, <1>5, <1>6, NamesTyped, ConstantTagsDiffer, DigitsRestore
<1>10. Len(KeySection(given.key)) = 2 /\ KeySection(given.key)[1] = LetterK
       /\ KeySection(given.key)[2] = given.key
  BY DEF KeySection
<1>11. AreSections(s)
  BY <1>3, <1>5, <1>7, <1>8, <1>9, <1>10 DEF AreSections
<1>12. (IF Len(s) >= 4 THEN s[4] ELSE <<>>) = given.externs
  BY <1>3
<1>13. (IF Len(s) = 5 THEN s[5][2] ELSE NoKey) = given.key
  BY <1>3, <1>10
<1>14. FromSections(s) = Config(given.opcodes, given.tags, given.types, given.externs, given.key)
  BY <1>3, <1>7, <1>8, <1>9, <1>12, <1>13, Zenon DEF FromSections
<1>15. FromSections(s) = given
  BY <1>4, <1>14, Zenon DEF Config
<1> QED
  BY <1>2, <1>11, <1>15

-----------------------------------------------------------------------------
(* The way and the reader.                                                 *)

ModuleFields == {"kind", "externs", "names", "functions", "constants", "code"}

\* What was read so far is a module as far as the reader goes by it.
IsLoaded(w) ==
    /\ DOMAIN w = ModuleFields /\ w.externs \in 0..MaxExterns
    /\ IsList(w.names) /\ IsList(w.constants)

\* The inductive invariant: the seed is the one of the configuration, what arrives is
\* what was written unless it was damaged, and the reader has not begun before that.
WireInv ==
    /\ phase \in Sending \cup Reading \cup Ended /\ damaged \in BOOLEAN
    /\ source \in Modules /\ config \in Configs /\ bytes \in Seq(Byte)
    /\ seed.sections = Sections(config)
    /\ encoding.key \in Nat
    /\ at \in Nat /\ IsPlace(bytes, at) /\ left \in 0..Len(bytes)
    /\ phase \in Sending => at = At0 /\ left = 0
    /\ IsLoaded(loaded)
    /\ phase = "arrive" /\ ~damaged =>
            IsWritable(source, EncodingOf(config)) /\ bytes = ModuleBytes(source, EncodingOf(config))

LEMMA EmptyList == IsList(<<>>)
<1>1. <<>> \in Seq({})
  OBVIOUS
<1> QED
  BY <1>1 DEF IsList

\* Nothing was read yet.
LEMMA NothingLoaded == IsLoaded(Empty)
<1>1. Empty = [kind |-> 0, externs |-> 0, names |-> <<>>, functions |-> <<>>, constants |-> <<>>,
               code |-> <<>>]
  BY Zenon DEF Empty, Module
<1>2. PICK w : w = Empty
  OBVIOUS
<1>3. PICK none : none = <<>>
  OBVIOUS
<1>4. w = [kind |-> 0, externs |-> 0, names |-> none, functions |-> none, constants |-> none,
           code |-> none]
  BY <1>1, <1>2, <1>3, Zenon
<1>5. /\ DOMAIN w = ModuleFields /\ w.externs = 0 /\ w.names = none /\ w.constants = none
  BY <1>4 DEF ModuleFields
<1>6. PICK m \in Nat : m = MaxExterns
  BY DEF MaxExterns
<1>7. 0 \in 0..m
  OBVIOUS
<1>8. IsList(none)
  BY <1>3, EmptyList, Zenon
<1>9. w.externs \in 0..MaxExterns
  BY <1>5, <1>6, <1>7, Zenon
<1> QED
  BY <1>2, <1>5, <1>8, <1>9, Zenon DEF IsLoaded

\* Whatever is put in its place, a list of names and of constants remains.
LEMMA LoadedTakes ==
    ASSUME NEW w, IsLoaded(w), NEW section \in {"names", "functions", "constants"}, NEW x,
           section \in {"names", "constants"} => IsList(x)
    PROVE  IsLoaded([w EXCEPT ![section] = x])
<1>1. PICK v : v = [w EXCEPT ![section] = x]
  OBVIOUS
<1>2. /\ DOMAIN v = DOMAIN w
      /\ \A f \in DOMAIN w : v[f] = IF f = section THEN x ELSE w[f]
  BY <1>1
<1>3. DOMAIN w = ModuleFields /\ {"externs", "names", "constants"} \subseteq ModuleFields
  BY DEF IsLoaded, ModuleFields
<1>4. v.externs = w.externs
  BY <1>2, <1>3
<1>5. IsList(v.names)
  <2>1. CASE section = "names"
    BY <1>2, <1>3, <2>1
  <2>2. CASE section # "names"
    <3>1. v.names = w.names
      BY <1>2, <1>3, <2>2
    <3> QED
      BY <3>1 DEF IsLoaded
  <2> QED
    BY <2>1, <2>2
<1>6. IsList(v.constants)
  <2>1. CASE section = "constants"
    BY <1>2, <1>3, <2>1
  <2>2. CASE section # "constants"
    <3>1. v.constants = w.constants
      BY <1>2, <1>3, <2>2
    <3> QED
      BY <3>1 DEF IsLoaded
  <2> QED
    BY <2>1, <2>2
<1>7. w.externs \in 0..MaxExterns
  BY Zenon DEF IsLoaded
<1>8. IsLoaded(v)
  BY <1>2, <1>3, <1>4, <1>5, <1>6, <1>7, Zenon DEF IsLoaded
<1> QED
  BY <1>1, <1>8, Zenon

\* A configuration, the encoding that goes with it, and its seed.
LEMMA Configured ==
    ASSUME NEW c \in Configs
    PROVE  /\ IsEncoding(EncodingOf(c)) /\ EncodingOf(c).key \in Nat
           /\ AreSections(Sections(c)) /\ FromSections(Sections(c)) = c
<1>1. c \in ObfuscationConfig /\ Valid(c)
  BY ConfigsAssumption
<1>2. c.key \in Nat
  BY <1>1 DEF ObfuscationConfig
<1>3. EncodingOf(c).key = c.key
  BY DEF EncodingOf
<1> QED
  BY <1>1, <1>2, <1>3, EncodingType, SectionsRestore

LEMMA NoBytes == <<>> \in Seq(Byte) /\ Len(<<>>) = 0
OBVIOUS

\* Nothing was written yet.
LEMMA WireStart == Init => WireInv
<1> SUFFICES ASSUME Init PROVE WireInv
  OBVIOUS
<1>1. /\ phase = "write" /\ source \in Modules /\ config \in Configs /\ bytes = <<>>
      /\ damaged = FALSE /\ seed = PairedSeed(config, <<>>)
      /\ encoding = EncodingOf(DefaultConfig) /\ at = At0 /\ left = 0 /\ loaded = Empty
  BY DEF Init
<1>2. seed.sections = Sections(config)
  BY <1>1 DEF PairedSeed
<1>3. encoding.key \in Nat
  BY <1>1 DEF EncodingOf, DefaultConfig, Config, NoKey
<1>4. bytes \in Seq(Byte) /\ Len(bytes) = 0
  BY <1>1, NoBytes, Zenon
<1>5. at \in Nat /\ IsPlace(bytes, at) /\ left \in 0..Len(bytes)
  BY <1>1, <1>4 DEF IsPlace, At0
<1>6. IsLoaded(loaded)
  BY <1>1, NothingLoaded, Zenon
<1>7. phase \in Sending \cup Reading \cup Ended /\ damaged \in BOOLEAN /\ phase # "arrive"
  BY <1>1 DEF Sending
<1> QED
  BY <1>1, <1>2, <1>3, <1>4, <1>5, <1>6, <1>7 DEF WireInv

\* What is written is what the configuration makes of the module.
LEMMA WriteKeeps == ASSUME WireInv, Write PROVE WireInv'
<1>1. /\ phase = "write" /\ source' = source /\ config' = config /\ damaged' = damaged
      /\ encoding' = encoding /\ at' = at /\ left' = left /\ loaded' = loaded
  BY DEF Write, reader
<1>2. source \in BytecodeModule
  BY ModulesAssumption DEF WireInv
<1>3. IsEncoding(EncodingOf(config))
  BY Configured DEF WireInv
<1>4. /\ bytes' \in Seq(Byte) /\ phase' \in {"arrive", "refused"}
      /\ phase' = "arrive" => IsWritable(source, EncodingOf(config))
                              /\ bytes' = ModuleBytes(source, EncodingOf(config))
  <2>1. CASE IsWritable(source, EncodingOf(config))
    <3>1. bytes' = ModuleBytes(source, EncodingOf(config)) /\ phase' = "arrive"
      BY <2>1, Zenon DEF Write
    <3>2. ModuleBytes(source, EncodingOf(config)) \in Seq(Byte)
      BY <1>2, <1>3, <2>1, ModuleType
    <3> QED
      BY <2>1, <3>1, <3>2, Zenon
  <2>2. CASE ~IsWritable(source, EncodingOf(config))
    <3>1. bytes' = bytes /\ phase' = "refused"
      BY <2>2, Zenon DEF Write
    <3> QED
      BY <3>1 DEF WireInv
  <2> QED
    BY <2>1, <2>2
<1>5. seed'.sections = Sections(config)
  <2>1. seed' = PairedSeed(config, bytes')
    BY DEF Write
  <2> QED
    BY <2>1 DEF PairedSeed
<1>6. at = 0 /\ left = 0
  BY <1>1 DEF WireInv, Sending, At0
<1>7. PICK b \in Seq(Byte) : b = bytes'
  BY <1>4
<1>8. at' \in Nat /\ IsPlace(b, at') /\ left' \in 0..Len(b)
  BY <1>1, <1>6, <1>7 DEF IsPlace
<1>9. /\ source' \in Modules /\ config' \in Configs /\ seed'.sections = Sections(config')
      /\ encoding'.key \in Nat /\ IsLoaded(loaded') /\ damaged' \in BOOLEAN
  BY <1>1, <1>5, Zenon DEF WireInv
<1>10. phase' \in Sending \cup Reading \cup Ended /\ at' = At0 /\ left' = 0
  BY <1>1, <1>4, <1>6 DEF Sending, Ended, At0
<1>11. phase' = "arrive" => IsWritable(source', EncodingOf(config'))
                            /\ bytes' = ModuleBytes(source', EncodingOf(config'))
  BY <1>1, <1>4, Zenon
<1>12. at' \in Nat /\ IsPlace(bytes', at') /\ left' \in 0..Len(bytes') /\ bytes' \in Seq(Byte)
  BY <1>7, <1>8, Zenon
<1> QED
  BY <1>9, <1>10, <1>11, <1>12, Zenon DEF WireInv

\* What is damaged on the way is not yet read.
LEMMA DamageKeeps == ASSUME WireInv, Cut \/ Extend PROVE WireInv'
<1>1. /\ phase = "arrive" /\ phase' = phase /\ source' = source /\ config' = config /\ seed' = seed
      /\ damaged' = TRUE
      /\ encoding' = encoding /\ at' = at /\ left' = left /\ loaded' = loaded
  BY DEF Cut, Extend, reader
<1>2. PICK b \in Seq(Byte) : b = bytes
  BY DEF WireInv
<1>3. bytes' \in Seq(Byte)
  <2>1. CASE Cut
    <3>1. PICK n \in 0..(Len(b) - 1) : bytes' = SubSeq(b, 1, n)
      BY <1>2, <2>1, Zenon DEF Cut
    <3>2. SubSeq(b, 1, n) \in Seq(Byte)
      BY <3>1
    <3> QED
      BY <3>1, <3>2
  <2>2. CASE Extend
    <3>1. PICK byte \in Byte : bytes' = Append(b, byte)
      BY <1>2, <2>2, TrailingAssumption, Zenon DEF Extend
    <3>2. Append(b, byte) \in Seq(Byte)
      OBVIOUS
    <3> QED
      BY <3>1, <3>2
  <2> QED
    BY <2>1, <2>2
<1>4. at = 0 /\ left = 0
  BY <1>1 DEF WireInv, Sending, At0
<1>5. PICK c \in Seq(Byte) : c = bytes'
  BY <1>3
<1>6. at' \in Nat /\ IsPlace(c, at') /\ left' \in 0..Len(c)
  BY <1>1, <1>4, <1>5 DEF IsPlace
<1>7. at' \in Nat /\ IsPlace(bytes', at') /\ left' \in 0..Len(bytes')
  BY <1>5, <1>6, Zenon
<1>8. /\ phase' \in Sending \cup Reading \cup Ended /\ source' \in Modules /\ config' \in Configs
      /\ seed'.sections = Sections(config') /\ encoding'.key \in Nat /\ IsLoaded(loaded')
      /\ phase' \in Sending => at' = At0 /\ left' = 0
  BY <1>1, Zenon DEF WireInv
<1>9. damaged' \in BOOLEAN /\ ~(phase' = "arrive" /\ ~damaged')
  BY <1>1
<1> QED
  BY <1>3, <1>7, <1>8, <1>9, Zenon DEF WireInv

\* What every step of the reader leaves alone: what it reads, and whose it is.
Reads ==
    /\ phase' \in Reading \cup Ended /\ source' = source /\ config' = config /\ bytes' = bytes
    /\ seed' = seed /\ damaged' = damaged

\* A step of the reader keeps the invariant if it keeps to the places.
LEMMA ReaderKeeps ==
    ASSUME WireInv, Reads, encoding'.key \in Nat, at' \in Nat, IsPlace(bytes, at'),
           left' \in 0..Len(bytes), IsLoaded(loaded')
    PROVE  WireInv'
<1>1. phase' \notin Sending /\ phase' # "arrive"
  BY DEF Reads, Reading, Ended, Sending
<1>2. /\ phase' \in Sending \cup Reading \cup Ended /\ damaged' \in BOOLEAN
      /\ source' \in Modules /\ config' \in Configs /\ bytes' \in Seq(Byte)
      /\ seed'.sections = Sections(config')
  <2>1. phase' \in Sending \cup Reading \cup Ended
    BY DEF Reads
  <2> QED
    BY <2>1, Zenon DEF Reads, WireInv
<1>3. IsPlace(bytes', at') /\ left' \in 0..Len(bytes')
  BY Zenon DEF Reads
<1> QED
  BY <1>1, <1>2, <1>3, Zenon DEF WireInv

\* Reading begins at a place behind the head, with as many names as there may be.
LEMMA BeginKeeps ==
    ASSUME WireInv, NEW e, e.key \in Nat, Begin(e)
    PROVE  WireInv'
<1>1. PICK head : head = ReadHead(bytes)
  OBVIOUS
<1>2. PICK count : count = ReadCount(bytes, head.at)
  OBVIOUS
<1>3. bytes \in Seq(Byte)
  BY DEF WireInv
<1>4. /\ head.at \in Nat
      /\ head.at # At0 => head.v.kind \in {0, 1} /\ head.v.externs \in 0..MaxExterns
  BY <1>1, <1>3, ReadHeadType
<1>5. IsPlace(bytes, count.at) /\ count.at \in Nat /\ count.v \in 0..Len(bytes)
  BY <1>2, <1>3, <1>4, ReadCountType
<1>6. /\ encoding' = e /\ at' = count.at /\ left' = count.v
      /\ phase' = IF count.at = At0 THEN "refused" ELSE "names"
      /\ loaded' = IF head.at = At0 THEN Empty
                   ELSE [Empty EXCEPT !.kind = head.v.kind, !.externs = head.v.externs]
      /\ UNCHANGED <<source, config, bytes, seed, damaged>>
  BY <1>1, <1>2, Zenon DEF Begin
<1>7. IsLoaded(loaded')
  <2>1. CASE head.at = At0
    BY <1>6, <2>1, NothingLoaded, Zenon
  <2>2. CASE head.at # At0
    <3>1. PICK w : w = Empty
      OBVIOUS
    <3>2. loaded' = [w EXCEPT !.kind = head.v.kind, !.externs = head.v.externs]
      BY <1>6, <2>2, <3>1, Zenon
    <3>3. DOMAIN w = ModuleFields
      BY <3>1, NothingLoaded DEF IsLoaded
    <3>4. /\ DOMAIN loaded' = ModuleFields /\ loaded'.names = w.names
          /\ loaded'.constants = w.constants /\ loaded'.externs = head.v.externs
      BY <3>2, <3>3 DEF ModuleFields
    <3>5. IsList(w.names) /\ IsList(w.constants)
      BY <3>1, NothingLoaded, Zenon DEF IsLoaded
    <3>6. head.v.externs \in 0..MaxExterns
      BY <1>4, <2>2, Zenon
    <3> QED
      BY <3>4, <3>5, <3>6, Zenon DEF IsLoaded
  <2> QED
    BY <2>1, <2>2
<1>8. Reads
  BY <1>6 DEF Reads, Reading, Ended
<1>9. /\ encoding'.key \in Nat /\ at' \in Nat /\ IsPlace(bytes, at') /\ left' \in 0..Len(bytes)
  BY <1>5, <1>6, Zenon
<1> QED
  BY <1>7, <1>8, <1>9, ReaderKeeps

\* An item is taken and the place is behind it.
LEMMA TakeKeeps ==
    ASSUME WireInv, NEW section \in {"names", "functions", "constants"}, NEW item,
           IsPlace(bytes, item.at), Take(section, item)
    PROVE  WireInv'
<1>1. PICK n \in Nat : n = Len(bytes)
  BY DEF WireInv
<1>2. left \in 0..n /\ item.at \in 0..(n + 1) /\ left > 0
  BY <1>1 DEF WireInv, IsPlace, Take
<1>3. left - 1 \in 0..n /\ item.at \in Nat
  BY <1>2
<1>4. /\ at' = item.at /\ left' = left - 1 /\ encoding' = encoding
      /\ phase' = IF item.at = At0 THEN "refused" ELSE section
      /\ loaded' = [loaded EXCEPT ![section] =
                        IF item.at = At0 THEN @ ELSE Append(@, item.v)]
      /\ UNCHANGED <<source, config, bytes, seed, damaged>>
  BY DEF Take
<1>5. IsLoaded(loaded) /\ encoding.key \in Nat
  BY DEF WireInv
<1>6. IsLoaded(loaded')
  <2>1. PICK x : x = IF item.at = At0 THEN loaded[section] ELSE Append(loaded[section], item.v)
    OBVIOUS
  <2>2. loaded' = [loaded EXCEPT ![section] = x]
    BY <1>4, <2>1
  <2>3. ASSUME section \in {"names", "constants"}
        PROVE  IsList(x)
    <3>1. IsList(loaded[section])
      BY <1>5, <2>3 DEF IsLoaded
    <3>2. IsList(Append(loaded[section], item.v))
      BY <3>1, ListGrows
    <3> QED
      BY <2>1, <3>1, <3>2, Zenon
  <2>4. IsLoaded([loaded EXCEPT ![section] = x])
    BY <1>5, <2>3, LoadedTakes, Zenon
  <2> QED
    BY <2>2, <2>4, Zenon
<1>7. Reads
  BY <1>4 DEF Reads, Reading, Ended
<1>8. /\ encoding'.key \in Nat /\ at' \in Nat /\ IsPlace(bytes, at') /\ left' \in 0..Len(bytes)
  BY <1>1, <1>3, <1>4, <1>5, Zenon
<1> QED
  BY <1>6, <1>7, <1>8, ReaderKeeps

\* A name, a function or a constant is taken.
LEMMA ReadingKeeps ==
    ASSUME WireInv, ReadName \/ TakeFunction \/ TakeConstant
    PROVE  WireInv'
<1>1. bytes \in Seq(Byte) /\ at \in Nat /\ encoding.key \in Nat
  BY DEF WireInv
<1>2. IsList(loaded.names) /\ IsList(loaded.constants)
  BY DEF WireInv, IsLoaded
<1>3. PICK names \in Nat, constants \in Nat : names = Len(loaded.names) /\ constants = Len(loaded.constants)
  BY <1>2, ListGrows
<1>4. CASE ReadName
  <2>1. PICK item : item = ReadString(bytes, at, encoding.key, NameDomain, names)
    OBVIOUS
  <2>2. IsPlace(bytes, item.at)
    BY <1>1, <1>3, <2>1, ReadStringPlace DEF NameDomain
  <2>3. Take("names", item)
    BY <1>3, <1>4, <2>1, Zenon DEF ReadName
  <2> QED
    BY <2>2, <2>3, TakeKeeps
<1>5. CASE TakeFunction
  <2>1. PICK item : item = ReadFunction(bytes, at, encoding.tags)
    OBVIOUS
  <2>2. IsPlace(bytes, item.at)
    BY <1>1, <2>1, ReadFunctionType
  <2>3. Take("functions", item)
    BY <1>5, <2>1, Zenon DEF TakeFunction
  <2> QED
    BY <2>2, <2>3, TakeKeeps
<1>6. CASE TakeConstant
  <2>1. PICK item : item = ReadConstant(bytes, at, constants, encoding)
    OBVIOUS
  <2>2. IsPlace(bytes, item.at)
    BY <1>1, <1>3, <2>1, ReadConstantType
  <2>3. Take("constants", item)
    BY <1>3, <1>6, <2>1, Zenon DEF TakeConstant
  <2> QED
    BY <2>2, <2>3, TakeKeeps
<1> QED
  BY <1>4, <1>5, <1>6

\* An instruction is taken, and the constant it may have brought.
LEMMA InstructionKeeps == ASSUME WireInv, TakeInstruction PROVE WireInv'
<1>1. PICK read : read = ReadInstruction(bytes, at, loaded.constants, encoding)
  OBVIOUS
<1>2. PICK n \in Nat : n = Len(bytes)
  BY DEF WireInv
<1>3. bytes \in Seq(Byte) /\ at \in Nat /\ IsLoaded(loaded) /\ encoding.key \in Nat
  BY DEF WireInv
<1>4. IsPlace(bytes, read.at) /\ IsList(read.constants)
  <2>1. IsList(loaded.constants)
    BY <1>3 DEF IsLoaded
  <2> QED
    BY <1>1, <1>3, <2>1, ReadInstructionType
<1>5. /\ phase = "code" /\ left > 0 /\ at' = read.at /\ left' = left - 1
      /\ phase' = IF read.at = At0 THEN "refused" ELSE phase
      /\ loaded' = IF read.at = At0 THEN loaded
                   ELSE [loaded EXCEPT !.constants = read.constants,
                                       !.code = Append(@, Instr(read.op, read.args))]
      /\ UNCHANGED <<source, config, bytes, seed, damaged, encoding>>
  BY <1>1, Zenon DEF TakeInstruction, TakeDecoded
<1>6. left \in 0..n /\ read.at \in 0..(n + 1)
  BY <1>2, <1>4 DEF WireInv, IsPlace
<1>7. left - 1 \in 0..n /\ read.at \in Nat
  BY <1>5, <1>6
<1>8. IsLoaded(loaded')
  <2>1. CASE read.at = At0
    BY <1>3, <1>5, <2>1, Zenon
  <2>2. CASE read.at # At0
    <3>1. PICK x : x = Append(loaded.code, Instr(read.op, read.args))
      OBVIOUS
    <3>2. DOMAIN loaded = ModuleFields
      BY <1>3 DEF IsLoaded
    <3>3. loaded' = [loaded EXCEPT !.constants = read.constants, !.code = x]
      BY <1>5, <2>2, <3>1, <3>2 DEF ModuleFields
    <3>4. /\ DOMAIN loaded' = ModuleFields /\ loaded'.names = loaded.names
          /\ loaded'.constants = read.constants /\ loaded'.externs = loaded.externs
      BY <3>2, <3>3 DEF ModuleFields
    <3> QED
      BY <1>3, <1>4, <3>4, Zenon DEF IsLoaded
  <2> QED
    BY <2>1, <2>2
<1>9. Reads
  BY <1>5 DEF Reads, Reading, Ended
<1>10. /\ encoding'.key \in Nat /\ at' \in Nat /\ IsPlace(bytes, at') /\ left' \in 0..Len(bytes)
  BY <1>2, <1>3, <1>4, <1>5, <1>7, Zenon
<1> QED
  BY <1>8, <1>9, <1>10, ReaderKeeps

\* The next section begins, with as many items as there may be.
LEMMA SectionKeeps ==
    ASSUME WireInv, NEW section, NEW next \in Reading, NextSection(section, next)
    PROVE  WireInv'
<1>1. PICK count : count = ReadCount(bytes, at)
  OBVIOUS
<1>2. IsPlace(bytes, count.at) /\ count.at \in Nat /\ count.v \in 0..Len(bytes)
  BY <1>1, ReadCountType DEF WireInv
<1>3. /\ at' = count.at /\ left' = count.v
      /\ phase' = IF count.at = At0 THEN "refused" ELSE next
      /\ UNCHANGED <<source, config, bytes, seed, damaged, encoding, loaded>>
  BY <1>1, Zenon DEF NextSection
<1>4. Reads
  BY <1>3 DEF Reads, Ended
<1>5. IsLoaded(loaded') /\ encoding'.key \in Nat
  BY <1>3, Zenon DEF WireInv
<1>6. at' \in Nat /\ IsPlace(bytes, at') /\ left' \in 0..Len(bytes)
  BY <1>2, <1>3, Zenon
<1> QED
  BY <1>4, <1>5, <1>6, ReaderKeeps

\* Every step keeps the invariant.
LEMMA WireNext == WireInv /\ [Next]_vars => WireInv'
<1> SUFFICES ASSUME WireInv, [Next]_vars PROVE WireInv'
  OBVIOUS
<1>1. CASE Write \/ Cut \/ Extend
  BY <1>1, WriteKeeps, DamageKeeps
<1>2. CASE Open
  <2>1. config \in Configs
    BY DEF WireInv
  <2>2. EncodingOf(config).key \in Nat
    BY <2>1, Configured
  <2> QED
    BY <1>2, <2>2, BeginKeeps DEF Open
<1>3. CASE OpenWithSeed
  <2>1. config \in Configs /\ seed.sections = Sections(config)
    BY DEF WireInv
  <2>2. FromSections(seed.sections) = config
    BY <2>1, Configured
  <2>3. EncodingOf(FromSections(seed.sections)).key \in Nat
    BY <2>1, <2>2, Configured
  <2> QED
    BY <1>3, <2>3, BeginKeeps DEF OpenWithSeed
<1>4. CASE ReadName \/ TakeFunction \/ TakeConstant
  BY <1>4, ReadingKeeps
<1>5. CASE TakeInstruction
  BY <1>5, InstructionKeeps
<1>6. CASE \/ NextSection("names", "functions") \/ NextSection("functions", "constants")
           \/ NextSection("constants", "code")
  BY <1>6, SectionKeeps DEF Reading
<1>7. CASE RefuseSeed \/ Finish
  <2>1. /\ phase' \in Ended /\ source' = source /\ config' = config /\ bytes' = bytes
        /\ seed' = seed /\ damaged' = damaged
        /\ encoding' = encoding /\ at' = at /\ left' = left /\ loaded' = loaded
    BY <1>7 DEF RefuseSeed, Finish, reader, Ended
  <2>2. Reads
    BY <2>1 DEF Reads
  <2>3. encoding'.key \in Nat /\ at' \in Nat /\ IsPlace(bytes, at') /\ left' \in 0..Len(bytes)
        /\ IsLoaded(loaded')
    BY <2>1, Zenon DEF WireInv
  <2> QED
    BY <2>2, <2>3, ReaderKeeps
<1>8. CASE UNCHANGED vars
  <2>1. /\ phase' = phase /\ source' = source /\ config' = config /\ bytes' = bytes
        /\ seed' = seed /\ damaged' = damaged
        /\ encoding' = encoding /\ at' = at /\ left' = left /\ loaded' = loaded
    BY <1>8 DEF vars, reader
  <2> QED
    BY <2>1, Zenon DEF WireInv
<1> QED
  BY <1>1, <1>2, <1>3, <1>4, <1>5, <1>6, <1>7, <1>8 DEF Next, Rest

-----------------------------------------------------------------------------
(* Instructions are read back.                                             *)

\* The operation that is written stands for the one of the instruction.
Loads == {"LoadUndefined", "LoadNull", "LoadTrue", "LoadFalse", "LoadIntSmall", "LoadConstConst"}

\* A constant is loaded with one of a few operations.
LEMMA LoadOfLoads == ASSUME NEW c PROVE LoadOf(c) \in Loads
BY DEF LoadOf, Loads

\* The short forms of an operation stand for it (canonical_opcode).
LEMMA WireOpStandsFor ==
    ASSUME NEW i, NEW constants
    PROVE  Canonical(WireOp(i, constants)) = Canonical(i.op)
<1>1. PICK op, w : op = i.op /\ w = WireOp(i, constants)
  OBVIOUS
<1>2. \/ w = op
      \/ op = "LoadName" /\ w \in {"LoadLocalSmall", "LoadLocal"}
      \/ op = "StoreName" /\ w \in {"StoreLocalSmall", "StoreLocal"}
      \/ op = "LoadConst" /\ w \in Loads
      \/ op = "Member" /\ w = "MemberConst"
      \/ op = "StoreMember" /\ w = "StoreMemberConst"
      \/ op = "Pop" /\ w = "PopReg"
      \/ op = "Call" /\ w \in CallForms
      \/ op = "Return" /\ w \in {"ReturnReg", "ReturnConst"}
      \/ op = "JumpIfFalse" /\ w = "JumpIfFalseReg"
      \/ op = "Binary" /\ w \in {"BinaryRegReg", "BinaryRegConst"}
  <2>1. ASSUME op = "LoadConst", w # op PROVE w \in Loads
    BY <1>1, <2>1, LoadOfLoads, SMTT(40) DEF WireOp, Loads
  <2>2. ASSUME op = "Call", w # op PROVE w \in CallForms
    BY <1>1, <2>2 DEF WireOp, CallForms
  <2>3. ASSUME op \notin {"LoadConst", "Call"}, w # op
        PROVE  \/ op = "LoadName" /\ w \in {"LoadLocalSmall", "LoadLocal"}
               \/ op = "StoreName" /\ w \in {"StoreLocalSmall", "StoreLocal"}
               \/ op = "Member" /\ w = "MemberConst"
               \/ op = "StoreMember" /\ w = "StoreMemberConst"
               \/ op = "Pop" /\ w = "PopReg"
               \/ op = "Return" /\ w \in {"ReturnReg", "ReturnConst"}
               \/ op = "JumpIfFalse" /\ w = "JumpIfFalseReg"
               \/ op = "Binary" /\ w \in {"BinaryRegReg", "BinaryRegConst"}
    BY <1>1, <2>3, SMTT(40) DEF WireOp
  <2> QED
    BY <2>1, <2>2, <2>3
<1>3. ASSUME op = "LoadName" /\ w \in {"LoadLocalSmall", "LoadLocal"} PROVE Canonical(w) = Canonical(op)
  BY <1>3 DEF Canonical, ImmediateLoads, CallForms, Loads
<1>4. ASSUME op = "StoreName" /\ w \in {"StoreLocalSmall", "StoreLocal"} PROVE Canonical(w) = Canonical(op)
  BY <1>4 DEF Canonical, ImmediateLoads, CallForms, Loads
<1>5. ASSUME op = "LoadConst" /\ w \in Loads PROVE Canonical(w) = Canonical(op)
  BY <1>5 DEF Canonical, ImmediateLoads, CallForms, Loads
<1>6. ASSUME op = "Member" /\ w = "MemberConst" PROVE Canonical(w) = Canonical(op)
  BY <1>6 DEF Canonical, ImmediateLoads, CallForms, Loads
<1>7. ASSUME op = "StoreMember" /\ w = "StoreMemberConst" PROVE Canonical(w) = Canonical(op)
  BY <1>7 DEF Canonical, ImmediateLoads, CallForms, Loads
<1>8. ASSUME op = "Pop" /\ w = "PopReg" PROVE Canonical(w) = Canonical(op)
  BY <1>8 DEF Canonical, ImmediateLoads, CallForms, Loads
<1>9. ASSUME op = "Call" /\ w \in CallForms PROVE Canonical(w) = Canonical(op)
  BY <1>9 DEF Canonical, ImmediateLoads, CallForms, Loads
<1>10. ASSUME op = "Return" /\ w \in {"ReturnReg", "ReturnConst"} PROVE Canonical(w) = Canonical(op)
  BY <1>10 DEF Canonical, ImmediateLoads, CallForms, Loads
<1>11. ASSUME op = "JumpIfFalse" /\ w = "JumpIfFalseReg" PROVE Canonical(w) = Canonical(op)
  BY <1>11 DEF Canonical, ImmediateLoads, CallForms, Loads
<1>12. ASSUME op = "Binary" /\ w \in {"BinaryRegReg", "BinaryRegConst"} PROVE Canonical(w) = Canonical(op)
  BY <1>12 DEF Canonical, ImmediateLoads, CallForms, Loads
<1>13. Canonical(w) = Canonical(op)
  BY <1>2, <1>3, <1>4, <1>5, <1>6, <1>7, <1>8, <1>9, <1>10, <1>11, <1>12
<1> QED
  BY <1>1, <1>13

\* What was read of an instruction says what it says.
IsRead(r, i, sent, place, length, constants) ==
    IF IsWhole(sent, place, length)
    THEN /\ r.at = place + length /\ r.constants = constants
         /\ Canonical(r.op) = Canonical(i.op)
         /\ r.args \in Seq(AnyOperand) /\ Len(r.args) = Len(i.args)
         /\ \A j \in 1..Len(i.args) : Same(r.args[j], constants) = Same(i.args[j], constants)
    ELSE r.at = 0

\* What write_instruction wrote is read back as an instruction that says the same: its
\* operation, whatever short form was chosen, and each operand (read_instruction).
THEOREM InstructionReads ==
    ASSUME NEW i \in BytecodeInstruction, NEW constants \in Seq(BytecodeConstant),
           NEW e, IsDecodable(e), NEW w, w = WriteInstruction(i, constants, e), w.ok = TRUE,
           NEW sent, NEW place, Holds(sent, place, w.bytes)
    PROVE  IsRead(ReadInstruction(sent, place, constants, e), i, sent, place, Len(w.bytes), constants)
<1>0. i.op \in Range(Ops) /\ i.args \in Seq(BytecodeOperand)
  BY DEF BytecodeInstruction
<1>1. PICK op \in Range(Ops) : op = WireOp(i, constants) /\ Canonical(op) = Canonical(i.op)
  BY <1>0, WireOpType, WireOpStandsFor
<1>2. PICK args \in Seq(BytecodeOperand) : args = i.args
  BY <1>0
<1>3. PICK layout \in Seq(Items) : layout = WrittenLayout(op) /\ layout = ReadLayout(op)
  BY LayoutType, LayoutsAgree
<1>4. PICK o : o = Written(layout, args, constants, e.tags)
  OBVIOUS
<1>5. PICK b \in Byte : b = e.opcodes[op]
  BY DEF IsDecodable, IsEncoding
<1>6. w = [ok |-> o.ok, bytes |-> <<b>> \o o.bytes]
  BY <1>1, <1>2, <1>3, <1>4, <1>5, Zenon DEF WriteInstruction
<1>7. o.ok = TRUE /\ w.bytes = <<b>> \o o.bytes
  BY <1>6
<1>8. o.bytes \in Seq(Byte)
  BY <1>4, <1>7, WrittenType DEF IsDecodable, IsEncoding
<1>9. PICK one \in Seq(Byte) : one = <<b>> /\ Len(one) = 1
  BY OneByte
<1>10. sent \in Seq(Byte) /\ place \in Nat \ {0}
  BY DEF Holds
<1>11. PICK code : code = ReadByte(sent, place)
  OBVIOUS
<1>12. Holds(sent, place, one \o o.bytes)
  BY <1>7, <1>9
<1>13. ReadsBack(code, sent, place, 1, b)
  <2>1. Holds(sent, place, one)
    BY <1>8, <1>12, HoldsBoth
  <2> QED
    BY <1>9, <1>11, <2>1, ByteReads
<1>14. PICK length \in Nat : length = Len(o.bytes) /\ Len(w.bytes) = 1 + length
  <2>1. Len(one \o o.bytes) = Len(one) + Len(o.bytes)
    BY <1>8, Pieces
  <2> QED
    BY <1>7, <1>8, <1>9, <2>1
<1>15. PICK names : names = {p \in DOMAIN e.opcodes : e.opcodes[p] = code.v}
  OBVIOUS
<1>16. PICK r : r = ReadInstruction(sent, place, constants, e)
  OBVIOUS
<1>17. CASE ~IsWhole(sent, place, 1)
  <2>1. code.at = 0
    BY <1>13, <1>17 DEF ReadsBack, At0
  <2>2. r = [at |-> At0, args |-> <<>>, constants |-> constants, op |-> "none"]
    BY <1>11, <1>16, <2>1, Zenon DEF ReadInstruction, At0
  <2>3. r.at = 0
    BY <2>2 DEF At0
  <2>4. ~IsWhole(sent, place, 1 + length)
    BY <1>10, <1>17, WholePart
  <2> QED
    BY <1>14, <1>16, <2>3, <2>4 DEF IsRead
<1>18. CASE IsWhole(sent, place, 1)
  <2>1. code.at = place + 1 /\ code.v = b /\ code.at # 0
    BY <1>10, <1>13, <1>18 DEF ReadsBack, Got
  <2>2. names # {} /\ op = CHOOSE p \in names : TRUE
    <3>1. op \in DOMAIN e.opcodes /\ IsInjective(e.opcodes)
      BY DEF IsDecodable
    <3>2. names = {p \in DOMAIN e.opcodes : e.opcodes[p] = e.opcodes[op]}
      BY <1>5, <1>15, <2>1
    <3> QED
      BY <3>1, <3>2, CodeRestores
  <2>3. PICK start : start = [at |-> place + 1, args |-> <<>>, constants |-> constants]
    OBVIOUS
  <2>4. PICK t : t = ItemsReadUpto(start, sent, layout, e.tags)[Len(layout)]
    OBVIOUS
  <2>5. r = [at |-> t.at, args |-> t.args, constants |-> t.constants, op |-> op]
    BY <1>3, <1>11, <1>15, <1>16, <2>1, <2>2, <2>3, <2>4, Zenon DEF ReadInstruction, Decoded, At0
  <2>6. Holds(sent, place + 1, o.bytes) /\ IsPlace(sent, place + 1)
    <3>1. Holds(sent, place + Len(one), o.bytes)
      BY <1>8, <1>12, HoldsBoth
    <3>2. place + 1 <= Len(sent) + 1
      BY <1>18 DEF IsWhole
    <3> QED
      BY <1>9, <1>10, <3>1, <3>2 DEF IsPlace
  <2>7. SaysArgs(t, sent, place + 1, Len(o.bytes), args, constants)
    <3>1. o = Written(layout, args, constants, e.tags) /\ o.ok = TRUE
      BY <1>4, <1>7
    <3> QED
      BY <2>3, <2>4, <2>6, <3>1, LayoutBack
  <2>8. IsWhole(sent, place, 1 + length) <=> IsWhole(sent, place + 1, length)
    BY <1>10 DEF IsWhole
  <2>9. r.at = t.at /\ r.args = t.args /\ r.constants = t.constants /\ r.op = op
    BY <2>5
  <2>10. CASE ~IsWhole(sent, place + 1, length)
    <3>1. r.at = 0
      BY <1>14, <2>7, <2>9, <2>10 DEF SaysArgs
    <3> QED
      BY <1>14, <1>16, <2>8, <2>10, <3>1 DEF IsRead
  <2>11. CASE IsWhole(sent, place + 1, length)
    <3>1. /\ t.at = (place + 1) + length /\ t.constants = constants
          /\ t.args \in Seq(AnyOperand) /\ Len(t.args) = Len(args)
          /\ \A j \in 1..Len(args) : Same(t.args[j], constants) = Same(args[j], constants)
      BY <1>14, <2>7, <2>11 DEF SaysArgs
    <3>2. (place + 1) + length = place + (1 + length)
      BY <1>10
    <3> QED
      BY <1>1, <1>2, <1>14, <1>16, <2>8, <2>9, <2>11, <3>1, <3>2 DEF IsRead
  <2> QED
    BY <2>10, <2>11
<1> QED
  BY <1>17, <1>18

-----------------------------------------------------------------------------
(* Functions are read back.                                                *)

\* After the bytes w of so many in total: what was read of the last piece of w, or there
\* is nothing to read for the bytes are not whole.
Reached(r, sent, place, w, v, total) ==
    IF r.at = 0 THEN ~IsWhole(sent, place, total)
    ELSE r.at = place + Len(w) /\ r.v = v /\ IsWhole(sent, place, Len(w))

\* A number at the beginning is reached and read.
LEMMA VarintFirst ==
    ASSUME NEW n, U32(n), NEW sent, NEW place, NEW w, w = Varint[n], Holds(sent, place, w),
           NEW total \in Nat, Len(w) <= total
    PROVE  Reached(ReadVarint(sent, place), sent, place, w, n, total)
<1>1. n \in Nat /\ sent \in Seq(Byte) /\ place \in Nat \ {0}
  BY DEF U32, Holds
<1>2. PICK l \in Nat : l = Len(w) /\ l = VarintLength[n]
  BY <1>1, VarintType
<1>3. PICK r : r = ReadVarint(sent, place)
  OBVIOUS
<1>4. ReadsBack(r, sent, place, l, n)
  BY <1>2, <1>3, VarintReads
<1>5. CASE IsWhole(sent, place, l)
  <2>1. r.at = place + l /\ r.v = n /\ r.at # 0
    BY <1>1, <1>4, <1>5 DEF ReadsBack, Got
  <2> QED
    BY <1>2, <1>3, <1>5, <2>1 DEF Reached
<1>6. CASE ~IsWhole(sent, place, l)
  <2>1. r.at = 0
    BY <1>4, <1>6 DEF ReadsBack, At0
  <2>2. ~IsWhole(sent, place, total)
    BY <1>1, <1>2, <1>6 DEF IsWhole
  <2> QED
    BY <1>3, <2>1, <2>2 DEF Reached
<1> QED
  BY <1>5, <1>6

\* The next piece.
LEMMA ReachedNext ==
    ASSUME NEW u \in Seq(Byte), NEW p \in Seq(Byte), NEW w, w = u \o p,
           NEW sent \in Seq(Byte), NEW place \in Nat \ {0}, NEW total \in Nat, Len(w) <= total,
           NEW r, NEW x, Reached(r, sent, place, u, x, total), NEW q, NEW y,
           r.at = 0 => q.at = 0,
           r.at # 0 => ReadsBack(q, sent, r.at, Len(p), y)
    PROVE  Reached(q, sent, place, w, y, total)
<1>1. PICK l \in Nat, k \in Nat : l = Len(u) /\ k = Len(p) /\ Len(w) = l + k
  <2>1. Len(u \o p) = Len(u) + Len(p) /\ Len(u) \in Nat /\ Len(p) \in Nat
    OBVIOUS
  <2> QED
    BY <2>1
<1>2. CASE r.at = 0
  BY <1>2 DEF Reached
<1>3. CASE r.at # 0
  <2>1. r.at = place + l /\ ReadsBack(q, sent, place + l, k, y)
    BY <1>1, <1>3 DEF Reached
  <2>2. CASE IsWhole(sent, place + l, k)
    <3>1. q.at = (place + l) + k /\ q.v = y
      BY <2>1, <2>2 DEF ReadsBack, Got
    <3>2. (place + l) + k = place + (l + k) /\ q.at # 0 /\ IsWhole(sent, place, l + k)
      BY <2>2, <3>1 DEF IsWhole
    <3> QED
      BY <1>1, <3>1, <3>2 DEF Reached
  <2>3. CASE ~IsWhole(sent, place + l, k)
    <3>1. q.at = 0
      BY <2>1, <2>3 DEF ReadsBack, At0
    <3>2. ~IsWhole(sent, place, total)
      BY <1>1, <2>3 DEF IsWhole
    <3> QED
      BY <3>1, <3>2 DEF Reached
  <2> QED
    BY <2>2, <2>3
<1> QED
  BY <1>2, <1>3

\* Where the next piece is.
LEMMA HeldNext ==
    ASSUME NEW u \in Seq(Byte), NEW p \in Seq(Byte), NEW sent, NEW place, Holds(sent, place, u \o p),
           NEW r, NEW x, NEW total, Reached(r, sent, place, u, x, total)
    PROVE  r.at # 0 => Holds(sent, r.at, p)
<1>1. Holds(sent, place + Len(u), p)
  BY HoldsBoth
<1> QED
  BY <1>1 DEF Reached

\* A number behind what was read is read.
LEMMA VarintNext ==
    ASSUME NEW u \in Seq(Byte), NEW n, U32(n), NEW w, w = u \o Varint[n],
           NEW sent, NEW place, Holds(sent, place, w), NEW total \in Nat, Len(w) <= total,
           NEW r, NEW x, Reached(r, sent, place, u, x, total)
    PROVE  Reached(ReadVarint(sent, r.at), sent, place, w, n, total)
<1>1. n \in Nat /\ sent \in Seq(Byte) /\ place \in Nat \ {0}
  BY DEF U32, Holds
<1>2. PICK p \in Seq(Byte) : p = Varint[n] /\ Len(p) = VarintLength[n]
  BY <1>1, VarintType
<1>3. PICK q : q = ReadVarint(sent, r.at)
  OBVIOUS
<1>4. r.at = 0 => q.at = 0
  BY <1>1, <1>3, NothingReads
<1>5. r.at # 0 => ReadsBack(q, sent, r.at, Len(p), n)
  <2>1. r.at # 0 => Holds(sent, r.at, p)
    BY <1>2, HeldNext
  <2> QED
    BY <1>2, <1>3, <2>1, VarintReads
<1>6. Reached(q, sent, place, w, n, total)
  BY <1>1, <1>2, <1>4, <1>5, ReachedNext
<1> QED
  BY <1>3, <1>6

\* A byte behind what was read is read.
LEMMA ByteNext ==
    ASSUME NEW u \in Seq(Byte), NEW b \in Byte, NEW w, w = u \o <<b>>,
           NEW sent, NEW place, Holds(sent, place, w), NEW total \in Nat, Len(w) <= total,
           NEW r, NEW x, Reached(r, sent, place, u, x, total)
    PROVE  Reached(ReadByte(sent, r.at), sent, place, w, b, total)
<1>1. sent \in Seq(Byte) /\ place \in Nat \ {0}
  BY DEF Holds
<1>2. PICK p \in Seq(Byte) : p = <<b>> /\ Len(p) = 1
  BY OneByte
<1>3. PICK q : q = ReadByte(sent, r.at)
  OBVIOUS
<1>4. r.at = 0 => q.at = 0
  BY <1>1, <1>3, NothingReads
<1>5. r.at # 0 => ReadsBack(q, sent, r.at, Len(p), b)
  <2>1. r.at # 0 => Holds(sent, r.at, p)
    BY <1>2, HeldNext
  <2> QED
    BY <1>2, <1>3, <2>1, ByteReads
<1>6. Reached(q, sent, place, w, b, total)
  BY <1>1, <1>2, <1>4, <1>5, ReachedNext
<1> QED
  BY <1>3, <1>6

\* A count is read if it is one of things that are there, of a byte at least each.
LEMMA CountOf ==
    ASSUME NEW sent \in Seq(Byte), NEW place \in Nat \ {0}, NEW w \in Seq(Byte), NEW n \in Nat,
           NEW total \in Nat, Len(w) + n <= total, NEW p,
           Reached(ReadVarint(sent, p), sent, place, w, n, total)
    PROVE  Reached(ReadCount(sent, p), sent, place, w, n, total)
<1>1. PICK v : v = ReadVarint(sent, p)
  OBVIOUS
<1>2. CASE v.at # At0 /\ v.v > Remaining(sent, v.at)
  <2>1. ReadCount(sent, p) = Failed
    BY <1>1, <1>2 DEF ReadCount
  <2>2. Failed.at = 0
    BY DEF Failed, At0
  <2>3. v.at = place + Len(w) /\ v.v = n
    BY <1>1, <1>2 DEF Reached, At0
  <2>4. ~IsWhole(sent, place, total)
    BY <1>2, <2>3 DEF IsWhole, Remaining
  <2> QED
    BY <2>1, <2>2, <2>4 DEF Reached
<1>3. CASE ~(v.at # At0 /\ v.v > Remaining(sent, v.at))
  <2>1. ReadCount(sent, p) = v
    BY <1>1, <1>3 DEF ReadCount
  <2> QED
    BY <1>1, <2>1
<1> QED
  BY <1>2, <1>3

\* Bytes that are the first of so many in total.
HoldsIn(sent, place, w, total) == Holds(sent, place, w) /\ total \in Nat /\ Len(w) <= total

\* What the bytes begin with is there.
LEMMA HeldBefore ==
    ASSUME NEW u \in Seq(Byte), NEW p \in Seq(Byte), NEW w, w = u \o p, NEW sent, NEW place, NEW total,
           HoldsIn(sent, place, w, total)
    PROVE  HoldsIn(sent, place, u, total)
<1>1. Holds(sent, place, u) /\ Len(u \o p) = Len(u) + Len(p) /\ Len(u) \in Nat /\ Len(p) \in Nat
  BY HoldsBoth DEF HoldsIn
<1>2. PICK a \in Nat, b \in Nat : a = Len(u) /\ b = Len(p) /\ Len(w) = a + b
  BY <1>1
<1>3. a + b <= total /\ total \in Nat
  BY <1>2 DEF HoldsIn
<1>4. a <= total
  BY <1>3
<1> QED
  BY <1>1, <1>2, <1>3, <1>4 DEF HoldsIn

\* A number before, or behind, others.
LEMMA NumberFirst ==
    ASSUME NEW n, U32(n), NEW sent, NEW place, NEW total, HoldsIn(sent, place, Varint[n], total)
    PROVE  Reached(ReadVarint(sent, place), sent, place, Varint[n], n, total)
BY VarintFirst DEF HoldsIn

\* A number behind what was read is there, and is read.
LEMMA NumberNext ==
    ASSUME NEW u \in Seq(Byte), NEW n, U32(n), NEW w, w = u \o Varint[n], NEW sent, NEW place, NEW total,
           HoldsIn(sent, place, w, total), NEW r, NEW x, Reached(r, sent, place, u, x, total)
    PROVE  HoldsIn(sent, place, u, total) /\ Reached(ReadVarint(sent, r.at), sent, place, w, n, total)
<1>1. Holds(sent, place, w) /\ total \in Nat /\ Len(w) <= total
  BY DEF HoldsIn
<1>2. Reached(ReadVarint(sent, r.at), sent, place, w, n, total)
  BY <1>1, VarintNext
<1>3. PICK p \in Seq(Byte) : p = Varint[n]
  BY VarintType DEF U32
<1>4. HoldsIn(sent, place, u, total)
  BY <1>3, HeldBefore
<1> QED
  BY <1>2, <1>4

\* Pieces that have a byte each have as many bytes as there are pieces.
LEMMA PiecesMany ==
    ASSUME NEW pieces \in Seq(Seq(Byte)), \A k \in 1..Len(pieces) : Len(pieces[k]) # 0
    PROVE  Len(FlattenSeq(pieces)) \in Nat /\ Len(FlattenSeq(pieces)) >= Len(pieces)
<1>1. PICK n \in Nat : n = Len(pieces)
  OBVIOUS
<1>2. Len(FlattenSeq(pieces)) \in Nat
  BY Flatten
<1>3. CASE n = 0
  BY <1>1, <1>2, <1>3
<1>4. CASE n # 0
  <2>1. PICK m \in Nat : n = m + 1
    <3>1. n - 1 \in Nat /\ n = (n - 1) + 1
      BY <1>4
    <3> QED
      BY <3>1
  <2>2. \A k \in 1..(m + 1) : Len(pieces[k]) # 0
    BY <1>1, <2>1
  <2>3. Len(FlattenSeq(pieces)) >= Len(pieces[1]) + m
    BY <1>1, <2>1, <2>2, PiecesLong
  <2>4. Len(pieces[1]) \in Nat \ {0}
    <3>1. 1 \in 1..Len(pieces)
      BY <1>1, <2>1
    <3> QED
      BY <3>1
  <2> QED
    BY <1>1, <1>2, <2>1, <2>3, <2>4
<1> QED
  BY <1>3, <1>4

\* The parameters of a function.
ParamPieces(params, tags) == [k \in DOMAIN params |-> TaggedBytes(params[k], tags)]
AreParams(params) ==
    /\ params \in Seq(BytecodeOperand)
    /\ \A k \in DOMAIN params : TagOf(params[k][1]) = params[k][1]

\* The parameters are bytes, at least one for each.
LEMMA ParamPiecesType ==
    ASSUME NEW params, AreParams(params), NEW e, IsDecodable(e), NEW pieces, pieces = ParamPieces(params, e.tags)
    PROVE  /\ pieces \in Seq(Seq(Byte)) /\ Len(pieces) = Len(params)
           /\ Len(FlattenSeq(pieces)) >= Len(params) /\ FlattenSeq(pieces) \in Seq(Byte)
<1>1. PICK n \in Nat : n = Len(params) /\ DOMAIN params = 1..n /\ \A k \in 1..n : params[k] \in BytecodeOperand
  BY DEF AreParams
<1>2. ASSUME NEW k \in 1..n PROVE pieces[k] \in Seq(Byte) /\ Len(pieces[k]) # 0
  <2>1. PICK o \in BytecodeOperand : o = params[k]
    BY <1>1
  <2>2. pieces[k] = TaggedBytes(o, e.tags)
    BY <1>1, <2>1 DEF ParamPieces
  <2>3. o \in OperandKinds \X Nat
    BY DEF BytecodeOperand
  <2>4. TaggedBytes(o, e.tags) \in Seq(Byte) /\ Len(TaggedBytes(o, e.tags)) = 1 + VarintLength[Number(o)]
    BY <2>3, TaggedBytesType DEF IsDecodable, IsEncoding
  <2>5. VarintLength[Number(o)] \in Nat \ {0}
    BY OperandParts, VarintType
  <2> QED
    BY <2>2, <2>4, <2>5
<1>3. pieces \in Seq(Seq(Byte)) /\ Len(pieces) = n
  BY <1>1, <1>2 DEF ParamPieces
<1>4. \A k \in 1..Len(pieces) : Len(pieces[k]) # 0
  BY <1>2, <1>3
<1>5. Len(FlattenSeq(pieces)) >= Len(pieces)
  BY <1>3, <1>4, PiecesMany
<1> QED
  BY <1>1, <1>3, <1>5, Flatten

\* The parameters are read back: each has a kind with a tag of its own.
LEMMA ParamsRead ==
    ASSUME NEW params, AreParams(params), NEW e, IsDecodable(e), NEW pieces, pieces = ParamPieces(params, e.tags),
           NEW sent, NEW place, Holds(sent, place, FlattenSeq(pieces)), IsPlace(sent, place),
           NEW t, t = ReadOperands([at |-> place, args |-> <<>>], sent,
                                   Repeated(<<"tagged">>, Len(params)), e.tags)
    PROVE  IF IsWhole(sent, place, Len(FlattenSeq(pieces)))
           THEN t.at = place + Len(FlattenSeq(pieces)) /\ t.args = params
           ELSE t.at = 0
<1>1. PICK n \in Nat : n = Len(params) /\ DOMAIN params = 1..n /\ \A k \in 1..n : params[k] \in BytecodeOperand
  BY DEF AreParams
<1>2. PICK r : r = [at |-> place, args |-> <<>>]
  OBVIOUS
<1>3. r.at = place /\ r.args = <<>> /\ DOMAIN r = {"at", "args"}
  BY <1>2
<1>4. PICK one \in KindLists : one = <<"tagged">> /\ Len(one) = 1 /\ one[1] = "tagged"
  <2>1. <<"tagged">> \in KindLists /\ Len(<<"tagged">>) = 1 /\ <<"tagged">>[1] = "tagged"
    BY WireKindsHas, Kinds1
  <2> QED
    BY <2>1, Zenon
<1>5. PICK kinds : kinds = Repeated(one, n)
  OBVIOUS
<1>6. Len(kinds) = n /\ \A k \in 1..n : kinds[k] = "tagged"
  <2>1. kinds = [j \in 1..(n * 1) |-> one[((j - 1) % 1) + 1]]
    BY <1>4, <1>5, Zenon DEF Repeated
  <2>2. n * 1 = n /\ \A j \in 1..n : ((j - 1) % 1) + 1 = 1
    OBVIOUS
  <2> QED
    BY <1>4, <2>1, <2>2
<1>7. t = ReadOperands(r, sent, kinds, e.tags)
  BY <1>1, <1>2, <1>4, <1>5, Zenon
<1>8. pieces \in Seq(Seq(Byte)) /\ Len(pieces) = n
  BY <1>1, ParamPiecesType
<1>9. ASSUME NEW k \in 1..n
      PROVE  /\ params[k] \in AnyOperand
             /\ \A p : Holds(sent, p, pieces[k])
                    => ReadsBack(ReadOperand(sent, p, kinds[k], e.tags), sent, p, Len(pieces[k]), params[k])
  <2>1. PICK o \in BytecodeOperand : o = params[k]
    BY <1>1
  <2>2. pieces[k] = TaggedBytes(o, e.tags)
    BY <1>1, <2>1 DEF ParamPieces
  <2>3. Untyped(o) = o
    <3>1. TagOf(o[1]) = o[1]
      BY <1>1, <2>1 DEF AreParams
    <3>2. o = Operand(o[1], Number(o))
      BY OperandParts
    <3> QED
      BY <3>1, <3>2 DEF Untyped
  <2>4. ASSUME NEW p, Holds(sent, p, pieces[k])
        PROVE  ReadsBack(ReadOperand(sent, p, kinds[k], e.tags), sent, p, Len(pieces[k]), params[k])
    <3>1. ReadOperand(sent, p, kinds[k], e.tags) = ReadTagged(sent, p, e.tags)
      BY <1>6 DEF ReadOperand
    <3>2. ReadsBack(ReadTagged(sent, p, e.tags), sent, p, Len(pieces[k]), Untyped(o))
      BY <2>2, <2>4, TaggedReads
    <3> QED
      BY <2>1, <2>3, <3>1, <3>2
  <2>5. o \in AnyOperand
    BY DEF BytecodeOperand, AnyOperand
  <2> QED
    BY <2>1, <2>4, <2>5
<1>10. sent \in Seq(Byte) /\ r.at \in Nat \ {0} /\ IsPlace(sent, r.at) /\ r.args \in Seq(AnyOperand)
  BY <1>3 DEF Holds
<1>11. HasRead(t, r, sent, Len(FlattenSeq(pieces)), n, params)
  <2>1. \A k \in 1..n : params[k] \in AnyOperand
    BY <1>9
  <2>2. \A k \in 1..n : \A p : Holds(sent, p, pieces[k])
                    => ReadsBack(ReadOperand(sent, p, kinds[k], e.tags), sent, p, Len(pieces[k]), params[k])
    BY <1>9
  <2>3. Holds(sent, r.at, FlattenSeq(pieces)) /\ "at" \in DOMAIN r /\ "args" \in DOMAIN r
    BY <1>3
  <2>4. HasRead(ReadOperands(r, sent, kinds, e.tags), r, sent, Len(FlattenSeq(pieces)), n, params)
    BY <1>6, <1>8, <1>10, <2>1, <2>2, <2>3, OperandsBack
  <2> QED
    BY <1>7, <2>4
<1>12. CASE ~IsWhole(sent, place, Len(FlattenSeq(pieces)))
  BY <1>3, <1>11, <1>12 DEF HasRead
<1>13. CASE IsWhole(sent, place, Len(FlattenSeq(pieces)))
  <2>1. /\ t.at = place + Len(FlattenSeq(pieces)) /\ t.args \in Seq(AnyOperand)
        /\ Len(t.args) = Len(r.args) + n /\ \A j \in 1..n : t.args[Len(r.args) + j] = params[j]
    BY <1>3, <1>11, <1>13 DEF HasRead
  <2>2. Len(r.args) = 0
    BY <1>3
  <2>3. Len(t.args) = n /\ \A j \in 1..n : t.args[j] = params[j]
    BY <2>1, <2>2
  <2>4. params \in Seq(BytecodeOperand)
    BY DEF AreParams
  <2>5. t.args = params
    BY <1>1, <2>1, <2>3, <2>4
  <2> QED
    BY <1>13, <2>1, <2>5
<1> QED
  BY <1>12, <1>13

\* The bytes of a function piece by piece.
FunctionUpto(f, e, w1, w2, w3, w4, w5, w6, rest) ==
    /\ w1 = Varint[f.name + 1] /\ w2 = w1 \o Varint[f.start] /\ w3 = w2 \o Varint[f.end]
    /\ w4 = w3 \o Varint[f.flags] /\ w5 = w4 \o Varint[Len(f.params)]
    /\ w6 = w5 \o <<IF f.returns THEN 1 ELSE 0>>
    /\ rest = FlattenSeq(ParamPieces(f.params, e.tags))
    /\ FunctionBytes(f, e) = w6 \o rest
    /\ w1 \in Seq(Byte) /\ w2 \in Seq(Byte) /\ w3 \in Seq(Byte) /\ w4 \in Seq(Byte)
    /\ w5 \in Seq(Byte) /\ w6 \in Seq(Byte) /\ rest \in Seq(Byte)
    /\ Len(rest) >= Len(f.params)

\* A function is written number after number.
LEMMA FunctionPieces ==
    ASSUME NEW f \in BytecodeFunction, NEW e, IsDecodable(e)
    PROVE  \E w1, w2, w3, w4, w5, w6, rest : FunctionUpto(f, e, w1, w2, w3, w4, w5, w6, rest)
<1>1. /\ f.name + 1 \in Nat /\ f.start \in Nat /\ f.end \in Nat /\ f.flags \in Nat /\ Len(f.params) \in Nat
      /\ AreParams(f.params)
  BY DEF BytecodeFunction, U32, AreParams
<1>2. PICK w1 \in Seq(Byte), v2 \in Seq(Byte), v3 \in Seq(Byte), v4 \in Seq(Byte), v5 \in Seq(Byte) :
        /\ w1 = Varint[f.name + 1] /\ v2 = Varint[f.start] /\ v3 = Varint[f.end]
        /\ v4 = Varint[f.flags] /\ v5 = Varint[Len(f.params)]
  BY <1>1, VarintType
<1>3. PICK v6 \in Seq(Byte) : v6 = <<IF f.returns THEN 1 ELSE 0>>
  <2>1. (IF f.returns THEN 1 ELSE 0) \in Byte
    BY DEF Byte
  <2>2. PICK b \in Byte : b = IF f.returns THEN 1 ELSE 0
    BY <2>1
  <2> QED
    BY <2>2, OneByte, Zenon
<1>4. PICK w2 \in Seq(Byte) : w2 = w1 \o v2
  BY JoinedBytes
<1>5. PICK w3 \in Seq(Byte) : w3 = w2 \o v3
  BY JoinedBytes
<1>6. PICK w4 \in Seq(Byte) : w4 = w3 \o v4
  BY JoinedBytes
<1>7. PICK w5 \in Seq(Byte) : w5 = w4 \o v5
  BY JoinedBytes
<1>8. PICK w6 \in Seq(Byte) : w6 = w5 \o v6
  BY JoinedBytes
<1>9. PICK rest \in Seq(Byte) : rest = FlattenSeq(ParamPieces(f.params, e.tags)) /\ Len(rest) >= Len(f.params)
  BY <1>1, ParamPiecesType
<1>10. FunctionBytes(f, e) = w6 \o rest
  BY <1>2, <1>3, <1>4, <1>5, <1>6, <1>7, <1>8, <1>9, Zenon DEF FunctionBytes, OptionalVarint, ParamPieces
<1>11. FunctionUpto(f, e, w1, w2, w3, w4, w5, w6, rest)
  BY <1>2, <1>3, <1>4, <1>5, <1>6, <1>7, <1>8, <1>9, <1>10, Zenon DEF FunctionUpto
<1> QED
  BY <1>11

\* The numbers of a function are read one after the other.
NumbersAre(sent, place, name, start, end, flags, count, returns) ==
    /\ name = ReadVarint(sent, place) /\ start = ReadVarint(sent, name.at)
    /\ end = ReadVarint(sent, start.at) /\ flags = ReadVarint(sent, end.at)
    /\ count = ReadCount(sent, flags.at) /\ returns = ReadByte(sent, count.at)

\* Each of its numbers is there.
LEMMA NumbersHeld ==
    ASSUME NEW f \in BytecodeFunction, NEW e,
           NEW w1, NEW w2, NEW w3, NEW w4, NEW w5, NEW w6, NEW rest,
           FunctionUpto(f, e, w1, w2, w3, w4, w5, w6, rest),
           NEW sent, NEW place, NEW total, HoldsIn(sent, place, w6, total)
    PROVE  /\ HoldsIn(sent, place, w1, total) /\ HoldsIn(sent, place, w2, total) /\ HoldsIn(sent, place, w3, total)
           /\ HoldsIn(sent, place, w4, total) /\ HoldsIn(sent, place, w5, total)
<1>t. /\ w1 \in Seq(Byte) /\ w2 \in Seq(Byte) /\ w3 \in Seq(Byte) /\ w4 \in Seq(Byte)
      /\ w5 \in Seq(Byte)
  BY DEF FunctionUpto
<1>n. f.start \in Nat /\ f.end \in Nat /\ f.flags \in Nat /\ Len(f.params) \in Nat
  BY DEF U32, BytecodeFunction
<1>5. HoldsIn(sent, place, w5, total)
  <2>1. PICK p \in Seq(Byte) : p = <<IF f.returns THEN 1 ELSE 0>>
    <3>1. PICK b \in Byte : b = IF f.returns THEN 1 ELSE 0
      BY DEF Byte
    <3> QED
      BY <3>1, OneByte, Zenon
  <2>2. w6 = w5 \o p
    BY <2>1, Zenon DEF FunctionUpto
  <2> QED
    BY <1>t, <2>2, HeldBefore
<1>4. HoldsIn(sent, place, w4, total)
  <2>1. PICK p \in Seq(Byte) : p = Varint[Len(f.params)]
    BY <1>n, VarintType
  <2>2. w5 = w4 \o p
    BY <2>1 DEF FunctionUpto
  <2> QED
    BY <1>t, <1>5, <2>2, HeldBefore
<1>3. HoldsIn(sent, place, w3, total)
  <2>1. PICK p \in Seq(Byte) : p = Varint[f.flags]
    BY <1>n, VarintType
  <2>2. w4 = w3 \o p
    BY <2>1 DEF FunctionUpto
  <2> QED
    BY <1>t, <1>4, <2>2, HeldBefore
<1>2. HoldsIn(sent, place, w2, total)
  <2>1. PICK p \in Seq(Byte) : p = Varint[f.end]
    BY <1>n, VarintType
  <2>2. w3 = w2 \o p
    BY <2>1 DEF FunctionUpto
  <2> QED
    BY <1>t, <1>3, <2>2, HeldBefore
<1>1. HoldsIn(sent, place, w1, total)
  <2>1. PICK p \in Seq(Byte) : p = Varint[f.start]
    BY <1>n, VarintType
  <2>2. w2 = w1 \o p
    BY <2>1 DEF FunctionUpto
  <2> QED
    BY <1>t, <1>2, <2>2, HeldBefore
<1> QED
  BY <1>1, <1>2, <1>3, <1>4, <1>5

\* Each of its numbers is read.
LEMMA NumbersRead ==
    ASSUME NEW f \in BytecodeFunction, NEW e,
           NEW w1, NEW w2, NEW w3, NEW w4, NEW w5, NEW w6, NEW rest,
           FunctionUpto(f, e, w1, w2, w3, w4, w5, w6, rest),
           NEW sent, NEW place, NEW total, HoldsIn(sent, place, w6, total), total = Len(w6) + Len(rest),
           NEW name, NEW start, NEW end, NEW flags, NEW count, NEW returns,
           NumbersAre(sent, place, name, start, end, flags, count, returns)
    PROVE  /\ Reached(name, sent, place, w1, f.name + 1, total) /\ Reached(start, sent, place, w2, f.start, total)
           /\ Reached(end, sent, place, w3, f.end, total) /\ Reached(flags, sent, place, w4, f.flags, total)
           /\ Reached(count, sent, place, w5, Len(f.params), total)
           /\ Reached(returns, sent, place, w6, IF f.returns THEN 1 ELSE 0, total)
<1>t. /\ w1 \in Seq(Byte) /\ w2 \in Seq(Byte) /\ w3 \in Seq(Byte) /\ w4 \in Seq(Byte)
      /\ w5 \in Seq(Byte) /\ w6 \in Seq(Byte) /\ rest \in Seq(Byte)
  BY DEF FunctionUpto
<1>u. U32(f.name + 1) /\ U32(f.start) /\ U32(f.end) /\ U32(f.flags) /\ U32(Len(f.params))
  BY DEF BytecodeFunction
<1>h. /\ HoldsIn(sent, place, w1, total) /\ HoldsIn(sent, place, w2, total) /\ HoldsIn(sent, place, w3, total)
      /\ HoldsIn(sent, place, w4, total) /\ HoldsIn(sent, place, w5, total)
  BY NumbersHeld
<1>1. Reached(name, sent, place, w1, f.name + 1, total)
  <2>1. w1 = Varint[f.name + 1] /\ name = ReadVarint(sent, place)
    BY DEF FunctionUpto, NumbersAre
  <2> QED
    BY <1>u, <1>h, <2>1, NumberFirst
<1>2. Reached(start, sent, place, w2, f.start, total)
  <2>1. w2 = w1 \o Varint[f.start] /\ start = ReadVarint(sent, name.at)
    BY DEF FunctionUpto, NumbersAre
  <2>2. U32(f.start) /\ w1 \in Seq(Byte) /\ HoldsIn(sent, place, w2, total)
    BY <1>t, <1>u, <1>h
  <2> QED
    BY <1>1, <2>1, <2>2, NumberNext
<1>3. Reached(end, sent, place, w3, f.end, total)
  <2>1. w3 = w2 \o Varint[f.end] /\ end = ReadVarint(sent, start.at)
    BY DEF FunctionUpto, NumbersAre
  <2>2. U32(f.end) /\ w2 \in Seq(Byte) /\ HoldsIn(sent, place, w3, total)
    BY <1>t, <1>u, <1>h
  <2> QED
    BY <1>2, <2>1, <2>2, NumberNext
<1>4. Reached(flags, sent, place, w4, f.flags, total)
  <2>1. w4 = w3 \o Varint[f.flags] /\ flags = ReadVarint(sent, end.at)
    BY DEF FunctionUpto, NumbersAre
  <2>2. U32(f.flags) /\ w3 \in Seq(Byte) /\ HoldsIn(sent, place, w4, total)
    BY <1>t, <1>u, <1>h
  <2> QED
    BY <1>3, <2>1, <2>2, NumberNext
<1>5. Reached(count, sent, place, w5, Len(f.params), total)
  <2>1. w5 = w4 \o Varint[Len(f.params)] /\ count = ReadCount(sent, flags.at)
    BY DEF FunctionUpto, NumbersAre
  <2>2. U32(Len(f.params)) /\ w4 \in Seq(Byte) /\ HoldsIn(sent, place, w5, total)
    BY <1>t, <1>u, <1>h
  <2>3. Reached(ReadVarint(sent, flags.at), sent, place, w5, Len(f.params), total)
    BY <1>4, <2>1, <2>2, NumberNext
  <2>4. sent \in Seq(Byte) /\ place \in Nat \ {0} /\ total \in Nat
    BY DEF HoldsIn, Holds
  <2>5. Len(w5) + Len(f.params) <= total
    <3>1. Len(rest) \in Nat /\ Len(w5) \in Nat /\ Len(rest) >= Len(f.params) /\ Len(f.params) \in Nat
      <4>1. Len(rest) >= Len(f.params)
        BY DEF FunctionUpto
      <4> QED
        BY <1>t, <2>2, <4>1 DEF U32
    <3>2. Len(w6) \in Nat /\ Len(w6) >= Len(w5)
      <4>1. PICK b \in Byte : b = IF f.returns THEN 1 ELSE 0
        BY DEF Byte
      <4>2. w6 = w5 \o <<b>>
        BY <4>1, Zenon DEF FunctionUpto
      <4>3. Len(w5 \o <<b>>) = Len(w5) + 1
        BY <1>t
      <4> QED
        BY <3>1, <4>2, <4>3
    <3> QED
      BY <3>1, <3>2
  <2>6. Len(f.params) \in Nat /\ w5 \in Seq(Byte)
    BY <1>t, <2>2 DEF U32
  <2> QED
    BY <2>1, <2>3, <2>4, <2>5, <2>6, CountOf
<1>6. Reached(returns, sent, place, w6, IF f.returns THEN 1 ELSE 0, total)
  <2>1. PICK b \in Byte : b = IF f.returns THEN 1 ELSE 0
    BY DEF Byte
  <2>2. w6 = w5 \o <<b>>
    BY <2>1, Zenon DEF FunctionUpto
  <2>3. returns = ReadByte(sent, count.at)
    BY DEF NumbersAre
  <2>4. Holds(sent, place, w6) /\ total \in Nat /\ Len(w6) <= total /\ w5 \in Seq(Byte)
    BY <1>t DEF HoldsIn
  <2>5. Reached(returns, sent, place, w6, b, total)
    BY <1>5, <2>2, <2>3, <2>4, ByteNext
  <2> QED
    BY <2>1, <2>5
<1> QED
  BY <1>1, <1>2, <1>3, <1>4, <1>5, <1>6

\* If the last of the numbers was read, they all were.
LEMMA NumbersThere ==
    ASSUME NEW sent \in Seq(Byte), NEW place,
           NEW name, NEW start, NEW end, NEW flags, NEW count, NEW returns,
           NumbersAre(sent, place, name, start, end, flags, count, returns), returns.at # 0
    PROVE  name.at # 0 /\ start.at # 0 /\ end.at # 0 /\ flags.at # 0 /\ count.at # 0
<1>1. count.at # 0
  BY NothingReads DEF NumbersAre
<1>2. flags.at # 0
  <2>1. ASSUME flags.at = 0 PROVE FALSE
    <3>1. ReadVarint(sent, flags.at) = Failed /\ Failed.at = 0
      BY <2>1, NothingReads
    <3>2. count = Failed
      BY <3>1 DEF NumbersAre, ReadCount, At0
    <3> QED
      BY <1>1, <3>1, <3>2
  <2> QED
    BY <2>1
<1>3. end.at # 0
  BY <1>2, NothingReads DEF NumbersAre
<1>4. start.at # 0
  BY <1>3, NothingReads DEF NumbersAre
<1>5. name.at # 0
  BY <1>4, NothingReads DEF NumbersAre
<1> QED
  BY <1>1, <1>2, <1>3, <1>4, <1>5

\* A function is its parts.
LEMMA FunctionIs ==
    ASSUME NEW f \in BytecodeFunction
    PROVE  /\ f = Function(f.name, f.start, f.end, f.flags, f.returns, f.params)
           /\ (f.name + 1) - 1 = f.name /\ ((IF f.returns THEN 1 ELSE 0) # 0) = f.returns
<1>1. /\ f \in [name : Nat \cup {NoIndex}, start : Nat, end : Nat, flags : Nat, returns : BOOLEAN,
            params : Seq(BytecodeOperand)]
  BY DEF BytecodeFunction
<1>2. f = Function(f.name, f.start, f.end, f.flags, f.returns, f.params)
  BY <1>1 DEF Function
<1>3. f.name \in Int /\ f.returns \in BOOLEAN
  BY <1>1 DEF NoIndex
<1> QED
  BY <1>2, <1>3

\* Behind what could not be read there are no parameters.
LEMMA ParamsStay ==
    ASSUME NEW sent \in Seq(Byte), NEW n \in Nat, NEW tags
    PROVE  ReadOperands([at |-> 0, args |-> <<>>], sent, Repeated(<<"tagged">>, n), tags).at = 0
<1>1. PICK kinds \in KindLists : kinds = Repeated(<<"tagged">>, n)
  <2>1. <<"tagged">> \in KindLists
    BY WireKindsHas, Kinds1, Zenon
  <2> QED
    BY <2>1, RepeatedType
<1>2. PICK r : r = [at |-> 0, args |-> <<>>]
  OBVIOUS
<1>3. r.at = 0 /\ "at" \in DOMAIN r
  BY <1>2
<1>4. ReadOperands(r, sent, kinds, tags).at = 0
  BY <1>3, OperandsStay
<1> QED
  BY <1>1, <1>2, <1>4

\* A function is read back from what to_bytes_with_encoding writes of it: its name if it has
\* one, its range, its flags and its parameters, each with its tag (from_bytes_with_encoding).
THEOREM FunctionReads ==
    ASSUME NEW f \in BytecodeFunction, NEW e, IsDecodable(e), NEW sent, NEW place,
           Holds(sent, place, FunctionBytes(f, e))
    PROVE  ReadsBack(ReadFunction(sent, place, e.tags), sent, place, Len(FunctionBytes(f, e)), f)
<1>1. PICK w1, w2, w3, w4, w5, w6, rest : FunctionUpto(f, e, w1, w2, w3, w4, w5, w6, rest)
  BY FunctionPieces
<1>2. PICK all : all = FunctionBytes(f, e) /\ all = w6 \o rest /\ w6 \in Seq(Byte) /\ rest \in Seq(Byte)
  BY <1>1 DEF FunctionUpto
<1>3. sent \in Seq(Byte) /\ place \in Nat \ {0}
  BY DEF Holds
<1>4. PICK l \in Nat, k \in Nat, total \in Nat : l = Len(w6) /\ k = Len(rest) /\ total = l + k /\ total = Len(all)
  <2>1. Len(w6 \o rest) = Len(w6) + Len(rest) /\ Len(w6) \in Nat /\ Len(rest) \in Nat
    BY <1>2, Pieces
  <2> QED
    BY <1>2, <2>1
<1>5. HoldsIn(sent, place, w6, total) /\ Holds(sent, place + l, rest)
  <2>1. Holds(sent, place, w6 \o rest)
    BY <1>2
  <2>2. Holds(sent, place, w6) /\ Holds(sent, place + Len(w6), rest)
    BY <1>2, <2>1, HoldsBoth
  <2> QED
    BY <1>4, <2>2 DEF HoldsIn
<1>6. PICK name, start, end, flags, count, returns :
        NumbersAre(sent, place, name, start, end, flags, count, returns)
  BY DEF NumbersAre
<1>7. total = Len(w6) + Len(rest)
  BY <1>4
<1>8. /\ Reached(name, sent, place, w1, f.name + 1, total) /\ Reached(start, sent, place, w2, f.start, total)
      /\ Reached(end, sent, place, w3, f.end, total) /\ Reached(flags, sent, place, w4, f.flags, total)
      /\ Reached(count, sent, place, w5, Len(f.params), total)
      /\ Reached(returns, sent, place, w6, IF f.returns THEN 1 ELSE 0, total)
  BY <1>1, <1>5, <1>6, <1>7, NumbersRead
<1>9. PICK params : params = ReadOperands([at |-> returns.at, args |-> <<>>], sent,
                                          Repeated(<<"tagged">>, count.v), e.tags)
  OBVIOUS
<1>10. PICK r : r = ReadFunction(sent, place, e.tags)
  OBVIOUS
<1>11. r = Got(params.at, Function(name.v - 1, start.v, end.v, flags.v, returns.v # 0, params.args))
  BY <1>6, <1>9, <1>10, Zenon DEF ReadFunction, NumbersAre
<1>12. CASE returns.at = 0
  <2>1. count.v \in Nat
    <3>1. name.at \in Nat
      BY <1>3, <1>6, ReadVarintPlace DEF NumbersAre
    <3>2. start.at \in Nat
      BY <1>3, <1>6, <3>1, ReadVarintPlace DEF NumbersAre
    <3>3. end.at \in Nat
      BY <1>3, <1>6, <3>2, ReadVarintPlace DEF NumbersAre
    <3>4. flags.at \in Nat
      BY <1>3, <1>6, <3>3, ReadVarintPlace DEF NumbersAre
    <3>5. count = ReadCount(sent, flags.at)
      BY <1>6 DEF NumbersAre
    <3>6. count.v \in 0..Len(sent)
      BY <1>3, <3>4, <3>5, ReadCountType
    <3> QED
      BY <3>6
  <2>2. params.at = 0
    BY <1>3, <1>9, <1>12, <2>1, ParamsStay
  <2>3. ~IsWhole(sent, place, total)
    BY <1>8, <1>12 DEF Reached
  <2>4. r.at = 0
    BY <1>11, <2>2 DEF Got
  <2> QED
    BY <1>2, <1>4, <1>10, <2>3, <2>4, ReadsNot
<1>13. CASE returns.at # 0
  <2>1. name.at # 0 /\ start.at # 0 /\ end.at # 0 /\ flags.at # 0 /\ count.at # 0
    BY <1>3, <1>6, <1>13, NumbersThere
  <2>2. /\ name.v = f.name + 1 /\ start.v = f.start /\ end.v = f.end /\ flags.v = f.flags
        /\ count.v = Len(f.params)
    BY <1>8, <2>1 DEF Reached
  <2>3. returns.v = (IF f.returns THEN 1 ELSE 0) /\ returns.at = place + l /\ IsWhole(sent, place, l)
    BY <1>4, <1>8, <1>13 DEF Reached
  <2>4. PICK pieces : pieces = ParamPieces(f.params, e.tags) /\ rest = FlattenSeq(pieces)
    BY <1>1 DEF FunctionUpto
  <2>5. AreParams(f.params)
    BY DEF BytecodeFunction, AreParams
  <2>6. Holds(sent, place + l, FlattenSeq(pieces)) /\ IsPlace(sent, place + l)
    BY <1>3, <1>4, <1>5, <2>3, <2>4 DEF IsPlace, IsWhole
  <2>7. params = ReadOperands([at |-> place + l, args |-> <<>>], sent,
                              Repeated(<<"tagged">>, Len(f.params)), e.tags)
    BY <1>9, <2>2, <2>3
  <2>8. IF IsWhole(sent, place + l, Len(FlattenSeq(pieces)))
        THEN params.at = place + l + Len(FlattenSeq(pieces)) /\ params.args = f.params
        ELSE params.at = 0
    BY <2>4, <2>5, <2>6, <2>7, ParamsRead
  <2>9. IF IsWhole(sent, place + l, k) THEN params.at = place + l + k /\ params.args = f.params ELSE params.at = 0
    BY <1>4, <2>4, <2>8
  <2>10. IsWhole(sent, place, total) <=> IsWhole(sent, place + l, k)
    BY <1>3, <1>4 DEF IsWhole
  <2>11. CASE IsWhole(sent, place + l, k)
    <3>1. params.at = place + total /\ params.args = f.params
      BY <1>3, <1>4, <2>9, <2>11
    <3>2. r = Got(place + total, Function((f.name + 1) - 1, f.start, f.end, f.flags,
                                       (IF f.returns THEN 1 ELSE 0) # 0, f.params))
      BY <1>11, <2>2, <2>3, <3>1
    <3>3. r = Got(place + total, f)
      BY <3>2, FunctionIs
    <3> QED
      BY <1>2, <1>4, <1>10, <2>10, <2>11, <3>3 DEF ReadsBack
  <2>12. CASE ~IsWhole(sent, place + l, k)
    <3>1. params.at = 0
      BY <2>9, <2>12
    <3>2. r.at = 0
      BY <1>11, <3>1 DEF Got
    <3> QED
      BY <1>2, <1>4, <1>10, <2>10, <2>12, <3>2, ReadsNot
  <2> QED
    BY <2>11, <2>12
<1> QED
  BY <1>12, <1>13

-----------------------------------------------------------------------------
(* Constants are read back.                                                *)

\* A byte, and what is behind it.
LEMMA ByteThen ==
    ASSUME NEW b \in Byte, NEW v \in Seq(Byte), NEW w, w = <<b>> \o v, NEW sent, NEW place, Holds(sent, place, w)
    PROVE  GoesOn(ReadByte(sent, place), sent, place, b, v, Len(w)) /\ w \in Seq(Byte)
<1>1. PICK one \in Seq(Byte) : one = <<b>> /\ Len(one) = 1
  BY OneByte
<1>2. Holds(sent, place, one \o v) /\ w = one \o v
  BY <1>1
<1>3. Holds(sent, place, <<b>>)
  <2>1. Holds(sent, place, one)
    BY <1>2, HoldsBoth
  <2> QED
    BY <1>1, <2>1
<1>4. PICK r : r = ReadByte(sent, place)
  OBVIOUS
<1>5. ReadsBack(r, sent, place, 1, b)
  BY <1>3, <1>4, ByteReads
<1>6. 1 = Len(one)
  BY <1>1
<1>7. GoesOn(r, sent, place, b, v, Len(one \o v))
  BY <1>2, <1>5, <1>6, ReadsFirst
<1> QED
  BY <1>2, <1>4, <1>7, JoinedBytes

\* What follows is read, if what is before it was.
LEMMA GoesOnEnd ==
    ASSUME NEW r, NEW sent, NEW place, NEW x, NEW v, NEW length, GoesOn(r, sent, place, x, v, length),
           NEW s, NEW y, r.at = 0 => s.at = 0,
           r.at # 0 => ReadsBack(s, sent, r.at, Len(v), y)
    PROVE  ReadsBack(s, sent, place, length, y)
<1>1. CASE r.at = 0
  <2>1. ~IsWhole(sent, place, length)
    BY <1>1 DEF GoesOn
  <2> QED
    BY <1>1, <2>1, ReadsNot
<1>2. CASE r.at # 0
  BY <1>2 DEF GoesOn
<1> QED
  BY <1>1, <1>2

\* Bytes are read as they are.
LEMMA BytesRead ==
    ASSUME NEW w, NEW n \in Nat, n = Len(w), NEW sent, NEW place, Holds(sent, place, w)
    PROVE  /\ ReadsBack(ReadBytes(sent, place, n), sent, place, n, w)
           /\ ReadBytes(sent, 0, n) = Failed
<1>1. sent \in Seq(Byte) /\ place \in Nat \ {0} /\ w \in Seq(Byte)
  BY DEF Holds
<1>2. CASE IsWhole(sent, place, n)
  <2>1. SubSeq(sent, place, place + n - 1) = w
    BY <1>2, WholeBytes
  <2>2. ~(place = 0 \/ place + n - 1 > Len(sent))
    BY <1>1, <1>2 DEF IsWhole
  <2>3. ReadBytes(sent, place, n) = Got(place + n, w)
    BY <2>1, <2>2 DEF ReadBytes, At0
  <2> QED
    BY <1>2, <2>3 DEF ReadsBack, ReadBytes, At0
<1>3. CASE ~IsWhole(sent, place, n)
  <2>1. place + n - 1 > Len(sent)
    BY <1>1, <1>3 DEF IsWhole
  <2>2. ReadBytes(sent, place, n) = Failed
    BY <2>1 DEF ReadBytes
  <2> QED
    BY <1>3, <2>2 DEF ReadsBack, ReadBytes, At0, Failed
<1> QED
  BY <1>2, <1>3

\* An integer constant is its integer.
LEMMA IntegerIs ==
    ASSUME NEW c \in BytecodeConstant, c.type = "integer"
    PROVE  c.v[1] \in Int /\ U32(Zigzag(c.v[1])) /\ c = IntegerOf(c.v[1])
<1>1. c \in [type : ConstantTypes, v : Seq(Int)] /\ Len(c.v) = 1 /\ U32(Zigzag(c.v[1]))
  BY DEF BytecodeConstant
<1>2. PICK v \in Seq(Int), n \in Nat : v = c.v /\ n = Len(v) /\ n = 1
  BY <1>1
<1>3. 1 \in 1..n /\ v[1] \in Int
  <2>1. 1 \in 1..Len(v)
    BY <1>2
  <2> QED
    BY <1>2, <2>1, ElementOfSeq
<1>4. v = <<v[1]>>
  <2>1. PICK x \in Int : x = v[1]
    BY <1>3
  <2>2. PICK u \in Seq(Int) : u = <<x>> /\ Len(u) = 1 /\ u[1] = x
    <3>1. <<x>> \in Seq(Int) /\ Len(<<x>>) = 1 /\ <<x>>[1] = x
      OBVIOUS
    <3> QED
      BY <3>1, Zenon
  <2>3. \A k \in 1..n : k = 1
    BY <1>2
  <2>4. Len(u) = n /\ \A k \in 1..n : u[k] = v[k]
    BY <1>2, <2>1, <2>2, <2>3
  <2>5. u = v
    BY <1>2, <2>4, SeqEqual
  <2> QED
    BY <2>1, <2>2, <2>5
<1>5. c = [type |-> "integer", v |-> v]
  BY <1>1, <1>2
<1>6. c = [type |-> "integer", v |-> <<c.v[1]>>]
  BY <1>2, <1>4, <1>5, Zenon
<1> QED
  BY <1>1, <1>2, <1>3, <1>6, Zenon DEF IntegerOf, Const

\* A number, as an integer or as eight bytes.
LEMMA IntegerReads ==
    ASSUME NEW c \in BytecodeConstant, c.type = "integer", NEW sent, NEW place, Holds(sent, place, NumberBytes(c))
    PROVE  ReadsBack(ReadNumber(sent, place), sent, place, Len(NumberBytes(c)), c)
<1>1. PICK n \in Int : n = c.v[1] /\ U32(Zigzag(n)) /\ c = IntegerOf(n)
  BY IntegerIs
<1>2. PICK z \in Nat : z = Zigzag(n) /\ Unzigzag(z) = n /\ U32(z)
  BY <1>1, ZigzagRestores
<1>3. PICK v \in Seq(Byte) : v = Varint[z] /\ Len(v) = VarintLength[z]
  BY VarintType
<1>4. PICK b \in Byte : b = 0
  BY DEF Byte
<1>5. PICK w : w = NumberBytes(c)
  OBVIOUS
<1>6. w = <<b>> \o v
  BY <1>1, <1>2, <1>3, <1>4, <1>5, Zenon DEF NumberBytes
<1>7. PICK form : form = ReadByte(sent, place)
  OBVIOUS
<1>8. GoesOn(form, sent, place, b, v, Len(w))
  BY <1>5, <1>6, <1>7, ByteThen
<1>9. PICK integer : integer = ReadVarint(sent, form.at)
  OBVIOUS
<1>10. PICK s : s = ReadNumber(sent, place)
  OBVIOUS
<1>11. form.at = 0 => s.at = 0
  <2>1. ASSUME form.at = 0 PROVE s = Failed
    BY <1>7, <1>10, <2>1 DEF ReadNumber, At0
  <2> QED
    BY <2>1 DEF Failed, At0
<1>12. ASSUME form.at # 0 PROVE ReadsBack(s, sent, form.at, Len(v), c)
  <2>1. form.v = 0 /\ Holds(sent, form.at, v) /\ form.at \in Nat \ {0}
    BY <1>4, <1>8, <1>12 DEF GoesOn
  <2>2. ReadsBack(integer, sent, form.at, Len(v), z)
    BY <1>2, <1>3, <1>9, <2>1, VarintReads
  <2>3. s = Got(integer.at, IntegerOf(Unzigzag(integer.v)))
    <3>1. ~(form.at = At0 \/ form.v > 1) /\ form.at # At0 /\ form.v = 0
      BY <1>12, <2>1 DEF At0
    <3> QED
      BY <1>7, <1>9, <1>10, <3>1 DEF ReadNumber
  <2>4. CASE IsWhole(sent, form.at, Len(v))
    <3>1. integer.at = form.at + Len(v) /\ integer.v = z
      BY <2>2, <2>4 DEF ReadsBack, Got
    <3>2. s = Got(form.at + Len(v), c)
      BY <1>1, <1>2, <2>3, <3>1
    <3> QED
      BY <2>4, <3>2 DEF ReadsBack
  <2>5. CASE ~IsWhole(sent, form.at, Len(v))
    <3>1. integer.at = 0
      BY <2>2, <2>5 DEF ReadsBack, At0
    <3>2. s.at = 0
      BY <2>3, <3>1 DEF Got
    <3> QED
      BY <2>5, <3>2, ReadsNot
  <2> QED
    BY <2>4, <2>5
<1>13. ReadsBack(s, sent, place, Len(w), c)
  BY <1>8, <1>11, <1>12, GoesOnEnd
<1> QED
  BY <1>5, <1>10, <1>13

\* A double is read back byte by byte.
LEMMA DoubleReads ==
    ASSUME NEW c \in BytecodeConstant, c.type = "double", NEW sent, NEW place, Holds(sent, place, NumberBytes(c))
    PROVE  ReadsBack(ReadNumber(sent, place), sent, place, Len(NumberBytes(c)), c)
<1>1. PICK v \in Seq(Byte), n \in Nat : v = c.v /\ n = Len(v) /\ n = 8
  BY DEF BytecodeConstant
<1>2. c = Const("double", v)
  BY <1>1 DEF BytecodeConstant, Const
<1>4. PICK b \in Byte : b = 1
  BY DEF Byte
<1>5. PICK w : w = NumberBytes(c)
  OBVIOUS
<1>6. w = <<b>> \o v
  <2>1. c.type # "integer"
    OBVIOUS
  <2> QED
    BY <1>1, <1>4, <1>5, <2>1, Zenon DEF NumberBytes
<1>7. PICK form : form = ReadByte(sent, place)
  OBVIOUS
<1>8. GoesOn(form, sent, place, b, v, Len(w))
  BY <1>5, <1>6, <1>7, ByteThen
<1>9. PICK double : double = ReadBytes(sent, form.at, n)
  OBVIOUS
<1>10. PICK s : s = ReadNumber(sent, place)
  OBVIOUS
<1>11. form.at = 0 => s.at = 0
  <2>1. ASSUME form.at = 0 PROVE s = Failed
    BY <1>7, <1>10, <2>1 DEF ReadNumber, At0
  <2> QED
    BY <2>1 DEF Failed, At0
<1>12. ASSUME form.at # 0 PROVE ReadsBack(s, sent, form.at, Len(v), c)
  <2>1. form.v = 1 /\ Holds(sent, form.at, v) /\ form.at \in Nat \ {0}
    BY <1>4, <1>8, <1>12 DEF GoesOn
  <2>2. ReadsBack(double, sent, form.at, n, v)
    BY <1>1, <1>9, <2>1, BytesRead
  <2>3. s = Got(double.at, Const("double", double.v))
    <3>1. ~(form.at = At0 \/ form.v > 1) /\ ~(form.at # At0 /\ form.v = 0)
      BY <1>12, <2>1 DEF At0
    <3>2. double = ReadBytes(sent, form.at, 8)
      BY <1>1, <1>9
    <3> QED
      BY <1>7, <1>10, <3>1, <3>2 DEF ReadNumber
  <2>4. CASE IsWhole(sent, form.at, n)
    <3>1. double.at = form.at + n /\ double.v = v
      BY <2>2, <2>4 DEF ReadsBack, Got
    <3>2. s = Got(form.at + n, c)
      BY <1>2, <2>3, <3>1
    <3> QED
      BY <1>1, <2>4, <3>2 DEF ReadsBack
  <2>5. CASE ~IsWhole(sent, form.at, n)
    <3>1. double.at = 0
      BY <2>2, <2>5 DEF ReadsBack, At0
    <3>2. s.at = 0
      BY <2>3, <3>1 DEF Got
    <3> QED
      BY <1>1, <2>5, <3>2, ReadsNot
  <2> QED
    BY <2>4, <2>5
<1>13. ReadsBack(s, sent, place, Len(w), c)
  BY <1>8, <1>11, <1>12, GoesOnEnd
<1> QED
  BY <1>5, <1>10, <1>13

\* What is behind the type of a constant, and what is read of it.
Payload(c, index, e) ==
    IF c.type \in {"integer", "double"} THEN NumberBytes(c)
    ELSE IF c.type \in {"string", "bigint"} THEN StringBytes(c.v, e.key, ConstantDomain, index)
    ELSE IF c.type = "bool" THEN c.v ELSE <<>>
ReadPayload(sent, place, type, index, e) ==
    IF type = "number" THEN ReadNumber(sent, place)
    ELSE IF type \in {"string", "bigint"}
    THEN Got(ReadString(sent, place, e.key, ConstantDomain, index).at,
             Const(type, ReadString(sent, place, e.key, ConstantDomain, index).v))
    ELSE IF type = "bool" THEN Got(ReadByte(sent, place).at, Bool(ReadByte(sent, place).v # 0))
    ELSE Got(place, Const(type, <<>>))

\* A constant is written as its type and what follows it.
LEMMA PayloadIs ==
    ASSUME NEW c \in BytecodeConstant, NEW index, NEW e
    PROVE  ConstantBytes(c, index, e) = <<e.types[TypeTag(c)]>> \o Payload(c, index, e)
<1>1. PICK tag : tag = <<e.types[TypeTag(c)]>>
  OBVIOUS
<1>2. c.type \in ConstantTypes
  BY DEF BytecodeConstant
<1>3. CASE c.type \in {"integer", "double"}
  <2>1. TypeTag(c) = "number"
    BY <1>3 DEF TypeTag
  <2>2. ConstantBytes(c, index, e) = tag \o NumberBytes(c)
    BY <1>1, <1>3, <2>1 DEF ConstantBytes
  <2> QED
    BY <1>1, <1>3, <2>2, Zenon DEF Payload
<1>4. CASE c.type \in {"string", "bigint"}
  <2>1. TypeTag(c) # "number" /\ c.type \notin {"integer", "double"}
    BY <1>4 DEF TypeTag
  <2>2. ConstantBytes(c, index, e) = tag \o StringBytes(c.v, e.key, ConstantDomain, index)
    BY <1>1, <1>4, <2>1 DEF ConstantBytes
  <2> QED
    BY <1>1, <1>4, <2>1, <2>2, Zenon DEF Payload
<1>5. CASE c.type = "bool"
  <2>1. TypeTag(c) # "number" /\ c.type \notin {"integer", "double"} /\ c.type \notin {"string", "bigint"}
    BY <1>5 DEF TypeTag
  <2>2. ConstantBytes(c, index, e) = tag \o c.v
    BY <1>1, <1>5, <2>1 DEF ConstantBytes
  <2> QED
    BY <1>1, <1>5, <2>1, <2>2, Zenon DEF Payload
<1>6. CASE c.type \in {"null", "undefined"}
  <2>1. /\ TypeTag(c) # "number" /\ c.type \notin {"integer", "double"} /\ c.type \notin {"string", "bigint"}
        /\ c.type # "bool"
    BY <1>6 DEF TypeTag
  <2>2. ConstantBytes(c, index, e) = tag \o <<>>
    BY <1>1, <1>6, <2>1 DEF ConstantBytes
  <2> QED
    BY <1>1, <2>1, <2>2, Zenon DEF Payload
<1> QED
  BY <1>2, <1>3, <1>4, <1>5, <1>6 DEF ConstantTypes

\* Each type of constant is read back.
LEMMA TextPayload ==
    ASSUME NEW c \in BytecodeConstant, c.type \in {"string", "bigint"}, NEW index \in Nat, NEW e, IsDecodable(e),
           NEW sent, NEW place, Holds(sent, place, Payload(c, index, e))
    PROVE  ReadsBack(ReadPayload(sent, place, TypeTag(c), index, e), sent, place, Len(Payload(c, index, e)), c)
<1>1. PICK v \in Seq(Byte), type \in {"string", "bigint"} : v = c.v /\ U32(Len(v) + 2) /\ type = c.type
  BY DEF BytecodeConstant
<1>2. c = Const(type, v)
  BY <1>1 DEF BytecodeConstant, Const
<1>3. /\ TypeTag(c) = type /\ type # "number" /\ type \in {"string", "bigint"}
      /\ Payload(c, index, e) = StringBytes(v, e.key, ConstantDomain, index)
  BY <1>1 DEF TypeTag, Payload
<1>4. PICK w : w = Payload(c, index, e) /\ w = StringBytes(v, e.key, ConstantDomain, index) /\ w \in Seq(Byte)
  BY <1>3 DEF Holds
<1>5. PICK text : text = ReadString(sent, place, e.key, ConstantDomain, index)
  OBVIOUS
<1>6. ReadsBack(text, sent, place, Len(w), v)
  <2>1. e.key \in Nat /\ ConstantDomain \in Nat
    BY DEF IsDecodable, IsEncoding, ConstantDomain
  <2>2. Holds(sent, place, StringBytes(v, e.key, ConstantDomain, index))
    BY <1>4
  <2>3. ReadsBack(text, sent, place, Len(StringBytes(v, e.key, ConstantDomain, index)), v)
    BY <1>1, <1>5, <2>1, <2>2, StringReads
  <2> QED
    BY <1>4, <2>3
<1>7. PICK s : s = ReadPayload(sent, place, TypeTag(c), index, e)
  OBVIOUS
<1>8. s = Got(text.at, Const(type, text.v))
  BY <1>3, <1>5, <1>7, Zenon DEF ReadPayload
<1>9. CASE IsWhole(sent, place, Len(w))
  <2>1. text.at = place + Len(w) /\ text.v = v
    BY <1>6, <1>9 DEF ReadsBack, Got
  <2>2. s = Got(place + Len(w), c)
    BY <1>2, <1>8, <2>1
  <2> QED
    BY <1>4, <1>7, <1>9, <2>2 DEF ReadsBack
<1>10. CASE ~IsWhole(sent, place, Len(w))
  <2>1. text.at = 0
    BY <1>6, <1>10 DEF ReadsBack, At0
  <2>2. s.at = 0
    BY <1>8, <2>1 DEF Got
  <2> QED
    BY <1>4, <1>7, <1>10, <2>2, ReadsNot
<1> QED
  BY <1>9, <1>10

\* A boolean is read back.
LEMMA BoolPayload ==
    ASSUME NEW c \in BytecodeConstant, c.type = "bool", NEW index, NEW e,
           NEW sent, NEW place, Holds(sent, place, Payload(c, index, e))
    PROVE  ReadsBack(ReadPayload(sent, place, TypeTag(c), index, e), sent, place, Len(Payload(c, index, e)), c)
<1>1. c = Bool(TRUE) \/ c = Bool(FALSE)
  BY DEF BytecodeConstant
<1>2. PICK x \in BOOLEAN : c = Bool(x)
  BY <1>1
<1>3. PICK b \in Byte : b = IF x THEN 1 ELSE 0
  BY DEF Byte
<1>4. (b # 0) = x
  BY <1>3
<1>5. c.v = <<b>>
  <2>1. c = Const("bool", <<b>>)
    BY <1>2, <1>3, Zenon DEF Bool
  <2> QED
    BY <2>1 DEF Const
<1>6. TypeTag(c) = "bool" /\ Payload(c, index, e) = c.v
  BY DEF TypeTag, Payload
<1>7. Holds(sent, place, <<b>>) /\ Len(<<b>>) = 1
  BY <1>5, <1>6
<1>8. PICK byte : byte = ReadByte(sent, place)
  OBVIOUS
<1>9. ReadsBack(byte, sent, place, 1, b)
  BY <1>7, <1>8, ByteReads
<1>10. PICK s : s = ReadPayload(sent, place, TypeTag(c), index, e)
  OBVIOUS
<1>11. s = Got(byte.at, Bool(byte.v # 0))
  BY <1>6, <1>8, <1>10 DEF ReadPayload
<1>12. Len(Payload(c, index, e)) = 1
  BY <1>5, <1>6, <1>7
<1>13. CASE IsWhole(sent, place, 1)
  <2>1. byte.at = place + 1 /\ byte.v = b
    BY <1>9, <1>13 DEF ReadsBack, Got
  <2>2. s = Got(place + 1, c)
    BY <1>2, <1>4, <1>11, <2>1
  <2> QED
    BY <1>10, <1>12, <1>13, <2>2 DEF ReadsBack
<1>14. CASE ~IsWhole(sent, place, 1)
  <2>1. byte.at = 0
    BY <1>9, <1>14 DEF ReadsBack, At0
  <2>2. s.at = 0
    BY <1>11, <2>1 DEF Got
  <2> QED
    BY <1>10, <1>12, <1>14, <2>2, ReadsNot
<1> QED
  BY <1>13, <1>14

\* What has no payload is read back from its type alone.
LEMMA OtherPayload ==
    ASSUME NEW c \in BytecodeConstant, c.type \in {"null", "undefined"}, NEW index, NEW e,
           NEW sent, NEW place, Holds(sent, place, Payload(c, index, e)), IsPlace(sent, place)
    PROVE  ReadsBack(ReadPayload(sent, place, TypeTag(c), index, e), sent, place, Len(Payload(c, index, e)), c)
<1>1. PICK type : type = c.type /\ c.v = <<>>
  BY DEF BytecodeConstant
<1>2. c = Const(type, <<>>)
  BY <1>1 DEF BytecodeConstant, Const
<1>3. TypeTag(c) = type /\ type \notin {"number", "string", "bigint", "bool"} /\ Payload(c, index, e) = <<>>
  BY <1>1 DEF TypeTag, Payload
<1>4. Len(Payload(c, index, e)) = 0
  BY <1>3
<1>5. ReadPayload(sent, place, TypeTag(c), index, e) = Got(place, c)
  BY <1>2, <1>3 DEF ReadPayload
<1>6. IsWhole(sent, place, 0) /\ place + 0 = place
  BY DEF IsWhole, IsPlace, Holds
<1> QED
  BY <1>4, <1>5, <1>6 DEF ReadsBack

\* What is behind the type of a constant is bytes.
LEMMA PayloadType ==
    ASSUME NEW c \in BytecodeConstant, NEW index \in Nat, NEW e, IsDecodable(e)
    PROVE  Payload(c, index, e) \in Seq(Byte)
<1>0. PICK v : v = Payload(c, index, e)
  OBVIOUS
<1> SUFFICES v \in Seq(Byte)
  BY <1>0
<1>1. c.type \in ConstantTypes
  BY DEF BytecodeConstant
<1>2. CASE c.type = "integer"
  <2>1. PICK z \in Nat : z = Zigzag(c.v[1])
    BY <1>2, IntegerIs DEF U32
  <2>2. PICK p \in Seq(Byte) : p = Varint[z]
    BY VarintType
  <2>3. PICK zero \in Seq(Byte) : zero = <<0>>
    <3>1. <<0>> \in Seq(Byte)
      BY DEF Byte
    <3> QED
      BY <3>1, Zenon
  <2>4. v = zero \o p
    BY <1>0, <1>2, <2>1, <2>2, <2>3, Zenon DEF Payload, NumberBytes
  <2> QED
    BY <2>4, JoinedBytes
<1>3. CASE c.type = "double"
  <2>1. PICK p \in Seq(Byte) : p = c.v
    BY <1>3 DEF BytecodeConstant
  <2>2. PICK one \in Seq(Byte) : one = <<1>>
    <3>1. <<1>> \in Seq(Byte)
      BY DEF Byte
    <3> QED
      BY <3>1, Zenon
  <2>3. c.type # "integer"
    BY <1>3
  <2>4. v = one \o p
    BY <1>0, <1>3, <2>1, <2>2, <2>3, Zenon DEF Payload, NumberBytes
  <2> QED
    BY <2>4, JoinedBytes
<1>4. CASE c.type \in {"string", "bigint"}
  <2>1. c.v \in Seq(Byte)
    BY <1>4 DEF BytecodeConstant
  <2>2. StringBytes(c.v, e.key, ConstantDomain, index) \in Seq(Byte)
    BY <2>1, StringType DEF IsDecodable, IsEncoding, ConstantDomain
  <2> QED
    BY <1>0, <1>4, <2>2 DEF Payload
<1>5. CASE c.type = "bool"
  <2>1. PICK x \in BOOLEAN : c = Bool(x)
    BY <1>5 DEF BytecodeConstant
  <2>2. PICK d \in Byte : d = IF x THEN 1 ELSE 0
    BY DEF Byte
  <2>3. c = Const("bool", <<d>>)
    BY <2>1, <2>2, Zenon DEF Bool
  <2>4. c.v = <<d>>
    BY <2>3 DEF Const
  <2>5. v = c.v
    BY <1>0, <1>5 DEF Payload
  <2> QED
    BY <2>4, <2>5, OneByte
<1>6. CASE c.type \in {"null", "undefined"}
  <2>1. v = <<>>
    BY <1>0, <1>6 DEF Payload
  <2> QED
    BY <2>1
<1> QED
  BY <1>1, <1>2, <1>3, <1>4, <1>5, <1>6 DEF ConstantTypes

\* A constant is read back: its type from the code that the encoding has for it, and what
\* follows it, a number as an integer or as eight bytes (read_constant, read_number).
THEOREM ConstantReads ==
    ASSUME NEW c \in BytecodeConstant, NEW index \in Nat, NEW e, IsDecodable(e),
           NEW sent, NEW place, Holds(sent, place, ConstantBytes(c, index, e))
    PROVE  ReadsBack(ReadConstant(sent, place, index, e), sent, place, Len(ConstantBytes(c, index, e)), c)
<1>1. PICK type \in Range(ConstantTags) : type = TypeTag(c)
  BY TypeTagType
<1>2. type \in DOMAIN e.types /\ IsInjective(e.types) /\ e.types[type] \in Byte
  BY DEF IsDecodable, IsEncoding
<1>3. PICK b \in Byte : b = e.types[type]
  BY <1>2
<1>4. PICK v : v = Payload(c, index, e)
  OBVIOUS
<1>5. PICK w : w = ConstantBytes(c, index, e) /\ w = <<b>> \o v
  BY <1>1, <1>3, <1>4, PayloadIs
<1>6. v \in Seq(Byte)
  BY <1>4, PayloadType
<1>7. PICK tag : tag = ReadByte(sent, place)
  OBVIOUS
<1>8. GoesOn(tag, sent, place, b, v, Len(w))
  BY <1>5, <1>6, <1>7, ByteThen
<1>0. PICK types : types = {t \in DOMAIN e.types : e.types[t] = tag.v}
  OBVIOUS
<1>10. PICK s : s = ReadConstant(sent, place, index, e)
  OBVIOUS
<1>11. tag.at = 0 => s.at = 0
  <2>1. ASSUME tag.at = 0 PROVE s = Failed
    BY <1>7, <1>10, <2>1 DEF ReadConstant, At0
  <2> QED
    BY <2>1 DEF Failed, At0
<1>12. ASSUME tag.at # 0 PROVE ReadsBack(s, sent, tag.at, Len(v), c)
  <2>1. tag.v = b /\ Holds(sent, tag.at, v) /\ tag.at \in Nat \ {0}
    BY <1>8, <1>12 DEF GoesOn
  <2>2. types # {} /\ type = CHOOSE t \in types : TRUE
    <3>1. types = {t \in DOMAIN e.types : e.types[t] = e.types[type]}
      BY <1>3, <1>0, <2>1
    <3> QED
      BY <1>2, <3>1, CodeRestores
  <2>3. s = ReadPayload(sent, tag.at, type, index, e)
    <3>1. CASE type = "number"
      BY <1>7, <1>0, <1>10, <1>12, <2>2, <3>1 DEF ReadConstant, ReadPayload, At0
    <3>2. CASE type \in {"string", "bigint"}
      <4>1. PICK text : text = ReadString(sent, tag.at, e.key, ConstantDomain, index)
        OBVIOUS
      <4>2. ~(tag.at = At0 \/ types = {}) /\ type # "number"
        BY <1>12, <2>2, <3>2 DEF At0
      <4>3. s = Got(text.at, Const(type, text.v))
        BY <1>7, <1>0, <1>10, <2>2, <3>2, <4>1, <4>2 DEF ReadConstant
      <4>4. ReadPayload(sent, tag.at, type, index, e) = Got(text.at, Const(type, text.v))
        BY <3>2, <4>1, <4>2, Zenon DEF ReadPayload
      <4> QED
        BY <4>3, <4>4
    <3>3. CASE type = "bool"
      BY <1>7, <1>0, <1>10, <1>12, <2>2, <3>3 DEF ReadConstant, ReadPayload, At0
    <3>4. CASE type \notin {"number", "string", "bigint", "bool"}
      BY <1>7, <1>0, <1>10, <1>12, <2>2, <3>4 DEF ReadConstant, ReadPayload, At0
    <3> QED
      BY <3>1, <3>2, <3>3, <3>4
  <2>4. IsPlace(sent, tag.at)
    <3>1. sent \in Seq(Byte) /\ place \in Nat
      BY DEF Holds
    <3> QED
      BY <1>7, <3>1, ReadBytePlace
  <2>5. Holds(sent, tag.at, Payload(c, index, e))
    BY <1>4, <2>1
  <2>6. ReadsBack(ReadPayload(sent, tag.at, TypeTag(c), index, e), sent, tag.at, Len(Payload(c, index, e)), c)
    <3>1. c.type \in ConstantTypes
      BY DEF BytecodeConstant
    <3>2. CASE c.type \in {"integer", "double"}
      <4>1. /\ Payload(c, index, e) = NumberBytes(c)
            /\ ReadPayload(sent, tag.at, TypeTag(c), index, e) = ReadNumber(sent, tag.at)
        BY <3>2 DEF Payload, ReadPayload, TypeTag
      <4>2. Holds(sent, tag.at, NumberBytes(c))
        BY <2>5, <4>1
      <4>3. ReadsBack(ReadNumber(sent, tag.at), sent, tag.at, Len(NumberBytes(c)), c)
        BY <3>2, <4>2, IntegerReads, DoubleReads
      <4> QED
        BY <4>1, <4>3
    <3>3. CASE c.type \in {"string", "bigint"}
      BY <2>5, <3>3, TextPayload
    <3>4. CASE c.type = "bool"
      BY <2>5, <3>4, BoolPayload
    <3>5. CASE c.type \in {"null", "undefined"}
      BY <2>4, <2>5, <3>5, OtherPayload
    <3> QED
      BY <3>1, <3>2, <3>3, <3>4, <3>5 DEF ConstantTypes
  <2> QED
    BY <1>1, <1>4, <2>3, <2>6
<1>13. ReadsBack(s, sent, place, Len(w), c)
  BY <1>8, <1>11, <1>12, GoesOnEnd
<1> QED
  BY <1>5, <1>10, <1>13

-----------------------------------------------------------------------------
(* The sections of a module.                                               *)

\* The items of a section as bytes.
Entries(m, e, section) ==
    IF section = "names"
    THEN [i \in DOMAIN m.names |-> StringBytes(m.names[i], e.key, NameDomain, i - 1)]
    ELSE IF section = "functions"
    THEN [i \in DOMAIN m.functions |-> FunctionBytes(m.functions[i], e)]
    ELSE IF section = "constants"
    THEN [i \in DOMAIN m.constants |-> ConstantBytes(m.constants[i], i - 1, e)]
    ELSE CodeBytes(m, e)

\* So many items, each of a byte at least.
Listable(items, n) ==
    /\ items \in Seq(Seq(Byte)) /\ Len(items) = n /\ n \in Nat /\ U32(n)
    /\ \A k \in 1..n : Len(items[k]) # 0

\* What something is added to is not empty, nor is what is added to something.
LEMMA SomeBytes ==
    ASSUME NEW u \in Seq(Byte), NEW v \in Seq(Byte), Len(u) # 0 \/ Len(v) # 0
    PROVE  u \o v \in Seq(Byte) /\ Len(u \o v) # 0
<1>1. Len(u \o v) = Len(u) + Len(v) /\ Len(u) \in Nat /\ Len(v) \in Nat
  BY ConcatProperties
<1>2. u \o v \in Seq(Byte)
  BY JoinedBytes
<1> QED
  BY <1>1, <1>2

\* A string has some byte.
LEMMA StringSome ==
    ASSUME NEW text \in Seq(Byte), U32(Len(text) + 2),
           NEW key \in Nat, NEW domain \in Nat, NEW index \in Nat
    PROVE  Len(StringBytes(text, key, domain, index)) # 0
<1>1. PICK w \in Seq(Byte) : w = StringBytes(text, key, domain, index)
  BY StringType
<1>2. Holds(w, 1, w)
  BY DEF Holds
<1>3. PICK r : r = ReadString(w, 1, key, domain, index)
  OBVIOUS
<1>4. ReadsBack(r, w, 1, Len(w), text)
  BY <1>1, <1>2, <1>3, StringReads
<1>5. r \in Texts(w, 1)
  BY <1>3, ReadStringType
<1>6. r.at # 0 => r.at > 1
  BY <1>5 DEF Texts
<1>7. r.at # 0 /\ r.at = 1 + Len(w)
  BY <1>4 DEF ReadsBack, IsWhole, Got
<1> QED
  BY <1>1, <1>6, <1>7

\* A function has some byte.
LEMMA FunctionSome ==
    ASSUME NEW f \in BytecodeFunction, NEW e, IsDecodable(e)
    PROVE  FunctionBytes(f, e) \in Seq(Byte) /\ Len(FunctionBytes(f, e)) # 0
<1>1. PICK w1, w2, w3, w4, w5, w6, rest : FunctionUpto(f, e, w1, w2, w3, w4, w5, w6, rest)
  BY FunctionPieces
<1>2. PICK b \in Byte : b = IF f.returns THEN 1 ELSE 0
  BY DEF Byte
<1>3. PICK last \in Seq(Byte) : last = <<b>> /\ Len(last) # 0
  <2>1. <<b>> \in Seq(Byte) /\ Len(<<b>>) # 0
    BY OneByte
  <2> QED
    BY <2>1, Zenon
<1>4. w6 = w5 \o last /\ w5 \in Seq(Byte)
  BY <1>1, <1>2, <1>3, Zenon DEF FunctionUpto
<1>5. w6 \in Seq(Byte) /\ Len(w6) # 0
  BY <1>3, <1>4, SomeBytes
<1>6. rest \in Seq(Byte) /\ FunctionBytes(f, e) = w6 \o rest
  BY <1>1, Zenon DEF FunctionUpto
<1> QED
  BY <1>5, <1>6, SomeBytes

\* A constant has some byte.
LEMMA ConstantSome ==
    ASSUME NEW c \in BytecodeConstant, NEW index \in Nat, NEW e, IsDecodable(e)
    PROVE  ConstantBytes(c, index, e) \in Seq(Byte) /\ Len(ConstantBytes(c, index, e)) # 0
<1>1. PICK type \in Range(ConstantTags) : type = TypeTag(c)
  BY TypeTagType
<1>2. e.types[type] \in Byte
  BY DEF IsDecodable, IsEncoding
<1>3. PICK b \in Byte : b = e.types[type]
  BY <1>2
<1>4. PICK v \in Seq(Byte) : v = Payload(c, index, e)
  BY PayloadType
<1>5. PICK first \in Seq(Byte) : first = <<b>> /\ Len(first) # 0
  <2>1. <<b>> \in Seq(Byte) /\ Len(<<b>>) # 0
    BY OneByte
  <2> QED
    BY <2>1, Zenon
<1>6. ConstantBytes(c, index, e) = first \o v
  BY <1>1, <1>3, <1>4, <1>5, PayloadIs, Zenon
<1> QED
  BY <1>5, <1>6, SomeBytes

\* The items of each section are bytes, as many as the module has.
LEMMA NamesListable ==
    ASSUME NEW m \in BytecodeModule, NEW e, IsDecodable(e)
    PROVE  Listable(Entries(m, e, "names"), Len(m.names))
<1>1. PICK names \in Seq(Seq(Byte)) :
        names = m.names /\ U32(Len(names)) /\ \A i \in DOMAIN names : U32(Len(names[i]) + 2)
  BY DEF BytecodeModule
<1>2. PICK n \in Nat : n = Len(names) /\ DOMAIN names = 1..n
  OBVIOUS
<1> DEFINE s == [i \in DOMAIN names |-> StringBytes(names[i], e.key, NameDomain, i - 1)]
<1>3. ASSUME NEW i \in 1..n
      PROVE  s[i] \in Seq(Byte) /\ Len(s[i]) # 0
  <2>1. i - 1 \in Nat /\ names[i] \in Seq(Byte) /\ U32(Len(names[i]) + 2)
    BY <1>1, <1>2
  <2>2. NameDomain \in Nat /\ e.key \in Nat
    BY DEF NameDomain, IsDecodable, IsEncoding
  <2>3. s[i] = StringBytes(names[i], e.key, NameDomain, i - 1)
    BY <1>2
  <2> HIDE DEF s
  <2> QED
    BY <2>1, <2>2, <2>3, StringType, StringSome
<1>4. Entries(m, e, "names") = s
  BY <1>1, Zenon DEF Entries
<1>5. DOMAIN s = 1..n /\ s = [i \in 1..n |-> s[i]]
  BY <1>2
<1> HIDE DEF s
<1>6. s \in [1..n -> Seq(Byte)]
  BY <1>3, <1>5
<1>7. s \in Seq(Seq(Byte)) /\ Len(s) = n
  BY <1>6
<1> QED
  BY <1>1, <1>2, <1>3, <1>4, <1>7 DEF Listable

\* The functions can be listed.
LEMMA FunctionsListable ==
    ASSUME NEW m \in BytecodeModule, NEW e, IsDecodable(e)
    PROVE  Listable(Entries(m, e, "functions"), Len(m.functions))
<1>1. PICK fs \in Seq(BytecodeFunction) : fs = m.functions /\ U32(Len(fs))
  BY DEF BytecodeModule
<1>2. PICK n \in Nat : n = Len(fs) /\ DOMAIN fs = 1..n
  OBVIOUS
<1> DEFINE s == [i \in DOMAIN fs |-> FunctionBytes(fs[i], e)]
<1>3. ASSUME NEW i \in 1..n
      PROVE  s[i] \in Seq(Byte) /\ Len(s[i]) # 0
  <2>1. fs[i] \in BytecodeFunction
    BY <1>2
  <2>2. s[i] = FunctionBytes(fs[i], e)
    BY <1>2
  <2> HIDE DEF s
  <2> QED
    BY <2>1, <2>2, FunctionSome
<1>4. Entries(m, e, "functions") = s
  <2>1. "functions" # "names"
    OBVIOUS
  <2> QED
    BY <1>1, <2>1, Zenon DEF Entries
<1>5. DOMAIN s = 1..n /\ s = [i \in 1..n |-> s[i]]
  BY <1>2
<1> HIDE DEF s
<1>6. s \in [1..n -> Seq(Byte)]
  BY <1>3, <1>5
<1>7. s \in Seq(Seq(Byte)) /\ Len(s) = n
  BY <1>6
<1> QED
  BY <1>1, <1>2, <1>3, <1>4, <1>7 DEF Listable

\* The constants can be listed.
LEMMA ConstantsListable ==
    ASSUME NEW m \in BytecodeModule, NEW e, IsDecodable(e)
    PROVE  Listable(Entries(m, e, "constants"), Len(m.constants))
<1>1. PICK cs \in Seq(BytecodeConstant) : cs = m.constants /\ U32(Len(cs))
  BY DEF BytecodeModule
<1>2. PICK n \in Nat : n = Len(cs) /\ DOMAIN cs = 1..n
  OBVIOUS
<1> DEFINE s == [i \in DOMAIN cs |-> ConstantBytes(cs[i], i - 1, e)]
<1>3. ASSUME NEW i \in 1..n
      PROVE  s[i] \in Seq(Byte) /\ Len(s[i]) # 0
  <2>1. cs[i] \in BytecodeConstant /\ i - 1 \in Nat
    BY <1>2
  <2>2. s[i] = ConstantBytes(cs[i], i - 1, e)
    BY <1>2
  <2> HIDE DEF s
  <2> QED
    BY <2>1, <2>2, ConstantSome
<1>4. Entries(m, e, "constants") = s
  <2>1. "constants" # "names" /\ "constants" # "functions"
    OBVIOUS
  <2> QED
    BY <1>1, <2>1, Zenon DEF Entries
<1>5. DOMAIN s = 1..n /\ s = [i \in 1..n |-> s[i]]
  BY <1>2
<1> HIDE DEF s
<1>6. s \in [1..n -> Seq(Byte)]
  BY <1>3, <1>5
<1>7. s \in Seq(Seq(Byte)) /\ Len(s) = n
  BY <1>6
<1> QED
  BY <1>1, <1>2, <1>3, <1>4, <1>7 DEF Listable

\* The instructions can be listed if they can be written.
LEMMA CodeListable ==
    ASSUME NEW m \in BytecodeModule, NEW e, IsDecodable(e), IsWritable(m, e)
    PROVE  Listable(Entries(m, e, "code"), Len(m.code))
<1>1. PICK n \in Nat : n = Len(m.code) /\ DOMAIN m.code = 1..n /\ U32(n)
  BY DEF BytecodeModule
<1>2. IsEncoding(e)
  BY DEF IsDecodable
<1>3. PICK s \in Seq(Seq(Byte)) : s = CodeBytes(m, e) /\ Len(s) = n
  BY <1>1, <1>2, CodeType
<1>4. Entries(m, e, "code") = s
  <2>1. "code" # "names" /\ "code" # "functions" /\ "code" # "constants"
    OBVIOUS
  <2> QED
    BY <1>3, <2>1, Zenon DEF Entries
<1>5. ASSUME NEW k \in 1..n PROVE Len(s[k]) # 0
  <2>1. Sizes(s)[k] = 1 + Total(ProfileInstruction(m.code[k], m.constants, e))
        /\ ProfileInstruction(m.code[k], m.constants, e) \in Seq(Nat)
    BY <1>1, <1>2, <1>3, CodeType
  <2>2. Total(ProfileInstruction(m.code[k], m.constants, e)) \in Nat
    BY <2>1, TotalType
  <2>3. Sizes(s)[k] = Len(s[k])
    BY <1>3, SizesType
  <2> QED
    BY <2>1, <2>2, <2>3
<1> QED
  BY <1>1, <1>3, <1>4, <1>5 DEF Listable

\* What there is of a module before each of its sections.
HeadOf(m) == (Magic \o <<m.kind>>) \o Varint[m.externs]
BeforeFunctions(m, e) == HeadOf(m) \o Listed(Entries(m, e, "names"))
BeforeConstants(m, e) == BeforeFunctions(m, e) \o Listed(Entries(m, e, "functions"))
BeforeCode(m, e) == BeforeConstants(m, e) \o Listed(Entries(m, e, "constants"))
Before(m, e, section) ==
    IF section = "names" THEN HeadOf(m)
    ELSE IF section = "functions" THEN BeforeFunctions(m, e)
    ELSE IF section = "constants" THEN BeforeConstants(m, e)
    ELSE BeforeCode(m, e)
Start(m, e, section) == 1 + Len(Before(m, e, section))

IsSix(n) == n = 6

\* Six sequences are joined.
LEMMA FlattenSix ==
    ASSUME NEW seqs, IsSix(Len(seqs))
    PROVE  FlattenSeq(seqs) = ((((seqs[1] \o seqs[2]) \o seqs[3]) \o seqs[4]) \o seqs[5]) \o seqs[6]
<1>1. PICK n \in Nat : n = Len(seqs) /\ n # 0
  BY DEF IsSix
<1>3. PICK f : /\ FlattenSeq(seqs) = f[n]
               /\ f[1] = seqs[1]
               /\ \A k \in 2..n : f[k] = f[k - 1] \o seqs[k]
  BY <1>1, FlattenStep
<1>4. n = 6
  BY <1>1 DEF IsSix
<1>5. /\ 2 \in 2..n /\ 3 \in 2..n /\ 4 \in 2..n /\ 5 \in 2..n /\ 6 \in 2..n
      /\ 2 - 1 = 1 /\ 3 - 1 = 2 /\ 4 - 1 = 3 /\ 5 - 1 = 4 /\ 6 - 1 = 5
  BY <1>4
<1>6. f[2] = f[1] \o seqs[2]
  BY <1>3, <1>5, Zenon
<1>7. f[3] = f[2] \o seqs[3]
  BY <1>3, <1>5, Zenon
<1>8. f[4] = f[3] \o seqs[4]
  BY <1>3, <1>5, Zenon
<1>9. f[5] = f[4] \o seqs[5]
  BY <1>3, <1>5, Zenon
<1>10. f[6] = f[5] \o seqs[6]
  BY <1>3, <1>5, Zenon
<1>11. FlattenSeq(seqs) = f[6]
  BY <1>3, <1>4, Zenon
<1> QED
  <2>1. f[1] = seqs[1]
    BY <1>3, Zenon
  <2>2. f[3] = (seqs[1] \o seqs[2]) \o seqs[3]
    BY <1>6, <1>7, <2>1, Zenon
  <2>3. f[5] = (((seqs[1] \o seqs[2]) \o seqs[3]) \o seqs[4]) \o seqs[5]
    BY <1>8, <1>9, <2>2, Zenon
  <2> QED
    BY <1>10, <1>11, <2>3, Zenon

\* A module is what is before its instructions, and they.
LEMMA ModuleIs ==
    ASSUME NEW m, NEW e
    PROVE  /\ FlattenSeq(HeadBytes(m, e)) = BeforeCode(m, e)
           /\ ModuleBytes(m, e) = BeforeCode(m, e) \o Listed(Entries(m, e, "code"))
<1>1. /\ "functions" # "names" /\ "constants" # "names" /\ "constants" # "functions"
      /\ "code" # "names" /\ "code" # "functions" /\ "code" # "constants"
  OBVIOUS
<1>2. Entries(m, e, "names") = [i \in DOMAIN m.names |-> StringBytes(m.names[i], e.key, NameDomain, i - 1)]
  BY Zenon DEF Entries
<1>3. Entries(m, e, "functions") = [i \in DOMAIN m.functions |-> FunctionBytes(m.functions[i], e)]
  BY <1>1, Zenon DEF Entries
<1>4. Entries(m, e, "constants") = [i \in DOMAIN m.constants |-> ConstantBytes(m.constants[i], i - 1, e)]
  BY <1>1, Zenon DEF Entries
<1>5. Entries(m, e, "code") = CodeBytes(m, e)
  BY <1>1, Zenon DEF Entries
<1>6. HeadBytes(m, e) = <<Magic, <<m.kind>>, Varint[m.externs], Listed(Entries(m, e, "names")),
                          Listed(Entries(m, e, "functions")), Listed(Entries(m, e, "constants"))>>
  BY <1>2, <1>3, <1>4, Zenon DEF HeadBytes
<1>7. FlattenSeq(HeadBytes(m, e)) =
        ((((Magic \o <<m.kind>>) \o Varint[m.externs]) \o Listed(Entries(m, e, "names")))
            \o Listed(Entries(m, e, "functions"))) \o Listed(Entries(m, e, "constants"))
  <2>1. PICK p1, p2, p3, p4, p5, p6 :
            /\ p1 = Magic /\ p2 = <<m.kind>> /\ p3 = Varint[m.externs] /\ p4 = Listed(Entries(m, e, "names"))
            /\ p5 = Listed(Entries(m, e, "functions")) /\ p6 = Listed(Entries(m, e, "constants"))
    OBVIOUS
  <2>2. PICK seqs : seqs = HeadBytes(m, e)
    OBVIOUS
  <2>3. seqs = <<p1, p2, p3, p4, p5, p6>>
    BY <1>6, <2>1, <2>2, Zenon
  <2>5. /\ IsSix(Len(seqs)) /\ seqs[1] = p1 /\ seqs[2] = p2 /\ seqs[3] = p3 /\ seqs[4] = p4
        /\ seqs[5] = p5 /\ seqs[6] = p6
    BY <2>3 DEF IsSix
  <2>6. FlattenSeq(seqs) = ((((seqs[1] \o seqs[2]) \o seqs[3]) \o seqs[4]) \o seqs[5]) \o seqs[6]
    BY <2>5, FlattenSix
  <2> QED
    BY <2>1, <2>2, <2>5, <2>6, Zenon
<1>8. FlattenSeq(HeadBytes(m, e)) = BeforeCode(m, e)
  BY <1>7, Zenon DEF BeforeCode, BeforeConstants, BeforeFunctions, HeadOf
<1> QED
  BY <1>5, <1>8, Zenon DEF ModuleBytes

\* The head is bytes.
LEMMA HeadBytesType ==
    ASSUME NEW m \in BytecodeModule
    PROVE  /\ Magic \in Seq(Byte) /\ m.kind \in Byte /\ m.externs \in Nat /\ U32(m.externs)
           /\ Magic \o <<m.kind>> \in Seq(Byte) /\ HeadOf(m) \in Seq(Byte)
<1>1. m.kind \in {0, 1} /\ m.externs \in Nat /\ U32(m.externs)
  BY DEF BytecodeModule
<1>2. PICK p1 \in Seq(Byte) : p1 = Magic
  <2>1. <<74, 83>> \in Seq(Byte)
    BY DEF Byte
  <2> QED
    BY <2>1, Zenon DEF Magic
<1>3. m.kind \in Byte
  BY <1>1 DEF Byte
<1>4. PICK p2 \in Seq(Byte) : p2 = <<m.kind>>
  BY <1>3, OneByte
<1>5. PICK p3 \in Seq(Byte) : p3 = Varint[m.externs]
  BY <1>1, VarintType
<1>6. p1 \o p2 \in Seq(Byte)
  BY JoinedBytes
<1>7. (p1 \o p2) \o p3 \in Seq(Byte)
  BY <1>6, JoinedBytes
<1> QED
  BY <1>1, <1>2, <1>3, <1>4, <1>5, <1>6, <1>7, Zenon DEF HeadOf

\* Where a section is in the bytes of a module.
Framed(sent, m, e, section) ==
    /\ Start(m, e, section) \in Nat \ {0}
    /\ Listable(Entries(m, e, section), Len(m[section]))
    /\ Holds(sent, Start(m, e, section), Listed(Entries(m, e, section)))
    /\ IsWhole(sent, 1, Len(ModuleBytes(m, e)))
            => IsWhole(sent, Start(m, e, section), Len(Listed(Entries(m, e, section))))
Behind(m, e, section) == Start(m, e, section) + Len(Listed(Entries(m, e, section)))

\* A list is bytes.
LEMMA ListableType ==
    ASSUME NEW items, NEW n, Listable(items, n)
    PROVE  Listed(items) \in Seq(Byte)
<1>1. items \in Seq(Seq(Byte))
  BY DEF Listable
<1> QED
  BY <1>1, ListedType

\* One section behind others.
IsBefore(sent, u, v, w, length) ==
    /\ Holds(sent, 1, u) /\ Holds(sent, 1 + Len(u), v) /\ 1 + Len(u) \in Nat \ {0}
    /\ Len(w) = Len(u) + Len(v) /\ Len(u) <= length /\ Len(v) \in Nat
    /\ IsWhole(sent, 1, length) => IsWhole(sent, 1 + Len(u), Len(v))

\* What is before a section and the section are there.
LEMMA FramedOne ==
    ASSUME NEW sent, NEW u \in Seq(Byte), NEW v \in Seq(Byte), NEW w, w = u \o v,
           Holds(sent, 1, w), NEW length \in Nat, Len(w) <= length
    PROVE  IsBefore(sent, u, v, w, length)
<1>1. /\ Holds(sent, 1, u) /\ Holds(sent, 1 + Len(u), v)
      /\ Len(w) = Len(u) + Len(v) /\ Len(u) \in Nat /\ Len(v) \in Nat
  BY HoldsBoth
<1>2. Len(sent) \in Nat
  BY DEF Holds
<1> QED
  BY <1>1, <1>2 DEF IsBefore, IsWhole

\* Each section is where it begins, and the next is behind it.
LEMMA SectionsFramed ==
    ASSUME NEW m \in BytecodeModule, NEW e, IsDecodable(e), IsWritable(m, e),
           NEW sent, Holds(sent, 1, ModuleBytes(m, e))
    PROVE  /\ Holds(sent, 1, HeadOf(m))
           /\ IsWhole(sent, 1, Len(ModuleBytes(m, e))) => IsWhole(sent, 1, Len(HeadOf(m)))
           /\ \A section \in Reading : Framed(sent, m, e, section)
           /\ Start(m, e, "functions") = Behind(m, e, "names")
           /\ Start(m, e, "constants") = Behind(m, e, "functions")
           /\ Start(m, e, "code") = Behind(m, e, "constants")
           /\ 1 + Len(ModuleBytes(m, e)) = Behind(m, e, "code")
<1>1. PICK b1 \in Seq(Byte) : b1 = HeadOf(m)
  BY HeadBytesType
<1>2. PICK l1 \in Seq(Byte) : l1 = Listed(Entries(m, e, "names")) /\ Listable(Entries(m, e, "names"), Len(m.names))
  BY NamesListable, ListableType
<1>3. PICK l2 \in Seq(Byte) : l2 = Listed(Entries(m, e, "functions"))
                              /\ Listable(Entries(m, e, "functions"), Len(m.functions))
  BY FunctionsListable, ListableType
<1>4. PICK l3 \in Seq(Byte) : l3 = Listed(Entries(m, e, "constants"))
                              /\ Listable(Entries(m, e, "constants"), Len(m.constants))
  BY ConstantsListable, ListableType
<1>5. PICK l4 \in Seq(Byte) : l4 = Listed(Entries(m, e, "code")) /\ Listable(Entries(m, e, "code"), Len(m.code))
  BY CodeListable, ListableType
<1>6. PICK b2 \in Seq(Byte) : b2 = b1 \o l1
  BY JoinedBytes
<1>7. PICK b3 \in Seq(Byte) : b3 = b2 \o l2
  BY JoinedBytes
<1>8. PICK b4 \in Seq(Byte) : b4 = b3 \o l3
  BY JoinedBytes
<1>9. PICK b5 \in Seq(Byte) : b5 = b4 \o l4
  BY JoinedBytes
<1>10. b5 = ModuleBytes(m, e) /\ Holds(sent, 1, b5)
  BY <1>1, <1>2, <1>3, <1>4, <1>5, <1>6, <1>7, <1>8, <1>9, ModuleIs, Zenon
        DEF BeforeCode, BeforeConstants, BeforeFunctions
<1>11. PICK length \in Nat : length = Len(b5) /\ Len(b5) <= length
  OBVIOUS
<1>12. /\ Holds(sent, 1, b4) /\ Holds(sent, 1 + Len(b4), l4) /\ 1 + Len(b4) \in Nat \ {0}
       /\ Len(b5) = Len(b4) + Len(l4) /\ Len(b4) <= length /\ Len(l4) \in Nat
       /\ IsWhole(sent, 1, length) => IsWhole(sent, 1 + Len(b4), Len(l4))
  <2>1. IsBefore(sent, b4, l4, b5, length)
    BY <1>9, <1>10, <1>11, FramedOne
  <2> QED
    BY <2>1, Zenon DEF IsBefore
<1>13. /\ Holds(sent, 1, b3) /\ Holds(sent, 1 + Len(b3), l3) /\ 1 + Len(b3) \in Nat \ {0}
       /\ Len(b4) = Len(b3) + Len(l3) /\ Len(b3) <= length /\ Len(l3) \in Nat
       /\ IsWhole(sent, 1, length) => IsWhole(sent, 1 + Len(b3), Len(l3))
  <2>1. IsBefore(sent, b3, l3, b4, length)
    BY <1>8, <1>12, FramedOne
  <2> QED
    BY <2>1, Zenon DEF IsBefore
<1>14. /\ Holds(sent, 1, b2) /\ Holds(sent, 1 + Len(b2), l2) /\ 1 + Len(b2) \in Nat \ {0}
       /\ Len(b3) = Len(b2) + Len(l2) /\ Len(b2) <= length /\ Len(l2) \in Nat
       /\ IsWhole(sent, 1, length) => IsWhole(sent, 1 + Len(b2), Len(l2))
  <2>1. IsBefore(sent, b2, l2, b3, length)
    BY <1>7, <1>13, FramedOne
  <2> QED
    BY <2>1, Zenon DEF IsBefore
<1>15. /\ Holds(sent, 1, b1) /\ Holds(sent, 1 + Len(b1), l1) /\ 1 + Len(b1) \in Nat \ {0}
       /\ Len(b2) = Len(b1) + Len(l1) /\ Len(b1) <= length /\ Len(l1) \in Nat
       /\ IsWhole(sent, 1, length) => IsWhole(sent, 1 + Len(b1), Len(l1))
  <2>1. IsBefore(sent, b1, l1, b2, length)
    BY <1>6, <1>14, FramedOne
  <2> QED
    BY <2>1, Zenon DEF IsBefore
<1>16. /\ "functions" # "names" /\ "constants" # "names" /\ "constants" # "functions"
       /\ "code" # "names" /\ "code" # "functions" /\ "code" # "constants"
  OBVIOUS
<1>17. /\ Before(m, e, "names") = b1 /\ Before(m, e, "functions") = b2
       /\ Before(m, e, "constants") = b3 /\ Before(m, e, "code") = b4
  BY <1>1, <1>2, <1>3, <1>4, <1>6, <1>7, <1>8, <1>16, Zenon
        DEF Before, BeforeCode, BeforeConstants, BeforeFunctions
<1>18. /\ Start(m, e, "names") = 1 + Len(b1) /\ Start(m, e, "functions") = 1 + Len(b2)
       /\ Start(m, e, "constants") = 1 + Len(b3) /\ Start(m, e, "code") = 1 + Len(b4)
  BY <1>17, Zenon DEF Start
<1>19. Framed(sent, m, e, "names")
  BY <1>2, <1>10, <1>11, <1>15, <1>18, Zenon DEF Framed
<1>20. Framed(sent, m, e, "functions")
  BY <1>3, <1>10, <1>11, <1>14, <1>18, Zenon DEF Framed
<1>21. Framed(sent, m, e, "constants")
  BY <1>4, <1>10, <1>11, <1>13, <1>18, Zenon DEF Framed
<1>22. Framed(sent, m, e, "code")
  BY <1>5, <1>10, <1>11, <1>12, <1>18, Zenon DEF Framed
<1>23. \A section \in Reading : Framed(sent, m, e, section)
  BY <1>19, <1>20, <1>21, <1>22 DEF Reading
<1>24. IsWhole(sent, 1, length) => IsWhole(sent, 1, Len(b1))
  <2>1. Len(sent) \in Nat /\ Len(b1) \in Nat
    BY <1>15 DEF Holds
  <2> QED
    BY <1>15, <2>1 DEF IsWhole
<1>25. 1 + Len(b2) = (1 + Len(b1)) + Len(l1) /\ 1 + Len(b3) = (1 + Len(b2)) + Len(l2)
       /\ 1 + Len(b4) = (1 + Len(b3)) + Len(l3) /\ 1 + Len(b5) = (1 + Len(b4)) + Len(l4)
  BY <1>12, <1>13, <1>14, <1>15
<1>26. /\ Start(m, e, "functions") = Behind(m, e, "names")
       /\ Start(m, e, "constants") = Behind(m, e, "functions")
       /\ Start(m, e, "code") = Behind(m, e, "constants")
       /\ 1 + Len(ModuleBytes(m, e)) = Behind(m, e, "code")
  BY <1>2, <1>3, <1>4, <1>5, <1>10, <1>18, <1>25, Zenon DEF Behind
<1> QED
  BY <1>1, <1>10, <1>11, <1>15, <1>23, <1>24, <1>26, Zenon

\* The head is read back if there are not too many external slots.
HeadBack(h, m, sent) ==
    IF h.at = 0 THEN ~IsWhole(sent, 1, Len(HeadOf(m))) \/ ~(m.externs <= MaxExterns)
    ELSE /\ h.at = 1 + Len(HeadOf(m)) /\ m.externs <= MaxExterns
         /\ h.v.kind = m.kind /\ h.v.externs = m.externs

\* The head is read back.
LEMMA HeadReads ==
    ASSUME NEW m \in BytecodeModule, NEW sent, Holds(sent, 1, HeadOf(m))
    PROVE  HeadBack(ReadHead(sent), m, sent)
<1>1. PICK magic, kind, externs : /\ magic = ReadBytes(sent, 1, Len(Magic))
                                  /\ kind = ReadByte(sent, magic.at)
                                  /\ externs = ReadVarint(sent, kind.at)
  OBVIOUS
<1>2. PICK w1 \in Seq(Byte) : w1 = Magic
  BY HeadBytesType
<1>3. PICK b \in Byte : b = m.kind
  BY HeadBytesType
<1>4. PICK w2 \in Seq(Byte) : w2 = w1 \o <<b>>
  <2>1. Magic \o <<m.kind>> \in Seq(Byte)
    BY HeadBytesType
  <2> QED
    BY <1>2, <1>3, <2>1, Zenon
<1>5. PICK n \in Nat : n = m.externs /\ U32(n)
  BY HeadBytesType
<1>6. PICK v \in Seq(Byte) : v = Varint[n]
  BY VarintType
<1>7. PICK w \in Seq(Byte) : w = w2 \o v /\ w = HeadOf(m)
  <2>1. HeadOf(m) = w2 \o v
    BY <1>2, <1>3, <1>4, <1>5, <1>6, Zenon DEF HeadOf
  <2> QED
    BY <2>1, HeadBytesType
<1>8. PICK total \in Nat : total = Len(w)
  OBVIOUS
<1>9. HoldsIn(sent, 1, w, total)
  BY <1>7, <1>8 DEF HoldsIn
<1>10. HoldsIn(sent, 1, w2, total)
  BY <1>7, <1>9, HeldBefore
<1>11. HoldsIn(sent, 1, w1, total)
  <2>1. <<b>> \in Seq(Byte)
    BY OneByte
  <2> QED
    BY <1>4, <1>10, <2>1, HeldBefore
<1>12. sent \in Seq(Byte)
  BY <1>9 DEF HoldsIn, Holds
<1>13. Reached(magic, sent, 1, w1, w1, total)
  <2>1. Holds(sent, 1, w1) /\ Len(w1) <= total
    BY <1>11 DEF HoldsIn
  <2>2. PICK l \in Nat : l = Len(w1)
    OBVIOUS
  <2>3. ReadsBack(magic, sent, 1, l, w1)
    BY <1>1, <1>2, <2>1, <2>2, BytesRead
  <2>4. CASE magic.at = 0
    <3>1. ~IsWhole(sent, 1, l)
      BY <2>3, <2>4 DEF ReadsBack, Got
    <3>2. ~IsWhole(sent, 1, total)
      BY <1>12, <2>1, <2>2, <3>1 DEF IsWhole
    <3> QED
      BY <2>4, <3>2 DEF Reached
  <2>5. CASE magic.at # 0
    <3>1. IsWhole(sent, 1, l) /\ magic = Got(1 + l, w1)
      BY <2>3, <2>5 DEF ReadsBack, At0
    <3>2. magic.at = 1 + l /\ magic.v = w1
      BY <3>1 DEF Got
    <3> QED
      BY <2>2, <2>5, <3>1, <3>2 DEF Reached
  <2> QED
    BY <2>4, <2>5
<1>14. Reached(kind, sent, 1, w2, b, total)
  <2>1. Holds(sent, 1, w2) /\ Len(w2) <= total
    BY <1>10 DEF HoldsIn
  <2> QED
    BY <1>1, <1>4, <1>13, <2>1, ByteNext
<1>15. Reached(externs, sent, 1, w, n, total)
  BY <1>1, <1>5, <1>6, <1>7, <1>9, <1>14, NumberNext
<1>16. PICK max \in Nat : max = MaxExterns
  BY DEF MaxExterns
<1>17. PICK h : h = ReadHead(sent)
  OBVIOUS
<1>18. CASE externs.at = 0
  <2>1. h = Failed
    BY <1>1, <1>17, <1>18 DEF ReadHead, At0
  <2>2. h.at = 0
    BY <2>1 DEF Failed, At0
  <2>3. ~IsWhole(sent, 1, Len(HeadOf(m)))
    BY <1>7, <1>8, <1>15, <1>18 DEF Reached
  <2> QED
    BY <1>17, <2>2, <2>3 DEF HeadBack
<1>19. CASE externs.at # 0
  <2>1. kind.at # 0
    BY <1>1, <1>12, <1>19, NothingReads
  <2>2. magic.at # 0
    BY <1>1, <1>12, <2>1, NothingReads
  <2>3. magic.v = Magic /\ kind.v = m.kind /\ externs.v = m.externs /\ externs.at = 1 + Len(HeadOf(m))
    BY <1>2, <1>3, <1>5, <1>7, <1>13, <1>14, <1>15, <1>19, <2>1, <2>2, Zenon DEF Reached
  <2>4. kind.v \in {0, 1}
    BY <2>3 DEF BytecodeModule
  <2>5. CASE m.externs <= MaxExterns
    <3>1. ~(externs.v > MaxExterns)
      BY <1>5, <1>16, <2>3, <2>5
    <3>2. h = Got(externs.at, [kind |-> kind.v, externs |-> externs.v])
      BY <1>1, <1>17, <1>19, <2>3, <2>4, <3>1, Zenon DEF ReadHead, At0
    <3>3. h.at = externs.at /\ h.v.kind = kind.v /\ h.v.externs = externs.v
      BY <3>2 DEF Got
    <3> QED
      BY <1>17, <1>19, <2>3, <2>5, <3>3, Zenon DEF HeadBack
  <2>6. CASE ~(m.externs <= MaxExterns)
    <3>1. externs.v > MaxExterns
      BY <1>5, <1>16, <2>3, <2>6
    <3>2. h = Failed
      BY <1>1, <1>17, <1>19, <2>3, <2>4, <3>1, Zenon DEF ReadHead, At0
    <3>3. h.at = 0
      BY <3>2 DEF Failed, At0
    <3> QED
      BY <1>17, <2>6, <3>3, Zenon DEF HeadBack
  <2> QED
    BY <2>5, <2>6
<1> QED
  BY <1>18, <1>19

-----------------------------------------------------------------------------
(* The items of a section.                                                 *)

\* The place behind so many items of a section that starts at a place.
PlaceIn(start, items, k) == start + VarintLength[Len(items)] + TotalUpto(Sizes(items))[k]

\* The items are where they should be, and their number is read back.
AreItemsAt(sent, start, items, n) ==
    /\ Reached(ReadCount(sent, start), sent, start, Varint[n], n, Len(Listed(items)))
    /\ PlaceIn(start, items, 0) = start + Len(Varint[n])
    /\ PlaceIn(start, items, n) = start + Len(Listed(items))
    /\ \A k \in 0..n : PlaceIn(start, items, k) \in Nat \ {0}
    /\ \A k \in 1..n :
        /\ Holds(sent, PlaceIn(start, items, k - 1), items[k])
        /\ PlaceIn(start, items, k) = PlaceIn(start, items, k - 1) + Len(items[k])
        /\ IsWhole(sent, start, Len(Listed(items)))
                => IsWhole(sent, PlaceIn(start, items, k - 1), Len(items[k]))

\* Each item of a list is at the place its predecessors leave it.
LEMMA ListedPlaces ==
    ASSUME NEW n, NEW items, Listable(items, n), NEW sent, NEW start, Holds(sent, start, Listed(items))
    PROVE  AreItemsAt(sent, start, items, n)
<1>1. /\ items \in Seq(Seq(Byte)) /\ Len(items) = n /\ n \in Nat /\ U32(n)
      /\ \A k \in 1..n : Len(items[k]) # 0
  BY DEF Listable
<1>2. PICK v \in Seq(Byte) : v = Varint[n] /\ Len(v) = VarintLength[n]
  BY <1>1, VarintType
<1>3. PICK f \in Seq(Byte) : f = FlattenSeq(items)
  BY <1>1, Flatten
<1>4. Len(f) >= n /\ Len(f) \in Nat
  BY <1>1, <1>3, PiecesMany
<1>5. Listed(items) = v \o f
  BY <1>1, <1>2, <1>3, Zenon DEF Listed
<1>6. /\ Holds(sent, start, v) /\ Holds(sent, start + Len(v), f)
      /\ Len(Listed(items)) = Len(v) + Len(f) /\ Len(v) \in Nat
  BY <1>5, HoldsBoth
<1>7. sent \in Seq(Byte) /\ start \in Nat \ {0} /\ Len(sent) \in Nat
  BY <1>6 DEF Holds
<1>8. PICK total \in Nat : total = Len(Listed(items)) /\ Len(v) <= total /\ Len(v) + n <= total
  BY <1>1, <1>4, <1>6
<1>9. Reached(ReadCount(sent, start), sent, start, v, n, total)
  <2>1. Reached(ReadVarint(sent, start), sent, start, v, n, total)
    BY <1>1, <1>2, <1>6, <1>8, VarintFirst
  <2> QED
    BY <1>1, <1>7, <1>8, <2>1, CountOf
<1>10. PICK t : t = TotalUpto(Sizes(items))
  OBVIOUS
<1>11. /\ Len(f) = t[n] /\ t[0] = 0
       /\ \A k \in 0..n : t[k] \in Nat
       /\ \A k \in 1..n : /\ Holds(sent, (start + Len(v)) + t[k - 1], items[k])
                          /\ t[k] = t[k - 1] + Len(items[k])
                          /\ Len(items[k]) \in Nat
  BY <1>1, <1>3, <1>6, <1>10, HoldsPieces
<1>12. \A k \in 1..n : t[k - 1] \in Nat /\ t[k] \in Nat
  <2>1. \A k \in 1..n : k \in 0..n /\ k - 1 \in 0..n
    BY <1>1
  <2> QED
    BY <1>11, <2>1, Zenon
<1>13. \A k \in 1..n : t[k - 1] + Len(items[k]) <= Len(f)
  <2>1. ASSUME NEW k \in 1..n PROVE t[k - 1] + Len(items[k]) \in 1..Len(f)
    <3>1. Len(items[k]) \in 1..Len(items[k])
      BY <1>1, <1>11
    <3>2. k \in 1..Len(items)
      BY <1>1
    <3> QED
      BY <1>1, <1>3, <1>10, <3>1, <3>2, Flatten
  <2> QED
    BY <2>1, <1>4
<1>14. \A k : PlaceIn(start, items, k) = start + Len(v) + t[k]
  BY <1>1, <1>2, <1>10, Zenon DEF PlaceIn
<1>15. PlaceIn(start, items, 0) = start + Len(v)
  BY <1>6, <1>7, <1>11, <1>14
<1>16. PlaceIn(start, items, n) = start + Len(Listed(items))
  BY <1>4, <1>6, <1>7, <1>11, <1>14
<1>17. \A k \in 0..n : PlaceIn(start, items, k) \in Nat \ {0}
  <2>1. ASSUME NEW k \in 0..n PROVE PlaceIn(start, items, k) \in Nat \ {0}
    <3>1. PICK p \in Nat : p = t[k]
      BY <1>11
    <3>2. PlaceIn(start, items, k) = start + Len(v) + p
      BY <1>14, <3>1, Zenon
    <3> QED
      BY <1>6, <1>7, <3>2
  <2> QED
    BY <2>1
<1>18. ASSUME NEW k \in 1..n
       PROVE  /\ Holds(sent, PlaceIn(start, items, k - 1), items[k])
              /\ PlaceIn(start, items, k) = PlaceIn(start, items, k - 1) + Len(items[k])
              /\ IsWhole(sent, start, total) => IsWhole(sent, PlaceIn(start, items, k - 1), Len(items[k]))
  <2>1. PICK p \in Nat, q \in Nat, l \in Nat : p = t[k - 1] /\ q = t[k] /\ l = Len(items[k])
    BY <1>11, <1>12
  <2>2. PICK a \in Nat, c \in Nat : a = Len(v) /\ c = Len(f)
    BY <1>4, <1>6
  <2>3. q = p + l /\ p + l <= c
    BY <1>11, <1>13, <2>1, <2>2
  <2>4. PlaceIn(start, items, k - 1) = start + a + p /\ PlaceIn(start, items, k) = start + a + q
    BY <1>14, <2>1, <2>2, Zenon
  <2>5. Holds(sent, (start + a) + p, items[k])
    BY <1>11, <2>1, <2>2
  <2>6. total = a + c
    BY <1>6, <1>8, <2>2
  <2>7. IsWhole(sent, start, a + c) => IsWhole(sent, start + a + p, l)
    BY <1>7, <2>3 DEF IsWhole
  <2>8. start + a + q = (start + a + p) + l
    BY <1>7, <2>3
  <2> QED
    BY <2>1, <2>4, <2>5, <2>6, <2>7, <2>8, Zenon
<1> QED
  BY <1>2, <1>8, <1>9, <1>15, <1>16, <1>17, <1>18, Zenon DEF AreItemsAt

\* Each item is read back from its place.
LEMMA NameBack ==
    ASSUME NEW m \in BytecodeModule, NEW e, IsDecodable(e), NEW k \in 1..Len(m.names),
           NEW sent, NEW place, Holds(sent, place, Entries(m, e, "names")[k])
    PROVE  ReadsBack(ReadString(sent, place, e.key, NameDomain, k - 1), sent, place,
                     Len(Entries(m, e, "names")[k]), m.names[k])
<1>1. PICK names \in Seq(Seq(Byte)) : names = m.names /\ \A i \in DOMAIN names : U32(Len(names[i]) + 2)
  BY DEF BytecodeModule
<1>2. k \in DOMAIN names /\ k - 1 \in Nat /\ names[k] \in Seq(Byte)
  BY <1>1
<1>3. Entries(m, e, "names") = [i \in DOMAIN m.names |-> StringBytes(m.names[i], e.key, NameDomain, i - 1)]
  BY Zenon DEF Entries
<1>4. Entries(m, e, "names")[k] = StringBytes(names[k], e.key, NameDomain, k - 1)
  BY <1>1, <1>2, <1>3
<1>5. NameDomain \in Nat /\ e.key \in Nat
  BY DEF NameDomain, IsDecodable, IsEncoding
<1>6. PICK text \in Seq(Byte) : text = names[k] /\ U32(Len(text) + 2)
  BY <1>1, <1>2
<1>7. Holds(sent, place, StringBytes(text, e.key, NameDomain, k - 1))
  BY <1>4, <1>6, Zenon
<1>8. ReadsBack(ReadString(sent, place, e.key, NameDomain, k - 1), sent, place,
                Len(StringBytes(text, e.key, NameDomain, k - 1)), text)
  BY <1>2, <1>5, <1>6, <1>7, StringReads
<1> QED
  BY <1>1, <1>4, <1>6, <1>8, Zenon

\* Each function of a module is read back.
LEMMA FunctionBack ==
    ASSUME NEW m \in BytecodeModule, NEW e, IsDecodable(e), NEW k \in 1..Len(m.functions),
           NEW sent, NEW place, Holds(sent, place, Entries(m, e, "functions")[k])
    PROVE  ReadsBack(ReadFunction(sent, place, e.tags), sent, place,
                     Len(Entries(m, e, "functions")[k]), m.functions[k])
<1>1. PICK fs \in Seq(BytecodeFunction) : fs = m.functions
  BY DEF BytecodeModule
<1>2. k \in DOMAIN fs
  BY <1>1
<1>3. PICK f \in BytecodeFunction : f = fs[k]
  BY <1>1
<1>4. Entries(m, e, "functions") = [i \in DOMAIN m.functions |-> FunctionBytes(m.functions[i], e)]
  <2>1. "functions" # "names"
    OBVIOUS
  <2> QED
    BY <2>1, Zenon DEF Entries
<1>5. Entries(m, e, "functions")[k] = FunctionBytes(f, e)
  BY <1>1, <1>2, <1>3, <1>4
<1>6. Holds(sent, place, FunctionBytes(f, e))
  BY <1>5, Zenon
<1>7. ReadsBack(ReadFunction(sent, place, e.tags), sent, place, Len(FunctionBytes(f, e)), f)
  BY <1>6, FunctionReads
<1> QED
  BY <1>1, <1>3, <1>5, <1>7, Zenon

\* Each constant of a module is read back.
LEMMA ConstantBack ==
    ASSUME NEW m \in BytecodeModule, NEW e, IsDecodable(e), NEW k \in 1..Len(m.constants),
           NEW sent, NEW place, Holds(sent, place, Entries(m, e, "constants")[k])
    PROVE  ReadsBack(ReadConstant(sent, place, k - 1, e), sent, place,
                     Len(Entries(m, e, "constants")[k]), m.constants[k])
<1>1. PICK cs \in Seq(BytecodeConstant) : cs = m.constants
  BY DEF BytecodeModule
<1>2. k \in DOMAIN cs /\ k - 1 \in Nat
  BY <1>1
<1>3. PICK c \in BytecodeConstant : c = cs[k]
  BY <1>1
<1>4. Entries(m, e, "constants") = [i \in DOMAIN m.constants |-> ConstantBytes(m.constants[i], i - 1, e)]
  <2>1. "constants" # "names" /\ "constants" # "functions"
    OBVIOUS
  <2> QED
    BY <2>1, Zenon DEF Entries
<1>5. Entries(m, e, "constants")[k] = ConstantBytes(c, k - 1, e)
  BY <1>1, <1>2, <1>3, <1>4
<1>6. PICK index \in Nat : index = k - 1
  BY <1>2
<1>7. Holds(sent, place, ConstantBytes(c, index, e))
  BY <1>5, <1>6, Zenon
<1>8. ReadsBack(ReadConstant(sent, place, index, e), sent, place, Len(ConstantBytes(c, index, e)), c)
  BY <1>7, ConstantReads
<1> QED
  BY <1>1, <1>3, <1>5, <1>6, <1>8, Zenon

\* Each instruction of a module is read back.
LEMMA CodeBack ==
    ASSUME NEW m \in BytecodeModule, NEW e, IsDecodable(e), IsWritable(m, e), NEW k \in 1..Len(m.code),
           NEW sent, NEW place, Holds(sent, place, Entries(m, e, "code")[k])
    PROVE  IsRead(ReadInstruction(sent, place, m.constants, e), m.code[k], sent, place,
                  Len(Entries(m, e, "code")[k]), m.constants)
<1>1. PICK code \in Seq(BytecodeInstruction) : code = m.code
  BY DEF BytecodeModule
<1>2. PICK constants \in Seq(BytecodeConstant) : constants = m.constants
  BY DEF BytecodeModule
<1>3. k \in DOMAIN code
  BY <1>1
<1>4. PICK i \in BytecodeInstruction : i = code[k]
  BY <1>1
<1>5. PICK w : w = WriteInstruction(i, constants, e)
  OBVIOUS
<1>6. w.ok = TRUE
  BY <1>1, <1>2, <1>3, <1>4, <1>5, Zenon DEF IsWritable
<1>7. Entries(m, e, "code") = [j \in DOMAIN m.code |-> WriteInstruction(m.code[j], m.constants, e).bytes]
  <2>1. "code" # "names" /\ "code" # "functions" /\ "code" # "constants"
    OBVIOUS
  <2> QED
    BY <2>1, Zenon DEF Entries, CodeBytes
<1>8. Entries(m, e, "code")[k] = w.bytes
  BY <1>1, <1>2, <1>3, <1>4, <1>5, <1>7, Zenon
<1>9. Holds(sent, place, w.bytes)
  BY <1>8, Zenon
<1>10. IsRead(ReadInstruction(sent, place, constants, e), i, sent, place, Len(w.bytes), constants)
  BY <1>5, <1>6, <1>9, InstructionReads
<1> QED
  BY <1>1, <1>2, <1>4, <1>8, <1>10, Zenon

\* What was read of an instruction means what it means.
LEMMA MeaningKept ==
    ASSUME NEW i \in BytecodeInstruction, NEW constants, NEW r, NEW sent, NEW place, NEW length,
           IsRead(r, i, sent, place, length, constants), IsWhole(sent, place, length)
    PROVE  Meaning(Instr(r.op, r.args), constants) = Meaning(i, constants)
<1>1. /\ Canonical(r.op) = Canonical(i.op)
      /\ r.args \in Seq(AnyOperand) /\ Len(r.args) = Len(i.args)
      /\ \A j \in 1..Len(i.args) : Same(r.args[j], constants) = Same(i.args[j], constants)
  BY DEF IsRead
<1>2. PICK args \in Seq(BytecodeOperand) : args = i.args
  BY DEF BytecodeInstruction
<1>3. PICK n \in Nat : n = Len(args) /\ DOMAIN args = 1..n
  OBVIOUS
<1>4. DOMAIN r.args = 1..n
  BY <1>1, <1>2, <1>3
<1>5. \A x : Operands(x, constants) = [k \in DOMAIN x.args |-> Same(x.args[k], constants)]
  BY Zenon DEF Operands, Same
<1>6. PICK x : x = Instr(r.op, r.args)
  OBVIOUS
<1>7. x.op = r.op /\ x.args = r.args
  BY <1>6 DEF Instr
<1>8. Operands(x, constants) = [k \in 1..n |-> Same(r.args[k], constants)]
  <2>1. Operands(x, constants) = [k \in DOMAIN x.args |-> Same(x.args[k], constants)]
    BY <1>5, Zenon
  <2> QED
    BY <1>4, <1>7, <2>1, Zenon
<1>9. Operands(i, constants) = [k \in 1..n |-> Same(args[k], constants)]
  BY <1>2, <1>3, <1>5, Zenon
<1>10. \A k \in 1..n : Same(r.args[k], constants) = Same(args[k], constants)
  BY <1>1, <1>2, <1>3, Zenon
<1>11. Operands(x, constants) = Operands(i, constants)
  BY <1>8, <1>9, <1>10, Zenon
<1> QED
  BY <1>1, <1>6, <1>7, <1>11, Zenon DEF Meaning

-----------------------------------------------------------------------------
(* What the reader has of a module.                                        *)

Items3 == {"names", "functions", "constants"}

\* The sections that are behind the reader, and how many items it has of each.
Earlier(section) ==
    IF section = "names" THEN {}
    ELSE IF section = "functions" THEN {"names"}
    ELSE IF section = "constants" THEN {"names", "functions"}
    ELSE {"names", "functions", "constants"}
Done(p, l, m, section) ==
    IF section \in Earlier(p) THEN Len(m[section])
    ELSE IF section = p THEN Len(m[section]) - l ELSE 0

\* The instructions that were read mean what the first ones of the module mean.
Alike(code, m, n) ==
    /\ IsList(code) /\ Len(code) = n
    /\ \A k \in 1..n : Meaning(code[k], m.constants) = Meaning(m.code[k], m.constants)

\* In the section p so many items are left.
IsPartOf(w, m, p, l) ==
    /\ w.kind = m.kind /\ w.externs = m.externs
    /\ \A section \in Items3 : w[section] = SubSeq(m[section], 1, Done(p, l, m, section))
    /\ Alike(w.code, m, Done(p, l, m, "code"))

\* A module has sequences.
LEMMA ModuleSections ==
    ASSUME NEW m \in BytecodeModule
    PROVE  /\ \A section \in Reading : \E S : m[section] \in Seq(S)
           /\ \A section \in Reading : Len(m[section]) \in Nat
<1>1. /\ m.names \in Seq(Seq(Byte)) /\ m.functions \in Seq(BytecodeFunction)
      /\ m.constants \in Seq(BytecodeConstant) /\ m.code \in Seq(BytecodeInstruction)
  BY DEF BytecodeModule
<1>2. \A section \in Reading : section = "names" \/ section = "functions" \/ section = "constants" \/ section = "code"
  BY DEF Reading
<1>3. ASSUME NEW section \in Reading PROVE \E S : m[section] \in Seq(S)
  <2>1. CASE section = "names"
    BY <1>1, <2>1, Zenon
  <2>2. CASE section = "functions"
    BY <1>1, <2>2, Zenon
  <2>3. CASE section = "constants"
    BY <1>1, <2>3, Zenon
  <2>4. CASE section = "code"
    BY <1>1, <2>4, Zenon
  <2> QED
    BY <1>2, <2>1, <2>2, <2>3, <2>4, Zenon
<1>4. ASSUME NEW section \in Reading PROVE Len(m[section]) \in Nat
  <2>1. PICK S : m[section] \in Seq(S)
    BY <1>3
  <2> QED
    BY <2>1
<1> QED
  BY <1>3, <1>4, Zenon

\* One more of a sequence.
LEMMA PartGrows ==
    ASSUME NEW S, NEW s \in Seq(S), NEW k \in Nat, k < Len(s)
    PROVE  Append(SubSeq(s, 1, k), s[k + 1]) = SubSeq(s, 1, k + 1)
<1>1. PICK n \in Nat : n = Len(s) /\ k + 1 <= n
  OBVIOUS
<1>2. PICK a \in Seq(S) : a = SubSeq(s, 1, k) /\ Len(a) = k /\ \A j \in 1..k : a[j] = s[j]
  <2>1. SubSeq(s, 1, k) \in Seq(S)
    BY <1>1
  <2>2. Len(SubSeq(s, 1, k)) = k /\ \A j \in 1..k : SubSeq(s, 1, k)[j] = s[j]
    BY <1>1
  <2> QED
    BY <2>1, <2>2
<1>3. PICK b \in Seq(S) : b = SubSeq(s, 1, k + 1) /\ Len(b) = k + 1 /\ \A j \in 1..(k + 1) : b[j] = s[j]
  <2>1. SubSeq(s, 1, k + 1) \in Seq(S)
    BY <1>1
  <2>2. Len(SubSeq(s, 1, k + 1)) = k + 1 /\ \A j \in 1..(k + 1) : SubSeq(s, 1, k + 1)[j] = s[j]
    BY <1>1
  <2> QED
    BY <2>1, <2>2
<1>4. s[k + 1] \in S
  BY <1>1
<1>5. PICK x \in S : x = s[k + 1]
  BY <1>4
<1>6. /\ Append(a, x) \in Seq(S) /\ Len(Append(a, x)) = k + 1
      /\ \A j \in 1..(k + 1) : Append(a, x)[j] = IF j = k + 1 THEN x ELSE a[j]
  BY <1>2
<1>7. \A j \in 1..(k + 1) : Append(a, x)[j] = b[j]
  BY <1>2, <1>3, <1>5, <1>6
<1>8. Append(a, x) = b
  BY <1>3, <1>6, <1>7, SeqEqual
<1> QED
  BY <1>2, <1>3, <1>5, <1>8, Zenon

\* None, and all of it.
LEMMA PartEnds ==
    ASSUME NEW S, NEW s \in Seq(S)
    PROVE  SubSeq(s, 1, 0) = <<>> /\ SubSeq(s, 1, Len(s)) = s
<1>1. PICK n \in Nat : n = Len(s)
  OBVIOUS
<1>2. PICK a : a = SubSeq(s, 1, n)
  OBVIOUS
<1>3. a \in Seq(S) /\ Len(a) = n /\ \A j \in 1..n : a[j] = s[j]
  BY <1>1, <1>2
<1>4. a = s
  BY <1>1, <1>3, SeqEqual
<1>5. SubSeq(s, 1, 0) = <<>>
  OBVIOUS
<1> QED
  BY <1>1, <1>2, <1>4, <1>5

\* Items of a section are taken one after the other.
LEMMA PartTakes ==
    ASSUME NEW m \in BytecodeModule, NEW p \in Items3, NEW n \in Nat, n = Len(m[p]),
           NEW l \in 1..n, NEW w, IsPartOf(w, m, p, l), DOMAIN w = ModuleFields,
           NEW k \in Nat, k = n - l,
           NEW v, v = [w EXCEPT ![p] = Append(w[p], m[p][k + 1])]
    PROVE  IsPartOf(v, m, p, l - 1)
<1>1. p \in Reading /\ p \in ModuleFields /\ Items3 \subseteq ModuleFields
  BY DEF Items3, Reading, ModuleFields
<1>2. PICK S : m[p] \in Seq(S)
  BY <1>1, ModuleSections
<1>3. p \notin Earlier(p) /\ p # "code" /\ p # "kind" /\ p # "externs"
  BY DEF Earlier, Items3
<1>4. \A x \in ModuleFields : v[x] = IF x = p THEN Append(w[p], m[p][k + 1]) ELSE w[x]
  BY <1>1
<1>5. v.kind = w.kind /\ v.externs = w.externs /\ v.code = w.code
  BY <1>3, <1>4 DEF ModuleFields
<1>6. Done(p, l, m, p) = k /\ Done(p, l - 1, m, p) = k + 1
  <2>1. n - l = k /\ n - (l - 1) = k + 1
    OBVIOUS
  <2> QED
    BY <1>3, <2>1, Zenon DEF Done
<1>7. \A x : x # p => Done(p, l - 1, m, x) = Done(p, l, m, x)
  BY Zenon DEF Done
<1>8. ASSUME NEW x \in Items3 PROVE v[x] = SubSeq(m[x], 1, Done(p, l - 1, m, x))
  <2>1. w[x] = SubSeq(m[x], 1, Done(p, l, m, x))
    BY DEF IsPartOf
  <2>2. CASE x = p
    <3>1. w[p] = SubSeq(m[p], 1, k)
      BY <1>6, <2>1, <2>2, Zenon
    <3>2. k < n
      OBVIOUS
    <3>3. Append(SubSeq(m[p], 1, k), m[p][k + 1]) = SubSeq(m[p], 1, k + 1)
      BY <1>2, <3>2, PartGrows
    <3>4. v[p] = Append(w[p], m[p][k + 1])
      BY <1>1, <1>4, Zenon
    <3> QED
      BY <1>6, <2>2, <3>1, <3>3, <3>4, Zenon
  <2>3. CASE x # p
    <3>1. v[x] = w[x]
      BY <1>1, <1>4, <2>3
    <3> QED
      BY <1>7, <2>1, <2>3, <3>1, Zenon
  <2> QED
    BY <2>2, <2>3
<1>9. /\ w.kind = m.kind /\ w.externs = m.externs /\ Alike(w.code, m, Done(p, l, m, "code"))
  BY DEF IsPartOf
<1> QED
  BY <1>3, <1>5, <1>7, <1>8, <1>9, Zenon DEF IsPartOf

\* The next section begins with nothing of it read.
LEMMA PartTurns ==
    ASSUME NEW m \in BytecodeModule, NEW w, NEW p, NEW q,
           \/ p = "names" /\ q = "functions"
           \/ p = "functions" /\ q = "constants"
           \/ p = "constants" /\ q = "code",
           IsPartOf(w, m, p, 0)
    PROVE  IsPartOf(w, m, q, Len(m[q]))
<1>1. \A x \in Reading : Len(m[x]) \in Nat
  BY ModuleSections
<1>2. ASSUME NEW x \in Reading PROVE Done(p, 0, m, x) = Done(q, Len(m[q]), m, x)
  <2>1. PICK n \in Nat : n = Len(m[x])
    BY <1>1
  <2>2. n - 0 = n /\ n - n = 0
    OBVIOUS
  <2>3. x = "names" \/ x = "functions" \/ x = "constants" \/ x = "code"
    BY DEF Reading
  <2> QED
    BY <2>1, <2>2, <2>3 DEF Done, Earlier
<1>3. Items3 \subseteq Reading /\ "code" \in Reading
  BY DEF Items3, Reading
<1> QED
  BY <1>2, <1>3, Zenon DEF IsPartOf

\* Nothing but the head was read.
LEMMA PartBegins ==
    ASSUME NEW m \in BytecodeModule, NEW kind, NEW externs, kind = m.kind, externs = m.externs,
           NEW v, v = [Empty EXCEPT !.kind = kind, !.externs = externs]
    PROVE  IsPartOf(v, m, "names", Len(m.names))
<1>1. Empty = [kind |-> 0, externs |-> 0, names |-> <<>>, functions |-> <<>>, constants |-> <<>>,
               code |-> <<>>]
  BY Zenon DEF Empty, Module
<1>2. PICK w, none : w = Empty /\ none = <<>>
  OBVIOUS
<1>3. w = [kind |-> 0, externs |-> 0, names |-> none, functions |-> none, constants |-> none,
           code |-> none]
  BY <1>1, <1>2, Zenon
<1>4. v = [w EXCEPT !.kind = kind, !.externs = externs]
  BY <1>2
<1>5. /\ v.kind = kind /\ v.externs = externs /\ v.code = none
      /\ v.names = none /\ v.functions = none /\ v.constants = none
  BY <1>3, <1>4
<1>6. \A x \in Items3 : v[x] = none
  BY <1>5 DEF Items3
<1>7. PICK n \in Nat : n = Len(m.names)
  BY ModuleSections DEF Reading
<1>8. Done("names", n, m, "names") = 0
  <2>1. n - n = 0
    OBVIOUS
  <2>2. "names" \notin Earlier("names")
    BY DEF Earlier
  <2> QED
    BY <1>7, <2>1, <2>2, Zenon DEF Done
<1>9. \A x : x # "names" => Done("names", n, m, x) = 0
  <2>1. Earlier("names") = {}
    BY DEF Earlier
  <2> QED
    BY <2>1 DEF Done
<1>10. ASSUME NEW x \in Items3 PROVE v[x] = SubSeq(m[x], 1, Done("names", n, m, x))
  <2>1. Done("names", n, m, x) = 0
    BY <1>8, <1>9
  <2>2. x \in Reading
    BY DEF Items3, Reading
  <2>3. PICK S : m[x] \in Seq(S)
    BY <2>2, ModuleSections
  <2>4. SubSeq(m[x], 1, 0) = <<>>
    BY <2>3, PartEnds
  <2> QED
    BY <1>2, <1>6, <2>1, <2>4, Zenon
<1>11. Alike(v.code, m, Done("names", n, m, "code"))
  <2>1. "code" # "names"
    OBVIOUS
  <2>2. Done("names", n, m, "code") = 0
    BY <1>9, <2>1
  <2>3. IsList(none) /\ Len(none) = 0
    BY <1>2, EmptyList
  <2>4. Alike(none, m, 0)
    BY <2>3 DEF Alike
  <2> QED
    BY <1>5, <2>2, <2>4, Zenon
<1> QED
  BY <1>5, <1>7, <1>10, <1>11, Zenon DEF IsPartOf

\* What is not the last is one of the others.
LEMMA NotLast == ASSUME NEW k \in Nat, NEW j \in 1..(k + 1), j # k + 1 PROVE j \in 1..k
OBVIOUS

\* An instruction is taken.
LEMMA PartDecodes ==
    ASSUME NEW m \in BytecodeModule, NEW n \in Nat, n = Len(m.code), NEW l \in 1..n,
           NEW w, IsPartOf(w, m, "code", l), DOMAIN w = ModuleFields,
           NEW k \in Nat, k = n - l, NEW i,
           Meaning(i, m.constants) = Meaning(m.code[k + 1], m.constants),
           NEW v, v = [w EXCEPT !.constants = m.constants, !.code = Append(w.code, i)]
    PROVE  IsPartOf(v, m, "code", l - 1)
<1>1. \A x \in ModuleFields :
        v[x] = IF x = "code" THEN Append(w.code, i) ELSE IF x = "constants" THEN m.constants ELSE w[x]
  BY DEF ModuleFields
<1>2. v.kind = w.kind /\ v.externs = w.externs /\ v.code = Append(w.code, i) /\ v.constants = m.constants
  BY <1>1 DEF ModuleFields
<1>3. \A x : x # "code" => Done("code", l - 1, m, x) = Done("code", l, m, x)
  BY Zenon DEF Done
<1>4. Done("code", l, m, "code") = k /\ Done("code", l - 1, m, "code") = k + 1
  <2>1. n - l = k /\ n - (l - 1) = k + 1
    OBVIOUS
  <2>2. "code" \notin Earlier("code")
    BY DEF Earlier
  <2> QED
    BY <2>1, <2>2, Zenon DEF Done
<1>5. /\ w.kind = m.kind /\ w.externs = m.externs /\ Alike(w.code, m, k)
      /\ \A x \in Items3 : w[x] = SubSeq(m[x], 1, Done("code", l, m, x))
  BY <1>4, Zenon DEF IsPartOf
<1>6. ASSUME NEW x \in Items3 PROVE v[x] = SubSeq(m[x], 1, Done("code", l - 1, m, x))
  <2>1. x # "code" /\ x \in ModuleFields /\ x \in Reading
    BY DEF Items3, ModuleFields, Reading
  <2>2. CASE x = "constants"
    <3>1. x \in Earlier("code")
      BY <2>2 DEF Earlier
    <3>2. Done("code", l - 1, m, x) = Len(m[x])
      BY <3>1, Zenon DEF Done
    <3>3. PICK S : m[x] \in Seq(S)
      BY <2>1, ModuleSections
    <3>4. SubSeq(m[x], 1, Len(m[x])) = m[x]
      BY <3>3, PartEnds
    <3> QED
      BY <1>2, <2>2, <3>2, <3>4, Zenon
  <2>3. CASE x # "constants"
    <3>1. v[x] = w[x]
      BY <1>1, <2>1, <2>3
    <3> QED
      BY <1>3, <1>5, <2>1, <3>1, Zenon
  <2> QED
    BY <2>2, <2>3
<1>7. Alike(v.code, m, k + 1)
  <2>1. /\ IsList(w.code) /\ Len(w.code) = k
        /\ \A j \in 1..k : Meaning(w.code[j], m.constants) = Meaning(m.code[j], m.constants)
    BY <1>5 DEF Alike
  <2>2. PICK S : w.code \in Seq(S)
    BY <2>1 DEF IsList
  <2>3. PICK T : T = S \cup {i}
    OBVIOUS
  <2>4. PICK c \in Seq(T) : c = w.code /\ Len(c) = k
    BY <2>1, <2>2, <2>3
  <2>5. i \in T
    BY <2>3
  <2>6. /\ Append(c, i) \in Seq(T) /\ Len(Append(c, i)) = k + 1
        /\ \A j \in 1..(k + 1) : Append(c, i)[j] = IF j = k + 1 THEN i ELSE c[j]
    BY <2>4, <2>5
  <2>7. PICK d : d = Append(c, i)
    OBVIOUS
  <2>8. ASSUME NEW j \in 1..(k + 1) PROVE Meaning(d[j], m.constants) = Meaning(m.code[j], m.constants)
    <3>1. CASE j = k + 1
      <4>1. d[j] = i
        BY <2>6, <2>7, <3>1
      <4> QED
        BY <3>1, <4>1, Zenon
    <3>2. CASE j # k + 1
      <4>1. j \in 1..k
        <5>1. k \in Nat
          BY <2>4
        <5> QED
          BY <3>2, <5>1, NotLast
      <4>2. d[j] = c[j]
        BY <2>6, <2>7, <3>2, Zenon
      <4> QED
        BY <2>1, <2>4, <4>1, <4>2, Zenon
    <3> QED
      BY <3>1, <3>2
  <2>9. IsList(d) /\ Len(d) = k + 1
    BY <2>6, <2>7 DEF IsList
  <2>10. v.code = d
    BY <1>2, <2>4, <2>7, Zenon
  <2> QED
    BY <2>8, <2>9, <2>10, Zenon DEF Alike
<1> QED
  BY <1>2, <1>4, <1>5, <1>6, <1>7, Zenon DEF IsPartOf

\* The constants are all there when instructions are read.
LEMMA PartConstants ==
    ASSUME NEW m \in BytecodeModule, NEW w, NEW l, IsPartOf(w, m, "code", l)
    PROVE  /\ w.names = m.names /\ w.functions = m.functions /\ w.constants = m.constants
<1>1. ASSUME NEW x \in Items3 PROVE w[x] = m[x]
  <2>1. x \in Earlier("code") /\ x \in Reading
    BY DEF Items3, Earlier, Reading
  <2>2. Done("code", l, m, x) = Len(m[x])
    BY <2>1, Zenon DEF Done
  <2>3. PICK S : m[x] \in Seq(S)
    BY <2>1, ModuleSections
  <2>4. SubSeq(m[x], 1, Len(m[x])) = m[x]
    BY <2>3, PartEnds
  <2>5. w[x] = SubSeq(m[x], 1, Done("code", l, m, x))
    BY Zenon DEF IsPartOf
  <2> QED
    BY <2>2, <2>4, <2>5, Zenon
<1>2. "names" \in Items3 /\ "functions" \in Items3 /\ "constants" \in Items3
  BY DEF Items3
<1> QED
  BY <1>1, <1>2

\* What was read to the end says what the module says.
LEMMA PartComplete ==
    ASSUME NEW m \in BytecodeModule, NEW w, IsPartOf(w, m, "code", 0)
    PROVE  SaysTheSame(w, m)
<1>1. w.names = m.names /\ w.functions = m.functions /\ w.constants = m.constants
  BY PartConstants
<1>2. PICK n \in Nat : n = Len(m.code)
  BY ModuleSections DEF Reading
<1>3. Done("code", 0, m, "code") = n
  <2>1. n - 0 = n
    OBVIOUS
  <2>2. "code" \notin Earlier("code")
    BY DEF Earlier
  <2> QED
    BY <1>2, <2>1, <2>2, Zenon DEF Done
<1>4. w.kind = m.kind /\ w.externs = m.externs /\ Alike(w.code, m, n)
  BY <1>3, Zenon DEF IsPartOf
<1>5. /\ IsList(w.code) /\ Len(w.code) = n
      /\ \A k \in 1..n : Meaning(w.code[k], m.constants) = Meaning(m.code[k], m.constants)
  BY <1>4 DEF Alike
<1>6. PICK S : w.code \in Seq(S)
  BY <1>5 DEF IsList
<1>7. DOMAIN w.code = 1..n
  BY <1>5, <1>6
<1> QED
  BY <1>1, <1>2, <1>4, <1>5, <1>7, Zenon DEF SaysTheSame

-----------------------------------------------------------------------------
(* What arrives and what is read of it.                                    *)

\* The bytes of the module, as far as they are not cut off, and more or fewer of them
\* if they were damaged.
Sent(b, m, e, cut) ==
    /\ IsWritable(m, e) /\ Holds(b, 1, ModuleBytes(m, e))
    /\ IF cut THEN Len(b) # Len(ModuleBytes(m, e)) ELSE b = ModuleBytes(m, e)

\* The reader is in front of one of the last items of a section, so many of which are
\* left, and has all that is before it.
InSection(p, m, e, w, a, l) ==
    /\ l \in 0..Len(m[p])
    /\ a = PlaceIn(Start(m, e, p), Entries(m, e, p), Len(m[p]) - l)
    /\ IsPartOf(w, m, p, l)

\* The second inductive invariant: whatever is read is what was written.
WireGood ==
    /\ phase = "write" => ~damaged
    /\ phase = "arrive" => seed = PairedSeed(config, ModuleBytes(source, EncodingOf(config)))
    /\ phase \in {"arrive"} \cup Reading => Sent(bytes, source, EncodingOf(config), damaged)
    /\ phase \in Reading =>
            encoding = EncodingOf(config) /\ InSection(phase, source, encoding, loaded, at, left)
    /\ phase = "loaded" => ~damaged /\ SaysTheSame(loaded, source)
    /\ phase = "refused" /\ ~damaged => ~IsSendable(source, EncodingOf(config))

\* The module and the encoding.
LEMMA Coded ==
    ASSUME WireInv
    PROVE  source \in BytecodeModule /\ IsDecodable(EncodingOf(config)) /\ IsEncoding(EncodingOf(config))
<1>1. config \in ObfuscationConfig /\ Valid(config)
  BY ConfigsAssumption DEF WireInv
<1>2. source \in BytecodeModule
  BY ModulesAssumption DEF WireInv
<1> QED
  BY <1>1, <1>2, DecodableType, EncodingType

\* Nothing was read yet.
LEMMA GoodStart == Init => WireGood
<1> SUFFICES ASSUME Init PROVE WireGood
  OBVIOUS
<1>1. phase = "write" /\ damaged = FALSE
  BY DEF Init
<1> QED
  BY <1>1 DEF WireGood, Reading

\* What is written is the module, and nothing if it cannot be.
LEMMA GoodWrite == ASSUME WireInv, WireGood, Write PROVE WireGood'
<1>1. PICK m, e : m = source /\ e = EncodingOf(config)
  OBVIOUS
<1>2. source' = m /\ EncodingOf(config') = e /\ ~damaged' /\ config' = config
  BY <1>1 DEF Write, WireGood
<1>3. CASE IsWritable(m, e)
  <2>1. bytes' = ModuleBytes(m, e) /\ phase' = "arrive" /\ seed' = PairedSeed(config, bytes')
    BY <1>1, <1>3, Zenon DEF Write
  <2>2. ModuleBytes(m, e) \in Seq(Byte)
    BY <1>1, <1>3, Coded, ModuleType
  <2>3. Holds(ModuleBytes(m, e), 1, ModuleBytes(m, e))
    BY <2>2 DEF Holds
  <2>4. Sent(bytes', m, e, damaged')
    BY <1>2, <1>3, <2>1, <2>3, Zenon DEF Sent
  <2>5. phase' # "write" /\ phase' \notin Reading /\ phase' # "loaded" /\ phase' # "refused"
    BY <2>1 DEF Reading
  <2> QED
    BY <1>1, <1>2, <2>1, <2>4, <2>5, Zenon DEF WireGood
<1>4. CASE ~IsWritable(m, e)
  <2>1. phase' = "refused"
    BY <1>1, <1>4, Zenon DEF Write
  <2>2. phase' # "write" /\ phase' \notin {"arrive"} \cup Reading /\ phase' # "loaded" /\ phase' # "arrive"
    BY <2>1 DEF Reading
  <2>3. phase' \notin Reading
    BY <2>2
  <2>4. ~IsSendable(m, e)
    BY <1>4, Zenon DEF IsSendable
  <2> QED
    BY <1>2, <2>2, <2>3, <2>4, Zenon DEF WireGood
<1> QED
  BY <1>3, <1>4

\* What is cut or extended has another length.
LEMMA GoodDamage == ASSUME WireInv, WireGood, Cut \/ Extend PROVE WireGood'
<1>1. PICK m, e : m = source /\ e = EncodingOf(config)
  OBVIOUS
<1>2. /\ phase = "arrive" /\ phase' = "arrive" /\ source' = m /\ config' = config /\ damaged' = TRUE
      /\ ~damaged /\ seed' = seed
  BY <1>1 DEF Cut, Extend
<1>3. /\ IsWritable(m, e) /\ Holds(bytes, 1, ModuleBytes(m, e)) /\ bytes = ModuleBytes(m, e)
      /\ seed = PairedSeed(config, ModuleBytes(m, e))
  BY <1>1, <1>2 DEF WireGood, Sent
<1>4. PICK w \in Seq(Byte) : w = bytes /\ w = ModuleBytes(m, e)
  BY <1>3 DEF Holds
<1>5. PICK n \in Nat : n = Len(w)
  OBVIOUS
<1>6. Holds(bytes', 1, w) /\ Len(bytes') # n
  <2>1. CASE Cut
    <3>1. PICK k \in 0..(n - 1) : bytes' = SubSeq(w, 1, k)
      BY <1>4, <1>5, <2>1, Zenon DEF Cut
    <3>2. PICK c \in Seq(Byte) : c = SubSeq(w, 1, k) /\ Len(c) = k /\ \A j \in 1..k : c[j] = w[j]
      <4>1. SubSeq(w, 1, k) \in Seq(Byte)
        BY <1>5
      <4>2. Len(SubSeq(w, 1, k)) = k /\ \A j \in 1..k : SubSeq(w, 1, k)[j] = w[j]
        BY <1>5
      <4> QED
        BY <4>1, <4>2
    <3>3. Holds(c, 1, w)
      BY <1>5, <3>2 DEF Holds
    <3>4. k # n
      OBVIOUS
    <3> QED
      BY <3>1, <3>2, <3>3, <3>4
  <2>2. CASE Extend
    <3>1. PICK x \in Byte : bytes' = Append(w, x)
      BY <1>4, <2>2, TrailingAssumption, Zenon DEF Extend
    <3>2. PICK c \in Seq(Byte) : c = Append(w, x) /\ Len(c) = n + 1 /\ \A j \in 1..n : c[j] = w[j]
      <4>1. Append(w, x) \in Seq(Byte)
        OBVIOUS
      <4>2. Len(Append(w, x)) = n + 1 /\ \A j \in 1..n : Append(w, x)[j] = w[j]
        BY <1>5
      <4> QED
        BY <4>1, <4>2
    <3>3. Holds(c, 1, w)
      BY <1>5, <3>2 DEF Holds
    <3>4. n + 1 # n
      OBVIOUS
    <3> QED
      BY <3>1, <3>2, <3>3, <3>4
  <2> QED
    BY <2>1, <2>2
<1>7. Sent(bytes', m, e, damaged')
  BY <1>2, <1>3, <1>4, <1>5, <1>6, Zenon DEF Sent
<1>8. phase' # "write" /\ phase' \notin Reading /\ phase' # "loaded" /\ phase' # "refused"
  BY <1>2 DEF Reading
<1>9. EncodingOf(config') = e /\ seed' = PairedSeed(config', ModuleBytes(m, e))
  BY <1>1, <1>2, <1>3, Zenon
<1> QED
  BY <1>2, <1>7, <1>8, <1>9, Zenon DEF WireGood

\* What a step of the reader must do.
Advances ==
    /\ phase' \in Reading =>
            /\ encoding' = EncodingOf(config)
            /\ InSection(phase', source, EncodingOf(config), loaded', at', left')
    /\ phase' = "loaded" => ~damaged /\ SaysTheSame(loaded', source)
    /\ phase' = "refused" => damaged \/ ~IsSendable(source, EncodingOf(config))

\* The reader changes nothing of what arrived.
LEMMA GoodAdvance ==
    ASSUME WireGood, Reads, phase \in {"arrive"} \cup Reading, Advances
    PROVE  WireGood'
<1>1. phase' # "write" /\ phase' # "arrive"
  BY DEF Reads, Reading, Ended
<1>2. source' = source /\ config' = config /\ bytes' = bytes /\ damaged' = damaged
  BY DEF Reads
<1>3. Sent(bytes, source, EncodingOf(config), damaged)
  BY Zenon DEF WireGood
<1>4. phase' \in Reading => InSection(phase', source, encoding', loaded', at', left')
  BY Zenon DEF Advances
<1> QED
  BY <1>1, <1>2, <1>3, <1>4, Zenon DEF WireGood, Advances

\* Undamaged bytes are whole.
LEMMA SentWhole ==
    ASSUME NEW b, NEW m, NEW e, Sent(b, m, e, FALSE)
    PROVE  IsWhole(b, 1, Len(ModuleBytes(m, e)))
<1>1. b = ModuleBytes(m, e) /\ b \in Seq(Byte)
  BY DEF Sent, Holds
<1>2. PICK n \in Nat : n = Len(b)
  BY <1>1
<1>3. 1 + n <= n + 1
  OBVIOUS
<1> QED
  BY <1>1, <1>2, <1>3, Zenon DEF IsWhole

\* The number of items of a section is read back.
LEMMA CountIn ==
    ASSUME NEW m \in BytecodeModule, NEW e, IsDecodable(e), NEW b, NEW cut \in BOOLEAN, Sent(b, m, e, cut),
           NEW p \in Reading, NEW count, count = ReadCount(b, Start(m, e, p))
    PROVE  /\ count.at = 0 => cut
           /\ count.at # 0 => /\ count.at = PlaceIn(Start(m, e, p), Entries(m, e, p), 0)
                              /\ count.v = Len(m[p])
<1>1. IsWritable(m, e) /\ Holds(b, 1, ModuleBytes(m, e))
  BY DEF Sent
<1>2. Framed(b, m, e, p)
  BY <1>1, SectionsFramed
<1>3. PICK s, items, n : s = Start(m, e, p) /\ items = Entries(m, e, p) /\ n = Len(m[p])
  OBVIOUS
<1>4. Listable(items, n) /\ Holds(b, s, Listed(items))
  BY <1>2, <1>3 DEF Framed
<1>5. AreItemsAt(b, s, items, n)
  BY <1>4, ListedPlaces
<1>6. Reached(count, b, s, Varint[n], n, Len(Listed(items))) /\ PlaceIn(s, items, 0) = s + Len(Varint[n])
  BY <1>3, <1>5, Zenon DEF AreItemsAt
<1>7. ASSUME count.at = 0, ~cut PROVE FALSE
  <2>1. cut = FALSE
    BY <1>7
  <2>2. IsWhole(b, 1, Len(ModuleBytes(m, e)))
    BY <2>1, SentWhole
  <2>3. IsWhole(b, s, Len(Listed(items)))
    BY <1>2, <1>3, <2>2, Zenon DEF Framed
  <2> QED
    BY <1>6, <1>7, <2>3, Zenon DEF Reached
<1>8. ASSUME count.at # 0 PROVE count.at = PlaceIn(s, items, 0) /\ count.v = n
  BY <1>6, <1>8, Zenon DEF Reached
<1> QED
  BY <1>3, <1>7, <1>8, Zenon

\* The next item is where the reader is.
IsNext(b, m, e, p, a, k, l, cut) ==
    /\ Holds(b, a, Entries(m, e, p)[k + 1]) /\ a \in Nat \ {0}
    /\ PlaceIn(Start(m, e, p), Entries(m, e, p), Len(m[p]) - (l - 1)) = a + Len(Entries(m, e, p)[k + 1])
    /\ k + 1 \in 1..Len(m[p]) /\ l - 1 \in 0..Len(m[p])
    /\ cut \/ IsWhole(b, a, Len(Entries(m, e, p)[k + 1]))

\* The next item of a section is where the reader is.
LEMMA ItemIn ==
    ASSUME NEW m \in BytecodeModule, NEW e, IsDecodable(e), NEW b, NEW cut \in BOOLEAN, Sent(b, m, e, cut),
           NEW p \in Reading, NEW l, l \in 0..Len(m[p]), l > 0, NEW k, k = Len(m[p]) - l,
           NEW a, a = PlaceIn(Start(m, e, p), Entries(m, e, p), k)
    PROVE  k \in Nat /\ IsNext(b, m, e, p, a, k, l, cut)
<1>1. IsWritable(m, e) /\ Holds(b, 1, ModuleBytes(m, e))
  BY DEF Sent
<1>2. Framed(b, m, e, p)
  BY <1>1, SectionsFramed
<1>3. PICK s, items : s = Start(m, e, p) /\ items = Entries(m, e, p)
  OBVIOUS
<1>4. PICK n \in Nat : n = Len(m[p])
  BY ModuleSections
<1>5. Listable(items, n) /\ Holds(b, s, Listed(items))
  BY <1>2, <1>3, <1>4 DEF Framed
<1>6. AreItemsAt(b, s, items, n)
  BY <1>5, ListedPlaces
<1>7. PICK j \in 1..n : j = k + 1 /\ j - 1 = k /\ n - (l - 1) = j /\ k \in 0..n /\ l - 1 \in 0..n /\ k \in Nat
  <2>1. l \in 0..n /\ l > 0 /\ k = n - l
    BY <1>4
  <2>2. k + 1 \in 1..n /\ (k + 1) - 1 = k /\ n - (l - 1) = k + 1 /\ k \in 0..n /\ l - 1 \in 0..n /\ k \in Nat
    BY <2>1
  <2> QED
    BY <2>2
<1>8. /\ Holds(b, PlaceIn(s, items, j - 1), items[j])
      /\ PlaceIn(s, items, j) = PlaceIn(s, items, j - 1) + Len(items[j])
      /\ IsWhole(b, s, Len(Listed(items))) => IsWhole(b, PlaceIn(s, items, j - 1), Len(items[j]))
      /\ PlaceIn(s, items, k) \in Nat \ {0}
  BY <1>6, <1>7, Zenon DEF AreItemsAt
<1>9. a = PlaceIn(s, items, j - 1) /\ a \in Nat \ {0}
  BY <1>3, <1>7, <1>8, Zenon
<1>10. ASSUME ~cut PROVE IsWhole(b, a, Len(items[j]))
  <2>1. cut = FALSE
    BY <1>10
  <2>2. IsWhole(b, 1, Len(ModuleBytes(m, e)))
    BY <2>1, SentWhole
  <2>3. IsWhole(b, s, Len(Listed(items)))
    BY <1>2, <1>3, <2>2, Zenon DEF Framed
  <2> QED
    BY <1>8, <1>9, <2>3, Zenon
<1> QED
  BY <1>3, <1>4, <1>7, <1>8, <1>9, <1>10, Zenon DEF IsNext

\* There are as many items as were read.
LEMMA PartLength ==
    ASSUME NEW m \in BytecodeModule, NEW p \in Items3, NEW l, l \in 0..Len(m[p]), NEW w, IsPartOf(w, m, p, l)
    PROVE  Len(w[p]) = Len(m[p]) - l
<1>1. p \in Reading /\ p \notin Earlier(p)
  BY DEF Items3, Reading, Earlier
<1>2. Done(p, l, m, p) = Len(m[p]) - l
  BY <1>1, Zenon DEF Done
<1>3. PICK S : m[p] \in Seq(S)
  BY <1>1, ModuleSections
<1>4. PICK s \in Seq(S), n \in Nat : s = m[p] /\ n = Len(s)
  BY <1>3
<1>5. w[p] = SubSeq(s, 1, n - l)
  BY <1>2, <1>4, Zenon DEF IsPartOf
<1>6. Len(SubSeq(s, 1, n - l)) = n - l
  BY <1>4
<1> QED
  BY <1>4, <1>5, <1>6

\* The sections that follow.
LEMMA GoodBegin ==
    ASSUME WireInv, WireGood, phase = "arrive", Begin(EncodingOf(config))
    PROVE  WireGood'
<1>1. PICK m, e : m = source /\ e = EncodingOf(config)
  OBVIOUS
<1>2. m \in BytecodeModule /\ IsDecodable(e) /\ bytes \in Seq(Byte) /\ damaged \in BOOLEAN
  BY <1>1, Coded DEF WireInv
<1>3. Sent(bytes, m, e, damaged)
  BY <1>1, Zenon DEF WireGood
<1>4. PICK head, count : head = ReadHead(bytes) /\ count = ReadCount(bytes, head.at)
  OBVIOUS
<1>5. /\ encoding' = e /\ at' = count.at /\ left' = count.v
      /\ phase' = IF count.at = At0 THEN "refused" ELSE "names"
      /\ loaded' = IF head.at = At0 THEN Empty
                   ELSE [Empty EXCEPT !.kind = head.v.kind, !.externs = head.v.externs]
      /\ UNCHANGED <<source, config, bytes, seed, damaged>>
  BY <1>1, <1>4, Zenon DEF Begin
<1>6. Reads
  BY <1>5 DEF Reads, Reading, Ended
<1>7. IsWritable(m, e) /\ Holds(bytes, 1, ModuleBytes(m, e))
  BY <1>3 DEF Sent
<1>8. /\ Holds(bytes, 1, HeadOf(m))
      /\ IsWhole(bytes, 1, Len(ModuleBytes(m, e))) => IsWhole(bytes, 1, Len(HeadOf(m)))
  BY <1>2, <1>7, SectionsFramed
<1>9. HeadBack(head, m, bytes)
  BY <1>2, <1>4, <1>8, HeadReads
<1>10. "names" \in Reading /\ Start(m, e, "names") = 1 + Len(HeadOf(m)) /\ "refused" \notin Reading
  BY DEF Reading, Start, Before
<1>11. Advances
  <2>1. CASE head.at = 0
    <3>1. ~IsWhole(bytes, 1, Len(HeadOf(m))) \/ ~(m.externs <= MaxExterns)
      BY <1>9, <2>1, Zenon DEF HeadBack
    <3>2. damaged \/ ~IsSendable(m, e)
      <4>1. CASE damaged
        BY <4>1
      <4>2. CASE damaged = FALSE
        <5>1. IsWhole(bytes, 1, Len(ModuleBytes(m, e)))
          BY <1>3, <4>2, SentWhole
        <5> QED
          BY <1>8, <3>1, <5>1, Zenon DEF IsSendable
      <4> QED
        BY <1>2, <4>1, <4>2
    <3>3. count.at = 0
      <4>1. ReadVarint(bytes, 0) = Failed /\ Failed.at = 0
        BY <1>2, NothingReads
      <4> QED
        BY <1>4, <2>1, <4>1 DEF ReadCount, At0
    <3>4. phase' = "refused"
      BY <1>5, <3>3 DEF At0
    <3>5. phase' \notin Reading /\ phase' # "loaded"
      BY <3>4 DEF Reading
    <3> QED
      BY <1>1, <3>2, <3>5, Zenon DEF Advances
  <2>2. CASE head.at # 0 /\ count.at = 0
    <3>1. head.at = Start(m, e, "names")
      BY <1>9, <1>10, <2>2, Zenon DEF HeadBack
    <3>2. count = ReadCount(bytes, Start(m, e, "names"))
      BY <1>4, <3>1, Zenon
    <3>3. damaged
      BY <1>2, <1>3, <1>10, <2>2, <3>2, CountIn
    <3>4. phase' = "refused"
      BY <1>5, <2>2 DEF At0
    <3>5. phase' \notin Reading /\ phase' # "loaded"
      BY <3>4 DEF Reading
    <3> QED
      BY <3>3, <3>5, Zenon DEF Advances
  <2>3. CASE head.at # 0 /\ count.at # 0
    <3>1. head.at = Start(m, e, "names") /\ head.v.kind = m.kind /\ head.v.externs = m.externs
      BY <1>9, <1>10, <2>3, Zenon DEF HeadBack
    <3>2. count = ReadCount(bytes, Start(m, e, "names"))
      BY <1>4, <3>1, Zenon
    <3>3. /\ count.at = PlaceIn(Start(m, e, "names"), Entries(m, e, "names"), 0)
          /\ count.v = Len(m["names"])
      BY <1>2, <1>3, <1>10, <2>3, <3>2, CountIn
    <3>4. PICK n \in Nat : n = Len(m.names)
      BY <1>2, <1>10, ModuleSections
    <3>5. n - n = 0 /\ n \in 0..n
      OBVIOUS
    <3>6. PICK v : v = [Empty EXCEPT !.kind = head.v.kind, !.externs = head.v.externs]
      OBVIOUS
    <3>7. IsPartOf(v, m, "names", n)
      BY <1>2, <3>1, <3>4, <3>6, PartBegins
    <3>8. loaded' = v /\ phase' = "names" /\ left' = n
      <4>1. loaded' = v
        BY <1>5, <2>3, <3>6, Zenon DEF At0
      <4>2. phase' = "names" /\ left' = n
        BY <1>5, <2>3, <3>3, <3>4 DEF At0
      <4> QED
        BY <4>1, <4>2
    <3>9. InSection("names", m, e, loaded', at', left')
      BY <1>5, <3>3, <3>4, <3>5, <3>7, <3>8, Zenon DEF InSection
    <3>10. phase' # "loaded" /\ phase' # "refused"
      BY <3>8
    <3> QED
      BY <1>1, <1>5, <3>8, <3>9, <3>10, Zenon DEF Advances
  <2> QED
    BY <2>1, <2>2, <2>3
<1> QED
  BY <1>6, <1>11, GoodAdvance

\* What is read of an item is the item.
LEMMA GoodTake ==
    ASSUME WireInv, WireGood, NEW p \in Items3, NEW item, Take(p, item), NEW k, k = Len(source[p]) - left,
           IsNext(bytes, source, EncodingOf(config), p, at, k, left, damaged)
                => ReadsBack(item, bytes, at, Len(Entries(source, EncodingOf(config), p)[k + 1]), source[p][k + 1])
    PROVE  WireGood'
<1>1. PICK m, e : m = source /\ e = EncodingOf(config)
  OBVIOUS
<1>2. m \in BytecodeModule /\ IsDecodable(e) /\ bytes \in Seq(Byte) /\ damaged \in BOOLEAN
      /\ DOMAIN loaded = ModuleFields
  BY <1>1, Coded DEF WireInv, IsLoaded
<1>3. p \in Reading /\ p # "arrive" /\ p # "write" /\ p # "refused" /\ p # "loaded"
  BY DEF Items3, Reading
<1>4. /\ phase = p /\ left > 0 /\ at' = item.at /\ left' = left - 1
      /\ phase' = IF item.at = At0 THEN "refused" ELSE phase
      /\ loaded' = [loaded EXCEPT ![p] = IF item.at = At0 THEN @ ELSE Append(@, item.v)]
      /\ UNCHANGED <<source, config, bytes, seed, damaged, encoding>>
  BY DEF Take
<1>5. Sent(bytes, m, e, damaged) /\ encoding = e /\ InSection(p, m, e, loaded, at, left)
  BY <1>1, <1>3, <1>4, Zenon DEF WireGood
<1>6. /\ left \in 0..Len(m[p]) /\ IsPartOf(loaded, m, p, left)
      /\ at = PlaceIn(Start(m, e, p), Entries(m, e, p), k)
  BY <1>1, <1>5, Zenon DEF InSection
<1>7. k \in Nat /\ IsNext(bytes, m, e, p, at, k, left, damaged)
  BY <1>1, <1>2, <1>3, <1>4, <1>5, <1>6, ItemIn
<1>8. PICK length \in Nat : length = Len(Entries(m, e, p)[k + 1])
  <2>1. Entries(m, e, p)[k + 1] \in Seq(Byte)
    BY <1>7 DEF IsNext, Holds
  <2> QED
    BY <2>1
<1>9. ReadsBack(item, bytes, at, length, m[p][k + 1])
  BY <1>1, <1>7, <1>8, Zenon
<1>10. /\ at \in Nat \ {0}
       /\ damaged \/ IsWhole(bytes, at, length)
       /\ PlaceIn(Start(m, e, p), Entries(m, e, p), Len(m[p]) - (left - 1)) = at + length
       /\ left - 1 \in 0..Len(m[p])
  BY <1>7, <1>8, Zenon DEF IsNext
<1>13. /\ item.at = 0 => ~IsWhole(bytes, at, length)
       /\ item.at # 0 => item.at = at + length /\ item.v = m[p][k + 1]
  <2>1. PICK value : value = m[p][k + 1]
    OBVIOUS
  <2>2. bytes \in Seq(Byte) /\ at \in Nat \ {0} /\ ReadsBack(item, bytes, at, length, value)
    BY <1>2, <1>9, <1>10, <2>1, Zenon
  <2>3. CASE IsWhole(bytes, at, length)
    <3>1. item = Got(at + length, value)
      BY <2>2, <2>3 DEF ReadsBack
    <3>2. item.at = at + length /\ item.v = value
      BY <3>1 DEF Got
    <3>3. at + length # 0
      BY <2>2
    <3> QED
      BY <2>1, <3>2, <3>3
  <2>4. CASE ~IsWhole(bytes, at, length)
    <3>1. item.at = 0
      BY <2>2, <2>4 DEF ReadsBack, At0
    <3> QED
      BY <2>4, <3>1
  <2> QED
    BY <2>3, <2>4
<1>11. Reads
  BY <1>3, <1>4 DEF Reads, Ended
<1>12. Advances
  <2>1. CASE item.at = 0
    <3>1. ~IsWhole(bytes, at, length)
      BY <2>1, <1>13
    <3>2. phase' = "refused"
      BY <1>4, <2>1 DEF At0
    <3>3. phase' \notin Reading /\ phase' # "loaded"
      BY <3>2 DEF Reading
    <3> QED
      BY <1>10, <3>1, <3>3, Zenon DEF Advances
  <2>2. CASE item.at # 0
    <3>1. item.at = at + length /\ item.v = m[p][k + 1]
      BY <2>2, <1>13
    <3>2. phase' = p /\ loaded' = [loaded EXCEPT ![p] = Append(loaded[p], m[p][k + 1])]
      <4>1. item.at # At0
        BY <2>2 DEF At0
      <4>2. loaded' = [loaded EXCEPT ![p] = Append(loaded[p], item.v)]
        BY <1>4, <4>1
      <4> QED
        BY <1>4, <3>1, <4>1, <4>2, Zenon
    <3>3. PICK n \in Nat : n = Len(m[p])
      BY <1>2, <1>3, ModuleSections
    <3>4. left \in 1..n /\ k = n - left
      BY <1>1, <1>4, <1>6, <3>3
    <3>5. IsPartOf(loaded', m, p, left - 1)
      BY <1>2, <1>6, <1>7, <3>2, <3>3, <3>4, PartTakes
    <3>6. InSection(p, m, e, loaded', at', left')
      BY <1>4, <1>10, <3>1, <3>5, Zenon DEF InSection
    <3>7. phase' # "loaded" /\ phase' # "refused"
      BY <1>3, <3>2
    <3> QED
      BY <1>1, <1>4, <1>5, <3>2, <3>6, <3>7, Zenon DEF Advances
  <2> QED
    BY <2>1, <2>2
<1> QED
  BY <1>3, <1>4, <1>11, <1>12, GoodAdvance

\* A name, a function or a constant is read as it was written.
LEMMA GoodRead == ASSUME WireInv, WireGood, ReadName \/ TakeFunction \/ TakeConstant PROVE WireGood'
<1>1. PICK m, e : m = source /\ e = EncodingOf(config)
  OBVIOUS
<1>2. m \in BytecodeModule /\ IsDecodable(e)
  BY <1>1, Coded
<1>3. PICK p : p = phase
  OBVIOUS
<1>4. p \in Items3 /\ p \in Reading
  BY <1>3 DEF ReadName, TakeFunction, TakeConstant, Take, Items3, Reading
<1>5. encoding = e /\ InSection(p, m, e, loaded, at, left)
  BY <1>1, <1>3, <1>4, Zenon DEF WireGood
<1>6. PICK k : k = Len(m[p]) - left
  OBVIOUS
<1>7. Len(loaded[p]) = k
  <2>1. left \in 0..Len(m[p]) /\ IsPartOf(loaded, m, p, left)
    BY <1>5 DEF InSection
  <2> QED
    BY <1>2, <1>4, <1>6, <2>1, PartLength
<1>8. ASSUME IsNext(bytes, m, e, p, at, k, left, damaged)
      PROVE  Holds(bytes, at, Entries(m, e, p)[k + 1]) /\ k + 1 \in 1..Len(m[p])
  BY <1>8 DEF IsNext
<1>9. Len(m[p]) \in Nat /\ k \in Int /\ (k + 1) - 1 = k
  <2>1. left \in 0..Len(m[p])
    BY <1>5 DEF InSection
  <2>2. PICK n \in Nat : n = Len(m[p])
    BY <1>2, <1>4, ModuleSections
  <2>3. left \in 0..n
    BY <2>1, <2>2
  <2>4. n - left \in Int /\ ((n - left) + 1) - 1 = n - left
    BY <2>3
  <2> QED
    BY <1>6, <2>2, <2>4
<1>10. CASE ReadName
  <2>1. p = "names" /\ Take("names", ReadString(bytes, at, e.key, NameDomain, k))
    <3>1. p = "names"
      BY <1>3, <1>10 DEF ReadName, Take
    <3>2. Len(loaded.names) = k
      BY <1>7, <3>1
    <3> QED
      BY <1>5, <1>10, <3>1, <3>2, Zenon DEF ReadName
  <2>2. PICK item : item = ReadString(bytes, at, e.key, NameDomain, k)
    OBVIOUS
  <2>3. ASSUME IsNext(bytes, m, e, p, at, k, left, damaged)
        PROVE  ReadsBack(item, bytes, at, Len(Entries(m, e, p)[k + 1]), m[p][k + 1])
    <3>1. PICK j \in 1..Len(m.names) : j = k + 1
      BY <1>8, <2>1, <2>3
    <3>2. Holds(bytes, at, Entries(m, e, "names")[j])
      BY <1>8, <2>1, <2>3, <3>1, Zenon
    <3>3. ReadsBack(ReadString(bytes, at, e.key, NameDomain, j - 1), bytes, at,
                    Len(Entries(m, e, "names")[j]), m.names[j])
      BY <1>2, <3>2, NameBack
    <3> QED
      BY <1>9, <2>1, <2>2, <3>1, <3>3, Zenon
  <2> QED
    BY <1>1, <1>4, <1>6, <2>1, <2>2, <2>3, GoodTake
<1>11. CASE TakeFunction
  <2>1. p = "functions" /\ Take("functions", ReadFunction(bytes, at, e.tags))
    <3>1. p = "functions"
      BY <1>3, <1>11 DEF TakeFunction, Take
    <3> QED
      BY <1>5, <1>11, <3>1, Zenon DEF TakeFunction
  <2>2. PICK item : item = ReadFunction(bytes, at, e.tags)
    OBVIOUS
  <2>3. ASSUME IsNext(bytes, m, e, p, at, k, left, damaged)
        PROVE  ReadsBack(item, bytes, at, Len(Entries(m, e, p)[k + 1]), m[p][k + 1])
    <3>1. PICK j \in 1..Len(m.functions) : j = k + 1
      BY <1>8, <2>1, <2>3
    <3>2. Holds(bytes, at, Entries(m, e, "functions")[j])
      BY <1>8, <2>1, <2>3, <3>1, Zenon
    <3>3. ReadsBack(ReadFunction(bytes, at, e.tags), bytes, at, Len(Entries(m, e, "functions")[j]), m.functions[j])
      BY <1>2, <3>2, FunctionBack
    <3> QED
      BY <2>1, <2>2, <3>1, <3>3, Zenon
  <2> QED
    BY <1>1, <1>4, <1>6, <2>1, <2>2, <2>3, GoodTake
<1>12. CASE TakeConstant
  <2>1. p = "constants" /\ Take("constants", ReadConstant(bytes, at, k, e))
    <3>1. p = "constants"
      BY <1>3, <1>12 DEF TakeConstant, Take
    <3>2. Len(loaded.constants) = k
      BY <1>7, <3>1
    <3> QED
      BY <1>5, <1>12, <3>1, <3>2, Zenon DEF TakeConstant
  <2>2. PICK item : item = ReadConstant(bytes, at, k, e)
    OBVIOUS
  <2>3. ASSUME IsNext(bytes, m, e, p, at, k, left, damaged)
        PROVE  ReadsBack(item, bytes, at, Len(Entries(m, e, p)[k + 1]), m[p][k + 1])
    <3>1. PICK j \in 1..Len(m.constants) : j = k + 1
      BY <1>8, <2>1, <2>3
    <3>2. Holds(bytes, at, Entries(m, e, "constants")[j])
      BY <1>8, <2>1, <2>3, <3>1, Zenon
    <3>3. ReadsBack(ReadConstant(bytes, at, j - 1, e), bytes, at,
                    Len(Entries(m, e, "constants")[j]), m.constants[j])
      BY <1>2, <3>2, ConstantBack
    <3> QED
      BY <1>9, <2>1, <2>2, <3>1, <3>3, Zenon
  <2> QED
    BY <1>1, <1>4, <1>6, <2>1, <2>2, <2>3, GoodTake
<1> QED
  BY <1>10, <1>11, <1>12

\* An instruction is read as one that says the same, and brings no constant that was
\* not there.
LEMMA GoodInstruction == ASSUME WireInv, WireGood, TakeInstruction PROVE WireGood'
<1>1. PICK m, e : m = source /\ e = EncodingOf(config)
  OBVIOUS
<1>2. m \in BytecodeModule /\ IsDecodable(e) /\ bytes \in Seq(Byte) /\ damaged \in BOOLEAN
      /\ DOMAIN loaded = ModuleFields
  BY <1>1, Coded DEF WireInv, IsLoaded
<1>3. phase = "code" /\ left > 0 /\ "code" \in Reading
  BY DEF TakeInstruction, TakeDecoded, Reading
<1>4. Sent(bytes, m, e, damaged) /\ encoding = e /\ InSection("code", m, e, loaded, at, left)
  BY <1>1, <1>3, Zenon DEF WireGood
<1>5. PICK k : k = Len(m["code"]) - left
  OBVIOUS
<1>6. /\ left \in 0..Len(m["code"]) /\ IsPartOf(loaded, m, "code", left)
      /\ at = PlaceIn(Start(m, e, "code"), Entries(m, e, "code"), k)
  BY <1>4, <1>5, Zenon DEF InSection
<1>7. k \in Nat /\ IsNext(bytes, m, e, "code", at, k, left, damaged)
  BY <1>2, <1>3, <1>4, <1>5, <1>6, ItemIn
<1>8. /\ Holds(bytes, at, Entries(m, e, "code")[k + 1]) /\ at \in Nat \ {0}
      /\ PlaceIn(Start(m, e, "code"), Entries(m, e, "code"), Len(m["code"]) - (left - 1))
            = at + Len(Entries(m, e, "code")[k + 1])
      /\ k + 1 \in 1..Len(m["code"]) /\ left - 1 \in 0..Len(m["code"])
      /\ damaged \/ IsWhole(bytes, at, Len(Entries(m, e, "code")[k + 1]))
  BY <1>7, Zenon DEF IsNext
<1>9. PICK j \in 1..Len(m.code) : j = k + 1
  BY <1>8
<1>10. IsWritable(m, e)
  BY <1>4 DEF Sent
<1>11. PICK length \in Nat : length = Len(Entries(m, e, "code")[j])
  <2>1. Entries(m, e, "code")[j] \in Seq(Byte)
    BY <1>8, <1>9 DEF Holds
  <2> QED
    BY <2>1
<1>12. PICK read : read = ReadInstruction(bytes, at, m.constants, e)
  OBVIOUS
<1>13. loaded.constants = m.constants
  BY <1>2, <1>6, PartConstants
<1>14. IsRead(read, m.code[j], bytes, at, length, m.constants)
  <2>1. Holds(bytes, at, Entries(m, e, "code")[j])
    BY <1>8, <1>9, Zenon
  <2>2. IsRead(ReadInstruction(bytes, at, m.constants, e), m.code[j], bytes, at,
               Len(Entries(m, e, "code")[j]), m.constants)
    BY <1>2, <1>10, <2>1, CodeBack
  <2> QED
    BY <1>11, <1>12, <2>2, Zenon
<1>15. /\ at' = read.at /\ left' = left - 1
       /\ phase' = IF read.at = At0 THEN "refused" ELSE phase
       /\ loaded' = IF read.at = At0 THEN loaded
                    ELSE [loaded EXCEPT !.constants = read.constants,
                                        !.code = Append(@, Instr(read.op, read.args))]
       /\ UNCHANGED <<source, config, bytes, seed, damaged, encoding>>
  BY <1>4, <1>12, <1>13, Zenon DEF TakeInstruction, TakeDecoded
<1>16. Reads
  BY <1>3, <1>15 DEF Reads, Ended
<1>17. Advances
  <2>1. CASE ~IsWhole(bytes, at, length)
    <3>1. read.at = 0
      BY <1>14, <2>1, Zenon DEF IsRead
    <3>2. phase' = "refused"
      BY <1>15, <3>1 DEF At0
    <3>3. phase' \notin Reading /\ phase' # "loaded"
      BY <3>2 DEF Reading
    <3>4. damaged
      BY <1>8, <1>9, <1>11, <2>1, Zenon
    <3> QED
      BY <3>3, <3>4, Zenon DEF Advances
  <2>2. CASE IsWhole(bytes, at, length)
    <3>1. read.at = at + length /\ read.constants = m.constants
      BY <1>14, <2>2, Zenon DEF IsRead
    <3>2. read.at # At0
      BY <1>8, <1>11, <3>1 DEF At0
    <3>3. PICK i : i = Instr(read.op, read.args)
      OBVIOUS
    <3>4. m.code[j] \in BytecodeInstruction
      BY <1>2, <1>9 DEF BytecodeModule
    <3>5. Meaning(i, m.constants) = Meaning(m.code[j], m.constants)
      BY <1>14, <2>2, <3>3, <3>4, MeaningKept
    <3>6. PICK v : v = [loaded EXCEPT !.constants = m.constants, !.code = Append(loaded.code, i)]
      OBVIOUS
    <3>7. loaded' = v /\ phase' = "code"
      <4>1. loaded' = [loaded EXCEPT !.constants = read.constants, !.code = Append(@, i)]
        BY <1>15, <3>2, <3>3
      <4>2. "code" # "constants"
        OBVIOUS
      <4>3. [loaded EXCEPT !.constants = m.constants, !.code = Append(@, i)] = v
        BY <3>6
      <4> QED
        BY <1>3, <1>15, <3>1, <3>2, <4>1, <4>3, Zenon
    <3>8. PICK n \in Nat : n = Len(m.code)
      BY <1>2, <1>3, ModuleSections
    <3>9. left \in 1..n /\ k = n - left
      BY <1>3, <1>5, <1>6, <3>8
    <3>10. Meaning(i, m.constants) = Meaning(m.code[k + 1], m.constants)
      BY <1>9, <3>5, Zenon
    <3>11. IsPartOf(loaded', m, "code", left - 1)
      <4>1. IsPartOf(v, m, "code", left - 1)
        BY <1>2, <1>6, <1>7, <3>6, <3>8, <3>9, <3>10, PartDecodes
      <4> QED
        BY <3>7, <4>1, Zenon
    <3>12. InSection("code", m, e, loaded', at', left')
      BY <1>8, <1>9, <1>11, <1>15, <3>1, <3>11, Zenon DEF InSection
    <3>13. phase' # "loaded" /\ phase' # "refused"
      BY <3>7
    <3> QED
      BY <1>1, <1>4, <1>15, <3>7, <3>12, <3>13, Zenon DEF Advances
  <2> QED
    BY <2>1, <2>2
<1> QED
  BY <1>3, <1>16, <1>17, GoodAdvance

\* The next section.
LEMMA GoodSection ==
    ASSUME WireInv, WireGood, NEW p, NEW q,
           \/ p = "names" /\ q = "functions"
           \/ p = "functions" /\ q = "constants"
           \/ p = "constants" /\ q = "code",
           NextSection(p, q)
    PROVE  WireGood'
<1>1. PICK m, e : m = source /\ e = EncodingOf(config)
  OBVIOUS
<1>2. m \in BytecodeModule /\ IsDecodable(e) /\ damaged \in BOOLEAN
  BY <1>1, Coded DEF WireInv
<1>3. p \in Reading /\ q \in Reading /\ q # "loaded" /\ q # "refused"
  BY DEF Reading
<1>4. phase = p /\ left = 0
  BY DEF NextSection
<1>5. Sent(bytes, m, e, damaged) /\ encoding = e /\ InSection(p, m, e, loaded, at, left)
  BY <1>1, <1>3, <1>4, Zenon DEF WireGood
<1>6. PICK n \in Nat : n = Len(m[p])
  BY <1>2, <1>3, ModuleSections
<1>7. PICK l \in Nat : l = Len(m[q])
  BY <1>2, <1>3, ModuleSections
<1>8. IsPartOf(loaded, m, p, 0) /\ at = PlaceIn(Start(m, e, p), Entries(m, e, p), n)
  <2>1. n - 0 = n
    OBVIOUS
  <2> QED
    BY <1>4, <1>5, <1>6, <2>1, Zenon DEF InSection
<1>9. IsPartOf(loaded, m, q, l)
  BY <1>2, <1>7, <1>8, PartTurns
<1>10. at = Start(m, e, q)
  <2>1. IsWritable(m, e) /\ Holds(bytes, 1, ModuleBytes(m, e))
    BY <1>5 DEF Sent
  <2>2. /\ Framed(bytes, m, e, p)
        /\ Start(m, e, "functions") = Behind(m, e, "names")
        /\ Start(m, e, "constants") = Behind(m, e, "functions")
        /\ Start(m, e, "code") = Behind(m, e, "constants")
    BY <1>2, <1>3, <2>1, SectionsFramed
  <2>3. Start(m, e, q) = Behind(m, e, p)
    BY <2>2
  <2>4. Listable(Entries(m, e, p), n) /\ Holds(bytes, Start(m, e, p), Listed(Entries(m, e, p)))
    BY <1>6, <2>2 DEF Framed
  <2>5. AreItemsAt(bytes, Start(m, e, p), Entries(m, e, p), n)
    BY <2>4, ListedPlaces
  <2>6. at = Behind(m, e, p)
    BY <1>8, <2>5, Zenon DEF AreItemsAt, Behind
  <2> QED
    BY <2>3, <2>6
<1>11. PICK count : count = ReadCount(bytes, Start(m, e, q))
  OBVIOUS
<1>12. /\ count.at = 0 => damaged
       /\ count.at # 0 => count.at = PlaceIn(Start(m, e, q), Entries(m, e, q), 0) /\ count.v = l
  BY <1>2, <1>3, <1>5, <1>7, <1>11, CountIn
<1>13. /\ at' = count.at /\ left' = count.v
       /\ phase' = IF count.at = At0 THEN "refused" ELSE q
       /\ UNCHANGED <<source, config, bytes, seed, damaged, encoding, loaded>>
  BY <1>10, <1>11, Zenon DEF NextSection
<1>14. Reads
  BY <1>3, <1>13 DEF Reads, Ended
<1>15. Advances
  <2>1. CASE count.at = 0
    <3>1. phase' = "refused"
      BY <1>13, <2>1 DEF At0
    <3>2. phase' \notin Reading /\ phase' # "loaded"
      BY <3>1 DEF Reading
    <3> QED
      BY <1>12, <2>1, <3>2, Zenon DEF Advances
  <2>2. CASE count.at # 0
    <3>1. phase' = q
      BY <1>13, <2>2 DEF At0
    <3>2. l - l = 0 /\ l \in 0..l
      OBVIOUS
    <3>3. InSection(q, m, e, loaded', at', left')
      BY <1>7, <1>9, <1>12, <1>13, <2>2, <3>2, Zenon DEF InSection
    <3> QED
      BY <1>1, <1>3, <1>5, <1>13, <3>1, <3>3, Zenon DEF Advances
  <2> QED
    BY <2>1, <2>2
<1> QED
  BY <1>3, <1>4, <1>14, <1>15, GoodAdvance

\* The end: nothing is left over if nothing was damaged, and something is missing or left
\* over if it was.
LEMMA GoodFinish == ASSUME WireInv, WireGood, Finish PROVE WireGood'
<1>1. PICK m, e : m = source /\ e = EncodingOf(config)
  OBVIOUS
<1>2. m \in BytecodeModule /\ IsDecodable(e) /\ IsEncoding(e) /\ damaged \in BOOLEAN /\ bytes \in Seq(Byte)
  BY <1>1, Coded DEF WireInv
<1>3. phase = "code" /\ left = 0 /\ "code" \in Reading
  BY DEF Finish, Reading
<1>4. Sent(bytes, m, e, damaged) /\ InSection("code", m, e, loaded, at, left)
  BY <1>1, <1>3, Zenon DEF WireGood
<1>5. PICK n \in Nat : n = Len(m.code)
  BY <1>2, <1>3, ModuleSections
<1>6. IsPartOf(loaded, m, "code", 0) /\ at = PlaceIn(Start(m, e, "code"), Entries(m, e, "code"), n)
  <2>1. n - 0 = n
    OBVIOUS
  <2> QED
    BY <1>3, <1>4, <1>5, <2>1, Zenon DEF InSection
<1>7. SaysTheSame(loaded, m)
  BY <1>2, <1>6, PartComplete
<1>8. IsWritable(m, e) /\ Holds(bytes, 1, ModuleBytes(m, e))
  BY <1>4 DEF Sent
<1>9. PICK w \in Seq(Byte) : w = ModuleBytes(m, e)
  BY <1>8 DEF Holds
<1>10. at = 1 + Len(w)
  <2>1. Framed(bytes, m, e, "code") /\ 1 + Len(ModuleBytes(m, e)) = Behind(m, e, "code")
    BY <1>2, <1>3, <1>8, SectionsFramed
  <2>2. Listable(Entries(m, e, "code"), n) /\ Holds(bytes, Start(m, e, "code"), Listed(Entries(m, e, "code")))
    BY <1>5, <2>1 DEF Framed
  <2>3. AreItemsAt(bytes, Start(m, e, "code"), Entries(m, e, "code"), n)
    BY <2>2, ListedPlaces
  <2> QED
    BY <1>6, <1>9, <2>1, <2>3, Zenon DEF AreItemsAt, Behind
<1>11. PICK a \in Nat, b \in Nat : a = Len(w) /\ b = Len(bytes)
  BY <1>2
<1>12. ExpectEnd <=> a = b
  <2>1. Remaining(bytes, at) = b + 1 - (1 + a)
    BY <1>10, <1>11 DEF Remaining
  <2>2. b + 1 - (1 + a) = 0 <=> a = b
    OBVIOUS
  <2> QED
    BY <2>1, <2>2 DEF ExpectEnd
<1>13. ExpectEnd <=> ~damaged
  <2>1. CASE damaged
    <3>1. b # a
      BY <1>4, <1>9, <1>11, <2>1 DEF Sent
    <3> QED
      BY <1>12, <2>1, <3>1
  <2>2. CASE ~damaged
    <3>1. bytes = w
      BY <1>4, <1>9, <2>2, Zenon DEF Sent
    <3> QED
      BY <1>11, <1>12, <2>2, <3>1
  <2> QED
    BY <2>1, <2>2
<1>14. /\ phase' = IF ExpectEnd THEN "loaded" ELSE "refused"
       /\ loaded' = loaded /\ source' = source /\ config' = config /\ bytes' = bytes
       /\ seed' = seed /\ damaged' = damaged
  BY Zenon DEF Finish, reader
<1>15. Reads
  BY <1>14 DEF Reads, Ended
<1>16. Advances
  <2>1. phase' \notin Reading
    BY <1>14 DEF Reading
  <2>2. phase' = "loaded" => ~damaged
    BY <1>13, <1>14
  <2>3. phase' = "refused" => damaged
    BY <1>13, <1>14
  <2> QED
    BY <1>1, <1>7, <1>14, <2>1, <2>2, <2>3, Zenon DEF Advances
<1> QED
  BY <1>3, <1>15, <1>16, GoodAdvance

\* A seed that is refused is not the one of what arrives.
LEMMA GoodRefuse == ASSUME WireInv, WireGood, RefuseSeed PROVE WireGood'
<1>1. PICK m, e : m = source /\ e = EncodingOf(config)
  OBVIOUS
<1>2. /\ phase = "arrive" /\ ~Fits(seed, bytes) /\ phase' = "refused"
      /\ UNCHANGED <<source, config, bytes, seed, damaged>>
  BY DEF RefuseSeed
<1>3. Sent(bytes, m, e, damaged) /\ seed = PairedSeed(config, ModuleBytes(m, e))
  BY <1>1, <1>2, Zenon DEF WireGood
<1>4. ASSUME ~damaged PROVE FALSE
  <2>1. bytes = ModuleBytes(m, e)
    BY <1>3, <1>4, Zenon DEF Sent
  <2>2. seed.fingerprint = Fingerprint(Sections(config), bytes) /\ seed.sections = Sections(config)
    BY <1>3, <2>1 DEF PairedSeed
  <2>3. AreSections(Sections(config))
    BY Configured DEF WireInv
  <2> QED
    BY <1>2, <2>2, <2>3, Zenon DEF Fits
<1>5. Reads
  BY <1>2 DEF Reads, Ended
<1>6. phase' \notin Reading /\ phase' # "loaded"
  BY <1>2 DEF Reading
<1>7. Advances
  BY <1>4, <1>6, Zenon DEF Advances
<1> QED
  BY <1>2, <1>5, <1>7, GoodAdvance

\* Every step keeps the second invariant.
LEMMA GoodNext == WireInv /\ WireGood /\ [Next]_vars => WireGood'
<1> SUFFICES ASSUME WireInv, WireGood, [Next]_vars PROVE WireGood'
  OBVIOUS
<1>1. ASSUME Write PROVE WireGood'
  BY <1>1, GoodWrite
<1>2. ASSUME Cut \/ Extend PROVE WireGood'
  BY <1>2, GoodDamage
<1>3. ASSUME Open PROVE WireGood'
  <2>1. phase = "arrive" /\ Begin(EncodingOf(config))
    BY <1>3 DEF Open
  <2> QED
    BY <2>1, GoodBegin
<1>4. ASSUME OpenWithSeed PROVE WireGood'
  <2>1. config \in Configs /\ seed.sections = Sections(config)
    BY DEF WireInv
  <2>2. FromSections(seed.sections) = config
    BY <2>1, Configured
  <2>3. phase = "arrive" /\ Begin(EncodingOf(config))
    BY <1>4, <2>2, Zenon DEF OpenWithSeed
  <2> QED
    BY <2>3, GoodBegin
<1>5. ASSUME RefuseSeed PROVE WireGood'
  BY <1>5, GoodRefuse
<1>6. ASSUME ReadName \/ TakeFunction \/ TakeConstant PROVE WireGood'
  BY <1>6, GoodRead
<1>7. ASSUME TakeInstruction PROVE WireGood'
  BY <1>7, GoodInstruction
<1>8. ASSUME NextSection("names", "functions") PROVE WireGood'
  BY <1>8, GoodSection
<1>9. ASSUME NextSection("functions", "constants") PROVE WireGood'
  BY <1>9, GoodSection
<1>10. ASSUME NextSection("constants", "code") PROVE WireGood'
  BY <1>10, GoodSection
<1>11. ASSUME Finish PROVE WireGood'
  BY <1>11, GoodFinish
<1>12. ASSUME UNCHANGED vars PROVE WireGood'
  <2>1. /\ phase' = phase /\ source' = source /\ config' = config /\ bytes' = bytes
        /\ seed' = seed /\ damaged' = damaged
        /\ encoding' = encoding /\ at' = at /\ left' = left /\ loaded' = loaded
    BY <1>12 DEF vars, reader
  <2> QED
    BY <2>1, Zenon DEF WireGood
<1> QED
  <2>1. \/ Write \/ (Cut \/ Extend) \/ Open \/ OpenWithSeed \/ RefuseSeed
        \/ (ReadName \/ TakeFunction \/ TakeConstant) \/ TakeInstruction
        \/ NextSection("names", "functions") \/ NextSection("functions", "constants")
        \/ NextSection("constants", "code") \/ Finish \/ UNCHANGED vars
    BY Zenon DEF Next, Rest
  <2> QED
    BY <1>1, <1>2, <1>3, <1>4, <1>5, <1>6, <1>7, <1>8, <1>9, <1>10, <1>11, <1>12, <2>1, Zenon

-----------------------------------------------------------------------------
(* The theorems.                                                           *)

\* The seed is the one of the configuration, undamaged bytes are those of the module,
\* and the reader goes from one place in them to another.
THEOREM WireInvariant == Spec => []WireInv
BY WireStart, WireNext, PTL DEF Spec

\* Whatever arrives, no place that the reader is at lies beyond it and no section is
\* taken to have more items than there are bytes (read_bounded_count).
THEOREM PlacesBounded == Spec => []TypeOK
<1>1. WireInv => TypeOK
  <2> SUFFICES ASSUME WireInv PROVE TypeOK
    OBVIOUS
  <2>1. at \in 0..(Len(bytes) + 1)
    BY DEF WireInv, IsPlace
  <2>2. loaded.externs \in 0..MaxExterns
    BY Zenon DEF WireInv, IsLoaded
  <2>3. /\ phase \in Sending \cup Reading \cup Ended /\ damaged \in BOOLEAN
        /\ left \in 0..Len(bytes)
    BY Zenon DEF WireInv
  <2> QED
    BY <2>1, <2>2, <2>3, Zenon DEF TypeOK
<1> QED
  BY <1>1, WireInvariant, PTL

\* The seed that is made for a configuration (ObfuscationSeed::from_config) is accepted
\* and read as that configuration (validate_seed_permutation,
\* obfuscation_config_from_seed_permutation), in whatever order its codes and slots are.
THEOREM SeedsRestore == Spec => []SeedRestores
<1>1. WireInv => SeedRestores
  <2> SUFFICES ASSUME WireInv PROVE SeedRestores
    OBVIOUS
  <2>1. config \in Configs /\ seed.sections = Sections(config)
    BY DEF WireInv
  <2>2. AreSections(seed.sections) /\ FromSections(seed.sections) = config
    BY <2>1, Configured
  <2> QED
    BY <2>2 DEF SeedRestores
<1> QED
  BY <1>1, WireInvariant, PTL

\* The profile of any module that can be written (bytes_profile_with_encoding) accounts
\* for each of its bytes once.
THEOREM ProfileExact == Spec => []ProfileAddsUp
<1>1. WireInv => ProfileAddsUp
  <2> SUFFICES ASSUME WireInv, phase = "arrive", ~damaged
               PROVE  /\ Total(Profile(source, EncodingOf(config)).sections) = Len(bytes)
                      /\ \A k \in DOMAIN source.code :
                            Profile(source, EncodingOf(config)).opcodes[k] =
                                1 + Total(Profile(source, EncodingOf(config)).operands[k])
    BY Zenon DEF ProfileAddsUp
  <2>1. PICK e : e = EncodingOf(config)
    OBVIOUS
  <2>2. /\ source \in BytecodeModule /\ IsEncoding(e) /\ IsWritable(source, e)
        /\ bytes = ModuleBytes(source, e)
    BY <2>1, ModulesAssumption, Configured DEF WireInv
  <2>3. Total(Profile(source, e).sections) = Len(bytes)
    BY <2>2, ModuleType
  <2>4. ASSUME NEW k \in DOMAIN source.code
        PROVE  Profile(source, e).opcodes[k] = 1 + Total(Profile(source, e).operands[k])
    <3>1. PICK sizes : sizes = Sizes(CodeBytes(source, e))
      OBVIOUS
    <3>2. Profile(source, e).opcodes = sizes
      BY <3>1 DEF Profile
    <3>3. Profile(source, e).operands[k] = ProfileInstruction(source.code[k], source.constants, e)
      BY DEF Profile
    <3>4. sizes[k] = 1 + Total(ProfileInstruction(source.code[k], source.constants, e))
      BY <2>2, <3>1, CodeType
    <3> QED
      BY <3>2, <3>3, <3>4, Zenon
  <2> QED
    BY <2>1, <2>3, <2>4, Zenon
<1> QED
  BY <1>1, WireInvariant, PTL

\* At every item of every section the reader is where that item was written and has all
\* that was written before it; what is loaded is the whole, and nothing that is whole and
\* not too large is refused (to_bytes_with_encoding and from_bytes_with_encoding).
THEOREM ReadAsWritten == Spec => []WireGood
<1>1. Init => WireInv /\ WireGood
  BY WireStart, GoodStart
<1>2. (WireInv /\ WireGood) /\ [Next]_vars => (WireInv /\ WireGood)'
  BY WireNext, GoodNext
<1> QED
  BY <1>1, <1>2, PTL DEF Spec

\* Bytes that were cut or extended are never taken for a module, whatever the module, the
\* configuration and the place of the cut (expect_end, and read_bytes at the end).
THEOREM DamageNeverLoaded == Spec => []DamageRefused
<1>1. WireGood => DamageRefused
  BY Zenon DEF WireGood, DamageRefused
<1> QED
  BY <1>1, ReadAsWritten, PTL

\* The readers invert the writers: what arrives as it was written is loaded as a module that
\* says the same, for every module, and is refused only if it could not be written or has
\* too many external slots (from_bytes_with_seed of to_bytes_with_encoding).
THEOREM RoundTrip == Spec => []LoadedAsWritten
<1>1. WireGood => LoadedAsWritten
  BY Zenon DEF WireGood, LoadedAsWritten
<1> QED
  BY <1>1, ReadAsWritten, PTL

\* The bytes before the instructions are as many as the ranges say.
LEMMA BeforeRanges ==
    ASSUME NEW m \in BytecodeModule, NEW e, IsEncoding(e), IsWritable(m, e)
    PROVE  /\ Total(Sizes(HeadBytes(m, e))) \in Nat /\ VarintLength[Len(m.code)] \in Nat
           /\ Start(m, e, "code") = 1 + Total(Sizes(HeadBytes(m, e)))
           /\ Entries(m, e, "code") = CodeBytes(m, e) /\ Len(CodeBytes(m, e)) = Len(m.code)
           /\ \A k \in 0..Len(m.code) : TotalUpto(Sizes(CodeBytes(m, e)))[k] \in Nat
<1>1. PICK pieces \in Seq(Seq(Byte)) : pieces = HeadBytes(m, e)
  BY HeadType
<1>2. Len(FlattenSeq(pieces)) = Total(Sizes(pieces)) /\ Total(Sizes(pieces)) \in Nat
  BY Flatten, SizesType, TotalType
<1>3. "code" # "names" /\ "code" # "functions" /\ "code" # "constants"
  OBVIOUS
<1>4. Start(m, e, "code") = 1 + Total(Sizes(HeadBytes(m, e)))
  <2>1. Before(m, e, "code") = BeforeCode(m, e)
    BY <1>3, Zenon DEF Before
  <2>2. BeforeCode(m, e) = FlattenSeq(pieces)
    BY <1>1, ModuleIs
  <2> QED
    BY <1>1, <1>2, <2>1, <2>2, Zenon DEF Start
<1>5. Entries(m, e, "code") = CodeBytes(m, e)
  BY <1>3, Zenon DEF Entries
<1>6. PICK codes \in Seq(Seq(Byte)) : codes = CodeBytes(m, e) /\ Len(codes) = Len(m.code)
  BY CodeType
<1>7. \A k \in 0..Len(codes) : TotalUpto(Sizes(codes))[k] \in Nat
  <2>1. Sizes(codes) \in Seq(Nat) /\ Len(Sizes(codes)) = Len(codes)
    BY SizesType
  <2> QED
    BY <2>1, TotalType
<1>8. VarintLength[Len(m.code)] \in Nat
  <2>1. U32(Len(m.code))
    BY DEF BytecodeModule
  <2>2. Varint[Len(m.code)] \in Seq(Byte) /\ Len(Varint[Len(m.code)]) = VarintLength[Len(m.code)]
    BY <2>1, VarintType
  <2> QED
    BY <2>2
<1> QED
  BY <1>1, <1>2, <1>4, <1>5, <1>6, <1>7, <1>8, Zenon

\* The ranges of the source map (instruction_byte_ranges_with_encoding) are where the
\* reader of any module is when it reads the instructions.
THEOREM RangesExact == Spec => []RangesAsRead
<1>1. WireInv /\ WireGood => RangesAsRead
  <2> SUFFICES ASSUME WireInv, WireGood, phase = "code", ~damaged
               PROVE  /\ left > 0 => at = Ranges(source, EncodingOf(config))[Len(loaded.code) + 1][1] + 1
                      /\ Len(loaded.code) > 0 => at = Ranges(source, EncodingOf(config))[Len(loaded.code)][2] + 1
    BY Zenon DEF RangesAsRead
  <2>1. PICK m, e : m = source /\ e = EncodingOf(config)
    OBVIOUS
  <2>2. m \in BytecodeModule /\ IsEncoding(e)
    BY <2>1, Coded
  <2>3. "code" \in Reading
    BY DEF Reading
  <2>4. Sent(bytes, m, e, damaged) /\ InSection("code", m, e, loaded, at, left)
    BY <2>1, <2>3, Zenon DEF WireGood
  <2>5. IsWritable(m, e)
    BY <2>4 DEF Sent
  <2>6. PICK n \in Nat : n = Len(m.code) /\ DOMAIN m.code = 1..n
    <3>1. m.code \in Seq(BytecodeInstruction)
      BY <2>2 DEF BytecodeModule
    <3> QED
      BY <3>1
  <2>7. /\ left \in 0..n /\ at = PlaceIn(Start(m, e, "code"), Entries(m, e, "code"), n - left)
        /\ IsPartOf(loaded, m, "code", left)
    BY <2>4, <2>6, Zenon DEF InSection
  <2>8. PICK k \in 0..n : k = n - left /\ k = Len(loaded.code)
    <3>1. Done("code", left, m, "code") = n - left
      BY <2>6 DEF Done, Earlier
    <3>2. Len(loaded.code) = n - left
      BY <2>7, <3>1 DEF IsPartOf, Alike
    <3> QED
      BY <2>7, <3>2
  <2>9. PICK before, t : /\ before = Total(Sizes(HeadBytes(m, e))) + VarintLength[Len(m.code)]
                         /\ t = TotalUpto(Sizes(CodeBytes(m, e)))
    OBVIOUS
  <2>10. before \in Nat /\ t[k] \in Nat /\ at = (before + t[k]) + 1
    <3>1. PICK h \in Nat, v \in Nat :
            /\ h = Total(Sizes(HeadBytes(m, e))) /\ v = VarintLength[n] /\ before = h + v
      BY <2>2, <2>5, <2>6, <2>9, BeforeRanges
    <3>2. at = (1 + h) + v + t[k]
      <4>1. /\ Start(m, e, "code") = 1 + h /\ Entries(m, e, "code") = CodeBytes(m, e)
            /\ Len(CodeBytes(m, e)) = n
        BY <2>2, <2>5, <2>6, <3>1, BeforeRanges
      <4> QED
        BY <2>7, <2>8, <2>9, <3>1, <4>1, Zenon DEF PlaceIn
    <3>3. t[k] \in Nat
      BY <2>2, <2>5, <2>6, <2>8, <2>9, BeforeRanges
    <3> QED
      BY <3>1, <3>2, <3>3
  <2>11. Ranges(m, e) = [j \in 1..n |-> <<before + t[j - 1], before + t[j]>>]
    BY <2>6, <2>9, Zenon DEF Ranges
  <2>12. ASSUME left > 0 PROVE at = Ranges(m, e)[k + 1][1] + 1
    <3>1. k + 1 \in 1..n /\ (k + 1) - 1 = k
      BY <2>7, <2>8, <2>12
    <3>2. Ranges(m, e)[k + 1][1] = before + t[k]
      BY <2>11, <3>1
    <3> QED
      BY <2>10, <3>2
  <2>13. ASSUME k > 0 PROVE at = Ranges(m, e)[k][2] + 1
    <3>1. k \in 1..n
      BY <2>13
    <3>2. Ranges(m, e)[k][2] = before + t[k]
      BY <2>11, <3>1
    <3> QED
      BY <2>10, <3>2
  <2> QED
    BY <2>1, <2>8, <2>12, <2>13, Zenon
<1> QED
  BY <1>1, WireInvariant, ReadAsWritten, PTL
=============================================================================
