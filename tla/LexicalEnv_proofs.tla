------------------------- MODULE LexicalEnv_proofs -------------------------
(***************************************************************************)
(* Proofs about LexicalEnv, for any number of executor frames, records,    *)
(* names, slots and values.                                                *)
(***************************************************************************)
EXTENDS LexicalEnv, TLAPS, SequenceTheorems

\* That the executor frames are among what holds an environment is used in
\* nearly every step below.
USE DEF Holders

\* A prefix of a sequence, as push_frame and pop_frame make them.
LEMMA PrefixProperties ==
    ASSUME NEW S, NEW s \in Seq(S), NEW d \in 0..Len(s)
    PROVE  /\ SubSeq(s, 1, d) \in Seq(S)
           /\ Len(SubSeq(s, 1, d)) = d
           /\ \A i \in 1..d : SubSeq(s, 1, d)[i] = s[i]
<1>1. \A i \in 1..d : s[i] \in S
  OBVIOUS
<1>2. Len(SubSeq(s, 1, d)) = IF 1 <= d THEN d - 1 + 1 ELSE 0
  BY <1>1, SubSeqProperties
<1>3. SubSeq(s, 1, d) \in Seq(S) /\ \A i \in 1..(d - 1 + 1) : SubSeq(s, 1, d)[i] = s[1 + i - 1]
  BY <1>1, SubSeqProperties
<1> QED
  BY <1>2, <1>3

(***************************************************************************)
(* Every reachable state is well typed (LexicalEnv and EnvironmentRecord). *)
(***************************************************************************)
LEMMA InitTypeOK == Init => TypeOK
BY TypesAssumption DEF Init, TypeOK, Chains, ScopeKinds, Cell, EmptyNames,
   EmptySlots, NoNames, NoSlots, Answers, Unused

LEMMA BoundType ==
    ASSUME NEW A, NEW B, NEW C, NEW m \in [A -> [B -> C]],
           NEW a \in A, NEW b \in B, NEW c \in C
    PROVE  [m EXCEPT ![a][b] = c] \in [A -> [B -> C]]
OBVIOUS

LEMMA BoundCells ==
    ASSUME NEW A, NEW B, NEW C, NEW m \in [A -> [B -> C]],
           NEW a \in A, NEW b \in B, NEW c
    PROVE  /\ \A x \in A : x # a => [m EXCEPT ![a][b] = c][x] = m[x]
           /\ \A x \in A, y \in B : [m EXCEPT ![a][b] = c][x][y]
                                     = IF x = a /\ y = b THEN c ELSE m[x][y]
OBVIOUS

LEMMA ScopeStepTypeOK ==
    ASSUME TypeOK, NEW f \in Frames, ScopeStep(f)
    PROVE  TypeOK'
<1> USE DEF envVars, recordVars, cacheVars, scheduleVars, generatorVars
<1>1. CASE EnterScope(f)
  BY <1>1 DEF EnterScope, PushFrame, ClearLookupCaches, TypeOK, Chains,
     ScopeKinds, NoNames, NoSlots
<1>2. ASSUME NEW n \in Names, NEW v \in Values, EnterCatchName(f, n, v)
      PROVE  TypeOK'
  <2>1. bindings' \in [Records -> [Names -> Cell]]
    BY <1>2 DEF EnterCatchName, Bind, TypeOK, Cell
  <2>2. Depth(f) + 1 \in Nat
    BY DEF Depth, TypeOK, Chains
  <2>3. name_cache' \in [Frames -> [Names -> Nat]] /\ slot_cache' \in [Frames -> [Slots -> Nat]]
    BY <1>2, <2>2 DEF EnterCatchName, TypeOK, NoNames, NoSlots
  <2>4. PICK r \in Records : PushFrame(f, "Catch", r)
    BY <1>2 DEF EnterCatchName
  <2>5. UNCHANGED <<base, slot_values, scheduleVars, answer>>
    BY <1>2 DEF EnterCatchName
  <2>6. frames' \in [Holders -> Chains] /\ kind' \in [Records -> ScopeKinds \cup {Unused}]
    BY <2>4 DEF PushFrame, TypeOK, Chains, ScopeKinds
  <2> QED
    BY <2>1, <2>3, <2>5, <2>6 DEF TypeOK
<1>3. ASSUME NEW s \in Slots, NEW v \in Values, EnterCatchSlot(f, s, v)
      PROVE  TypeOK'
  <2>1. slot_values' \in [Records -> [Slots -> Cell]]
    BY <1>3 DEF EnterCatchSlot, BindSlot, TypeOK, Cell
  <2>2. Depth(f) + 1 \in Nat
    BY DEF Depth, TypeOK, Chains
  <2>3. name_cache' \in [Frames -> [Names -> Nat]] /\ slot_cache' \in [Frames -> [Slots -> Nat]]
    BY <1>3, <2>2 DEF EnterCatchSlot, TypeOK, NoNames, NoSlots
  <2>4. PICK r \in Records : PushFrame(f, "Catch", r)
    BY <1>3 DEF EnterCatchSlot
  <2>5. UNCHANGED <<base, bindings, scheduleVars, answer>>
    BY <1>3 DEF EnterCatchSlot
  <2>6. frames' \in [Holders -> Chains] /\ kind' \in [Records -> ScopeKinds \cup {Unused}]
    BY <2>4 DEF PushFrame, TypeOK, Chains, ScopeKinds
  <2> QED
    BY <2>1, <2>3, <2>5, <2>6 DEF TypeOK
<1>4. ASSUME NEW depth \in 1..Depth(f), TruncateToDepth(f, depth)
      PROVE  TypeOK'
  <2>1. SubSeq(frames[f], 1, depth) \in Seq(Records)
    BY <1>4 DEF Depth, TypeOK, Chains
  <2> QED
    BY <1>4, <2>1 DEF TruncateToDepth, ClearLookupCaches, TypeOK, Chains, NoNames, NoSlots
<1> QED
  BY <1>1, <1>2, <1>3, <1>4 DEF ScopeStep

LEMMA SetOrDefineType ==
    ASSUME TypeOK, NEW f \in Frames, NEW n \in Names, NEW v \in Values,
           SetOrDefineCurrent(f, n, v)
    PROVE  /\ bindings' \in [Records -> [Names -> Cell]]
           /\ name_cache' \in [Frames -> [Names -> Nat]]
<1>1. PICK i \in 1..Depth(f) : Bind(frames[f][i], n, v) /\ CacheName(f, n, i)
  BY DEF SetOrDefineCurrent
<1>2. frames[f][i] \in Records
  BY DEF Depth, TypeOK, Chains
<1>3. i \in Nat
  BY DEF Depth, TypeOK, Chains
<1> QED
  BY <1>1, <1>2, <1>3 DEF Bind, CacheName, TypeOK, Cell

LEMMA NameStepTypeOK ==
    ASSUME TypeOK, NEW f \in Frames, NameStep(f)
    PROVE  TypeOK'
<1> USE DEF envVars, recordVars, cacheVars, scheduleVars, generatorVars
<1> PICK n \in Names : \/ LoadName(f, n)
                       \/ \E v \in Values : StoreName(f, n, v)
                       \/ DeclareName(f, n)
                       \/ DeclareVarName(f, n)
  BY DEF NameStep
<1>1. CASE LoadName(f, n)
  <2> PICK i \in 0..Depth(f) :
        /\ Finds(f, n, i)
        /\ answer' = [key |-> n, value |-> IF i = 0 THEN Unbound
                                           ELSE bindings[frames[f][i]][n]]
        /\ IF i = 0 THEN UNCHANGED name_cache ELSE CacheName(f, n, i)
    BY <1>1 DEF LoadName
  <2>1. i # 0 => frames[f][i] \in Records
    BY DEF Depth, TypeOK, Chains
  <2>2. answer' \in Answers
    BY <2>1 DEF Answers, Cell, TypeOK
  <2>3. i \in Nat
    BY DEF Depth, TypeOK, Chains
  <2>4. name_cache' \in [Frames -> [Names -> Nat]]
    <3>1. CASE i = 0
      BY <3>1 DEF TypeOK
    <3>2. CASE i # 0
      <4>1. CacheName(f, n, i)
        BY <3>2
      <4> QED
        BY <4>1, <2>3, BoundType DEF CacheName, TypeOK
    <3> QED
      BY <3>1, <3>2
  <2>5. UNCHANGED <<envVars, recordVars, slot_cache, scheduleVars>>
    BY <1>1 DEF LoadName
  <2> QED
    BY <2>2, <2>4, <2>5 DEF TypeOK
<1>2. ASSUME NEW v \in Values, StoreName(f, n, v) PROVE TypeOK'
  <2>1. UNCHANGED <<envVars, slot_values, slot_cache, scheduleVars, answer>>
    BY <1>2 DEF StoreName
  <2> QED
    BY <1>2, <2>1, SetOrDefineType DEF StoreName, TypeOK
<1>3. CASE DeclareName(f, n)
  <2>1. UNCHANGED <<envVars, slot_values, slot_cache, scheduleVars, answer>>
    BY <1>3 DEF DeclareName
  <2>2. bindings' \in [Records -> [Names -> Cell]]
    BY <1>3, TypesAssumption, ZenonT(40) DEF DeclareName, Bind, IfAbsent, TypeOK, Cell
  <2>3. name_cache' \in [Frames -> [Names -> Nat]]
    BY <1>3 DEF DeclareName, CacheName, Depth, TypeOK, Chains
  <2> QED
    BY <2>1, <2>2, <2>3 DEF TypeOK
<1>4. CASE DeclareVarName(f, n)
  <2>1. UNCHANGED <<envVars, slot_values, slot_cache, scheduleVars, answer>>
    BY <1>4 DEF DeclareVarName
  <2>2. bindings' \in [Records -> [Names -> Cell]]
    <3> PICK b \in 1..Depth(f) :
          Bind(frames[f][b], n, IfAbsent(bindings[frames[f][b]][n], Undefined))
      BY <1>4 DEF DeclareVarName
    <3> QED
      BY TypesAssumption, ZenonT(40) DEF Bind, IfAbsent, TypeOK, Cell
  <2>3. name_cache' \in [Frames -> [Names -> Nat]]
    BY <1>4 DEF DeclareVarName, NoNames, TypeOK
  <2> QED
    BY <2>1, <2>2, <2>3 DEF TypeOK
<1> QED
  BY <1>1, <1>2, <1>3, <1>4

LEMMA CacheSlotType ==
    ASSUME TypeOK, NEW f \in Frames, NEW s \in Slots, NEW i \in Nat, CacheSlot(f, s, i)
    PROVE  slot_cache' \in [Frames -> [Slots -> Nat]]
BY DEF CacheSlot, TypeOK

LEMMA SlotStepTypeOK ==
    ASSUME TypeOK, NEW f \in Frames, SlotStep(f)
    PROVE  TypeOK'
<1> USE DEF envVars, recordVars, cacheVars, scheduleVars, generatorVars
<1> PICK s \in Slots : \/ LoadSlot(f, s)
                       \/ \E v \in Values : StoreSlot(f, s, v)
                       \/ DeclareSlot(f, s)
                       \/ DeclareVarSlot(f, s)
  BY DEF SlotStep
<1>0. Depth(f) \in Nat
  BY DEF Depth, TypeOK, Chains
<1>1. CASE LoadSlot(f, s)
  <2> PICK b \in 1..Depth(f), i \in 0..Depth(f) :
        /\ FindsSlot(f, s, b, i)
        /\ answer' = [key |-> s, value |-> IF i = 0 THEN Undefined
                                           ELSE slot_values[frames[f][i]][s]]
        /\ IF i = 0 THEN UNCHANGED slot_cache ELSE CacheSlot(f, s, i)
    BY <1>1 DEF LoadSlot
  <2>1. i # 0 => slot_values[frames[f][i]][s] \in Values
    <3>1. i # 0 => frames[f][i] \in Records
      BY DEF Depth, TypeOK, Chains
    <3>2. i # 0 => slot_values[frames[f][i]][s] # Unbound
      BY DEF FindsSlot, SlotHit, HasSlot, IsInnermost, SlotHolders
    <3> QED
      BY <3>1, <3>2 DEF Cell, TypeOK
  <2>2. answer' \in Answers
    BY <2>1, TypesAssumption DEF Answers
  <2>3. slot_cache' \in [Frames -> [Slots -> Nat]]
    BY <1>0, CacheSlotType DEF TypeOK
  <2>4. UNCHANGED <<envVars, recordVars, name_cache, scheduleVars>>
    BY <1>1 DEF LoadSlot
  <2> QED
    BY <2>2, <2>3, <2>4 DEF TypeOK
<1>2. ASSUME NEW v \in Values, StoreSlot(f, s, v) PROVE TypeOK'
  <2> PICK b \in 1..Depth(f), i \in 0..Depth(f) :
        LET target == IF i = 0 THEN Depth(f) ELSE i
        IN  BindSlot(frames[f][target], s, v) /\ CacheSlot(f, s, target)
    BY <1>2 DEF StoreSlot
  <2>1. slot_values' \in [Records -> [Slots -> Cell]]
    BY DEF BindSlot, TypeOK, Cell
  <2>2. slot_cache' \in [Frames -> [Slots -> Nat]]
    BY <1>0, CacheSlotType
  <2>3. UNCHANGED <<envVars, bindings, name_cache, scheduleVars, answer>>
    BY <1>2 DEF StoreSlot
  <2> QED
    BY <2>1, <2>2, <2>3 DEF TypeOK
<1>3. CASE DeclareSlot(f, s)
  <2>1. UNCHANGED <<envVars, bindings, name_cache, scheduleVars, answer>>
    BY <1>3 DEF DeclareSlot
  <2>2. slot_values' \in [Records -> [Slots -> Cell]]
    BY <1>3, TypesAssumption, ZenonT(40) DEF DeclareSlot, BindSlot, IfAbsent, TypeOK, Cell
  <2>3. slot_cache' \in [Frames -> [Slots -> Nat]]
    BY <1>0, <1>3, CacheSlotType DEF DeclareSlot
  <2> QED
    BY <2>1, <2>2, <2>3 DEF TypeOK
<1>4. CASE DeclareVarSlot(f, s)
  <2> PICK b \in 1..Depth(f) :
        /\ LET r == frames[f][b]
           IN  BindSlot(r, s, IfAbsent(slot_values[r][s], Undefined))
        /\ CacheSlot(f, s, b)
    BY <1>4 DEF DeclareVarSlot
  <2>1. UNCHANGED <<envVars, bindings, name_cache, scheduleVars, answer>>
    BY <1>4 DEF DeclareVarSlot
  <2>2. slot_values' \in [Records -> [Slots -> Cell]]
    BY TypesAssumption, ZenonT(40) DEF BindSlot, IfAbsent, TypeOK, Cell
  <2>3. slot_cache' \in [Frames -> [Slots -> Nat]]
    BY <1>0, CacheSlotType
  <2> QED
    BY <2>1, <2>2, <2>3 DEF TypeOK
<1> QED
  BY <1>1, <1>2, <1>3, <1>4

LEMMA EnterFunctionType ==
    ASSUME TypeOK, NEW f \in Frames, NEW chain \in captured, NEW r \in Records,
           NEW o \in {f} \cup Generators,
           NEW S, NEW v \in Values, EnterFunction(f, o, chain, r, S, v)
    PROVE  /\ Len(chain) \in Nat
           /\ Append(chain, r) \in Chains
           /\ frames' \in [Holders -> Chains]
           /\ base' \in [Holders -> Nat]
           /\ kind' \in [Records -> ScopeKinds \cup {Unused}]
           /\ slot_values' \in [Records -> [Slots -> Cell]]
           /\ slot_cache' \in [Frames -> [Slots -> Nat]]
           /\ stack' \in Seq(Frames)
           /\ suspended' \in [Frames -> {"no", "await"}]
           /\ owner' \in [Holders -> Holders]
           /\ done' \subseteq Generators /\ shared' \subseteq Frames
           /\ answer' \in Answers \cup {Unbound}
<1>1. chain \in Seq(Records) /\ Len(chain) \in Nat
  BY DEF TypeOK, Chains
<1>2. Append(chain, r) \in Chains
  BY <1>1 DEF Chains
<1>3. [s \in Slots |-> IF s \in S THEN v ELSE Unbound] \in [Slots -> Cell]
  BY DEF Cell
<1>4. [s \in Slots |-> IF o = f /\ s \in S \cap FastSlots THEN Len(chain) + 1 ELSE 0]
        \in [Slots -> Nat]
  BY <1>1
<1>5. /\ frames' = [frames EXCEPT ![f] = Append(chain, r), ![o] = Append(chain, r)]
      /\ base' = [base EXCEPT ![f] = Len(chain), ![o] = Len(chain)]
      /\ kind' = [kind EXCEPT ![r] = "Function"]
      /\ slot_values' = [slot_values EXCEPT ![r] =
                           [s \in Slots |-> IF s \in S THEN v ELSE Unbound]]
      /\ slot_cache' = [slot_cache EXCEPT ![f] =
                          [s \in Slots |-> IF o = f /\ s \in S \cap FastSlots
                                           THEN Len(chain) + 1 ELSE 0]]
  BY DEF EnterFunction
<1>6. /\ stack' = Append(stack, f) /\ owner' = [owner EXCEPT ![f] = o]
      /\ UNCHANGED <<suspended, done, shared, answer>>
  BY DEF EnterFunction
<1>7. frames' \in [Holders -> Chains]
  BY <1>2, <1>5 DEF TypeOK
<1>8. base' \in [Holders -> Nat]
  BY <1>1, <1>5 DEF TypeOK
<1>9. kind' \in [Records -> ScopeKinds \cup {Unused}]
  BY <1>5 DEF TypeOK, ScopeKinds
<1>10. slot_values' \in [Records -> [Slots -> Cell]]
  BY <1>3, <1>5 DEF TypeOK
<1>11. slot_cache' \in [Frames -> [Slots -> Nat]]
  BY <1>4, <1>5 DEF TypeOK
<1>12. stack' \in Seq(Frames)
  BY <1>6 DEF TypeOK
<1> QED
  BY <1>1, <1>2, <1>6, <1>7, <1>8, <1>9, <1>10, <1>11, <1>12 DEF TypeOK

LEMMA CallStepTypeOK ==
    ASSUME TypeOK, NEW f \in Frames, CallStep(f)
    PROVE  TypeOK'
<1> PICK o \in {f} \cup Generators, chain \in captured,
         P \in SUBSET Names, S \in SUBSET Slots, v \in Values :
        \/ Call(f, o, chain, P, S, v)
        \/ \E h \in Names, w \in Values : CallHoisting(f, o, chain, P, S, v, h, w)
  BY DEF CallStep
<1> DEFINE entry == [n \in Names |-> IF n \in P THEN v ELSE Unbound]
<1>1. entry \in [Names -> Cell]
  BY DEF Cell
<1>2. CASE Call(f, o, chain, P, S, v)
  <2> PICK r \in Records :
        /\ EnterFunction(f, o, chain, r, S, v)
        /\ bindings' = [bindings EXCEPT ![r] = entry]
        /\ name_cache' = [name_cache EXCEPT ![f] =
                            [n \in Names |-> IF o = f /\ n \in P THEN Len(chain) + 1 ELSE 0]]
        /\ UNCHANGED captured
    BY <1>2 DEF Call
  <2>1. bindings' \in [Records -> [Names -> Cell]]
    BY <1>1 DEF TypeOK
  <2>2. Len(chain) \in Nat
    BY EnterFunctionType
  <2>3. [n \in Names |-> IF o = f /\ n \in P THEN Len(chain) + 1 ELSE 0] \in [Names -> Nat]
    BY <2>2
  <2>4. name_cache' \in [Frames -> [Names -> Nat]]
    BY <2>3 DEF TypeOK
  <2> QED
    BY <2>1, <2>4, EnterFunctionType DEF TypeOK
<1>3. ASSUME NEW h \in Names, NEW w \in Values, CallHoisting(f, o, chain, P, S, v, h, w)
      PROVE  TypeOK'
  <2>1. PICK r \in Records, i \in 1..(Len(chain) + 1) :
          /\ EnterFunction(f, o, chain, r, S, v)
          /\ bindings' = [bindings EXCEPT ![r] = entry, ![Append(chain, r)[i]][h] = w]
          /\ name_cache' = [name_cache EXCEPT ![f] =
                              [n \in Names |-> IF n = h THEN i
                                               ELSE IF o = f /\ n \in P
                                                    THEN Len(chain) + 1 ELSE 0]]
          /\ captured' = captured \cup {Append(chain, r)}
    BY <1>3 DEF CallHoisting
  <2>2. r \in Records /\ i \in 1..(Len(chain) + 1)
    BY <2>1
  <2>3. EnterFunction(f, o, chain, r, S, v)
    BY <2>1
  <2>4. /\ Len(chain) \in Nat
        /\ Append(chain, r) \in Chains
        /\ frames' \in [Holders -> Chains]
        /\ base' \in [Holders -> Nat]
        /\ kind' \in [Records -> ScopeKinds \cup {Unused}]
        /\ slot_values' \in [Records -> [Slots -> Cell]]
        /\ slot_cache' \in [Frames -> [Slots -> Nat]]
        /\ stack' \in Seq(Frames)
        /\ suspended' \in [Frames -> {"no", "await"}]
        /\ owner' \in [Holders -> Holders]
        /\ done' \subseteq Generators /\ shared' \subseteq Frames
        /\ answer' \in Answers \cup {Unbound}
    BY <2>2, <2>3, EnterFunctionType
  <2>5. bindings' \in [Records -> [Names -> Cell]]
    <3> DEFINE entered == [bindings EXCEPT ![r] = entry]
               target == Append(chain, r)[i]
    <3>1. entered \in [Records -> [Names -> Cell]]
      BY <1>1 DEF TypeOK
    <3>2. bindings' = [entered EXCEPT ![target][h] = w]
      BY <2>1
    <3>3. target \in Records
      <4>1. chain \in Seq(Records)
        BY DEF TypeOK, Chains
      <4> QED
        BY <2>2, <4>1
    <3>4. w \in Cell
      BY DEF Cell
    <3> HIDE DEF entered, target
    <3> QED
      BY <3>1, <3>2, <3>3, <3>4, BoundType
  <2>6. name_cache' \in [Frames -> [Names -> Nat]]
    <3>1. [n \in Names |-> IF n = h THEN i
                           ELSE IF o = f /\ n \in P THEN Len(chain) + 1 ELSE 0]
            \in [Names -> Nat]
      BY <2>2, <2>4
    <3> QED
      BY <2>1, <3>1 DEF TypeOK
  <2>7. captured' \in SUBSET Chains
    BY <2>1, <2>4 DEF TypeOK
  <2> QED
    BY <2>4, <2>5, <2>6, <2>7 DEF TypeOK
<1> QED
  BY <1>2, <1>3

LEMMA PopTypeOK ==
    ASSUME TypeOK, NEW f \in Frames, Pop(f), GiveBack(f) \/ Drop(f),
           done' \subseteq Generators
    PROVE  TypeOK'
<1>1. stack' \in Seq(Frames)
  BY DEF Pop, Active, TypeOK
<1>2. frames' \in [Holders -> Chains] /\ base' \in [Holders -> Nat]
  <2>1. <<>> \in Chains
    BY DEF Chains
  <2>2. frames[f] \in Chains /\ base[f] \in Nat
    BY DEF TypeOK
  <2>3. frames \in [Holders -> Chains] /\ base \in [Holders -> Nat]
    BY DEF TypeOK
  <2>4. CASE GiveBack(f)
    <3>1. frames' \in [Holders -> Chains]
      BY <2>1, <2>2, <2>3, <2>4 DEF GiveBack
    <3>2. base' \in [Holders -> Nat]
      BY <2>2, <2>3, <2>4 DEF GiveBack
    <3> QED
      BY <3>1, <3>2
  <2>5. CASE Drop(f)
    BY <2>1, <2>3, <2>5 DEF Drop
  <2> QED
    BY <2>4, <2>5
<1>3. name_cache' \in [Frames -> [Names -> Nat]] /\ slot_cache' \in [Frames -> [Slots -> Nat]]
  BY DEF Pop, ClearLookupCaches, NoNames, NoSlots, TypeOK
<1>4. owner' \in [Holders -> Holders] /\ shared' \subseteq Frames
  BY DEF Pop, TypeOK
<1>5. UNCHANGED <<kind, recordVars, captured, suspended, answer>>
  BY DEF Pop
<1> QED
  BY <1>1, <1>2, <1>3, <1>4, <1>5 DEF recordVars, TypeOK

LEMMA FunctionStepTypeOK ==
    ASSUME TypeOK, NEW f \in Frames, FunctionStep(f)
    PROVE  TypeOK'
<1> USE DEF envVars, recordVars, cacheVars, scheduleVars, generatorVars
<1>1. CASE CreateFunction(f)
  BY <1>1 DEF CreateFunction, TypeOK
<1>2. ASSUME NEW n \in Names, NEW v \in Values, DeclareFunction(f, n, v)
      PROVE  TypeOK'
  <2>1. captured' \in SUBSET Chains
    BY <1>2 DEF DeclareFunction, TypeOK
  <2>2. UNCHANGED <<envVars, slot_values, slot_cache, stack, suspended, generatorVars, answer>>
    BY <1>2 DEF DeclareFunction
  <2> QED
    BY <1>2, <2>1, <2>2, SetOrDefineType DEF DeclareFunction, TypeOK
<1>3. CASE CallStep(f)
  BY <1>3, CallStepTypeOK
<1>4. CASE Return(f)
  BY <1>4, PopTypeOK DEF Return, TypeOK
<1> QED
  BY <1>1, <1>2, <1>3, <1>4 DEF FunctionStep

LEMMA GeneratorStepTypeOK ==
    ASSUME TypeOK, NEW f \in Frames, GeneratorStep(f)
    PROVE  TypeOK'
<1> USE DEF envVars, recordVars, cacheVars
<1>1. CASE Yield(f)
  BY <1>1, PopTypeOK DEF Yield, TypeOK
<1>2. CASE Fail(f)
  BY <1>2, PopTypeOK DEF Fail, TypeOK
<1>3. ASSUME NEW g \in Generators, Resume(f, g) PROVE TypeOK'
  <2>1. frames' \in [Holders -> Chains] /\ base' \in [Holders -> Nat]
    BY <1>3 DEF Resume, TypeOK
  <2>2. name_cache' \in [Frames -> [Names -> Nat]] /\ slot_cache' \in [Frames -> [Slots -> Nat]]
    BY <1>3 DEF Resume, ClearLookupCaches, NoNames, NoSlots, TypeOK
  <2>3. stack' \in Seq(Frames)
    BY <1>3 DEF Resume, TypeOK
  <2>4. owner' \in [Holders -> Holders] /\ shared' \subseteq Frames
    BY <1>3 DEF Resume, Joined, TypeOK
  <2>5. UNCHANGED <<kind, recordVars, captured, suspended, done, answer>>
    BY <1>3 DEF Resume
  <2> QED
    BY <2>1, <2>2, <2>3, <2>4, <2>5 DEF TypeOK
<1>4. ASSUME NEW g \in Generators, Close(g) PROVE TypeOK'
  BY <1>4 DEF Close, TypeOK
<1> QED
  BY <1>1, <1>2, <1>3, <1>4 DEF GeneratorStep

LEMMA SuspendStepTypeOK ==
    ASSUME TypeOK, NEW f \in Frames, SuspendStep(f)
    PROVE  TypeOK'
<1> USE DEF envVars, recordVars, cacheVars, scheduleVars, generatorVars
<1>1. CASE Suspend(f)
  <2>1. stack' \in Seq(Frames)
    BY <1>1 DEF Suspend, Active, TypeOK
  <2>2. suspended' \in [Frames -> {"no", "await"}]
    BY <1>1 DEF Suspend, TypeOK
  <2> QED
    BY <1>1, <2>1, <2>2 DEF Suspend, TypeOK
<1>2. CASE ResumeAwait(f)
  BY <1>2 DEF ResumeAwait, TypeOK
<1> QED
  BY <1>1, <1>2 DEF SuspendStep

LEMMA NextTypeOK == TypeOK /\ [Next]_vars => TypeOK'
<1> SUFFICES ASSUME TypeOK, [Next]_vars PROVE TypeOK'
  OBVIOUS
<1>1. CASE UNCHANGED vars
  BY <1>1 DEF vars, envVars, recordVars, cacheVars, scheduleVars, generatorVars, TypeOK
<1>2. ASSUME NEW f \in Frames,
             \/ ScopeStep(f) \/ NameStep(f) \/ SlotStep(f)
             \/ FunctionStep(f) \/ GeneratorStep(f) \/ SuspendStep(f)
      PROVE  TypeOK'
  BY <1>2, ScopeStepTypeOK, NameStepTypeOK, SlotStepTypeOK, FunctionStepTypeOK,
     GeneratorStepTypeOK, SuspendStepTypeOK
<1> QED
  BY <1>1, <1>2 DEF Next

\* Every reachable state of the environments is well typed: no instruction takes a
\* frame, a record or a cached index out of its range.
THEOREM TypeCorrect == Spec => []TypeOK
<1>1. Init => TypeOK
  BY InitTypeOK
<1>2. TypeOK /\ [Next]_vars => TypeOK'
  BY NextTypeOK
<1> QED
  BY <1>1, <1>2, PTL DEF Spec

-----------------------------------------------------------------------------
(***************************************************************************)
(* What a step does to the chains of scope frames, to the kinds and to the *)
(* captured environments: one of six shapes.                               *)
(***************************************************************************)
Keeps(f) ==
    /\ UNCHANGED <<frames, base, kind, owner, shared>>
    /\ captured' = captured \/ (Alive(f) /\ captured' = captured \cup {frames[f]})

Grows(f, r) ==
    /\ Alive(f) /\ Fresh(r)
    /\ frames' = [frames EXCEPT ![f] = Append(@, r)]
    /\ \E k \in {"Block", "Catch"} : kind' = [kind EXCEPT ![r] = k]
    /\ UNCHANGED <<base, captured, owner, shared>>

Shrinks(f, depth) ==
    /\ depth \in (base[f] + 1)..(Depth(f) - 1)
    /\ frames' = [frames EXCEPT ![f] = SubSeq(@, 1, depth)]
    /\ UNCHANGED <<base, kind, captured, owner, shared>>

\* o is f, or the generator whose body f starts.
Enters(f, o, chain, r) ==
    /\ ~Alive(f) /\ ~Alive(o) /\ Fresh(r)
    /\ o = f \/ (o \in Generators /\ "yield" \in Suspends)
    /\ frames' = [frames EXCEPT ![f] = Append(chain, r), ![o] = Append(chain, r)]
    /\ base' = [base EXCEPT ![f] = Len(chain), ![o] = Len(chain)]
    /\ kind' = [kind EXCEPT ![r] = "Function"]
    /\ owner' = [owner EXCEPT ![f] = o]
    /\ captured' = captured \/ captured' = captured \cup {Append(chain, r)}
    /\ UNCHANGED shared

Ends(f) ==
    /\ Alive(f)
    /\ GiveBack(f) \/ (owner[f] \in Generators /\ Drop(f))
    /\ owner' = [owner EXCEPT ![f] = f] /\ shared' = shared \ {f}
    /\ UNCHANGED <<kind, captured>>

GoesOn(f, g) ==
    /\ ~Alive(f) /\ Alive(g)
    /\ frames' = [frames EXCEPT ![f] = frames[g]]
    /\ base' = [base EXCEPT ![f] = base[g]]
    /\ owner' = [owner EXCEPT ![f] = g] /\ shared' = Joined(owner, shared, f, g)
    /\ UNCHANGED <<kind, captured>>

StepShape ==
    \E f \in Frames :
        \/ Keeps(f)
        \/ \E r \in Records : Grows(f, r)
        \/ \E depth \in Nat : Shrinks(f, depth)
        \/ \E o \in Holders, chain \in captured, r \in Records : Enters(f, o, chain, r)
        \/ Ends(f)
        \/ \E g \in Generators : GoesOn(f, g)

LEMMA ActiveAlive ==
    ASSUME TypeOK, Scheduled, NEW f \in Frames, Active(f)
    PROVE  Alive(f) /\ suspended[f] = "no" /\ Depth(f) \in Nat \ {0}
<1>1. Len(stack) \in 1..Len(stack) /\ stack[Len(stack)] = f
  BY DEF Active, TypeOK
<1>2. Alive(f) /\ suspended[f] = "no"
  BY <1>1 DEF Scheduled
<1> QED
  BY <1>2 DEF Alive, Depth, TypeOK, Chains

LEMMA ScopeStepShape ==
    ASSUME TypeOK, Scheduled, NEW f \in Frames, ScopeStep(f)
    PROVE  /\ \/ \E r \in Records : Grows(f, r)
              \/ \E depth \in Nat : Shrinks(f, depth)
           /\ UNCHANGED <<stack, suspended>>
<1> USE DEF scheduleVars, generatorVars
<1>1. CASE EnterScope(f)
  <2>1. Alive(f)
    BY <1>1, ActiveAlive DEF EnterScope
  <2> QED
    BY <1>1, <2>1 DEF EnterScope, PushFrame, Grows
<1>2. ASSUME NEW n \in Names, NEW v \in Values, EnterCatchName(f, n, v)
      PROVE  (\E r \in Records : Grows(f, r)) /\ UNCHANGED <<stack, suspended>>
  <2>1. Alive(f)
    BY <1>2, ActiveAlive DEF EnterCatchName
  <2>2. PICK r \in Records : PushFrame(f, "Catch", r)
    BY <1>2 DEF EnterCatchName
  <2>3. UNCHANGED <<base, captured, stack, suspended, owner, shared>>
    BY <1>2 DEF EnterCatchName
  <2> QED
    BY <2>1, <2>2, <2>3 DEF PushFrame, Grows
<1>3. ASSUME NEW s \in Slots, NEW v \in Values, EnterCatchSlot(f, s, v)
      PROVE  (\E r \in Records : Grows(f, r)) /\ UNCHANGED <<stack, suspended>>
  <2>1. Alive(f)
    BY <1>3, ActiveAlive DEF EnterCatchSlot
  <2>2. PICK r \in Records : PushFrame(f, "Catch", r)
    BY <1>3 DEF EnterCatchSlot
  <2>3. UNCHANGED <<base, captured, stack, suspended, owner, shared>>
    BY <1>3 DEF EnterCatchSlot
  <2> QED
    BY <2>1, <2>2, <2>3 DEF PushFrame, Grows
<1>4. ASSUME NEW depth \in 1..Depth(f), TruncateToDepth(f, depth)
      PROVE  (\E d \in Nat : Shrinks(f, d)) /\ UNCHANGED <<stack, suspended>>
  <2>1. depth \in Nat
    BY DEF Depth, TypeOK, Chains
  <2>2. Shrinks(f, depth)
    BY <1>4 DEF TruncateToDepth, Shrinks
  <2>3. UNCHANGED <<stack, suspended>>
    BY <1>4 DEF TruncateToDepth
  <2> QED
    BY <2>1, <2>2, <2>3
<1> QED
  BY <1>1, <1>2, <1>3, <1>4 DEF ScopeStep

LEMMA NameStepShape ==
    ASSUME NEW f \in Frames, NameStep(f)
    PROVE  Keeps(f) /\ Active(f) /\ UNCHANGED <<stack, suspended, slot_values, slot_cache>>
BY DEF NameStep, LoadName, StoreName, DeclareName, DeclareVarName, Keeps,
   envVars, recordVars, scheduleVars, generatorVars

LEMMA SlotStepShape ==
    ASSUME NEW f \in Frames, SlotStep(f)
    PROVE  Keeps(f) /\ Active(f) /\ UNCHANGED <<stack, suspended, bindings, name_cache>>
BY DEF SlotStep, LoadSlot, StoreSlot, DeclareSlot, DeclareVarSlot, Keeps,
   envVars, recordVars, scheduleVars, generatorVars

LEMMA CallStepShape ==
    ASSUME NEW f \in Frames, CallStep(f)
    PROVE  /\ \E o \in Holders, chain \in captured, r \in Records : Enters(f, o, chain, r)
           /\ stack' = Append(stack, f) /\ UNCHANGED suspended
<1>1. PICK o \in {f} \cup Generators, chain \in captured,
           P \in SUBSET Names, S \in SUBSET Slots, v \in Values :
        \/ Call(f, o, chain, P, S, v)
        \/ \E h \in Names, w \in Values : CallHoisting(f, o, chain, P, S, v, h, w)
  BY DEF CallStep
<1>2. PICK r \in Records :
        /\ EnterFunction(f, o, chain, r, S, v)
        /\ captured' = captured \/ captured' = captured \cup {Append(chain, r)}
  <2>1. CASE Call(f, o, chain, P, S, v)
    BY <2>1 DEF Call
  <2>2. ASSUME NEW h \in Names, NEW w \in Values, CallHoisting(f, o, chain, P, S, v, h, w)
        PROVE  \E r \in Records :
                 /\ EnterFunction(f, o, chain, r, S, v)
                 /\ captured' = captured \/ captured' = captured \cup {Append(chain, r)}
    BY <2>2 DEF CallHoisting
  <2> QED
    BY <1>1, <2>1, <2>2
<1>3. Enters(f, o, chain, r) /\ stack' = Append(stack, f) /\ UNCHANGED suspended
  BY <1>2 DEF EnterFunction, Begins, Enters, Fresh, Alive
<1> QED
  BY <1>3

LEMMA SuspendStepShape ==
    ASSUME NEW f \in Frames, SuspendStep(f)
    PROVE  Keeps(f)
BY DEF SuspendStep, Suspend, ResumeAwait, Keeps, envVars, recordVars, generatorVars

\* A frame that ends is off the stack; what a generator keeps goes on in a frame
\* that is put there.
LEMMA PopShape ==
    ASSUME TypeOK, Scheduled, NEW f \in Frames,
           Return(f) \/ Yield(f) \/ Fail(f)
    PROVE  /\ Ends(f) /\ Active(f)
           /\ stack' = SubSeq(stack, 1, Len(stack) - 1) /\ UNCHANGED suspended
<1>1. Pop(f) /\ (GiveBack(f) \/ (owner[f] \in Generators /\ Drop(f)))
  BY DEF Return, Yield, Fail
<1>2. Active(f) /\ stack' = SubSeq(stack, 1, Len(stack) - 1) /\ UNCHANGED suspended
  BY <1>1 DEF Pop
<1>3. Alive(f)
  BY <1>2, ActiveAlive
<1> QED
  BY <1>1, <1>2, <1>3 DEF Pop, Ends

LEMMA ResumeShape ==
    ASSUME NEW f \in Frames, NEW g \in Generators, Resume(f, g)
    PROVE  GoesOn(f, g) /\ stack' = Append(stack, f) /\ UNCHANGED suspended
BY DEF Resume, GoesOn, Alive

LEMMA CloseShape ==
    ASSUME NEW f \in Frames, NEW g \in Generators, Close(g)
    PROVE  Keeps(f) /\ UNCHANGED <<stack, suspended>>
BY DEF Close, Keeps, envVars

LEMMA NextShape ==
    ASSUME TypeOK, Scheduled, [Next]_vars
    PROVE  StepShape
<1>1. CASE UNCHANGED vars
  BY <1>1, TypesAssumption DEF vars, envVars, scheduleVars, generatorVars, StepShape, Keeps
<1>2. ASSUME NEW f \in Frames, FunctionStep(f) PROVE StepShape
  <2>1. CASE CreateFunction(f)
    BY <1>2, <2>1, ActiveAlive DEF CreateFunction, StepShape, Keeps, envVars, generatorVars
  <2>2. ASSUME NEW n \in Names, NEW v \in Values, DeclareFunction(f, n, v)
        PROVE  StepShape
    BY <2>2, ActiveAlive DEF DeclareFunction, StepShape, Keeps, envVars, generatorVars
  <2>3. CASE CallStep(f)
    BY <2>3, CallStepShape DEF StepShape
  <2>4. CASE Return(f)
    BY <2>4, PopShape DEF StepShape
  <2> QED
    BY <1>2, <2>1, <2>2, <2>3, <2>4 DEF FunctionStep
<1>3. ASSUME NEW f \in Frames, GeneratorStep(f) PROVE StepShape
  BY <1>3, PopShape, ResumeShape, CloseShape DEF GeneratorStep, StepShape
<1> QED
  BY <1>1, <1>2, <1>3, ScopeStepShape, NameStepShape, SlotStepShape, SuspendStepShape
     DEF Next, StepShape

-----------------------------------------------------------------------------
(***************************************************************************)
(* The call stack: which frames are alive, running and suspended.          *)
(***************************************************************************)
LEMMA InitScheduled == Init => Scheduled
<1> SUFFICES ASSUME Init PROVE Scheduled
  OBVIOUS
<1>1. Len(stack) = 1 /\ stack[1] = Main
  BY DEF Init
<1>2. \A f \in Frames : suspended[f] = "no" /\ (Alive(f) <=> f = Main)
  BY DEF Init, Alive
<1> QED
  BY <1>1, <1>2, TypesAssumption DEF Scheduled

\* Aliveness after a step that leaves every other frame's chain alone.
LEMMA PopScheduled ==
    ASSUME TypeOK, Scheduled, NEW f \in Frames, Active(f),
           stack' = SubSeq(stack, 1, Len(stack) - 1)
    PROVE  /\ \A g \in Frames : (\E i \in 1..Len(stack') : stack'[i] = g)
                               <=> g # f /\ \E i \in 1..Len(stack) : stack[i] = g
           /\ \A i, j \in 1..Len(stack') : stack'[i] = stack'[j] => i = j
<1>1. stack \in Seq(Frames) /\ Len(stack) \in Nat \ {0} /\ stack[Len(stack)] = f
  BY DEF TypeOK, Active
<1>0. Len(stack) - 1 \in 0..Len(stack)
  BY <1>1
<1>2. Len(stack') = Len(stack) - 1
  BY <1>0, <1>1, PrefixProperties
<1>3. \A i \in 1..Len(stack') : stack'[i] = stack[i]
  BY <1>0, <1>1, <1>2, PrefixProperties
<1>4. \A i, j \in 1..Len(stack) : stack[i] = stack[j] => i = j
  BY DEF Scheduled
<1>5. \A i \in 1..Len(stack') : i \in 1..Len(stack) /\ i # Len(stack)
  BY <1>1, <1>2
<1>6. \A i \in 1..Len(stack) : i # Len(stack) => i \in 1..Len(stack')
  BY <1>1, <1>2
<1>7. Len(stack) \in 1..Len(stack)
  BY <1>1
<1>8. ASSUME NEW g \in Frames, NEW i \in 1..Len(stack'), stack'[i] = g
      PROVE  g # f /\ \E j \in 1..Len(stack) : stack[j] = g
  <2>1. stack[i] = g /\ i \in 1..Len(stack) /\ i # Len(stack)
    BY <1>3, <1>5, <1>8
  <2> QED
    BY <1>1, <1>4, <1>7, <2>1
<1>9. ASSUME NEW g \in Frames, g # f, NEW i \in 1..Len(stack), stack[i] = g
      PROVE  \E j \in 1..Len(stack') : stack'[j] = g
  BY <1>1, <1>3, <1>6, <1>9
<1>10. \A i, j \in 1..Len(stack') : stack'[i] = stack'[j] => i = j
  BY <1>3, <1>4, <1>5
<1> QED
  BY <1>8, <1>9, <1>10

LEMMA PushScheduled ==
    ASSUME TypeOK, Scheduled, NEW f \in Frames, stack' = Append(stack, f),
           ~(Alive(f) /\ suspended[f] = "no")
    PROVE  /\ \A g \in Frames : (\E i \in 1..Len(stack') : stack'[i] = g)
                               <=> g = f \/ \E i \in 1..Len(stack) : stack[i] = g
           /\ \A i, j \in 1..Len(stack') : stack'[i] = stack'[j] => i = j
<1>1. stack \in Seq(Frames) /\ Len(stack) \in Nat
  BY DEF TypeOK
<1>2. Len(stack') = Len(stack) + 1 /\ stack'[Len(stack) + 1] = f
  BY <1>1
<1>3. \A i \in 1..Len(stack) : stack'[i] = stack[i] /\ i \in 1..Len(stack')
  BY <1>1
<1>4. \A i \in 1..Len(stack) : stack[i] # f
  BY DEF Scheduled
<1>5. \A i \in 1..Len(stack') : i = Len(stack) + 1 \/ i \in 1..Len(stack)
  BY <1>1, <1>2
<1>6. Len(stack) + 1 \in 1..Len(stack')
  BY <1>1, <1>2
<1>7. \A i, j \in 1..Len(stack) : stack[i] = stack[j] => i = j
  BY DEF Scheduled
<1> QED
  BY <1>2, <1>3, <1>4, <1>5, <1>6, <1>7

LEMMA ShapeAlive ==
    ASSUME TypeOK, TypeOK', NEW f \in Frames,
           \/ Keeps(f)
           \/ \E r \in Records : Grows(f, r)
           \/ \E depth \in Nat : Shrinks(f, depth)
    PROVE  \A g \in Holders : Alive(g)' <=> Alive(g)
<1>1. CASE Keeps(f)
  BY <1>1 DEF Keeps, Alive
<1>2. ASSUME NEW r \in Records, Grows(f, r) PROVE \A g \in Holders : Alive(g)' <=> Alive(g)
  <2>1. Append(frames[f], r) # <<>>
    <3>1. frames[f] \in Seq(Records)
      BY DEF TypeOK, Chains
    <3> QED
      BY <3>1, AppendProperties
  <2> QED
    BY <1>2, <2>1 DEF Grows, Alive, TypeOK
<1>3. ASSUME NEW depth \in Nat, Shrinks(f, depth)
      PROVE  \A g \in Holders : Alive(g)' <=> Alive(g)
  <2>1. frames[f] \in Seq(Records) /\ base[f] \in Nat
    BY DEF TypeOK, Chains
  <2>2. depth >= 1 /\ depth < Len(frames[f])
    BY <1>3, <2>1 DEF Shrinks, Depth
  <2>3. Len(SubSeq(frames[f], 1, depth)) = depth
    BY <2>1, <2>2
  <2>4. SubSeq(frames[f], 1, depth) # <<>> /\ frames[f] # <<>>
    BY <2>2, <2>3
  <2> QED
    BY <1>3, <2>4 DEF Shrinks, Alive, TypeOK
<1> QED
  BY <1>1, <1>2, <1>3

LEMMA NextScheduled ==
    ASSUME TypeOK, TypeOK', Scheduled, Activated, [Next]_vars
    PROVE  Scheduled'
<1>1. ASSUME \A g \in Frames : Alive(g)' <=> Alive(g), UNCHANGED <<stack, suspended>>
      PROVE  Scheduled'
  BY <1>1 DEF Scheduled
<1>2. CASE UNCHANGED vars
  BY <1>1, <1>2 DEF vars, envVars, scheduleVars, Alive
<1>3. ASSUME NEW f \in Frames, ScopeStep(f) PROVE Scheduled'
  BY <1>1, <1>3, ScopeStepShape, ShapeAlive
<1>4. ASSUME NEW f \in Frames, NameStep(f) PROVE Scheduled'
  BY <1>1, <1>4, NameStepShape, ShapeAlive
<1>5. ASSUME NEW f \in Frames, SlotStep(f) PROVE Scheduled'
  BY <1>1, <1>5, SlotStepShape, ShapeAlive
<1>8. ASSUME NEW f \in Frames, Return(f) \/ Yield(f) \/ Fail(f) PROVE Scheduled'
  <2>1. Ends(f) /\ Active(f) /\ stack' = SubSeq(stack, 1, Len(stack) - 1) /\ UNCHANGED suspended
    BY <1>8, PopShape
  <2>2. \A g \in Frames : Alive(g)' <=> g # f /\ Alive(g)
    BY <2>1, TypesAssumption DEF Ends, GiveBack, Drop, Activated, Alive, TypeOK
  <2>3. suspended[f] = "no"
    BY <2>1, ActiveAlive
  <2> QED
    BY <2>1, <2>2, <2>3, PopScheduled DEF Scheduled
<1>9. ASSUME NEW f \in Frames, NEW g \in Generators, Resume(f, g) PROVE Scheduled'
  <2>1. GoesOn(f, g) /\ stack' = Append(stack, f) /\ UNCHANGED suspended
    BY <1>9, ResumeShape
  <2>2. \A h \in Frames : Alive(h)' <=> h = f \/ Alive(h)
    BY <2>1, TypesAssumption DEF GoesOn, Alive, TypeOK
  <2>3. suspended[f] = "no" /\ ~Alive(f)
    BY <2>1 DEF GoesOn, Scheduled
  <2> QED
    BY <2>1, <2>2, <2>3, PushScheduled DEF Scheduled
<1>10. ASSUME NEW f \in Frames, GeneratorStep(f) PROVE Scheduled'
  <2>1. ASSUME NEW g \in Generators, Close(g) PROVE Scheduled'
    BY <1>1, <2>1, CloseShape DEF Keeps, Alive
  <2> QED
    BY <1>8, <1>9, <1>10, <2>1 DEF GeneratorStep
<1>6. ASSUME NEW f \in Frames, FunctionStep(f) PROVE Scheduled'
  <2>1. CASE CreateFunction(f)
    BY <1>1, <2>1 DEF CreateFunction, envVars, Alive
  <2>2. ASSUME NEW n \in Names, NEW v \in Values, DeclareFunction(f, n, v)
        PROVE  Scheduled'
    BY <1>1, <2>2 DEF DeclareFunction, envVars, Alive
  <2>3. CASE CallStep(f)
    <3>1. PICK o \in Holders, chain \in captured, r \in Records : Enters(f, o, chain, r)
      BY <2>3, CallStepShape
    <3>2. stack' = Append(stack, f) /\ UNCHANGED suspended
      BY <2>3, CallStepShape
    <3>3. Append(chain, r) # <<>>
      <4>1. chain \in Seq(Records)
        BY DEF TypeOK, Chains
      <4> QED
        BY <4>1, AppendProperties
    <3>4. \A g \in Frames : Alive(g)' <=> g = f \/ Alive(g)
      BY <3>1, <3>3, TypesAssumption DEF Enters, Alive, TypeOK
    <3>5. suspended[f] = "no" /\ ~Alive(f)
      BY <3>1 DEF Enters, Scheduled
    <3> QED
      BY <3>2, <3>4, <3>5, PushScheduled DEF Scheduled
  <2>4. CASE Return(f)
    BY <1>8, <2>4
  <2> QED
    BY <1>6, <2>1, <2>2, <2>3, <2>4 DEF FunctionStep
<1>7. ASSUME NEW f \in Frames, SuspendStep(f) PROVE Scheduled'
  <2>1. \A g \in Frames : Alive(g)' <=> Alive(g)
    BY <1>7, SuspendStepShape DEF Keeps, Alive
  <2>2. CASE Suspend(f)
    <3>1. Active(f) /\ stack' = SubSeq(stack, 1, Len(stack) - 1)
      BY <2>2 DEF Suspend
    <3>2. suspended' = [suspended EXCEPT ![f] = "await"] /\ "await" \in Suspends
      BY <2>2 DEF Suspend
    <3>4. Alive(f)
      BY <3>1, ActiveAlive
    <3>5. /\ \A g \in Frames : (\E i \in 1..Len(stack') : stack'[i] = g)
                              <=> g # f /\ \E i \in 1..Len(stack) : stack[i] = g
          /\ \A i, j \in 1..Len(stack') : stack'[i] = stack'[j] => i = j
      BY <3>1, PopScheduled
    <3>6. \A g \in Frames : suspended'[g] = IF g = f THEN "await" ELSE suspended[g]
      BY <3>2 DEF TypeOK
    <3> QED
      BY <2>1, <3>2, <3>4, <3>5, <3>6 DEF Scheduled
  <2>3. ASSUME stack' = Append(stack, f), suspended' = [suspended EXCEPT ![f] = "no"],
               suspended[f] # "no"
        PROVE  Scheduled'
    <3>1. Alive(f)
      BY <2>3 DEF Scheduled
    <3>2. /\ \A g \in Frames : (\E i \in 1..Len(stack') : stack'[i] = g)
                              <=> g = f \/ \E i \in 1..Len(stack) : stack[i] = g
          /\ \A i, j \in 1..Len(stack') : stack'[i] = stack'[j] => i = j
      BY <2>3, PushScheduled
    <3>3. \A g \in Frames : suspended'[g] = IF g = f THEN "no" ELSE suspended[g]
      BY <2>3 DEF TypeOK
    <3> QED
      BY <2>1, <3>1, <3>2, <3>3 DEF Scheduled
  <2>4. CASE ResumeAwait(f)
    <3>1. stack' = Append(stack, f)
      BY <2>4 DEF ResumeAwait
    <3> QED
      BY <2>3, <2>4, <3>1 DEF ResumeAwait
  <2> QED
    BY <1>7, <2>2, <2>4 DEF SuspendStep
<1> QED
  BY <1>2, <1>3, <1>4, <1>5, <1>6, <1>7, <1>10 DEF Next

\* Which generator a frame runs.
LEMMA InitActivated == Init => Activated
BY TypesAssumption DEF Init, Activated, Alive

\* No other environment belongs to one that is about to begin.
LEMMA BeginsAlone ==
    ASSUME Activated, NEW f \in Frames, NEW o \in Holders, ~Alive(f), ~Alive(o),
           o = f \/ o \in Generators
    PROVE  \A x \in Holders : owner[x] \in {f, o} => x \in {f, o}
BY TypesAssumption DEF Activated

LEMMA NextActivated ==
    ASSUME TypeOK, TypeOK', Scheduled, Activated, [Next]_vars
    PROVE  Activated'
<1>1. ASSUME \A g \in Holders : Alive(g)' <=> Alive(g), UNCHANGED <<owner, shared>>
      PROVE  Activated'
  BY <1>1 DEF Activated
<1>2. PICK f \in Frames :
        \/ Keeps(f)
        \/ \E r \in Records : Grows(f, r)
        \/ \E depth \in Nat : Shrinks(f, depth)
        \/ \E o \in Holders, chain \in captured, r \in Records : Enters(f, o, chain, r)
        \/ Ends(f)
        \/ \E g \in Generators : GoesOn(f, g)
  BY NextShape DEF StepShape
<1>3. CASE Keeps(f) \/ (\E r \in Records : Grows(f, r)) \/ \E depth \in Nat : Shrinks(f, depth)
  BY <1>1, <1>3, ShapeAlive DEF Keeps, Grows, Shrinks
<1>4. ASSUME NEW o \in Holders, NEW chain \in captured, NEW r \in Records,
             Enters(f, o, chain, r)
      PROVE  Activated'
  <2>1. Append(chain, r) # <<>>
    <3>1. chain \in Seq(Records)
      BY DEF TypeOK, Chains
    <3> QED
      BY <3>1, AppendProperties
  <2>2. \A x \in Holders : Alive(x)' <=> x \in {f, o} \/ Alive(x)
    BY <1>4, <2>1 DEF Enters, Alive, TypeOK
  <2>3. \A x \in Holders : owner'[x] = IF x = f THEN o ELSE owner[x]
    BY <1>4 DEF Enters, TypeOK
  <2>4. \A x \in Holders : owner[x] \in {f, o} => x \in {f, o}
    BY <1>4, BeginsAlone DEF Enters
  <2>5. o = f \/ (o \in Generators /\ "yield" \in Suspends)
    BY <1>4 DEF Enters
  <2>6. UNCHANGED shared
    BY <1>4 DEF Enters
  <2> QED
    BY <2>2, <2>3, <2>4, <2>5, <2>6, TypesAssumption DEF Activated
<1>5. CASE Ends(f)
  <2>1. \A x \in Holders : owner'[x] = IF x = f THEN f ELSE owner[x]
    BY <1>5 DEF Ends, TypeOK
  <2>2. \A x \in Holders : x # f => (Alive(x)' <=> Alive(x))
    BY <1>5, TypesAssumption DEF Ends, GiveBack, Drop, Alive, Activated, TypeOK
  <2>3. shared' = shared \ {f}
    BY <1>5 DEF Ends
  <2> QED
    BY <2>1, <2>2, <2>3, TypesAssumption DEF Activated
<1>6. ASSUME NEW g \in Generators, GoesOn(f, g) PROVE Activated'
  <2>1. \A x \in Holders : owner'[x] = IF x = f THEN g ELSE owner[x]
    BY <1>6 DEF GoesOn, TypeOK
  <2>2. \A x \in Holders : Alive(x)' <=> x = f \/ Alive(x)
    BY <1>6 DEF GoesOn, Alive, TypeOK
  <2>3. shared' = Joined(owner, shared, f, g) /\ Alive(g) /\ owner[f] = f
    BY <1>6 DEF GoesOn, Activated
  <2>4. shared \subseteq shared'
    BY <2>3 DEF Joined
  <2>5. \A h \in Frames : owner[h] = g => h \in shared' /\ f \in shared'
    BY <2>3 DEF Joined
  <2> QED
    BY <2>1, <2>2, <2>3, <2>4, <2>5, TypesAssumption DEF Activated
<1> QED
  BY <1>2, <1>3, <1>4, <1>5, <1>6

-----------------------------------------------------------------------------
(***************************************************************************)
(* The chains of scope frames.                                             *)
(***************************************************************************)
ChainInv == TypeOK /\ Scheduled /\ Activated /\ Shape /\ Created /\ Owned

LEMMA InitChainInv == Init => ChainInv
<1> SUFFICES ASSUME Init PROVE ChainInv
  OBVIOUS
<1>1. frames[Main] = <<GlobalRecord>> /\ \A f \in Holders : f # Main => frames[f] = <<>>
  BY TypesAssumption DEF Init
<1>2. Depth(Main) = 1 /\ \A f \in Holders : f # Main => Depth(f) = 0 /\ ~Alive(f)
  BY <1>1 DEF Depth, Alive
<1>3. \A f \in Holders : base[f] = 0
  BY DEF Init
<1>4. kind[GlobalRecord] = "Global" /\ captured = {}
  BY TypesAssumption DEF Init
<1>5. Shape
  BY <1>1, <1>2, <1>3, <1>4 DEF Shape, OwnFrames, Boundaries
<1>6. Created
  BY <1>1, <1>2, <1>4 DEF Created, Unused
<1>7. Owned
  BY <1>1, <1>2, <1>3 DEF Owned, OwnFrames
<1> QED
  BY <1>5, <1>6, <1>7, InitTypeOK, InitScheduled, InitActivated DEF ChainInv

\* The scope frames after a push: those before it, and the new one.
LEMMA GrowsChains ==
    ASSUME TypeOK, NEW f \in Frames, NEW r \in Records, Grows(f, r)
    PROVE  /\ Depth(f) \in Nat /\ Depth(f)' = Depth(f) + 1
           /\ \A i \in 1..Depth(f) : frames'[f][i] = frames[f][i]
           /\ frames'[f][Depth(f) + 1] = r
           /\ \A g \in Holders : g # f => frames'[g] = frames[g]
<1>1. frames[f] \in Seq(Records)
  BY DEF TypeOK, Chains
<1>2. frames'[f] = Append(frames[f], r) /\ \A g \in Holders : g # f => frames'[g] = frames[g]
  BY DEF Grows, TypeOK
<1> QED
  BY <1>1, <1>2, AppendProperties DEF Depth

LEMMA ShrinksChains ==
    ASSUME TypeOK, NEW f \in Frames, NEW depth \in Nat, Shrinks(f, depth)
    PROVE  /\ base[f] < depth /\ depth < Depth(f) /\ Depth(f)' = depth
           /\ Depth(f) \in Nat /\ base[f] \in Nat
           /\ \A i \in 1..depth : frames'[f][i] = frames[f][i]
           /\ \A g \in Holders : g # f => frames'[g] = frames[g]
<1>1. frames[f] \in Seq(Records) /\ base[f] \in Nat
  BY DEF TypeOK, Chains
<1>2. frames'[f] = SubSeq(frames[f], 1, depth) /\ \A g \in Holders : g # f => frames'[g] = frames[g]
  BY DEF Shrinks, TypeOK
<1>3. base[f] < depth /\ depth < Depth(f) /\ depth \in 0..Len(frames[f])
  BY <1>1 DEF Shrinks, Depth
<1> QED
  BY <1>1, <1>2, <1>3, PrefixProperties DEF Depth

LEMMA EntersChains ==
    ASSUME TypeOK, NEW f \in Frames, NEW o \in Holders, NEW chain \in captured,
           NEW r \in Records, Enters(f, o, chain, r)
    PROVE  /\ Len(chain) \in Nat
           /\ \A x \in {f, o} : /\ Depth(x)' = Len(chain) + 1 /\ base'[x] = Len(chain)
                                /\ \A i \in 1..Len(chain) : frames'[x][i] = chain[i]
                                /\ frames'[x][Len(chain) + 1] = r
           /\ \A g \in Holders \ {f, o} : frames'[g] = frames[g] /\ base'[g] = base[g]
<1>1. chain \in Seq(Records)
  BY DEF TypeOK, Chains
<1>2. /\ \A x \in {f, o} : frames'[x] = Append(chain, r) /\ base'[x] = Len(chain)
      /\ \A g \in Holders \ {f, o} : frames'[g] = frames[g] /\ base'[g] = base[g]
  BY DEF Enters, TypeOK
<1> QED
  BY <1>1, <1>2, AppendProperties DEF Depth

\* After the other steps an environment is gone, or it is what some environment
\* of the same owner was.
Copies ==
    /\ \A x \in Holders : Alive(x)' =>
         \E y \in Holders : frames'[x] = frames[y] /\ base'[x] = base[y] /\ owner'[x] = owner[y]
    /\ UNCHANGED <<kind, captured>>

LEMMA EndsOrGoesOnCopies ==
    ASSUME TypeOK, Activated, NEW f \in Frames,
           Ends(f) \/ \E g \in Generators : GoesOn(f, g)
    PROVE  Copies
<1>1. CASE Ends(f)
  <2>1. owner[f] \in Holders /\ owner[owner[f]] = owner[f]
    BY DEF Activated, TypeOK
  <2>2. \A x \in Holders : owner'[x] = IF x = f THEN f ELSE owner[x]
    BY <1>1 DEF Ends, TypeOK
  <2>3. \A x \in Holders : x \notin {f, owner[f]} => frames'[x] = frames[x] /\ base'[x] = base[x]
    BY <1>1 DEF Ends, GiveBack, Drop, TypeOK
  <2>4. frames'[f] = <<>>
    BY <1>1, <2>1 DEF Ends, GiveBack, Drop, TypeOK
  <2>5. owner[f] # f => \E y \in Holders : /\ frames'[owner[f]] = frames[y]
                                           /\ base'[owner[f]] = base[y]
                                           /\ owner[owner[f]] = owner[y]
    <3>1. CASE GiveBack(f)
      BY <2>1, <3>1 DEF GiveBack, TypeOK
    <3>2. CASE Drop(f)
      BY <2>1, <3>2 DEF Drop, TypeOK
    <3> QED
      BY <1>1, <3>1, <3>2 DEF Ends
  <2> QED
    BY <1>1, <2>1, <2>2, <2>3, <2>4, <2>5 DEF Copies, Alive, Ends
<1>2. ASSUME NEW g \in Generators, GoesOn(f, g) PROVE Copies
  <2>1. owner[g] = g
    BY DEF Activated
  <2>2. \A x \in Holders : LET y == IF x = f THEN g ELSE x
                           IN  frames'[x] = frames[y] /\ base'[x] = base[y]
    BY <1>2 DEF GoesOn, TypeOK
  <2>3. \A x \in Holders : owner'[x] = IF x = f THEN g ELSE owner[x]
    BY <1>2 DEF GoesOn, TypeOK
  <2> QED
    BY <1>2, <2>1, <2>2, <2>3 DEF Copies, GoesOn
<1> QED
  BY <1>1, <1>2

LEMMA NextShapeInv ==
    ASSUME ChainInv, StepShape
    PROVE  Shape'
<1> USE DEF ChainInv
<1>1. PICK f \in Frames :
        \/ Keeps(f)
        \/ \E r \in Records : Grows(f, r)
        \/ \E depth \in Nat : Shrinks(f, depth)
        \/ \E o \in Holders, chain \in captured, r \in Records : Enters(f, o, chain, r)
        \/ Copies
  BY EndsOrGoesOnCopies DEF StepShape
<1>2. \A g \in Holders : base[g] \in Nat /\ Depth(g) \in Nat
  BY DEF TypeOK, Chains, Depth
<1>3. CASE Keeps(f)
  BY <1>3 DEF Keeps, Shape, Alive, Depth, OwnFrames
<1>4. ASSUME NEW r \in Records, Grows(f, r) PROVE Shape'
  <2>1. Alive(f) /\ base' = base /\ \E k \in {"Block", "Catch"} : kind' = [kind EXCEPT ![r] = k]
    BY <1>4 DEF Grows
  <2>2. kind'[r] \notin Boundaries /\ \A q \in Records : q # r => kind'[q] = kind[q]
    BY <2>1 DEF TypeOK, Boundaries
  <2>3. \A g \in Holders : \A i \in 1..Depth(g) : frames[g][i] \in Records /\ frames[g][i] # r
    BY <1>4 DEF Grows, Fresh, Created, TypeOK, Chains, Depth
  <2>4. ASSUME NEW g \in Holders, Alive(g)', g # f
        PROVE  /\ base'[g] < Depth(g)'
               /\ \A i \in OwnFrames(g)' : kind'[frames'[g][i]] \in Boundaries <=> i = base'[g] + 1
    <3>1. frames'[g] = frames[g] /\ Alive(g) /\ Depth(g)' = Depth(g) /\ OwnFrames(g)' = OwnFrames(g)
      BY <1>4, <2>1, <2>4, GrowsChains DEF Alive, Depth, OwnFrames
    <3>2. OwnFrames(g) \subseteq 1..Depth(g)
      BY <1>2 DEF OwnFrames
    <3> QED
      BY <2>1, <2>2, <2>3, <3>1, <3>2 DEF Shape
  <2>5. /\ base'[f] < Depth(f)'
        /\ \A i \in OwnFrames(f)' : kind'[frames'[f][i]] \in Boundaries <=> i = base'[f] + 1
    <3>1. base[f] < Depth(f) /\ Depth(f)' = Depth(f) + 1
      BY <1>4, <2>1, GrowsChains DEF Shape
    <3>2. ASSUME NEW i \in OwnFrames(f)'
          PROVE  kind'[frames'[f][i]] \in Boundaries <=> i = base'[f] + 1
      <4>1. CASE i \in OwnFrames(f)
        <5>1. i \in 1..Depth(f) /\ frames'[f][i] = frames[f][i]
          BY <1>2, <1>4, <4>1, GrowsChains DEF OwnFrames
        <5> QED
          BY <2>1, <2>2, <2>3, <4>1, <5>1 DEF Shape
      <4>2. CASE i \notin OwnFrames(f)
        <5>1. i = Depth(f) + 1
          BY <1>2, <2>1, <3>1, <3>2, <4>2 DEF OwnFrames
        <5> QED
          BY <1>2, <1>4, <2>1, <2>2, <3>1, <5>1, GrowsChains
      <4> QED
        BY <4>1, <4>2
    <3> QED
      BY <1>2, <2>1, <3>1, <3>2
  <2> QED
    BY <2>4, <2>5 DEF Shape
<1>5. ASSUME NEW depth \in Nat, Shrinks(f, depth) PROVE Shape'
  <2>1. base' = base /\ kind' = kind
    BY <1>5 DEF Shrinks
  <2>2. Alive(f)
    BY <1>2, <1>5, ShrinksChains DEF Alive, Depth
  <2>3. ASSUME NEW g \in Holders, Alive(g)'
        PROVE  /\ base'[g] < Depth(g)'
               /\ \A i \in OwnFrames(g)' : kind'[frames'[g][i]] \in Boundaries <=> i = base'[g] + 1
    <3>1. CASE g = f
      <4>1. base[f] < depth /\ Depth(f)' = depth /\ depth < Depth(f)
        BY <1>5, ShrinksChains
      <4>2. \A i \in OwnFrames(f)' : i \in OwnFrames(f) /\ frames'[f][i] = frames[f][i]
        BY <1>2, <1>5, <2>1, <4>1, ShrinksChains DEF OwnFrames
      <4> QED
        BY <2>1, <2>2, <3>1, <4>1, <4>2 DEF Shape
    <3>2. CASE g # f
      <4>1. frames'[g] = frames[g]
        BY <1>5, <3>2, ShrinksChains
      <4> QED
        BY <2>1, <2>3, <4>1 DEF Shape, Alive, Depth, OwnFrames
    <3> QED
      BY <3>1, <3>2
  <2> QED
    BY <2>3 DEF Shape
<1>6. ASSUME NEW o \in Holders, NEW chain \in captured, NEW r \in Records,
             Enters(f, o, chain, r)
      PROVE  Shape'
  <2>1. kind' = [kind EXCEPT ![r] = "Function"]
    BY <1>6 DEF Enters
  <2>2. kind'[r] \in Boundaries /\ \A q \in Records : q # r => kind'[q] = kind[q]
    BY <2>1 DEF TypeOK, Boundaries
  <2>3. \A g \in Holders : \A i \in 1..Depth(g) : frames[g][i] \in Records /\ frames[g][i] # r
    BY <1>6 DEF Enters, Fresh, Created, TypeOK, Chains, Depth
  <2>4. ASSUME NEW g \in Holders, Alive(g)'
        PROVE  /\ base'[g] < Depth(g)'
               /\ \A i \in OwnFrames(g)' : kind'[frames'[g][i]] \in Boundaries <=> i = base'[g] + 1
    <3>1. CASE g \in {f, o}
      <4>1. Depth(g)' = base'[g] + 1 /\ base'[g] \in Nat /\ frames'[g][base'[g] + 1] = r
        BY <1>6, <3>1, EntersChains
      <4>2. \A i \in OwnFrames(g)' : i = base'[g] + 1
        BY <4>1 DEF OwnFrames
      <4> QED
        BY <2>2, <4>1, <4>2
    <3>2. CASE g \notin {f, o}
      <4>1. frames'[g] = frames[g] /\ base'[g] = base[g]
        BY <1>6, <3>2, EntersChains
      <4>2. OwnFrames(g) \subseteq 1..Depth(g)
        BY <1>2 DEF OwnFrames
      <4>3. Alive(g) /\ Depth(g)' = Depth(g) /\ OwnFrames(g)' = OwnFrames(g)
        BY <2>4, <4>1 DEF Alive, Depth, OwnFrames
      <4> QED
        BY <2>2, <2>3, <4>1, <4>2, <4>3 DEF Shape
    <3> QED
      BY <3>1, <3>2
  <2> QED
    BY <2>4 DEF Shape
<1>7. CASE Copies
  <2>1. \A x \in Holders : Alive(x)' =>
          \E y \in Holders : frames'[x] = frames[y] /\ base'[x] = base[y] /\ Alive(y)
    BY <1>7 DEF Copies, Alive
  <2>2. kind' = kind
    BY <1>7 DEF Copies
  <2> QED
    BY <2>1, <2>2 DEF Shape, Depth, OwnFrames
<1> QED
  BY <1>1, <1>3, <1>4, <1>5, <1>6, <1>7

LEMMA NextCreated ==
    ASSUME ChainInv, StepShape
    PROVE  Created'
<1> USE DEF ChainInv
<1> DEFINE Made(chain) == \A i \in 1..Len(chain) : kind'[chain[i]] # Unused
<1>1. PICK f \in Frames :
        \/ Keeps(f)
        \/ \E r \in Records : Grows(f, r)
        \/ \E depth \in Nat : Shrinks(f, depth)
        \/ \E o \in Holders, chain \in captured, r \in Records : Enters(f, o, chain, r)
        \/ Copies
  BY EndsOrGoesOnCopies DEF StepShape
<1>2. \A q \in Records : kind[q] # Unused => kind'[q] # Unused
  <2>1. ASSUME NEW k \in {"Block", "Catch", "Function"}, NEW r \in Records,
               kind' = [kind EXCEPT ![r] = k]
        PROVE  \A q \in Records : kind[q] # Unused => kind'[q] # Unused
    BY <2>1 DEF TypeOK, Unused
  <2> QED
    BY <1>1, <2>1 DEF Keeps, Grows, Shrinks, Enters, Copies
<1>3. \A chain \in captured : chain \in Seq(Records) /\ Made(chain)
  BY <1>2 DEF Created, TypeOK, Chains
<1>4. \A g \in Holders : frames[g] \in Seq(Records) /\ Made(frames[g])
  BY <1>2 DEF Created, TypeOK, Chains, Depth
<1>5. ASSUME NEW chain \in Seq(Records), Made(chain), NEW r \in Records, kind'[r] # Unused
      PROVE  Made(Append(chain, r))
  <2>1. Len(Append(chain, r)) = Len(chain) + 1 /\ Len(chain) \in Nat
    OBVIOUS
  <2>2. \A i \in 1..(Len(chain) + 1) :
          Append(chain, r)[i] = IF i = Len(chain) + 1 THEN r ELSE chain[i]
    BY AppendProperties
  <2> QED
    BY <1>5, <2>1, <2>2
<1> HIDE DEF Made
<1>6. CASE Keeps(f)
  <2>1. frames' = frames /\ \A chain \in captured' : chain \in captured \/ chain = frames[f]
    BY <1>6 DEF Keeps
  <2>2. \A chain \in captured' : Made(chain)
    BY <1>3, <1>4, <2>1
  <2> QED
    BY <1>4, <2>1, <2>2 DEF Created, Depth, Made
<1>7. ASSUME NEW r \in Records, Grows(f, r) PROVE Created'
  <2>1. captured' = captured /\ \A g \in Holders :
          frames'[g] = IF g = f THEN Append(frames[f], r) ELSE frames[g]
    BY <1>7 DEF Grows, TypeOK
  <2>2. kind'[r] # Unused
    BY <1>7 DEF Grows, TypeOK, Unused
  <2>3. \A g \in Holders : Made(frames'[g])
    BY <1>4, <1>5, <2>1, <2>2
  <2> QED
    BY <1>3, <2>1, <2>3 DEF Created, Depth, Made
<1>8. ASSUME NEW depth \in Nat, Shrinks(f, depth) PROVE Created'
  <2>1. captured' = captured
    BY <1>8 DEF Shrinks
  <2>2. ASSUME NEW g \in Holders, NEW i \in 1..Depth(g)' PROVE kind'[frames'[g][i]] # Unused
    <3>1. i \in 1..Depth(g) /\ frames'[g][i] = frames[g][i]
      BY <1>8, ShrinksChains DEF Depth
    <3> QED
      BY <1>4, <3>1 DEF Made, Depth
  <2> QED
    BY <1>3, <2>1, <2>2 DEF Created, Made
<1>9. ASSUME NEW o \in Holders, NEW chain \in captured, NEW r \in Records,
             Enters(f, o, chain, r)
      PROVE  Created'
  <2>1. kind'[r] # Unused
    BY <1>9 DEF Enters, TypeOK, Unused
  <2>2. Made(Append(chain, r))
    BY <1>3, <1>5, <2>1
  <2>3. \A g \in Holders : frames'[g] = IF g \in {f, o} THEN Append(chain, r) ELSE frames[g]
    BY <1>9 DEF Enters, TypeOK
  <2>4. \A c \in captured' : c \in captured \/ c = Append(chain, r)
    BY <1>9 DEF Enters
  <2>5. \A c \in captured' : Made(c)
    BY <1>3, <2>2, <2>4
  <2>6. \A g \in Holders : Made(frames'[g])
    BY <1>4, <2>2, <2>3
  <2> QED
    BY <2>5, <2>6 DEF Created, Depth, Made
<1>10. CASE Copies
  <2>1. captured' = captured
    BY <1>10 DEF Copies
  <2>2. \A g \in Holders : Made(frames'[g])
    <3>1. Made(<<>>)
      BY DEF Made
    <3> QED
      BY <1>4, <1>10, <3>1 DEF Copies, Alive
  <2> QED
    BY <1>3, <2>1, <2>2 DEF Created, Depth, Made
<1> QED
  BY <1>1, <1>6, <1>7, <1>8, <1>9, <1>10

LEMMA NextOwned ==
    ASSUME ChainInv, TypeOK', StepShape
    PROVE  Owned'
<1> USE DEF ChainInv
<1>1. PICK f \in Frames :
        \/ Keeps(f)
        \/ \E r \in Records : Grows(f, r)
        \/ \E depth \in Nat : Shrinks(f, depth)
        \/ \E o \in Holders, chain \in captured, r \in Records : Enters(f, o, chain, r)
        \/ Copies
  BY EndsOrGoesOnCopies DEF StepShape
<1>2. \A g \in Holders : base[g] \in Nat /\ Depth(g) \in Nat
  BY DEF TypeOK, Chains, Depth
<1>3. CASE Keeps(f)
  BY <1>3 DEF Keeps, Owned, OwnFrames, Depth
\* A record that was unused appears at one index of one frame.
<1>4. ASSUME NEW r \in Records, Grows(f, r) PROVE Owned'
  <2>1. base' = base /\ owner' = owner
    BY <1>4 DEF Grows
  <2>2. \A g \in Holders : \A j \in 1..Depth(g) : frames[g][j] # r
    BY <1>4 DEF Grows, Fresh, Created
  <2>3. \A g \in Holders : \A j \in 1..Depth(g)' :
          \/ g = f /\ j = Depth(f) + 1 /\ frames'[g][j] = r
          \/ j \in 1..Depth(g) /\ frames'[g][j] = frames[g][j]
    BY <1>2, <1>4, GrowsChains DEF Depth
  <2>4. ASSUME NEW g \in Holders, NEW h \in Holders,
               NEW i \in OwnFrames(g)', NEW j \in 1..Depth(h)',
               frames'[g][i] = frames'[h][j]
        PROVE  IF owner[g] = owner[h] THEN i = j ELSE j <= base[h]
    <3>1. i \in 1..Depth(g)'
      BY <1>2, <2>1 DEF OwnFrames
    <3>2. i \in 1..Depth(g) => i \in OwnFrames(g)
      BY <2>1, <2>4 DEF OwnFrames
    <3> QED
      BY <2>2, <2>3, <2>4, <3>1, <3>2 DEF Owned
  <2> QED
    BY <2>1, <2>4 DEF Owned
<1>5. ASSUME NEW depth \in Nat, Shrinks(f, depth) PROVE Owned'
  <2>1. base' = base /\ owner' = owner
    BY <1>5 DEF Shrinks
  <2>2. \A g \in Holders : \A j \in 1..Depth(g)' :
          j \in 1..Depth(g) /\ frames'[g][j] = frames[g][j]
    BY <1>5, ShrinksChains DEF Depth
  <2>3. \A g \in Holders : \A i \in OwnFrames(g)' : i \in OwnFrames(g) /\ i \in 1..Depth(g)'
    BY <1>2, <1>5, <2>1, ShrinksChains DEF OwnFrames, Depth
  <2> QED
    BY <2>1, <2>2, <2>3 DEF Owned
<1>6. ASSUME NEW o \in Holders, NEW chain \in captured, NEW r \in Records,
             Enters(f, o, chain, r)
      PROVE  Owned'
  <2>1. \A g \in Holders : \A j \in 1..Depth(g) : frames[g][j] # r
    BY <1>6 DEF Enters, Fresh, Created
  <2>2. /\ \A x \in {f, o} : /\ Depth(x)' = base'[x] + 1 /\ base'[x] = Len(chain)
                             /\ frames'[x][base'[x] + 1] = r
        /\ \A g \in Holders \ {f, o} : frames'[g] = frames[g] /\ base'[g] = base[g]
        /\ Len(chain) \in Nat
    BY <1>6, EntersChains
  <2>3. \A x \in {f, o} : \A i \in OwnFrames(x)' : i = base'[x] + 1
    BY <2>2 DEF OwnFrames
  <2>4. \A x \in {f, o} : \A j \in 1..Depth(x)' : j = base'[x] + 1 \/ j <= base'[x]
    BY <2>2
  <2>5. ASSUME NEW x \in {f, o}, NEW j \in 1..Depth(x)', j <= base'[x]
        PROVE  frames'[x][j] # r
    <3>1. j \in 1..Len(chain) /\ frames'[x][j] = chain[j]
      BY <1>6, <2>2, <2>5, EntersChains
    <3> QED
      BY <1>6, <3>1 DEF Enters, Fresh, Created
  <2>7. /\ \A x \in {f, o} : owner'[x] = o
        /\ \A g \in Holders \ {f, o} : owner'[g] = owner[g] /\ owner[g] # o
    <3>1. \A x \in Holders : owner[x] \in {f, o} => x \in {f, o}
      BY <1>6, BeginsAlone DEF Enters
    <3>2. \A x \in Holders : owner'[x] = IF x = f THEN o ELSE owner[x]
      BY <1>6 DEF Enters, TypeOK
    <3>3. o # f => owner[o] = o
      BY <1>6 DEF Enters, Activated
    <3> QED
      BY <3>1, <3>2, <3>3
  <2>6. ASSUME NEW g \in Holders, NEW h \in Holders,
               NEW i \in OwnFrames(g)', NEW j \in 1..Depth(h)',
               frames'[g][i] = frames'[h][j]
        PROVE  IF owner'[g] = owner'[h] THEN i = j ELSE j <= base'[h]
    <3>1. CASE g \in {f, o} /\ h \in {f, o}
      <4>1. i = Len(chain) + 1 /\ frames'[g][i] = r
        BY <2>2, <2>3, <3>1
      <4>2. j = base'[h] + 1
        BY <2>4, <2>5, <2>6, <3>1, <4>1
      <4>3. base'[h] = Len(chain) /\ owner'[g] = owner'[h]
        BY <2>2, <2>7, <3>1
      <4> QED
        BY <4>1, <4>2, <4>3
    <3>2. CASE g \in {f, o} /\ h \notin {f, o}
      <4>1. j \in 1..Depth(h) /\ frames'[h][j] = frames[h][j]
        BY <2>2, <3>2 DEF Depth
      <4> QED
        BY <2>1, <2>2, <2>3, <2>6, <3>2, <4>1
    <3>3. CASE g \notin {f, o}
      <4>1. i \in OwnFrames(g) /\ i \in 1..Depth(g) /\ frames'[g][i] = frames[g][i]
        BY <1>2, <2>2, <3>3 DEF OwnFrames, Depth
      <4>2. CASE h \in {f, o}
        <5>1. frames'[h][j] # r
          BY <2>1, <2>6, <4>1
        <5>2. j <= base'[h]
          BY <2>2, <2>4, <4>2, <5>1
        <5>3. owner'[g] # owner'[h]
          BY <2>7, <3>3, <4>2
        <5> QED
          BY <5>2, <5>3
      <4>3. CASE h \notin {f, o}
        <5>1. j \in 1..Depth(h) /\ frames'[h][j] = frames[h][j] /\ base'[h] = base[h]
          BY <2>2, <4>3 DEF Depth
        <5>2. frames[g][i] = frames[h][j]
          BY <2>6, <4>1, <5>1
        <5>3. IF owner[g] = owner[h] THEN i = j ELSE j <= base[h]
          BY <4>1, <5>1, <5>2 DEF Owned
        <5> QED
          BY <2>7, <3>3, <4>3, <5>1, <5>3
      <4> QED
        BY <4>2, <4>3
    <3> QED
      BY <3>1, <3>2, <3>3
  <2> QED
    BY <2>6 DEF Owned
<1>7. CASE Copies
  <2>1. ASSUME NEW g \in Holders, NEW h \in Holders,
               NEW i \in OwnFrames(g)', NEW j \in 1..Depth(h)',
               frames'[g][i] = frames'[h][j]
        PROVE  IF owner'[g] = owner'[h] THEN i = j ELSE j <= base'[h]
    <3>1. \A x \in Holders : frames'[x] \in Seq(Records) /\ base'[x] \in Nat
      BY DEF TypeOK, Chains
    <3>2. Alive(g)' /\ Alive(h)'
      BY <3>1 DEF Alive, OwnFrames, Depth
    <3>3. PICK y \in Holders : frames'[g] = frames[y] /\ base'[g] = base[y] /\ owner'[g] = owner[y]
      BY <1>7, <3>2 DEF Copies
    <3>4. PICK z \in Holders : frames'[h] = frames[z] /\ base'[h] = base[z] /\ owner'[h] = owner[z]
      BY <1>7, <3>2 DEF Copies
    <3>5. i \in OwnFrames(y) /\ j \in 1..Depth(z)
      BY <3>3, <3>4 DEF OwnFrames, Depth
    <3> QED
      BY <2>1, <3>3, <3>4, <3>5 DEF Owned
  <2> QED
    BY <2>1 DEF Owned
<1> QED
  BY <1>1, <1>3, <1>4, <1>5, <1>6, <1>7

\* Executor frames own the records they pushed, every record is pushed once, and a
\* frame holds a record of another only in the part of its chain it cloned, or at the
\* same index when both run the one generator: the inductive invariant.
THEOREM ChainsCorrect == Spec => []ChainInv
<1>1. Init => ChainInv
  BY InitChainInv
<1>2. ChainInv /\ [Next]_vars => ChainInv'
  BY NextTypeOK, NextScheduled, NextActivated, NextShape, NextShapeInv, NextCreated,
     NextOwned DEF ChainInv
<1> QED
  BY <1>1, <1>2, PTL DEF Spec

\* A lookup by slot stops at the scope frame the call pushed.
LEMMA BoundaryIsBase ==
    ASSUME TypeOK, Shape, NEW f \in Frames, Alive(f)
    PROVE  \A b \in 1..Depth(f) : Boundary(f, b) <=> b = base[f] + 1
<1>1. base[f] \in Nat /\ Depth(f) \in Nat /\ base[f] + 1 \in 1..Depth(f)
  BY DEF TypeOK, Chains, Depth, Shape
<1>2. \A i \in 1..Depth(f) : i > base[f] =>
        (kind[frames[f][i]] \in Boundaries <=> i = base[f] + 1)
  BY <1>1 DEF Shape, OwnFrames
<1> QED
  BY <1>1, <1>2 DEF Boundary, IsBoundary, IsInnermost, Depth

\* Two living frames never see a common record through slots, unless they are
\* activations of the one generator: get_slot and set_slot stop at the function
\* boundary, and what lies inside it was pushed by the frame, or by an activation of
\* the generator it runs.
THEOREM SlotsArePrivate == Spec => []SlotsPrivate
<1>1. ChainInv => SlotsPrivate
  <2> SUFFICES ASSUME ChainInv,
                      NEW f \in Frames, NEW g \in Frames, owner[f] # owner[g],
                      Alive(f), Alive(g),
                      NEW b \in 1..Depth(f), NEW c \in 1..Depth(g),
                      Boundary(f, b), Boundary(g, c),
                      NEW i \in b..Depth(f), NEW j \in c..Depth(g)
               PROVE  frames[f][i] # frames[g][j]
    BY DEF SlotsPrivate
  <2>1. b = base[f] + 1 /\ c = base[g] + 1
    BY BoundaryIsBase DEF ChainInv
  <2>2. i \in OwnFrames(f) /\ j \in 1..Depth(g) /\ ~(j <= base[g])
    BY <2>1 DEF OwnFrames, ChainInv, TypeOK, Chains, Depth
  <2> QED
    BY <2>2 DEF ChainInv, Owned
<1> QED
  BY <1>1, ChainsCorrect, PTL

-----------------------------------------------------------------------------
(***************************************************************************)
(* The slot cache.                                                         *)
(***************************************************************************)

\* The entry of one slot in the cache of one frame.
SlotEntry(f, s) ==
    LET i == slot_cache[f][s]
    IN  i # 0 => /\ s \in FastSlots /\ i \in OwnFrames(f)
                 /\ f \notin shared /\ HasSlot(f, i, s) =>
                      \A j \in OwnFrames(f) : j > i => ~HasSlot(f, j, s)

\* A step of f binds slots in records of f's own, or in new ones, and
\* leaves the other frames' chains and caches alone.
SlotsOf(f) ==
    /\ \A g \in Frames : g # f => /\ frames'[g] = frames[g] /\ base'[g] = base[g]
                                  /\ slot_cache'[g] = slot_cache[g]
                                  /\ g \in shared => g \in shared'
    /\ \A r \in Records : \/ slot_values'[r] = slot_values[r]
                           \/ Fresh(r)
                           \/ \E i \in OwnFrames(f) : r = frames[f][i]

\* So the entries of the others stay right: no record of theirs is f's, but for
\* those that run beside it.
LEMMA OtherSlotEntries ==
    ASSUME ChainInv, NEW f \in Frames, SlotsOf(f),
           NEW g \in Frames, g # f, NEW s \in Slots, SlotEntry(g, s)
    PROVE  SlotEntry(g, s)'
<1>1. /\ frames'[g] = frames[g] /\ slot_cache'[g] = slot_cache[g]
      /\ OwnFrames(g)' = OwnFrames(g)
  BY DEF SlotsOf, OwnFrames, Depth
<1>2. OwnFrames(g) \subseteq 1..Depth(g) /\ OwnFrames(f) \subseteq 1..Depth(f)
  BY DEF ChainInv, OwnFrames, TypeOK, Chains, Depth
<1>0. CASE g \in shared
  BY <1>0, <1>1 DEF SlotsOf, SlotEntry
<1>3. ASSUME g \notin shared, NEW i \in OwnFrames(g)
      PROVE  HasSlot(g, i, s)' <=> HasSlot(g, i, s)
  <2>1. frames[g][i] \in Records /\ ~Fresh(frames[g][i])
    BY <1>2 DEF ChainInv, Created, Fresh, TypeOK, Chains, Depth
  <2>2. \A j \in OwnFrames(f) : frames[g][i] # frames[f][j]
    <3> SUFFICES ASSUME NEW j \in OwnFrames(f), frames[g][i] = frames[f][j] PROVE FALSE
      OBVIOUS
    <3>1. i \in 1..Depth(g) /\ j \in 1..Depth(f)
      BY <1>2
    <3>2. i <= base[g]
      <4>1. owner[f] # owner[g]
        BY <1>3 DEF ChainInv, Activated
      <4> QED
        BY <3>1, <4>1 DEF ChainInv, Owned
    <3> QED
      BY <3>2 DEF OwnFrames, ChainInv, TypeOK, Chains, Depth
  <2>3. slot_values'[frames[g][i]] = slot_values[frames[g][i]]
    BY <2>1, <2>2 DEF SlotsOf
  <2> QED
    BY <1>1, <2>3 DEF HasSlot
<1> QED
  BY <1>0, <1>1, <1>3 DEF SlotEntry

LEMMA SameSlotEntries ==
    ASSUME ChainInv, SlotShortcut, UNCHANGED <<frames, base, slot_values, slot_cache, shared>>
    PROVE  SlotShortcut'
BY DEF SlotShortcut, OwnFrames, Depth, HasSlot

\* It remains to look at the entries of the frame that takes the step.
LEMMA OwnSlotEntries ==
    ASSUME ChainInv, SlotShortcut, NEW f \in Frames, SlotsOf(f),
           \A s \in Slots : SlotEntry(f, s)'
    PROVE  SlotShortcut'
<1>1. \A g \in Frames, s \in Slots : SlotEntry(g, s)
  BY DEF SlotShortcut, SlotEntry
<1>2. \A g \in Frames, s \in Slots : SlotEntry(g, s)'
  BY <1>1, OtherSlotEntries
<1> QED
  BY <1>2 DEF SlotShortcut, SlotEntry

LEMMA ClearedSlotEntries ==
    ASSUME ChainInv, SlotShortcut, NEW f \in Frames, SlotsOf(f), slot_cache'[f] = NoSlots
    PROVE  SlotShortcut'
<1>1. \A s \in Slots : SlotEntry(f, s)'
  BY DEF SlotEntry, NoSlots
<1> QED
  BY <1>1, OwnSlotEntries

LEMMA ClearsLookupCaches ==
    ASSUME TypeOK, NEW f \in Frames, ClearLookupCaches(f)
    PROVE  slot_cache'[f] = NoSlots /\ \A g \in Frames : g # f => slot_cache'[g] = slot_cache[g]
BY DEF ClearLookupCaches, TypeOK

\* A step that caches s at frame i, the innermost one of its own to hold s.
LEMMA CachedSlotEntry ==
    ASSUME ChainInv, SlotShortcut, NEW f \in Frames, NEW s \in Slots,
           NEW i \in OwnFrames(f),
           f \in shared \/ \A j \in OwnFrames(f) : j > i => ~HasSlot(f, j, s),
           CacheSlot(f, s, i),
           \/ UNCHANGED slot_values
           \/ \E v \in Cell : BindSlot(frames[f][i], s, v),
           UNCHANGED <<frames, base, shared>>
    PROVE  SlotShortcut'
<1>0. OwnFrames(f) \subseteq 1..Depth(f) /\ \A j \in OwnFrames(f) : frames[f][j] \in Records
  <2>1. frames[f] \in Seq(Records) /\ base[f] \in Nat /\ Depth(f) = Len(frames[f])
    BY DEF ChainInv, TypeOK, Chains, Depth
  <2> QED
    BY <2>1 DEF OwnFrames
<1>a. slot_values \in [Records -> [Slots -> Cell]] /\ frames[f][i] \in Records
  BY <1>0 DEF ChainInv, TypeOK
<1>b. ASSUME NEW v \in Cell, BindSlot(frames[f][i], s, v)
      PROVE  /\ \A r \in Records : r # frames[f][i] => slot_values'[r] = slot_values[r]
             /\ \A r \in Records, t \in Slots :
                  slot_values'[r][t] = IF r = frames[f][i] /\ t = s THEN v
                                       ELSE slot_values[r][t]
  <2> DEFINE q == frames[f][i]
  <2>1. slot_values' = [slot_values EXCEPT ![q][s] = v] /\ q \in Records
    BY <1>a, <1>b DEF BindSlot
  <2> HIDE DEF q
  <2>2. /\ \A r \in Records : r # q => slot_values'[r] = slot_values[r]
        /\ \A r \in Records, t \in Slots :
             slot_values'[r][t] = IF r = q /\ t = s THEN v ELSE slot_values[r][t]
    BY <1>a, <2>1, BoundCells
  <2> QED
    BY <2>2 DEF q
<1>1. \A r \in Records, t \in Slots :
        slot_values'[r][t] = slot_values[r][t] \/ (t = s /\ r = frames[f][i])
  BY <1>b
<1>2. \A r \in Records : slot_values'[r] = slot_values[r] \/ r = frames[f][i]
  BY <1>b
<1>3. \A g \in Frames : g # f => slot_cache'[g] = slot_cache[g]
  BY DEF CacheSlot, ChainInv, TypeOK
<1>4. SlotsOf(f)
  BY <1>2, <1>3 DEF SlotsOf
<1>5. \A j \in OwnFrames(f) : frames[f][j] = frames[f][i] => j = i
  BY <1>0 DEF ChainInv, Owned
<1>6. OwnFrames(f)' = OwnFrames(f) /\ frames' = frames
  BY DEF OwnFrames, Depth
<1>7. \A t \in Slots : slot_cache'[f][t] = IF t = s /\ s \in FastSlots THEN i
                                            ELSE slot_cache[f][t]
  BY DEF CacheSlot, ChainInv, TypeOK
<1>8. ASSUME NEW t \in Slots PROVE SlotEntry(f, t)'
  <2>1. CASE t # s
    <3>1. \A j \in OwnFrames(f) : HasSlot(f, j, t)' <=> HasSlot(f, j, t)
      BY <1>0, <1>1, <1>6, <2>1 DEF HasSlot
    <3> QED
      BY <1>6, <1>7, <2>1, <3>1 DEF SlotShortcut, SlotEntry
  <2>2. CASE t = s /\ s \in FastSlots
    <3>1. \A j \in OwnFrames(f) : j # i => (HasSlot(f, j, s)' <=> HasSlot(f, j, s))
      BY <1>0, <1>1, <1>5, <1>6 DEF HasSlot
    <3>2. \A j \in OwnFrames(f) : j \in Int /\ (j > i => j # i)
      BY <1>0
    <3> QED
      BY <1>6, <1>7, <2>2, <3>1, <3>2 DEF SlotEntry
  <2>3. CASE t = s /\ s \notin FastSlots
    BY <1>7, <2>3 DEF SlotShortcut, SlotEntry
  <2> QED
    BY <2>1, <2>2, <2>3
<1> QED
  BY <1>4, <1>8, OwnSlotEntries

\* Where a lookup by slot ends: at the cached frame or by a scan.
LEMMA FoundSlot ==
    ASSUME ChainInv, SlotShortcut, NEW f \in Frames, Alive(f), NEW s \in Slots,
           NEW b \in 1..Depth(f), Boundary(f, b),
           NEW i \in 0..Depth(f), FindsSlot(f, s, b, i)
    PROVE  /\ i = 0 => \A j \in OwnFrames(f) : ~HasSlot(f, j, s)
           /\ i # 0 => /\ i \in OwnFrames(f)
                       /\ f \in shared \/ \A j \in OwnFrames(f) : j > i => ~HasSlot(f, j, s)
<1>1. b = base[f] + 1
  BY BoundaryIsBase DEF ChainInv
<1>2. OwnFrames(f) = b..Depth(f) /\ Depth(f) \in Nat /\ b \in Nat \ {0}
  BY <1>1 DEF OwnFrames, ChainInv, TypeOK, Chains, Depth
<1>3. CASE SlotHit(f, s)
  <2>1. i = slot_cache[f][s] /\ i # 0 /\ HasSlot(f, i, s)
    BY <1>2, <1>3 DEF FindsSlot, SlotHit
  <2> QED
    BY <2>1 DEF SlotShortcut
<1>4. CASE ~SlotHit(f, s)
  <2> DEFINE holders == SlotHolders(slot_values, frames[f], b, s)
  <2>1. (holders = {} /\ i = 0) \/ IsInnermost(holders, i)
    BY <1>4 DEF FindsSlot
  <2>2. \A j \in OwnFrames(f) : HasSlot(f, j, s) => j \in holders
    BY <1>2 DEF HasSlot, SlotHolders, Depth
  <2>3. \A j \in holders : j \in OwnFrames(f) /\ j # 0
    BY <1>2 DEF SlotHolders, Depth
  <2> HIDE DEF holders
  <2>4. CASE holders = {} /\ i = 0
    BY <2>2, <2>4
  <2>5. CASE IsInnermost(holders, i)
    <3>1. i \in OwnFrames(f) /\ i # 0 /\ \A j \in holders : j <= i
      BY <2>3, <2>5 DEF IsInnermost
    <3>2. \A j \in OwnFrames(f) : j > i => ~(j <= i)
      BY <1>2
    <3> QED
      BY <2>2, <3>1, <3>2
  <2> QED
    BY <2>1, <2>4, <2>5
<1> QED
  BY <1>3, <1>4

LEMMA SlotStepShortcut ==
    ASSUME ChainInv, SlotShortcut, CatchVar = FALSE, NEW f \in Frames, SlotStep(f)
    PROVE  SlotShortcut'
<1> USE DEF envVars, recordVars
<1>1. PICK s \in Slots : \/ LoadSlot(f, s)
                         \/ \E v \in Values : StoreSlot(f, s, v)
                         \/ DeclareSlot(f, s)
                         \/ DeclareVarSlot(f, s)
  BY DEF SlotStep
<1>2. Alive(f) /\ Depth(f) \in Nat \ {0} /\ base[f] \in Nat /\ base[f] < Depth(f)
  BY SlotStepShape, ActiveAlive DEF ChainInv, Shape, TypeOK
<1>3. Depth(f) \in OwnFrames(f) /\ \A j \in OwnFrames(f) : ~(j > Depth(f))
  BY <1>2 DEF OwnFrames
<1>4. \A j \in OwnFrames(f) : frames[f][j] \in Records
  BY <1>2 DEF OwnFrames, ChainInv, TypeOK, Chains, Depth
<1>5. ASSUME NEW r \in Records PROVE IfAbsent(slot_values[r][s], Undefined) \in Cell
  BY TypesAssumption DEF IfAbsent, Cell, ChainInv, TypeOK
<1>10. UNCHANGED <<frames, base, shared>>
  BY SlotStepShape DEF Keeps
<1>6. CASE LoadSlot(f, s)
  <2>1. UNCHANGED <<frames, base, slot_values, shared>>
    BY <1>6, <1>10 DEF LoadSlot
  <2>2. PICK b \in 1..Depth(f), i \in 0..Depth(f) :
          /\ Boundary(f, b) /\ FindsSlot(f, s, b, i)
          /\ IF i = 0 THEN UNCHANGED slot_cache ELSE CacheSlot(f, s, i)
    BY <1>6 DEF LoadSlot
  <2>3. CASE i = 0
    BY <2>1, <2>2, <2>3, SameSlotEntries
  <2>4. CASE i # 0
    <3>1. /\ i \in OwnFrames(f)
          /\ f \in shared \/ \A j \in OwnFrames(f) : j > i => ~HasSlot(f, j, s)
      BY <1>2, <2>2, <2>4, FoundSlot
    <3> QED
      BY <2>1, <2>2, <2>4, <3>1, CachedSlotEntry
  <2> QED
    BY <2>3, <2>4
<1>7. ASSUME NEW v \in Values, StoreSlot(f, s, v) PROVE SlotShortcut'
  <2>1. UNCHANGED <<frames, base, shared>>
    BY <1>10
  <2>2. PICK b \in 1..Depth(f), i \in 0..Depth(f) :
          /\ Boundary(f, b) /\ FindsSlot(f, s, b, i)
          /\ LET target == IF i = 0 THEN Depth(f) ELSE i
             IN  BindSlot(frames[f][target], s, v) /\ CacheSlot(f, s, target)
    BY <1>7 DEF StoreSlot
  <2>3. v \in Cell
    BY DEF Cell
  <2>4. CASE i = 0
    <3>1. BindSlot(frames[f][Depth(f)], s, v) /\ CacheSlot(f, s, Depth(f))
      BY <2>2, <2>4
    <3> QED
      BY <1>3, <2>1, <2>3, <3>1, CachedSlotEntry
  <2>5. CASE i # 0
    <3>1. /\ i \in OwnFrames(f)
          /\ f \in shared \/ \A j \in OwnFrames(f) : j > i => ~HasSlot(f, j, s)
      BY <1>2, <2>2, <2>5, FoundSlot
    <3>2. BindSlot(frames[f][i], s, v) /\ CacheSlot(f, s, i)
      BY <2>2, <2>5
    <3> QED
      BY <2>1, <2>3, <3>1, <3>2, CachedSlotEntry
  <2> QED
    BY <2>4, <2>5
<1>8. CASE DeclareSlot(f, s)
  <2>1. UNCHANGED <<frames, base, shared>> /\ CacheSlot(f, s, Depth(f))
    BY <1>8, <1>10 DEF DeclareSlot
  <2>2. \E v \in Cell : BindSlot(frames[f][Depth(f)], s, v)
    BY <1>3, <1>4, <1>5, <1>8 DEF DeclareSlot, Current, Depth
  <2> QED
    BY <1>3, <2>1, <2>2, CachedSlotEntry
<1>9. CASE DeclareVarSlot(f, s)
  <2>1. UNCHANGED <<frames, base, shared>>
    BY <1>10
  <2>2. PICK b \in 1..Depth(f) :
          /\ Boundary(f, b)
          /\ \A i \in SlotHolders(slot_values, frames[f], b + 1, s) : CatchVar
          /\ BindSlot(frames[f][b], s, IfAbsent(slot_values[frames[f][b]][s], Undefined))
          /\ CacheSlot(f, s, b)
    BY <1>9 DEF DeclareVarSlot
  <2>3. b = base[f] + 1 /\ b \in OwnFrames(f)
    BY <1>2, <2>2, BoundaryIsBase DEF ChainInv, OwnFrames
  <2>4. \A j \in OwnFrames(f) : j > b => ~HasSlot(f, j, s)
    <3>1. SlotHolders(slot_values, frames[f], b + 1, s) = {}
      BY <2>2
    <3>2. \A j \in OwnFrames(f) : j > b => j \in (b + 1)..Len(frames[f])
      BY <1>2, <2>3 DEF OwnFrames, Depth
    <3> QED
      BY <3>1, <3>2 DEF SlotHolders, HasSlot
  <2>5. \E v \in Cell : BindSlot(frames[f][b], s, v)
    BY <1>4, <1>5, <2>2, <2>3
  <2> QED
    BY <2>1, <2>2, <2>3, <2>4, <2>5, CachedSlotEntry
<1> QED
  BY <1>1, <1>6, <1>7, <1>8, <1>9

LEMMA ScopeStepShortcut ==
    ASSUME ChainInv, SlotShortcut, NEW f \in Frames, ScopeStep(f)
    PROVE  SlotShortcut'
<1> USE DEF recordVars
<1>1. /\ \A g \in Frames : g # f => frames'[g] = frames[g] /\ base'[g] = base[g]
      /\ UNCHANGED shared
  BY ScopeStepShape DEF ChainInv, TypeOK, Grows, Shrinks
<1>2. ASSUME ClearLookupCaches(f), UNCHANGED slot_values PROVE SlotShortcut'
  BY <1>1, <1>2, ClearsLookupCaches, ClearedSlotEntries DEF ChainInv, SlotsOf
<1>3. CASE EnterScope(f)
  BY <1>2, <1>3 DEF EnterScope
<1>4. ASSUME NEW n \in Names, NEW v \in Values, EnterCatchName(f, n, v)
      PROVE  SlotShortcut'
  <2>1. slot_cache' = [slot_cache EXCEPT ![f] = NoSlots] /\ UNCHANGED slot_values
    BY <1>4 DEF EnterCatchName
  <2>2. slot_cache'[f] = NoSlots /\ \A g \in Frames : g # f => slot_cache'[g] = slot_cache[g]
    BY <2>1 DEF ChainInv, TypeOK
  <2> QED
    BY <1>1, <2>1, <2>2, ClearedSlotEntries DEF SlotsOf
<1>5. ASSUME NEW s \in Slots, NEW v \in Values, EnterCatchSlot(f, s, v)
      PROVE  SlotShortcut'
  <2>1. PICK r \in Records : PushFrame(f, "Catch", r) /\ BindSlot(r, s, v)
    BY <1>5 DEF EnterCatchSlot
  <2>2. Active(f) /\ base' = base
    BY <1>5 DEF EnterCatchSlot
  <2>4. Depth(f) \in Nat \ {0} /\ base[f] \in Nat /\ base[f] < Depth(f)
    BY <2>2, ActiveAlive DEF ChainInv, Shape, TypeOK
  <2>5. Depth(f)' = Depth(f) + 1
    BY <2>1, AppendProperties DEF PushFrame, Depth, ChainInv, TypeOK, Chains
  <2>6. OwnFrames(f)' = (base[f] + 1)..(Depth(f) + 1)
    BY <2>2, <2>5 DEF OwnFrames
  <2>7. \A t \in Slots : slot_cache'[f][t] = IF t = s /\ s \in FastSlots
                                             THEN Depth(f) + 1 ELSE 0
    BY <1>5 DEF EnterCatchSlot, NoSlots, ChainInv, TypeOK
  <2>8. \A g \in Frames : g # f => slot_cache'[g] = slot_cache[g]
    BY <1>5 DEF EnterCatchSlot, ChainInv, TypeOK
  <2>9. \A q \in Records : q # r => slot_values'[q] = slot_values[q]
    BY <2>1 DEF BindSlot, ChainInv, TypeOK
  <2>10. SlotsOf(f)
    BY <1>1, <2>1, <2>8, <2>9 DEF SlotsOf, PushFrame
  <2>11. Depth(f) + 1 \in OwnFrames(f)' /\ \A j \in OwnFrames(f)' : ~(j > Depth(f) + 1)
    BY <2>4, <2>6
  <2>12. \A t \in Slots : SlotEntry(f, t)'
    BY <2>7, <2>11 DEF SlotEntry
  <2> QED
    BY <2>10, <2>12, OwnSlotEntries
<1>6. ASSUME NEW depth \in 1..Depth(f), TruncateToDepth(f, depth) PROVE SlotShortcut'
  BY <1>2, <1>6 DEF TruncateToDepth
<1> QED
  BY <1>3, <1>4, <1>5, <1>6 DEF ScopeStep

LEMMA CallStepShortcut ==
    ASSUME ChainInv, SlotShortcut, NEW f \in Frames, CallStep(f)
    PROVE  SlotShortcut'
<1>1. PICK o \in {f} \cup Generators, chain \in captured, r \in Records,
           S \in SUBSET Slots, v \in Values :
        EnterFunction(f, o, chain, r, S, v)
  <2>1. PICK o \in {f} \cup Generators, chain \in captured,
             P \in SUBSET Names, S \in SUBSET Slots, v \in Values :
          \/ Call(f, o, chain, P, S, v)
          \/ \E h \in Names, w \in Values : CallHoisting(f, o, chain, P, S, v, h, w)
    BY DEF CallStep
  <2>2. CASE Call(f, o, chain, P, S, v)
    BY <2>2 DEF Call
  <2>3. CASE \E h \in Names, w \in Values : CallHoisting(f, o, chain, P, S, v, h, w)
    <3>1. \E r \in Records : EnterFunction(f, o, chain, r, S, v)
      BY <2>3 DEF CallHoisting
    <3> QED
      BY <3>1
  <2> QED
    BY <2>1, <2>2, <2>3
<1>2. /\ ~Alive(f) /\ Fresh(r) /\ UNCHANGED shared
      /\ frames' = [frames EXCEPT ![f] = Append(chain, r), ![o] = Append(chain, r)]
      /\ base' = [base EXCEPT ![f] = Len(chain), ![o] = Len(chain)]
      /\ \A q \in Records : q # r => slot_values'[q] = slot_values[q]
      /\ slot_cache' = [slot_cache EXCEPT ![f] =
                          [s \in Slots |-> IF o = f /\ s \in S \cap FastSlots
                                           THEN Len(chain) + 1 ELSE 0]]
  BY <1>1 DEF EnterFunction, Begins, Alive, ChainInv, TypeOK
<1>3. chain \in Seq(Records) /\ Len(chain) \in Nat
  BY DEF ChainInv, TypeOK, Chains
<1>4. Depth(f)' = Len(chain) + 1 /\ base'[f] = Len(chain)
  BY <1>2, <1>3, AppendProperties DEF Depth, ChainInv, TypeOK
<1>5. OwnFrames(f)' = {Len(chain) + 1}
  BY <1>3, <1>4 DEF OwnFrames
<1>6. \A s \in Slots : slot_cache'[f][s] = IF o = f /\ s \in S \cap FastSlots
                                           THEN Len(chain) + 1 ELSE 0
  BY <1>2 DEF ChainInv, TypeOK
<1>7. \A s \in Slots : SlotEntry(f, s)'
  BY <1>3, <1>5, <1>6 DEF SlotEntry
<1>8. SlotsOf(f)
  BY <1>2, TypesAssumption DEF SlotsOf, ChainInv, TypeOK
<1> QED
  BY <1>7, <1>8, OwnSlotEntries

\* The caches of a frame that ends or goes on are empty.
LEMMA EndsSlotShortcut ==
    ASSUME ChainInv, SlotShortcut, NEW f \in Frames,
           Ends(f) \/ \E g \in Generators : GoesOn(f, g),
           ClearLookupCaches(f), UNCHANGED slot_values
    PROVE  SlotShortcut'
<1>1. \A g \in Frames : g # f => frames'[g] = frames[g] /\ base'[g] = base[g]
  BY TypesAssumption DEF Ends, GiveBack, Drop, GoesOn, Activated, ChainInv, TypeOK
<1>2. \A g \in Frames : g # f /\ g \in shared => g \in shared'
  BY DEF Ends, GoesOn, Joined
<1> QED
  BY <1>1, <1>2, ClearsLookupCaches, ClearedSlotEntries DEF ChainInv, SlotsOf

LEMMA NextSlotShortcut ==
    ASSUME ChainInv, SlotShortcut, CatchVar = FALSE, [Next]_vars
    PROVE  SlotShortcut'
<1> USE DEF envVars, recordVars, cacheVars, scheduleVars, generatorVars
<1>5. ASSUME NEW f \in Frames, Return(f) \/ Yield(f) \/ Fail(f) PROVE SlotShortcut'
  <2>1. Ends(f)
    BY <1>5, PopShape DEF ChainInv
  <2>2. ClearLookupCaches(f) /\ UNCHANGED slot_values
    BY <1>5 DEF Return, Yield, Fail, Pop
  <2> QED
    BY <2>1, <2>2, EndsSlotShortcut
<1>6. ASSUME NEW f \in Frames, GeneratorStep(f) PROVE SlotShortcut'
  <2>1. ASSUME NEW g \in Generators, Resume(f, g) PROVE SlotShortcut'
    <3>1. GoesOn(f, g)
      BY <2>1, ResumeShape
    <3>2. ClearLookupCaches(f) /\ UNCHANGED slot_values
      BY <2>1 DEF Resume
    <3> QED
      BY <3>1, <3>2, EndsSlotShortcut
  <2>2. ASSUME NEW g \in Generators, Close(g) PROVE SlotShortcut'
    BY <2>2, SameSlotEntries DEF Close
  <2> QED
    BY <1>5, <1>6, <2>1, <2>2 DEF GeneratorStep
<1>1. CASE UNCHANGED vars
  BY <1>1, SameSlotEntries DEF vars
<1>2. ASSUME NEW f \in Frames, NameStep(f) PROVE SlotShortcut'
  BY <1>2, NameStepShape, SameSlotEntries DEF Keeps
<1>3. ASSUME NEW f \in Frames, FunctionStep(f) PROVE SlotShortcut'
  <2>1. CASE CreateFunction(f)
    BY <2>1, SameSlotEntries DEF CreateFunction
  <2>2. ASSUME NEW n \in Names, NEW v \in Values, DeclareFunction(f, n, v)
        PROVE  SlotShortcut'
    BY <2>2, SameSlotEntries DEF DeclareFunction
  <2>3. CASE CallStep(f)
    BY <2>3, CallStepShortcut
  <2>4. CASE Return(f)
    BY <1>5, <2>4
  <2> QED
    BY <1>3, <2>1, <2>2, <2>3, <2>4 DEF FunctionStep
<1>4. ASSUME NEW f \in Frames, SuspendStep(f) PROVE SlotShortcut'
  BY <1>4, SameSlotEntries DEF SuspendStep, Suspend, ResumeAwait
<1> QED
  BY <1>1, <1>2, <1>3, <1>4, <1>6, ScopeStepShortcut, SlotStepShortcut DEF Next

LEMMA SlotShortcutHolds ==
    ASSUME CatchVar = FALSE
    PROVE  Spec => []SlotShortcut
<1>1. Init => SlotShortcut
  BY DEF Init, SlotShortcut, NoSlots
<1>2. ChainInv /\ SlotShortcut /\ [Next]_vars => SlotShortcut'
  BY NextSlotShortcut
<1> QED
  BY <1>1, <1>2, ChainsCorrect, PTL DEF Spec

\* In programs without catch (e) { var e } the frame that get_slot and set_slot take
\* from the slot cache is the one their scan would have stopped at, in every executor
\* frame that has not run beside another activation of its generator.
THEOREM SlotCacheCorrect ==
    ASSUME CatchVar = FALSE
    PROVE  Spec => []SlotsInnermost
<1>1. ChainInv /\ SlotShortcut => SlotsInnermost
  <2> SUFFICES ASSUME ChainInv, SlotShortcut, NEW f \in Frames \ shared, NEW s \in Slots,
                      NEW b \in 1..Depth(f), Boundary(f, b), SlotHit(f, s)
               PROVE  IsInnermost(SlotHolders(slot_values, frames[f], b, s), slot_cache[f][s])
    BY DEF SlotsInnermost
  <2> DEFINE i == slot_cache[f][s]
  <2>1. Depth(f) \in Nat /\ i \in 1..Depth(f) /\ HasSlot(f, i, s)
    BY DEF SlotHit, ChainInv, TypeOK, Chains, Depth
  <2>2. Alive(f)
    BY <2>1 DEF Alive, Depth
  <2>3. b = base[f] + 1 /\ base[f] \in Nat
    BY <2>2, BoundaryIsBase DEF ChainInv, TypeOK
  <2>4. i \in OwnFrames(f) /\ \A j \in OwnFrames(f) : j > i => ~HasSlot(f, j, s)
    BY <2>1 DEF SlotShortcut
  <2>5. OwnFrames(f) = b..Len(frames[f])
    BY <2>3 DEF OwnFrames, Depth
  <2> HIDE DEF i
  <2>6. i \in SlotHolders(slot_values, frames[f], b, s)
    BY <2>1, <2>4, <2>5 DEF SlotHolders, HasSlot
  <2>7. \A j \in SlotHolders(slot_values, frames[f], b, s) : j <= i
    BY <2>1, <2>3, <2>4, <2>5 DEF SlotHolders, HasSlot
  <2> QED
    BY <2>6, <2>7 DEF IsInnermost, i
<1> QED
  BY <1>1, ChainsCorrect, SlotShortcutHolds, PTL

-----------------------------------------------------------------------------
(***************************************************************************)
(* The tree of scope frames.                                               *)
(***************************************************************************)

\* What two chains share, they share from the root on.
Agree(c, d) ==
    \A i \in 1..Len(c), j \in 1..Len(d) :
        c[i] = d[j] => i = j /\ \A m \in 1..i : c[m] = d[m]

Rooted(k, c) == c # <<>> /\ \A i \in 1..Len(c) : k[c[i]] = "Global" <=> i = 1

Tree ==
    /\ \A c \in InUse : Rooted(kind, c)
    /\ \A c, d \in InUse : Agree(c, d)

LEMMA AgreeSubSeq ==
    ASSUME NEW c \in Seq(Records), NEW d \in Seq(Records), Agree(c, d)
    PROVE  \A i \in 1..Len(c), j \in 1..Len(d) :
             c[i] = d[j] => i = j /\ SubSeq(c, 1, i) = SubSeq(d, 1, i)
<1> SUFFICES ASSUME NEW i \in 1..Len(c), NEW j \in 1..Len(d), c[i] = d[j]
             PROVE  i = j /\ SubSeq(c, 1, i) = SubSeq(d, 1, i)
  OBVIOUS
<1>1. i = j /\ \A m \in 1..i : c[m] = d[m]
  BY DEF Agree
<1>2. i \in 0..Len(c) /\ i \in 0..Len(d)
  BY <1>1
<1>3. /\ SubSeq(c, 1, i) \in Seq(Records) /\ Len(SubSeq(c, 1, i)) = i
      /\ \A m \in 1..i : SubSeq(c, 1, i)[m] = c[m]
  BY <1>2, PrefixProperties
<1>4. /\ SubSeq(d, 1, i) \in Seq(Records) /\ Len(SubSeq(d, 1, i)) = i
      /\ \A m \in 1..i : SubSeq(d, 1, i)[m] = d[m]
  BY <1>2, PrefixProperties
<1> DEFINE s == SubSeq(c, 1, i)
           t == SubSeq(d, 1, i)
<1> HIDE DEF s, t
<1>5. s \in Seq(Records) /\ t \in Seq(Records) /\ Len(s) = Len(t)
      /\ \A m \in 1..Len(s) : s[m] = t[m]
  BY <1>1, <1>3, <1>4 DEF s, t
<1>6. s = t
  BY <1>5, SeqEqual
<1> QED
  BY <1>1, <1>6 DEF s, t

LEMMA PushAgrees ==
    ASSUME NEW c \in Seq(Records), NEW d \in Seq(Records), NEW r \in Records,
           \A i \in 1..Len(c) : c[i] # r, \A i \in 1..Len(d) : d[i] # r,
           Agree(c, c), Agree(c, d), Agree(d, c)
    PROVE  /\ Agree(Append(c, r), Append(c, r))
           /\ Agree(Append(c, r), d) /\ Agree(d, Append(c, r))
<1> DEFINE e == Append(c, r)
<1>1. /\ Len(c) \in Nat /\ Len(d) \in Nat /\ Len(e) = Len(c) + 1 /\ e[Len(c) + 1] = r
      /\ \A i \in 1..Len(c) : e[i] = c[i]
  OBVIOUS
<1> HIDE DEF e
<1>2. \A i \in 1..Len(e) : i = Len(c) + 1 \/ i \in 1..Len(c)
  BY <1>1
<1>3. ASSUME NEW i \in 1..Len(e), NEW j \in 1..Len(e), e[i] = e[j]
      PROVE  i = j
  BY <1>1, <1>2, <1>3 DEF Agree
<1>4. ASSUME NEW i \in 1..Len(e), NEW j \in 1..Len(d), e[i] = d[j] \/ d[j] = e[i]
      PROVE  i = j /\ \A m \in 1..i : e[m] = d[m]
  <2>1. i \in 1..Len(c) /\ c[i] = d[j]
    BY <1>1, <1>2, <1>4
  <2>2. i = j /\ \A m \in 1..i : c[m] = d[m]
    BY <2>1 DEF Agree
  <2>3. \A m \in 1..i : m \in 1..Len(c)
    BY <1>1, <2>1
  <2> QED
    BY <1>1, <2>2, <2>3
<1>5. Agree(e, e) /\ Agree(e, d) /\ Agree(d, e)
  BY <1>3, <1>4 DEF Agree
<1> QED
  BY <1>5 DEF e

LEMMA PrefixAgrees ==
    ASSUME NEW c \in Seq(Records), NEW d \in Seq(Records), NEW n \in 0..Len(c),
           Agree(c, c), Agree(c, d), Agree(d, c)
    PROVE  LET e == SubSeq(c, 1, n) IN Agree(e, e) /\ Agree(e, d) /\ Agree(d, e)
<1> DEFINE e == SubSeq(c, 1, n)
<1>1. Len(e) = n /\ \A i \in 1..n : e[i] = c[i]
  BY PrefixProperties
<1>2. \A i \in 1..n : i \in 1..Len(c) /\ \A m \in 1..i : m \in 1..n
  OBVIOUS
<1> HIDE DEF e
<1>3. Agree(e, e)
  BY <1>1, <1>2 DEF Agree
<1>4. Agree(e, d)
  BY <1>1, <1>2 DEF Agree
<1>5. Agree(d, e)
  BY <1>1, <1>2 DEF Agree
<1> QED
  BY <1>3, <1>4, <1>5 DEF e

\* A step adds at most one chain, which agrees with the others.
LEMMA AddChain ==
    ASSUME Tree, NEW e, InUse' \subseteq InUse \cup {e},
           Rooted(kind', e), Agree(e, e),
           \A d \in InUse : Rooted(kind', d) /\ Agree(e, d) /\ Agree(d, e)
    PROVE  Tree'
<1>1. \A c \in InUse' : Rooted(kind', c)
  OBVIOUS
<1>2. \A c, d \in InUse' : Agree(c, d)
  BY DEF Tree
<1> QED
  BY <1>1, <1>2 DEF Tree

LEMMA ChainsInUse ==
    ASSUME ChainInv
    PROVE  \A c \in InUse : c \in Seq(Records) /\ \A i \in 1..Len(c) : kind[c[i]] # Unused
BY DEF ChainInv, InUse, TypeOK, Chains, Created, Depth

LEMMA NextTree ==
    ASSUME ChainInv, Tree, StepShape
    PROVE  Tree'
<1>1. PICK f \in Frames :
        \/ Keeps(f)
        \/ \E r \in Records : Grows(f, r)
        \/ \E depth \in Nat : Shrinks(f, depth)
        \/ \E o \in Holders, chain \in captured, r \in Records : Enters(f, o, chain, r)
        \/ Copies
  BY EndsOrGoesOnCopies DEF StepShape, ChainInv
<1>2. \A c \in InUse : c \in Seq(Records) /\ \A i \in 1..Len(c) : kind[c[i]] # Unused
  BY ChainsInUse
\* A new record on top of a chain in use.
<1>3. ASSUME NEW c \in InUse, NEW r \in Records, Fresh(r),
             NEW k \in {"Block", "Catch", "Function"}, kind' = [kind EXCEPT ![r] = k],
             InUse' \subseteq InUse \cup {Append(c, r)}
      PROVE  Tree'
  <2>1. \A d \in InUse : \A i \in 1..Len(d) : d[i] # r /\ d[i] \in Records
    BY <1>2, <1>3 DEF Fresh
  <2>2. kind'[r] # "Global" /\ \A q \in Records : q # r => kind'[q] = kind[q]
    BY <1>3 DEF ChainInv, TypeOK
  <2>3. \A d \in InUse : Rooted(kind', d)
    BY <2>1, <2>2 DEF Tree, Rooted
  <2> DEFINE e == Append(c, r)
  <2>4. /\ e # <<>> /\ Len(c) \in Nat /\ Len(e) = Len(c) + 1 /\ e[Len(c) + 1] = r
        /\ \A i \in 1..Len(c) : e[i] = c[i]
    <3>1. c \in Seq(Records)
      BY <1>2
    <3> QED
      BY <3>1
  <2>5. Len(c) # 0
    <3>1. c # <<>> /\ c \in Seq(Records)
      BY <1>2 DEF Tree, Rooted
    <3> QED
      BY <3>1
  <2>6. \A d \in InUse : Agree(e, e) /\ Agree(e, d) /\ Agree(d, e)
    BY <1>2, <2>1, PushAgrees DEF Tree
  <2> HIDE DEF e
  <2>7. Rooted(kind', e)
    <3>1. \A i \in 1..Len(e) : i = Len(c) + 1 \/ i \in 1..Len(c)
      BY <2>4
    <3> QED
      BY <2>2, <2>3, <2>4, <2>5, <3>1 DEF Rooted
  <2>8. InUse' \subseteq InUse \cup {e}
    BY <1>3 DEF e
  <2> QED
    BY <2>3, <2>6, <2>7, <2>8, AddChain
<1>4. CASE Keeps(f)
  <2>1. frames' = frames /\ kind' = kind
        /\ (captured' = captured \/ (frames[f] # <<>> /\ captured' = captured \cup {frames[f]}))
    BY <1>4 DEF Keeps, Alive
  <2>2. InUse' = InUse
    BY <2>1 DEF InUse, Alive
  <2> QED
    BY <2>1, <2>2 DEF Tree
<1>5. ASSUME NEW r \in Records, Grows(f, r) PROVE Tree'
  <2>1. /\ Alive(f) /\ Fresh(r) /\ captured' = captured
        /\ frames' = [frames EXCEPT ![f] = Append(@, r)]
        /\ \E k \in {"Block", "Catch"} : kind' = [kind EXCEPT ![r] = k]
    BY <1>5 DEF Grows
  <2>2. frames[f] \in InUse
    BY <2>1 DEF InUse
  <2>3. \A g \in Holders : frames'[g] = IF g = f THEN Append(frames[f], r) ELSE frames[g]
    BY <2>1 DEF ChainInv, TypeOK
  <2>4. InUse' \subseteq InUse \cup {Append(frames[f], r)}
    BY <2>1, <2>3 DEF InUse, Alive
  <2> QED
    BY <1>3, <2>1, <2>2, <2>4
<1>6. ASSUME NEW depth \in Nat, Shrinks(f, depth) PROVE Tree'
  <2>1. /\ base[f] < depth /\ depth < Depth(f) /\ base[f] \in Nat /\ Depth(f) \in Nat
        /\ kind' = kind /\ captured' = captured
        /\ frames' = [frames EXCEPT ![f] = SubSeq(@, 1, depth)]
    BY <1>6, ShrinksChains DEF ChainInv, Shrinks
  <2>2. frames[f] \in InUse
    BY <2>1 DEF InUse, Alive, Depth
  <2>3. \A g \in Holders : frames'[g] = IF g = f THEN SubSeq(frames[f], 1, depth) ELSE frames[g]
    BY <2>1 DEF ChainInv, TypeOK
  <2> DEFINE e == SubSeq(frames[f], 1, depth)
  <2>4. InUse' \subseteq InUse \cup {e}
    BY <2>1, <2>3 DEF InUse, Alive
  <2>5. frames[f] \in Seq(Records) /\ depth \in 0..Len(frames[f]) /\ depth # 0
    BY <1>2, <2>1, <2>2 DEF Depth
  <2>6. Len(e) = depth /\ \A i \in 1..depth : e[i] = frames[f][i]
    BY <2>5, PrefixProperties
  <2>7. \A d \in InUse : Agree(e, e) /\ Agree(e, d) /\ Agree(d, e)
    BY <1>2, <2>2, <2>5, PrefixAgrees DEF Tree
  <2> HIDE DEF e
  <2>8. e # <<>>
    BY <2>5, <2>6
  <2>9. \A i \in 1..depth : i \in 1..Len(frames[f])
    BY <2>5
  <2>10. \A d \in InUse : Rooted(kind', d)
    BY <2>1 DEF Tree
  <2>11. Rooted(kind', e)
    BY <2>2, <2>6, <2>8, <2>9, <2>10 DEF Rooted
  <2> QED
    BY <2>2, <2>4, <2>7, <2>10, <2>11, AddChain
<1>7. ASSUME NEW o \in Holders, NEW chain \in captured, NEW r \in Records,
             Enters(f, o, chain, r)
      PROVE  Tree'
  <2>1. /\ Fresh(r) /\ frames' = [frames EXCEPT ![f] = Append(chain, r), ![o] = Append(chain, r)]
        /\ kind' = [kind EXCEPT ![r] = "Function"]
        /\ captured' = captured \/ captured' = captured \cup {Append(chain, r)}
    BY <1>7 DEF Enters
  <2>2. chain \in InUse
    BY DEF InUse
  <2>3. \A g \in Holders : frames'[g] = IF g \in {f, o} THEN Append(chain, r) ELSE frames[g]
    BY <2>1 DEF ChainInv, TypeOK
  <2>4. InUse' \subseteq InUse \cup {Append(chain, r)}
    BY <2>1, <2>3 DEF InUse, Alive
  <2> QED
    BY <1>3, <2>1, <2>2, <2>4
<1>8. CASE Copies
  <2>1. kind' = kind /\ captured' = captured
    BY <1>8 DEF Copies
  <2>2. \A x \in Holders : Alive(x)' => \E y \in Holders : frames'[x] = frames[y] /\ Alive(y)
    BY <1>8 DEF Copies, Alive
  <2>3. InUse' \subseteq InUse
    BY <2>1, <2>2 DEF InUse, Alive
  <2> QED
    BY <2>1, <2>3 DEF Tree
<1> QED
  BY <1>1, <1>4, <1>5, <1>6, <1>7, <1>8

\* The scope frames of all closures, calls, suspended frames and generators form one
\* tree under the global scope: an index cached for a chain means the same record in
\* each of its clones.
THEOREM ScopesFormATree == Spec => []ScopeTree
<1>1. Init => Tree
  <2> SUFFICES ASSUME Init PROVE Tree
    OBVIOUS
  <2>1. /\ frames[Main] = <<GlobalRecord>> /\ captured = {}
        /\ \A f \in Holders : f # Main => frames[f] = <<>>
        /\ kind[GlobalRecord] = "Global"
    BY TypesAssumption DEF Init
  <2>2. \A c \in InUse : c = <<GlobalRecord>>
    BY <2>1 DEF InUse, Alive
  <2>3. Len(<<GlobalRecord>>) = 1 /\ <<GlobalRecord>>[1] = GlobalRecord
    OBVIOUS
  <2>4. Rooted(kind, <<GlobalRecord>>) /\ Agree(<<GlobalRecord>>, <<GlobalRecord>>)
    BY <2>1, <2>3 DEF Rooted, Agree
  <2> QED
    BY <2>2, <2>4 DEF Tree
<1>2. ChainInv /\ Tree /\ [Next]_vars => Tree'
  BY NextShape, NextTree DEF ChainInv
<1>3. ChainInv /\ Tree => ScopeTree
  BY ChainsInUse, AgreeSubSeq DEF Tree, Rooted, ScopeTree
<1> QED
  BY <1>1, <1>2, <1>3, ChainsCorrect, PTL DEF Spec

-----------------------------------------------------------------------------
(***************************************************************************)
(* The name cache, when frames are never suspended.                        *)
(***************************************************************************)

\* The stack holds every frame that is alive.
LEMMA NoneSuspended ==
    ASSUME TypeOK, Scheduled, Activated, Suspends = {}
    PROVE  /\ \A f \in Frames : suspended[f] = "no"
           /\ \A f \in Frames : Alive(f) <=> \E i \in 1..Len(stack) : stack[i] = f
           /\ \A f \in Frames : ~SuspendStep(f) /\ ~GeneratorStep(f)
<1>1. \A f \in Frames : suspended[f] = "no"
  BY DEF Scheduled
<1>2. \A f \in Frames : ~SuspendStep(f)
  BY <1>1 DEF SuspendStep, Suspend, ResumeAwait
<1>4. \A f \in Frames : owner[f] \notin Generators
  BY TypesAssumption DEF Activated
<1>5. \A f \in Frames : ~GeneratorStep(f)
  BY <1>4 DEF GeneratorStep, Yield, Fail, Resume, Close, Activated, Alive
<1>3. \A f \in Frames : Alive(f) <=> \E i \in 1..Len(stack) : stack[i] = f
  BY <1>1 DEF Scheduled
<1> QED
  BY <1>1, <1>2, <1>3, <1>5

\* Nested in the next state, with names for the two frames.
LEMMA NestedNext ==
    ASSUME NEW top \in Nat, Len(stack') = top, \A j \in 1..top : stack'[j] \in Frames,
           ASSUME NEW j \in 1..top, NEW k \in 1..top,
                  NEW g \in Frames, NEW h \in Frames, g = stack'[j], h = stack'[k],
                  NEW i \in OwnFrames(g)', NEW m \in 1..Depth(h)',
                  frames'[g][i] = frames'[h][m]
           PROVE  j <= k
    PROVE  Nested'
<1>1. ASSUME NEW j \in 1..top, NEW k \in 1..top
      PROVE  \A i \in OwnFrames(stack[j])', m \in 1..Depth(stack[k])' :
               frames'[stack'[j]][i] = frames'[stack'[k]][m] => j <= k
  <2>1. ASSUME NEW g \in Frames, NEW h \in Frames, g = stack'[j], h = stack'[k]
        PROVE  \A i \in OwnFrames(g)', m \in 1..Depth(h)' :
                 frames'[g][i] = frames'[h][m] => j <= k
    BY <2>1
  <2> QED
    BY <2>1 DEF OwnFrames, Depth
<1> QED
  BY <1>1 DEF Nested

LEMMA NestedNow ==
    ASSUME Nested, NEW j \in 1..Len(stack), NEW k \in 1..Len(stack),
           NEW g, NEW h, g = stack[j], h = stack[k],
           NEW i \in OwnFrames(g), NEW m \in 1..Depth(h), frames[g][i] = frames[h][m]
    PROVE  j <= k
BY DEF Nested

\* A step of the active frame that pushes, pops or keeps scope frames.
LEMMA SameStackNested ==
    ASSUME ChainInv, Nested, UNCHANGED stack, NEW f \in Frames, Active(f),
           \/ Keeps(f)
           \/ \E r \in Records : Grows(f, r)
           \/ \E depth \in Nat : Shrinks(f, depth)
    PROVE  Nested'
<1> DEFINE top == Len(stack)
<1>1. /\ stack \in Seq(Frames) /\ top \in Nat \ {0} /\ stack[top] = f /\ top \in 1..top
      /\ \A j \in 1..top : stack[j] \in Frames
  BY DEF Active, ChainInv, TypeOK
<1>2. \A g \in Frames : base[g] \in Nat /\ Depth(g) \in Nat
  BY DEF ChainInv, TypeOK, Chains, Depth
<1>3. CASE Keeps(f)
  BY <1>3 DEF Keeps, Nested, OwnFrames, Depth
<1>4. ASSUME NEW r \in Records, Grows(f, r) PROVE Nested'
  <2>1. base' = base
    BY <1>4 DEF Grows
  <2>2. \A g \in Frames : \A j \in 1..Depth(g) : frames[g][j] # r
    BY <1>4 DEF Grows, Fresh, ChainInv, Created
  <2>3. \A g \in Frames : \A j \in 1..Depth(g)' :
          \/ g = f /\ j = Depth(f) + 1 /\ frames'[g][j] = r
          \/ j \in 1..Depth(g) /\ frames'[g][j] = frames[g][j]
    BY <1>2, <1>4, GrowsChains DEF ChainInv, Depth
  <2>4. ASSUME NEW j \in 1..top, NEW k \in 1..top,
               NEW g \in Frames, NEW h \in Frames, g = stack[j], h = stack[k],
               NEW i \in OwnFrames(g)', NEW m \in 1..Depth(h)',
               frames'[g][i] = frames'[h][m]
        PROVE  j <= k
    <3>1. g \in Frames /\ h \in Frames
      BY <1>1
    <3>2. i \in 1..Depth(g)' /\ (i \in 1..Depth(g) => i \in OwnFrames(g))
      BY <1>1, <1>2, <2>1, <2>4 DEF OwnFrames
    <3>3. CASE i \in 1..Depth(g) /\ frames'[g][i] = frames[g][i]
               /\ m \in 1..Depth(h) /\ frames'[h][m] = frames[h][m]
      BY <2>4, <3>2, <3>3 DEF Nested
    <3>4. CASE h = f /\ frames'[h][m] = r
      <4>1. g = f
        BY <2>2, <2>3, <2>4, <3>1, <3>2, <3>4
      <4>2. \A a, b \in 1..top : stack[a] = stack[b] => a = b
        BY DEF ChainInv, Scheduled
      <4>3. j = k
        BY <2>4, <3>4, <4>1, <4>2
      <4> QED
        BY <4>3
    <3>5. CASE g = f /\ frames'[g][i] = r
      <4>1. h = f
        BY <2>2, <2>3, <2>4, <3>1, <3>2, <3>5
      <4>2. \A a, b \in 1..top : stack[a] = stack[b] => a = b
        BY DEF ChainInv, Scheduled
      <4>3. j = k
        BY <2>4, <3>5, <4>1, <4>2
      <4> QED
        BY <4>3
    <3> QED
      BY <2>3, <2>4, <3>1, <3>2, <3>3, <3>4, <3>5
  <2> QED
    BY <1>1, <2>4, NestedNext
<1>5. ASSUME NEW depth \in Nat, Shrinks(f, depth) PROVE Nested'
  <2>1. base' = base
    BY <1>5 DEF Shrinks
  <2>2. \A g \in Frames : \A j \in 1..Depth(g)' :
          j \in 1..Depth(g) /\ frames'[g][j] = frames[g][j]
    BY <1>5, ShrinksChains DEF ChainInv, Depth
  <2>3. \A g \in Frames : \A i \in OwnFrames(g)' : i \in OwnFrames(g) /\ i \in 1..Depth(g)'
    BY <1>2, <1>5, <2>1, ShrinksChains DEF ChainInv, OwnFrames, Depth
  <2>4. ASSUME NEW j \in 1..top, NEW k \in 1..top,
               NEW g \in Frames, NEW h \in Frames, g = stack[j], h = stack[k],
               NEW i \in OwnFrames(g)', NEW m \in 1..Depth(h)',
               frames'[g][i] = frames'[h][m]
        PROVE  j <= k
    <3>1. i \in OwnFrames(g) /\ i \in 1..Depth(g)' /\ m \in 1..Depth(h)
      BY <2>2, <2>3, <2>4
    <3>2. frames[g][i] = frames[h][m]
      BY <2>2, <2>4, <3>1
    <3> QED
      BY <2>4, <3>1, <3>2, NestedNow
  <2> QED
    BY <1>1, <2>4, NestedNext
<1> QED
  BY <1>3, <1>4, <1>5

LEMMA EntersNested ==
    ASSUME ChainInv, Nested, NEW f \in Frames, NEW o \in Holders,
           NEW chain \in captured, NEW r \in Records,
           Enters(f, o, chain, r), stack' = Append(stack, f)
    PROVE  Nested'
<1> DEFINE top == Len(stack)
<1>1. /\ stack \in Seq(Frames) /\ top \in Nat /\ Len(stack') = top + 1
      /\ stack'[top + 1] = f /\ \A j \in 1..top : stack'[j] = stack[j] /\ stack[j] \in Frames
  BY DEF ChainInv, TypeOK
<1>2. \A j \in 1..top : stack[j] # f
  <2>1. ~Alive(f)
    BY DEF Enters
  <2> QED
    BY <2>1 DEF ChainInv, Scheduled
<1>3. \A g \in Frames : \A j \in 1..Depth(g) : frames[g][j] # r
  BY DEF Enters, Fresh, ChainInv, Created
<1>4. /\ Depth(f)' = base'[f] + 1 /\ base'[f] \in Nat
      /\ frames'[f][base'[f] + 1] = r
      /\ \A g \in Frames : g # f => frames'[g] = frames[g] /\ base'[g] = base[g]
  <2>1. \A g \in Frames : g # f => g \in Holders \ {f, o}
    BY TypesAssumption DEF Enters
  <2>2. base'[f] \in Nat
    BY EntersChains DEF ChainInv
  <2> QED
    BY <2>1, <2>2, EntersChains DEF ChainInv
<1>5. \A i \in OwnFrames(f)' : i = base'[f] + 1
  BY <1>4 DEF OwnFrames
<1>6. \A g \in Frames : g # f => OwnFrames(g)' = OwnFrames(g) /\ Depth(g)' = Depth(g)
  BY <1>4 DEF OwnFrames, Depth
<1>7. ASSUME NEW j \in 1..(top + 1), NEW k \in 1..(top + 1),
             NEW g \in Frames, NEW h \in Frames, g = stack'[j], h = stack'[k],
             NEW i \in OwnFrames(g)', NEW m \in 1..Depth(h)',
             frames'[g][i] = frames'[h][m]
      PROVE  j <= k
  <2>1. CASE k = top + 1
    BY <1>1, <2>1
  <2>2. CASE k # top + 1 /\ j = top + 1
    <3>1. k \in 1..top /\ h = stack[k] /\ h # f
      BY <1>1, <1>2, <1>7, <2>2
    <3>2. m \in 1..Depth(h) /\ frames'[h][m] = frames[h][m]
      BY <1>4, <1>6, <1>7, <3>1
    <3>3. g = f /\ frames'[g][i] = r
      BY <1>1, <1>4, <1>5, <1>7, <2>2
    <3> QED
      BY <1>3, <1>7, <3>2, <3>3
  <2>3. CASE k # top + 1 /\ j # top + 1
    <3>1. k \in 1..top /\ h = stack[k] /\ h # f /\ j \in 1..top /\ g = stack[j] /\ g # f
      BY <1>1, <1>2, <1>7, <2>3
    <3>2. m \in 1..Depth(h) /\ frames'[h][m] = frames[h][m]
      BY <1>4, <1>6, <1>7, <3>1
    <3>3. i \in OwnFrames(g) /\ frames'[g][i] = frames[g][i]
      BY <1>4, <1>6, <1>7, <3>1
    <3> QED
      BY <1>7, <3>1, <3>2, <3>3 DEF Nested
  <2> QED
    BY <2>1, <2>2, <2>3
<1>8. top + 1 \in Nat /\ \A j \in 1..(top + 1) : stack'[j] \in Frames
  BY <1>1
<1> QED
  BY <1>1, <1>7, <1>8, NestedNext

LEMMA ReturnNested ==
    ASSUME ChainInv, Nested, NEW f \in Frames, Return(f)
    PROVE  Nested'
<1> DEFINE top == Len(stack)
<1>1. /\ stack \in Seq(Frames) /\ top \in Nat \ {0} /\ stack[top] = f
      /\ stack' = SubSeq(stack, 1, top - 1)
  BY DEF Return, Pop, Active, ChainInv, TypeOK
<1>2. top - 1 \in 0..Len(stack)
  BY <1>1
<1>3. Len(stack') = top - 1 /\ \A i \in 1..(top - 1) : stack'[i] = stack[i]
  BY <1>1, <1>2, PrefixProperties
<1>4. \A i \in 1..(top - 1) : i \in 1..top /\ stack[i] # f /\ stack[i] \in Frames
  <2>1. \A i, j \in 1..top : stack[i] = stack[j] => i = j
    BY DEF ChainInv, Scheduled
  <2>2. top \in 1..top /\ \A i \in 1..(top - 1) : i \in 1..top /\ i # top
    BY <1>1
  <2> QED
    BY <1>1, <2>1, <2>2
<1>5. \A g \in Frames : g # f => /\ frames'[g] = frames[g] /\ base'[g] = base[g]
  BY TypesAssumption DEF Return, GiveBack, Activated, ChainInv, TypeOK
<1>6. \A g \in Frames : g # f => OwnFrames(g)' = OwnFrames(g) /\ Depth(g)' = Depth(g)
  BY <1>5 DEF OwnFrames, Depth
<1>7. ASSUME NEW j \in 1..(top - 1), NEW k \in 1..(top - 1),
             NEW g \in Frames, NEW h \in Frames, g = stack'[j], h = stack'[k],
             NEW i \in OwnFrames(g)', NEW m \in 1..Depth(h)',
             frames'[g][i] = frames'[h][m]
      PROVE  j <= k
  <2>1. /\ j \in 1..top /\ k \in 1..top /\ g = stack[j] /\ h = stack[k]
        /\ g # f /\ h # f
    BY <1>3, <1>4, <1>7
  <2>2. i \in OwnFrames(g) /\ m \in 1..Depth(h) /\ frames[g][i] = frames[h][m]
    BY <1>5, <1>6, <1>7, <2>1
  <2> QED
    BY <2>1, <2>2, NestedNow
<1>8. top - 1 \in Nat /\ \A j \in 1..(top - 1) : stack'[j] \in Frames
  BY <1>1, <1>3, <1>4
<1> QED
  BY <1>3, <1>7, <1>8, NestedNext

LEMMA NextNested ==
    ASSUME ChainInv, Nested, Suspends = {}, [Next]_vars
    PROVE  Nested'
<1>1. CASE UNCHANGED vars
  BY <1>1 DEF vars, envVars, scheduleVars, Nested, OwnFrames, Depth
<1>2. ASSUME NEW f \in Frames, ScopeStep(f) PROVE Nested'
  <2>1. Active(f)
    BY <1>2 DEF ScopeStep, EnterScope, EnterCatchName, EnterCatchSlot, TruncateToDepth
  <2> QED
    BY <1>2, <2>1, ScopeStepShape, SameStackNested DEF ChainInv
<1>3. ASSUME NEW f \in Frames, NameStep(f) PROVE Nested'
  BY <1>3, NameStepShape, SameStackNested
<1>4. ASSUME NEW f \in Frames, SlotStep(f) PROVE Nested'
  BY <1>4, SlotStepShape, SameStackNested
<1>5. ASSUME NEW f \in Frames, FunctionStep(f) PROVE Nested'
  <2>1. CASE CreateFunction(f)
    BY <2>1 DEF CreateFunction, envVars, Nested, OwnFrames, Depth
  <2>2. ASSUME NEW n \in Names, NEW v \in Values, DeclareFunction(f, n, v) PROVE Nested'
    BY <2>2 DEF DeclareFunction, envVars, Nested, OwnFrames, Depth
  <2>3. CASE CallStep(f)
    BY <2>3, CallStepShape, EntersNested
  <2>4. CASE Return(f)
    BY <2>4, ReturnNested
  <2> QED
    BY <1>5, <2>1, <2>2, <2>3, <2>4 DEF FunctionStep
<1>6. ASSUME NEW f \in Frames, SuspendStep(f) \/ GeneratorStep(f) PROVE Nested'
  BY <1>6, NoneSuspended DEF ChainInv
<1> QED
  BY <1>1, <1>2, <1>3, <1>4, <1>5, <1>6 DEF Next

\* The entry of one name in the cache of one frame.
NameEntry(f, n) ==
    LET i == name_cache[f][n]
    IN  i # 0 => /\ i \in 1..Depth(f)
                 /\ HasName(f, i, n) =>
                      \A j \in 1..Depth(f) : j > i => ~HasName(f, j, n)

\* The step binds no name in record r that it did not hold before.
BindsNone(r) ==
    \A n \in Names : bindings'[r][n] = Unbound <=> bindings[r][n] = Unbound

\* A step of f adds bindings to records of f's own, or to new ones, and leaves
\* the other frames' chains and caches alone.
NamesOf(f) ==
    /\ \A g \in Frames : g # f => frames'[g] = frames[g] /\ name_cache'[g] = name_cache[g]
    /\ \A r \in Records : \/ BindsNone(r)
                          \/ Fresh(r)
                          \/ \E i \in OwnFrames(f) : r = frames[f][i]

NameInv == ChainInv /\ Nested /\ NameShortcut

\* The entries of the others stay right: what lies below the active frame on
\* the stack holds no record of its own.
LEMMA OtherNameEntries ==
    ASSUME ChainInv, Nested, Suspends = {}, NEW f \in Frames, NamesOf(f),
           Active(f) \/ ~Alive(f),
           NEW g \in Frames, g # f, NEW n \in Names, NameEntry(g, n)
    PROVE  NameEntry(g, n)'
<1>1. frames'[g] = frames[g] /\ name_cache'[g] = name_cache[g] /\ Depth(g)' = Depth(g)
  BY DEF NamesOf, Depth
<1>2. Depth(g) \in Nat /\ Depth(f) \in Nat /\ base[f] \in Nat
  BY DEF ChainInv, TypeOK, Chains, Depth
<1>3. ASSUME NEW i \in 1..Depth(g) PROVE HasName(g, i, n)' <=> HasName(g, i, n)
  <2>1. frames[g][i] \in Records /\ ~Fresh(frames[g][i])
    BY DEF ChainInv, Created, Fresh, TypeOK, Chains, Depth
  <2>2. \A j \in OwnFrames(f) : frames[g][i] # frames[f][j]
    <3>1. CASE ~Alive(f)
      <4>1. Depth(f) = 0
        BY <3>1 DEF Alive, Depth
      <4> QED
        BY <1>2, <4>1 DEF OwnFrames
    <3>2. CASE Active(f)
      <4>1. Len(stack) \in 1..Len(stack) /\ Len(stack) \in Nat /\ stack[Len(stack)] = f
        BY <3>2 DEF Active, ChainInv, TypeOK
      <4>2. Alive(g)
        BY DEF Alive, Depth
      <4>3. PICK k \in 1..Len(stack) : stack[k] = g
        BY <4>2, NoneSuspended DEF ChainInv
      <4>4. ~(Len(stack) <= k)
        BY <4>1, <4>3
      <4> QED
        BY <4>1, <4>3, <4>4, NestedNow
    <3> QED
      BY <3>1, <3>2
  <2>3. BindsNone(frames[g][i])
    BY <2>1, <2>2 DEF NamesOf
  <2> QED
    BY <1>1, <2>3 DEF HasName, BindsNone
<1> QED
  BY <1>1, <1>3 DEF NameEntry

LEMMA SameNameEntries ==
    ASSUME NameShortcut, UNCHANGED <<frames, bindings, name_cache>>
    PROVE  NameShortcut'
BY DEF NameShortcut, Depth, HasName

\* It remains to look at the entries of the frame that takes the step.
LEMMA OwnNameEntries ==
    ASSUME NameInv, Suspends = {}, NEW f \in Frames, NamesOf(f), Active(f) \/ ~Alive(f),
           \A n \in Names : NameEntry(f, n)'
    PROVE  NameShortcut'
<1>1. \A g \in Frames, n \in Names : NameEntry(g, n)
  BY DEF NameInv, NameShortcut, NameEntry
<1>2. \A g \in Frames, n \in Names : NameEntry(g, n)'
  BY <1>1, OtherNameEntries DEF NameInv
<1> QED
  BY <1>2 DEF NameShortcut, NameEntry

LEMMA ClearedNameEntries ==
    ASSUME NameInv, Suspends = {}, NEW f \in Frames, NamesOf(f), Active(f) \/ ~Alive(f),
           name_cache'[f] = NoNames
    PROVE  NameShortcut'
<1>1. \A n \in Names : NameEntry(f, n)'
  BY DEF NameEntry, NoNames
<1> QED
  BY <1>1, OwnNameEntries

LEMMA ClearsNames ==
    ASSUME TypeOK, NEW f \in Frames,
           \/ ClearLookupCaches(f)
           \/ name_cache' = [name_cache EXCEPT ![f] = NoNames]
    PROVE  name_cache'[f] = NoNames /\ \A g \in Frames : g # f => name_cache'[g] = name_cache[g]
BY DEF ClearLookupCaches, TypeOK

\* A step that binds name n in record r.
LEMMA BoundName ==
    ASSUME TypeOK, NEW r \in Records, NEW n \in Names, NEW v, Bind(r, n, v)
    PROVE  /\ \A q \in Records : q # r => bindings'[q] = bindings[q] /\ BindsNone(q)
           /\ \A q \in Records, m \in Names :
                bindings'[q][m] = IF q = r /\ m = n THEN v ELSE bindings[q][m]
<1>1. bindings \in [Records -> [Names -> Cell]] /\ bindings' = [bindings EXCEPT ![r][n] = v]
  BY DEF TypeOK, Bind
<1>2. /\ \A q \in Records : q # r => bindings'[q] = bindings[q]
      /\ \A q \in Records, m \in Names :
           bindings'[q][m] = IF q = r /\ m = n THEN v ELSE bindings[q][m]
  BY <1>1, BoundCells
<1> QED
  BY <1>2 DEF BindsNone

\* A step that caches n at frame i, the innermost one to hold n afterwards.
LEMMA CachedNameEntry ==
    ASSUME NameInv, Suspends = {}, NEW f \in Frames, Active(f), NEW n \in Names,
           NEW i \in 1..Depth(f),
           \A j \in 1..Depth(f) : j > i => ~HasName(f, j, n),
           CacheName(f, n, i),
           UNCHANGED <<frames, base>>,
           \/ \A r \in Records : BindsNone(r)
           \/ i \in OwnFrames(f) /\ \E v \in Cell : Bind(frames[f][i], n, v)
    PROVE  NameShortcut'
<1>1. /\ \A j \in 1..Depth(f) : frames[f][j] \in Records
      /\ Depth(f) \in Nat /\ base[f] \in Nat
      /\ OwnFrames(f) \subseteq 1..Depth(f)
  <2>1. frames[f] \in Seq(Records) /\ base[f] \in Nat /\ Depth(f) = Len(frames[f])
    BY DEF NameInv, ChainInv, TypeOK, Chains, Depth
  <2> QED
    BY <2>1 DEF OwnFrames
<1>2. frames' = frames /\ Depth(f)' = Depth(f)
  BY DEF Depth
<1>3. /\ \A g \in Frames : g # f => name_cache'[g] = name_cache[g]
      /\ \A m \in Names : name_cache'[f][m] = IF m = n THEN i ELSE name_cache[f][m]
  BY DEF CacheName, NameInv, ChainInv, TypeOK
<1>4. \A r \in Records : BindsNone(r) \/ (i \in OwnFrames(f) /\ r = frames[f][i])
  BY <1>1, BoundName DEF NameInv, ChainInv
<1>5. NamesOf(f)
  BY <1>2, <1>3, <1>4 DEF NamesOf
\* Which frames of f hold a name: only frame i may have become one of them.
<1>6. ASSUME NEW m \in Names, NEW j \in 1..Depth(f), m # n \/ j # i
      PROVE  HasName(f, j, m)' <=> HasName(f, j, m)
  <2>1. CASE \A r \in Records : BindsNone(r)
    BY <1>1, <1>2, <2>1 DEF HasName, BindsNone
  <2>2. ASSUME i \in OwnFrames(f), NEW v \in Cell, Bind(frames[f][i], n, v)
        PROVE  HasName(f, j, m)' <=> HasName(f, j, m)
    <3>1. frames[f][i] \in Records /\ frames[f][j] \in Records
      BY <1>1
    <3>2. frames[f][j] = frames[f][i] => j = i
      BY <1>1, <2>2 DEF NameInv, ChainInv, Owned
    <3>3. bindings'[frames[f][j]][m] = bindings[frames[f][j]][m]
      BY <1>6, <2>2, <3>1, <3>2, BoundName DEF NameInv, ChainInv
    <3> QED
      BY <1>2, <3>3 DEF HasName
  <2> QED
    BY <2>1, <2>2
<1>7. ASSUME NEW m \in Names PROVE NameEntry(f, m)'
  <2>1. CASE m # n
    BY <1>2, <1>3, <1>6, <2>1 DEF NameInv, NameShortcut, NameEntry
  <2>2. CASE m = n
    <3>1. \A j \in 1..Depth(f) : j > i => j # i
      BY <1>1
    <3> QED
      BY <1>2, <1>3, <1>6, <2>2, <3>1 DEF NameEntry
  <2> QED
    BY <2>1, <2>2
<1> QED
  BY <1>5, <1>7, OwnNameEntries

\* Where a scan for a name ends.
LEMMA ScannedName ==
    ASSUME TypeOK, NEW f \in Frames, NEW n \in Names,
           NEW i, IsInnermost(NameHolders(bindings, frames[f], n), i)
    PROVE  /\ i \in 1..Depth(f) /\ HasName(f, i, n)
           /\ \A j \in 1..Depth(f) : j > i => ~HasName(f, j, n)
<1>1. Depth(f) \in Nat
  BY DEF TypeOK, Chains, Depth
<1>2. i \in 1..Depth(f) /\ HasName(f, i, n)
  BY DEF IsInnermost, NameHolders, HasName, Depth
<1>3. \A j \in 1..Depth(f) : HasName(f, j, n) => j <= i
  BY DEF IsInnermost, NameHolders, HasName, Depth
<1> QED
  BY <1>1, <1>2, <1>3

LEMMA NoHolder ==
    ASSUME NEW f, NEW n, NameHolders(bindings, frames[f], n) = {}
    PROVE  \A j \in 1..Depth(f) : ~HasName(f, j, n)
BY DEF NameHolders, HasName, Depth

\* Every assignment caches the frame it binds in.
LEMMA AssignedName ==
    ASSUME NameInv, Suspends = {}, NEW f \in Frames, Active(f), NEW n \in Names,
           NEW v \in Values, SetOrDefineCurrent(f, n, v), UNCHANGED <<frames, base>>
    PROVE  NameShortcut'
<1>1. PICK i \in 1..Depth(f) :
        /\ IF NameHolders(bindings, frames[f], n) = {} THEN i = Depth(f)
           ELSE IsInnermost(NameHolders(bindings, frames[f], n), i)
        /\ Bind(frames[f][i], n, v)
        /\ CacheName(f, n, i)
  BY DEF SetOrDefineCurrent
<1>2. Alive(f) /\ Depth(f) \in Nat \ {0} /\ base[f] \in Nat /\ base[f] < Depth(f)
  BY ActiveAlive DEF NameInv, ChainInv, Shape, TypeOK
<1>3. v \in Cell /\ v # Unbound
  BY TypesAssumption DEF Cell
<1>4. CASE NameHolders(bindings, frames[f], n) = {}
  <2>1. i = Depth(f) /\ i \in OwnFrames(f)
    BY <1>1, <1>2, <1>4 DEF OwnFrames
  <2>2. \A j \in 1..Depth(f) : j > i => ~HasName(f, j, n)
    BY <1>4, NoHolder
  <2> QED
    BY <1>1, <1>3, <2>1, <2>2, CachedNameEntry
<1>5. CASE NameHolders(bindings, frames[f], n) # {}
  <2>1. IsInnermost(NameHolders(bindings, frames[f], n), i)
    BY <1>1, <1>5
  <2>2. HasName(f, i, n) /\ \A j \in 1..Depth(f) : j > i => ~HasName(f, j, n)
    BY <2>1, ScannedName DEF NameInv, ChainInv
  <2>3. frames[f][i] \in Records
    BY DEF NameInv, ChainInv, TypeOK, Chains, Depth
  <2>4. \A r \in Records : BindsNone(r)
    BY <1>1, <1>3, <2>2, <2>3, BoundName DEF NameInv, ChainInv, BindsNone, HasName
  <2> QED
    BY <1>1, <2>2, <2>4, CachedNameEntry
<1> QED
  BY <1>4, <1>5

LEMMA NameStepShortcut ==
    ASSUME NameInv, Suspends = {}, NEW f \in Frames, NameStep(f)
    PROVE  NameShortcut'
<1> USE DEF envVars
<1>1. PICK n \in Names : \/ LoadName(f, n)
                         \/ \E v \in Values : StoreName(f, n, v)
                         \/ DeclareName(f, n)
                         \/ DeclareVarName(f, n)
  BY DEF NameStep
<1>2. Active(f) /\ Alive(f) /\ TypeOK
  BY NameStepShape, ActiveAlive DEF NameInv, ChainInv
<1>3. Depth(f) \in Nat \ {0} /\ base[f] \in Nat /\ base[f] < Depth(f)
  BY <1>2, ActiveAlive DEF NameInv, ChainInv, Shape, TypeOK
<1>4. Depth(f) \in OwnFrames(f) /\ Depth(f) \in 1..Depth(f)
      /\ \A j \in 1..Depth(f) : ~(j > Depth(f))
  BY <1>3 DEF OwnFrames
<1>5. \A j \in 1..Depth(f) : frames[f][j] \in Records
  BY <1>2 DEF TypeOK, Chains, Depth
<1>6. ASSUME NEW r \in Records PROVE IfAbsent(bindings[r][n], Undefined) \in Cell
  BY <1>2, TypesAssumption DEF IfAbsent, Cell, TypeOK
<1>7. CASE LoadName(f, n)
  <2>1. UNCHANGED <<frames, base, bindings>>
    BY <1>7 DEF LoadName, recordVars
  <2>2. PICK i \in 0..Depth(f) :
          /\ Finds(f, n, i)
          /\ IF i = 0 THEN UNCHANGED name_cache ELSE CacheName(f, n, i)
    BY <1>7 DEF LoadName
  <2>3. CASE i = 0
    BY <2>1, <2>2, <2>3, SameNameEntries DEF NameInv
  <2>4. CASE i # 0
    <3>1. i \in 1..Depth(f) /\ \A j \in 1..Depth(f) : j > i => ~HasName(f, j, n)
      <4>1. CASE NameHit(f, n)
        <5>1. i = name_cache[f][n] /\ i \in 1..Depth(f) /\ HasName(f, i, n)
          BY <2>2, <4>1 DEF Finds, NameHit
        <5> QED
          BY <2>4, <5>1 DEF NameInv, NameShortcut
      <4>2. CASE ~NameHit(f, n)
        <5>1. IsInnermost(NameHolders(bindings, frames[f], n), i)
          BY <2>2, <2>4, <4>2 DEF Finds
        <5> QED
          BY <1>2, <5>1, ScannedName
      <4> QED
        BY <4>1, <4>2
    <3>2. \A r \in Records : BindsNone(r)
      BY <2>1 DEF BindsNone
    <3>3. CacheName(f, n, i)
      BY <2>2, <2>4
    <3> QED
      BY <1>2, <2>1, <3>1, <3>2, <3>3, CachedNameEntry
  <2> QED
    BY <2>3, <2>4
<1>8. ASSUME NEW v \in Values, StoreName(f, n, v) PROVE NameShortcut'
  BY <1>2, <1>8, AssignedName DEF StoreName
<1>9. CASE DeclareName(f, n)
  <2>1. UNCHANGED <<frames, base>> /\ CacheName(f, n, Depth(f))
    BY <1>9 DEF DeclareName
  <2>2. \E v \in Cell : Bind(frames[f][Depth(f)], n, v)
    BY <1>4, <1>5, <1>6, <1>9 DEF DeclareName, Current, Depth
  <2> QED
    BY <1>2, <1>4, <2>1, <2>2, CachedNameEntry
<1>10. CASE DeclareVarName(f, n)
  <2>1. UNCHANGED <<frames, base>> /\ name_cache' = [name_cache EXCEPT ![f] = NoNames]
    BY <1>10 DEF DeclareVarName
  <2>2. PICK b \in 1..Depth(f) :
          /\ Boundary(f, b)
          /\ Bind(frames[f][b], n, IfAbsent(bindings[frames[f][b]][n], Undefined))
    BY <1>10 DEF DeclareVarName
  <2>3. b = base[f] + 1 /\ b \in OwnFrames(f)
    BY <1>2, <1>3, <2>2, BoundaryIsBase DEF NameInv, ChainInv, OwnFrames
  <2>4. \A q \in Records : q # frames[f][b] => BindsNone(q)
    BY <1>2, <1>5, <2>2, BoundName
  <2>5. name_cache'[f] = NoNames /\ \A g \in Frames : g # f => name_cache'[g] = name_cache[g]
    BY <1>2, <2>1, ClearsNames
  <2>6. NamesOf(f)
    BY <2>1, <2>3, <2>4, <2>5 DEF NamesOf
  <2> QED
    BY <1>2, <2>5, <2>6, ClearedNameEntries
<1> QED
  BY <1>1, <1>7, <1>8, <1>9, <1>10

LEMMA ScopeStepNames ==
    ASSUME NameInv, Suspends = {}, NEW f \in Frames, ScopeStep(f)
    PROVE  NameShortcut'
<1> USE DEF recordVars
<1>0. ChainInv /\ TypeOK /\ Active(f)
  BY DEF NameInv, ChainInv, ScopeStep, EnterScope, EnterCatchName, EnterCatchSlot,
     TruncateToDepth
<1>1. \A g \in Frames : g # f => frames'[g] = frames[g]
  BY <1>0, ScopeStepShape, ZenonT(40) DEF ChainInv, TypeOK, Grows, Shrinks
<1>2. ASSUME ClearLookupCaches(f) \/ name_cache' = [name_cache EXCEPT ![f] = NoNames],
             UNCHANGED bindings
      PROVE  NameShortcut'
  <2>1. name_cache'[f] = NoNames /\ \A g \in Frames : g # f => name_cache'[g] = name_cache[g]
    BY <1>0, <1>2, ClearsNames
  <2>2. NamesOf(f)
    BY <1>1, <1>2, <2>1 DEF NamesOf, BindsNone
  <2> QED
    BY <1>0, <2>1, <2>2, ClearedNameEntries
<1>3. CASE EnterScope(f)
  BY <1>2, <1>3 DEF EnterScope
<1>4. ASSUME NEW n \in Names, NEW v \in Values, EnterCatchName(f, n, v)
      PROVE  NameShortcut'
  <2>1. PICK r \in Records : PushFrame(f, "Catch", r) /\ Bind(r, n, v)
    BY <1>4 DEF EnterCatchName
  <2>2. Depth(f) \in Nat /\ Depth(f)' = Depth(f) + 1
    BY <1>0, <2>1, AppendProperties DEF PushFrame, Depth, TypeOK, Chains
  <2>3. /\ \A m \in Names : name_cache'[f][m] = IF m = n THEN Depth(f) + 1 ELSE 0
        /\ \A g \in Frames : g # f => name_cache'[g] = name_cache[g]
    BY <1>0, <1>4 DEF EnterCatchName, NoNames, TypeOK
  <2>4. NamesOf(f)
    BY <1>0, <1>1, <2>1, <2>3, BoundName DEF NamesOf, PushFrame
  <2>5. Depth(f) + 1 \in 1..Depth(f)' /\ \A j \in 1..Depth(f)' : ~(j > Depth(f) + 1)
    BY <2>2
  <2>6. \A m \in Names : NameEntry(f, m)'
    BY <2>3, <2>5 DEF NameEntry
  <2> QED
    BY <1>0, <2>4, <2>6, OwnNameEntries
<1>5. ASSUME NEW s \in Slots, NEW v \in Values, EnterCatchSlot(f, s, v)
      PROVE  NameShortcut'
  BY <1>2, <1>5 DEF EnterCatchSlot
<1>6. ASSUME NEW depth \in 1..Depth(f), TruncateToDepth(f, depth) PROVE NameShortcut'
  BY <1>2, <1>6 DEF TruncateToDepth
<1> QED
  BY <1>3, <1>4, <1>5, <1>6 DEF ScopeStep

\* The names in P are bound in the new record r, on top of the chain.
LEMMA CallNames ==
    ASSUME NameInv, Suspends = {}, NEW f \in Frames, NEW o, NEW chain \in captured,
           NEW P \in SUBSET Names, NEW S, NEW v \in Values, Call(f, o, chain, P, S, v)
    PROVE  NameShortcut'
<1>0. ChainInv /\ TypeOK /\ chain \in Seq(Records) /\ Len(chain) \in Nat
  BY DEF NameInv, ChainInv, TypeOK, Chains
<1>1. PICK r \in Records :
        /\ EnterFunction(f, o, chain, r, S, v)
        /\ bindings' = [bindings EXCEPT ![r] =
                          [n \in Names |-> IF n \in P THEN v ELSE Unbound]]
        /\ name_cache' = [name_cache EXCEPT ![f] =
                            [n \in Names |-> IF o = f /\ n \in P THEN Len(chain) + 1 ELSE 0]]
  BY DEF Call
<1>2. /\ ~Alive(f) /\ Fresh(r) /\ o = f
      /\ frames' = [frames EXCEPT ![f] = Append(chain, r), ![o] = Append(chain, r)]
  BY <1>1 DEF EnterFunction, Begins, Alive
<1>3. frames'[f] = Append(chain, r) /\ \A g \in Frames : g # f => frames'[g] = frames[g]
  BY <1>0, <1>2 DEF TypeOK
<1>4. Depth(f)' = Len(chain) + 1
  BY <1>0, <1>3, AppendProperties DEF Depth
<1>5. /\ \A n \in Names : name_cache'[f][n] = IF n \in P THEN Len(chain) + 1 ELSE 0
      /\ \A g \in Frames : g # f => name_cache'[g] = name_cache[g]
  BY <1>0, <1>1, <1>2 DEF TypeOK
<1>6. \A q \in Records : q # r => BindsNone(q)
  BY <1>0, <1>1 DEF BindsNone, TypeOK
<1>7. NamesOf(f)
  BY <1>2, <1>3, <1>5, <1>6 DEF NamesOf
<1>8. Len(chain) + 1 \in 1..Depth(f)' /\ \A j \in 1..Depth(f)' : ~(j > Len(chain) + 1)
  BY <1>0, <1>4
<1>9. \A n \in Names : NameEntry(f, n)'
  BY <1>5, <1>8 DEF NameEntry
<1> QED
  BY <1>2, <1>7, <1>9, OwnNameEntries

\* The declared function h of the body goes to its innermost holder, or to r.
LEMMA CallHoistingNames ==
    ASSUME NameInv, Suspends = {}, NEW f \in Frames, NEW o, NEW chain \in captured,
           NEW P \in SUBSET Names, NEW S, NEW v \in Values,
           NEW h \in Names, NEW w \in Values, CallHoisting(f, o, chain, P, S, v, h, w)
    PROVE  NameShortcut'
<1> DEFINE top == Len(chain) + 1
           entry == [n \in Names |-> IF n \in P THEN v ELSE Unbound]
<1>0. /\ ChainInv /\ TypeOK /\ chain \in Seq(Records) /\ Len(chain) \in Nat
      /\ \A j \in 1..Len(chain) : chain[j] \in Records
  BY DEF NameInv, ChainInv, TypeOK, Chains
<1>1. PICK r \in Records, i \in 1..top :
        /\ EnterFunction(f, o, chain, r, S, v)
        /\ IF h \in P \/ NameHolders(bindings, chain, h) = {} THEN i = top
           ELSE IsInnermost(NameHolders(bindings, chain, h), i)
        /\ bindings' = [bindings EXCEPT ![r] = entry, ![Append(chain, r)[i]][h] = w]
        /\ name_cache' = [name_cache EXCEPT ![f] =
                            [n \in Names |-> IF n = h THEN i
                                             ELSE IF o = f /\ n \in P THEN top ELSE 0]]
  BY DEF CallHoisting
<1>2. /\ ~Alive(f) /\ Fresh(r) /\ o = f
      /\ frames' = [frames EXCEPT ![f] = Append(chain, r), ![o] = Append(chain, r)]
  BY <1>1 DEF EnterFunction, Begins, Alive
<1>3. frames'[f] = Append(chain, r) /\ \A g \in Frames : g # f => frames'[g] = frames[g]
  BY <1>0, <1>2 DEF TypeOK
<1> DEFINE e == Append(chain, r)
           q == e[i]
<1>4. Len(e) = top /\ e[top] = r /\ (\A j \in 1..Len(chain) : e[j] = chain[j]) /\ e # <<>>
  BY <1>0, AppendProperties
<1> HIDE DEF e
<1>5. Depth(f)' = top /\ top \in Nat /\ frames'[f] = e
  BY <1>0, <1>3, <1>4 DEF Depth, e
<1>6. /\ \A n \in Names : name_cache'[f][n] = IF n = h THEN i
                                              ELSE IF n \in P THEN top ELSE 0
      /\ \A g \in Frames : g # f => name_cache'[g] = name_cache[g]
  BY <1>0, <1>1, <1>2 DEF TypeOK
<1>7. \A j \in 1..top : j = top \/ j \in 1..Len(chain)
  BY <1>0
<1>8. \A j \in 1..Len(chain) : chain[j] # r
  BY <1>0, <1>2 DEF Fresh, ChainInv, Created
<1>9. w # Unbound
  BY TypesAssumption
\* Where h goes: to the new record, or to one that holds it already.
<1>10. \/ i = top /\ q = r
       \/ /\ i \in 1..Len(chain) /\ q = chain[i] /\ q # r /\ h \notin P
          /\ bindings[chain[i]][h] # Unbound
          /\ \A j \in 1..Len(chain) : j > i => bindings[chain[j]][h] = Unbound
  <2>1. CASE h \in P \/ NameHolders(bindings, chain, h) = {}
    BY <1>1, <1>4, <2>1
  <2>2. CASE ~(h \in P \/ NameHolders(bindings, chain, h) = {})
    <3>1. IsInnermost(NameHolders(bindings, chain, h), i) /\ h \notin P
      BY <1>1, <2>2
    <3>2. i \in 1..Len(chain) /\ bindings[chain[i]][h] # Unbound
      BY <3>1 DEF IsInnermost, NameHolders
    <3>3. \A j \in 1..Len(chain) : bindings[chain[j]][h] # Unbound => j <= i
      BY <3>1 DEF IsInnermost, NameHolders
    <3>4. \A j \in 1..Len(chain) : j > i => ~(j <= i)
      BY <1>0, <3>2
    <3> QED
      BY <1>4, <1>8, <3>1, <3>2, <3>3, <3>4
  <2> QED
    BY <2>1, <2>2
<1>11. q \in Records
  BY <1>0, <1>10
<1> HIDE DEF q
<1>12. \A p \in Records, n \in Names :
         bindings'[p][n] = IF p = q /\ n = h THEN w
                           ELSE IF p = r THEN entry[n] ELSE bindings[p][n]
  <2> DEFINE entered == [bindings EXCEPT ![r] = entry]
  <2>1. entered \in [Records -> [Names -> Cell]]
    BY <1>0, TypesAssumption DEF Cell, TypeOK
  <2>2. bindings' = [entered EXCEPT ![q][h] = w]
    BY <1>1 DEF q, e
  <2>3. \A p \in Records, n \in Names :
          entered[p][n] = IF p = r THEN entry[n] ELSE bindings[p][n]
    BY <1>0 DEF TypeOK
  <2> HIDE DEF entered
  <2>4. \A p \in Records, n \in Names :
          bindings'[p][n] = IF p = q /\ n = h THEN w ELSE entered[p][n]
    BY <1>11, <2>1, <2>2, BoundCells
  <2> QED
    BY <2>3, <2>4
<1>13. \A p \in Records : p # r => BindsNone(p)
  BY <1>9, <1>10, <1>12 DEF BindsNone
<1>14. NamesOf(f)
  BY <1>2, <1>3, <1>6, <1>13 DEF NamesOf
<1>15. ASSUME NEW n \in Names PROVE NameEntry(f, n)'
  <2>1. CASE n # h
    <3>1. top \in 1..top /\ \A j \in 1..top : ~(j > top)
      BY <1>5
    <3> QED
      BY <1>5, <1>6, <2>1, <3>1 DEF NameEntry
  <2>2. CASE n = h /\ i = top
    <3>1. top \in 1..top /\ \A j \in 1..top : ~(j > top)
      BY <1>5
    <3> QED
      BY <1>5, <1>6, <2>2, <3>1 DEF NameEntry
  <2>3. CASE n = h /\ i # top
    <3>1. ASSUME NEW j \in 1..top, j > i PROVE bindings'[e[j]][h] = Unbound
      <4>1. CASE j = top
        BY <1>4, <1>10, <1>12, <2>3, <4>1
      <4>2. CASE j \in 1..Len(chain)
        <5>1. e[j] \in Records /\ e[j] = chain[j] /\ e[j] # r
          BY <1>0, <1>4, <1>8, <4>2
        <5>2. bindings[chain[j]][h] = Unbound
          BY <1>10, <2>3, <3>1, <4>2
        <5> QED
          BY <1>13, <5>1, <5>2 DEF BindsNone
      <4> QED
        BY <1>7, <4>1, <4>2
    <3>2. \A j \in 1..Depth(f)' : j > i => ~HasName(f, j, h)'
      BY <1>5, <3>1 DEF HasName
    <3>3. i \in 1..Depth(f)' /\ name_cache'[f][h] = i
      BY <1>1, <1>5, <1>6
    <3> QED
      BY <2>3, <3>2, <3>3 DEF NameEntry
  <2> QED
    BY <2>1, <2>2, <2>3
<1> QED
  BY <1>2, <1>14, <1>15, OwnNameEntries

LEMMA NextNameShortcut ==
    ASSUME NameInv, Suspends = {}, [Next]_vars
    PROVE  NameShortcut'
<1>0. ChainInv /\ TypeOK
  BY DEF NameInv, ChainInv
<1>1. CASE UNCHANGED vars
  BY <1>1, SameNameEntries DEF NameInv, vars, envVars, recordVars, cacheVars
<1>2. ASSUME NEW f \in Frames, SlotStep(f) PROVE NameShortcut'
  BY <1>2, SlotStepShape, SameNameEntries DEF NameInv, Keeps
<1>3. ASSUME NEW f \in Frames, FunctionStep(f) PROVE NameShortcut'
  <2>1. CASE CreateFunction(f)
    BY <2>1, SameNameEntries DEF NameInv, CreateFunction, envVars, recordVars, cacheVars
  <2>2. ASSUME NEW n \in Names, NEW v \in Values, DeclareFunction(f, n, v)
        PROVE  NameShortcut'
    BY <2>2, AssignedName DEF DeclareFunction, envVars
  <2>3. CASE CallStep(f)
    BY <2>3, CallNames, CallHoistingNames DEF CallStep
  <2>4. CASE Return(f)
    <3>1. \A g \in Frames : g # f => frames'[g] = frames[g]
      BY <1>0, <2>4, TypesAssumption DEF Return, GiveBack, Activated, ChainInv, TypeOK
    <3>2. Active(f) /\ ClearLookupCaches(f) /\ UNCHANGED bindings
      BY <2>4 DEF Return, Pop, recordVars
    <3>3. name_cache'[f] = NoNames
          /\ \A g \in Frames : g # f => name_cache'[g] = name_cache[g]
      BY <1>0, <3>2, ClearsNames
    <3>4. NamesOf(f)
      BY <3>1, <3>2, <3>3 DEF NamesOf, BindsNone
    <3> QED
      BY <3>2, <3>3, <3>4, ClearedNameEntries
  <2> QED
    BY <1>3, <2>1, <2>2, <2>3, <2>4 DEF FunctionStep
<1>4. \A f \in Frames : ~SuspendStep(f) /\ ~GeneratorStep(f)
  BY <1>0, NoneSuspended DEF ChainInv
<1> QED
  BY <1>1, <1>2, <1>3, <1>4, ScopeStepNames, NameStepShortcut DEF Next

\* While frames are never suspended, the frame a lookup by name takes from the cache
\* is the one its scan would have stopped at: another frame that binds the name in a
\* scope they share runs above, and has returned before the cache is asked again.
THEOREM NameCacheCorrect ==
    ASSUME Suspends = {}
    PROVE  Spec => []NamesInnermost
<1>1. Init => Nested /\ NameShortcut
  <2> SUFFICES ASSUME Init PROVE Nested /\ NameShortcut
    OBVIOUS
  <2>1. Len(stack) = 1
    BY DEF Init
  <2>2. \A j, k \in 1..Len(stack) : j <= k
    BY <2>1
  <2> QED
    BY <2>2 DEF Init, NameShortcut, NoNames, Nested
<1>2. ChainInv /\ (Nested /\ NameShortcut) /\ [Next]_vars => (Nested /\ NameShortcut)'
  BY NextNested, NextNameShortcut DEF NameInv
<1>3. ChainInv /\ (Nested /\ NameShortcut) => NamesInnermost
  <2> SUFFICES ASSUME ChainInv, NameShortcut, NEW f \in Frames, NEW n \in Names,
                      NameHit(f, n)
               PROVE  IsInnermost(NameHolders(bindings, frames[f], n), name_cache[f][n])
    BY DEF NamesInnermost
  <2> DEFINE i == name_cache[f][n]
  <2>1. Depth(f) \in Nat /\ i \in 1..Depth(f) /\ HasName(f, i, n)
    BY DEF NameHit, ChainInv, TypeOK, Chains, Depth
  <2>2. \A j \in 1..Depth(f) : j > i => ~HasName(f, j, n)
    BY <2>1 DEF NameShortcut
  <2> HIDE DEF i
  <2>3. \A j \in 1..Depth(f) : HasName(f, j, n) => j <= i
    BY <2>1, <2>2
  <2>4. \A j : j \in NameHolders(bindings, frames[f], n)
               <=> j \in 1..Depth(f) /\ HasName(f, j, n)
    BY DEF NameHolders, HasName, Depth
  <2> QED
    BY <2>1, <2>3, <2>4 DEF IsInnermost, i
<1> QED
  BY <1>1, <1>2, <1>3, ChainsCorrect, PTL DEF Spec

-----------------------------------------------------------------------------
(***************************************************************************)
(* The environments refine scope chains that have no caches (ScopeChain).  *)
(***************************************************************************)

\* Both specifications mean the same by the data of ScopeTypes.
LEMMA SameScopeTypes ==
    /\ SC!Cell = Cell /\ SC!Unused = Unused /\ SC!Holders = Holders
    /\ \A o, q, f, g : SC!Joined(o, q, f, g) = Joined(o, q, f, g)
    /\ \A k, c, i : SC!IsBoundary(k, c, i) <=> IsBoundary(k, c, i)
    /\ \A S, i : SC!IsInnermost(S, i) <=> IsInnermost(S, i)
    /\ \A b, c, n : SC!NameHolders(b, c, n) = NameHolders(b, c, n)
    /\ \A m, c, b, s : SC!SlotHolders(m, c, b, s) = SlotHolders(m, c, b, s)
    /\ \A c : SC!Current(c) = Current(c)
BY DEF SC!Cell, Cell, SC!Unused, Unused, SC!IsBoundary, IsBoundary, SC!IsInnermost,
   IsInnermost, SC!NameHolders, NameHolders, SC!SlotHolders, SlotHolders,
   SC!Current, Current, SC!Boundaries, Boundaries, SC!Holders, SC!Joined, Joined

\* The caches are shortcuts: what the refinement needs of them.
CachesInnermost == ChainInv /\ NamesInnermost /\ SlotShortcut

LEMMA InitRefines == Init => SC!Init
BY DEF Init, SC!Init, SC!Unused, Unused, SC!Cell, Cell, SC!EmptyNames, EmptyNames,
   SC!EmptySlots, EmptySlots, SC!Holders

\* A lookup answers what the chain resolves the name to.
LEMMA FindsResolves ==
    ASSUME CachesInnermost, NEW f \in Frames, NEW n \in Names,
           NEW i \in 0..Depth(f), Finds(f, n, i)
    PROVE  SC!Resolves(frames[f], n, IF i = 0 THEN Unbound ELSE bindings[frames[f][i]][n])
<1> DEFINE holders == NameHolders(bindings, frames[f], n)
<1>1. (holders = {} /\ i = 0) \/ IsInnermost(holders, i)
  <2>1. CASE NameHit(f, n)
    BY <2>1 DEF Finds, CachesInnermost, NamesInnermost
  <2>2. CASE ~NameHit(f, n)
    BY <2>2 DEF Finds
  <2> QED
    BY <2>1, <2>2
<1>2. IsInnermost(holders, i) => i \in holders /\ i # 0
  <2>1. Depth(f) \in Nat
    BY DEF CachesInnermost, ChainInv, TypeOK, Chains, Depth
  <2>2. \A j \in holders : j # 0
    BY <2>1 DEF NameHolders, Depth
  <2> QED
    BY <2>2 DEF IsInnermost
<1>3. SC!NameHolders(bindings, frames[f], n) = holders
  BY SameScopeTypes
<1> HIDE DEF holders
<1> QED
  BY <1>1, <1>2, <1>3, SameScopeTypes DEF SC!Resolves

LEMMA FindsSlotResolves ==
    ASSUME CachesInnermost, NEW f \in Frames, Alive(f), NEW s \in Slots,
           NEW b \in 1..Depth(f), Boundary(f, b), NEW i \in 0..Depth(f), FindsSlot(f, s, b, i)
    PROVE  LET holders == SlotHolders(slot_values, frames[f], b, s)
           IN  (holders = {} /\ i = 0) \/ (i # 0 /\ SC!AnswersSlot(f, holders, i))
<1> DEFINE holders == SlotHolders(slot_values, frames[f], b, s)
<1>0. Depth(f) \in Nat /\ b \in Nat \ {0}
  BY DEF CachesInnermost, ChainInv, TypeOK, Chains, Depth
<1>1. CASE SlotHit(f, s)
  <2>1. i # 0 /\ HasSlot(f, i, s)
    BY <1>0, <1>1 DEF FindsSlot, SlotHit
  <2>2. i \in OwnFrames(f)
        /\ (f \in shared \/ \A j \in OwnFrames(f) : j > i => ~HasSlot(f, j, s))
    BY <2>1, FoundSlot DEF CachesInnermost
  <2>3. OwnFrames(f) = b..Depth(f)
    BY BoundaryIsBase DEF CachesInnermost, ChainInv, OwnFrames
  <2>4. \A j : j \in holders <=> j \in OwnFrames(f) /\ HasSlot(f, j, s)
    BY <2>3 DEF SlotHolders, HasSlot, Depth
  <2> HIDE DEF holders
  <2>5. f \in shared \/ IsInnermost(holders, i)
    <3>1. ASSUME f \notin shared, NEW j \in holders PROVE j <= i
      BY <1>0, <2>2, <2>3, <2>4, <3>1
    <3> QED
      BY <2>1, <2>2, <2>4, <3>1 DEF IsInnermost
  <2> QED
    BY <2>1, <2>2, <2>4, <2>5, SameScopeTypes DEF SC!AnswersSlot, holders
<1>2. CASE ~SlotHit(f, s)
  <2>1. (holders = {} /\ i = 0) \/ IsInnermost(holders, i)
    BY <1>2 DEF FindsSlot
  <2>2. \A j \in holders : j # 0
    BY <1>0 DEF SlotHolders, Depth
  <2> HIDE DEF holders
  <2> QED
    BY <2>1, <2>2, SameScopeTypes DEF IsInnermost, SC!AnswersSlot, holders
<1> QED
  BY <1>1, <1>2

LEMMA AssignmentRefines ==
    ASSUME TypeOK, NEW f \in Frames, NEW n \in Names, NEW v \in Values,
           SetOrDefineCurrent(f, n, v)
    PROVE  \E r \in Records : SC!Assigns(bindings, frames[f], n, r) /\ SC!BindName(r, n, v)
<1>1. PICK i \in 1..Depth(f) :
        /\ IF NameHolders(bindings, frames[f], n) = {} THEN i = Depth(f)
           ELSE IsInnermost(NameHolders(bindings, frames[f], n), i)
        /\ Bind(frames[f][i], n, v)
  BY DEF SetOrDefineCurrent
<1>2. frames[f][i] \in Records /\ SC!BindName(frames[f][i], n, v)
  BY <1>1 DEF TypeOK, Chains, Depth, Bind, SC!BindName
<1>3. SC!Assigns(bindings, frames[f], n, frames[f][i])
  <2>1. CASE NameHolders(bindings, frames[f], n) = {}
    BY <1>1, <2>1, SameScopeTypes DEF SC!Assigns, Current, Depth
  <2>2. CASE IsInnermost(NameHolders(bindings, frames[f], n), i)
    <3>1. i \in NameHolders(bindings, frames[f], n)
      BY <2>2 DEF IsInnermost
    <3> QED
      BY <2>2, <3>1, SameScopeTypes DEF SC!Assigns
  <2> QED
    BY <1>1, <2>1, <2>2
<1> QED
  BY <1>2, <1>3

LEMMA ScopeStepRefines ==
    ASSUME ChainInv, NEW f \in Frames, ScopeStep(f)
    PROVE  SC!Next
<1> USE DEF recordVars, scheduleVars, generatorVars, SC!activationVars
<1>0. /\ TypeOK /\ Active(f) /\ Alive(f)
      /\ bindings \in [Records -> [Names -> Cell]] /\ slot_values \in [Records -> [Slots -> Cell]]
  <2>1. TypeOK /\ Active(f)
    BY DEF ChainInv, ScopeStep, EnterScope, EnterCatchName, EnterCatchSlot, TruncateToDepth
  <2> QED
    BY <2>1, ActiveAlive DEF ChainInv, TypeOK
\* A scope with the names N and the slots S.
<1>1. ASSUME NEW k \in {"Block", "Catch"}, NEW r \in Records, PushFrame(f, k, r),
             NEW N \in [Names -> Cell], NEW S \in [Slots -> Cell],
             bindings' = [bindings EXCEPT ![r] = N],
             slot_values' = [slot_values EXCEPT ![r] = S],
             UNCHANGED <<captured, answer, owner, shared>>
      PROVE  SC!Next
  <2>1. kind[r] = Unused /\ kind' = [kind EXCEPT ![r] = k]
        /\ frames' = [frames EXCEPT ![f] = Append(frames[f], r)]
    BY <1>1 DEF PushFrame, Fresh
  <2> DEFINE e == Append(frames[f], r)
  <2>4. [frames EXCEPT ![f] = e] = [frames EXCEPT ![f] = e, ![f] = e]
    OBVIOUS
  <2>5. \E T \in [Slots -> SC!Cell] : slot_values' = [slot_values EXCEPT ![r] = T]
    BY <1>1, SameScopeTypes
  <2>2. SC!NewScope(f, f, frames[f], r, k)
    BY <1>1, <2>1, <2>4, <2>5, SameScopeTypes DEF SC!NewScope
  <2>3. SC!Enter(f)
    BY <1>1, <2>2, SameScopeTypes DEF SC!Enter
  <2> QED
    BY <1>0, <2>3 DEF SC!Next, Alive
<1>2. \A r \in Records : /\ bindings[r] \in [Names -> Cell]
                         /\ slot_values[r] \in [Slots -> Cell]
                         /\ bindings = [bindings EXCEPT ![r] = bindings[r]]
                         /\ slot_values = [slot_values EXCEPT ![r] = slot_values[r]]
  BY <1>0
<1>3. CASE EnterScope(f)
  <2>1. PICK r \in Records : PushFrame(f, "Block", r)
    BY <1>3 DEF EnterScope
  <2>2. UNCHANGED <<bindings, slot_values, captured, answer, owner, shared>>
    BY <1>3 DEF EnterScope
  <2>3. /\ bindings' = [bindings EXCEPT ![r] = bindings[r]]
        /\ slot_values' = [slot_values EXCEPT ![r] = slot_values[r]]
    BY <1>2, <2>2
  <2> QED
    BY <1>1, <1>2, <2>1, <2>2, <2>3
<1>4. ASSUME NEW n \in Names, NEW v \in Values, EnterCatchName(f, n, v) PROVE SC!Next
  <2>1. PICK r \in Records : PushFrame(f, "Catch", r) /\ Bind(r, n, v)
    BY <1>4 DEF EnterCatchName
  <2>2. UNCHANGED <<slot_values, captured, answer, owner, shared>>
    BY <1>4 DEF EnterCatchName
  <2>3. [bindings[r] EXCEPT ![n] = v] \in [Names -> Cell]
    BY <1>2 DEF Cell
  <2>4. bindings' = [bindings EXCEPT ![r] = [bindings[r] EXCEPT ![n] = v]]
    BY <1>0, <2>1 DEF Bind
  <2>5. slot_values' = [slot_values EXCEPT ![r] = slot_values[r]]
    BY <1>2, <2>2
  <2> QED
    BY <1>1, <1>2, <2>1, <2>2, <2>3, <2>4, <2>5
<1>5. ASSUME NEW s \in Slots, NEW v \in Values, EnterCatchSlot(f, s, v) PROVE SC!Next
  <2>1. PICK r \in Records : PushFrame(f, "Catch", r) /\ BindSlot(r, s, v)
    BY <1>5 DEF EnterCatchSlot
  <2>2. UNCHANGED <<bindings, captured, answer, owner, shared>>
    BY <1>5 DEF EnterCatchSlot
  <2>3. [slot_values[r] EXCEPT ![s] = v] \in [Slots -> Cell]
    BY <1>2 DEF Cell
  <2>4. slot_values' = [slot_values EXCEPT ![r] = [slot_values[r] EXCEPT ![s] = v]]
    BY <1>0, <2>1 DEF BindSlot
  <2>5. bindings' = [bindings EXCEPT ![r] = bindings[r]]
    BY <1>2, <2>2
  <2> QED
    BY <1>1, <1>2, <2>1, <2>2, <2>3, <2>4, <2>5
<1>6. ASSUME NEW depth \in 1..Depth(f), TruncateToDepth(f, depth) PROVE SC!Next
  <2>1. depth \in 1..(Len(frames[f]) - 1)
    BY <1>0, <1>6 DEF TruncateToDepth, TypeOK, Chains, Depth
  <2>2. SC!Leave(f)
    BY <1>6, <2>1 DEF TruncateToDepth, SC!Leave
  <2> QED
    BY <1>0, <2>2 DEF SC!Next, Alive
<1> QED
  BY <1>3, <1>4, <1>5, <1>6 DEF ScopeStep

LEMMA NameStepRefines ==
    ASSUME CachesInnermost, NEW f \in Frames, NameStep(f)
    PROVE  SC!Next
<1> USE DEF envVars, scheduleVars, generatorVars, SC!activationVars
<1>0. TypeOK /\ Active(f) /\ frames[f] # <<>> /\ Depth(f) \in Nat
  BY NameStepShape, ActiveAlive DEF CachesInnermost, ChainInv, Alive
<1>1. PICK n \in Names : \/ LoadName(f, n)
                         \/ \E v \in Values : StoreName(f, n, v)
                         \/ DeclareName(f, n)
                         \/ DeclareVarName(f, n)
  BY DEF NameStep
<1>2. CASE LoadName(f, n)
  <2>1. PICK i \in 0..Depth(f) :
          /\ Finds(f, n, i)
          /\ answer' = [key |-> n, value |-> IF i = 0 THEN Unbound
                                             ELSE bindings[frames[f][i]][n]]
    BY <1>2 DEF LoadName
  <2> DEFINE cell == IF i = 0 THEN Unbound ELSE bindings[frames[f][i]][n]
  <2>2. SC!Resolves(frames[f], n, cell)
    BY <2>1, FindsResolves
  <2>3. cell \in Cell
    <3>1. i # 0 => frames[f][i] \in Records
      BY <1>0 DEF TypeOK, Chains, Depth
    <3> QED
      BY <1>0, <3>1 DEF TypeOK, Cell
  <2>4. UNCHANGED <<frames, kind, bindings, slot_values, captured, owner, shared>>
    BY <1>2 DEF LoadName, recordVars
  <2> HIDE DEF cell
  <2>5. answer' = [key |-> n, value |-> cell]
    BY <2>1 DEF cell
  <2>6. SC!ReadName(f, n)
    BY <2>2, <2>3, <2>4, <2>5, SameScopeTypes DEF SC!ReadName
  <2> QED
    BY <1>0, <2>6 DEF SC!Next
<1>3. ASSUME NEW v \in Values, StoreName(f, n, v) PROVE SC!Next
  <2>1. UNCHANGED <<frames, kind, slot_values, captured, answer, owner, shared>>
    BY <1>3 DEF StoreName
  <2>2. \E r \in Records : SC!Assigns(bindings, frames[f], n, r) /\ SC!BindName(r, n, v)
    BY <1>0, <1>3, AssignmentRefines DEF StoreName
  <2>3. SC!AssignName(f, n, v)
    BY <2>1, <2>2 DEF SC!AssignName
  <2> QED
    BY <1>0, <2>3 DEF SC!Next
\* A declaration in one of the records of the chain.
<1>4. ASSUME NEW r, Bind(r, n, IfAbsent(bindings[r][n], Undefined)),
             UNCHANGED <<frames, kind, slot_values, captured, answer, owner, shared>>
      PROVE  SC!DeclareIn(r, n)
  <2>1. IfAbsent(bindings[r][n], Undefined)
          = IF bindings[r][n] = Unbound THEN Undefined ELSE bindings[r][n]
    BY DEF IfAbsent
  <2> QED
    BY <1>4, <2>1 DEF Bind, SC!BindName, SC!DeclareIn
<1>5. CASE DeclareName(f, n)
  <2>1. UNCHANGED <<frames, kind, slot_values, captured, answer, owner, shared>>
    BY <1>5 DEF DeclareName
  <2>2. SC!DeclareIn(Current(frames[f]), n)
    BY <1>4, <1>5, <2>1 DEF DeclareName
  <2>3. SC!DeclareLet(f)
    BY <2>2, SameScopeTypes DEF SC!DeclareLet
  <2> QED
    BY <1>0, <2>3 DEF SC!Next
<1>6. CASE DeclareVarName(f, n)
  <2>1. UNCHANGED <<frames, kind, slot_values, captured, answer, owner, shared>>
    BY <1>6 DEF DeclareVarName
  <2>2. PICK b \in 1..Depth(f) :
          /\ Boundary(f, b)
          /\ Bind(frames[f][b], n, IfAbsent(bindings[frames[f][b]][n], Undefined))
    BY <1>6 DEF DeclareVarName
  <2>3. SC!DeclareIn(frames[f][b], n)
    BY <1>4, <2>1, <2>2
  <2>4. SC!DeclareVar(f)
    BY <2>2, <2>3, SameScopeTypes DEF SC!DeclareVar, Depth, Boundary
  <2> QED
    BY <1>0, <2>4 DEF SC!Next
<1> QED
  BY <1>1, <1>2, <1>3, <1>5, <1>6

LEMMA SlotStepRefines ==
    ASSUME CachesInnermost, NEW f \in Frames, SlotStep(f)
    PROVE  SC!Next
<1> USE DEF envVars, scheduleVars, generatorVars, SC!activationVars
<1>0. TypeOK /\ Active(f) /\ frames[f] # <<>> /\ Alive(f) /\ Depth(f) \in Nat \ {0}
  BY SlotStepShape, ActiveAlive DEF CachesInnermost, ChainInv, Alive
<1>1. PICK s \in Slots : \/ LoadSlot(f, s)
                         \/ \E v \in Values : StoreSlot(f, s, v)
                         \/ DeclareSlot(f, s)
                         \/ DeclareVarSlot(f, s)
  BY DEF SlotStep
<1>2. \A j \in 1..Depth(f) : frames[f][j] \in Records
  BY <1>0 DEF TypeOK, Chains, Depth
<1>3. CASE LoadSlot(f, s)
  <2>1. PICK b \in 1..Depth(f), i \in 0..Depth(f) :
          /\ Boundary(f, b)
          /\ FindsSlot(f, s, b, i)
          /\ answer' = [key |-> s, value |-> IF i = 0 THEN Undefined
                                             ELSE slot_values[frames[f][i]][s]]
    BY <1>3 DEF LoadSlot
  <2> DEFINE cell == IF i = 0 THEN Undefined ELSE slot_values[frames[f][i]][s]
             holders == SlotHolders(slot_values, frames[f], b, s)
  <2>2. (holders = {} /\ i = 0) \/ (i # 0 /\ SC!AnswersSlot(f, holders, i))
    BY <1>0, <2>1, FindsSlotResolves
  <2>3. SC!AnswersSlot(f, holders, i) => i \in holders
    BY DEF SC!AnswersSlot
  <2>4. SC!SlotHolders(slot_values, frames[f], b, s) = holders
    BY SameScopeTypes
  <2>5. SC!IsBoundary(kind, frames[f], b) /\ b \in 1..Len(frames[f])
    BY <2>1, SameScopeTypes DEF Boundary, Depth
  <2>6. cell \in Cell
    BY <1>0, <1>2, TypesAssumption DEF TypeOK, Cell
  <2>7. (holders = {} /\ cell = Undefined)
        \/ \E j \in holders : SC!AnswersSlot(f, holders, j) /\ cell = slot_values[frames[f][j]][s]
    BY <2>2, <2>3
  <2> HIDE DEF cell, holders
  <2>8. SC!ResolvesSlot(f, s, cell)
    BY <2>4, <2>5, <2>7, SameScopeTypes DEF SC!ResolvesSlot
  <2>9. answer' = [key |-> s, value |-> cell]
    BY <2>1 DEF cell
  <2>10. UNCHANGED <<frames, kind, bindings, slot_values, captured, owner, shared>>
    BY <1>3 DEF LoadSlot, recordVars
  <2>11. SC!ReadSlot(f, s)
    BY <2>6, <2>8, <2>9, <2>10, SameScopeTypes DEF SC!ReadSlot
  <2> QED
    BY <1>0, <2>11 DEF SC!Next
<1>4. ASSUME NEW v \in Values, StoreSlot(f, s, v) PROVE SC!Next
  <2>1. PICK b \in 1..Depth(f), i \in 0..Depth(f) :
          /\ Boundary(f, b) /\ FindsSlot(f, s, b, i)
          /\ BindSlot(frames[f][IF i = 0 THEN Depth(f) ELSE i], s, v)
    BY <1>4 DEF StoreSlot
  <2> DEFINE holders == SlotHolders(slot_values, frames[f], b, s)
             r == frames[f][IF i = 0 THEN Depth(f) ELSE i]
  <2>2. (holders = {} /\ i = 0) \/ (i # 0 /\ SC!AnswersSlot(f, holders, i))
    BY <1>0, <2>1, FindsSlotResolves
  <2>3. SC!AnswersSlot(f, holders, i) => i \in holders
    BY DEF SC!AnswersSlot
  <2>4. SC!SlotHolders(slot_values, frames[f], b, s) = holders
    BY SameScopeTypes
  <2>5. SC!IsBoundary(kind, frames[f], b) /\ b \in 1..Len(frames[f])
    BY <2>1, SameScopeTypes DEF Boundary, Depth
  <2>6. r \in Records /\ SC!BindSlot(r, s, v)
    BY <1>0, <1>2, <2>1 DEF BindSlot, SC!BindSlot
  <2>7. (holders = {} /\ r = SC!Current(frames[f]))
        \/ \E j \in holders : SC!AnswersSlot(f, holders, j) /\ r = frames[f][j]
    BY <2>2, <2>3, SameScopeTypes DEF Current, Depth
  <2> HIDE DEF r, holders
  <2>8. SC!AssignsSlot(f, s, r)
    BY <2>4, <2>5, <2>7, SameScopeTypes DEF SC!AssignsSlot
  <2>9. UNCHANGED <<frames, kind, bindings, captured, answer, owner, shared>>
    BY <1>4 DEF StoreSlot
  <2>10. SC!AssignSlot(f, s, v)
    BY <2>6, <2>8, <2>9 DEF SC!AssignSlot
  <2> QED
    BY <1>0, <2>10 DEF SC!Next
\* A declaration in one of the records of the chain.
<1>5. ASSUME NEW r, BindSlot(r, s, IfAbsent(slot_values[r][s], Undefined)),
             UNCHANGED <<frames, kind, bindings, captured, answer, owner, shared>>
      PROVE  SC!DeclareSlotIn(r, s)
  <2>1. IfAbsent(slot_values[r][s], Undefined)
          = IF slot_values[r][s] = Unbound THEN Undefined ELSE slot_values[r][s]
    BY DEF IfAbsent
  <2> QED
    BY <1>5, <2>1 DEF BindSlot, SC!BindSlot, SC!DeclareSlotIn
<1>6. CASE DeclareSlot(f, s)
  <2>1. UNCHANGED <<frames, kind, bindings, captured, answer, owner, shared>>
    BY <1>6 DEF DeclareSlot
  <2>2. SC!DeclareSlotIn(Current(frames[f]), s)
    BY <1>5, <1>6, <2>1 DEF DeclareSlot
  <2>3. SC!DeclareLet(f)
    BY <2>2, SameScopeTypes DEF SC!DeclareLet
  <2> QED
    BY <1>0, <2>3 DEF SC!Next
<1>7. CASE DeclareVarSlot(f, s)
  <2>1. UNCHANGED <<frames, kind, bindings, captured, answer, owner, shared>>
    BY <1>7 DEF DeclareVarSlot
  <2>2. PICK b \in 1..Depth(f) :
          /\ Boundary(f, b)
          /\ BindSlot(frames[f][b], s, IfAbsent(slot_values[frames[f][b]][s], Undefined))
    BY <1>7 DEF DeclareVarSlot
  <2>3. SC!DeclareSlotIn(frames[f][b], s)
    BY <1>5, <2>1, <2>2
  <2>4. SC!DeclareVar(f)
    BY <2>2, <2>3, SameScopeTypes DEF SC!DeclareVar, Depth, Boundary
  <2> QED
    BY <1>0, <2>4 DEF SC!Next
<1> QED
  BY <1>1, <1>3, <1>4, <1>6, <1>7

\* A call enters a new scope with the parameters' names N and slots.
LEMMA CallRefines ==
    ASSUME ChainInv, NEW f \in Frames, CallStep(f)
    PROVE  SC!Call(f)
<1>0. TypeOK
  BY DEF ChainInv
<1>1. PICK o \in {f} \cup Generators, chain \in captured,
           P \in SUBSET Names, S \in SUBSET Slots, v \in Values :
        \/ Call(f, o, chain, P, S, v)
        \/ \E h \in Names, w \in Values : CallHoisting(f, o, chain, P, S, v, h, w)
  BY DEF CallStep
<1> DEFINE N == [n \in Names |-> IF n \in P THEN v ELSE Unbound]
           T == [s \in Slots |-> IF s \in S THEN v ELSE Unbound]
<1>2. N \in [Names -> SC!Cell] /\ T \in [Slots -> SC!Cell]
  BY SameScopeTypes DEF Cell
<1>3. ASSUME NEW r \in Records, EnterFunction(f, o, chain, r, S, v)
      PROVE  /\ frames[f] = <<>> /\ frames[o] = <<>> /\ owner' = [owner EXCEPT ![f] = o]
             /\ SC!NewScope(f, o, chain, r, "Function")
  <2>1. slot_values' = [slot_values EXCEPT ![r] = T]
    BY <1>3 DEF EnterFunction
  <2> HIDE DEF T
  <2> QED
    BY <1>2, <1>3, <2>1, SameScopeTypes DEF EnterFunction, Begins, Fresh, SC!NewScope
<1>4. CASE Call(f, o, chain, P, S, v)
  <2>1. PICK r \in Records :
          /\ EnterFunction(f, o, chain, r, S, v)
          /\ bindings' = [bindings EXCEPT ![r] = N]
          /\ UNCHANGED captured
    BY <1>4 DEF Call
  <2>2. /\ frames[f] = <<>> /\ frames[o] = <<>> /\ owner' = [owner EXCEPT ![f] = o]
        /\ SC!NewScope(f, o, chain, r, "Function")
    BY <1>3, <2>1
  <2> HIDE DEF N, T
  <2> QED
    BY <1>2, <2>1, <2>2 DEF SC!Call
<1>5. ASSUME NEW h \in Names, NEW w \in Values, CallHoisting(f, o, chain, P, S, v, h, w)
      PROVE  SC!Call(f)
  <2> DEFINE top == Len(chain) + 1
  <2>1. PICK r \in Records, i \in 1..top :
          /\ EnterFunction(f, o, chain, r, S, v)
          /\ IF h \in P \/ NameHolders(bindings, chain, h) = {} THEN i = top
             ELSE IsInnermost(NameHolders(bindings, chain, h), i)
          /\ bindings' = [bindings EXCEPT ![r] = N, ![Append(chain, r)[i]][h] = w]
          /\ captured' = captured \cup {Append(chain, r)}
    BY <1>5 DEF CallHoisting
  <2>2. /\ frames[f] = <<>> /\ frames[o] = <<>> /\ owner' = [owner EXCEPT ![f] = o]
        /\ SC!NewScope(f, o, chain, r, "Function") /\ kind[r] = Unused
    BY <1>3, <2>1 DEF EnterFunction, Fresh
  <2> DEFINE entered == [bindings EXCEPT ![r] = N]
             e == Append(chain, r)
             holders == NameHolders(entered, e, h)
  <2>3. /\ chain \in Seq(Records) /\ Len(chain) \in Nat
        /\ \A j \in 1..Len(chain) : chain[j] \in Records /\ chain[j] # r
    BY <1>0, <2>2 DEF ChainInv, Created, TypeOK, Chains
  <2>4. /\ Len(e) = top /\ e[top] = r
        /\ \A j \in 1..Len(chain) : e[j] = chain[j]
    BY <2>3, AppendProperties
  <2>5. \A q \in Records : entered[q] = IF q = r THEN N ELSE bindings[q]
    BY <1>0 DEF TypeOK
  <2>6. bindings' = [entered EXCEPT ![e[i]][h] = w]
    BY <2>1
  <2>7. N[h] = IF h \in P THEN v ELSE Unbound
    OBVIOUS
  <2>8. v # Unbound
    BY TypesAssumption
  <2> HIDE DEF entered, e, N, T
  <2>9. /\ \A j \in 1..Len(chain) : j \in 1..top /\ j # top
        /\ \A j \in 1..top : j = top \/ j \in 1..Len(chain)
        /\ top \in 1..top /\ \A j \in 1..top : j <= top
    BY <2>3
  \* The holders along the new chain: those of the old one, and r if h is in P.
  <2>10. \A j \in 1..Len(chain) : entered[e[j]][h] = bindings[chain[j]][h]
    BY <2>3, <2>4, <2>5
  <2>11. entered[e[top]][h] = IF h \in P THEN v ELSE Unbound
    BY <2>4, <2>5, <2>7
  <2>12. /\ \A j \in 1..Len(chain) : j \in holders <=> j \in NameHolders(bindings, chain, h)
         /\ top \in holders <=> h \in P
         /\ holders \subseteq 1..top
         /\ NameHolders(bindings, chain, h) \subseteq 1..Len(chain)
    BY <2>4, <2>8, <2>9, <2>10, <2>11 DEF NameHolders
  <2> HIDE DEF holders
  <2>13. (holders = {} /\ e[i] = SC!Current(e)) \/ (i \in holders /\ IsInnermost(holders, i))
    <3>1. CASE h \in P
      BY <2>1, <2>9, <2>12, <3>1 DEF IsInnermost
    <3>2. CASE h \notin P /\ NameHolders(bindings, chain, h) = {}
      <4>1. holders = {} /\ i = top
        BY <2>1, <2>9, <2>12, <3>2
      <4> QED
        BY <2>4, <4>1, SameScopeTypes DEF Current
    <3>3. CASE h \notin P /\ NameHolders(bindings, chain, h) # {}
      <4>1. holders = NameHolders(bindings, chain, h)
        BY <2>9, <2>12, <3>3
      <4>2. IsInnermost(NameHolders(bindings, chain, h), i)
        BY <2>1, <3>3
      <4> QED
        BY <4>1, <4>2 DEF IsInnermost
    <3> QED
      BY <3>1, <3>2, <3>3
  <2>14. SC!Assigns(entered, e, h, e[i])
    BY <2>13, SameScopeTypes DEF SC!Assigns, holders
  <2>15. e[i] \in Records
    BY <2>1, <2>3, <2>4, <2>9
  <2>16. captured' = captured \cup {e}
    BY <2>1 DEF e
  <2> QED
    BY <1>2, <2>2, <2>6, <2>14, <2>15, <2>16 DEF SC!Call, entered, e
<1> QED
  BY <1>1, <1>4, <1>5

LEMMA PopRefines ==
    ASSUME ChainInv, NEW f \in Frames, Return(f) \/ Yield(f) \/ Fail(f)
    PROVE  SC!Next
<1>1. Ends(f)
  BY PopShape DEF ChainInv
<1>2. UNCHANGED <<bindings, slot_values, answer>>
  BY DEF Return, Yield, Fail, Pop, recordVars
<1>3. SC!End(f) /\ frames[f] # <<>>
  BY <1>1, <1>2 DEF Ends, GiveBack, Drop, Alive, SC!End
<1> QED
  BY <1>3 DEF SC!Next

LEMMA FunctionStepRefines ==
    ASSUME ChainInv, NEW f \in Frames, FunctionStep(f)
    PROVE  SC!Next
<1> USE DEF envVars, recordVars, generatorVars, SC!activationVars
<1>0. TypeOK /\ (Active(f) => frames[f] # <<>>)
  BY ActiveAlive DEF ChainInv, Alive
<1>1. CASE CreateFunction(f)
  <2>1. SC!Capture(f) /\ Active(f)
    BY <1>1 DEF CreateFunction, SC!Capture
  <2> QED
    BY <1>0, <2>1 DEF SC!Next
<1>2. ASSUME NEW n \in Names, NEW v \in Values, DeclareFunction(f, n, v) PROVE SC!Next
  <2>1. /\ Active(f) /\ captured' = captured \cup {frames[f]}
        /\ UNCHANGED <<frames, kind, slot_values, answer, owner, shared>>
    BY <1>2 DEF DeclareFunction
  <2>2. \E r \in Records : SC!Assigns(bindings, frames[f], n, r) /\ SC!BindName(r, n, v)
    BY <1>0, <1>2, AssignmentRefines DEF DeclareFunction
  <2>3. SC!Capture(f)
    BY <2>1, <2>2 DEF SC!Capture
  <2> QED
    BY <1>0, <2>1, <2>3 DEF SC!Next
<1>3. CASE CallStep(f)
  <2>1. frames[f] = <<>>
    BY <1>3, CallStepShape DEF Enters, Alive
  <2> QED
    BY <1>3, <2>1, CallRefines DEF SC!Next
<1>4. CASE Return(f)
  BY <1>4, PopRefines
<1> QED
  BY <1>1, <1>2, <1>3, <1>4 DEF FunctionStep

LEMMA GeneratorStepRefines ==
    ASSUME ChainInv, NEW f \in Frames, GeneratorStep(f)
    PROVE  SC!Next \/ UNCHANGED SC!vars
<1>1. CASE Yield(f) \/ Fail(f)
  BY <1>1, PopRefines
<1>2. ASSUME NEW g \in Generators, Resume(f, g) PROVE SC!Next
  <2>1. UNCHANGED <<bindings, slot_values, answer>>
    BY <1>2 DEF Resume, recordVars
  <2>2. SC!GoOn(f) /\ frames[f] = <<>>
    BY <1>2, <2>1, ResumeShape, SameScopeTypes DEF GoesOn, Alive, SC!GoOn
  <2> QED
    BY <2>2 DEF SC!Next
<1>3. ASSUME NEW g \in Generators, Close(g) PROVE UNCHANGED SC!vars
  BY <1>3 DEF Close, envVars, recordVars, SC!vars, SC!activationVars
<1> QED
  BY <1>1, <1>2, <1>3 DEF GeneratorStep

\* As long as the caches are shortcuts, every step is one of the chains without them.
LEMMA NextRefines ==
    ASSUME CachesInnermost, [Next]_vars
    PROVE  [SC!Next]_(SC!vars)
<1>1. CASE UNCHANGED vars
  BY <1>1 DEF vars, envVars, recordVars, scheduleVars, generatorVars, SC!vars,
     SC!activationVars
<1>2. ASSUME NEW f \in Frames, SuspendStep(f) PROVE UNCHANGED SC!vars
  BY <1>2 DEF SuspendStep, Suspend, ResumeAwait, envVars, recordVars, generatorVars,
     SC!vars, SC!activationVars
<1> QED
  BY <1>1, <1>2, ScopeStepRefines, NameStepRefines, SlotStepRefines, FunctionStepRefines,
     GeneratorStepRefines DEF Next, CachesInnermost

\* The environments implement the scope chains without caches: with names, while no
\* frame is suspended and no generator runs; with slots alone, whatever the schedule.
\* What the chains promise to a frame that has run beside another activation of its
\* generator is less, and a var that redeclares a catch parameter is left out.
THEOREM CachesUnobservable ==
    ASSUME CatchVar = FALSE, Suspends = {} \/ Names = {}
    PROVE  Spec => ScopeChainSpec
<1>1. Spec => []NamesInnermost
  <2>1. CASE Suspends = {}
    BY <2>1, NameCacheCorrect
  <2>2. CASE Names = {}
    <3>1. NamesInnermost
      BY <2>2 DEF NamesInnermost
    <3> QED
      BY <3>1, PTL
  <2> QED
    BY <2>1, <2>2
<1>2. Init => SC!Init
  BY InitRefines
<1>3. ChainInv /\ NamesInnermost /\ SlotShortcut /\ [Next]_vars => [SC!Next]_(SC!vars)
  BY NextRefines DEF CachesInnermost
<1> QED
  BY <1>1, <1>2, <1>3, ChainsCorrect, SlotShortcutHolds, PTL DEF Spec, ScopeChainSpec, SC!Spec

=============================================================================
