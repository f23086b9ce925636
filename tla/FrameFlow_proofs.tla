--------------------------- MODULE FrameFlow_proofs ---------------------------
(***************************************************************************)
(* Proofs about FrameFlow, for any nesting of blocks and try statements.   *)
(* Frames are suspended outside of try statements (SuspendsInTry = FALSE), *)
(* since the scopes of the others are not balanced.                        *)
(***************************************************************************)
EXTENDS FrameFlow, TLAPS, SequenceTheorems, FiniteSetTheorems

-----------------------------------------------------------------------------
(* Counting scopes.                                                        *)

\* The number of scopes around the constructs up to the n-th is a number of
\* constructs, which the n-th one adds to if it is a block or a catch.
LEMMA CountType ==
    ASSUME NEW w, NEW n \in Nat
    PROVE  /\ ScopesUpTo(w, n) \in 0..n
           /\ IsFiniteSet({i \in 1..n : w[i].part \in {"scope", "catch"}})
<1> DEFINE holders == {i \in 1..n : w[i].part \in {"scope", "catch"}}
<1>1. IsFiniteSet(1..n) /\ Cardinality(1..n) = n
  BY FS_Interval
<1>2. holders \in SUBSET (1..n)
  OBVIOUS
<1> HIDE DEF holders
<1>3. IsFiniteSet(holders) /\ Cardinality(holders) <= n
  BY <1>1, <1>2, FS_Subset
<1>4. Cardinality(holders) \in Nat
  BY <1>3, FS_CardinalityType
<1> QED
  BY <1>3, <1>4 DEF ScopesUpTo, holders

LEMMA CountNone ==
    ASSUME NEW w
    PROVE  ScopesUpTo(w, 0) = 0
<1>1. 0 \in Nat
  OBVIOUS
<1>2. ScopesUpTo(w, 0) \in 0..0
  BY <1>1, CountType
<1> QED
  BY <1>2

LEMMA CountAgrees ==
    ASSUME NEW v, NEW w, NEW n \in Nat, \A i \in 1..n : v[i] = w[i]
    PROVE  ScopesUpTo(v, n) = ScopesUpTo(w, n)
<1>1. {i \in 1..n : v[i].part \in {"scope", "catch"}} = {i \in 1..n : w[i].part \in {"scope", "catch"}}
  OBVIOUS
<1> QED
  BY <1>1 DEF ScopesUpTo

LEMMA CountNext ==
    ASSUME NEW w, NEW n \in Nat \ {0}
    PROVE  ScopesUpTo(w, n) =
             ScopesUpTo(w, n - 1) + (IF w[n].part \in {"scope", "catch"} THEN 1 ELSE 0)
<1> DEFINE before == {i \in 1..(n - 1) : w[i].part \in {"scope", "catch"}}
           holders == {i \in 1..n : w[i].part \in {"scope", "catch"}}
<1>1. n - 1 \in Nat
  OBVIOUS
<1>2. IsFiniteSet(before)
  BY <1>1, CountType
<1>3. n \notin before
  OBVIOUS
<1>4. CASE w[n].part \in {"scope", "catch"}
  <2>1. holders = before \cup {n}
    BY <1>4
  <2> HIDE DEF before, holders
  <2>2. Cardinality(holders) = Cardinality(before) + 1
    BY <1>2, <1>3, <2>1, FS_AddElement
  <2> QED
    BY <1>4, <2>2 DEF ScopesUpTo, before, holders
<1>5. CASE w[n].part \notin {"scope", "catch"}
  <2>1. holders = before
    BY <1>5
  <2>2. ScopesUpTo(w, n - 1) \in 0..(n - 1)
    BY <1>1, CountType
  <2>3. ScopesUpTo(w, n) = Cardinality(holders) /\ ScopesUpTo(w, n - 1) = Cardinality(before)
    BY DEF ScopesUpTo
  <2> HIDE DEF before, holders
  <2> QED
    BY <1>5, <2>1, <2>2, <2>3
<1> QED
  BY <1>4, <1>5

LEMMA CountGrows ==
    ASSUME NEW w, NEW n \in Nat, NEW m \in 0..n
    PROVE  ScopesUpTo(w, m) <= ScopesUpTo(w, n)
<1> DEFINE before == {i \in 1..m : w[i].part \in {"scope", "catch"}}
           holders == {i \in 1..n : w[i].part \in {"scope", "catch"}}
<1>1. IsFiniteSet(holders)
  BY CountType
<1>2. before \in SUBSET holders
  OBVIOUS
<1> HIDE DEF before, holders
<1>3. Cardinality(before) <= Cardinality(holders)
  BY <1>1, <1>2, FS_Subset
<1> QED
  BY <1>3 DEF ScopesUpTo, before, holders

\* Blocks that are left together each take their scope along.
LEMMA CountBlocks ==
    ASSUME NEW w, NEW n \in Nat, NEW m \in 0..n,
           \A j \in (m + 1)..n : w[j].part = "scope"
    PROVE  ScopesUpTo(w, n) = ScopesUpTo(w, m) + (n - m)
<1> DEFINE before == {i \in 1..m : w[i].part \in {"scope", "catch"}}
           left == (m + 1)..n
           holders == {i \in 1..n : w[i].part \in {"scope", "catch"}}
<1>1. holders = before \cup left /\ before \cap left = {}
  OBVIOUS
<1>2. IsFiniteSet(before) /\ ScopesUpTo(w, m) \in Nat
  BY CountType
<1>3. IsFiniteSet(left) /\ Cardinality(left) = n - m
  <2>1. m + 1 \in Int /\ n \in Int /\ n - (m + 1) + 1 = n - m /\ (m + 1 > n => n - m = 0)
    OBVIOUS
  <2>2. IsFiniteSet(left) /\ Cardinality(left) = IF m + 1 > n THEN 0 ELSE n - (m + 1) + 1
    BY <2>1, FS_Interval
  <2> HIDE DEF left
  <2> QED
    BY <2>1, <2>2
<1> HIDE DEF before, left, holders
<1>4. Cardinality(holders) = Cardinality(before) + Cardinality(left) - Cardinality(before \cap left)
  BY <1>1, <1>2, <1>3, FS_Union
<1>5. Cardinality(before \cap left) = 0
  BY <1>1, FS_EmptySet
<1>6. Cardinality(holders) = ScopesUpTo(w, n) /\ Cardinality(before) = ScopesUpTo(w, m)
  BY DEF ScopesUpTo, before, holders
<1> QED
  BY <1>2, <1>3, <1>4, <1>5, <1>6

-----------------------------------------------------------------------------
(* Nestings of constructs as sequences.                                    *)

LEMMA NestingsAreSequences ==
    ASSUME NEW w
    PROVE  w \in Nestings <=> w \in Seq(Constructs) /\ Len(w) <= MaxNesting
<1>1. ASSUME w \in Nestings
      PROVE  w \in Seq(Constructs) /\ Len(w) <= MaxNesting
  <2>1. PICK n \in 0..MaxNesting : w \in [1..n -> Constructs]
    BY <1>1 DEF Nestings
  <2>2. n \in Nat
    BY FrameAssumption DEF FrameAssumption
  <2>3. w \in Seq(Constructs) /\ Len(w) = n
    BY <2>1, <2>2
  <2> QED
    BY <2>3, FrameAssumption DEF FrameAssumption
<1>2. ASSUME w \in Seq(Constructs), Len(w) <= MaxNesting
      PROVE  w \in Nestings
  <2>1. Len(w) \in 0..MaxNesting /\ w \in [1..Len(w) -> Constructs]
    BY <1>2, FrameAssumption DEF FrameAssumption
  <2> QED
    BY <2>1 DEF Nestings
<1> QED
  BY <1>1, <1>2

LEMMA Prefix ==
    ASSUME NEW S, NEW s \in Seq(S), NEW n \in 0..Len(s)
    PROVE  /\ SubSeq(s, 1, n) \in Seq(S)
           /\ Len(SubSeq(s, 1, n)) = n
           /\ \A i \in 1..n : SubSeq(s, 1, n)[i] = s[i]
<1>1. \A i \in 1..n : s[i] \in S
  OBVIOUS
<1>2. /\ SubSeq(s, 1, n) \in Seq(S)
      /\ Len(SubSeq(s, 1, n)) = IF 1 <= n THEN n - 1 + 1 ELSE 0
      /\ \A i \in 1..(n - 1 + 1) : SubSeq(s, 1, n)[i] = s[1 + i - 1]
  BY <1>1, SubSeqProperties
<1> QED
  BY <1>2

LEMMA Shorter ==
    ASSUME NEW w \in Nestings, NEW n \in 0..Len(w)
    PROVE  /\ SubSeq(w, 1, n) \in Nestings
           /\ Len(SubSeq(w, 1, n)) = n
           /\ \A i \in 1..n : SubSeq(w, 1, n)[i] = w[i]
           /\ \A m \in 0..n : ScopesUpTo(SubSeq(w, 1, n), m) = ScopesUpTo(w, m)
<1> DEFINE v == SubSeq(w, 1, n)
<1>1. w \in Seq(Constructs) /\ Len(w) <= MaxNesting /\ Len(w) \in Nat
  BY NestingsAreSequences
<1>2. v \in Seq(Constructs) /\ Len(v) = n /\ \A i \in 1..n : v[i] = w[i]
  BY <1>1, Prefix
<1> HIDE DEF v
<1>3. v \in Nestings
  BY <1>1, <1>2, NestingsAreSequences, FrameAssumption DEF FrameAssumption
<1>4. ASSUME NEW m \in 0..n
      PROVE  ScopesUpTo(v, m) = ScopesUpTo(w, m)
  BY <1>2, CountAgrees
<1> QED
  BY <1>2, <1>3, <1>4 DEF v

LEMMA Longer ==
    ASSUME NEW w \in Nestings, Len(w) < MaxNesting, NEW c \in Constructs
    PROVE  /\ Append(w, c) \in Nestings
           /\ Len(Append(w, c)) = Len(w) + 1 /\ Len(w) \in Nat
           /\ \A i \in 1..Len(w) : Append(w, c)[i] = w[i]
           /\ Append(w, c)[Len(w) + 1] = c
           /\ \A m \in 0..Len(w) : ScopesUpTo(Append(w, c), m) = ScopesUpTo(w, m)
           /\ ScopesUpTo(Append(w, c), Len(w) + 1) =
                ScopesUpTo(w, Len(w)) + (IF c.part \in {"scope", "catch"} THEN 1 ELSE 0)
<1> DEFINE v == Append(w, c)
<1>1. w \in Seq(Constructs) /\ Len(w) \in Nat
  BY NestingsAreSequences
<1>2. /\ v \in Seq(Constructs) /\ Len(v) = Len(w) + 1
      /\ \A i \in 1..Len(w) : v[i] = w[i]
      /\ v[Len(w) + 1] = c
  BY <1>1, AppendProperties
<1> HIDE DEF v
<1>3. v \in Nestings
  BY <1>1, <1>2, NestingsAreSequences, FrameAssumption DEF FrameAssumption
<1>4. ASSUME NEW m \in 0..Len(w)
      PROVE  ScopesUpTo(v, m) = ScopesUpTo(w, m)
  BY <1>1, <1>2, CountAgrees
<1>5. ScopesUpTo(v, Len(w) + 1) =
        ScopesUpTo(v, Len(w)) + (IF c.part \in {"scope", "catch"} THEN 1 ELSE 0)
  <2>1. Len(w) + 1 \in Nat \ {0} /\ (Len(w) + 1) - 1 = Len(w)
    BY <1>1
  <2> QED
    BY <1>2, <2>1, CountNext
<1> QED
  BY <1>1, <1>2, <1>3, <1>4, <1>5 DEF v

LEMMA EmptyNesting == <<>> \in Nestings /\ Linear(<<>>) /\ ScopesUpTo(<<>>, Len(<<>>)) = 0
<1> DEFINE empty == <<>>
<1>1. empty \in Seq(Constructs) /\ Len(empty) = 0
  OBVIOUS
<1> HIDE DEF empty
<1>2. Len(empty) <= MaxNesting
  BY <1>1, FrameAssumption DEF FrameAssumption
<1>3. empty \in Nestings
  BY <1>1, <1>2, NestingsAreSequences
<1>4. Linear(empty)
  BY <1>1 DEF Linear
<1>5. ScopesUpTo(empty, Len(empty)) = 0
  BY <1>1, CountNone
<1> QED
  BY <1>3, <1>4, <1>5 DEF empty

-----------------------------------------------------------------------------
(* The innermost range.                                                    *)

LEMMA TopRange ==
    ASSUME FlowInv, status = "running"
    PROVE  /\ ranges \in Seq(Ranges) /\ Len(ranges) \in Nat \ {0}
           /\ Top = ranges[Len(ranges)] /\ Top \in Ranges
           /\ where \in Nestings /\ Len(where) \in 0..MaxNesting
           /\ Top.at = 0 => Len(ranges) = 1
           /\ Top.at # 0 =>
                /\ Len(ranges) >= 2
                /\ Top.at \in 1..Len(where) /\ IsTry(where[Top.at])
                /\ Top.entry = ScopesUpTo(where, Top.at)
                /\ flow # "suspend"
                /\ flow = "none" => depth >= Top.entry
<1>1. ranges \in Seq(Ranges) /\ ranges # <<>>
  BY DEF FlowInv, TypeOK, RangesNest
<1>2. Len(ranges) \in Nat \ {0} /\ Top = ranges[Len(ranges)] /\ Top \in Ranges
  BY <1>1 DEF Top
<1>3. where \in Nestings /\ where \in Seq(Constructs) /\ Len(where) \in 0..MaxNesting
  BY NestingsAreSequences DEF FlowInv, TypeOK
<1>4. Len(ranges) = 1 => Top.at = 0
  BY <1>2 DEF FlowInv, RangesNest
<1>5. Len(ranges) >= 2 =>
        /\ Top.at \in 1..Len(where) /\ IsTry(where[Top.at])
        /\ Top.entry = ScopesUpTo(where, Top.at)
  BY <1>2 DEF FlowInv, RangesNest
<1>6. ASSUME Len(ranges) >= 2, flow = "none"
      PROVE  depth >= Top.entry
  <2>1. depth = ScopesUpTo(where, Len(where))
    BY <1>6 DEF FlowInv, ScopesBalanced
  <2> QED
    BY <1>3, <1>5, <1>6, <2>1, CountGrows
<1>7. flow = "suspend" => Len(ranges) = 1
  BY DEF FlowInv, ScopesLeft
<1>8. Len(ranges) = 1 \/ Len(ranges) >= 2
  <2>1. \A n \in Nat \ {0} : n = 1 \/ n >= 2
    OBVIOUS
  <2> QED
    BY <1>2, <2>1
<1>9. Len(ranges) >= 2 => Top.at # 0 /\ Len(ranges) # 1
  BY <1>2, <1>5
<1>10. Top.at # 0 => Len(ranges) >= 2
  BY <1>4, <1>8
<1>11. Top.at = 0 => Len(ranges) = 1
  BY <1>8, <1>9
<1>12. Top.at # 0 => flow # "suspend" /\ (flow = "none" => depth >= Top.entry)
  BY <1>6, <1>7, <1>9, <1>10
<1> QED
  BY <1>1, <1>2, <1>3, <1>5, <1>10, <1>11, <1>12

\* When a part has returned: the ranges of the enclosing parts.
LEMMA CallersOfTry ==
    ASSUME FlowInv, status = "running", Top.at # 0
    PROVE  /\ Callers \in Seq(Ranges) /\ Len(Callers) = Len(ranges) - 1
           /\ \A k \in 1..(Len(ranges) - 1) :
                Callers[k] = ranges[k] /\ ranges[k].at < Top.at
           /\ Outside(where, Top.at) \in Nestings
           /\ Len(Outside(where, Top.at)) = Top.at - 1
           /\ \A i \in 1..(Top.at - 1) : Outside(where, Top.at)[i] = where[i]
           /\ \A n \in 0..(Top.at - 1) :
                ScopesUpTo(Outside(where, Top.at), n) = ScopesUpTo(where, n)
           /\ ScopesUpTo(where, Top.at - 1) \in 0..(Top.at - 1)
           /\ ScopesUpTo(where, Top.at) = ScopesUpTo(where, Top.at - 1) +
                (IF where[Top.at].part = "catch" THEN 1 ELSE 0)
<1>1. /\ ranges \in Seq(Ranges) /\ Len(ranges) \in Nat \ {0}
      /\ Top = ranges[Len(ranges)] /\ Top \in Ranges
      /\ where \in Nestings /\ Len(where) \in 0..MaxNesting
      /\ Top.at \in 1..Len(where) /\ IsTry(where[Top.at])
  BY TopRange
<1>2. Len(ranges) - 1 \in 0..Len(ranges)
  BY <1>1
<1>3. /\ Callers \in Seq(Ranges) /\ Len(Callers) = Len(ranges) - 1
      /\ \A k \in 1..(Len(ranges) - 1) : Callers[k] = ranges[k]
  BY <1>1, <1>2, Prefix DEF Callers
<1>4. \A k \in 1..(Len(ranges) - 1) : ranges[k].at < Top.at
  BY <1>1 DEF FlowInv, RangesNest
<1>5. Top.at - 1 \in 0..Len(where) /\ Top.at - 1 \in Nat /\ Top.at \in Nat \ {0}
  BY <1>1, FrameAssumption DEF FrameAssumption
<1>6. /\ Outside(where, Top.at) \in Nestings
      /\ Len(Outside(where, Top.at)) = Top.at - 1
      /\ \A i \in 1..(Top.at - 1) : Outside(where, Top.at)[i] = where[i]
      /\ \A n \in 0..(Top.at - 1) :
           ScopesUpTo(Outside(where, Top.at), n) = ScopesUpTo(where, n)
  BY <1>1, <1>5, Shorter DEF Outside
<1>7. ScopesUpTo(where, Top.at - 1) \in 0..(Top.at - 1)
  BY <1>5, CountType
<1>8. ScopesUpTo(where, Top.at) = ScopesUpTo(where, Top.at - 1) +
        (IF where[Top.at].part \in {"scope", "catch"} THEN 1 ELSE 0)
  BY <1>5, CountNext
<1> QED
  BY <1>1, <1>3, <1>4, <1>6, <1>7, <1>8 DEF IsTry

\* The statement is left: the enclosing range is the innermost one.
LEMMA Left ==
    ASSUME FlowInv, status = "running", status' = status, Top.at # 0,
           ranges' = Callers, where' = Outside(where, Top.at)
    PROVE  /\ RangesNest'
           /\ ranges' \in Seq(Ranges) /\ where' \in Nestings
           /\ ScopesUpTo(where', Len(where')) = ScopesUpTo(where, Top.at - 1)
           /\ Top' \in Ranges
           /\ Top'.at # 0 => Top'.entry <= ScopesUpTo(where, Top.at - 1)
<1> DEFINE m == Len(ranges) - 1
<1>1. /\ ranges' \in Seq(Ranges) /\ Len(ranges') = m
      /\ \A k \in 1..m : ranges'[k] = ranges[k] /\ ranges[k].at < Top.at
      /\ where' \in Nestings /\ Len(where') = Top.at - 1
      /\ \A i \in 1..(Top.at - 1) : where'[i] = where[i]
      /\ \A n \in 0..(Top.at - 1) : ScopesUpTo(where', n) = ScopesUpTo(where, n)
  BY CallersOfTry
<1>2. /\ Len(ranges) \in Nat /\ m \in Nat \ {0} /\ Len(ranges) = m + 1
      /\ Top = ranges[m + 1] /\ Top.at \in 1..Len(where) /\ Len(where) \in Nat
  BY TopRange, FrameAssumption DEF FrameAssumption
<1> HIDE DEF m
<1>3. ranges' # <<>> /\ ranges'[1].at = 0
  BY <1>1, <1>2 DEF FlowInv, RangesNest
<1>4. ASSUME NEW k \in 2..m
      PROVE  /\ ranges'[k].at \in 1..Len(where') /\ IsTry(where'[ranges'[k].at])
             /\ ranges'[k].entry = ScopesUpTo(where', ranges'[k].at)
             /\ ranges'[k].entry <= ScopesUpTo(where, Top.at - 1)
  <2>1. /\ ranges[k].at \in 1..Len(where) /\ IsTry(where[ranges[k].at])
        /\ ranges[k].entry = ScopesUpTo(where, ranges[k].at)
    BY <1>2, <1>4 DEF FlowInv, RangesNest
  <2>2. ranges'[k] = ranges[k] /\ ranges[k].at \in 1..(Top.at - 1) /\ Top.at - 1 \in Nat
    BY <1>1, <1>2, <1>4, <2>1
  <2>3. ScopesUpTo(where, ranges[k].at) <= ScopesUpTo(where, Top.at - 1)
    BY <2>2, CountGrows
  <2> QED
    BY <1>1, <2>1, <2>2, <2>3
<1>5. \A j, k \in 1..m : j < k => ranges'[j].at < ranges'[k].at
  BY <1>1, <1>2 DEF FlowInv, RangesNest
<1>6. ASSUME NEW i \in 1..Len(where'), IsTry(where'[i])
      PROVE  \E k \in 2..m : ranges'[k].at = i
  <2>1. i \in 1..Len(where) /\ i < Top.at /\ IsTry(where[i])
    BY <1>1, <1>2, <1>6
  <2>2. PICK k \in 2..(m + 1) : ranges[k].at = i
    BY <1>2, <2>1 DEF FlowInv, RangesNest
  <2>3. k # m + 1
    BY <1>2, <2>1, <2>2
  <2>4. k \in 2..m /\ k \in 1..m
    BY <1>2, <2>3
  <2>5. ranges'[k].at = i
    BY <1>1, <2>2, <2>4
  <2> QED
    BY <2>4, <2>5
<1>7. RangesNest'
  BY <1>1, <1>3, <1>4, <1>5, <1>6 DEF RangesNest
<1>8. Top' = ranges'[m] /\ Top' \in Ranges
  BY <1>1, <1>2 DEF Top
<1>9. Top'.at # 0 => Top'.entry <= ScopesUpTo(where, Top.at - 1)
  <2>1. m = 1 => Top'.at = 0
    BY <1>3, <1>8
  <2>2. m >= 2 => m \in 2..m
    BY <1>2
  <2> QED
    BY <1>2, <1>4, <1>8, <2>1, <2>2
<1> QED
  BY <1>1, <1>2, <1>7, <1>8, <1>9

\* Control moves to another part of the statement, which gets a range of its own.
LEMMA Moved ==
    ASSUME FlowInv, status = "running", status' = status, Top.at # 0,
           NEW part \in {"catch", "finally"}, NEW interrupted \in Completion,
           NEW e, e = ScopesUpTo(where, Top.at - 1) + (IF part = "catch" THEN 1 ELSE 0),
           ranges' = Append(Callers, Activation(Top.at, e, interrupted)),
           where' = Enters(where, Top.at, part)
    PROVE  /\ RangesNest'
           /\ ranges' \in Seq(Ranges) /\ where' \in Nestings
           /\ ScopesUpTo(where', Len(where')) = e
           /\ e \in 0..MaxNesting
<1> DEFINE m == Len(ranges) - 1
           outside == Outside(where, Top.at)
           construct == [where[Top.at] EXCEPT !.part = part]
<1>1. /\ Callers \in Seq(Ranges) /\ Len(Callers) = m
      /\ \A k \in 1..m : Callers[k] = ranges[k] /\ ranges[k].at < Top.at
      /\ outside \in Nestings /\ Len(outside) = Top.at - 1
      /\ \A i \in 1..(Top.at - 1) : outside[i] = where[i]
      /\ \A n \in 0..(Top.at - 1) : ScopesUpTo(outside, n) = ScopesUpTo(where, n)
      /\ ScopesUpTo(where, Top.at - 1) \in 0..(Top.at - 1)
  BY CallersOfTry
<1>2. /\ Len(ranges) \in Nat /\ m \in Nat \ {0} /\ Len(ranges) = m + 1
      /\ Top = ranges[m + 1] /\ Top.at \in 1..Len(where) /\ Len(where) \in 0..MaxNesting
      /\ where \in Nestings /\ MaxNesting \in Nat
  BY TopRange, FrameAssumption DEF FrameAssumption
<1>3. construct \in Constructs /\ construct.part = part
  <2>1. where \in Seq(Constructs)
    BY <1>2, NestingsAreSequences
  <2>2. where[Top.at] \in Constructs
    BY <1>2, <2>1
  <2> QED
    BY <2>2 DEF Constructs
<1>4. e \in 0..MaxNesting
  BY <1>1, <1>2
<1> DEFINE new == Activation(Top.at, e, interrupted)
<1>5. new \in Ranges /\ new.at = Top.at /\ new.entry = e
  BY <1>2, <1>4 DEF Activation, Ranges
<1> HIDE DEF m, outside, construct, new
<1>6. /\ where' \in Nestings /\ Len(where') = Top.at
      /\ \A i \in 1..(Top.at - 1) : where'[i] = where[i]
      /\ where'[Top.at] = construct
      /\ \A n \in 0..(Top.at - 1) : ScopesUpTo(where', n) = ScopesUpTo(where, n)
      /\ ScopesUpTo(where', Top.at) = e
  <2>1. where' = Append(outside, construct)
    BY DEF Enters, outside, construct
  <2>2. Len(outside) < MaxNesting /\ Top.at - 1 \in 0..(Top.at - 1)
    BY <1>1, <1>2
  <2>3. /\ where' \in Nestings /\ Len(where') = Len(outside) + 1
        /\ \A i \in 1..Len(outside) : where'[i] = outside[i]
        /\ where'[Len(outside) + 1] = construct
        /\ \A n \in 0..Len(outside) : ScopesUpTo(where', n) = ScopesUpTo(outside, n)
        /\ ScopesUpTo(where', Len(outside) + 1) = ScopesUpTo(outside, Len(outside)) +
             (IF construct.part \in {"scope", "catch"} THEN 1 ELSE 0)
    BY <1>1, <1>3, <2>1, <2>2, Longer
  <2>4. Len(outside) = Top.at - 1 /\ Len(outside) + 1 = Top.at
    BY <1>1, <1>2
  <2>5. ScopesUpTo(outside, Top.at - 1) = ScopesUpTo(where, Top.at - 1)
    BY <1>1, <2>2
  <2>6. (construct.part \in {"scope", "catch"}) <=> part = "catch"
    BY <1>3
  <2>7. ScopesUpTo(where', Top.at) = e
    BY <2>3, <2>4, <2>5, <2>6
  <2>8. \A i \in 1..(Top.at - 1) : where'[i] = where[i]
    BY <1>1, <2>3, <2>4
  <2>9. \A n \in 0..(Top.at - 1) : ScopesUpTo(where', n) = ScopesUpTo(where, n)
    BY <1>1, <2>3, <2>4
  <2> QED
    BY <2>3, <2>4, <2>7, <2>8, <2>9
<1>7. /\ ranges' \in Seq(Ranges) /\ Len(ranges') = m + 1
      /\ \A k \in 1..m : ranges'[k] = ranges[k] /\ ranges[k].at < Top.at
      /\ ranges'[m + 1] = new
  <2>1. ranges' = Append(Callers, new)
    BY DEF new
  <2> QED
    BY <1>1, <1>2, <1>5, <2>1, AppendProperties
<1>8. ranges' # <<>> /\ ranges'[1].at = 0
  BY <1>2, <1>7 DEF FlowInv, RangesNest
<1>9. ASSUME NEW k \in 2..(m + 1)
      PROVE  /\ ranges'[k].at \in 1..Len(where') /\ IsTry(where'[ranges'[k].at])
             /\ ranges'[k].entry = ScopesUpTo(where', ranges'[k].at)
  <2>1. CASE k = m + 1
    BY <1>2, <1>3, <1>5, <1>6, <1>7, <2>1 DEF IsTry
  <2>2. CASE k \in 2..m
    <3>1. /\ ranges[k].at \in 1..Len(where) /\ IsTry(where[ranges[k].at])
          /\ ranges[k].entry = ScopesUpTo(where, ranges[k].at)
      BY <1>2, <2>2 DEF FlowInv, RangesNest
    <3>2. ranges'[k] = ranges[k] /\ ranges[k].at \in 1..(Top.at - 1)
      BY <1>2, <1>7, <2>2, <3>1
    <3>3. ranges[k].at \in 1..Len(where') /\ ranges[k].at \in 0..(Top.at - 1)
      BY <1>2, <1>6, <3>2
    <3>4. /\ where'[ranges[k].at] = where[ranges[k].at]
          /\ ScopesUpTo(where', ranges[k].at) = ScopesUpTo(where, ranges[k].at)
      BY <1>6, <3>2, <3>3
    <3> QED
      BY <3>1, <3>2, <3>3, <3>4
  <2>3. k = m + 1 \/ k \in 2..m
    BY <1>2
  <2> QED
    BY <2>1, <2>2, <2>3
<1>10. \A j, k \in 1..(m + 1) : j < k => ranges'[j].at < ranges'[k].at
  <2> SUFFICES ASSUME NEW j \in 1..(m + 1), NEW k \in 1..(m + 1), j < k
               PROVE  ranges'[j].at < ranges'[k].at
    OBVIOUS
  <2>1. CASE k = m + 1
    BY <1>2, <1>5, <1>7, <2>1
  <2>2. CASE k \in 1..m
    BY <1>2, <1>7, <2>2 DEF FlowInv, RangesNest
  <2>3. k = m + 1 \/ k \in 1..m
    BY <1>2
  <2> QED
    BY <2>1, <2>2, <2>3
<1>11. ASSUME NEW i \in 1..Len(where'), IsTry(where'[i])
       PROVE  \E k \in 2..(m + 1) : ranges'[k].at = i
  <2>1. CASE i = Top.at
    BY <1>2, <1>5, <1>7, <2>1
  <2>2. CASE i \in 1..(Top.at - 1)
    <3>1. i \in 1..Len(where) /\ i < Top.at /\ IsTry(where[i])
      BY <1>2, <1>6, <1>11, <2>2
    <3>2. PICK k \in 2..(m + 1) : ranges[k].at = i
      BY <1>2, <3>1 DEF FlowInv, RangesNest
    <3>3. k # m + 1
      BY <1>2, <3>1, <3>2
    <3>4. k \in 1..m
      BY <1>2, <3>3
    <3>5. ranges'[k].at = i
      BY <1>7, <3>2, <3>4
    <3> QED
      BY <3>2, <3>5
  <2>3. i = Top.at \/ i \in 1..(Top.at - 1)
    BY <1>2, <1>6
  <2> QED
    BY <2>1, <2>2, <2>3
<1> QED
  BY <1>4, <1>6, <1>7, <1>8, <1>9, <1>10, <1>11 DEF RangesNest

-----------------------------------------------------------------------------
(* TryStart, when the range of a part returns.                             *)

LEMMA SavedKept ==
    ASSUME FlowInv, status' = status, status = "running", UNCHANGED saved
    PROVE  SavedFlat'
BY DEF FlowInv, SavedFlat, Linear

LEMMA PassUpInv ==
    ASSUME FlowInv, status = "running", Top.at # 0, flow \in {"error", "fatal"},
           NEW d \in 0..MaxNesting, d >= ScopesUpTo(where, Top.at - 1), PassUp(d)
    PROVE  FlowInv'
<1>1. /\ ranges' = Callers /\ where' = Outside(where, Top.at) /\ depth' = d
      /\ UNCHANGED <<kind, flow, status, saved, failed>>
  BY DEF PassUp
<1>2. /\ RangesNest' /\ ranges' \in Seq(Ranges) /\ where' \in Nestings
      /\ Top' \in Ranges /\ (Top'.at # 0 => Top'.entry <= ScopesUpTo(where, Top.at - 1))
  BY <1>1, Left
<1>3. TypeOK'
  BY <1>1, <1>2 DEF FlowInv, TypeOK
<1>4. ScopesBalanced' /\ SavedFlat'
  BY <1>1, SavedKept DEF ScopesBalanced
<1>5. ScopesLeft'
  <2>1. ScopesUpTo(where, Top.at - 1) \in Int /\ Top'.entry \in Int
    BY <1>2, CallersOfTry DEF Ranges
  <2>2. Top'.at # 0 => depth' >= Top'.entry
    BY <1>1, <1>2, <2>1
  <2>3. flow' \in {"error", "fatal"}
    BY <1>1
  <2> QED
    BY <2>2, <2>3 DEF ScopesLeft, Completion
<1> QED
  BY <1>2, <1>3, <1>4, <1>5 DEF FlowInv

LEMMA EndTryInv ==
    ASSUME FlowInv, status = "running", Top.at # 0, NEW result \in Completion,
           NEW d, d = ScopesUpTo(where, Top.at - 1), EndTry(result, d)
    PROVE  FlowInv'
<1>1. /\ ranges' = Callers /\ where' = Outside(where, Top.at)
      /\ UNCHANGED <<kind, status, saved, failed>>
  BY DEF EndTry
<1>2. /\ RangesNest' /\ ranges' \in Seq(Ranges) /\ where' \in Nestings
      /\ ScopesUpTo(where', Len(where')) = d
      /\ Top' \in Ranges /\ (Top'.at # 0 => Top'.entry <= d)
  BY <1>1, Left
<1>3. d \in 0..MaxNesting
  <2>1. d \in 0..(Top.at - 1) /\ Top.at \in 1..Len(where) /\ Len(where) \in 0..MaxNesting
    BY CallersOfTry, TopRange
  <2> QED
    BY <2>1, FrameAssumption DEF FrameAssumption
<1>4. Top'.entry \in 0..MaxNesting /\ Top' = Callers[Len(Callers)]
  BY <1>1, <1>2 DEF Ranges, Top
<1>5. SavedFlat'
  BY <1>1, SavedKept
<1>6. CASE result = "value"
  <2>1. flow' = "none" /\ depth' = d
    BY <1>6 DEF EndTry
  <2>2. TypeOK'
    BY <1>1, <1>2, <1>3, <2>1 DEF FlowInv, TypeOK
  <2>3. ScopesBalanced' /\ ScopesLeft'
    BY <1>2, <2>1 DEF ScopesBalanced, ScopesLeft
  <2> QED
    BY <1>2, <1>5, <2>2, <2>3 DEF FlowInv
<1>7. CASE result # "value"
  <2>1. flow' = result /\ depth' = Smaller(d, Top'.entry)
    BY <1>4, <1>7 DEF EndTry
  <2>2. depth' \in 0..MaxNesting /\ (Top'.at # 0 => depth' = Top'.entry)
    BY <1>2, <1>3, <1>4, <2>1 DEF Smaller
  <2>3. TypeOK'
    BY <1>1, <1>2, <2>1, <2>2 DEF FlowInv, TypeOK, Flows
  <2>4. ScopesBalanced' /\ ScopesLeft'
    BY <2>1, <2>2 DEF ScopesBalanced, ScopesLeft, Completion
  <2> QED
    BY <1>2, <1>5, <2>3, <2>4 DEF FlowInv
<1> QED
  BY <1>6, <1>7

LEMMA EnterPartInv ==
    ASSUME FlowInv, status = "running", Top.at # 0,
           NEW d, d = ScopesUpTo(where, Top.at - 1),
           \/ EnterCatch(d)
           \/ \E result \in Completion : EnterFinally(result, d)
    PROVE  FlowInv'
<1>1. PICK part \in {"catch", "finally"}, interrupted \in Completion :
        /\ ranges' = Append(Callers, Activation(Top.at, depth', interrupted))
        /\ depth' = d + (IF part = "catch" THEN 1 ELSE 0)
        /\ where' = Enters(where, Top.at, part)
  <2>1. d \in Nat
    BY CallersOfTry
  <2>2. CASE EnterCatch(d)
    BY <2>2 DEF EnterCatch, Completion
  <2>3. CASE \E result \in Completion : EnterFinally(result, d)
    BY <2>1, <2>3 DEF EnterFinally
  <2> QED
    BY <2>2, <2>3
<1>2. flow' = "none" /\ UNCHANGED <<kind, status, saved, failed>>
  BY DEF EnterCatch, EnterFinally
<1>3. /\ RangesNest' /\ ranges' \in Seq(Ranges) /\ where' \in Nestings
      /\ ScopesUpTo(where', Len(where')) = depth' /\ depth' \in 0..MaxNesting
  BY <1>1, <1>2, Moved
<1>4. TypeOK'
  BY <1>2, <1>3 DEF FlowInv, TypeOK
<1>5. ScopesBalanced' /\ ScopesLeft' /\ SavedFlat'
  BY <1>2, <1>3, SavedKept DEF ScopesBalanced, ScopesLeft
<1> QED
  BY <1>3, <1>4, <1>5 DEF FlowInv

\* The part that returned, and the depth that its way of returning left.
LEMMA ReturnedPart ==
    ASSUME FlowInv, NEW part, Returned(part)
    PROVE  /\ status = "running" /\ flow # "none" /\ Top.at # 0
           /\ where[Top.at].part = part
           /\ flow \in Completion \cup {"error", "fatal"}
           /\ depth \in 0..MaxNesting /\ Top.entry \in 0..MaxNesting
           /\ flow \in Completion => depth = Top.entry
           /\ flow \in {"error", "fatal"} => depth >= Top.entry
           /\ ScopesUpTo(where, Top.at - 1) \in 0..MaxNesting
           /\ Top.entry = ScopesUpTo(where, Top.at - 1) +
                (IF part = "catch" THEN 1 ELSE 0)
<1>1. status = "running" /\ flow # "none" /\ Top.at # 0 /\ where[Top.at].part = part
  BY DEF Returned
<1>2. /\ flow # "suspend" /\ Top \in Ranges /\ Top.entry = ScopesUpTo(where, Top.at)
      /\ Top.at \in 1..Len(where) /\ Len(where) \in 0..MaxNesting
  BY <1>1, TopRange
<1>3. flow \in Completion \cup {"error", "fatal"} /\ depth \in 0..MaxNesting
  BY <1>1, <1>2 DEF FlowInv, TypeOK, Flows
<1>4. Top.entry \in 0..MaxNesting
  BY <1>2 DEF Ranges
<1>5. /\ ScopesUpTo(where, Top.at - 1) \in 0..(Top.at - 1)
      /\ Top.entry = ScopesUpTo(where, Top.at - 1) + (IF part = "catch" THEN 1 ELSE 0)
  BY <1>1, <1>2, CallersOfTry
<1>6. ScopesUpTo(where, Top.at - 1) \in 0..MaxNesting
  BY <1>2, <1>5, FrameAssumption DEF FrameAssumption
<1>7. /\ flow \in Completion => depth = Top.entry
      /\ flow \in {"error", "fatal"} => depth >= Top.entry
  BY <1>1 DEF FlowInv, ScopesLeft
<1> QED
  BY <1>1, <1>3, <1>4, <1>5, <1>6, <1>7

LEMMA FinallyOrEndInv ==
    ASSUME FlowInv, status = "running", Top.at # 0, NEW result \in Completion,
           NEW d, d = ScopesUpTo(where, Top.at - 1), FinallyOrEnd(result, d)
    PROVE  FlowInv'
BY EndTryInv, EnterPartInv DEF FinallyOrEnd

LEMMA BodyReturnedInv ==
    ASSUME FlowInv, BodyReturned
    PROVE  FlowInv'
<1> DEFINE result == IF flow = "error" THEN "throw" ELSE flow
           d == IF flow \in {"error", "fatal"} THEN Smaller(depth, Top.entry) ELSE depth
<1>1. /\ \/ result \in {"fatal", "suspend"} /\ PassUp(d)
         \/ result = "throw" /\ where[Top.at].handler /\ EnterCatch(d)
         \/ result = "throw" /\ ~where[Top.at].handler /\ FinallyOrEnd(result, d)
         \/ result \in {"value", "return"} /\ FinallyOrEnd(result, d)
      /\ Returned("body")
  BY DEF BodyReturned
<1>2. d = ScopesUpTo(where, Top.at - 1) /\ d \in 0..MaxNesting
  BY <1>1, ReturnedPart DEF Smaller
<1>3. /\ status = "running" /\ Top.at # 0
      /\ flow \in Completion \cup {"error", "fatal"}
  BY <1>1, ReturnedPart
<1>4. result \in Completion \/ (result = "fatal" /\ flow = "fatal")
  BY <1>3 DEF Completion
<1> HIDE DEF d
<1>5. CASE result \in {"fatal", "suspend"} /\ PassUp(d)
  <2>1. flow = "fatal"
    BY <1>4, <1>5 DEF Completion
  <2>2. d >= ScopesUpTo(where, Top.at - 1)
    BY <1>2
  <2> QED
    BY <1>2, <1>3, <1>5, <2>1, <2>2, PassUpInv
<1>6. CASE result = "throw" /\ where[Top.at].handler /\ EnterCatch(d)
  BY <1>2, <1>3, <1>6, EnterPartInv
<1>7. CASE result \in {"throw", "value", "return"} /\ FinallyOrEnd(result, d)
  <2>1. result \in Completion
    BY <1>7 DEF Completion
  <2> HIDE DEF result
  <2> QED
    BY <1>2, <1>3, <1>7, <2>1, FinallyOrEndInv
<1> QED
  BY <1>1, <1>5, <1>6, <1>7

LEMMA CatchReturnedInv ==
    ASSUME FlowInv, CatchReturned
    PROVE  FlowInv'
<1>1. /\ Returned("catch")
      /\ \/ flow \in {"error", "fatal", "suspend"} /\ PassUp(depth - 1)
         \/ flow \in Completion /\ FinallyOrEnd(flow, depth - 1)
  BY DEF CatchReturned
<1>2. /\ status = "running" /\ Top.at # 0
      /\ flow \in Completion \cup {"error", "fatal"}
      /\ depth \in 0..MaxNesting /\ ScopesUpTo(where, Top.at - 1) \in 0..MaxNesting
      /\ Top.entry = ScopesUpTo(where, Top.at - 1) + 1
      /\ flow \in Completion => depth = Top.entry
      /\ flow \in {"error", "fatal"} => depth >= Top.entry
  BY <1>1, ReturnedPart
<1>3. CASE flow \in {"error", "fatal", "suspend"} /\ PassUp(depth - 1)
  <2>1. flow \in {"error", "fatal"}
    BY <1>2, <1>3 DEF Completion
  <2>2. depth - 1 \in 0..MaxNesting /\ depth - 1 >= ScopesUpTo(where, Top.at - 1)
    BY <1>2, <2>1, FrameAssumption DEF FrameAssumption
  <2> QED
    BY <1>2, <1>3, <2>1, <2>2, PassUpInv
<1>4. CASE flow \in Completion /\ FinallyOrEnd(flow, depth - 1)
  <2>1. depth - 1 = ScopesUpTo(where, Top.at - 1)
    BY <1>2, <1>4
  <2> QED
    BY <1>2, <1>4, <2>1, FinallyOrEndInv
<1> QED
  BY <1>1, <1>3, <1>4

LEMMA FinallyReturnedInv ==
    ASSUME FlowInv, FinallyReturned
    PROVE  FlowInv'
<1>1. /\ Returned("finally")
      /\ \/ flow \in {"error", "fatal", "suspend"} /\ PassUp(depth)
         \/ flow = "value" /\ EndTry(Top.pending, depth)
         \/ flow \in {"return", "throw"} /\ EndTry(flow, depth)
  BY DEF FinallyReturned
<1>2. /\ status = "running" /\ Top.at # 0
      /\ flow \in Completion \cup {"error", "fatal"}
      /\ depth \in 0..MaxNesting /\ ScopesUpTo(where, Top.at - 1) \in 0..MaxNesting
      /\ Top.entry = ScopesUpTo(where, Top.at - 1)
      /\ flow \in Completion => depth = Top.entry
      /\ flow \in {"error", "fatal"} => depth >= Top.entry
  BY <1>1, ReturnedPart
<1>3. CASE flow \in {"error", "fatal", "suspend"} /\ PassUp(depth)
  <2>1. flow \in {"error", "fatal"}
    BY <1>2, <1>3 DEF Completion
  <2>2. depth >= ScopesUpTo(where, Top.at - 1)
    BY <1>2, <2>1
  <2> QED
    BY <1>2, <1>3, <2>1, <2>2, PassUpInv
<1>4. CASE flow = "value" /\ EndTry(Top.pending, depth)
  <2>1. Top.pending \in Completion
    BY <1>2, TopRange DEF Ranges
  <2>2. depth = ScopesUpTo(where, Top.at - 1)
    BY <1>2, <1>4 DEF Completion
  <2> QED
    BY <1>2, <1>4, <2>1, <2>2, EndTryInv
<1>5. CASE flow \in {"return", "throw"} /\ EndTry(flow, depth)
  <2>1. flow \in Completion /\ depth = ScopesUpTo(where, Top.at - 1)
    BY <1>2, <1>5 DEF Completion
  <2> QED
    BY <1>2, <1>5, <2>1, EndTryInv
<1> QED
  BY <1>1, <1>3, <1>4, <1>5

-----------------------------------------------------------------------------
(* Instructions.                                                           *)

LEMMA FinishFlowInv ==
    ASSUME FlowInv, Executes, NEW result \in Completion, FinishFlow(result)
    PROVE  FlowInv'
<1>1. /\ status = "running" /\ flow' = result /\ depth' = Smaller(depth, Top.entry)
      /\ UNCHANGED <<kind, where, ranges, status, saved, failed>>
  BY DEF Executes, FinishFlow
<1>2. /\ Top \in Ranges /\ depth \in 0..MaxNesting
      /\ Top.at # 0 => depth >= Top.entry
  BY TopRange DEF Executes, FlowInv, TypeOK
<1>3. Top.entry \in 0..MaxNesting
  BY <1>2 DEF Ranges
<1>4. depth' \in 0..MaxNesting /\ (Top.at # 0 => depth' = Top.entry) /\ Top' = Top
  BY <1>1, <1>2, <1>3 DEF Smaller, Top
<1>5. TypeOK'
  BY <1>1, <1>4 DEF FlowInv, TypeOK, Flows
<1>6. RangesNest' /\ SavedFlat'
  BY <1>1, SavedKept DEF FlowInv, RangesNest
<1>7. ScopesBalanced' /\ ScopesLeft'
  BY <1>1, <1>4 DEF ScopesBalanced, ScopesLeft, Completion
<1> QED
  BY <1>5, <1>6, <1>7 DEF FlowInv

LEMMA EnterScopeInv ==
    ASSUME FlowInv, EnterScope
    PROVE  FlowInv'
<1>1. /\ status = "running" /\ flow = "none" /\ Len(where) < MaxNesting
      /\ where' = Append(where, Block) /\ depth' = depth + 1
      /\ UNCHANGED <<kind, ranges, flow, status, saved, failed>>
  BY DEF EnterScope, Executes
<1>2. Block \in Constructs /\ Block.part = "scope" /\ where \in Nestings
  BY DEF Block, Constructs, FlowInv, TypeOK
<1>3. /\ where' \in Nestings /\ Len(where') = Len(where) + 1 /\ Len(where) \in Nat
      /\ \A i \in 1..Len(where) : where'[i] = where[i]
      /\ where'[Len(where) + 1].part = "scope"
      /\ \A m \in 0..Len(where) : ScopesUpTo(where', m) = ScopesUpTo(where, m)
      /\ ScopesUpTo(where', Len(where')) = ScopesUpTo(where, Len(where)) + 1
  BY <1>1, <1>2, Longer
<1>4. depth = ScopesUpTo(where, Len(where)) /\ depth \in 0..Len(where)
  BY <1>1, <1>3, CountType DEF FlowInv, ScopesBalanced
<1>5. depth' \in 0..MaxNesting /\ ScopesBalanced'
  BY <1>1, <1>3, <1>4, FrameAssumption DEF ScopesBalanced, FrameAssumption
<1>6. TypeOK'
  BY <1>1, <1>3, <1>5 DEF FlowInv, TypeOK
<1>7. RangesNest'
  <2>1. ASSUME NEW k \in 2..Len(ranges)
        PROVE  /\ ranges[k].at \in 1..Len(where') /\ IsTry(where'[ranges[k].at])
               /\ ranges[k].entry = ScopesUpTo(where', ranges[k].at)
    <3>1. /\ ranges[k].at \in 1..Len(where) /\ IsTry(where[ranges[k].at])
          /\ ranges[k].entry = ScopesUpTo(where, ranges[k].at)
      BY <1>1 DEF FlowInv, RangesNest
    <3>2. ranges[k].at \in 0..Len(where) /\ ranges[k].at \in 1..Len(where')
      BY <1>3, <3>1
    <3> QED
      BY <1>3, <3>1, <3>2
  <2>2. ASSUME NEW i \in 1..Len(where'), IsTry(where'[i])
        PROVE  \E k \in 2..Len(ranges) : ranges[k].at = i
    <3>1. i # Len(where) + 1
      BY <1>3, <2>2 DEF IsTry
    <3>2. i \in 1..Len(where)
      BY <1>3, <3>1
    <3> QED
      BY <1>1, <1>3, <2>2, <3>2 DEF FlowInv, RangesNest
  <2> QED
    BY <1>1, <2>1, <2>2 DEF FlowInv, RangesNest
<1>8. ScopesLeft' /\ SavedFlat'
  BY <1>1, SavedKept DEF ScopesLeft
<1> QED
  BY <1>5, <1>6, <1>7, <1>8 DEF FlowInv

LEMMA LeaveScopesInv ==
    ASSUME FlowInv, NEW n \in 0..Len(where), LeaveScopes(n)
    PROVE  FlowInv'
<1>1. /\ status = "running" /\ flow = "none" /\ n < Len(where)
      /\ \A j \in (n + 1)..Len(where) : where[j].part = "scope"
      /\ where' = SubSeq(where, 1, n) /\ depth' = depth - (Len(where) - n)
      /\ UNCHANGED <<kind, ranges, flow, status, saved, failed>>
  BY DEF LeaveScopes, Executes, IsTry
<1>2. where \in Nestings /\ Len(where) \in Nat /\ Len(where) <= MaxNesting
  BY NestingsAreSequences DEF FlowInv, TypeOK
<1>3. /\ where' \in Nestings /\ Len(where') = n
      /\ \A i \in 1..n : where'[i] = where[i]
      /\ \A m \in 0..n : ScopesUpTo(where', m) = ScopesUpTo(where, m)
  BY <1>1, <1>2, Shorter
<1>4. ScopesUpTo(where, Len(where)) = ScopesUpTo(where, n) + (Len(where) - n)
  BY <1>1, <1>2, CountBlocks
<1>5. ScopesUpTo(where, n) \in 0..n /\ depth = ScopesUpTo(where, Len(where))
  <2>1. n \in Nat
    BY <1>2
  <2> QED
    BY <1>1, <2>1, CountType DEF FlowInv, ScopesBalanced
<1>6. depth' = ScopesUpTo(where, n) /\ depth' \in 0..MaxNesting
  BY <1>1, <1>2, <1>4, <1>5, FrameAssumption DEF FrameAssumption
<1>7. TypeOK' /\ ScopesBalanced' /\ ScopesLeft' /\ SavedFlat'
  <2>1. ScopesUpTo(where', Len(where')) = ScopesUpTo(where, n)
    BY <1>2, <1>3
  <2> QED
    BY <1>1, <1>3, <1>6, <2>1, SavedKept DEF FlowInv, TypeOK, ScopesBalanced, ScopesLeft
<1>8. RangesNest'
  <2>1. ASSUME NEW k \in 2..Len(ranges)
        PROVE  /\ ranges[k].at \in 1..Len(where') /\ IsTry(where'[ranges[k].at])
               /\ ranges[k].entry = ScopesUpTo(where', ranges[k].at)
    <3>1. /\ ranges[k].at \in 1..Len(where) /\ IsTry(where[ranges[k].at])
          /\ ranges[k].entry = ScopesUpTo(where, ranges[k].at)
      BY <1>1 DEF FlowInv, RangesNest
    <3>2. ranges[k].at \notin (n + 1)..Len(where)
      BY <1>1, <3>1 DEF IsTry
    <3>3. ranges[k].at \in 1..n /\ ranges[k].at \in 0..n
      BY <1>2, <3>1, <3>2
    <3> QED
      BY <1>3, <3>1, <3>3
  <2>2. ASSUME NEW i \in 1..Len(where'), IsTry(where'[i])
        PROVE  \E k \in 2..Len(ranges) : ranges[k].at = i
    <3>1. i \in 1..Len(where) /\ i \in 1..n
      BY <1>2, <1>3
    <3> QED
      BY <1>1, <1>3, <2>2, <3>1 DEF FlowInv, RangesNest
  <2> QED
    BY <1>1, <2>1, <2>2 DEF FlowInv, RangesNest
<1> QED
  BY <1>7, <1>8 DEF FlowInv

LEMMA TryStartInv ==
    ASSUME FlowInv, NEW handler \in BOOLEAN, NEW finalizer \in BOOLEAN,
           TryStart(handler, finalizer)
    PROVE  FlowInv'
<1> DEFINE body == [part |-> "body", handler |-> handler, finalizer |-> finalizer]
           new == Activation(Len(where) + 1, depth, "value")
           m == Len(ranges)
<1>1. /\ status = "running" /\ flow = "none" /\ Len(where) < MaxNesting
      /\ where' = Append(where, body) /\ ranges' = Append(ranges, new)
      /\ UNCHANGED <<kind, depth, flow, status, saved, failed>>
  BY DEF TryStart, Executes
<1>2. body \in Constructs /\ body.part = "body" /\ where \in Nestings
  BY DEF Constructs, FlowInv, TypeOK
<1>3. /\ where' \in Nestings /\ Len(where') = Len(where) + 1 /\ Len(where) \in Nat
      /\ \A i \in 1..Len(where) : where'[i] = where[i]
      /\ where'[Len(where) + 1] = body
      /\ \A i \in 0..Len(where) : ScopesUpTo(where', i) = ScopesUpTo(where, i)
      /\ ScopesUpTo(where', Len(where) + 1) = ScopesUpTo(where, Len(where))
  <2>1. ScopesUpTo(where, Len(where)) \in 0..Len(where) /\ Len(where) \in Nat
    BY <1>1, <1>2, Longer, CountType
  <2> HIDE DEF body
  <2> QED
    BY <1>1, <1>2, <2>1, Longer
<1>4. depth = ScopesUpTo(where, Len(where)) /\ depth \in 0..MaxNesting
  BY <1>1 DEF FlowInv, ScopesBalanced, TypeOK
<1>5. new \in Ranges /\ new.at = Len(where) + 1 /\ new.entry = depth
  BY <1>1, <1>3, <1>4, FrameAssumption DEF Activation, Ranges, Completion, FrameAssumption
<1>6. ranges \in Seq(Ranges) /\ m \in Nat \ {0}
  BY <1>1, TopRange
<1> HIDE DEF body, new, m
<1>7. /\ ranges' \in Seq(Ranges) /\ Len(ranges') = m + 1
      /\ \A k \in 1..m : ranges'[k] = ranges[k]
      /\ ranges'[m + 1] = new
  BY <1>1, <1>5, <1>6, AppendProperties DEF m
<1>8. TypeOK' /\ ScopesBalanced' /\ ScopesLeft' /\ SavedFlat'
  BY <1>1, <1>3, <1>4, <1>7, SavedKept DEF FlowInv, TypeOK, ScopesBalanced, ScopesLeft
<1>9. \A k \in 1..m : ranges[k].at \in 0..Len(where)
  <2>1. ranges[1].at = 0
    BY <1>1 DEF FlowInv, RangesNest
  <2>2. \A k \in 2..m : ranges[k].at \in 1..Len(where)
    BY <1>1 DEF FlowInv, RangesNest, m
  <2>3. \A k \in 1..m : k = 1 \/ k \in 2..m
    BY <1>6
  <2> QED
    BY <1>3, <2>1, <2>2, <2>3
<1>10. RangesNest'
  <2>1. ranges' # <<>> /\ ranges'[1].at = 0
    BY <1>1, <1>6, <1>7 DEF FlowInv, RangesNest
  <2>2. ASSUME NEW k \in 2..(m + 1)
        PROVE  /\ ranges'[k].at \in 1..Len(where') /\ IsTry(where'[ranges'[k].at])
               /\ ranges'[k].entry = ScopesUpTo(where', ranges'[k].at)
    <3>1. CASE k = m + 1
      BY <1>2, <1>3, <1>4, <1>5, <1>7, <3>1 DEF IsTry
    <3>2. CASE k \in 2..m
      <4>1. /\ ranges[k].at \in 1..Len(where) /\ IsTry(where[ranges[k].at])
            /\ ranges[k].entry = ScopesUpTo(where, ranges[k].at)
        BY <1>1, <3>2 DEF FlowInv, RangesNest, m
      <4>2. ranges'[k] = ranges[k]
        BY <1>6, <1>7, <3>2
      <4>3. ranges[k].at \in 0..Len(where) /\ ranges[k].at \in 1..Len(where')
        BY <1>3, <4>1
      <4> QED
        BY <1>3, <4>1, <4>2, <4>3
    <3>3. k = m + 1 \/ k \in 2..m
      BY <1>6
    <3> QED
      BY <3>1, <3>2, <3>3
  <2>3. ASSUME NEW j \in 1..(m + 1), NEW k \in 1..(m + 1), j < k
        PROVE  ranges'[j].at < ranges'[k].at
    <3>1. j \in 1..m /\ (k = m + 1 \/ k \in 1..m)
      BY <1>6, <2>3
    <3>2. CASE k = m + 1
      BY <1>3, <1>5, <1>7, <1>9, <3>1, <3>2
    <3>3. CASE k \in 1..m
      BY <1>1, <1>7, <2>3, <3>1, <3>3 DEF FlowInv, RangesNest, m
    <3> QED
      BY <3>1, <3>2, <3>3
  <2>4. ASSUME NEW i \in 1..Len(where'), IsTry(where'[i])
        PROVE  \E k \in 2..(m + 1) : ranges'[k].at = i
    <3>1. CASE i = Len(where) + 1
      <4>1. m + 1 \in 2..(m + 1)
        BY <1>6
      <4> QED
        BY <1>5, <1>7, <3>1, <4>1
    <3>2. CASE i \in 1..Len(where)
      <4>1. PICK k \in 2..m : ranges[k].at = i
        BY <1>1, <1>3, <2>4, <3>2 DEF FlowInv, RangesNest, m
      <4>2. k \in 1..m /\ k \in 2..(m + 1)
        BY <1>6
      <4> QED
        BY <1>7, <4>1, <4>2
    <3>3. i = Len(where) + 1 \/ i \in 1..Len(where)
      BY <1>3
    <3> QED
      BY <3>1, <3>2, <3>3
  <2> QED
    BY <1>1, <1>7, <2>1, <2>2, <2>3, <2>4 DEF RangesNest
<1> QED
  BY <1>8, <1>10 DEF FlowInv

\* An instruction fails, or the frame is suspended: outside of try statements, so
\* that no range but the outermost is on the native stack.
LEMMA FailOrSuspendInv ==
    ASSUME FlowInv, SuspendsInTry = FALSE,
           Suspend \/ \E result \in {"error", "fatal"} : Fail(result)
    PROVE  FlowInv'
<1>1. /\ status = "running" /\ flow = "none" /\ flow' \in {"error", "fatal", "suspend"}
      /\ flow' = "suspend" => ~InTry
      /\ UNCHANGED <<kind, where, depth, ranges, status, saved, failed>>
  BY DEF Suspend, Fail, Executes
<1>2. TypeOK'
  BY <1>1 DEF FlowInv, TypeOK, Flows
<1>3. RangesNest' /\ SavedFlat'
  BY <1>1, SavedKept DEF FlowInv, RangesNest
<1>4. Top' = Top /\ (Top.at # 0 => depth >= Top.entry)
  BY <1>1, TopRange DEF Top
<1>5. ~InTry => Len(ranges) = 1
  <2>1. Top.at # 0 => InTry
    BY <1>1, TopRange DEF InTry
  <2> QED
    BY <1>1, <2>1, TopRange
<1>6. depth = ScopesUpTo(where, Len(where))
  BY <1>1 DEF FlowInv, ScopesBalanced
<1>7. ScopesBalanced' /\ ScopesLeft'
  BY <1>1, <1>4, <1>5, <1>6 DEF ScopesBalanced, ScopesLeft, Completion
<1> QED
  BY <1>2, <1>3, <1>7 DEF FlowInv

-----------------------------------------------------------------------------
(* The frame.                                                              *)

LEMMA SingleRange ==
    ASSUME NEW e \in 0..MaxNesting
    PROVE  LET single == <<Activation(0, e, "value")>>
           IN  single \in Seq(Ranges) /\ Len(single) = 1 /\ single[1].at = 0
<1>1. Activation(0, e, "value") \in Ranges /\ Activation(0, e, "value").at = 0
  BY FrameAssumption DEF Activation, Ranges, Completion, FrameAssumption
<1> QED
  BY <1>1

LEMMA StoppedInv ==
    ASSUME FlowInv, FrameSuspended \/ FrameEnded \/ FrameFailed
    PROVE  FlowInv'
<1>1. /\ status = "running" /\ flow # "none" /\ Top.at = 0
      /\ ranges' = <<>> /\ flow' = "none" /\ kind' = kind
  BY DEF FrameSuspended, FrameEnded, FrameFailed, FrameReturned, Stop
<1>2. ranges' \in Seq(Ranges)
  BY <1>1
<1>3. CASE FrameSuspended
  <2>1. /\ flow = "suspend" /\ status' = "suspended" /\ UNCHANGED <<where, depth, failed>>
        /\ saved' = saved \/ saved' = [where |-> where, depth |-> depth]
    BY <1>3 DEF FrameSuspended
  <2>2. Len(ranges) = 1 /\ depth = ScopesUpTo(where, Len(where))
    BY <1>1, <2>1 DEF FlowInv, ScopesLeft
  <2>3. Linear(where)
    <3>1. ASSUME NEW i \in 1..Len(where), IsTry(where[i])
          PROVE  \E k \in 2..Len(ranges) : ranges[k].at = i
      BY <1>1, <3>1 DEF FlowInv, RangesNest
    <3> QED
      BY <2>2, <3>1 DEF Linear
  <2>4. TypeOK'
    BY <1>1, <1>2, <2>1 DEF FlowInv, TypeOK
  <2>5. SavedFlat'
    BY <1>1, <2>1, <2>2, <2>3 DEF FlowInv, SavedFlat, Linear
  <2> QED
    BY <1>1, <2>1, <2>2, <2>4, <2>5 DEF FlowInv, ScopesBalanced, ScopesLeft, RangesNest
<1>4. CASE FrameEnded \/ (FrameFailed /\ Done)
  <2>1. status' = "done" /\ where' = <<>> /\ depth' = 0 /\ saved' = saved /\ failed' \in BOOLEAN
    BY <1>4 DEF FrameEnded, FrameFailed, Done, FlowInv, TypeOK
  <2>2. TypeOK'
    BY <1>1, <1>2, <2>1, EmptyNesting, FrameAssumption DEF FlowInv, TypeOK, FrameAssumption
  <2>3. SavedFlat'
    BY <2>1 DEF FlowInv, SavedFlat, Linear
  <2> QED
    BY <1>1, <2>1, <2>2, <2>3 DEF FlowInv, ScopesBalanced, ScopesLeft, RangesNest
<1>5. CASE FrameFailed /\ ~Done
  <2>1. /\ status' = "suspended" /\ where' = saved.where /\ depth' = saved.depth
        /\ saved' = saved /\ failed' = TRUE
    BY <1>5 DEF FrameFailed
  <2>2. TypeOK'
    BY <1>1, <1>2, <2>1 DEF FlowInv, TypeOK
  <2>3. SavedFlat' /\ ScopesBalanced'
    BY <1>1, <2>1 DEF FlowInv, SavedFlat, Linear, ScopesBalanced
  <2> QED
    BY <1>1, <2>1, <2>2, <2>3 DEF FlowInv, ScopesLeft, RangesNest
<1> QED
  BY <1>3, <1>4, <1>5

LEMMA ResumeInv ==
    ASSUME FlowInv, Resume
    PROVE  FlowInv'
<1>1. /\ status = "suspended" /\ status' = "running"
      /\ ranges' = <<Activation(0, depth, "value")>>
      /\ UNCHANGED <<kind, where, depth, flow, saved, failed>>
  BY DEF Resume
<1>2. /\ ranges' \in Seq(Ranges) /\ Len(ranges') = 1 /\ ranges'[1].at = 0
  BY <1>1, SingleRange DEF FlowInv, TypeOK
<1>3. flow = "none" /\ Linear(where)
  BY <1>1 DEF FlowInv, SavedFlat
<1>4. TypeOK' /\ ScopesBalanced' /\ SavedFlat'
  BY <1>1, <1>2 DEF FlowInv, TypeOK, ScopesBalanced, SavedFlat, Linear
<1>5. RangesNest'
  BY <1>1, <1>2, <1>3 DEF RangesNest, Linear
<1> QED
  BY <1>1, <1>3, <1>4, <1>5 DEF FlowInv, ScopesLeft

LEMMA AbandonInv ==
    ASSUME FlowInv, Abandon
    PROVE  FlowInv'
<1>1. /\ status' = "done" /\ where' = <<>> /\ depth' = 0
      /\ UNCHANGED <<kind, ranges, flow, failed, saved>>
  BY DEF Abandon, Done
<1>2. TypeOK'
  BY <1>1, EmptyNesting, FrameAssumption DEF FlowInv, TypeOK, FrameAssumption
<1>3. SavedFlat'
  BY <1>1 DEF FlowInv, SavedFlat, Linear
<1> QED
  BY <1>1, <1>2, <1>3 DEF FlowInv, ScopesBalanced, ScopesLeft, RangesNest

LEMMA InitInv == Init => FlowInv
<1> SUFFICES ASSUME Init
             PROVE  FlowInv
  OBVIOUS
<1>1. /\ kind \in FrameKinds /\ where = <<>> /\ depth = 0 /\ flow = "none"
      /\ ranges = <<Activation(0, 0, "value")>> /\ status = "running"
      /\ saved = [where |-> <<>>, depth |-> 0] /\ failed = FALSE
  BY DEF Init
<1>2. ranges \in Seq(Ranges) /\ Len(ranges) = 1 /\ ranges[1].at = 0
  BY <1>1, SingleRange, FrameAssumption DEF FrameAssumption
<1>3. where \in Nestings /\ Linear(where) /\ ScopesUpTo(where, Len(where)) = 0
  BY <1>1, EmptyNesting
<1>4. TypeOK
  <2>1. where \in Nestings /\ depth \in 0..MaxNesting /\ saved = [where |-> where, depth |-> depth]
    BY <1>1, <1>3, FrameAssumption DEF FrameAssumption
  <2>2. saved \in [where : Nestings, depth : 0..MaxNesting]
    BY <2>1
  <2> QED
    BY <1>1, <1>2, <2>1, <2>2 DEF TypeOK
<1>5. SavedFlat
  BY <1>1, <1>3 DEF SavedFlat
<1>6. ScopesBalanced /\ ScopesLeft
  BY <1>1, <1>3 DEF ScopesBalanced, ScopesLeft
<1>7. RangesNest
  BY <1>1, <1>2, <1>3 DEF RangesNest, Linear
<1> QED
  BY <1>4, <1>5, <1>6, <1>7 DEF FlowInv

LEMMA FlowInvKept ==
    ASSUME SuspendsInTry = FALSE, FlowInv, [Next]_vars
    PROVE  FlowInv'
<1>1. CASE EnterScope
  BY <1>1, EnterScopeInv
<1>2. CASE \E n \in 0..Len(where) : LeaveScopes(n)
  BY <1>2, LeaveScopesInv
<1>3. CASE \E handler, finalizer \in BOOLEAN : TryStart(handler, finalizer)
  BY <1>3, TryStartInv
<1>4. CASE EndRange
  BY <1>4, FinishFlowInv DEF EndRange, Completion
<1>5. CASE \E result \in {"return", "throw"} : ReturnOrThrow(result)
  BY <1>5, FinishFlowInv DEF ReturnOrThrow, Completion
<1>6. CASE Suspend \/ \E result \in {"error", "fatal"} : Fail(result)
  BY <1>6, FailOrSuspendInv
<1>7. CASE BodyReturned
  BY <1>7, BodyReturnedInv
<1>8. CASE CatchReturned
  BY <1>8, CatchReturnedInv
<1>9. CASE FinallyReturned
  BY <1>9, FinallyReturnedInv
<1>10. CASE FrameSuspended \/ FrameEnded \/ FrameFailed
  BY <1>10, StoppedInv
<1>11. CASE Resume
  BY <1>11, ResumeInv
<1>12. CASE Abandon
  BY <1>12, AbandonInv
<1>13. CASE UNCHANGED vars
  BY <1>13 DEF vars, FlowInv, TypeOK, RangesNest, ScopesBalanced, ScopesLeft,
     SavedFlat, Linear, Top
<1> QED
  BY <1>1, <1>2, <1>3, <1>4, <1>5, <1>6, <1>7, <1>8, <1>9, <1>10, <1>11, <1>12,
     <1>13 DEF Next

-----------------------------------------------------------------------------
\* In frames that are suspended outside of try statements only, every range on the
\* native stack knows the scopes around its part: the inductive invariant.
THEOREM FlowsCorrect ==
    ASSUME SuspendsInTry = FALSE
    PROVE  Spec => []FlowInv
<1>1. Init => FlowInv
  BY InitInv
<1>2. FlowInv /\ [Next]_vars => FlowInv'
  BY FlowInvKept
<1> QED
  BY <1>1, <1>2, PTL DEF Spec

\* The ranges, flows and depths of such a frame are well typed; in particular no
\* pop_frame and no LeaveScope takes the environment below the function's own scope.
THEOREM FlowTypes ==
    ASSUME SuspendsInTry = FALSE
    PROVE  Spec => []TypeOK
<1>1. FlowInv => TypeOK
  BY DEF FlowInv
<1> QED
  BY <1>1, FlowsCorrect, PTL

\* Whatever returns, throws and errors unwind in such a frame, the instruction that
\* runs next finds the scopes the program text shows around it.
THEOREM ScopesAreBalanced ==
    ASSUME SuspendsInTry = FALSE
    PROVE  Spec => []ScopesBalanced
<1>1. FlowInv => ScopesBalanced
  BY DEF FlowInv
<1> QED
  BY <1>1, FlowsCorrect, PTL

-----------------------------------------------------------------------------
(* The refinement of Completions.                                          *)

LEMMA SequencesEqual ==
    ASSUME NEW S, NEW s \in Seq(S), NEW t \in Seq(S), Len(s) = Len(t),
           \A i \in 1..Len(s) : s[i] = t[i]
    PROVE  s = t
OBVIOUS

LEMMA RangeFields ==
    ASSUME NEW r \in Ranges
    PROVE  r.at \in Nat /\ r.pending \in Completion
<1>1. r.at \in 0..MaxNesting /\ r.pending \in Completion
  BY Zenon DEF Ranges
<1> QED
  BY <1>1, FrameAssumption DEF FrameAssumption

\* The completions that finally parts interrupted are those their ranges keep.
PendingIs ==
    /\ Pending \in Seq(Completion) /\ Len(Pending) = Len(where)
    /\ \A i \in 1..Len(where) : where[i].part # "finally" => Pending[i] = "value"
    /\ status = "running" =>
         \A k \in 2..Len(ranges) :
            where[ranges[k].at].part = "finally" => Pending[ranges[k].at] = ranges[k].pending

LEMMA PendingKnown == FlowInv => PendingIs
<1> SUFFICES ASSUME FlowInv
             PROVE  PendingIs
  OBVIOUS
<1>1. where \in Seq(Constructs) /\ Len(where) \in Nat /\ DOMAIN where = 1..Len(where)
  BY NestingsAreSequences DEF FlowInv, TypeOK
<1>2. ranges \in Seq(Ranges) /\ DOMAIN ranges = 1..Len(ranges) /\ Len(ranges) \in Nat
  BY DEF FlowInv, TypeOK
<1>3. ASSUME NEW i \in 1..Len(where)
      PROVE  Interrupted(i) \in Completion
  <2>1. CASE where[i].part = "finally" /\ \E k \in DOMAIN ranges : ranges[k].at = i
    <3> DEFINE r == CHOOSE r \in {ranges[k] : k \in DOMAIN ranges} : r.at = i
    <3>1. r \in {ranges[k] : k \in DOMAIN ranges}
      BY <2>1
    <3>2. Interrupted(i) = r.pending
      BY <2>1 DEF Interrupted
    <3> HIDE DEF r
    <3>3. r \in Ranges
      BY <1>2, <3>1
    <3> QED
      BY <3>2, <3>3, RangeFields
  <2>2. CASE ~(where[i].part = "finally" /\ \E k \in DOMAIN ranges : ranges[k].at = i)
    BY <2>2 DEF Interrupted, Completion
  <2> QED
    BY <2>1, <2>2
<1>4. Pending \in [1..Len(where) -> Completion]
  BY <1>1, <1>3 DEF Pending
<1>5. Pending \in Seq(Completion) /\ Len(Pending) = Len(where)
  BY <1>1, <1>4
<1>6. \A i \in 1..Len(where) : where[i].part # "finally" => Pending[i] = "value"
  BY <1>1 DEF Pending, Interrupted
<1>7. ASSUME status = "running", NEW k \in 2..Len(ranges), where[ranges[k].at].part = "finally"
      PROVE  Pending[ranges[k].at] = ranges[k].pending
  <2> DEFINE i == ranges[k].at
             r == CHOOSE r \in {ranges[j] : j \in DOMAIN ranges} : r.at = i
  <2>1. i \in 1..Len(where) /\ k \in DOMAIN ranges
    BY <1>2, <1>7 DEF FlowInv, RangesNest
  <2>2. r \in {ranges[j] : j \in DOMAIN ranges} /\ r.at = i
    BY <2>1
  <2>3. PICK j \in DOMAIN ranges : r = ranges[j]
    BY <2>2
  <2> HIDE DEF r
  <2>4. j = k
    <3>1. ranges[j].at = ranges[k].at
      BY <2>2, <2>3
    <3>2. \A m, n \in 1..Len(ranges) : m < n => ranges[m].at < ranges[n].at
      BY <1>7 DEF FlowInv, RangesNest
    <3>3. ranges[j].at \in Nat /\ ranges[k].at \in Nat
      <4>1. ranges[j] \in Ranges /\ ranges[k] \in Ranges
        BY <1>2, <2>1, <2>3
      <4> QED
        BY <4>1, RangeFields
    <3>4. j \in 1..Len(ranges) /\ k \in 1..Len(ranges)
      BY <1>2, <2>1
    <3>5. ~(j < k) /\ ~(k < j)
      BY <3>1, <3>2, <3>3, <3>4
    <3> QED
      BY <1>2, <3>4, <3>5
  <2>5. Interrupted(i) = r.pending
    BY <1>7, <2>1 DEF Interrupted, r
  <2>6. Pending[i] = Interrupted(i)
    BY <1>1, <2>1 DEF Pending
  <2> QED
    BY <2>3, <2>4, <2>5, <2>6
<1> QED
  BY <1>5, <1>6, <1>7 DEF PendingIs

LEMMA PendingKnownNext == FlowInv' => PendingIs'
BY PendingKnown, PTL

\* Up to where the constructs and their ranges stay, so does what is pending.
LEMMA PendingKept ==
    ASSUME FlowInv, FlowInv', status = "running", status' = "running",
           NEW n \in 0..Len(where), n <= Len(where'),
           \A i \in 1..n : where'[i] = where[i],
           \A k \in 2..Len(ranges) :
              ranges[k].at <= n => k <= Len(ranges') /\ ranges'[k] = ranges[k]
    PROVE  /\ Pending \in Seq(Completion) /\ Len(Pending) = Len(where)
           /\ Pending' \in Seq(Completion) /\ Len(Pending') = Len(where')
           /\ Len(where) \in Nat /\ Len(where') \in Nat
           /\ \A i \in 1..n : Pending'[i] = Pending[i]
           /\ \A i \in 1..Len(where') : where'[i].part # "finally" => Pending'[i] = "value"
           /\ \A k \in 2..Len(ranges') :
                where'[ranges'[k].at].part = "finally" =>
                  Pending'[ranges'[k].at] = ranges'[k].pending
<1>1. PendingIs /\ PendingIs'
  BY PendingKnown, PendingKnownNext
<1>2. /\ Len(where) \in Nat /\ Len(where') \in Nat /\ Len(ranges) \in Nat
      /\ Len(ranges') \in Nat
  BY NestingsAreSequences DEF FlowInv, TypeOK
<1>3. ASSUME NEW i \in 1..n
      PROVE  Pending'[i] = Pending[i]
  <2>1. i \in 1..Len(where) /\ i \in 1..Len(where') /\ where'[i] = where[i]
    BY <1>2
  <2>2. CASE where[i].part # "finally"
    BY <1>1, <2>1, <2>2 DEF PendingIs
  <2>3. CASE where[i].part = "finally"
    <3>1. PICK k \in 2..Len(ranges) : ranges[k].at = i
      BY <2>1, <2>3 DEF FlowInv, RangesNest, IsTry
    <3>2. k \in 2..Len(ranges') /\ ranges'[k] = ranges[k]
      BY <1>2, <3>1
    <3>3. Pending[i] = ranges[k].pending
      BY <1>1, <2>3, <3>1 DEF PendingIs
    <3>4. Pending'[i] = ranges'[k].pending
      BY <1>1, <2>1, <2>3, <3>1, <3>2 DEF PendingIs
    <3> QED
      BY <3>2, <3>3, <3>4
  <2> QED
    BY <2>2, <2>3
<1> QED
  BY <1>1, <1>2, <1>3 DEF PendingIs

LEMMA PendingSame ==
    ASSUME FlowInv, FlowInv', status = "running", status' = "running",
           where' = where, ranges' = ranges
    PROVE  Pending' = Pending
<1>1. Len(where) \in 0..Len(where) /\ Len(where) <= Len(where')
  BY NestingsAreSequences DEF FlowInv, TypeOK
<1>2. /\ Pending \in Seq(Completion) /\ Pending' \in Seq(Completion)
      /\ Len(Pending') = Len(Pending)
      /\ \A i \in 1..Len(Pending) : Pending'[i] = Pending[i]
  <2>1. \A k \in 2..Len(ranges) : k <= Len(ranges')
    BY DEF FlowInv, TypeOK
  <2> QED
    BY <1>1, <2>1, PendingKept
<1> QED
  BY <1>2, SequencesEqual

\* Outside of try statements nothing is pending.
LEMMA PendingLinear ==
    ASSUME FlowInv, FlowInv', Linear(where), where' = where
    PROVE  Pending' = Pending
<1>1. PendingIs /\ PendingIs'
  BY PendingKnown, PendingKnownNext
<1>2. \A i \in 1..Len(where) : where[i].part # "finally"
  BY DEF Linear, IsTry
<1>3. /\ Pending \in Seq(Completion) /\ Pending' \in Seq(Completion)
      /\ Len(Pending') = Len(Pending)
      /\ \A i \in 1..Len(Pending) : Pending'[i] = Pending[i]
  BY <1>1, <1>2 DEF PendingIs
<1> QED
  BY <1>3, SequencesEqual

LEMMA PendingAppended ==
    ASSUME FlowInv, FlowInv', status = "running", status' = "running",
           NEW c \in Constructs, c.part # "finally", Len(where) < MaxNesting,
           where' = Append(where, c),
           ranges' = ranges \/ \E r \in Ranges : ranges' = Append(ranges, r)
    PROVE  Pending' = Append(Pending, "value")
<1>1. /\ Len(where) \in 0..Len(where) /\ Len(where') = Len(where) + 1
      /\ \A i \in 1..Len(where) : where'[i] = where[i]
      /\ where'[Len(where) + 1] = c
  BY NestingsAreSequences, Longer DEF FlowInv, TypeOK
<1>2. ASSUME NEW k \in 2..Len(ranges)
      PROVE  k <= Len(ranges') /\ ranges'[k] = ranges[k]
  <2>1. ranges \in Seq(Ranges) /\ Len(ranges) \in Nat /\ k \in 1..Len(ranges)
    BY DEF FlowInv, TypeOK
  <2>2. ASSUME NEW r \in Ranges, ranges' = Append(ranges, r)
        PROVE  k <= Len(ranges') /\ ranges'[k] = ranges[k]
    BY <2>1, <2>2, AppendProperties
  <2> QED
    BY <2>1, <2>2
<1>3. /\ Pending \in Seq(Completion) /\ Len(Pending) = Len(where)
      /\ Pending' \in Seq(Completion) /\ Len(Pending') = Len(where')
      /\ \A i \in 1..Len(where) : Pending'[i] = Pending[i]
      /\ Pending'[Len(where) + 1] = "value"
  BY <1>1, <1>2, PendingKept
<1>4. "value" \in Completion
  BY DEF Completion
<1> DEFINE longer == Append(Pending, "value")
<1>5. /\ longer \in Seq(Completion) /\ Len(longer) = Len(where) + 1
      /\ \A i \in 1..Len(where) : longer[i] = Pending[i]
      /\ longer[Len(where) + 1] = "value"
  BY <1>3, <1>4, AppendProperties
<1> HIDE DEF longer
<1>6. \A i \in 1..Len(longer) : longer[i] = Pending'[i]
  BY <1>1, <1>3, <1>5
<1>7. longer = Pending'
  BY <1>1, <1>3, <1>5, <1>6, SequencesEqual
<1> QED
  BY <1>7 DEF longer

LEMMA PendingShortened ==
    ASSUME FlowInv, FlowInv', status = "running", status' = "running",
           NEW n \in 0..Len(where), where' = SubSeq(where, 1, n),
           \A k \in 2..Len(ranges) :
              ranges[k].at <= n => k <= Len(ranges') /\ ranges'[k] = ranges[k]
    PROVE  Pending' = SubSeq(Pending, 1, n)
<1>1. /\ Len(where) \in Nat /\ n \in Nat /\ Len(where') = n
      /\ \A i \in 1..n : where'[i] = where[i]
  BY NestingsAreSequences, Shorter DEF FlowInv, TypeOK
<1>2. /\ Pending \in Seq(Completion) /\ Len(Pending) = Len(where)
      /\ Pending' \in Seq(Completion) /\ Len(Pending') = n
      /\ \A i \in 1..n : Pending'[i] = Pending[i]
  BY <1>1, PendingKept
<1>3. /\ SubSeq(Pending, 1, n) \in Seq(Completion) /\ Len(SubSeq(Pending, 1, n)) = n
      /\ \A i \in 1..n : SubSeq(Pending, 1, n)[i] = Pending[i]
  BY <1>2, Prefix
<1> QED
  BY <1>2, <1>3, SequencesEqual

LEMMA PendingLeft ==
    ASSUME FlowInv, FlowInv', status = "running", status' = "running", Top.at # 0,
           where' = Outside(where, Top.at), ranges' = Callers
    PROVE  Pending' = Outside(Pending, Top.at)
<1>1. Top.at - 1 \in 0..Len(where) /\ Top.at \in Nat
  BY TopRange, RangeFields
<1>2. ASSUME NEW k \in 2..Len(ranges), ranges[k].at <= Top.at - 1
      PROVE  k <= Len(ranges') /\ ranges'[k] = ranges[k]
  <2>1. k # Len(ranges)
    BY <1>1, <1>2, TopRange
  <2>2. k \in 1..(Len(ranges) - 1)
    BY <1>2, <2>1, TopRange
  <2> QED
    BY <2>2, CallersOfTry
<1> QED
  BY <1>1, <1>2, PendingShortened DEF Outside

LEMMA PendingMoved ==
    ASSUME FlowInv, FlowInv', status = "running", status' = "running", Top.at # 0,
           NEW part \in {"catch", "finally"}, NEW interrupted \in Completion, NEW e,
           part = "catch" => interrupted = "value",
           where' = Enters(where, Top.at, part),
           ranges' = Append(Callers, Activation(Top.at, e, interrupted))
    PROVE  Pending' = Append(Outside(Pending, Top.at), interrupted)
<1> DEFINE n == Top.at - 1
           outside == Outside(where, Top.at)
           construct == [where[Top.at] EXCEPT !.part = part]
           kept == Outside(Pending, Top.at)
           m == Len(ranges) - 1
<1>1. /\ n \in 0..Len(where) /\ n \in Nat /\ Top.at = n + 1
      /\ m \in Nat \ {0} /\ m + 1 = Len(ranges) /\ where \in Seq(Constructs)
      /\ Top = ranges[m + 1]
  BY TopRange, RangeFields, NestingsAreSequences
<1>2. /\ outside \in Seq(Constructs) /\ Len(outside) = n
      /\ \A i \in 1..n : outside[i] = where[i]
  BY <1>1, Prefix DEF Outside
<1>3. construct.part = part /\ construct \in Constructs
      /\ where' = Append(outside, construct)
  <2>1. where[Top.at] \in Constructs
    BY <1>1, TopRange
  <2>2. construct.part = part /\ construct \in Constructs
    BY <2>1 DEF Constructs
  <2> QED
    BY <2>2 DEF Enters
<1> HIDE DEF construct
<1>4. /\ Len(where') = n + 1 /\ where'[n + 1] = construct
      /\ \A i \in 1..n : where'[i] = where[i]
  <2> DEFINE entered == Append(outside, construct)
  <2>1. n \in Nat /\ outside \in Seq(Constructs) /\ construct \in Constructs
    BY <1>1, <1>2, <1>3
  <2> HIDE DEF outside, n
  <2>2. /\ Len(entered) = n + 1 /\ entered[n + 1] = construct
        /\ \A i \in 1..n : entered[i] = outside[i]
    BY <1>2, <2>1, AppendProperties
  <2> QED
    BY <1>2, <1>3, <2>2
<1>5. /\ Callers \in Seq(Ranges) /\ Len(Callers) = m
      /\ \A k \in 1..m : Callers[k] = ranges[k]
  BY CallersOfTry
<1> HIDE DEF m
<1>6. /\ Len(ranges') = m + 1 /\ ranges'[m + 1] = Activation(Top.at, e, interrupted)
      /\ \A k \in 1..m : ranges'[k] = ranges[k]
  BY <1>1, <1>5
<1>7. ASSUME NEW k \in 2..Len(ranges), ranges[k].at <= n
      PROVE  k <= Len(ranges') /\ ranges'[k] = ranges[k]
  <2>1. ranges[m + 1].at = n + 1 /\ n \in Nat
    BY <1>1
  <2> HIDE DEF n
  <2>2. k # m + 1
    BY <1>7, <2>1
  <2>3. k \in 1..m /\ k <= m + 1
    BY <1>1, <1>7, <2>2
  <2> QED
    BY <1>6, <2>3
<1>8. /\ Pending \in Seq(Completion) /\ Len(Pending) = Len(where)
      /\ Pending' \in Seq(Completion) /\ Len(Pending') = n + 1
      /\ \A i \in 1..n : Pending'[i] = Pending[i]
      /\ \A i \in 1..Len(where') : where'[i].part # "finally" => Pending'[i] = "value"
      /\ \A k \in 2..Len(ranges') :
           where'[ranges'[k].at].part = "finally" =>
             Pending'[ranges'[k].at] = ranges'[k].pending
  <2>1. n <= Len(where')
    BY <1>1, <1>4
  <2> HIDE DEF n
  <2> QED
    BY <1>1, <1>4, <1>7, <2>1, PendingKept
<1>9. Pending'[n + 1] = interrupted
  <2>1. ranges'[m + 1].at = n + 1 /\ ranges'[m + 1].pending = interrupted
    BY <1>1, <1>6 DEF Activation
  <2>2. m + 1 \in 2..Len(ranges') /\ n + 1 \in 1..Len(where')
    BY <1>1, <1>4, <1>6
  <2>3. where'[n + 1].part = part
    BY <1>3, <1>4
  <2>4. CASE part = "finally"
    BY <1>8, <2>1, <2>2, <2>3, <2>4
  <2>5. CASE part = "catch"
    BY <1>8, <2>2, <2>3, <2>5
  <2> QED
    BY <2>4, <2>5
<1>10. /\ kept \in Seq(Completion) /\ Len(kept) = n
       /\ \A i \in 1..n : kept[i] = Pending[i]
  BY <1>1, <1>8, Prefix DEF Outside
<1> HIDE DEF kept, n, outside
<1> DEFINE longer == Append(kept, interrupted)
<1>11. /\ longer \in Seq(Completion) /\ Len(longer) = n + 1
       /\ \A i \in 1..n : longer[i] = kept[i]
       /\ longer[n + 1] = interrupted
  BY <1>10, AppendProperties
<1> HIDE DEF longer
<1>12. ASSUME NEW i \in 1..Len(longer)
       PROVE  longer[i] = Pending'[i]
  <2>1. i \in 1..n \/ i = n + 1
    BY <1>1, <1>11, <1>12
  <2> QED
    BY <1>8, <1>9, <1>10, <1>11, <2>1
<1>13. longer = Pending'
  BY <1>8, <1>11, <1>12, SequencesEqual
<1> QED
  BY <1>13 DEF longer, kept

-----------------------------------------------------------------------------
(* The steps of Completions, of a frame that has not failed.               *)

LEMMA AbstractEnter ==
    ASSUME failed = FALSE, failed' = FALSE, status = "running", status' = "running",
           Outcome = "none", Outcome' = "none", NEW c \in Constructs,
           where' = Append(where, c), Pending' = Append(Pending, "value")
    PROVE  CP!Next
<1>1. CP!Enter(c)
  BY DEF CP!Enter, CP!Runs
<1> QED
  BY <1>1 DEF CP!Next, CP!Constructs, Constructs

LEMMA AbstractLeaveBlocks ==
    ASSUME failed = FALSE, failed' = FALSE, status = "running", status' = "running",
           Outcome = "none", Outcome' = "none", NEW n \in 0..Len(where),
           \A j \in (n + 1)..Len(where) : ~IsTry(where[j]),
           where' = SubSeq(where, 1, n), Pending' = SubSeq(Pending, 1, n)
    PROVE  CP!Next
<1>1. CP!LeaveBlocks(n)
  BY DEF CP!LeaveBlocks, CP!Runs, CP!IsTry, IsTry
<1> QED
  BY <1>1 DEF CP!Next

LEMMA AbstractComplete ==
    ASSUME failed = FALSE, failed' = FALSE, status = "running", status' = "running",
           Outcome = "none", NEW c \in Completion \cup {"fatal"}, Outcome' = c,
           where' = where, Pending' = Pending
    PROVE  CP!Next
<1>1. CP!Complete(c)
  BY DEF CP!Complete, CP!Runs
<1> QED
  BY <1>1 DEF CP!Next, CP!Completion, Completion

LEMMA AbstractEnterPart ==
    ASSUME failed = FALSE, failed' = FALSE, status = "running", status' = "running",
           Outcome # "none", Outcome' = "none", NEW i \in 1..Len(where), IsTry(where[i]),
           \A j \in (i + 1)..Len(where) : ~IsTry(where[j]),
           NEW part, NEW interrupted,
           where' = Enters(where, i, part),
           Pending' = Append(Outside(Pending, i), interrupted),
           \/ /\ where[i].part = "body" /\ where[i].handler /\ Outcome = "throw"
              /\ part = "catch" /\ interrupted = "value"
           \/ /\ where[i].part \in {"body", "catch"} /\ where[i].finalizer
              /\ ~(where[i].part = "body" /\ where[i].handler /\ Outcome = "throw")
              /\ Outcome # "fatal"
              /\ part = "finally" /\ interrupted = Outcome
    PROVE  CP!Next
<1>1. CP!Ended(i)
  BY DEF CP!Ended, CP!IsTry, IsTry
<1>2. CP!EnterPart(i, part, interrupted)
  BY DEF CP!EnterPart, CP!Enters, CP!Outside, Enters, Outside
<1>3. \/ CP!Catches(i) /\ CP!EnterPart(i, "catch", "value")
      \/ CP!Finalizes(i) /\ CP!EnterPart(i, "finally", Outcome)
  BY <1>2 DEF CP!Catches, CP!Finalizes
<1>4. CP!Unwind(i)
  BY <1>1, <1>3 DEF CP!Unwind
<1> QED
  BY <1>4 DEF CP!Next

LEMMA AbstractLeave ==
    ASSUME failed = FALSE, failed' = FALSE, status = "running", status' = "running",
           Outcome # "none", NEW i \in 1..Len(where), IsTry(where[i]),
           \A j \in (i + 1)..Len(where) : ~IsTry(where[j]),
           ~(where[i].part = "body" /\ where[i].handler /\ Outcome = "throw"),
           ~(/\ where[i].part \in {"body", "catch"} /\ where[i].finalizer
             /\ Outcome # "fatal"),
           NEW c,
           c = IF where[i].part = "finally" /\ Outcome = "value"
               THEN Pending[i] ELSE Outcome,
           where' = Outside(where, i), Pending' = Outside(Pending, i),
           Outcome' = IF c = "value" THEN "none" ELSE c
    PROVE  CP!Next
<1>1. CP!Ended(i)
  BY DEF CP!Ended, CP!IsTry, IsTry
<1>2. CP!Leave(i, c)
  BY DEF CP!Leave, CP!Outside, Outside
<1>3. ~CP!Catches(i) /\ ~CP!Finalizes(i)
  BY DEF CP!Catches, CP!Finalizes
<1>4. CP!Unwind(i)
  BY <1>1, <1>2, <1>3 DEF CP!Unwind
<1> QED
  BY <1>4 DEF CP!Next

LEMMA AbstractFinish ==
    ASSUME failed = FALSE, Linear(where),
           status = "suspended" \/ (status = "running" /\ Outcome # "none"),
           \/ failed' = TRUE
           \/ /\ failed' = FALSE /\ status' = "done" /\ Outcome' = "none"
              /\ where' = <<>> /\ Pending' = <<>>
    PROVE  CP!Next
<1>1. CP!Finish
  BY DEF CP!Finish, CP!IsTry, IsTry, Linear
<1> QED
  BY <1>1 DEF CP!Next

LEMMA AbstractMoveOn ==
    ASSUME failed = FALSE, failed' = FALSE, Outcome' = Outcome, where' = where,
           Pending' = Pending,
           \/ status = "running" /\ Outcome = "none" /\ status' = "suspended"
           \/ status = "suspended" /\ status' = "running"
    PROVE  CP!Next
<1>1. CP!Suspend \/ CP!Resume
  BY DEF CP!Suspend, CP!Resume, CP!Runs
<1> QED
  BY <1>1 DEF CP!Next

-----------------------------------------------------------------------------
(* What TryStart does is a step of Completions.                            *)

LEMMA InnermostPart ==
    ASSUME FlowInv, NEW part, Returned(part)
    PROVE  /\ Top.at \in 1..Len(where) /\ IsTry(where[Top.at])
           /\ \A j \in (Top.at + 1)..Len(where) : ~IsTry(where[j])
           /\ Outcome = IF flow = "error" THEN "throw" ELSE flow
           /\ Outcome # "none"
           /\ Top.pending \in Completion
           /\ part = "finally" => Pending[Top.at] = Top.pending
<1>1. /\ status = "running" /\ flow # "none" /\ Top.at # 0
      /\ where[Top.at].part = part /\ flow \in Completion \cup {"error", "fatal"}
  BY ReturnedPart
<1>2. /\ Len(ranges) \in Nat /\ Len(ranges) >= 2 /\ Top = ranges[Len(ranges)]
      /\ Top \in Ranges /\ Top.at \in 1..Len(where) /\ IsTry(where[Top.at])
      /\ Len(where) \in Nat
  BY <1>1, TopRange, NestingsAreSequences
<1>3. ASSUME NEW j \in (Top.at + 1)..Len(where), IsTry(where[j])
      PROVE  FALSE
  <2>1. Top.at \in Nat /\ j \in 1..Len(where) /\ j > Top.at
    BY <1>2
  <2>2. PICK k \in 2..Len(ranges) : ranges[k].at = j
    BY <1>1, <1>3, <2>1 DEF FlowInv, RangesNest
  <2>3. k = Len(ranges) \/ k \in 1..(Len(ranges) - 1)
    BY <1>2
  <2>4. CASE k = Len(ranges)
    BY <1>2, <2>1, <2>2, <2>4
  <2>5. CASE k \in 1..(Len(ranges) - 1)
    <3>1. ranges[k].at < Top.at
      BY <1>1, <2>5, CallersOfTry
    <3> QED
      BY <2>1, <2>2, <3>1
  <2> QED
    BY <2>3, <2>4, <2>5
<1>4. Top.pending \in Completion
  BY <1>2, RangeFields
<1>5. part = "finally" => Pending[Top.at] = Top.pending
  <2>1. PendingIs
    BY PendingKnown
  <2>2. Len(ranges) \in 2..Len(ranges)
    BY <1>2
  <2> QED
    BY <1>1, <1>2, <2>1, <2>2 DEF PendingIs
<1>6. Outcome = (IF flow = "error" THEN "throw" ELSE flow) /\ Outcome # "none"
  BY <1>1 DEF Outcome, Completion
<1> QED
  BY <1>2, <1>3, <1>4, <1>5, <1>6

\* An error that leaves a catch or a finally passes no catch with a finally.
LEMMA ErrorsPassUp ==
    ASSUME FlowInv, ErrorsOutside, NEW part \in {"catch", "finally"}, Returned(part),
           flow = "error", NEW d, PassUp(d)
    PROVE  ErrorsOutside' /\ (part = "catch" => ~where[Top.at].finalizer)
<1> DEFINE at == Top.at
<1>1. /\ status = "running" /\ at # 0 /\ where[at].part = part
      /\ at \in 1..Len(where) /\ Len(where) \in Nat
      /\ \A j \in (at + 1)..Len(where) : where[j].part = "scope"
  BY ReturnedPart, InnermostPart, NestingsAreSequences DEF IsTry, FlowInv, TypeOK
<1>2. /\ where' = Outside(where, at) /\ Len(where') = at - 1
      /\ \A i \in 1..(at - 1) : where'[i] = where[i]
  BY <1>1, CallersOfTry DEF PassUp
<1>3. ~InFinalizedCatch
  BY <1>1 DEF ErrorsOutside
<1> HIDE DEF at
<1>4. \A j \in at..Len(where) : where[j].part # "body"
  <2>1. \A j \in at..Len(where) : j = at \/ j \in (at + 1)..Len(where)
    BY <1>1
  <2> QED
    BY <1>1, <2>1
<1>5. ASSUME NEW i \in 1..Len(where'), where'[i].part = "catch", where'[i].finalizer,
             \A j \in (i + 1)..Len(where') : where'[j].part # "body"
      PROVE  FALSE
  <2>1. i \in 1..Len(where) /\ where[i].part = "catch" /\ where[i].finalizer
    BY <1>1, <1>2, <1>5
  <2>2. ASSUME NEW j \in (i + 1)..Len(where)
        PROVE  where[j].part # "body"
    <3>1. j \in (i + 1)..Len(where') \/ j \in at..Len(where)
      BY <1>1, <1>2
    <3>2. \A k \in (i + 1)..Len(where') : where[k] = where'[k]
      BY <1>1, <1>2
    <3> QED
      BY <1>4, <1>5, <3>1, <3>2
  <2> QED
    BY <1>3, <2>1, <2>2 DEF InFinalizedCatch
<1>6. part = "catch" => ~where[at].finalizer
  <2>1. \A j \in (at + 1)..Len(where) : where[j].part # "body"
    BY <1>1
  <2> QED
    BY <1>1, <1>3, <2>1 DEF InFinalizedCatch
<1> QED
  BY <1>5, <1>6 DEF ErrorsOutside, InFinalizedCatch, at

LEMMA PassUpStep ==
    ASSUME FlowInv, FlowInv', failed = FALSE, NEW part, Returned(part),
           flow \in {"error", "fatal"},
           flow = "error" => part = "finally" \/ (part = "catch" /\ ~where[Top.at].finalizer),
           NEW d, PassUp(d)
    PROVE  CP!Next
<1>1. /\ status = "running" /\ Top.at # 0 /\ where[Top.at].part = part
      /\ ranges' = Callers /\ where' = Outside(where, Top.at)
      /\ UNCHANGED <<kind, flow, status, saved, failed>>
  BY ReturnedPart DEF PassUp
<1>2. Pending' = Outside(Pending, Top.at)
  BY <1>1, PendingLeft
<1>3. Outcome' = Outcome /\ Outcome \in {"throw", "fatal"} /\ (Outcome = "throw" => flow = "error")
  BY <1>1 DEF Outcome
<1>4. Outcome = IF where[Top.at].part = "finally" /\ Outcome = "value"
                THEN Pending[Top.at] ELSE Outcome
  BY <1>3
<1>5. Outcome' = IF Outcome = "value" THEN "none" ELSE Outcome
  BY <1>3
<1>6. /\ Top.at \in 1..Len(where) /\ IsTry(where[Top.at]) /\ Outcome # "none"
      /\ \A j \in (Top.at + 1)..Len(where) : ~IsTry(where[j])
  BY InnermostPart
<1>7. /\ ~(where[Top.at].part = "body" /\ where[Top.at].handler /\ Outcome = "throw")
      /\ ~(/\ where[Top.at].part \in {"body", "catch"} /\ where[Top.at].finalizer
           /\ Outcome # "fatal")
  BY <1>1, <1>3
<1> QED
  BY <1>1, <1>2, <1>4, <1>5, <1>6, <1>7, AbstractLeave

LEMMA EndTryStep ==
    ASSUME FlowInv, FlowInv', failed = FALSE, NEW part, Returned(part), flow # "fatal",
           NEW result \in Completion, NEW d, EndTry(result, d),
           result = IF part = "finally" /\ Outcome = "value" THEN Top.pending ELSE Outcome,
           ~(part = "body" /\ where[Top.at].handler /\ Outcome = "throw"),
           part = "finally" \/ ~where[Top.at].finalizer
    PROVE  CP!Next
<1>1. /\ status = "running" /\ Top.at # 0 /\ where[Top.at].part = part
      /\ ranges' = Callers /\ where' = Outside(where, Top.at)
      /\ flow' = IF result = "value" THEN "none" ELSE result
      /\ UNCHANGED <<kind, status, saved, failed>>
  BY ReturnedPart DEF EndTry
<1>2. Pending' = Outside(Pending, Top.at)
  BY <1>1, PendingLeft
<1>3. /\ Top.at \in 1..Len(where) /\ IsTry(where[Top.at]) /\ Outcome # "none"
      /\ \A j \in (Top.at + 1)..Len(where) : ~IsTry(where[j])
      /\ part = "finally" => Pending[Top.at] = Top.pending
  BY InnermostPart
<1>4. result = IF where[Top.at].part = "finally" /\ Outcome = "value"
               THEN Pending[Top.at] ELSE Outcome
  BY <1>1, <1>3
<1>5. Outcome' = IF result = "value" THEN "none" ELSE result
  BY <1>1 DEF Outcome, Completion
<1>6. /\ ~(where[Top.at].part = "body" /\ where[Top.at].handler /\ Outcome = "throw")
      /\ ~(/\ where[Top.at].part \in {"body", "catch"} /\ where[Top.at].finalizer
           /\ Outcome # "fatal")
  BY <1>1
<1> QED
  BY <1>1, <1>2, <1>3, <1>4, <1>5, <1>6, AbstractLeave

LEMMA EnterCatchStep ==
    ASSUME FlowInv, FlowInv', failed = FALSE, Returned("body"), where[Top.at].handler,
           Outcome = "throw", NEW d, EnterCatch(d)
    PROVE  CP!Next
<1>1. /\ status = "running" /\ Top.at # 0 /\ where[Top.at].part = "body"
      /\ ranges' = Append(Callers, Activation(Top.at, d + 1, "value"))
      /\ where' = Enters(where, Top.at, "catch") /\ flow' = "none"
      /\ UNCHANGED <<kind, status, saved, failed>>
  BY ReturnedPart DEF EnterCatch
<1>2. Pending' = Append(Outside(Pending, Top.at), "value")
  BY <1>1, PendingMoved DEF Completion
<1>3. /\ Top.at \in 1..Len(where) /\ IsTry(where[Top.at])
      /\ \A j \in (Top.at + 1)..Len(where) : ~IsTry(where[j])
  BY InnermostPart
<1>4. Outcome' = "none"
  BY <1>1 DEF Outcome
<1> QED
  BY <1>1, <1>2, <1>3, <1>4, AbstractEnterPart

LEMMA EnterFinallyStep ==
    ASSUME FlowInv, FlowInv', failed = FALSE, NEW part \in {"body", "catch"},
           Returned(part), where[Top.at].finalizer,
           ~(part = "body" /\ where[Top.at].handler /\ Outcome = "throw"),
           NEW result \in Completion, result = Outcome, NEW d, EnterFinally(result, d)
    PROVE  CP!Next
<1>1. /\ status = "running" /\ Top.at # 0 /\ where[Top.at].part = part
      /\ ranges' = Append(Callers, Activation(Top.at, d, result))
      /\ where' = Enters(where, Top.at, "finally") /\ flow' = "none"
      /\ UNCHANGED <<kind, status, saved, failed>>
  BY ReturnedPart DEF EnterFinally
<1>2. Pending' = Append(Outside(Pending, Top.at), result)
  BY <1>1, PendingMoved
<1>3. /\ Top.at \in 1..Len(where) /\ IsTry(where[Top.at]) /\ Outcome # "none"
      /\ \A j \in (Top.at + 1)..Len(where) : ~IsTry(where[j])
  BY InnermostPart
<1>4. Outcome' = "none" /\ Outcome # "fatal"
  BY <1>1 DEF Outcome, Completion
<1> QED
  BY <1>1, <1>2, <1>3, <1>4, AbstractEnterPart

LEMMA FinallyOrEndStep ==
    ASSUME FlowInv, FlowInv', failed = FALSE, NEW part \in {"body", "catch"},
           Returned(part), flow # "fatal",
           ~(part = "body" /\ where[Top.at].handler /\ Outcome = "throw"),
           NEW result \in Completion, result = Outcome, NEW d, FinallyOrEnd(result, d)
    PROVE  CP!Next
<1>1. CASE where[Top.at].finalizer
  BY <1>1, EnterFinallyStep DEF FinallyOrEnd
<1>2. CASE ~where[Top.at].finalizer
  BY <1>2, EndTryStep DEF FinallyOrEnd
<1> QED
  BY <1>1, <1>2

LEMMA BodyReturnedStep ==
    ASSUME FlowInv, FlowInv', failed = FALSE, BodyReturned
    PROVE  CP!Next /\ flow' # "error" /\ failed' = FALSE
<1> DEFINE result == IF flow = "error" THEN "throw" ELSE flow
           d == IF flow \in {"error", "fatal"} THEN Smaller(depth, Top.entry) ELSE depth
<1>1. /\ \/ result \in {"fatal", "suspend"} /\ PassUp(d)
         \/ result = "throw" /\ where[Top.at].handler /\ EnterCatch(d)
         \/ result = "throw" /\ ~where[Top.at].handler /\ FinallyOrEnd(result, d)
         \/ result \in {"value", "return"} /\ FinallyOrEnd(result, d)
      /\ Returned("body")
  BY DEF BodyReturned
<1>2. flow \in Completion \cup {"error", "fatal"} /\ Outcome = result
  BY <1>1, ReturnedPart, InnermostPart
<1>3. failed' = failed
  BY <1>1 DEF PassUp, EnterCatch, FinallyOrEnd, EnterFinally, EndTry
<1> HIDE DEF d
<1>4. CASE result \in {"fatal", "suspend"} /\ PassUp(d)
  <2>1. flow = "fatal"
    BY <1>2, <1>4 DEF Completion
  <2>2. flow' = flow
    BY <1>4 DEF PassUp
  <2>3. CP!Next
    BY <1>1, <1>4, <2>1, PassUpStep
  <2> QED
    BY <1>3, <2>1, <2>2, <2>3
<1>5. CASE result = "throw" /\ where[Top.at].handler /\ EnterCatch(d)
  <2>1. CP!Next
    BY <1>1, <1>2, <1>5, EnterCatchStep
  <2> QED
    BY <1>3, <1>5, <2>1 DEF EnterCatch
<1>6. CASE /\ FinallyOrEnd(result, d)
           /\ \/ result = "throw" /\ ~where[Top.at].handler
              \/ result \in {"value", "return"}
  <2>1. flow # "fatal" /\ result \in Completion
    BY <1>6 DEF Completion
  <2>2. ~(where[Top.at].handler /\ Outcome = "throw")
    BY <1>2, <1>6
  <2> HIDE DEF result
  <2>3. CP!Next
    BY <1>1, <1>2, <1>6, <2>1, <2>2, FinallyOrEndStep
  <2>4. flow' # "error"
    BY <1>6, <2>1 DEF FinallyOrEnd, EnterFinally, EndTry, Completion
  <2> QED
    BY <1>3, <2>3, <2>4
<1> QED
  BY <1>1, <1>4, <1>5, <1>6

LEMMA CatchReturnedStep ==
    ASSUME FlowInv, FlowInv', ErrorsOutside, failed = FALSE, CatchReturned
    PROVE  CP!Next /\ ErrorsOutside' /\ failed' = FALSE
<1>1. /\ Returned("catch")
      /\ \/ flow \in {"error", "fatal", "suspend"} /\ PassUp(depth - 1)
         \/ flow \in Completion /\ FinallyOrEnd(flow, depth - 1)
  BY DEF CatchReturned
<1>2. /\ flow \in Completion \cup {"error", "fatal"}
      /\ Outcome = IF flow = "error" THEN "throw" ELSE flow
  BY <1>1, ReturnedPart, InnermostPart
<1>3. failed' = failed
  BY <1>1 DEF PassUp, FinallyOrEnd, EnterFinally, EndTry
<1> DEFINE d == depth - 1
<1> HIDE DEF d
<1>4. CASE flow \in {"error", "fatal", "suspend"} /\ PassUp(d)
  <2>1. flow \in {"error", "fatal"}
    BY <1>2, <1>4 DEF Completion
  <2>2. flow = "error" => ErrorsOutside' /\ ~where[Top.at].finalizer
    BY <1>1, <1>4, ErrorsPassUp
  <2>3. flow # "error" => ErrorsOutside'
    BY <1>4 DEF PassUp, ErrorsOutside
  <2>4. CP!Next
    BY <1>1, <1>4, <2>1, <2>2, PassUpStep
  <2> QED
    BY <1>3, <2>2, <2>3, <2>4
<1>5. CASE flow \in Completion /\ FinallyOrEnd(flow, d)
  <2>1. flow # "fatal" /\ Outcome = flow
    BY <1>2, <1>5 DEF Completion
  <2>2. CP!Next
    BY <1>1, <1>5, <2>1, FinallyOrEndStep
  <2>3. flow' # "error"
    BY <1>5 DEF FinallyOrEnd, EnterFinally, EndTry, Completion
  <2> QED
    BY <1>3, <2>2, <2>3 DEF ErrorsOutside
<1> QED
  BY <1>1, <1>4, <1>5 DEF d

LEMMA FinallyReturnedStep ==
    ASSUME FlowInv, FlowInv', ErrorsOutside, failed = FALSE, FinallyReturned
    PROVE  CP!Next /\ ErrorsOutside' /\ failed' = FALSE
<1>1. /\ Returned("finally")
      /\ \/ flow \in {"error", "fatal", "suspend"} /\ PassUp(depth)
         \/ flow = "value" /\ EndTry(Top.pending, depth)
         \/ flow \in {"return", "throw"} /\ EndTry(flow, depth)
  BY DEF FinallyReturned
<1>2. /\ flow \in Completion \cup {"error", "fatal"} /\ Top.pending \in Completion
      /\ Outcome = IF flow = "error" THEN "throw" ELSE flow
  BY <1>1, ReturnedPart, InnermostPart
<1>3. failed' = failed
  BY <1>1 DEF PassUp, EndTry
<1>4. CASE flow \in {"error", "fatal", "suspend"} /\ PassUp(depth)
  <2>1. flow \in {"error", "fatal"}
    BY <1>2, <1>4 DEF Completion
  <2>2. flow = "error" => ErrorsOutside'
    BY <1>1, <1>4, ErrorsPassUp
  <2>3. flow # "error" => ErrorsOutside'
    BY <1>4 DEF PassUp, ErrorsOutside
  <2>4. CP!Next
    BY <1>1, <1>4, <2>1, PassUpStep
  <2> QED
    BY <1>3, <2>2, <2>3, <2>4
<1>5. ASSUME NEW result \in Completion, EndTry(result, depth), flow \in Completion,
             result = IF flow = "value" THEN Top.pending ELSE flow
      PROVE  CP!Next /\ ErrorsOutside'
  <2>1. flow # "fatal" /\ Outcome = flow
    BY <1>2, <1>5 DEF Completion
  <2>2. CP!Next
    BY <1>1, <1>5, <2>1, EndTryStep
  <2>3. flow' # "error"
    BY <1>5 DEF EndTry, Completion
  <2> QED
    BY <2>2, <2>3 DEF ErrorsOutside
<1> QED
  BY <1>1, <1>2, <1>3, <1>4, <1>5 DEF Completion

-----------------------------------------------------------------------------
(* Instructions and the frame.                                             *)

LEMMA InstructionStep ==
    ASSUME FlowInv, FlowInv', CatchCalls = FALSE, failed = FALSE,
           \/ EnterScope
           \/ \E n \in 0..Len(where) : LeaveScopes(n)
           \/ \E handler, finalizer \in BOOLEAN : TryStart(handler, finalizer)
    PROVE  CP!Next /\ ErrorsOutside' /\ failed' = FALSE
<1>1. /\ status = "running" /\ flow = "none"
      /\ UNCHANGED <<flow, status, failed>>
  BY DEF EnterScope, LeaveScopes, TryStart, Executes
<1>2. Outcome = "none" /\ Outcome' = "none"
  BY <1>1 DEF Outcome
<1>3. ErrorsOutside'
  BY <1>1 DEF ErrorsOutside
<1>4. CASE EnterScope
  <2>1. /\ where' = Append(where, Block) /\ ranges' = ranges /\ Len(where) < MaxNesting
        /\ Block \in Constructs /\ Block.part # "finally"
    BY <1>4 DEF EnterScope, Block, Constructs
  <2>2. Pending' = Append(Pending, "value")
    BY <1>1, <2>1, PendingAppended
  <2> QED
    BY <1>1, <1>2, <1>3, <2>1, <2>2, AbstractEnter
<1>5. ASSUME NEW handler \in BOOLEAN, NEW finalizer \in BOOLEAN, TryStart(handler, finalizer)
      PROVE  CP!Next
  <2> DEFINE c == [part |-> "body", handler |-> handler, finalizer |-> finalizer]
             r == Activation(Len(where) + 1, depth, "value")
  <2>1. /\ where' = Append(where, c) /\ ranges' = Append(ranges, r)
        /\ Len(where) < MaxNesting
        /\ c \in Constructs /\ c.part # "finally"
    BY <1>5 DEF TryStart, Constructs
  <2>2. r \in Ranges
    <3>1. Len(where) + 1 \in 0..MaxNesting /\ depth \in 0..MaxNesting
      BY <2>1, NestingsAreSequences, FrameAssumption DEF FlowInv, TypeOK, FrameAssumption
    <3> QED
      BY <3>1 DEF Activation, Ranges, Completion
  <2> HIDE DEF c, r
  <2>3. Pending' = Append(Pending, "value")
    BY <1>1, <2>1, <2>2, PendingAppended
  <2> QED
    BY <1>1, <1>2, <2>1, <2>3, AbstractEnter
<1>6. ASSUME NEW n \in 0..Len(where), LeaveScopes(n)
      PROVE  CP!Next
  <2>1. /\ where' = SubSeq(where, 1, n) /\ ranges' = ranges
        /\ \A j \in (n + 1)..Len(where) : ~IsTry(where[j])
    BY <1>6 DEF LeaveScopes
  <2>2. \A k \in 2..Len(ranges) : k <= Len(ranges')
    BY <2>1 DEF FlowInv, TypeOK
  <2>3. Pending' = SubSeq(Pending, 1, n)
    BY <1>1, <2>1, <2>2, PendingShortened
  <2> QED
    BY <1>1, <1>2, <2>1, <2>3, AbstractLeaveBlocks
<1> QED
  BY <1>1, <1>3, <1>4, <1>5, <1>6

LEMMA EndingStep ==
    ASSUME FlowInv, FlowInv', CatchCalls = FALSE, failed = FALSE,
           \/ EndRange
           \/ \E result \in {"return", "throw"} : ReturnOrThrow(result)
           \/ \E result \in {"error", "fatal"} : Fail(result)
           \/ Suspend
    PROVE  (CP!Next \/ UNCHANGED CP!vars) /\ ErrorsOutside' /\ failed' = FALSE
<1>1. /\ status = "running" /\ flow = "none"
      /\ flow' \in Completion \cup {"error", "fatal", "suspend"}
      /\ flow' = "error" => ~InFinalizedCatch
      /\ UNCHANGED <<where, ranges, status, failed>>
  BY DEF EndRange, ReturnOrThrow, FinishFlow, Fail, Suspend, Executes, Completion
<1>2. ErrorsOutside'
  BY <1>1 DEF ErrorsOutside, InFinalizedCatch
<1>3. Outcome = "none" /\ Pending' = Pending
  BY <1>1, PendingSame DEF Outcome
<1>4. Outcome' = "none" \/ Outcome' \in Completion \cup {"fatal"}
  BY <1>1 DEF Outcome, Completion
<1>5. CASE Outcome' = "none"
  <2>1. UNCHANGED CP!vars
    BY <1>1, <1>3, <1>5 DEF CP!vars
  <2> QED
    BY <1>1, <1>2, <2>1
<1>6. CASE Outcome' \in Completion \cup {"fatal"}
  <2>1. CP!Next
    BY <1>1, <1>3, <1>6, AbstractComplete
  <2> QED
    BY <1>1, <1>2, <2>1
<1> QED
  BY <1>4, <1>5, <1>6

\* The outermost range has no try statement around the program counter.
LEMMA OutermostRange ==
    ASSUME FlowInv, FrameReturned
    PROVE  Linear(where)
<1>1. status = "running" /\ Top.at = 0
  BY DEF FrameReturned
<1>2. Len(ranges) = 1
  BY <1>1, TopRange
<1> QED
  BY <1>1, <1>2 DEF FlowInv, RangesNest, Linear

LEMMA FrameStep ==
    ASSUME FlowInv, FlowInv', failed = FALSE,
           FrameSuspended \/ FrameEnded \/ FrameFailed \/ Resume \/ Abandon
    PROVE  CP!Next /\ ErrorsOutside'
<1>1. CASE FrameSuspended
  <2>1. /\ status = "running" /\ flow = "suspend" /\ flow' = "none" /\ status' = "suspended"
        /\ where' = where /\ failed' = failed /\ Linear(where)
    BY <1>1, OutermostRange DEF FrameSuspended, FrameReturned, Stop
  <2>2. Outcome = "none" /\ Outcome' = "none" /\ Pending' = Pending
    BY <2>1, PendingLinear DEF Outcome
  <2> QED
    BY <2>1, <2>2, AbstractMoveOn DEF ErrorsOutside
<1>2. CASE FrameEnded \/ FrameFailed
  <2>1. /\ status = "running" /\ flow \in Completion \cup {"error", "fatal"}
        /\ flow' = "none" /\ Linear(where)
        /\ failed' = TRUE \/ (failed' = failed /\ status' = "done" /\ where' = <<>>)
    BY <1>2, OutermostRange DEF FrameEnded, FrameFailed, FrameReturned, Stop, Done
  <2>2. Outcome # "none" /\ Outcome' = "none"
    BY <2>1 DEF Outcome, Completion
  <2>3. where' = <<>> => Pending' = <<>>
    BY DEF Pending
  <2> QED
    BY <2>1, <2>2, <2>3, AbstractFinish DEF ErrorsOutside
<1>3. CASE Resume
  <2>1. /\ status = "suspended" /\ status' = "running" /\ flow = "none"
        /\ Linear(where) /\ UNCHANGED <<where, flow, failed>>
    BY <1>3 DEF Resume, FlowInv, SavedFlat
  <2>2. Outcome' = Outcome /\ Pending' = Pending
    BY <2>1, PendingLinear DEF Outcome
  <2> QED
    BY <2>1, <2>2, AbstractMoveOn DEF ErrorsOutside
<1>4. CASE Abandon
  <2>1. /\ status = "suspended" /\ status' = "done" /\ flow = "none" /\ flow' = flow
        /\ where' = <<>> /\ failed' = failed /\ Linear(where)
    BY <1>4 DEF Abandon, Done, FlowInv, SavedFlat
  <2>2. Outcome' = "none" /\ Pending' = <<>>
    BY <2>1 DEF Outcome, Pending
  <2> QED
    BY <2>1, <2>2, AbstractFinish DEF ErrorsOutside
<1> QED
  BY <1>1, <1>2, <1>3, <1>4

-----------------------------------------------------------------------------
\* Where no error of a catch escapes its finally, and frames are suspended outside of
\* try statements only, execute_range and TryStart run try statements as the
\* completions of Completions do: a throw goes to the catch, nothing leaves but through
\* the finally, and what a finally interrupted goes on after it.
THEOREM CompletionsRefined ==
    ASSUME SuspendsInTry = FALSE, CatchCalls = FALSE
    PROVE  Spec => CompletionsSpec
<1> DEFINE RefInv == FlowInv /\ (failed = FALSE => ErrorsOutside)
<1>1. Init => RefInv /\ CP!Init
  <2> SUFFICES ASSUME Init
               PROVE  RefInv /\ CP!Init
    OBVIOUS
  <2>1. flow = "none" /\ failed = FALSE /\ where = <<>> /\ status = "running"
    BY DEF Init
  <2>2. Pending = <<>> /\ Outcome = "none"
    BY <2>1 DEF Pending, Outcome
  <2> QED
    BY <2>1, <2>2, InitInv DEF ErrorsOutside, CP!Init
<1>2. RefInv /\ [Next]_vars => RefInv' /\ [CP!Next]_(CP!vars)
  <2> SUFFICES ASSUME FlowInv, failed = FALSE => ErrorsOutside, [Next]_vars
               PROVE  (failed' = FALSE => ErrorsOutside') /\ (CP!Next \/ UNCHANGED CP!vars)
    BY FlowInvKept
  <2>1. FlowInv'
    BY FlowInvKept
  <2>2. CASE failed # FALSE
    <3>1. failed' # FALSE
      BY <2>2 DEF Next, vars, EnterScope, LeaveScopes, TryStart, EndRange, ReturnOrThrow,
         FinishFlow, Fail, Suspend, BodyReturned, CatchReturned, FinallyReturned, PassUp,
         EnterCatch, FinallyOrEnd, EnterFinally, EndTry, FrameSuspended, FrameEnded,
         FrameFailed, Resume, Abandon
    <3> QED
      BY <2>1, <2>2, <3>1 DEF CP!vars, FlowInv, TypeOK
  <2>3. CASE failed = FALSE /\ UNCHANGED vars
    BY <2>3 DEF vars, CP!vars, ErrorsOutside, InFinalizedCatch, Pending, Interrupted, Outcome
  <2>4. CASE failed = FALSE /\ Next
    BY <2>1, <2>4, InstructionStep, EndingStep, FrameStep, BodyReturnedStep,
       CatchReturnedStep, FinallyReturnedStep DEF Next, ErrorsOutside
  <2> QED
    BY <2>2, <2>3, <2>4
<1> QED
  BY <1>1, <1>2, PTL DEF Spec, CompletionsSpec, CP!Spec

=============================================================================
