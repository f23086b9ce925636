-------------------------- MODULE CallFrames_proofs --------------------------
(***************************************************************************)
(* Proofs about CallFrames, for any number of runs, functions and parked   *)
(* frames, and for all limits.                                             *)
(***************************************************************************)
EXTENDS CallFrames, TLAPS, SequenceTheorems, FiniteSetTheorems

-----------------------------------------------------------------------------
(* Stacks: what Append, Front and Last do, and how they change the counts. *)

LEMMA FrontLast ==
    ASSUME NEW S, NEW s \in Seq(S), s # <<>>
    PROVE  /\ Len(s) \in Nat \ {0}
           /\ Last(s) \in S /\ Last(s) = s[Len(s)]
           /\ Front(s) \in Seq(S)
           /\ Len(Front(s)) = Len(s) - 1
           /\ \A i \in 1..(Len(s) - 1) : Front(s)[i] = s[i]
<1> DEFINE d == Len(s) - 1
<1>1. Len(s) \in Nat \ {0} /\ d \in 0..Len(s)
  OBVIOUS
<1>2. \A i \in 1..Len(s) : s[i] \in S
  OBVIOUS
<1>3. \A i \in 1..d : s[i] \in S
  BY <1>1, <1>2
<1>4. Len(SubSeq(s, 1, d)) = IF 1 <= d THEN d - 1 + 1 ELSE 0
  BY <1>1, <1>3, SubSeqProperties
<1>5. SubSeq(s, 1, d) \in Seq(S) /\ \A i \in 1..(d - 1 + 1) : SubSeq(s, 1, d)[i] = s[1 + i - 1]
  BY <1>1, <1>3, SubSeqProperties
<1>6. Last(s) = s[Len(s)] /\ s[Len(s)] \in S
  BY <1>1, <1>2 DEF Last
<1>7. d \in Nat /\ d - 1 + 1 = d /\ \A i \in 1..d : 1 + i - 1 = i
  BY <1>1
<1>8. Len(SubSeq(s, 1, d)) = d
  <2>1. CASE d = 0
    BY <1>4, <2>1
  <2>2. CASE d # 0
    <3>1. 1 <= d
      BY <1>7, <2>2
    <3> QED
      BY <1>4, <1>7, <3>1
  <2> QED
    BY <2>1, <2>2
<1>9. \A i \in 1..d : SubSeq(s, 1, d)[i] = s[i]
  <2> TAKE i \in 1..d
  <2>1. i \in 1..(d - 1 + 1) /\ 1 + i - 1 = i
    BY <1>7
  <2> QED
    BY <1>5, <2>1
<1>10. Front(s) = SubSeq(s, 1, d)
  BY DEF Front
<1> QED
  BY <1>1, <1>5, <1>6, <1>8, <1>9, <1>10

LEMMA FramesFinite ==
    ASSUME NEW s, NEW r, NEW n \in Nat
    PROVE  /\ IsFiniteSet(FramesOf(s, r, n))
           /\ Cardinality(FramesOf(s, r, n)) \in Nat
<1>1. IsFiniteSet(1..n)
  BY FS_Interval
<1>2. FramesOf(s, r, n) \in SUBSET (1..n)
  BY DEF FramesOf
<1>3. IsFiniteSet(FramesOf(s, r, n))
  BY <1>1, <1>2, FS_Subset
<1> QED
  BY <1>3, FS_CardinalityType

LEMMA HostCallsFinite ==
    ASSUME NEW s \in Seq(Activations), NEW r
    PROVE  /\ IsFiniteSet(HostCallsOf(s, r))
           /\ Cardinality(HostCallsOf(s, r)) \in Nat
<1>1. Len(s) \in Nat
  OBVIOUS
<1>2. IsFiniteSet(1..Len(s))
  BY <1>1, FS_Interval
<1>3. HostCallsOf(s, r) \in SUBSET (1..Len(s))
  BY DEF HostCallsOf
<1>4. IsFiniteSet(HostCallsOf(s, r))
  BY <1>2, <1>3, FS_Subset
<1> QED
  BY <1>4, FS_CardinalityType

\* FramesOf looks at the first n activations only.
LEMMA FramesOfPrefix ==
    ASSUME NEW s, NEW t, NEW r, NEW n \in Nat, \A i \in 1..n : s[i] = t[i]
    PROVE  FramesOf(s, r, n) = FramesOf(t, r, n)
BY DEF FramesOf

LEMMA PushFrames ==
    ASSUME NEW s \in Seq(Activations), NEW a \in Activations, NEW r
    PROVE  /\ \A n \in 0..Len(s) : FramesOf(Append(s, a), r, n) = FramesOf(s, r, n)
           /\ Cardinality(FramesOf(Append(s, a), r, Len(s) + 1))
                = Cardinality(FramesOf(s, r, Len(s)))
                  + (IF a.kind = "function" /\ a.run = r THEN 1 ELSE 0)
<1> DEFINE old == FramesOf(s, r, Len(s))
<1>1. Len(s) \in Nat /\ \A i \in 1..Len(s) : Append(s, a)[i] = s[i]
  OBVIOUS
<1>2. Append(s, a)[Len(s) + 1] = a
  OBVIOUS
<1>3. \A n \in 0..Len(s) : FramesOf(Append(s, a), r, n) = FramesOf(s, r, n)
  BY <1>1 DEF FramesOf
<1>4. FramesOf(Append(s, a), r, Len(s) + 1)
        = old \cup (IF a.kind = "function" /\ a.run = r THEN {Len(s) + 1} ELSE {})
  BY <1>1, <1>2 DEF FramesOf
<1>5. Len(s) + 1 \notin old
  BY <1>1 DEF FramesOf
<1>6. IsFiniteSet(old) /\ Cardinality(old) \in Nat
  BY <1>1, FramesFinite
<1> HIDE DEF old
<1>7. Cardinality(old \cup {Len(s) + 1}) = Cardinality(old) + 1
  BY <1>5, <1>6, FS_AddElement
<1>8. old \cup {} = old
  OBVIOUS
<1>9. Cardinality(FramesOf(Append(s, a), r, Len(s) + 1))
        = Cardinality(old) + (IF a.kind = "function" /\ a.run = r THEN 1 ELSE 0)
  <2>1. CASE a.kind = "function" /\ a.run = r
    BY <2>1, <1>4, <1>7
  <2>2. CASE ~(a.kind = "function" /\ a.run = r)
    <3>1. FramesOf(Append(s, a), r, Len(s) + 1) = old
      BY <2>2, <1>4, <1>8
    <3> QED
      BY <2>2, <3>1, <1>6
  <2> QED
    BY <2>1, <2>2
<1> QED
  BY <1>3, <1>9 DEF old

LEMMA PushHostCalls ==
    ASSUME NEW s \in Seq(Activations), NEW a \in Activations, NEW r
    PROVE  Cardinality(HostCallsOf(Append(s, a), r))
             = Cardinality(HostCallsOf(s, r))
               + (IF a.kind = "call" /\ a.run = r THEN 1 ELSE 0)
<1> DEFINE old == HostCallsOf(s, r)
<1>1. Len(s) \in Nat /\ \A i \in 1..Len(s) : Append(s, a)[i] = s[i]
  OBVIOUS
<1>2. Append(s, a)[Len(s) + 1] = a /\ Len(Append(s, a)) = Len(s) + 1
  OBVIOUS
<1>3. HostCallsOf(Append(s, a), r)
        = old \cup (IF a.kind = "call" /\ a.run = r THEN {Len(s) + 1} ELSE {})
  BY <1>1, <1>2 DEF HostCallsOf
<1>4. Len(s) + 1 \notin old
  BY <1>1 DEF HostCallsOf
<1>5. IsFiniteSet(old) /\ Cardinality(old) \in Nat
  BY HostCallsFinite
<1> HIDE DEF old
<1>6. Cardinality(old \cup {Len(s) + 1}) = Cardinality(old) + 1
  BY <1>4, <1>5, FS_AddElement
<1>7. old \cup {} = old
  OBVIOUS
<1>8. Cardinality(HostCallsOf(Append(s, a), r))
        = Cardinality(old) + (IF a.kind = "call" /\ a.run = r THEN 1 ELSE 0)
  <2>1. CASE a.kind = "call" /\ a.run = r
    BY <2>1, <1>3, <1>6
  <2>2. CASE ~(a.kind = "call" /\ a.run = r)
    <3>1. HostCallsOf(Append(s, a), r) = old
      BY <2>2, <1>3, <1>7
    <3> QED
      BY <2>2, <3>1, <1>5
  <2> QED
    BY <2>1, <2>2
<1> QED
  BY <1>8 DEF old

\* Popping undoes a push.
LEMMA FrontAppend ==
    ASSUME NEW S, NEW s \in Seq(S), s # <<>>
    PROVE  Append(Front(s), Last(s)) = s
<1>1. /\ Front(s) \in Seq(S) /\ Len(Front(s)) = Len(s) - 1 /\ Last(s) \in S
      /\ Last(s) = s[Len(s)] /\ Len(s) \in Nat \ {0}
      /\ \A i \in 1..(Len(s) - 1) : Front(s)[i] = s[i]
  BY FrontLast
<1> DEFINE t == Append(Front(s), Last(s))
<1>2. t \in Seq(S) /\ Len(t) = Len(s)
  BY <1>1
<1>3. \A i \in 1..Len(s) : t[i] = s[i]
  <2> TAKE i \in 1..Len(s)
  <2>1. CASE i = Len(s)
    BY <1>1, <2>1
  <2>2. CASE i # Len(s)
    <3>1. i \in 1..Len(Front(s))
      BY <1>1, <2>2
    <3>2. t[i] = Front(s)[i]
      BY <1>1, <3>1
    <3> QED
      BY <1>1, <3>1, <3>2
  <2> QED
    BY <2>1, <2>2
<1> HIDE DEF t
<1>4. t = s
  BY <1>2, <1>3, SeqEqual
<1> QED
  BY <1>4 DEF t

LEMMA PopFrames ==
    ASSUME NEW s \in Seq(Activations), s # <<>>, NEW r
    PROVE  /\ \A n \in 0..(Len(s) - 1) : FramesOf(Front(s), r, n) = FramesOf(s, r, n)
           /\ Cardinality(FramesOf(s, r, Len(s)))
                = Cardinality(FramesOf(Front(s), r, Len(s) - 1))
                  + (IF Last(s).kind = "function" /\ Last(s).run = r THEN 1 ELSE 0)
           /\ Cardinality(HostCallsOf(s, r))
                = Cardinality(HostCallsOf(Front(s), r))
                  + (IF Last(s).kind = "call" /\ Last(s).run = r THEN 1 ELSE 0)
<1>1. /\ Front(s) \in Seq(Activations) /\ Len(Front(s)) = Len(s) - 1
      /\ Last(s) \in Activations /\ Len(s) \in Nat \ {0}
  BY FrontLast
<1>2. Append(Front(s), Last(s)) = s
  BY FrontAppend
<1>3. Len(Front(s)) + 1 = Len(s)
  BY <1>1
<1>4. /\ \A n \in 0..Len(Front(s)) : FramesOf(Append(Front(s), Last(s)), r, n) = FramesOf(Front(s), r, n)
      /\ Cardinality(FramesOf(Append(Front(s), Last(s)), r, Len(Front(s)) + 1))
                = Cardinality(FramesOf(Front(s), r, Len(Front(s))))
                  + (IF Last(s).kind = "function" /\ Last(s).run = r THEN 1 ELSE 0)
  BY <1>1, PushFrames
<1>5. Cardinality(HostCallsOf(Append(Front(s), Last(s)), r))
             = Cardinality(HostCallsOf(Front(s), r))
               + (IF Last(s).kind = "call" /\ Last(s).run = r THEN 1 ELSE 0)
  BY <1>1, PushHostCalls
<1> QED
  BY <1>1, <1>2, <1>3, <1>4, <1>5

-----------------------------------------------------------------------------
(* Entering and leaving an activation keeps the counts.                    *)

LEMMA TopFacts ==
    ASSUME CallInv, ~Idle
    PROVE  /\ native \in Seq(Activations) /\ native # <<>>
           /\ Len(native) \in Nat \ {0}
           /\ Top = native[Len(native)] /\ Top \in Activations
           /\ limit[Top.run] # 0
           /\ Len(call_stack[Top.run]) \in Nat
           /\ Top.depth >= Len(call_stack[Top.run])
<1>1. native \in Seq(Activations) /\ native # <<>>
  BY DEF CallInv, TypeOK, Idle
<1>2. Len(native) \in Nat \ {0} /\ Top = native[Len(native)] /\ Top \in Activations
  BY <1>1, FrontLast DEF Top
<1>3. Len(native) \in DOMAIN native
  BY <1>1, <1>2
<1>4. limit[Top.run] # 0
  BY <1>2, <1>3 DEF CallInv, Started
<1>5. Top.depth >= Cardinality(FramesOf(native, Top.run, Len(native)))
  BY <1>2, <1>3 DEF CallInv, Covered
<1>6. Top.run \in Runs
  BY <1>2 DEF Activations
<1>7. Len(call_stack[Top.run]) = Cardinality(FramesOf(native, Top.run, Len(native)))
  BY <1>6 DEF CallInv, Counted
<1>8. call_stack[Top.run] \in Seq(Functions)
  BY <1>6 DEF CallInv, TypeOK
<1> QED
  BY <1>1, <1>2, <1>4, <1>5, <1>7, <1>8

LEMMA EnterActivation ==
    ASSUME CallInv, NEW a \in Activations,
           native' = Append(native, a),
           call_stack' = IF a.kind = "function"
                         THEN [call_stack EXCEPT ![a.run] = Append(@, a.fun)]
                         ELSE call_stack,
           host_call_depth' = IF a.kind = "call"
                              THEN [host_call_depth EXCEPT ![a.run] = @ + 1]
                              ELSE host_call_depth,
           a.kind = "function" => /\ a.fun \in Functions
                                  /\ Len(call_stack[a.run]) < MaxCallDepth,
           a.depth >= Len(call_stack[a.run]) + (IF a.kind = "function" THEN 1 ELSE 0),
           limit'[a.run] # 0,
           \A r \in Runs : limit[r] # 0 => limit'[r] # 0
    PROVE  /\ native' \in Seq(Activations)
           /\ call_stack' \in [Runs -> Seq(Functions)]
           /\ host_call_depth' \in [Runs -> Nat]
           /\ \A i \in DOMAIN native' : limit'[native'[i].run] # 0
           /\ Counted' /\ Covered' /\ DepthBounded'
<1>1. /\ native \in Seq(Activations) /\ Len(native) \in Nat
      /\ call_stack \in [Runs -> Seq(Functions)] /\ host_call_depth \in [Runs -> Nat]
  BY DEF CallInv, TypeOK
<1>2. /\ native' \in Seq(Activations) /\ Len(native') = Len(native) + 1
      /\ native'[Len(native) + 1] = a
      /\ \A i \in 1..Len(native) : native'[i] = native[i]
  BY <1>1
<1>3. a.run \in Runs /\ a.depth \in Nat
  BY DEF Activations
<1>4. call_stack' \in [Runs -> Seq(Functions)]
  BY <1>1, <1>3
<1>5. host_call_depth' \in [Runs -> Nat]
  BY <1>1, <1>3
<1>6. \A i \in DOMAIN native' : limit'[native'[i].run] # 0
  <2> TAKE i \in DOMAIN native'
  <2>1. CASE i = Len(native) + 1
    BY <1>2, <2>1
  <2>2. CASE i # Len(native) + 1
    <3>1. i \in 1..Len(native)
      BY <1>1, <1>2, <2>2
    <3>2. native[i] \in Activations /\ i \in DOMAIN native
      BY <1>1, <3>1
    <3>3. native[i].run \in Runs
      BY <3>2 DEF Activations
    <3>4. limit[native[i].run] # 0
      BY <3>2 DEF CallInv, Started
    <3> QED
      BY <1>2, <3>1, <3>3, <3>4
  <2> QED
    BY <2>1, <2>2
<1>7. \A r \in Runs :
        /\ Len(call_stack[r]) \in Nat
        /\ a.kind = "function" /\ a.run = r => Len(call_stack'[r]) = Len(call_stack[r]) + 1
        /\ ~(a.kind = "function" /\ a.run = r) => Len(call_stack'[r]) = Len(call_stack[r])
  <2> TAKE r \in Runs
  <2>1. call_stack[r] \in Seq(Functions) /\ Len(call_stack[r]) \in Nat
    BY <1>1
  <2>2. CASE a.kind = "function" /\ a.run = r
    <3>1. call_stack'[r] = Append(call_stack[r], a.fun)
      BY <1>1, <2>2
    <3> QED
      BY <2>1, <2>2, <3>1
  <2>3. CASE ~(a.kind = "function" /\ a.run = r)
    <3>1. call_stack'[r] = call_stack[r]
      BY <1>1, <1>3, <2>3
    <3>2. Len(call_stack'[r]) = Len(call_stack[r])
      BY <3>1
    <3> QED
      BY <2>1, <2>3, <3>2
  <2> QED
    BY <2>2, <2>3
<1>8. \A r \in Runs : host_call_depth'[r] = host_call_depth[r]
                            + (IF a.kind = "call" /\ a.run = r THEN 1 ELSE 0)
  BY <1>1, <1>3
<1>9. Counted'
  <2> SUFFICES ASSUME NEW r \in Runs
               PROVE  /\ Len(call_stack'[r]) = Cardinality(FramesOf(native', r, Len(native')))
                      /\ host_call_depth'[r] = Cardinality(HostCallsOf(native', r))
    BY DEF Counted
  <2>1. Len(call_stack[r]) = Cardinality(FramesOf(native, r, Len(native)))
    BY DEF CallInv, Counted
  <2>2. host_call_depth[r] = Cardinality(HostCallsOf(native, r))
    BY DEF CallInv, Counted
  <2>3. Cardinality(FramesOf(native', r, Len(native) + 1))
          = Cardinality(FramesOf(native, r, Len(native)))
            + (IF a.kind = "function" /\ a.run = r THEN 1 ELSE 0)
    BY <1>1, PushFrames
  <2>4. Cardinality(HostCallsOf(native', r)) = Cardinality(HostCallsOf(native, r))
            + (IF a.kind = "call" /\ a.run = r THEN 1 ELSE 0)
    BY <1>1, PushHostCalls
  <2>5. Len(call_stack'[r]) = Cardinality(FramesOf(native', r, Len(native')))
    BY <1>2, <1>7, <2>1, <2>3
  <2>6. host_call_depth'[r] = Cardinality(HostCallsOf(native', r))
    BY <1>8, <2>2, <2>4
  <2> QED
    BY <2>5, <2>6
<1>10. Covered'
  <2> SUFFICES ASSUME NEW i \in DOMAIN native'
               PROVE  native'[i].depth >= Cardinality(FramesOf(native', native'[i].run, i))
    BY DEF Covered
  <2>1. CASE i = Len(native) + 1
    <3>1. Len(call_stack[a.run]) = Cardinality(FramesOf(native, a.run, Len(native)))
      BY <1>3 DEF CallInv, Counted
    <3>2. Cardinality(FramesOf(native', a.run, Len(native) + 1))
            = Cardinality(FramesOf(native, a.run, Len(native)))
              + (IF a.kind = "function" /\ a.run = a.run THEN 1 ELSE 0)
      BY <1>1, PushFrames
    <3>3. a.depth >= Cardinality(FramesOf(native', a.run, Len(native) + 1))
      BY <3>1, <3>2
    <3> QED
      BY <1>2, <2>1, <3>3
  <2>2. CASE i # Len(native) + 1
    <3>1. i \in 1..Len(native) /\ i \in 0..Len(native)
      BY <1>1, <1>2, <2>2
    <3>2. native[i].depth >= Cardinality(FramesOf(native, native[i].run, i))
      BY <1>1, <3>1 DEF CallInv, Covered
    <3>3. FramesOf(native', native[i].run, i) = FramesOf(native, native[i].run, i)
      BY <1>1, <3>1, PushFrames
    <3> QED
      BY <1>2, <3>1, <3>2, <3>3
  <2> QED
    BY <2>1, <2>2
<1>11. DepthBounded'
  <2> SUFFICES ASSUME NEW r \in Runs PROVE Len(call_stack'[r]) <= MaxCallDepth
    BY DEF DepthBounded
  <2>1. Len(call_stack[r]) <= MaxCallDepth /\ Len(call_stack[r]) \in Nat
    BY <1>7 DEF CallInv, DepthBounded
  <2>2. CASE a.kind = "function" /\ a.run = r
    <3>1. Len(call_stack'[r]) = Len(call_stack[r]) + 1 /\ Len(call_stack[r]) < MaxCallDepth
      BY <1>7, <2>2
    <3> QED
      BY <2>1, <3>1, CallAssumption DEF CallAssumption
  <2>3. CASE ~(a.kind = "function" /\ a.run = r)
    BY <1>7, <2>1, <2>3
  <2> QED
    BY <2>2, <2>3
<1> QED
  BY <1>2, <1>4, <1>5, <1>6, <1>9, <1>10, <1>11

LEMMA LeaveActivation ==
    ASSUME CallInv, ~Idle,
           native' = Front(native),
           call_stack' = IF Top.kind = "function"
                         THEN [call_stack EXCEPT ![Top.run] = Front(@)]
                         ELSE call_stack,
           host_call_depth' = IF Top.kind = "call"
                              THEN [host_call_depth EXCEPT ![Top.run] = @ - 1]
                              ELSE host_call_depth,
           limit' = limit
    PROVE  /\ native' \in Seq(Activations)
           /\ call_stack' \in [Runs -> Seq(Functions)]
           /\ host_call_depth' \in [Runs -> Nat]
           /\ \A i \in DOMAIN native' : limit'[native'[i].run] # 0
           /\ Counted' /\ Covered' /\ DepthBounded'
<1> DEFINE n == Len(native)
<1>1. /\ native \in Seq(Activations) /\ native # <<>> /\ n \in Nat \ {0}
      /\ Top = native[n] /\ Top \in Activations /\ Top = Last(native)
  BY TopFacts DEF Top
<1>2. /\ native' \in Seq(Activations) /\ Len(native') = n - 1
      /\ \A i \in 1..(n - 1) : native'[i] = native[i]
  BY <1>1, FrontLast
<1>3. call_stack \in [Runs -> Seq(Functions)] /\ host_call_depth \in [Runs -> Nat]
  BY DEF CallInv, TypeOK
<1>4. Top.run \in Runs
  BY <1>1 DEF Activations
<1>5. \A r \in Runs :
        /\ Cardinality(FramesOf(native', r, n - 1)) \in Nat
        /\ Cardinality(HostCallsOf(native', r)) \in Nat
        /\ Len(call_stack[r]) = Cardinality(FramesOf(native', r, n - 1))
             + (IF Top.kind = "function" /\ Top.run = r THEN 1 ELSE 0)
        /\ host_call_depth[r] = Cardinality(HostCallsOf(native', r))
             + (IF Top.kind = "call" /\ Top.run = r THEN 1 ELSE 0)
  <2> TAKE r \in Runs
  <2>1. /\ Len(call_stack[r]) = Cardinality(FramesOf(native, r, n))
        /\ host_call_depth[r] = Cardinality(HostCallsOf(native, r))
    BY DEF CallInv, Counted
  <2>2. /\ Cardinality(FramesOf(native, r, n)) = Cardinality(FramesOf(native', r, n - 1))
             + (IF Top.kind = "function" /\ Top.run = r THEN 1 ELSE 0)
        /\ Cardinality(HostCallsOf(native, r)) = Cardinality(HostCallsOf(native', r))
             + (IF Top.kind = "call" /\ Top.run = r THEN 1 ELSE 0)
    BY <1>1, PopFrames
  <2>3. n - 1 \in Nat
    BY <1>1
  <2>4. Cardinality(FramesOf(native', r, n - 1)) \in Nat
    BY <2>3, FramesFinite
  <2>5. Cardinality(HostCallsOf(native', r)) \in Nat
    BY <1>2, HostCallsFinite
  <2> QED
    BY <2>1, <2>2, <2>4, <2>5
<1>6. \A r \in Runs :
        /\ call_stack'[r] \in Seq(Functions)
        /\ Len(call_stack'[r]) = Cardinality(FramesOf(native', r, n - 1))
        /\ Len(call_stack'[r]) <= Len(call_stack[r])
        /\ Len(call_stack[r]) \in Nat /\ Len(call_stack'[r]) \in Nat
  <2> TAKE r \in Runs
  <2>1. call_stack[r] \in Seq(Functions) /\ Len(call_stack[r]) \in Nat
    BY <1>3
  <2>2. CASE Top.kind = "function" /\ Top.run = r
    <3>1. call_stack'[r] = Front(call_stack[r])
      BY <1>3, <1>4, <2>2
    <3>2. /\ Len(call_stack[r]) = Cardinality(FramesOf(native', r, n - 1)) + 1
          /\ Cardinality(FramesOf(native', r, n - 1)) \in Nat
      BY <1>5, <2>2
    <3>3. call_stack[r] # <<>>
      BY <1>5, <3>2
    <3>4. Front(call_stack[r]) \in Seq(Functions)
          /\ Len(Front(call_stack[r])) = Len(call_stack[r]) - 1
      BY <2>1, <3>3, FrontLast
    <3> QED
      BY <1>5, <2>1, <3>1, <3>2, <3>4
  <2>3. CASE ~(Top.kind = "function" /\ Top.run = r)
    <3>1. call_stack'[r] = call_stack[r]
      BY <1>3, <1>4, <2>3
    <3>2. Len(call_stack[r]) = Cardinality(FramesOf(native', r, n - 1)) + 0
      BY <1>5, <2>3
    <3>3. Cardinality(FramesOf(native', r, n - 1)) \in Nat
      BY <1>5
    <3> QED
      BY <2>1, <3>1, <3>2, <3>3
  <2> QED
    BY <2>2, <2>3
<1>7. \A r \in Runs : host_call_depth'[r] = Cardinality(HostCallsOf(native', r))
  <2> TAKE r \in Runs
  <2>1. CASE Top.kind = "call" /\ Top.run = r
    <3>1. host_call_depth'[r] = host_call_depth[r] - 1
      BY <1>3, <1>4, <2>1
    <3>2. host_call_depth[r] = Cardinality(HostCallsOf(native', r)) + 1
      BY <1>5, <2>1
    <3> QED
      BY <1>5, <3>1, <3>2
  <2>2. CASE ~(Top.kind = "call" /\ Top.run = r)
    <3>1. host_call_depth'[r] = host_call_depth[r]
      BY <1>3, <1>4, <2>2
    <3>2. host_call_depth[r] = Cardinality(HostCallsOf(native', r))
      BY <1>5, <2>2
    <3> QED
      BY <3>1, <3>2
  <2> QED
    BY <2>1, <2>2
<1>8. call_stack' \in [Runs -> Seq(Functions)]
  <2>1. call_stack' = [r \in Runs |-> call_stack'[r]]
    BY <1>3
  <2> QED
    BY <1>6, <2>1
<1>9. host_call_depth' \in [Runs -> Nat]
  <2>1. host_call_depth' = [r \in Runs |-> host_call_depth'[r]]
    BY <1>3
  <2>2. \A r \in Runs : host_call_depth'[r] \in Nat
    BY <1>5, <1>7
  <2> QED
    BY <2>1, <2>2
<1>10. \A i \in DOMAIN native' : limit'[native'[i].run] # 0
  BY <1>1, <1>2 DEF CallInv, Started
<1>11. Counted'
  BY <1>2, <1>6, <1>7 DEF Counted
<1>12. Covered'
  <2> SUFFICES ASSUME NEW i \in DOMAIN native'
               PROVE  native'[i].depth >= Cardinality(FramesOf(native', native'[i].run, i))
    BY DEF Covered
  <2>1. i \in 1..(n - 1) /\ i \in 0..(n - 1) /\ i \in DOMAIN native
    BY <1>1, <1>2
  <2>2. native[i].depth >= Cardinality(FramesOf(native, native[i].run, i))
    BY <2>1 DEF CallInv, Covered
  <2>3. FramesOf(native', native[i].run, i) = FramesOf(native, native[i].run, i)
    BY <1>1, <2>1, PopFrames
  <2> QED
    BY <1>2, <2>1, <2>2, <2>3
<1>13. DepthBounded'
  <2> SUFFICES ASSUME NEW r \in Runs PROVE Len(call_stack'[r]) <= MaxCallDepth
    BY DEF DepthBounded
  <2>1. Len(call_stack[r]) <= MaxCallDepth
    BY DEF CallInv, DepthBounded
  <2> QED
    BY <1>6, <2>1, CallAssumption DEF CallAssumption
<1> QED
  BY <1>2, <1>8, <1>9, <1>10, <1>11, <1>12, <1>13

-----------------------------------------------------------------------------
(* The invariant: one lemma for each action.                               *)

LEMMA Consumed ==
    ASSUME CallInv, NEW c \in Cells, ConsumeStep(c)
    PROVE  execution_budget' \in [Cells -> 0..UsizeMax]
<1>1. execution_budget \in [Cells -> 0..UsizeMax] /\ execution_budget[c] # 0
  BY DEF CallInv, TypeOK, ConsumeStep
<1>2. execution_budget[c] - 1 \in 0..UsizeMax
  BY <1>1, CallAssumption DEF CallAssumption
<1> QED
  BY <1>1, <1>2 DEF ConsumeStep

LEMMA WrappedStarted ==
    ASSUME CallInv, MayWrap \/ UNCHANGED wrapped, UNCHANGED runVars
    PROVE  /\ limit' \in [Runs -> 0..UsizeMax] /\ invoker' \in Runs \cup {None}
           /\ wrapped' \subseteq Runs
           /\ \A r \in wrapped' \cup ({invoker'} \ {None}) : limit'[r] # 0
BY DEF CallInv, TypeOK, Started, MayWrap, runVars

LEMMA CallStep ==
    ASSUME CallInv, NEW f \in Functions, Call(f)
    PROVE  CallInv'
<1> DEFINE a == [kind |-> "function", run |-> Top.run, fun |-> f,
                 depth |-> Top.depth + 1, cell |-> Top.cell]
<1>1. /\ ~Idle /\ ConsumeStep(Top.cell) /\ Top.depth < MaxCallDepth
      /\ native' = Append(native, a)
      /\ call_stack' = [call_stack EXCEPT ![Top.run] = Append(@, f)]
      /\ UNCHANGED <<host_call_depth, runVars, wrapped, awaiting>>
  BY DEF Call, EnterFunction, Running, Admitted
<1>2. /\ Top \in Activations /\ limit[Top.run] # 0
      /\ Len(call_stack[Top.run]) \in Nat /\ Top.depth >= Len(call_stack[Top.run])
  BY <1>1, TopFacts
<1>3. Top.run \in Runs /\ Top.depth \in Nat /\ Top.cell \in Cells
  BY <1>2 DEF Activations
<1>4. a \in Activations
  BY <1>3 DEF Activations, VMKinds
<1>5. /\ a.kind = "function" /\ a.kind # "call" /\ a.run = Top.run /\ a.fun = f
      /\ a.depth = Top.depth + 1
  OBVIOUS
<1> HIDE DEF a
<1>6. Len(call_stack[a.run]) < MaxCallDepth
  BY <1>1, <1>2, <1>3, <1>5, CallAssumption DEF CallAssumption
<1>7. a.depth >= Len(call_stack[a.run]) + 1
  BY <1>2, <1>3, <1>5
<1>8. call_stack' = [call_stack EXCEPT ![a.run] = Append(@, a.fun)]
  BY <1>1, <1>5
<1>9. /\ native' \in Seq(Activations) /\ call_stack' \in [Runs -> Seq(Functions)]
      /\ host_call_depth' \in [Runs -> Nat]
      /\ \A i \in DOMAIN native' : limit'[native'[i].run] # 0
      /\ Counted' /\ Covered' /\ DepthBounded'
  BY <1>1, <1>2, <1>4, <1>5, <1>6, <1>7, <1>8, EnterActivation DEF runVars
<1>10. execution_budget' \in [Cells -> 0..UsizeMax]
  BY <1>1, <1>3, Consumed
<1>11. /\ limit' \in [Runs -> 0..UsizeMax] /\ invoker' \in Runs \cup {None}
       /\ wrapped' \subseteq Runs
       /\ \A r \in wrapped' \cup ({invoker'} \ {None}) : limit'[r] # 0
  BY <1>1, WrappedStarted
<1> QED
  BY <1>1, <1>9, <1>10, <1>11 DEF CallInv, TypeOK, Started, runVars

LEMMA InstructionStep ==
    ASSUME CallInv, Instruction
    PROVE  CallInv'
<1>1. /\ ~Idle /\ ConsumeStep(Top.cell) /\ MayWrap
      /\ UNCHANGED <<native, call_stack, host_call_depth, runVars, awaiting>>
  BY DEF Instruction, Running
<1>2. Top.cell \in Cells
  BY <1>1, TopFacts DEF Activations
<1>3. execution_budget' \in [Cells -> 0..UsizeMax]
  BY <1>1, <1>2, Consumed
<1>4. /\ limit' \in [Runs -> 0..UsizeMax] /\ invoker' \in Runs \cup {None}
      /\ wrapped' \subseteq Runs
      /\ \A r \in wrapped' \cup ({invoker'} \ {None}) : limit'[r] # 0
  BY <1>1, WrappedStarted
<1>5. Counted' /\ Covered' /\ DepthBounded'
  BY <1>1 DEF CallInv, Counted, Covered, DepthBounded
<1> QED
  BY <1>1, <1>3, <1>4, <1>5 DEF CallInv, TypeOK, Started, runVars

LEMMA EnterHostStep ==
    ASSUME CallInv, HostCall \/ HostRead
    PROVE  CallInv'
<1> DEFINE a == [Top EXCEPT !.kind = IF HostCall THEN "call" ELSE "read"]
<1>1. /\ ~Idle /\ ConsumeStep(Top.cell) /\ (MayWrap \/ UNCHANGED wrapped)
      /\ UNCHANGED <<call_stack, runVars, awaiting>>
  BY DEF HostCall, HostRead, Running
<1>2. /\ Top \in Activations /\ limit[Top.run] # 0
      /\ Len(call_stack[Top.run]) \in Nat /\ Top.depth >= Len(call_stack[Top.run])
  BY <1>1, TopFacts
<1>3. Top.run \in Runs /\ Top.depth \in Nat /\ Top.cell \in Cells
  BY <1>2 DEF Activations
<1>4. /\ a.kind = (IF HostCall THEN "call" ELSE "read")
      /\ a.run = Top.run /\ a.depth = Top.depth
  BY <1>2 DEF Activations
<1>5. a \in Activations
  BY <1>2 DEF Activations, HostCall, HostRead
<1>6. native' = Append(native, a)
  BY DEF HostCall, HostRead
<1>7. host_call_depth' = IF a.kind = "call"
                         THEN [host_call_depth EXCEPT ![a.run] = @ + 1]
                         ELSE host_call_depth
  BY <1>4 DEF HostCall, HostRead
<1>8. a.kind # "function"
  BY <1>4
<1> HIDE DEF a
<1>9. a.depth >= Len(call_stack[a.run]) + 0
  BY <1>2, <1>3, <1>4
<1>10. /\ native' \in Seq(Activations) /\ call_stack' \in [Runs -> Seq(Functions)]
       /\ host_call_depth' \in [Runs -> Nat]
       /\ \A i \in DOMAIN native' : limit'[native'[i].run] # 0
       /\ Counted' /\ Covered' /\ DepthBounded'
  BY <1>1, <1>2, <1>4, <1>5, <1>6, <1>7, <1>8, <1>9, EnterActivation DEF runVars
<1>11. execution_budget' \in [Cells -> 0..UsizeMax]
  BY <1>1, <1>3, Consumed
<1>12. /\ limit' \in [Runs -> 0..UsizeMax] /\ invoker' \in Runs \cup {None}
       /\ wrapped' \subseteq Runs
       /\ \A r \in wrapped' \cup ({invoker'} \ {None}) : limit'[r] # 0
  BY <1>1, WrappedStarted
<1> QED
  BY <1>1, <1>10, <1>11, <1>12 DEF CallInv, TypeOK, Started, runVars

LEMMA LeaveStep ==
    ASSUME CallInv,
           Return \/ (\E p \in Awaits : Await(p)) \/ HostReturn(Len(native))
    PROVE  CallInv'
<1>1. /\ ~Idle
      /\ native' = Front(native)
      /\ call_stack' = IF Top.kind = "function"
                       THEN [call_stack EXCEPT ![Top.run] = Front(@)]
                       ELSE call_stack
      /\ host_call_depth' = IF Top.kind = "call"
                            THEN [host_call_depth EXCEPT ![Top.run] = @ - 1]
                            ELSE host_call_depth
      /\ (MayWrap \/ UNCHANGED wrapped) /\ UNCHANGED runVars
  BY DEF Return, Await, HostReturn, LeaveFrame, Running, VMKinds
<1>2. Top \in Activations /\ limit[Top.run] # 0
  BY <1>1, TopFacts
<1>3. Top.cell \in Cells
  BY <1>2 DEF Activations
<1>4. execution_budget' \in [Cells -> 0..UsizeMax]
  <2>1. CASE UNCHANGED execution_budget
    BY <2>1 DEF CallInv, TypeOK
  <2>2. CASE ConsumeStep(Top.cell)
    BY <1>3, <2>2, Consumed
  <2> QED
    BY <2>1, <2>2 DEF Return, Await, HostReturn
<1>5. /\ awaiting' \in [Awaits -> Activations \cup {None}]
      /\ \A p \in Awaits : awaiting'[p] # None =>
           awaiting'[p].kind = "resumed" /\ limit[awaiting'[p].run] # 0
  <2>1. CASE UNCHANGED awaiting
    BY <2>1 DEF CallInv, TypeOK, Started
  <2>2. ASSUME NEW p \in Awaits, Await(p)
        PROVE  /\ awaiting' \in [Awaits -> Activations \cup {None}]
               /\ \A q \in Awaits : awaiting'[q] # None =>
                    awaiting'[q].kind = "resumed" /\ limit[awaiting'[q].run] # 0
    <3> DEFINE a == [Top EXCEPT !.kind = "resumed"]
    <3>1. a \in Activations /\ a.kind = "resumed" /\ a.run = Top.run
      BY <1>2 DEF Activations, VMKinds
    <3>2. awaiting' = [awaiting EXCEPT ![p] = a]
      BY <2>2 DEF Await
    <3> HIDE DEF a
    <3>3. awaiting \in [Awaits -> Activations \cup {None}]
      BY DEF CallInv, TypeOK
    <3>4. awaiting' \in [Awaits -> Activations \cup {None}]
      BY <3>1, <3>2, <3>3
    <3>5. \A q \in Awaits : awaiting'[q] = IF q = p THEN a ELSE awaiting[q]
      BY <3>2, <3>3
    <3>6. \A q \in Awaits : awaiting[q] # None =>
            awaiting[q].kind = "resumed" /\ limit[awaiting[q].run] # 0
      BY DEF CallInv, Started
    <3> QED
      BY <1>2, <3>1, <3>4, <3>5, <3>6
  <2> QED
    BY <2>1, <2>2 DEF Return, HostReturn
<1>6. limit' = limit
  BY <1>1 DEF runVars
<1>7. /\ native' \in Seq(Activations) /\ call_stack' \in [Runs -> Seq(Functions)]
      /\ host_call_depth' \in [Runs -> Nat]
      /\ \A i \in DOMAIN native' : limit'[native'[i].run] # 0
      /\ Counted' /\ Covered' /\ DepthBounded'
  BY <1>1, <1>6, LeaveActivation
<1>8. /\ limit' \in [Runs -> 0..UsizeMax] /\ invoker' \in Runs \cup {None}
      /\ wrapped' \subseteq Runs
      /\ \A r \in wrapped' \cup ({invoker'} \ {None}) : limit'[r] # 0
  BY <1>1, WrappedStarted
<1> QED
  BY <1>4, <1>5, <1>6, <1>7, <1>8 DEF CallInv, TypeOK, Started

LEMMA RunStep ==
    ASSUME CallInv, NEW r \in Runs, NEW steps \in StepLimits, Run(r, steps)
    PROVE  CallInv'
<1> DEFINE a == [kind |-> "module", run |-> r, fun |-> None, depth |-> 0, cell |-> r]
           n == Len(native)
<1>1. a \in Activations
  BY DEF Activations, VMKinds, Cells
<1>2. a.kind = "module" /\ a.kind # "call" /\ a.kind # "function" /\ a.run = r /\ a.depth = 0
  OBVIOUS
<1>3. native' = Append(native, a)
  BY DEF Run
<1> HIDE DEF a
<1>4. InitialBudget(steps) \in 0..UsizeMax /\ InitialBudget(steps) # 0
  BY CallAssumption DEF CallAssumption, InitialBudget
<1>5. /\ limit \in [Runs -> 0..UsizeMax] /\ execution_budget \in [Cells -> 0..UsizeMax]
      /\ native \in Seq(Activations) /\ n \in Nat /\ call_stack \in [Runs -> Seq(Functions)]
  BY DEF CallInv, TypeOK
<1>6. /\ limit' \in [Runs -> 0..UsizeMax] /\ limit'[r] # 0
      /\ \A q \in Runs : limit[q] # 0 => limit'[q] # 0
  BY <1>4, <1>5 DEF Run
<1>7. execution_budget' \in [Cells -> 0..UsizeMax]
  BY <1>4, <1>5 DEF Run
<1>8. Len(call_stack[r]) = 0
  <2>1. \A i \in 1..n : native[i].run # r
    BY <1>5 DEF CallInv, Started, Run
  <2>2. FramesOf(native, r, n) = {}
    BY <2>1 DEF FramesOf
  <2>3. Len(call_stack[r]) = Cardinality(FramesOf(native, r, n))
    BY DEF CallInv, Counted
  <2> QED
    BY <2>2, <2>3, FS_EmptySet
<1>9. a.depth >= Len(call_stack[a.run]) + 0
  BY <1>2, <1>8
<1>10. UNCHANGED <<call_stack, host_call_depth, wrapped, awaiting>>
  BY DEF Run
<1>11. /\ native' \in Seq(Activations) /\ call_stack' \in [Runs -> Seq(Functions)]
       /\ host_call_depth' \in [Runs -> Nat]
       /\ \A i \in DOMAIN native' : limit'[native'[i].run] # 0
       /\ Counted' /\ Covered' /\ DepthBounded'
  BY <1>1, <1>2, <1>3, <1>6, <1>9, <1>10, EnterActivation
<1>12. /\ invoker' \in Runs \cup {None} /\ wrapped' \subseteq Runs
       /\ \A q \in wrapped' \cup ({invoker'} \ {None}) : limit'[q] # 0
  BY <1>6 DEF Run, CallInv, TypeOK, Started
<1>13. \A p \in Awaits : awaiting[p] # None =>
         awaiting[p].kind = "resumed" /\ limit'[awaiting[p].run] # 0
  <2> SUFFICES ASSUME NEW p \in Awaits, awaiting[p] # None
               PROVE  awaiting[p].kind = "resumed" /\ limit'[awaiting[p].run] # 0
    OBVIOUS
  <2>1. awaiting[p] \in Activations
    BY DEF CallInv, TypeOK
  <2>2. awaiting[p].run \in Runs
    BY <2>1 DEF Activations
  <2> QED
    BY <1>6, <2>2 DEF CallInv, Started
<1>14. awaiting' \in [Awaits -> Activations \cup {None}]
  BY <1>10 DEF CallInv, TypeOK
<1> QED
  BY <1>6, <1>7, <1>10, <1>11, <1>12, <1>13, <1>14 DEF CallInv, TypeOK, Started

LEMMA CallbackStep ==
    ASSUME CallInv, NEW r \in Runs, NEW f \in Functions, NEW c \in Cells, Callback(r, f, c)
    PROVE  CallInv'
<1> DEFINE a == [kind |-> "function", run |-> r, fun |-> f,
                 depth |-> Len(call_stack[r]) + 1, cell |-> c]
<1>1. call_stack \in [Runs -> Seq(Functions)] /\ Len(call_stack[r]) \in Nat
  BY DEF CallInv, TypeOK
<1>2. a \in Activations
  BY <1>1 DEF Activations, VMKinds
<1>3. /\ a.kind = "function" /\ a.kind # "call" /\ a.run = r /\ a.fun = f
      /\ a.depth = Len(call_stack[r]) + 1
  OBVIOUS
<1>4. /\ Len(call_stack[r]) < MaxCallDepth
      /\ native' = Append(native, a)
      /\ call_stack' = [call_stack EXCEPT ![r] = Append(@, f)]
      /\ r \in wrapped
      /\ UNCHANGED <<host_call_depth, runVars, wrapped, awaiting>>
  BY DEF Callback, EnterFunction, Admitted, CallbackDepth
<1> HIDE DEF a
<1>5. a.depth >= Len(call_stack[a.run]) + 1
  BY <1>1, <1>3
<1>6. limit[r] # 0 /\ limit' = limit
  BY <1>4 DEF CallInv, Started, runVars
<1>7. call_stack' = [call_stack EXCEPT ![a.run] = Append(@, a.fun)]
  BY <1>3, <1>4
<1>8. /\ native' \in Seq(Activations) /\ call_stack' \in [Runs -> Seq(Functions)]
      /\ host_call_depth' \in [Runs -> Nat]
      /\ \A i \in DOMAIN native' : limit'[native'[i].run] # 0
      /\ Counted' /\ Covered' /\ DepthBounded'
  BY <1>2, <1>3, <1>4, <1>5, <1>6, <1>7, EnterActivation
<1>9. execution_budget' \in [Cells -> 0..UsizeMax]
  BY DEF Callback, CallbackBudget, CallInv, TypeOK
<1>10. /\ limit' \in [Runs -> 0..UsizeMax] /\ invoker' \in Runs \cup {None}
       /\ wrapped' \subseteq Runs
       /\ \A q \in wrapped' \cup ({invoker'} \ {None}) : limit'[q] # 0
  BY <1>4, WrappedStarted
<1> QED
  BY <1>4, <1>6, <1>8, <1>9, <1>10 DEF CallInv, TypeOK, Started

LEMMA ResumeStep ==
    ASSUME CallInv, NEW p \in Awaits, Resume(p) \/ Reject(p)
    PROVE  CallInv'
<1> DEFINE a == awaiting[p]
<1>1. /\ native = <<>> /\ a # None
      /\ awaiting' = [awaiting EXCEPT ![p] = None]
      /\ UNCHANGED <<call_stack, host_call_depth, execution_budget, runVars, wrapped>>
      /\ native' = Append(native, a) \/ native' = native
  <2>1. <<a>> = Append(<<>>, a)
    OBVIOUS
  <2> QED
    BY <2>1 DEF Resume, Reject, Idle
<1>2. awaiting \in [Awaits -> Activations \cup {None}]
  BY DEF CallInv, TypeOK
<1>3. a \in Activations
  BY <1>1, <1>2
<1>4. a.kind = "resumed" /\ limit[a.run] # 0 /\ a.run \in Runs /\ a.depth \in Nat
  BY <1>1, <1>3 DEF CallInv, Started, Activations
<1>5. awaiting' \in [Awaits -> Activations \cup {None}]
  BY <1>1, <1>2
<1>6. \A q \in Awaits : awaiting'[q] # None => awaiting'[q] = awaiting[q]
  BY <1>1, <1>2
<1>7. \A q \in Awaits : awaiting'[q] # None =>
        awaiting'[q].kind = "resumed" /\ limit[awaiting'[q].run] # 0
  BY <1>6 DEF CallInv, Started
<1>8. limit' = limit
  BY <1>1 DEF runVars
<1>9. Len(call_stack[a.run]) = 0
  <2>1. FramesOf(native, a.run, Len(native)) = {}
    BY <1>1 DEF FramesOf
  <2>2. Len(call_stack[a.run]) = Cardinality(FramesOf(native, a.run, Len(native)))
    BY <1>4 DEF CallInv, Counted
  <2> QED
    BY <2>1, <2>2, FS_EmptySet
<1>10. /\ native' \in Seq(Activations) /\ call_stack' \in [Runs -> Seq(Functions)]
       /\ host_call_depth' \in [Runs -> Nat]
       /\ \A i \in DOMAIN native' : limit'[native'[i].run] # 0
       /\ Counted' /\ Covered' /\ DepthBounded'
  <2>1. CASE native' = Append(native, a)
    <3> HIDE DEF a
    <3>1. a.kind # "function" /\ a.kind # "call"
      BY <1>4
    <3>2. a.depth >= Len(call_stack[a.run]) + 0
      BY <1>4, <1>9
    <3> QED
      BY <1>1, <1>3, <1>4, <1>8, <2>1, <3>1, <3>2, EnterActivation
  <2>2. CASE native' = native
    <3>1. Counted' /\ Covered' /\ DepthBounded'
      BY <1>1, <2>2 DEF CallInv, Counted, Covered, DepthBounded
    <3> QED
      BY <1>1, <1>8, <2>2, <3>1 DEF CallInv, TypeOK, Started
  <2> QED
    BY <1>1, <2>1, <2>2
<1>11. /\ limit' \in [Runs -> 0..UsizeMax] /\ invoker' \in Runs \cup {None}
       /\ wrapped' \subseteq Runs
       /\ \A q \in wrapped' \cup ({invoker'} \ {None}) : limit'[q] # 0
  BY <1>1, WrappedStarted
<1> QED
  BY <1>1, <1>5, <1>7, <1>8, <1>10, <1>11 DEF CallInv, TypeOK, Started

LEMMA InitInv == Init => CallInv
<1> SUFFICES ASSUME Init PROVE CallInv
  OBVIOUS
<1>1. TypeOK
  BY CallAssumption DEF CallAssumption, Init, TypeOK
<1>2. Started
  BY DEF Init, Started
<1>3. Counted
  <2> SUFFICES ASSUME NEW r \in Runs
               PROVE  /\ Len(call_stack[r]) = Cardinality(FramesOf(native, r, Len(native)))
                      /\ host_call_depth[r] = Cardinality(HostCallsOf(native, r))
    BY DEF Counted
  <2>1. FramesOf(native, r, Len(native)) = {} /\ HostCallsOf(native, r) = {}
    BY DEF Init, FramesOf, HostCallsOf
  <2> QED
    BY <2>1, FS_EmptySet DEF Init
<1>4. Covered
  BY DEF Init, Covered
<1>5. DepthBounded
  BY CallAssumption DEF CallAssumption, Init, DepthBounded
<1> QED
  BY <1>1, <1>2, <1>3, <1>4, <1>5 DEF CallInv

\* The counters that callbacks go by describe the native stack, on which every
\* frame's call_depth covers the frames of its run: the inductive invariant.
THEOREM CallsCorrect == Spec => []CallInv
<1>1. CallInv /\ [Next]_vars => CallInv'
  <2> SUFFICES ASSUME CallInv, [Next]_vars PROVE CallInv'
    OBVIOUS
  <2>1. CASE Instruction
    BY <2>1, InstructionStep
  <2>2. ASSUME NEW f \in Functions, Call(f) PROVE CallInv'
    BY <2>2, CallStep
  <2>3. CASE HostCall \/ HostRead
    BY <2>3, EnterHostStep
  <2>4. CASE Return \/ (\E p \in Awaits : Await(p)) \/ HostReturn(Len(native))
    BY <2>4, LeaveStep
  <2>5. ASSUME NEW r \in Runs, NEW steps \in StepLimits, Run(r, steps) PROVE CallInv'
    BY <2>5, RunStep
  <2>6. ASSUME NEW r \in Runs, NEW f \in Functions, NEW c \in Cells, Callback(r, f, c)
        PROVE  CallInv'
    BY <2>6, CallbackStep
  <2>7. ASSUME NEW p \in Awaits, Resume(p) \/ Reject(p) PROVE CallInv'
    BY <2>7, ResumeStep
  <2>8. CASE UNCHANGED vars
    BY <2>8 DEF vars, runVars, CallInv, TypeOK, Started, Counted, Covered, DepthBounded
  <2> QED
    BY <2>1, <2>2, <2>3, <2>4, <2>5, <2>6, <2>7, <2>8 DEF Next, VMStep, HostStep
<1> QED
  BY <1>1, InitInv, PTL DEF Spec

\* Every reachable state of the call frames is well typed; in particular no guard
\* takes an entry off an empty call stack or lowers a host_call_depth of 0.
THEOREM CallTypesCorrect == Spec => []TypeOK
<1>1. CallInv => TypeOK
  BY DEF CallInv
<1> QED
  BY <1>1, CallsCorrect, PTL

\* max_call_depth bounds the function frames of every run, whatever callbacks,
\* nested runs and resumed frames there are.
THEOREM DepthIsBounded == Spec => []DepthBounded
<1>1. CallInv => DepthBounded
  BY DEF CallInv
<1> QED
  BY <1>1, CallsCorrect, PTL

-----------------------------------------------------------------------------
(* Budgets.                                                                *)

\* Only a function entered on top of an activation of its own run matters.
LEMMA PushKeepsSteps ==
    ASSUME CallInv, NoStepsFromTheHost, NEW a \in Activations,
           native' = Append(native, a),
           ~Idle /\ a.kind = "function" /\ a.run = Top.run => a.cell \in {Top.cell, a.run}
    PROVE  NoStepsFromTheHost'
<1>1. native \in Seq(Activations) /\ Len(native) \in Nat
  BY DEF CallInv, TypeOK
<1>2. /\ Len(native') = Len(native) + 1 /\ native'[Len(native) + 1] = a
      /\ \A i \in 1..Len(native) : native'[i] = native[i]
  BY <1>1
<1>3. SUFFICES ASSUME NEW i \in 2..Len(native'),
                      native'[i].kind = "function", native'[i].run = native'[i - 1].run
               PROVE  native'[i].cell \in {native'[i - 1].cell, native'[i].run}
  BY DEF NoStepsFromTheHost
<1>4. i - 1 \in 1..Len(native)
  BY <1>1, <1>2
<1>5. CASE i = Len(native) + 1
  <2>1. ~Idle
    BY <1>1, <1>4 DEF Idle
  <2>2. native'[i] = a /\ native'[i - 1] = Top
    BY <1>1, <1>2, <1>4, <1>5, <2>1, TopFacts
  <2> QED
    BY <1>3, <2>1, <2>2
<1>6. CASE i # Len(native) + 1
  <2>1. i \in 2..Len(native) /\ i \in 1..Len(native)
    BY <1>1, <1>2, <1>6
  <2>2. native'[i] = native[i] /\ native'[i - 1] = native[i - 1]
    BY <1>2, <1>4, <2>1
  <2> QED
    BY <1>3, <2>1, <2>2 DEF NoStepsFromTheHost
<1> QED
  BY <1>5, <1>6

LEMMA PopKeepsSteps ==
    ASSUME CallInv, NoStepsFromTheHost, ~Idle, native' = Front(native)
    PROVE  NoStepsFromTheHost'
<1>1. /\ native \in Seq(Activations) /\ native # <<>>
  BY DEF CallInv, TypeOK, Idle
<1>2. /\ Len(native) \in Nat \ {0} /\ Len(native') = Len(native) - 1
      /\ \A i \in 1..(Len(native) - 1) : native'[i] = native[i]
  BY <1>1, FrontLast
<1>3. SUFFICES ASSUME NEW i \in 2..Len(native'),
                      native'[i].kind = "function", native'[i].run = native'[i - 1].run
               PROVE  native'[i].cell \in {native'[i - 1].cell, native'[i].run}
  BY DEF NoStepsFromTheHost
<1>4. /\ i \in 2..Len(native) /\ i \in 1..(Len(native) - 1) /\ i - 1 \in 1..(Len(native) - 1)
  BY <1>2
<1>5. native'[i] = native[i] /\ native'[i - 1] = native[i - 1]
  BY <1>2, <1>4
<1> QED
  BY <1>3, <1>4, <1>5 DEF NoStepsFromTheHost

\* In a host call the invoker of the run cannot take the callback for a late one.
LEMMA HostCallIsSeen ==
    ASSUME CallInv, ~Idle, ~Running, HostEntries = {"call"}
    PROVE  DuringRun(Top.run)
<1>1. /\ native \in Seq(Activations) /\ Len(native) \in Nat \ {0}
      /\ Top = native[Len(native)] /\ Top \in Activations
  BY TopFacts
<1>2. Top.kind = "call" /\ Top.run \in Runs
  BY <1>1 DEF Running, Activations
<1>3. Len(native) \in HostCallsOf(native, Top.run)
  BY <1>1, <1>2 DEF HostCallsOf
<1>4. IsFiniteSet(HostCallsOf(native, Top.run)) /\ Cardinality(HostCallsOf(native, Top.run)) \in Nat
  BY <1>1, HostCallsFinite
<1>5. Cardinality(HostCallsOf(native, Top.run)) # 0
  BY <1>3, <1>4, FS_EmptySet
<1>6. host_call_depth[Top.run] = Cardinality(HostCallsOf(native, Top.run))
  BY <1>2 DEF CallInv, Counted
<1>7. host_call_depth[Top.run] > 0
  BY <1>4, <1>5, <1>6
<1> QED
  BY <1>7 DEF DuringRun

\* As long as every way into the host holds a HostCallDepthGuard, a synchronous
\* callback through an invoker of the calling run is paid from the budget of its
\* caller or of the run.
THEOREM NoStepsGained ==
    ASSUME HostEntries = {"call"}
    PROVE  Spec => []NoStepsFromTheHost
<1>1. Init => NoStepsFromTheHost
  BY DEF Init, NoStepsFromTheHost
<1>2. CallInv /\ NoStepsFromTheHost /\ [Next]_vars => NoStepsFromTheHost'
  <2> SUFFICES ASSUME CallInv, NoStepsFromTheHost, [Next]_vars
               PROVE  NoStepsFromTheHost'
    OBVIOUS
  <2>1. CASE UNCHANGED native
    BY <2>1 DEF NoStepsFromTheHost
  <2>2. ASSUME NEW f \in Functions, Call(f) PROVE NoStepsFromTheHost'
    <3> DEFINE a == [kind |-> "function", run |-> Top.run, fun |-> f,
                     depth |-> Top.depth + 1, cell |-> Top.cell]
    <3>1. ~Idle /\ native' = Append(native, a)
      BY <2>2 DEF Call, EnterFunction, Running
    <3>2. Top \in Activations
      BY <3>1, TopFacts
    <3>3. a \in Activations
      BY <3>2 DEF Activations, VMKinds
    <3>4. a.cell = Top.cell
      OBVIOUS
    <3> HIDE DEF a
    <3> QED
      BY <3>1, <3>3, <3>4, PushKeepsSteps
  <2>3. CASE HostCall \/ HostRead
    <3> DEFINE a == [Top EXCEPT !.kind = IF HostCall THEN "call" ELSE "read"]
    <3>1. ~Idle /\ native' = Append(native, a)
      BY <2>3 DEF HostCall, HostRead, Running
    <3>2. Top \in Activations
      BY <3>1, TopFacts
    <3>3. a \in Activations /\ a.kind # "function"
      BY <2>3, <3>2 DEF Activations, HostCall, HostRead
    <3> HIDE DEF a
    <3> QED
      BY <3>1, <3>3, PushKeepsSteps
  <2>4. CASE Return \/ (\E p \in Awaits : Await(p)) \/ HostReturn(Len(native))
    BY <2>4, PopKeepsSteps DEF Return, Await, HostReturn, LeaveFrame, Running
  <2>5. ASSUME NEW r \in Runs, NEW steps \in StepLimits, Run(r, steps)
        PROVE  NoStepsFromTheHost'
    <3> DEFINE a == [kind |-> "module", run |-> r, fun |-> None, depth |-> 0, cell |-> r]
    <3>1. native' = Append(native, a) /\ a \in Activations /\ a.kind # "function"
      BY <2>5 DEF Run, Activations, VMKinds, Cells
    <3> HIDE DEF a
    <3> QED
      BY <3>1, PushKeepsSteps
  <2>6. ASSUME NEW r \in Runs, NEW f \in Functions, NEW c \in Cells, Callback(r, f, c)
        PROVE  NoStepsFromTheHost'
    <3> DEFINE a == [kind |-> "function", run |-> r, fun |-> f,
                     depth |-> Len(call_stack[r]) + 1, cell |-> c]
    <3>1. /\ HostRuns /\ native' = Append(native, a)
          /\ DuringRun(r) => c = r
      BY <2>6 DEF Callback, EnterFunction, CallbackDepth, CallbackCell
    <3>2. Len(call_stack[r]) \in Nat
      BY DEF CallInv, TypeOK
    <3>3. a \in Activations
      BY <3>2 DEF Activations, VMKinds
    <3>4. a.run = r /\ a.cell = c
      OBVIOUS
    <3> HIDE DEF a
    <3>5. ~Idle /\ a.run = Top.run => a.cell = a.run
      BY <3>1, <3>4, HostCallIsSeen DEF HostRuns
    <3> QED
      BY <3>1, <3>3, <3>5, PushKeepsSteps
  <2>7. ASSUME NEW p \in Awaits, Resume(p) PROVE NoStepsFromTheHost'
    <3>1. Len(native') = 1
      BY <2>7 DEF Resume
    <3> QED
      BY <3>1 DEF NoStepsFromTheHost
  <2> QED
    BY <2>1, <2>2, <2>3, <2>4, <2>5, <2>6, <2>7
       DEF Next, VMStep, HostStep, vars, Instruction, Reject
<1> QED
  BY <1>1, <1>2, CallsCorrect, PTL DEF Spec

-----------------------------------------------------------------------------
(* What a step can do to the native stack.                                 *)

\* The frames of function f that run r is in.
FramesOn(r, f) == {i \in DOMAIN call_stack[r] : call_stack[r][i] = f}

BaseKinds == {"module", "resumed"}

Entered(a) ==
    /\ native' = Append(native, a)
    /\ call_stack' = IF a.kind = "function"
                     THEN [call_stack EXCEPT ![a.run] = Append(@, a.fun)]
                     ELSE call_stack
    /\ a.kind = "function" => Cardinality(FramesOn(a.run, a.fun)) < MaxRecursive
    /\ a.kind \in BaseKinds => \A i \in DOMAIN native : native[i].run # a.run
    /\ a.kind \in HostEntries => Running

Left ==
    /\ ~Idle
    /\ native' = Front(native)
    /\ call_stack' = IF Top.kind = "function"
                     THEN [call_stack EXCEPT ![Top.run] = Front(@)]
                     ELSE call_stack

\* Every step leaves the stacks alone, enters one activation or leaves the top.
LEMMA StackStep ==
    ASSUME CallInv, [Next]_vars
    PROVE  \/ UNCHANGED <<native, call_stack>>
           \/ \E a \in Activations : Entered(a)
           \/ Left
<1>1. ASSUME NEW f \in Functions, Call(f) PROVE \E a \in Activations : Entered(a)
  <2> DEFINE a == [kind |-> "function", run |-> Top.run, fun |-> f,
                   depth |-> Top.depth + 1, cell |-> Top.cell]
  <2>1. /\ ~Idle /\ native' = Append(native, a)
        /\ call_stack' = [call_stack EXCEPT ![Top.run] = Append(@, f)]
        /\ Cardinality(FramesOn(Top.run, f)) < MaxRecursive
    BY <1>1 DEF Call, EnterFunction, Running, Admitted, FramesOn
  <2>2. Top \in Activations
    BY <2>1, TopFacts
  <2>3. a \in Activations
    BY <2>2 DEF Activations, VMKinds
  <2>4. /\ a.kind = "function" /\ a.run = Top.run /\ a.fun = f
        /\ a.kind \notin BaseKinds /\ a.kind \notin HostEntries
    BY CallAssumption DEF CallAssumption, BaseKinds
  <2> HIDE DEF a
  <2>5. Entered(a)
    BY <2>1, <2>4 DEF Entered
  <2> QED
    BY <2>3, <2>5
<1>2. ASSUME HostCall \/ HostRead PROVE \E a \in Activations : Entered(a)
  <2> DEFINE a == [Top EXCEPT !.kind = IF HostCall THEN "call" ELSE "read"]
  <2>1. /\ ~Idle /\ Running /\ native' = Append(native, a) /\ call_stack' = call_stack
    BY <1>2 DEF HostCall, HostRead, Running
  <2>2. Top \in Activations
    BY <2>1, TopFacts
  <2>3. a \in Activations /\ a.kind # "function" /\ a.kind \notin BaseKinds
    BY <1>2, <2>2 DEF Activations, HostCall, HostRead, BaseKinds
  <2> HIDE DEF a
  <2>4. Entered(a)
    BY <2>1, <2>3 DEF Entered
  <2> QED
    BY <2>3, <2>4
<1>3. ASSUME Return \/ (\E p \in Awaits : Await(p)) \/ HostReturn(Len(native))
      PROVE  Left
  BY <1>3 DEF Return, Await, HostReturn, LeaveFrame, Running, Left, VMKinds
<1>4. ASSUME NEW r \in Runs, NEW steps \in StepLimits, Run(r, steps)
      PROVE  \E a \in Activations : Entered(a)
  <2> DEFINE a == [kind |-> "module", run |-> r, fun |-> None, depth |-> 0, cell |-> r]
  <2>1. /\ native' = Append(native, a) /\ call_stack' = call_stack
        /\ a \in Activations /\ limit[r] = 0
    BY <1>4 DEF Run, Activations, VMKinds, Cells
  <2>2. a.kind = "module" /\ a.run = r /\ a.kind # "function" /\ a.kind \notin HostEntries
    BY CallAssumption DEF CallAssumption
  <2> HIDE DEF a
  <2>3. \A i \in DOMAIN native : native[i].run # r
    BY <2>1 DEF CallInv, Started
  <2>4. Entered(a)
    BY <2>1, <2>2, <2>3 DEF Entered
  <2> QED
    BY <2>1, <2>4
<1>5. ASSUME NEW r \in Runs, NEW f \in Functions, NEW c \in Cells, Callback(r, f, c)
      PROVE  \E a \in Activations : Entered(a)
  <2> DEFINE a == [kind |-> "function", run |-> r, fun |-> f,
                   depth |-> Len(call_stack[r]) + 1, cell |-> c]
  <2>1. /\ native' = Append(native, a)
        /\ call_stack' = [call_stack EXCEPT ![r] = Append(@, f)]
        /\ Cardinality(FramesOn(r, f)) < MaxRecursive
    BY <1>5 DEF Callback, EnterFunction, CallbackDepth, Admitted, FramesOn
  <2>2. Len(call_stack[r]) \in Nat
    BY DEF CallInv, TypeOK
  <2>3. a \in Activations
    BY <2>2 DEF Activations, VMKinds
  <2>4. /\ a.kind = "function" /\ a.run = r /\ a.fun = f
        /\ a.kind \notin BaseKinds /\ a.kind \notin HostEntries
    BY CallAssumption DEF CallAssumption, BaseKinds
  <2> HIDE DEF a
  <2>5. Entered(a)
    BY <2>1, <2>4 DEF Entered
  <2> QED
    BY <2>3, <2>5
<1>6. ASSUME NEW p \in Awaits, Resume(p) PROVE \E a \in Activations : Entered(a)
  <2> DEFINE a == awaiting[p]
  <2>1. /\ native = <<>> /\ a # None /\ call_stack' = call_stack /\ native' = <<a>>
    BY <1>6 DEF Resume, Idle
  <2>2. a \in Activations /\ a.kind = "resumed"
    BY <2>1 DEF CallInv, TypeOK, Started
  <2> HIDE DEF a
  <2>3. native' = Append(native, a)
    BY <2>1
  <2>4. a.kind # "function" /\ a.kind \notin HostEntries
    BY <2>2, CallAssumption DEF CallAssumption
  <2>5. Entered(a)
    BY <2>1, <2>3, <2>4 DEF Entered
  <2> QED
    BY <2>2, <2>5
<1>7. ASSUME NEW p \in Awaits, Reject(p) PROVE UNCHANGED <<native, call_stack>>
  BY <1>7 DEF Reject
<1>8. ASSUME Instruction \/ UNCHANGED vars PROVE UNCHANGED <<native, call_stack>>
  BY <1>8 DEF Instruction, vars
<1> QED
  BY <1>1, <1>2, <1>3, <1>4, <1>5, <1>6, <1>7, <1>8 DEF Next, VMStep, HostStep

\* The stacks after a push and after a pop.
LEMMA EnteredFacts ==
    ASSUME CallInv, NEW a \in Activations, Entered(a)
    PROVE  /\ native \in Seq(Activations) /\ Len(native) \in Nat
           /\ Len(native') = Len(native) + 1
           /\ native'[Len(native) + 1] = a
           /\ \A i \in 1..Len(native) : native'[i] = native[i]
           /\ DOMAIN native' = 1..(Len(native) + 1) /\ DOMAIN native = 1..Len(native)
           /\ a.run \in Runs
           /\ \A r \in Runs : /\ call_stack[r] \in Seq(Functions)
                              /\ call_stack'[r] = IF a.kind = "function" /\ a.run = r
                                                  THEN Append(call_stack[r], a.fun)
                                                  ELSE call_stack[r]
<1>1. native \in Seq(Activations) /\ call_stack \in [Runs -> Seq(Functions)]
  BY DEF CallInv, TypeOK
<1>2. native' = Append(native, a)
  BY DEF Entered
<1>3. a.run \in Runs
  BY DEF Activations
<1>4. \A r \in Runs : call_stack'[r] = IF a.kind = "function" /\ a.run = r
                                       THEN Append(call_stack[r], a.fun)
                                       ELSE call_stack[r]
  BY <1>1, <1>3 DEF Entered
<1> QED
  BY <1>1, <1>2, <1>3, <1>4

LEMMA LeftFacts ==
    ASSUME CallInv, Left
    PROVE  /\ native \in Seq(Activations) /\ native # <<>> /\ Len(native) \in Nat \ {0}
           /\ Top = native[Len(native)] /\ Top = Last(native) /\ Top.run \in Runs
           /\ Len(native') = Len(native) - 1
           /\ \A i \in 1..(Len(native) - 1) : native'[i] = native[i]
           /\ DOMAIN native' = 1..(Len(native) - 1) /\ DOMAIN native = 1..Len(native)
           /\ \A r \in Runs :
                IF Top.kind = "function" /\ Top.run = r
                THEN /\ Len(call_stack[r]) \in Nat \ {0}
                     /\ Len(call_stack'[r]) = Len(call_stack[r]) - 1
                     /\ \A i \in 1..(Len(call_stack[r]) - 1) :
                          call_stack'[r][i] = call_stack[r][i]
                     /\ DOMAIN call_stack'[r] = 1..(Len(call_stack[r]) - 1)
                     /\ DOMAIN call_stack[r] = 1..Len(call_stack[r])
                ELSE call_stack'[r] = call_stack[r]
<1> DEFINE n == Len(native)
<1>1. /\ ~Idle /\ native' = Front(native)
      /\ call_stack' = IF Top.kind = "function"
                       THEN [call_stack EXCEPT ![Top.run] = Front(@)]
                       ELSE call_stack
  BY DEF Left
<1>2. /\ native \in Seq(Activations) /\ native # <<>> /\ n \in Nat \ {0}
      /\ Top = native[n] /\ Top = Last(native) /\ Top \in Activations
  BY <1>1, TopFacts DEF Top
<1>3. /\ native' \in Seq(Activations) /\ Len(native') = n - 1
      /\ \A i \in 1..(n - 1) : native'[i] = native[i]
  BY <1>1, <1>2, FrontLast
<1>4. Top.run \in Runs /\ call_stack \in [Runs -> Seq(Functions)]
  BY <1>2 DEF Activations, CallInv, TypeOK
<1>5. ASSUME NEW r \in Runs
      PROVE  IF Top.kind = "function" /\ Top.run = r
             THEN /\ Len(call_stack[r]) \in Nat \ {0}
                  /\ Len(call_stack'[r]) = Len(call_stack[r]) - 1
                  /\ \A i \in 1..(Len(call_stack[r]) - 1) :
                       call_stack'[r][i] = call_stack[r][i]
                  /\ DOMAIN call_stack'[r] = 1..(Len(call_stack[r]) - 1)
                  /\ DOMAIN call_stack[r] = 1..Len(call_stack[r])
             ELSE call_stack'[r] = call_stack[r]
  <2>1. CASE Top.kind = "function" /\ Top.run = r
    <3>1. call_stack'[r] = Front(call_stack[r]) /\ call_stack[r] \in Seq(Functions)
      BY <1>1, <1>4, <2>1
    <3>2. n \in FramesOf(native, r, n)
      <4>1. n \in 1..n
        BY <1>2
      <4> QED
        BY <1>2, <2>1, <4>1 DEF FramesOf
    <3>3. IsFiniteSet(FramesOf(native, r, n)) /\ Cardinality(FramesOf(native, r, n)) \in Nat
      BY <1>2, FramesFinite
    <3>4. Len(call_stack[r]) # 0
      BY <3>2, <3>3, FS_EmptySet DEF CallInv, Counted
    <3>5. call_stack[r] # <<>>
      BY <3>4
    <3> QED
      BY <2>1, <3>1, <3>5, FrontLast
  <2>2. CASE ~(Top.kind = "function" /\ Top.run = r)
    BY <1>1, <1>4, <2>2
  <2> QED
    BY <2>1, <2>2
<1> QED
  BY <1>2, <1>3, <1>4, <1>5

-----------------------------------------------------------------------------
(* Recursion.                                                              *)

\* Appending to a sequence adds at most one index, and none of another value.
LEMMA AppendIndices ==
    ASSUME NEW S, NEW s \in Seq(S), NEW g, NEW f
    PROVE  {i \in DOMAIN Append(s, g) : Append(s, g)[i] = f}
             = {i \in DOMAIN s : s[i] = f} \cup (IF g = f THEN {Len(s) + 1} ELSE {})
<1>1. /\ Len(s) \in Nat /\ DOMAIN s = 1..Len(s) /\ DOMAIN Append(s, g) = 1..(Len(s) + 1)
      /\ Append(s, g)[Len(s) + 1] = g
      /\ \A i \in 1..Len(s) : Append(s, g)[i] = s[i]
  OBVIOUS
<1> DEFINE t == Append(s, g)
<1> HIDE DEF t
<1>2. /\ DOMAIN t = 1..(Len(s) + 1) /\ t[Len(s) + 1] = g
      /\ \A i \in 1..Len(s) : t[i] = s[i]
  BY <1>1 DEF t
<1>3. {i \in DOMAIN t : t[i] = f}
        = {i \in DOMAIN s : s[i] = f} \cup (IF g = f THEN {Len(s) + 1} ELSE {})
  BY <1>1, <1>2
<1> QED
  BY <1>3 DEF t

LEMMA FramesOnFinite ==
    ASSUME CallInv, NEW r \in Runs, NEW f
    PROVE  IsFiniteSet(FramesOn(r, f)) /\ Cardinality(FramesOn(r, f)) \in Nat
<1>1. call_stack[r] \in Seq(Functions)
  BY DEF CallInv, TypeOK
<1>2. IsFiniteSet(1..Len(call_stack[r])) /\ DOMAIN call_stack[r] = 1..Len(call_stack[r])
  BY <1>1, FS_Interval
<1>3. FramesOn(r, f) \in SUBSET (1..Len(call_stack[r]))
  BY <1>2 DEF FramesOn
<1>4. IsFiniteSet(FramesOn(r, f))
  BY <1>2, <1>3, FS_Subset
<1> QED
  BY <1>4, FS_CardinalityType

\* max_recursive_call_depth bounds the frames of one function in every run, also
\* when host callbacks, nested runs and resumed frames come in between.
THEOREM RecursionIsBounded == Spec => []RecursionBounded
<1>1. Init => RecursionBounded
  <2> SUFFICES ASSUME Init, NEW r \in Runs, NEW f \in Functions
               PROVE  Cardinality({i \in DOMAIN call_stack[r] : call_stack[r][i] = f})
                        <= MaxRecursive
    BY DEF RecursionBounded
  <2>1. {i \in DOMAIN call_stack[r] : call_stack[r][i] = f} = {}
    BY DEF Init
  <2> QED
    BY <2>1, FS_EmptySet, CallAssumption DEF CallAssumption
<1>2. CallInv /\ RecursionBounded /\ [Next]_vars => RecursionBounded'
  <2> SUFFICES ASSUME CallInv, RecursionBounded, [Next]_vars,
                      NEW r \in Runs, NEW f \in Functions
               PROVE  Cardinality(FramesOn(r, f)') <= MaxRecursive
    BY DEF RecursionBounded, FramesOn
  <2>1. /\ IsFiniteSet(FramesOn(r, f)) /\ Cardinality(FramesOn(r, f)) \in Nat
        /\ Cardinality(FramesOn(r, f)) <= MaxRecursive
    BY FramesOnFinite DEF RecursionBounded, FramesOn
  <2>2. CASE UNCHANGED <<native, call_stack>>
    BY <2>1, <2>2 DEF FramesOn
  <2>3. ASSUME NEW a \in Activations, Entered(a)
        PROVE  Cardinality(FramesOn(r, f)') <= MaxRecursive
    <3>1. /\ call_stack[r] \in Seq(Functions)
          /\ call_stack'[r] = IF a.kind = "function" /\ a.run = r
                              THEN Append(call_stack[r], a.fun)
                              ELSE call_stack[r]
      BY <2>3, EnteredFacts
    <3>2. CASE a.kind = "function" /\ a.run = r /\ a.fun = f
      <4>1. Cardinality(FramesOn(r, f)) < MaxRecursive
        BY <2>3, <3>2 DEF Entered
      <4>2. FramesOn(r, f)' = FramesOn(r, f) \cup {Len(call_stack[r]) + 1}
        BY <3>1, <3>2, AppendIndices DEF FramesOn
      <4>3. Len(call_stack[r]) + 1 \notin FramesOn(r, f)
        BY <3>1 DEF FramesOn
      <4>4. Cardinality(FramesOn(r, f)') = Cardinality(FramesOn(r, f)) + 1
        BY <2>1, <4>2, <4>3, FS_AddElement
      <4> QED
        BY <2>1, <4>1, <4>4, CallAssumption DEF CallAssumption
    <3>3. CASE ~(a.kind = "function" /\ a.run = r /\ a.fun = f)
      <4>1. FramesOn(r, f)' = FramesOn(r, f)
        <5>1. CASE a.kind = "function" /\ a.run = r
          <6>1. a.fun # f
            BY <3>3, <5>1
          <6>2. {i \in DOMAIN Append(call_stack[r], a.fun) : Append(call_stack[r], a.fun)[i] = f}
                  = {i \in DOMAIN call_stack[r] : call_stack[r][i] = f} \cup {}
            BY <3>1, <6>1, AppendIndices
          <6> QED
            BY <3>1, <5>1, <6>2 DEF FramesOn
        <5>2. CASE ~(a.kind = "function" /\ a.run = r)
          BY <3>1, <5>2 DEF FramesOn
        <5> QED
          BY <5>1, <5>2
      <4> QED
        BY <2>1, <4>1
    <3> QED
      BY <3>2, <3>3
  <2>4. CASE Left
    <3>1. FramesOn(r, f)' \in SUBSET FramesOn(r, f)
      <4>1. CASE Top.kind = "function" /\ Top.run = r
        <5>1. /\ Len(call_stack[r]) \in Nat \ {0}
              /\ \A i \in 1..(Len(call_stack[r]) - 1) : call_stack'[r][i] = call_stack[r][i]
              /\ DOMAIN call_stack'[r] = 1..(Len(call_stack[r]) - 1)
              /\ DOMAIN call_stack[r] = 1..Len(call_stack[r])
          BY <2>4, <4>1, LeftFacts
        <5> QED
          BY <5>1 DEF FramesOn
      <4>2. CASE ~(Top.kind = "function" /\ Top.run = r)
        <5>1. call_stack'[r] = call_stack[r]
          BY <2>4, <4>2, LeftFacts
        <5> QED
          BY <5>1 DEF FramesOn
      <4> QED
        BY <4>1, <4>2
    <3>2. /\ Cardinality(FramesOn(r, f)') \in Nat
          /\ Cardinality(FramesOn(r, f)') <= Cardinality(FramesOn(r, f))
      BY <2>1, <3>1, FS_Subset, FS_CardinalityType
    <3> QED
      BY <2>1, <3>2, CallAssumption DEF CallAssumption
  <2> QED
    BY <2>2, <2>3, <2>4, StackStep
<1> QED
  BY <1>1, <1>2, CallsCorrect, PTL DEF Spec

-----------------------------------------------------------------------------
(* The call stack of a run, entry by entry.                                *)

\* The entries of call_stack are the functions of the frames, in their order.
Listed ==
    \A r \in Runs : \A i \in FramesOf(native, r, Len(native)) :
        call_stack[r][Cardinality(FramesOf(native, r, i))] = native[i].fun

\* Where the entry of a function frame is.
LEMMA EntryPosition ==
    ASSUME NEW s \in Seq(Activations), NEW r, NEW i \in FramesOf(s, r, Len(s))
    PROVE  /\ i \in 1..Len(s)
           /\ Cardinality(FramesOf(s, r, i)) \in Nat
           /\ 1 <= Cardinality(FramesOf(s, r, i))
           /\ Cardinality(FramesOf(s, r, i)) <= Cardinality(FramesOf(s, r, Len(s)))
           /\ \A j \in FramesOf(s, r, Len(s)) :
                j < i => Cardinality(FramesOf(s, r, j)) < Cardinality(FramesOf(s, r, i))
<1>1. Len(s) \in Nat /\ i \in 1..Len(s) /\ i \in Nat
  BY DEF FramesOf
<1>2. IsFiniteSet(FramesOf(s, r, i)) /\ Cardinality(FramesOf(s, r, i)) \in Nat
  BY <1>1, FramesFinite
<1>3. IsFiniteSet(FramesOf(s, r, Len(s))) /\ Cardinality(FramesOf(s, r, Len(s))) \in Nat
  BY <1>1, FramesFinite
<1>4. FramesOf(s, r, i) \in SUBSET FramesOf(s, r, Len(s))
  BY <1>1 DEF FramesOf
<1>5. i \in FramesOf(s, r, i)
  BY <1>1 DEF FramesOf
<1>6. Cardinality(FramesOf(s, r, i)) # 0
  BY <1>2, <1>5, FS_EmptySet
<1>7. ASSUME NEW j \in FramesOf(s, r, Len(s)), j < i
      PROVE  Cardinality(FramesOf(s, r, j)) < Cardinality(FramesOf(s, r, i))
  <2>1. j \in 1..Len(s) /\ j \in Nat
    BY <1>1 DEF FramesOf
  <2>2. IsFiniteSet(FramesOf(s, r, j)) /\ Cardinality(FramesOf(s, r, j)) \in Nat
    BY <2>1, FramesFinite
  <2>3. i \notin FramesOf(s, r, j)
    BY <1>1, <1>7, <2>1 DEF FramesOf
  <2>4. FramesOf(s, r, j) \cup {i} \in SUBSET FramesOf(s, r, i)
    BY <1>1, <1>5, <1>7, <2>1 DEF FramesOf
  <2>5. Cardinality(FramesOf(s, r, j) \cup {i}) = Cardinality(FramesOf(s, r, j)) + 1
    BY <2>2, <2>3, FS_AddElement
  <2>6. Cardinality(FramesOf(s, r, j) \cup {i}) <= Cardinality(FramesOf(s, r, i))
    BY <1>2, <2>4, FS_Subset
  <2> QED
    BY <1>2, <2>2, <2>5, <2>6
<1>8. Cardinality(FramesOf(s, r, i)) <= Cardinality(FramesOf(s, r, Len(s)))
  BY <1>3, <1>4, FS_Subset
<1> QED
  BY <1>1, <1>2, <1>6, <1>7, <1>8

LEMMA EnterKeepsListed ==
    ASSUME CallInv, Listed, NEW a \in Activations, Entered(a)
    PROVE  Listed'
<1> DEFINE n == Len(native)
<1>1. /\ native \in Seq(Activations) /\ n \in Nat
      /\ Len(native') = n + 1 /\ native'[n + 1] = a
      /\ \A i \in 1..n : native'[i] = native[i]
      /\ a.run \in Runs
  BY EnteredFacts
<1>2. SUFFICES ASSUME NEW r \in Runs, NEW i \in FramesOf(native', r, n + 1)
               PROVE  call_stack'[r][Cardinality(FramesOf(native', r, i))] = native'[i].fun
  BY <1>1 DEF Listed
<1>3. i \in 1..(n + 1) /\ native'[i].kind = "function" /\ native'[i].run = r
  BY <1>2 DEF FramesOf
<1>4. /\ call_stack[r] \in Seq(Functions)
      /\ call_stack'[r] = IF a.kind = "function" /\ a.run = r
                          THEN Append(call_stack[r], a.fun)
                          ELSE call_stack[r]
  BY EnteredFacts
<1>5. Len(call_stack[r]) = Cardinality(FramesOf(native, r, n))
  BY DEF CallInv, Counted
<1>6. native' = Append(native, a)
  BY DEF Entered
<1>7. CASE i = n + 1
  <2>1. a.kind = "function" /\ a.run = r
    BY <1>1, <1>3, <1>7
  <2>2. Cardinality(FramesOf(native', r, n + 1)) = Cardinality(FramesOf(native, r, n)) + 1
    BY <1>1, <1>6, <2>1, PushFrames
  <2>3. Append(call_stack[r], a.fun)[Len(call_stack[r]) + 1] = a.fun
    BY <1>4
  <2> QED
    BY <1>1, <1>4, <1>5, <1>7, <2>1, <2>2, <2>3
<1>8. CASE i # n + 1
  <2>1. i \in 1..n /\ i \in 0..n
    BY <1>1, <1>3, <1>8
  <2>2. native'[i] = native[i] /\ i \in FramesOf(native, r, n)
    BY <1>1, <1>3, <2>1 DEF FramesOf
  <2>3. FramesOf(native', r, i) = FramesOf(native, r, i)
    BY <1>1, <1>6, <2>1, PushFrames
  <2>4. call_stack[r][Cardinality(FramesOf(native, r, i))] = native[i].fun
    BY <2>2 DEF Listed
  <2>5. /\ Cardinality(FramesOf(native, r, i)) \in Nat
        /\ 1 <= Cardinality(FramesOf(native, r, i))
        /\ Cardinality(FramesOf(native, r, i)) <= Len(call_stack[r])
    BY <1>1, <1>5, <2>2, EntryPosition
  <2>6. \A j \in 1..Len(call_stack[r]) : call_stack'[r][j] = call_stack[r][j]
    BY <1>4
  <2>7. Cardinality(FramesOf(native, r, i)) \in 1..Len(call_stack[r])
    BY <1>4, <2>5
  <2> QED
    BY <2>2, <2>3, <2>4, <2>6, <2>7
<1> QED
  BY <1>7, <1>8

LEMMA LeaveKeepsListed ==
    ASSUME CallInv, Listed, Left
    PROVE  Listed'
<1> DEFINE n == Len(native)
<1>1. /\ native \in Seq(Activations) /\ native # <<>> /\ n \in Nat \ {0}
      /\ Top = native[n] /\ Top = Last(native) /\ Len(native') = n - 1
      /\ \A i \in 1..(n - 1) : native'[i] = native[i]
      /\ native' = Front(native)
  BY LeftFacts DEF Left
<1>2. SUFFICES ASSUME NEW r \in Runs, NEW i \in FramesOf(native', r, n - 1)
               PROVE  call_stack'[r][Cardinality(FramesOf(native', r, i))] = native'[i].fun
  BY <1>1 DEF Listed
<1>3. i \in 1..(n - 1) /\ native'[i].kind = "function" /\ native'[i].run = r
  BY <1>2 DEF FramesOf
<1>4. i \in 1..n /\ i \in 0..(n - 1) /\ i < n
  BY <1>1, <1>3
<1>5. native'[i] = native[i] /\ i \in FramesOf(native, r, n)
  BY <1>1, <1>3, <1>4 DEF FramesOf
<1>6. FramesOf(native', r, i) = FramesOf(native, r, i)
  BY <1>1, <1>4, PopFrames
<1>7. call_stack[r][Cardinality(FramesOf(native, r, i))] = native[i].fun
  BY <1>5 DEF Listed
<1>8. CASE Top.kind = "function" /\ Top.run = r
  <2>1. /\ Len(call_stack[r]) \in Nat \ {0}
        /\ \A j \in 1..(Len(call_stack[r]) - 1) : call_stack'[r][j] = call_stack[r][j]
    BY <1>8, LeftFacts
  <2>2. Len(call_stack[r]) = Cardinality(FramesOf(native, r, n))
    BY DEF CallInv, Counted
  <2>3. n \in FramesOf(native, r, n)
    <3>1. n \in 1..n
      BY <1>1
    <3> QED
      BY <1>1, <1>8, <3>1 DEF FramesOf
  <2>4. /\ Cardinality(FramesOf(native, r, i)) \in Nat
        /\ 1 <= Cardinality(FramesOf(native, r, i))
    BY <1>1, <1>5, EntryPosition
  <2>5. Cardinality(FramesOf(native, r, i)) < Cardinality(FramesOf(native, r, n))
    BY <1>1, <1>4, <1>5, <2>3, EntryPosition
  <2>6. Cardinality(FramesOf(native, r, i)) \in 1..(Len(call_stack[r]) - 1)
    BY <2>1, <2>2, <2>4, <2>5
  <2> QED
    BY <1>5, <1>6, <1>7, <2>1, <2>6
<1>9. CASE ~(Top.kind = "function" /\ Top.run = r)
  <2>1. call_stack'[r] = call_stack[r]
    BY <1>9, LeftFacts
  <2> QED
    BY <1>5, <1>6, <1>7, <2>1
<1> QED
  BY <1>8, <1>9

\* Every way out of a frame drops its guard exactly once: the call stack of a run
\* lists its running function frames in their order, its host_call_depth counts
\* the host calls it is inside of.
THEOREM GuardsAreBalanced == Spec => []GuardsBalanced
<1>1. Init => Listed
  BY DEF Init, Listed, FramesOf
<1>2. CallInv /\ Listed /\ [Next]_vars => Listed'
  <2> SUFFICES ASSUME CallInv, Listed, [Next]_vars PROVE Listed'
    OBVIOUS
  <2>1. CASE UNCHANGED <<native, call_stack>>
    BY <2>1 DEF Listed
  <2>2. ASSUME NEW a \in Activations, Entered(a) PROVE Listed'
    BY <2>2, EnterKeepsListed
  <2>3. CASE Left
    BY <2>3, LeaveKeepsListed
  <2> QED
    BY <2>1, <2>2, <2>3, StackStep
<1>3. CallInv /\ Listed => GuardsBalanced
  BY DEF CallInv, Counted, Listed, GuardsBalanced
<1> QED
  BY <1>1, <1>2, <1>3, CallsCorrect, PTL DEF Spec

-----------------------------------------------------------------------------
(* Nesting.  Every activation has a place: a function frame the number of  *)
(* frames of its run so far, the base frame of a run the number 0, a host  *)
(* activation that of the frame that called it, on the other side.         *)

LEMMA BasesStep ==
    ASSUME CallInv, OneBase, CalledByVM, [Next]_vars
    PROVE  OneBase' /\ CalledByVM'
<1> DEFINE n == Len(native)
<1>1. CASE UNCHANGED <<native, call_stack>>
  BY <1>1 DEF OneBase, CalledByVM
<1>2. ASSUME NEW a \in Activations, Entered(a) PROVE OneBase' /\ CalledByVM'
  <2>1. /\ native \in Seq(Activations) /\ n \in Nat
        /\ native'[n + 1] = a /\ \A i \in 1..n : native'[i] = native[i]
        /\ DOMAIN native' = 1..(n + 1) /\ DOMAIN native = 1..n
    BY <1>2, EnteredFacts
  <2>2. a.kind \in BaseKinds => \A i \in 1..n : native[i].run # a.run
    BY <1>2, <2>1 DEF Entered
  <2>3. OneBase'
    <3> SUFFICES ASSUME NEW i \in 1..(n + 1), NEW j \in 1..(n + 1),
                        native'[i].run = native'[j].run,
                        native'[i].kind \in BaseKinds, native'[j].kind \in BaseKinds
                 PROVE  i = j
      BY <2>1 DEF OneBase, BaseKinds
    <3>1. CASE i \in 1..n /\ j \in 1..n
      BY <2>1, <3>1 DEF OneBase, BaseKinds
    <3>2. CASE i = n + 1 /\ j \in 1..n
      BY <2>1, <2>2, <3>2
    <3>3. CASE i \in 1..n /\ j = n + 1
      BY <2>1, <2>2, <3>3
    <3> QED
      BY <2>1, <3>1, <3>2, <3>3
  <2>4. CalledByVM'
    <3> SUFFICES ASSUME NEW i \in 1..(n + 1), native'[i].kind \in HostEntries
                 PROVE  i > 1 /\ native'[i - 1].kind \in VMKinds
      BY <2>1 DEF CalledByVM
    <3>1. CASE i \in 1..n
      <4>1. i > 1 /\ native[i - 1].kind \in VMKinds
        BY <2>1, <3>1 DEF CalledByVM
      <4>2. i - 1 \in 1..n
        BY <2>1, <3>1, <4>1
      <4> QED
        BY <2>1, <4>1, <4>2
    <3>2. CASE i = n + 1
      <4>1. ~Idle /\ Top.kind \in VMKinds
        BY <1>2, <2>1, <3>2 DEF Entered, Running
      <4>2. n \in Nat \ {0} /\ Top = native[n]
        BY <4>1, TopFacts
      <4>3. n \in 1..n /\ i - 1 = n /\ i > 1
        BY <3>2, <4>2
      <4> QED
        BY <2>1, <4>1, <4>2, <4>3
    <3> QED
      BY <2>1, <3>1, <3>2
  <2> QED
    BY <2>3, <2>4
<1>3. CASE Left
  <2>1. /\ n \in Nat \ {0}
        /\ \A i \in 1..(n - 1) : native'[i] = native[i]
        /\ DOMAIN native' = 1..(n - 1) /\ DOMAIN native = 1..n
    BY <1>3, LeftFacts
  <2>2. \A i \in 1..(n - 1) : i \in 1..n
    BY <2>1
  <2>3. OneBase'
    BY <2>1, <2>2 DEF OneBase
  <2>4. CalledByVM'
    <3> SUFFICES ASSUME NEW i \in 1..(n - 1), native'[i].kind \in HostEntries
                 PROVE  i > 1 /\ native'[i - 1].kind \in VMKinds
      BY <2>1 DEF CalledByVM
    <3>1. i > 1 /\ native[i - 1].kind \in VMKinds
      BY <2>1, <2>2 DEF CalledByVM
    <3>2. i - 1 \in 1..(n - 1)
      BY <2>1, <3>1
    <3> QED
      BY <2>1, <3>1, <3>2
  <2> QED
    BY <2>3, <2>4
<1> QED
  BY <1>1, <1>2, <1>3, StackStep

\* The place of a VM frame.
Level(i) ==
    IF native[i].kind = "function"
    THEN Cardinality(FramesOf(native, native[i].run, i)) ELSE 0

Place(i) ==
    IF native[i].kind \in VMKinds
    THEN <<<<native[i].run, Level(i)>>, "vm">>
    ELSE <<<<native[i - 1].run, Level(i - 1)>>, "host">>

Places == (Runs \X (0..MaxCallDepth)) \X {"vm", "host"}

LEMMA VMPlaces ==
    ASSUME CallInv, OneBase
    PROVE  /\ \A i \in 1..Len(native) :
                native[i].kind \in VMKinds =>
                native[i].run \in Runs /\ Level(i) \in 0..MaxCallDepth
           /\ \A i, j \in 1..Len(native) :
                /\ native[i].kind \in VMKinds /\ native[j].kind \in VMKinds
                /\ native[i].run = native[j].run /\ Level(i) = Level(j)
                => i = j
<1> DEFINE n == Len(native)
<1>1. /\ native \in Seq(Activations) /\ n \in Nat /\ DOMAIN native = 1..n
      /\ \A i \in 1..n : native[i] \in Activations
  BY DEF CallInv, TypeOK
<1>2. \A i \in 1..n : native[i].run \in Runs
  BY <1>1 DEF Activations
<1>3. ASSUME NEW i \in 1..n, native[i].kind = "function"
      PROVE  /\ i \in FramesOf(native, native[i].run, n)
             /\ Level(i) = Cardinality(FramesOf(native, native[i].run, i))
             /\ Level(i) \in 1..MaxCallDepth
  <2> DEFINE r == native[i].run
  <2>1. i \in FramesOf(native, r, n)
    BY <1>3 DEF FramesOf
  <2>2. r \in Runs
    BY <1>2
  <2> HIDE DEF r
  <2>3. /\ Cardinality(FramesOf(native, r, i)) \in Nat
        /\ 1 <= Cardinality(FramesOf(native, r, i))
        /\ Cardinality(FramesOf(native, r, i)) <= Cardinality(FramesOf(native, r, n))
    BY <1>1, <2>1, EntryPosition
  <2>4. Cardinality(FramesOf(native, r, n)) <= MaxCallDepth
        /\ Cardinality(FramesOf(native, r, n)) \in Nat
    <3>1. call_stack[r] \in Seq(Functions)
      BY <2>2 DEF CallInv, TypeOK
    <3>2. Len(call_stack[r]) \in Nat
      BY <3>1
    <3> QED
      BY <2>2, <3>2 DEF CallInv, Counted, DepthBounded
  <2>5. Cardinality(FramesOf(native, r, i)) \in 1..MaxCallDepth
    BY <2>3, <2>4, CallAssumption DEF CallAssumption
  <2> QED
    BY <1>3, <2>1, <2>5 DEF Level, r
<1>4. ASSUME NEW i \in 1..n, native[i].kind \in BaseKinds
      PROVE  Level(i) = 0
  BY <1>4 DEF Level, BaseKinds
<1>5. ASSUME NEW i \in 1..n, native[i].kind \in VMKinds
      PROVE  native[i].kind = "function" \/ native[i].kind \in BaseKinds
  BY <1>5 DEF VMKinds, BaseKinds
<1>6. 0 \in 0..MaxCallDepth /\ \A k \in 1..MaxCallDepth : k \in 0..MaxCallDepth /\ k # 0
  BY CallAssumption DEF CallAssumption
<1>7. ASSUME NEW i \in 1..n, native[i].kind \in VMKinds
      PROVE  native[i].run \in Runs /\ Level(i) \in 0..MaxCallDepth
  BY <1>2, <1>3, <1>4, <1>5, <1>6, <1>7
<1>8. ASSUME NEW i \in 1..n, NEW j \in 1..n,
             native[i].kind \in VMKinds, native[j].kind \in VMKinds,
             native[i].run = native[j].run, Level(i) = Level(j)
      PROVE  i = j
  <2>1. CASE native[i].kind = "function" /\ native[j].kind = "function"
    <3> DEFINE r == native[i].run
    <3>1. /\ i \in FramesOf(native, r, n) /\ j \in FramesOf(native, r, n)
          /\ Cardinality(FramesOf(native, r, i)) = Cardinality(FramesOf(native, r, j))
      BY <1>3, <1>8, <2>1
    <3> HIDE DEF r
    <3>2. /\ Cardinality(FramesOf(native, r, i)) \in Nat
          /\ j < i => Cardinality(FramesOf(native, r, j)) < Cardinality(FramesOf(native, r, i))
      BY <1>1, <3>1, EntryPosition
    <3>3. i < j => Cardinality(FramesOf(native, r, i)) < Cardinality(FramesOf(native, r, j))
      BY <1>1, <3>1, EntryPosition
    <3>4. ~(i < j) /\ ~(j < i)
      BY <3>1, <3>2, <3>3
    <3> QED
      BY <1>1, <3>4
  <2>2. CASE native[i].kind \in BaseKinds /\ native[j].kind \in BaseKinds
    BY <1>1, <1>8, <2>2 DEF OneBase, BaseKinds
  <2>3. CASE native[i].kind = "function" /\ native[j].kind \in BaseKinds
    BY <1>3, <1>4, <1>6, <1>8, <2>3
  <2>4. CASE native[i].kind \in BaseKinds /\ native[j].kind = "function"
    BY <1>3, <1>4, <1>6, <1>8, <2>4
  <2> QED
    BY <1>5, <1>8, <2>1, <2>2, <2>3, <2>4
<1> QED
  BY <1>7, <1>8

LEMMA PlacesAreDistinct ==
    ASSUME CallInv, OneBase, CalledByVM
    PROVE  /\ \A i \in 1..Len(native) : Place(i) \in Places
           /\ \A i, j \in 1..Len(native) : Place(i) = Place(j) => i = j
<1> DEFINE n == Len(native)
           VM(i) == native[i].kind \in VMKinds
<1>1. /\ native \in Seq(Activations) /\ n \in Nat /\ DOMAIN native = 1..n
      /\ \A i \in 1..n : native[i] \in Activations
  BY DEF CallInv, TypeOK
<1>2. ASSUME NEW i \in 1..n, ~VM(i)
      PROVE  i - 1 \in 1..n /\ VM(i - 1)
  <2>1. native[i].kind \in HostEntries
    BY <1>1, <1>2 DEF Activations
  <2>2. i > 1 /\ VM(i - 1)
    BY <1>1, <2>1 DEF CalledByVM
  <2> QED
    BY <1>1, <2>2
<1>3. \A i \in 1..n : VM(i) => native[i].run \in Runs /\ Level(i) \in 0..MaxCallDepth
  BY VMPlaces
<1>4. \A i, j \in 1..n :
        VM(i) /\ VM(j) /\ native[i].run = native[j].run /\ Level(i) = Level(j) => i = j
  BY VMPlaces
<1>5. \A i \in 1..n : VM(i) => Place(i) = <<<<native[i].run, Level(i)>>, "vm">>
  BY DEF Place
<1>6. \A i \in 1..n : ~VM(i) => Place(i) = <<<<native[i - 1].run, Level(i - 1)>>, "host">>
  BY DEF Place
<1> HIDE DEF VM
<1>7. \A i \in 1..n : Place(i) \in Places
  BY <1>2, <1>3, <1>5, <1>6 DEF Places
<1>8. ASSUME NEW i \in 1..n, NEW j \in 1..n, Place(i) = Place(j)
      PROVE  i = j
  <2>1. CASE VM(i) /\ VM(j)
    BY <1>4, <1>5, <1>8, <2>1
  <2>2. CASE ~VM(i) /\ ~VM(j)
    <3>1. i - 1 \in 1..n /\ j - 1 \in 1..n /\ VM(i - 1) /\ VM(j - 1)
      BY <1>2, <2>2
    <3>2. native[i - 1].run = native[j - 1].run /\ Level(i - 1) = Level(j - 1)
      BY <1>6, <1>8, <2>2
    <3>3. i - 1 = j - 1
      BY <1>4, <3>1, <3>2
    <3> QED
      BY <1>1, <3>3
  <2>3. CASE VM(i) /\ ~VM(j)
    BY <1>5, <1>6, <1>8, <2>3
  <2>4. CASE ~VM(i) /\ VM(j)
    BY <1>5, <1>6, <1>8, <2>4
  <2> QED
    BY <2>1, <2>2, <2>3, <2>4
<1> QED
  BY <1>7, <1>8

LEMMA PlacesCounted ==
    ASSUME IsFiniteSet(Runs)
    PROVE  /\ IsFiniteSet(Places)
           /\ Cardinality(Places) = MaxNesting /\ Cardinality(Places) \in Nat
<1> DEFINE D == 0..MaxCallDepth
           B == {"vm", "host"}
<1>1. MaxCallDepth \in Nat
  BY CallAssumption DEF CallAssumption
<1>2. IsFiniteSet(D) /\ Cardinality(D) = MaxCallDepth + 1
  BY <1>1, FS_Interval
<1>3. IsFiniteSet(B) /\ Cardinality(B) = 2
  <2>1. IsFiniteSet({"vm"}) /\ Cardinality({"vm"}) = 1
    BY FS_Singleton
  <2>2. B = {"vm"} \cup {"host"} /\ "host" \notin {"vm"}
    OBVIOUS
  <2> QED
    BY <2>1, <2>2, FS_AddElement
<1> HIDE DEF D, B
<1>4. IsFiniteSet(Runs) /\ Cardinality(Runs) \in Nat
  BY FS_CardinalityType
<1>5. IsFiniteSet(Runs \X D) /\ Cardinality(Runs \X D) = Cardinality(Runs) * (MaxCallDepth + 1)
  BY <1>2, <1>4, FS_Product
<1>6. IsFiniteSet((Runs \X D) \X B)
      /\ Cardinality((Runs \X D) \X B) = Cardinality(Runs \X D) * Cardinality(B)
  BY <1>3, <1>5, FS_Product
<1>7. \A m, k \in Nat : (m * k) * 2 = 2 * m * k /\ (m * k) * 2 \in Nat
  OBVIOUS
<1>8. MaxCallDepth + 1 \in Nat
  BY <1>1
<1>9. /\ (Cardinality(Runs) * (MaxCallDepth + 1)) * 2 = MaxNesting
      /\ MaxNesting \in Nat
  BY <1>4, <1>7, <1>8 DEF MaxNesting
<1> QED
  BY <1>3, <1>5, <1>6, <1>9 DEF Places, D, B

\* With finitely many runs the limits bound the native stack: a run has one base
\* frame and at most max_call_depth function frames, and each calls into the host
\* at most once at a time.
THEOREM NestingIsBounded ==
    ASSUME IsFiniteSet(Runs)
    PROVE  Spec => []NestingBounded
<1>1. Init => OneBase /\ CalledByVM
  BY DEF Init, OneBase, CalledByVM
<1>2. CallInv /\ (OneBase /\ CalledByVM) /\ [Next]_vars => (OneBase /\ CalledByVM)'
  BY BasesStep
<1>3. CallInv /\ (OneBase /\ CalledByVM) => NestingBounded
  <2> SUFFICES ASSUME CallInv, OneBase, CalledByVM PROVE NestingBounded
    OBVIOUS
  <2> DEFINE n == Len(native)
             place == [i \in 1..n |-> Place(i)]
  <2>1. n \in Nat
    BY DEF CallInv, TypeOK
  <2>2. /\ \A i \in 1..n : Place(i) \in Places
        /\ \A i, j \in 1..n : Place(i) = Place(j) => i = j
    BY PlacesAreDistinct
  <2>3. place \in Injection(1..n, Places)
    BY <2>2 DEF Injection, IsInjective
  <2>4. IsFiniteSet(Places) /\ Cardinality(Places) = MaxNesting
    BY PlacesCounted
  <2>5. Cardinality(1..n) <= Cardinality(Places)
    BY <2>3, <2>4, FS_Injection
  <2>6. Cardinality(1..n) = n
    BY <2>1, FS_Interval
  <2> QED
    BY <2>4, <2>5, <2>6 DEF NestingBounded
<1> QED
  BY <1>1, <1>2, <1>3, CallsCorrect, PTL DEF Spec

-----------------------------------------------------------------------------
(* Budgets are not filled up again.                                        *)

LEMMA PushKeepsCells ==
    ASSUME CallInv, CellsStarted, NEW a \in Activations,
           native' = Append(native, a),
           a.cell \in Runs => limit'[a.cell] # 0,
           \A r \in Runs : limit[r] # 0 => limit'[r] # 0,
           \A p \in Awaits : awaiting'[p] # None => awaiting'[p] = awaiting[p]
    PROVE  CellsStarted'
<1>1. native \in Seq(Activations) /\ Len(native) \in Nat
  BY DEF CallInv, TypeOK
<1>2. /\ DOMAIN native = 1..Len(native) /\ DOMAIN native' = 1..(Len(native) + 1)
      /\ native'[Len(native) + 1] = a
      /\ \A i \in 1..Len(native) : native'[i] = native[i]
  BY <1>1
<1>3. ASSUME NEW i \in 1..(Len(native) + 1), native'[i].cell \in Runs
      PROVE  limit'[native'[i].cell] # 0
  <2>1. CASE i = Len(native) + 1
    BY <1>2, <1>3, <2>1
  <2>2. CASE i # Len(native) + 1
    <3>1. i \in 1..Len(native)
      BY <1>1, <2>2
    <3> QED
      BY <1>2, <1>3, <3>1 DEF CellsStarted
  <2> QED
    BY <2>1, <2>2
<1>4. \A p \in Awaits : awaiting'[p] # None /\ awaiting'[p].cell \in Runs =>
        limit'[awaiting'[p].cell] # 0
  BY DEF CellsStarted
<1> QED
  BY <1>2, <1>3, <1>4 DEF CellsStarted

LEMMA PopKeepsCells ==
    ASSUME CallInv, CellsStarted, ~Idle,
           native' = Front(native), limit' = limit,
           \A p \in Awaits : awaiting'[p] # None =>
             awaiting'[p] = awaiting[p] \/ awaiting'[p].cell = Top.cell
    PROVE  CellsStarted'
<1>1. native \in Seq(Activations) /\ native # <<>> /\ Len(native) \in Nat \ {0}
      /\ Top = native[Len(native)]
  BY TopFacts
<1>2. /\ Len(native') = Len(native) - 1 /\ native' \in Seq(Activations)
      /\ \A i \in 1..(Len(native) - 1) : native'[i] = native[i]
  BY <1>1, FrontLast
<1>3. /\ DOMAIN native = 1..Len(native) /\ DOMAIN native' = 1..(Len(native) - 1)
      /\ Len(native) \in 1..Len(native)
      /\ \A i \in 1..(Len(native) - 1) : i \in 1..Len(native)
  BY <1>1, <1>2
<1>4. Top.cell \in Runs => limit[Top.cell] # 0
  BY <1>1, <1>3 DEF CellsStarted
<1>5. \A i \in DOMAIN native' : native'[i].cell \in Runs => limit'[native'[i].cell] # 0
  BY <1>2, <1>3 DEF CellsStarted
<1>6. \A p \in Awaits : awaiting'[p] # None /\ awaiting'[p].cell \in Runs =>
        limit'[awaiting'[p].cell] # 0
  BY <1>4 DEF CellsStarted
<1> QED
  BY <1>5, <1>6 DEF CellsStarted

LEMMA CellsStep ==
    ASSUME CallInv, CellsStarted, [Next]_vars
    PROVE  CellsStarted'
<1>1. ASSUME NEW f \in Functions, Call(f) PROVE CellsStarted'
  <2> DEFINE a == [kind |-> "function", run |-> Top.run, fun |-> f,
                   depth |-> Top.depth + 1, cell |-> Top.cell]
  <2>1. /\ ~Idle /\ native' = Append(native, a) /\ limit' = limit /\ awaiting' = awaiting
    BY <1>1 DEF Call, EnterFunction, Running, runVars
  <2>2. Top \in Activations /\ Len(native) \in 1..Len(native) /\ Top = native[Len(native)]
        /\ DOMAIN native = 1..Len(native)
    BY <2>1, TopFacts
  <2>3. a \in Activations /\ a.cell = Top.cell
    BY <2>2 DEF Activations, VMKinds
  <2> HIDE DEF a
  <2>4. a.cell \in Runs => limit[a.cell] # 0
    BY <2>2, <2>3 DEF CellsStarted
  <2> QED
    BY <2>1, <2>3, <2>4, PushKeepsCells
<1>2. ASSUME HostCall \/ HostRead PROVE CellsStarted'
  <2> DEFINE a == [Top EXCEPT !.kind = IF HostCall THEN "call" ELSE "read"]
  <2>1. /\ ~Idle /\ native' = Append(native, a) /\ limit' = limit /\ awaiting' = awaiting
    BY <1>2 DEF HostCall, HostRead, Running, runVars
  <2>2. Top \in Activations /\ Len(native) \in 1..Len(native) /\ Top = native[Len(native)]
        /\ DOMAIN native = 1..Len(native)
    BY <2>1, TopFacts
  <2>3. a \in Activations /\ a.cell = Top.cell
    BY <1>2, <2>2 DEF Activations, HostCall, HostRead
  <2> HIDE DEF a
  <2>4. a.cell \in Runs => limit[a.cell] # 0
    BY <2>2, <2>3 DEF CellsStarted
  <2> QED
    BY <2>1, <2>3, <2>4, PushKeepsCells
<1>3. ASSUME Return \/ HostReturn(Len(native)) PROVE CellsStarted'
  <2>1. /\ ~Idle /\ native' = Front(native) /\ limit' = limit /\ awaiting' = awaiting
    BY <1>3 DEF Return, HostReturn, LeaveFrame, Running, runVars
  <2> QED
    BY <2>1, PopKeepsCells
<1>4. ASSUME NEW p \in Awaits, Await(p) PROVE CellsStarted'
  <2>1. /\ ~Idle /\ native' = Front(native) /\ limit' = limit
        /\ awaiting' = [awaiting EXCEPT ![p] = [Top EXCEPT !.kind = "resumed"]]
    BY <1>4 DEF Await, LeaveFrame, Running, runVars
  <2>2. Top \in Activations /\ awaiting \in [Awaits -> Activations \cup {None}]
    BY <2>1, TopFacts DEF CallInv, TypeOK
  <2>3. [Top EXCEPT !.kind = "resumed"].cell = Top.cell
    BY <2>2 DEF Activations
  <2>4. \A q \in Awaits : awaiting'[q] = awaiting[q] \/ awaiting'[q].cell = Top.cell
    BY <2>1, <2>2, <2>3
  <2> QED
    BY <2>1, <2>4, PopKeepsCells
<1>5. ASSUME NEW r \in Runs, NEW steps \in StepLimits, Run(r, steps) PROVE CellsStarted'
  <2> DEFINE a == [kind |-> "module", run |-> r, fun |-> None, depth |-> 0, cell |-> r]
  <2>1. /\ native' = Append(native, a) /\ a \in Activations /\ a.cell = r
        /\ limit' = [limit EXCEPT ![r] = InitialBudget(steps)] /\ awaiting' = awaiting
    BY <1>5 DEF Run, Activations, VMKinds, Cells
  <2> HIDE DEF a
  <2>2. InitialBudget(steps) # 0
    BY CallAssumption DEF CallAssumption, InitialBudget
  <2>3. limit \in [Runs -> 0..UsizeMax]
    BY DEF CallInv, TypeOK
  <2>4. limit'[r] # 0 /\ \A q \in Runs : limit[q] # 0 => limit'[q] # 0
    BY <2>1, <2>2, <2>3
  <2> QED
    BY <2>1, <2>4, PushKeepsCells
<1>6. ASSUME NEW r \in Runs, NEW f \in Functions, NEW c \in Cells, Callback(r, f, c)
      PROVE  CellsStarted'
  <2> DEFINE a == [kind |-> "function", run |-> r, fun |-> f,
                   depth |-> Len(call_stack[r]) + 1, cell |-> c]
  <2>1. /\ native' = Append(native, a) /\ limit' = limit /\ awaiting' = awaiting
        /\ r \in wrapped /\ (c = r \/ c \in FreshCells)
    BY <1>6 DEF Callback, EnterFunction, CallbackDepth, CallbackCell, NewCell, runVars
  <2>2. Len(call_stack[r]) \in Nat
    BY DEF CallInv, TypeOK
  <2>3. a \in Activations /\ a.cell = c
    BY <2>2 DEF Activations, VMKinds
  <2> HIDE DEF a
  <2>4. limit[r] # 0
    BY <2>1 DEF CallInv, Started
  <2>5. c \in Runs => c = r
    BY <2>1, CallAssumption DEF CallAssumption
  <2> QED
    BY <2>1, <2>3, <2>4, <2>5, PushKeepsCells
<1>7. ASSUME NEW p \in Awaits, Resume(p) PROVE CellsStarted'
  <2> DEFINE a == awaiting[p]
  <2>1. /\ native = <<>> /\ a # None /\ native' = <<a>> /\ limit' = limit
        /\ awaiting' = [awaiting EXCEPT ![p] = None]
    BY <1>7 DEF Resume, Idle, runVars
  <2>2. awaiting \in [Awaits -> Activations \cup {None}]
    BY DEF CallInv, TypeOK
  <2>3. a \in Activations /\ (a.cell \in Runs => limit[a.cell] # 0)
    BY <2>1, <2>2 DEF CellsStarted
  <2>4. native' = Append(native, a)
    BY <2>1
  <2>5. \A q \in Awaits : awaiting'[q] # None => awaiting'[q] = awaiting[q]
    BY <2>1, <2>2
  <2> HIDE DEF a
  <2> QED
    BY <2>1, <2>3, <2>4, <2>5, PushKeepsCells
<1>8. ASSUME NEW p \in Awaits, Reject(p) PROVE CellsStarted'
  <2>1. /\ native' = native /\ limit' = limit
        /\ awaiting' = [awaiting EXCEPT ![p] = None]
    BY <1>8 DEF Reject, runVars
  <2>2. awaiting \in [Awaits -> Activations \cup {None}]
    BY DEF CallInv, TypeOK
  <2>3. \A q \in Awaits : awaiting'[q] # None => awaiting'[q] = awaiting[q]
    BY <2>1, <2>2
  <2> QED
    BY <2>1, <2>3 DEF CellsStarted
<1>9. ASSUME Instruction \/ UNCHANGED vars PROVE CellsStarted'
  BY <1>9 DEF Instruction, vars, runVars, CellsStarted
<1> QED
  BY <1>1, <1>2, <1>3, <1>4, <1>5, <1>6, <1>7, <1>8, <1>9 DEF Next, VMStep, HostStep

\* What is charged is not filled up.
LEMMA ConsumeRefillsNone ==
    ASSUME CallInv, ~Idle, ConsumeStep(Top.cell), NEW c \in Cells
    PROVE  ~(execution_budget'[c] > execution_budget[c])
<1>1. Top.cell \in Cells
  BY TopFacts DEF Activations
<1>2. /\ execution_budget \in [Cells -> 0..UsizeMax]
      /\ execution_budget' = [execution_budget EXCEPT ![Top.cell] = IF @ = UsizeMax THEN @ ELSE @ - 1]
  BY DEF CallInv, TypeOK, ConsumeStep
<1>3. execution_budget[c] \in Int
  BY <1>2, CallAssumption DEF CallAssumption
<1>4. execution_budget'[c] \in {execution_budget[c], execution_budget[c] - 1}
  BY <1>1, <1>2
<1> QED
  BY <1>3, <1>4

\* A budget that a frame runs on, or waits to run on, is never filled up again:
\* only a new run or a callback on a new cell sets a budget.
THEOREM BudgetsOnlyShrink == Spec => NeverRefilled
<1>1. Init => CellsStarted
  BY DEF Init, CellsStarted
<1>2. CallInv /\ CellsStarted /\ [Next]_vars => CellsStarted'
  BY CellsStep
<1>3. CallInv /\ CellsStarted /\ [Next]_vars
        => [\A c \in Cells : execution_budget'[c] > execution_budget[c] => ~InUse(c)]_vars
  <2> SUFFICES ASSUME CallInv, CellsStarted, Next, NEW c \in Cells,
                      execution_budget'[c] > execution_budget[c]
               PROVE  ~InUse(c)
    OBVIOUS
  <2>1. execution_budget \in [Cells -> 0..UsizeMax]
    BY DEF CallInv, TypeOK
  <2>2. execution_budget[c] \in Int /\ ~(execution_budget[c] > execution_budget[c])
    BY <2>1, CallAssumption DEF CallAssumption
  <2>3. ~(~Idle /\ ConsumeStep(Top.cell))
    BY ConsumeRefillsNone
  <2>4. execution_budget' # execution_budget
    BY <2>2
  <2>5. ASSUME NEW r \in Runs, NEW steps \in StepLimits, Run(r, steps) PROVE ~InUse(c)
    <3>1. limit[r] = 0
          /\ execution_budget' = [execution_budget EXCEPT ![r] = InitialBudget(steps)]
      BY <2>5 DEF Run
    <3>2. c = r
      BY <2>1, <2>2, <3>1
    <3> QED
      BY <3>1, <3>2 DEF CellsStarted, InUse
  <2>6. ASSUME NEW r \in Runs, NEW f \in Functions, NEW d \in Cells, Callback(r, f, d)
        PROVE  ~InUse(c)
    <3>1. ~DuringRun(r) /\ NewCell(d)
          /\ execution_budget' = [execution_budget EXCEPT ![d] = limit[r]]
      BY <2>4, <2>6 DEF Callback, CallbackBudget, CallbackCell
    <3>2. c = d
      BY <2>1, <2>2, <3>1
    <3> QED
      BY <3>1, <3>2 DEF NewCell, InUse
  <2> QED
    BY <2>3, <2>4, <2>5, <2>6 DEF Next, VMStep, HostStep, Instruction, Call, Return,
       HostCall, HostRead, Await, HostReturn, Resume, Reject, Running
<1> QED
  BY <1>1, <1>2, <1>3, CallsCorrect, PTL DEF Spec, NeverRefilled
=============================================================================
