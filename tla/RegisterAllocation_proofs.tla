---------------------- MODULE RegisterAllocation_proofs ----------------------
(***************************************************************************)
(* Proofs about RegisterAllocation: frames of any length over any number   *)
(* of registers, with any control flow.                                    *)
(***************************************************************************)
EXTENDS RegisterAllocation, TLAPS, FiniteSetTheorems

-----------------------------------------------------------------------------
(* Facts about the frame.                                                  *)

LEMMA CodeFacts ==
    ASSUME Kept
    PROVE  /\ Len(code) \in Nat \ {0}
           /\ DOMAIN code = Positions
           /\ \A p \in Positions :
                /\ code[p].op \in Ops
                /\ code[p].dsts \subseteq Registers
                /\ code[p].srcs \subseteq Registers
                /\ code[p].targets \subseteq 1..(Len(code) + 1)
<1>1. code \in Seq(Instructions) /\ code # <<>>
  BY ProgramAssumption DEF Kept
<1>2. Len(code) \in Nat \ {0} /\ DOMAIN code = Positions
  BY <1>1 DEF Positions
<1>3. \A p \in Positions : code[p] \in Instructions
  BY <1>1 DEF Positions
<1>4. \A p \in DOMAIN code : code[p].targets \subseteq 1..(Len(code) + 1)
  BY ProgramAssumption DEF Kept
<1> QED
  BY <1>2, <1>3, <1>4 DEF Instructions

\* What a pass knows of an instruction is about registers and positions.
LEMMA PassFacts ==
    ASSUME Kept, NEW p \in Positions
    PROVE  /\ Uses(p) \subseteq Registers /\ Defs(p) \subseteq Registers
           /\ Successors(p) \subseteq Positions
           /\ code[p].dsts \subseteq Uses(p) \cup Defs(p)
           /\ code[p].srcs \subseteq Uses(p)
           /\ Defs(p) \subseteq code[p].dsts
BY CodeFacts DEF Uses, Defs, Successors

\* The analysis knows every way the executor may go, exceptions aside.
LEMMA GoesWhereAnalysed ==
    ASSUME Kept, NEW p \in Positions
    PROVE  /\ Goes(p) \cap Positions \subseteq Successors(p)
           /\ Goes(p) \subseteq 1..(Len(code) + 1)
<1>1. Len(code) \in Nat \ {0} /\ p \in 1..Len(code)
      /\ code[p].targets \subseteq 1..(Len(code) + 1)
  BY CodeFacts DEF Positions
<1>2. Goes(p) \subseteq 1..(Len(code) + 1)
  BY <1>1 DEF Goes
<1>3. (Len(code) + 1) \notin Positions
  BY <1>1 DEF Positions
<1>4. Goes(p) \cap Positions \subseteq Successors(p)
  BY <1>3 DEF Goes, Successors
<1> QED
  BY <1>2, <1>4

-----------------------------------------------------------------------------
(* What a step leaves as it is.                                            *)

LEMMA FlowKept ==
    ASSUME UNCHANGED <<code, live_in, live_out>>
    PROVE  /\ Positions' = Positions
           /\ \A p : Uses(p)' = Uses(p) /\ Defs(p)' = Defs(p)
           /\ \A p : Touched(p)' = Touched(p)
           /\ \A p : Solved(p)' = Solved(p)
BY DEF Positions, Uses, Defs, Touched, Solved, LiveOut, LiveIn, Successors, Positions

LEMMA CodeKept ==
    ASSUME UNCHANGED code
    PROVE  /\ Positions' = Positions
           /\ Kept' = Kept
           /\ Mentioned' = Mentioned
           /\ UsesLiveness(code)' = UsesLiveness(code)
           /\ \A p : Uses(p)' = Uses(p) /\ Defs(p)' = Defs(p)
           /\ \A p : Successors(p)' = Successors(p)
BY DEF Positions, Kept, Mentioned, UsesLiveness, Uses, Defs, Successors

-----------------------------------------------------------------------------
LEMMA InitInv == Init => AllocationInv
<1> SUFFICES ASSUME Init PROVE AllocationInv
  OBVIOUS
<1> USE DEF Init
<1>1. Kept
  BY DEF Kept
<1>2. Len(code) \in Nat \ {0} /\ Positions = 1..Len(code)
  BY <1>1, CodeFacts DEF Positions
<1>3. DOMAIN intervals = {} /\ DOMAIN mapping = {}
  OBVIOUS
<1>4. TypeOK
  <2>1. position \in 0..(Len(code) + 1) /\ pc \in 1..(Len(code) + 1) /\ position <= Len(code)
    BY <1>2
  <2>2. live_in \in [Positions -> SUBSET Registers] /\ live_out \in [Positions -> SUBSET Registers]
    OBVIOUS
  <2>3. virtual \in [Registers -> (0..Len(code)) \X Nat]
    BY <1>2 DEF Undefined
  <2> QED
    BY <1>3, <2>1, <2>2, <2>3 DEF TypeOK
<1>5. Phases
  BY DEF Phases
<1>6. Analysed
  BY <1>2 DEF Analysed
<1>7. Covered /\ Scanned /\ Tracks
  BY <1>3 DEF Covered, Scanned, Tracks
<1> QED
  BY <1>1, <1>4, <1>5, <1>6, <1>7 DEF AllocationInv

-----------------------------------------------------------------------------
(* The passes.                                                             *)

LEMMA PropagateInv ==
    ASSUME AllocationInv, Propagate
    PROVE  AllocationInv'
<1> USE DEF AllocationInv
<1>1. UNCHANGED code /\ phase = "liveness" /\ phase' = "liveness" /\ position > 0
  BY DEF Propagate
<1>2. Positions' = Positions /\ Kept' /\ UsesLiveness(code)' = UsesLiveness(code)
      /\ \A p : Uses(p)' = Uses(p) /\ Defs(p)' = Defs(p) /\ Successors(p)' = Successors(p)
  BY <1>1, CodeKept
<1>3. Len(code) \in Nat \ {0} /\ Positions = 1..Len(code)
  BY CodeFacts DEF Positions
<1>4. position \in Positions /\ position \in Nat
  BY <1>1, <1>3 DEF TypeOK
<1>5. live_in \in [Positions -> SUBSET Registers] /\ live_out \in [Positions -> SUBSET Registers]
  BY DEF TypeOK
<1>6. LiveOut(position) \subseteq Registers
  <2>1. Successors(position) \subseteq Positions
    BY <1>4, PassFacts
  <2> QED
    BY <1>5, <2>1 DEF LiveOut
<1>7. LiveIn(position) \subseteq Registers
  BY <1>4, <1>6, PassFacts DEF LiveIn
<1>8. /\ live_out' = [live_out EXCEPT ![position] = LiveOut(position)]
      /\ live_in' = [live_in EXCEPT ![position] = LiveIn(position)]
      /\ changed' = \/ changed
                    \/ LiveOut(position) # live_out[position]
                    \/ LiveIn(position) # live_in[position]
      /\ position' = position - 1
      /\ UNCHANGED <<intervals, ordered, active, mapping, pc, virtual, physical>>
  BY DEF Propagate, scanVars, runVars
<1>9. TypeOK'
  <2>1. live_in' \in [Positions -> SUBSET Registers] /\ live_out' \in [Positions -> SUBSET Registers]
    BY <1>4, <1>5, <1>6, <1>7, <1>8
  <2>2. changed' \in BOOLEAN
    <3>1. changed \in BOOLEAN
      BY DEF TypeOK
    <3> QED
      BY <1>8, <3>1
  <2>3. position' \in 0..(Len(code) + 1) /\ position' <= Len(code)
    BY <1>3, <1>4, <1>8
  <2> QED
    BY <1>1, <1>2, <1>8, <2>1, <2>2, <2>3 DEF TypeOK
<1>10. Phases'
  BY <1>1, <1>2, <1>8 DEF Phases, Undefined
<1>11. Analysed'
  <2> SUFFICES ASSUME ~changed', NEW p \in Positions, p > position'
               PROVE  Solved(p)'
    BY <1>1, <1>2 DEF Analysed
  <2>1. ~changed /\ LiveOut(position) = live_out[position] /\ LiveIn(position) = live_in[position]
    BY <1>8
  <2>2. live_in' = live_in /\ live_out' = live_out
    BY <1>4, <1>5, <1>8, <2>1
  <2>3. p > position \/ p = position
    BY <1>3, <1>4, <1>8
  <2>4. Solved(p)
    <3>1. CASE p > position
      BY <1>1, <2>1, <3>1 DEF Analysed
    <3>2. CASE p = position
      BY <2>1, <3>2 DEF Solved
    <3> QED
      BY <2>3, <3>1, <3>2
  <2> QED
    BY <1>1, <2>2, <2>4, FlowKept
<1>12. Covered' /\ Scanned' /\ Tracks'
  BY <1>1, <1>8 DEF Covered, Scanned, Tracks
<1> QED
  BY <1>2, <1>9, <1>10, <1>11, <1>12

LEMMA EndPassInv ==
    ASSUME AllocationInv, EndPass
    PROVE  AllocationInv'
<1> USE DEF AllocationInv
<1>1. UNCHANGED <<code, live_in, live_out, intervals, ordered, active, mapping, pc,
                  virtual, physical>>
      /\ phase = "liveness" /\ position = 0 /\ changed' = FALSE
  BY DEF EndPass, scanVars, runVars
<1>2. \/ changed /\ position' = Len(code) /\ phase' = "liveness"
      \/ ~changed /\ position' = 1 /\ phase' = "intervals"
  BY DEF EndPass
<1>3. Positions' = Positions /\ Kept' /\ UsesLiveness(code)' = UsesLiveness(code)
  BY <1>1, CodeKept
<1>4. Len(code) \in Nat \ {0} /\ Positions = 1..Len(code)
  BY CodeFacts DEF Positions
<1>5. TypeOK'
  <2>1. position' \in 0..(Len(code) + 1) /\ (phase' = "liveness" => position' <= Len(code))
        /\ (phase' = "intervals" => position' >= 1)
    BY <1>2, <1>4
  <2> QED
    BY <1>1, <1>2, <1>3, <2>1 DEF TypeOK
<1>6. Phases'
  BY <1>1, <1>2, <1>3 DEF Phases, Undefined
<1>7. Analysed'
  <2>1. CASE changed
    BY <1>1, <1>2, <1>3, <1>4, <2>1 DEF Analysed
  <2>2. CASE ~changed
    <3>1. \A p \in Positions : Solved(p)
      BY <1>1, <1>4, <2>2 DEF Analysed
    <3>2. \A p \in Positions : Solved(p)'
      BY <1>1, <3>1, FlowKept
    <3> QED
      BY <1>2, <1>3, <2>2, <3>2 DEF Analysed
  <2> QED
    BY <2>1, <2>2
<1>8. Covered'
  <2>1. DOMAIN intervals = {} /\ DOMAIN intervals' = {}
    BY <1>1 DEF Covered
  <2>2. \A p \in Positions : ~(p < 1)
    BY <1>4
  <2> QED
    BY <1>2, <1>3, <2>1, <2>2 DEF Covered
<1>9. Scanned' /\ Tracks'
  BY <1>1, <1>2 DEF Scanned, Tracks
<1> QED
  BY <1>3, <1>5, <1>6, <1>7, <1>8, <1>9

LEMMA ExtendIntervalsInv ==
    ASSUME AllocationInv, ExtendIntervals
    PROVE  AllocationInv'
<1> USE DEF AllocationInv
<1>1. UNCHANGED <<code, phase, changed, live_in, live_out, ordered, active, mapping,
                  pc, virtual, physical>>
      /\ phase = "intervals" /\ position <= Len(code) /\ position' = position + 1
  BY DEF ExtendIntervals, runVars
<1>2. Positions' = Positions /\ Kept' /\ UsesLiveness(code)' = UsesLiveness(code)
      /\ \A p : Touched(p)' = Touched(p)
  BY <1>1, CodeKept, FlowKept
<1>3. Len(code) \in Nat \ {0} /\ Positions = 1..Len(code) /\ position \in Positions
  BY <1>1, CodeFacts DEF Positions, TypeOK
<1>4. Touched(position) \subseteq Registers
  BY <1>3, PassFacts DEF Touched, TypeOK
<1>5. intervals' =
        [r \in DOMAIN intervals \cup Touched(position) |->
           IF r \notin DOMAIN intervals THEN [start |-> position, end |-> position]
           ELSE IF r \in Touched(position) THEN [intervals[r] EXCEPT !.end = position]
           ELSE intervals[r]]
  BY DEF ExtendIntervals
<1>6. DOMAIN intervals' = DOMAIN intervals \cup Touched(position)
  BY <1>5
<1>7. \A r \in DOMAIN intervals : intervals[r] \in [start : Positions, end : Positions]
  BY DEF TypeOK
<1>14. ASSUME NEW r \in DOMAIN intervals
       PROVE  intervals[r].start \in Nat /\ intervals[r].end \in Nat
  <2>1. intervals[r] \in [start : Positions, end : Positions]
    BY <1>7
  <2> QED
    BY <1>3, <2>1
<1>8. \A r \in DOMAIN intervals' :
        /\ intervals'[r] \in [start : Positions, end : Positions]
        /\ r \in Touched(position) => intervals'[r].end = position
        /\ r \in DOMAIN intervals => intervals'[r].start = intervals[r].start
        /\ r \notin DOMAIN intervals => intervals'[r].start = position
        /\ r \notin Touched(position) => intervals'[r].end = intervals[r].end
  <2> TAKE r \in DOMAIN intervals'
  <2>1. CASE r \notin DOMAIN intervals
    <3>1. intervals'[r] = [start |-> position, end |-> position] /\ r \in Touched(position)
      BY <1>5, <1>6, <2>1
    <3> QED
      BY <1>3, <2>1, <3>1
  <2>2. CASE r \in DOMAIN intervals /\ r \in Touched(position)
    <3>1. intervals'[r] = [intervals[r] EXCEPT !.end = position]
      BY <1>5, <1>6, <2>2
    <3> QED
      BY <1>3, <1>7, <2>2, <3>1
  <2>3. CASE r \in DOMAIN intervals /\ r \notin Touched(position)
    <3>1. intervals'[r] = intervals[r]
      BY <1>5, <1>6, <2>3
    <3> QED
      BY <1>7, <2>3, <3>1
  <2> QED
    BY <2>1, <2>2, <2>3
<1>9. TypeOK'
  <2>1. DOMAIN intervals' \subseteq Registers
    BY <1>4, <1>6 DEF TypeOK
  <2>2. position' \in 0..(Len(code) + 1) /\ position' >= 1
    BY <1>1, <1>3
  <2>3. ordered' \subseteq DOMAIN intervals'
    BY <1>1, <1>6 DEF TypeOK
  <2>4. \A r \in DOMAIN intervals' :
          intervals'[r] \in [start : Positions', end : Positions']
    BY <1>2, <1>8
  <2> QED
    BY <1>1, <1>2, <2>1, <2>2, <2>3, <2>4 DEF TypeOK
<1>10. Phases'
  BY <1>1, <1>2 DEF Phases, Undefined
<1>11. Analysed'
  BY <1>1, <1>2, FlowKept DEF Analysed
<1>12. Covered'
  <2>1. \A p \in Positions : p < position => Covers(p)
    BY <1>1 DEF Covered
  <2>5. \A r \in DOMAIN intervals :
          intervals[r].start <= intervals[r].end /\ intervals[r].end < position
    BY <1>1 DEF Covered
  <2>4. ASSUME NEW r \in DOMAIN intervals
        PROVE  /\ intervals[r].start \in Nat /\ intervals[r].end \in Nat
               /\ intervals[r].start <= intervals[r].end
               /\ intervals[r].end < position
    <3>1. intervals[r].start \in Nat /\ intervals[r].end \in Nat
      BY <1>14
    <3>2. intervals[r].start <= intervals[r].end /\ intervals[r].end < position
      BY <2>5
    <3> QED
      BY <3>1, <3>2
  <2>2. ASSUME NEW p \in Positions, p < position'
        PROVE  Covers(p)'
    <3> SUFFICES ASSUME NEW r \in Touched(p)
                 PROVE  /\ r \in DOMAIN intervals'
                        /\ intervals'[r].start <= p /\ p <= intervals'[r].end
      BY <1>2 DEF Covers
    <3>1. p < position \/ p = position
      BY <1>1, <1>3, <2>2
    <3>2. CASE p < position
      <4>1. r \in DOMAIN intervals /\ intervals[r].start <= p /\ p <= intervals[r].end
        BY <2>1, <3>2 DEF Covers
      <4>2. r \in DOMAIN intervals' /\ intervals'[r].start = intervals[r].start
        BY <1>6, <1>8, <4>1
      <4>3. intervals'[r].end = position \/ intervals'[r].end = intervals[r].end
        BY <1>8, <4>2
      <4> QED
        BY <1>3, <3>2, <4>1, <4>2, <4>3
    <3>3. CASE p = position
      <4>1. r \in DOMAIN intervals' /\ intervals'[r].end = position
        BY <1>6, <1>8, <3>3
      <4>2. intervals'[r].start = position
            \/ (r \in DOMAIN intervals /\ intervals'[r].start = intervals[r].start)
        BY <1>8, <4>1
      <4>3. CASE intervals'[r].start = position
        BY <1>3, <3>3, <4>1, <4>3
      <4>4. CASE r \in DOMAIN intervals /\ intervals'[r].start = intervals[r].start
        <5>1. intervals'[r].start <= position
          <6>1. /\ intervals[r].start <= intervals[r].end
                /\ intervals[r].end < position
                /\ intervals[r].start \in Nat /\ intervals[r].end \in Nat
            BY <2>4, <4>4
          <6> QED
            BY <1>3, <4>4, <6>1
        <5> QED
          BY <1>3, <3>3, <4>1, <5>1
      <4> QED
        BY <4>2, <4>3, <4>4
    <3> QED
      BY <3>1, <3>2, <3>3
  <2>3. ASSUME NEW r \in DOMAIN intervals'
        PROVE  intervals'[r].start <= intervals'[r].end /\ intervals'[r].end < position'
    <3>1. CASE r \in DOMAIN intervals
      <4>1. /\ intervals[r].start <= intervals[r].end /\ intervals[r].end < position
            /\ intervals[r].start \in Nat /\ intervals[r].end \in Nat
        BY <2>4, <3>1
      <4>2. intervals'[r].start = intervals[r].start
            /\ (intervals'[r].end = position \/ intervals'[r].end = intervals[r].end)
        BY <1>8, <3>1
      <4> QED
        BY <1>1, <1>3, <4>1, <4>2
    <3>2. CASE r \notin DOMAIN intervals
      <4>1. intervals'[r].start = position /\ intervals'[r].end = position
        BY <1>6, <1>8, <3>2
      <4> QED
        BY <1>1, <1>3, <4>1
    <3> QED
      BY <3>1, <3>2
  <2> QED
    BY <1>1, <1>2, <2>2, <2>3 DEF Covered
<1>13. Scanned' /\ Tracks'
  BY <1>1 DEF Scanned, Tracks
<1> QED
  BY <1>2, <1>9, <1>10, <1>11, <1>12, <1>13

LEMMA EndIntervalsInv ==
    ASSUME AllocationInv, EndIntervals
    PROVE  AllocationInv'
<1> USE DEF AllocationInv
<1>1. UNCHANGED <<code, position, changed, live_in, live_out, intervals, active,
                  mapping, pc, virtual, physical>>
      /\ phase = "intervals" /\ position > Len(code)
      /\ phase' = "scan" /\ ordered' = DOMAIN intervals
  BY DEF EndIntervals, flowVars, runVars
<1>2. Positions' = Positions /\ Kept' /\ UsesLiveness(code)' = UsesLiveness(code)
      /\ \A p : Touched(p)' = Touched(p) /\ Solved(p)' = Solved(p)
  BY <1>1, CodeKept, FlowKept
<1>3. Len(code) \in Nat \ {0} /\ Positions = 1..Len(code) /\ position \in Nat
  BY <1>1, CodeFacts DEF Positions, TypeOK
<1>4. DOMAIN mapping = {} /\ active = {}
  BY <1>1 DEF Scanned, TypeOK
<1>5. TypeOK'
  BY <1>1, <1>2 DEF TypeOK
<1>6. Phases'
  BY <1>1, <1>2 DEF Phases, Undefined
<1>7. Analysed'
  BY <1>1, <1>2 DEF Analysed
<1>8. Covered'
  <2>1. \A p \in Positions : Covers(p)
    BY <1>1, <1>3 DEF Covered
  <2>2. \A p \in Positions : Covers(p)'
    BY <1>1, <1>2, <2>1 DEF Covers
  <2> QED
    BY <1>1, <1>2, <2>2 DEF Covered
<1>9. Scanned'
  BY <1>1, <1>4 DEF Scanned, Disjoint
<1>10. Tracks'
  BY <1>1 DEF Tracks
<1> QED
  BY <1>2, <1>5, <1>6, <1>7, <1>8, <1>9, <1>10

-----------------------------------------------------------------------------
(* The scan.  A register that the next one meets is still active, since    *)
(* those that were retired end before the remaining ones start.            *)

LEMMA AssignInv ==
    ASSUME AllocationInv, NEW r \in ordered, NEW n \in Nat, Assign(r, n)
    PROVE  AllocationInv'
<1> USE DEF AllocationInv
<1>1. UNCHANGED <<code, phase, position, changed, live_in, live_out, intervals,
                  pc, virtual, physical>>
      /\ phase = "scan"
  BY DEF Assign, flowVars, runVars
<1>2. /\ \A s \in ordered : Before(r, s)
      /\ \A s \in StillActive(r) : mapping[s] # n
      /\ ordered' = ordered \ {r}
      /\ active' = StillActive(r) \cup {r}
      /\ mapping' = [s \in DOMAIN mapping \cup {r} |-> IF s = r THEN n ELSE mapping[s]]
  BY DEF Assign, FirstFree
<1>3. Positions' = Positions /\ Kept' /\ UsesLiveness(code)' = UsesLiveness(code)
      /\ \A p : Touched(p)' = Touched(p) /\ Solved(p)' = Solved(p)
  BY <1>1, CodeKept, FlowKept
<1>4. Positions \subseteq Nat
  BY CodeFacts DEF Positions
<1>5. ASSUME NEW s \in DOMAIN intervals
      PROVE  intervals[s].start \in Nat /\ intervals[s].end \in Nat
  <2>1. intervals[s] \in [start : Positions, end : Positions]
    BY DEF TypeOK
  <2> QED
    BY <1>4, <2>1
<1>6. r \in DOMAIN intervals /\ ordered \subseteq DOMAIN intervals
      /\ DOMAIN intervals \subseteq Registers /\ active \subseteq DOMAIN mapping
      /\ DOMAIN mapping \subseteq Registers /\ \A s \in DOMAIN mapping : mapping[s] \in Nat
  BY DEF TypeOK
<1>7. DOMAIN mapping = DOMAIN intervals \ ordered
      /\ \A q \in DOMAIN mapping, s \in ordered :
           /\ intervals[q].start <= intervals[s].start
           /\ q \notin active => intervals[q].end < intervals[s].start
  BY <1>1 DEF Scanned
<1>8. Disjoint
  BY <1>1 DEF Scanned
<1>9. r \notin DOMAIN mapping /\ DOMAIN mapping' = DOMAIN mapping \cup {r}
      /\ mapping'[r] = n /\ \A s \in DOMAIN mapping : mapping'[s] = mapping[s]
  BY <1>2, <1>7
<1>10. TypeOK'
  <2>1. active' \subseteq DOMAIN mapping' /\ DOMAIN mapping' \subseteq Registers
        /\ \A s \in DOMAIN mapping' : mapping'[s] \in Nat
    BY <1>2, <1>6, <1>9 DEF StillActive
  <2>2. ordered' \subseteq DOMAIN intervals'
    BY <1>1, <1>2, <1>6
  <2> QED
    BY <1>1, <1>3, <2>1, <2>2 DEF TypeOK
<1>11. Phases'
  BY <1>1, <1>3 DEF Phases, Undefined
<1>12. Analysed'
  BY <1>1, <1>3 DEF Analysed
<1>13. Covered'
  <2>1. \A p : Covers(p)' = Covers(p)
    BY <1>1, <1>3 DEF Covers
  <2> QED
    BY <1>1, <1>3, <2>1 DEF Covered
<1>14. DOMAIN mapping' = DOMAIN intervals' \ ordered'
  BY <1>1, <1>2, <1>6, <1>7, <1>9
<1>15. ASSUME NEW q \in DOMAIN mapping', NEW s \in ordered'
       PROVE  /\ intervals[q].start <= intervals[s].start
              /\ q \notin active' => intervals[q].end < intervals[s].start
  <2>1. s \in ordered /\ s \in DOMAIN intervals /\ Before(r, s)
    BY <1>2, <1>6
  <2>2. intervals[r].start <= intervals[s].start
    BY <1>5, <1>6, <2>1 DEF Before
  <2>3. CASE q = r
    BY <1>2, <2>2, <2>3
  <2>4. CASE q # r
    <3>1. q \in DOMAIN mapping /\ q \in DOMAIN intervals
      BY <1>7, <1>9, <2>4
    <3>2. intervals[q].start <= intervals[s].start
          /\ (q \notin active => intervals[q].end < intervals[s].start)
      BY <1>7, <2>1, <3>1
    <3>3. q \in active /\ q \notin active' => ~(intervals[q].end >= intervals[r].start)
      BY <1>2 DEF StillActive
    <3>4. /\ intervals[q].end \in Nat
          /\ intervals[r].start \in Nat
          /\ intervals[s].start \in Nat
      BY <1>5, <1>6, <2>1, <3>1
    <3> QED
      BY <2>2, <3>2, <3>3, <3>4
  <2> QED
    BY <2>3, <2>4
<1>16. ASSUME NEW q \in DOMAIN mapping, mapping[q] = n
       PROVE  intervals[q].end < intervals[r].start
  <2>1. q \in DOMAIN intervals
    BY <1>7
  <2>2. intervals[q].end \in Nat /\ intervals[r].start \in Nat
    BY <1>5, <1>6, <2>1
  <2>3. q \notin StillActive(r)
    BY <1>2, <1>16
  <2>4. CASE q \in active
    <3>1. ~(intervals[q].end >= intervals[r].start)
      BY <2>3, <2>4 DEF StillActive
    <3> QED
      BY <2>2, <3>1
  <2>5. CASE q \notin active
    BY <1>7, <2>5
  <2> QED
    BY <2>4, <2>5
<1>17. Disjoint'
  <2> SUFFICES ASSUME NEW q \in DOMAIN mapping', NEW s \in DOMAIN mapping',
                      q # s, mapping'[q] = mapping'[s]
               PROVE  Apart(q, s)
    BY <1>1 DEF Disjoint, Apart
  <2>1. CASE q = r
    <3>1. s \in DOMAIN mapping /\ mapping[s] = n
      BY <1>9, <2>1
    <3> QED
      BY <1>16, <2>1, <3>1 DEF Apart
  <2>2. CASE s = r
    <3>1. q \in DOMAIN mapping /\ mapping[q] = n
      BY <1>9, <2>2
    <3> QED
      BY <1>16, <2>2, <3>1 DEF Apart
  <2>3. CASE q # r /\ s # r
    <3>1. q \in DOMAIN mapping /\ s \in DOMAIN mapping /\ mapping[q] = mapping[s]
      BY <1>9, <2>3
    <3> QED
      BY <1>8, <3>1 DEF Disjoint
  <2> QED
    BY <2>1, <2>2, <2>3
<1>18. Scanned'
  BY <1>1, <1>14, <1>15, <1>17 DEF Scanned
<1>19. Tracks'
  BY <1>1 DEF Tracks
<1> QED
  BY <1>3, <1>10, <1>11, <1>12, <1>13, <1>18, <1>19

-----------------------------------------------------------------------------
(* The mapping is complete.                                                *)

LEMMA StartInv ==
    ASSUME AllocationInv, NEW m, Start(m), phase # "run",
           DOMAIN m \subseteq Registers, \A r \in DOMAIN m : m[r] \in Nat,
           UsesLiveness(code) => phase = "scan" /\ m = mapping /\ ordered = {},
           ~UsesLiveness(code) =>
             /\ DOMAIN m = Mentioned
             /\ \A r, s \in Mentioned : m[r] = m[s] => r = s
    PROVE  AllocationInv'
<1> USE DEF AllocationInv
<1>1. /\ UNCHANGED <<code, position, changed, live_in, live_out, intervals, ordered,
                     active, pc, virtual>>
      /\ phase' = "run" /\ mapping' = m
      /\ physical' = [n \in {m[r] : r \in DOMAIN m} |-> Undefined]
  BY DEF Start, flowVars
<1>2. Positions' = Positions /\ Kept' /\ UsesLiveness(code)' = UsesLiveness(code)
      /\ Mentioned' = Mentioned
      /\ \A p : Touched(p)' = Touched(p) /\ Solved(p)' = Solved(p)
  BY <1>1, CodeKept, FlowKept
<1>3. TypeOK'
  <2>1. active' \subseteq DOMAIN mapping'
    <3>1. CASE UsesLiveness(code)
      BY <1>1, <3>1 DEF TypeOK
    <3>2. CASE ~UsesLiveness(code)
      <4>1. phase = "dense"
        BY <3>2 DEF Phases, TypeOK
      <4>2. DOMAIN mapping = {} /\ active \subseteq DOMAIN mapping
        BY <4>1 DEF Scanned, TypeOK
      <4> QED
        BY <1>1, <4>2
    <3> QED
      BY <3>1, <3>2
  <2>2. DOMAIN physical' = {mapping'[r] : r \in DOMAIN mapping'}
    BY <1>1
  <2> QED
    BY <1>1, <1>2, <2>1, <2>2 DEF TypeOK
<1>4. Phases'
  BY <1>1 DEF Phases
<1>5. Analysed'
  <2>1. UsesLiveness(code) => \A p \in Positions : Solved(p)
    BY DEF Analysed
  <2> QED
    BY <1>1, <1>2, <2>1 DEF Analysed
<1>6. Covered'
  <2>1. UsesLiveness(code) => \A p \in Positions : Covers(p)
    BY DEF Covered
  <2>2. \A p : Covers(p)' = Covers(p)
    BY <1>1, <1>2 DEF Covers
  <2> QED
    BY <1>1, <1>2, <2>1, <2>2 DEF Covered
<1>7. Scanned'
  <2>1. UsesLiveness(code) => DOMAIN mapping' = DOMAIN intervals' /\ Disjoint'
    <3> SUFFICES ASSUME UsesLiveness(code)
                 PROVE  DOMAIN mapping' = DOMAIN intervals' /\ Disjoint'
      OBVIOUS
    <3>1. DOMAIN mapping = DOMAIN intervals \ ordered /\ Disjoint /\ ordered = {}
          /\ UNCHANGED <<mapping, intervals>>
      BY <1>1 DEF Scanned
    <3> QED
      BY <3>1 DEF Disjoint, Apart
  <2> QED
    BY <1>1, <1>2, <2>1 DEF Scanned
<1>8. Tracks'
  <2> SUFFICES ASSUME NEW r \in Tracked', pc \in Positions
               PROVE  physical'[m[r]] = virtual[r]
    BY <1>1, <1>2 DEF Tracks
  <2>1. r \in DOMAIN m
    <3>1. CASE UsesLiveness(code)
      <4>1. r \in live_in[pc]
        BY <1>1, <1>2, <3>1 DEF Tracked
      <4>2. r \in DOMAIN intervals
        BY <3>1, <4>1 DEF Covered, Covers, Touched
      <4>3. DOMAIN mapping = DOMAIN intervals \ ordered /\ ordered = {}
        BY <3>1 DEF Scanned
      <4> QED
        BY <3>1, <4>2, <4>3
    <3>2. CASE ~UsesLiveness(code)
      BY <1>1, <1>2, <3>2 DEF Tracked
    <3> QED
      BY <3>1, <3>2
  <2>2. physical'[m[r]] = Undefined
    BY <1>1, <2>1
  <2>3. virtual[r] = Undefined
    BY <2>1 DEF Phases
  <2> QED
    BY <2>2, <2>3
<1> QED
  BY <1>2, <1>3, <1>4, <1>5, <1>6, <1>7, <1>8

LEMMA MentionedRegisters == Kept => Mentioned \subseteq Registers
BY CodeFacts DEF Mentioned

LEMMA DenseInv ==
    ASSUME AllocationInv, Dense
    PROVE  AllocationInv'
<1>1. PICK m \in [Mentioned -> 0..(Cardinality(Mentioned) - 1)] :
        (\A r, s \in Mentioned : m[r] = m[s] => r = s) /\ Start(m)
  BY DEF Dense
<1>2. phase = "dense" /\ ~UsesLiveness(code)
  BY DEF Dense, AllocationInv, Phases
<1>3. DOMAIN m = Mentioned /\ \A r \in Mentioned : m[r] \in Nat
  OBVIOUS
<1>4. Mentioned \subseteq Registers
  BY MentionedRegisters DEF AllocationInv
<1> QED
  BY <1>1, <1>2, <1>3, <1>4, StartInv

LEMMA EndScanInv ==
    ASSUME AllocationInv, EndScan
    PROVE  AllocationInv'
<1>1. phase = "scan" /\ ordered = {} /\ Start(mapping)
  BY DEF EndScan
<1>2. UsesLiveness(code)
  BY <1>1 DEF AllocationInv, Phases
<1>3. DOMAIN mapping \subseteq Registers /\ \A r \in DOMAIN mapping : mapping[r] \in Nat
  BY DEF AllocationInv, TypeOK
<1> QED
  BY <1>1, <1>2, <1>3, StartInv

-----------------------------------------------------------------------------
(* Execution.                                                              *)

\* Registers that are touched together have registers of their own.
LEMMA TouchedApart ==
    ASSUME AllocationInv, phase = "run", NEW p \in Positions, UsesLiveness(code),
           NEW r \in Touched(p), NEW s \in Touched(p)
    PROVE  /\ r \in DOMAIN mapping
           /\ mapping[r] = mapping[s] => r = s
<1> USE DEF AllocationInv
<1>1. Covers(p) /\ DOMAIN mapping = DOMAIN intervals /\ Disjoint
  BY DEF Covered, Scanned
<1>2. /\ r \in DOMAIN intervals /\ intervals[r].start <= p /\ p <= intervals[r].end
      /\ s \in DOMAIN intervals /\ intervals[s].start <= p /\ p <= intervals[s].end
  BY <1>1 DEF Covers
<1>3. Positions \subseteq Nat
  BY CodeFacts DEF Positions
<1>4. intervals[r] \in [start : Positions, end : Positions]
      /\ intervals[s] \in [start : Positions, end : Positions]
  BY <1>2 DEF TypeOK
<1>5. /\ intervals[r].start \in Nat /\ intervals[r].end \in Nat
      /\ intervals[s].start \in Nat /\ intervals[s].end \in Nat /\ p \in Nat
  BY <1>3, <1>4
<1>6. ~Apart(r, s)
  BY <1>2, <1>5 DEF Apart
<1> QED
  BY <1>1, <1>2, <1>6 DEF Disjoint

\* What must agree after a step at pc is touched by it, and agreed before
\* unless the step writes it.
LEMMA TrackedBefore ==
    ASSUME AllocationInv, phase = "run", pc \in Positions,
           NEW next \in Goes(pc), next \in Positions,
           NEW r, IF UsesLiveness(code) THEN r \in live_in[next] ELSE r \in Mentioned
    PROVE  /\ r \in Tracked \/ r \in code[pc].dsts
           /\ r \in DOMAIN mapping /\ r \in Registers
           /\ \A s \in code[pc].dsts :
                s \in DOMAIN mapping /\ (mapping[s] = mapping[r] => s = r)
<1> USE DEF AllocationInv
<1>1. CASE UsesLiveness(code)
  <2>1. next \in Successors(pc)
    BY GoesWhereAnalysed
  <2>2. Solved(pc)
    BY <1>1 DEF Analysed
  <2>3. r \in live_out[pc]
    BY <1>1, <2>1, <2>2 DEF Solved, LiveOut
  <2>4. r \in live_in[pc] \/ r \in Defs(pc)
    BY <2>2, <2>3 DEF Solved, LiveIn, LiveOut
  <2>5. code[pc].dsts \subseteq Touched(pc) /\ r \in Touched(pc)
        /\ Defs(pc) \subseteq code[pc].dsts
    BY <2>3, PassFacts DEF Touched
  <2>6. DOMAIN mapping \subseteq Registers
    BY DEF TypeOK
  <2> QED
    BY <1>1, <2>4, <2>5, <2>6, TouchedApart DEF Tracked
<1>2. CASE ~UsesLiveness(code)
  <2>1. code[pc].dsts \subseteq Mentioned
    BY DEF Mentioned
  <2>2. DOMAIN mapping = Mentioned
        /\ \A s, t \in Mentioned : mapping[s] = mapping[t] => s = t
    BY <1>2 DEF Scanned
  <2>3. r \in Registers
    BY <1>2, MentionedRegisters
  <2> QED
    BY <1>2, <2>1, <2>2, <2>3 DEF Tracked
<1> QED
  BY <1>1, <1>2

LEMMA ExecuteInv ==
    ASSUME AllocationInv, Execute
    PROVE  AllocationInv'
<1> USE DEF AllocationInv
<1>1. /\ UNCHANGED <<code, phase, position, changed, live_in, live_out, intervals,
                     ordered, active, mapping>>
      /\ phase = "run" /\ pc \in Positions /\ pc' \in Goes(pc)
  BY DEF Execute, flowVars, scanVars
<1>2. Positions' = Positions /\ Kept' /\ UsesLiveness(code)' = UsesLiveness(code)
      /\ Mentioned' = Mentioned
      /\ \A p : Touched(p)' = Touched(p) /\ Solved(p)' = Solved(p)
  BY <1>1, CodeKept, FlowKept
<1>3. /\ virtual' = [r \in Registers |->
                      IF r \in code[pc].dsts THEN <<pc, r>> ELSE virtual[r]]
      /\ physical' = [n \in DOMAIN physical |->
                       IF \E r \in code[pc].dsts : mapping[r] = n
                       THEN <<pc, CHOOSE r \in code[pc].dsts : mapping[r] = n>>
                       ELSE physical[n]]
  BY DEF Execute
<1>4. TypeOK'
  <2>1. Len(code) \in Nat \ {0} /\ pc \in 1..Len(code) /\ Registers \subseteq Nat
    BY <1>1, CodeFacts, ProgramAssumption DEF Positions
  <2>2. pc' \in 1..(Len(code) + 1)
    BY <1>1, GoesWhereAnalysed
  <2>3. virtual' \in [Registers -> (0..Len(code)) \X Nat]
    <3>1. virtual \in [Registers -> (0..Len(code)) \X Nat]
      BY DEF TypeOK
    <3>2. \A r \in Registers : <<pc, r>> \in (0..Len(code)) \X Nat
      BY <2>1
    <3> QED
      BY <1>3, <3>1, <3>2
  <2>4. DOMAIN physical' = {mapping'[r] : r \in DOMAIN mapping'}
    BY <1>1, <1>3 DEF TypeOK
  <2> QED
    BY <1>1, <1>2, <2>2, <2>3, <2>4 DEF TypeOK
<1>5. Phases' /\ Analysed'
  BY <1>1, <1>2 DEF Phases, Analysed
<1>6. Covered'
  <2>1. \A p : Covers(p)' = Covers(p)
    BY <1>1, <1>2 DEF Covers
  <2> QED
    BY <1>1, <1>2, <2>1 DEF Covered
<1>7. Scanned'
  <2>1. Disjoint' = Disjoint
    BY <1>1 DEF Disjoint, Apart
  <2> QED
    BY <1>1, <1>2, <2>1 DEF Scanned
<1>8. Tracks'
  <2> SUFFICES ASSUME pc' \in Positions, NEW r \in Tracked'
               PROVE  physical'[mapping[r]] = virtual'[r]
    BY <1>1, <1>2 DEF Tracks
  <2>1. IF UsesLiveness(code) THEN r \in live_in[pc'] ELSE r \in Mentioned
    BY <1>1, <1>2 DEF Tracked
  <2>2. /\ r \in Tracked \/ r \in code[pc].dsts
        /\ r \in DOMAIN mapping /\ r \in Registers
        /\ \A s \in code[pc].dsts :
             s \in DOMAIN mapping /\ (mapping[s] = mapping[r] => s = r)
    BY <1>1, <2>1, TrackedBefore
  <2>3. mapping[r] \in DOMAIN physical
    BY <1>1, <2>2 DEF TypeOK
  <2>4. CASE r \in code[pc].dsts
    <3>1. (CHOOSE s \in code[pc].dsts : mapping[s] = mapping[r]) = r
      BY <2>2, <2>4
    <3>2. physical'[mapping[r]] = <<pc, r>>
      BY <1>3, <2>3, <2>4, <3>1
    <3> QED
      BY <1>3, <2>2, <2>4, <3>2
  <2>5. CASE r \notin code[pc].dsts
    <3>1. ~\E s \in code[pc].dsts : mapping[s] = mapping[r]
      BY <2>2, <2>5
    <3>2. physical'[mapping[r]] = physical[mapping[r]]
      BY <1>3, <2>3, <3>1
    <3>3. virtual'[r] = virtual[r]
      BY <1>3, <2>2, <2>5
    <3>4. physical[mapping[r]] = virtual[r]
      BY <1>1, <2>2, <2>5 DEF Tracks
    <3> QED
      BY <3>2, <3>3, <3>4
  <2> QED
    BY <2>4, <2>5
<1> QED
  BY <1>2, <1>4, <1>5, <1>6, <1>7, <1>8

LEMMA FailInv ==
    ASSUME AllocationInv, Fail \/ EndPart
    PROVE  AllocationInv'
<1> USE DEF AllocationInv
<1>1. /\ UNCHANGED <<code, phase, position, changed, live_in, live_out, intervals,
                     ordered, active, mapping, virtual, physical>>
      /\ phase = "run" /\ pc \in Positions
  BY DEF Fail, EndPart, flowVars, scanVars
<1>2. PICK t \in Positions : code[t].op = "try" /\ pc' \in code[t].targets
  BY DEF Fail, EndPart, Protects
<1>3. Positions' = Positions /\ Kept' /\ UsesLiveness(code)' = UsesLiveness(code)
      /\ Mentioned' = Mentioned
      /\ \A p : Touched(p)' = Touched(p) /\ Solved(p)' = Solved(p)
  BY <1>1, CodeKept, FlowKept
<1>4. ~UsesLiveness(code)
  BY <1>2, CodeFacts DEF UsesLiveness
<1>5. pc' \in 1..(Len(code) + 1)
  BY <1>2, CodeFacts
<1>6. TypeOK'
  BY <1>1, <1>3, <1>5 DEF TypeOK
<1>7. Phases' /\ Analysed' /\ Covered'
  BY <1>1, <1>3, <1>4 DEF Phases, Analysed, Covered
<1>8. Scanned'
  BY <1>1, <1>3, <1>4 DEF Scanned
<1>9. Tracks'
  BY <1>1, <1>3, <1>4 DEF Tracks, Tracked
<1> QED
  BY <1>3, <1>6, <1>7, <1>8, <1>9

LEMMA StutterInv ==
    ASSUME AllocationInv, UNCHANGED vars
    PROVE  AllocationInv'
<1>1. UNCHANGED <<code, phase, position, changed, live_in, live_out, intervals,
                  ordered, active, mapping, pc, virtual, physical>>
  BY DEF vars, flowVars, scanVars, runVars
<1>2. Positions' = Positions /\ Kept' = Kept /\ UsesLiveness(code)' = UsesLiveness(code)
      /\ Mentioned' = Mentioned
      /\ \A p : Touched(p)' = Touched(p) /\ Solved(p)' = Solved(p)
  BY <1>1, CodeKept, FlowKept
<1>3. TypeOK' /\ Phases' /\ Analysed'
  BY <1>1, <1>2 DEF AllocationInv, TypeOK, Phases, Analysed, Undefined
<1>4. Covered'
  <2>1. \A p : Covers(p)' = Covers(p)
    BY <1>1, <1>2 DEF Covers
  <2> QED
    BY <1>1, <1>2, <2>1 DEF AllocationInv, Covered
<1>5. Scanned'
  <2>1. Disjoint' = Disjoint
    BY <1>1 DEF Disjoint, Apart
  <2> QED
    BY <1>1, <1>2, <2>1 DEF AllocationInv, Scanned
<1>6. Tracks'
  BY <1>1, <1>2 DEF AllocationInv, Tracks, Tracked
<1> QED
  BY <1>2, <1>3, <1>4, <1>5, <1>6 DEF AllocationInv

-----------------------------------------------------------------------------
\* The inductive invariant: live sets solve their equations, intervals cover
\* them, registers with a common physical one have intervals apart, and what
\* the frame may still read is where the mapping says.
THEOREM AllocationCorrect == Spec => []AllocationInv
<1>1. Init => AllocationInv
  BY InitInv
<1>2. AllocationInv /\ [Next]_vars => AllocationInv'
  <2> SUFFICES ASSUME AllocationInv, [Next]_vars
               PROVE  AllocationInv'
    OBVIOUS
  <2>1. CASE Dense
    BY <2>1, DenseInv
  <2>2. CASE Propagate
    BY <2>2, PropagateInv
  <2>3. CASE EndPass
    BY <2>3, EndPassInv
  <2>4. CASE ExtendIntervals
    BY <2>4, ExtendIntervalsInv
  <2>5. CASE EndIntervals
    BY <2>5, EndIntervalsInv
  <2>6. ASSUME NEW r \in ordered, NEW n \in 0..Cardinality(active), Assign(r, n)
        PROVE  AllocationInv'
    <3>1. n \in Nat
      OBVIOUS
    <3> QED
      BY <2>6, <3>1, AssignInv
  <2>7. CASE EndScan
    BY <2>7, EndScanInv
  <2>8. CASE Execute
    BY <2>8, ExecuteInv
  <2>9. CASE Fail \/ EndPart
    BY <2>9, FailInv
  <2>10. CASE UNCHANGED vars
    BY <2>10, StutterInv
  <2> QED
    BY <2>1, <2>2, <2>3, <2>4, <2>5, <2>6, <2>7, <2>8, <2>9, <2>10 DEF Next, Allocate
<1> QED
  BY <1>1, <1>2, PTL DEF Spec

\* Register types are kept in every frame and every pass.
THEOREM AllocationTypes == Spec => []TypeOK
<1>1. AllocationInv => TypeOK
  BY DEF AllocationInv
<1> QED
  BY <1>1, AllocationCorrect, PTL

\* Numbering registers again never changes what an instruction reads: for every
\* frame, whatever its length, registers, jumps and try statements.
THEOREM SharingIsSafe == Spec => []ReadsAgree
<1>1. AllocationInv => ReadsAgree
  <2> SUFFICES ASSUME AllocationInv, phase = "run", pc \in Positions,
                      NEW r \in code[pc].srcs
               PROVE  physical[mapping[r]] = virtual[r]
    BY DEF ReadsAgree
  <2>1. CASE UsesLiveness(code)
    <3>1. r \in Uses(pc)
      BY PassFacts DEF AllocationInv
    <3>2. r \in live_in[pc]
      BY <2>1, <3>1 DEF AllocationInv, Analysed, Solved, LiveIn
    <3> QED
      BY <2>1, <3>2 DEF AllocationInv, Tracks, Tracked
  <2>2. CASE ~UsesLiveness(code)
    <3>1. r \in Mentioned
      BY DEF Mentioned
    <3> QED
      BY <2>2, <3>1 DEF AllocationInv, Tracks, Tracked
  <2> QED
    BY <2>1, <2>2
<1> QED
  BY <1>1, AllocationCorrect, PTL

-----------------------------------------------------------------------------
(* The number of physical registers.                                       *)

\* A step that goes on with the same intervals and the same mapping.
LEMMA SamePacked ==
    ASSUME Packed, UNCHANGED <<code, intervals, mapping>>, phase' = "run" <=> phase = "run"
    PROVE  Packed'
<1>1. Positions' = Positions /\ UsesLiveness(code)' = UsesLiveness(code)
      /\ \A p : Crossing(p)' = Crossing(p)
  BY DEF Positions, UsesLiveness, Crossing
<1> QED
  BY <1>1 DEF Packed

\* As long as nothing is mapped.
LEMMA NothingPacked ==
    ASSUME Kept, DOMAIN mapping = {},
           \A r \in DOMAIN intervals : intervals[r].start <= intervals[r].end
    PROVE  Packed
<1>1. 1 \in Positions
  BY CodeFacts DEF Positions
<1> QED
  BY <1>1, FS_EmptySet DEF Packed

\* A register that is added to the others is used together with all those at its start.
LEMMA AssignPacked ==
    ASSUME AllocationInv, Packed, NEW r \in ordered, NEW n \in Nat, Assign(r, n)
    PROVE  Packed'
<1>1. /\ phase = "scan" /\ UNCHANGED <<code, intervals, phase>>
      /\ \A s \in ordered : Before(r, s)
      /\ \A s \in StillActive(r) : mapping[s] # n
      /\ \A k \in 0..(n - 1) : \E s \in StillActive(r) : mapping[s] = k
      /\ mapping' = [s \in DOMAIN mapping \cup {r} |-> IF s = r THEN n ELSE mapping[s]]
  BY DEF Assign, FirstFree, flowVars
<1>2. Positions' = Positions /\ Positions \subseteq Nat
  BY <1>1, CodeFacts DEF AllocationInv, Positions
<1>3. \A s \in DOMAIN intervals : /\ intervals[s].start \in Positions
                                  /\ intervals[s].end \in Positions
                                  /\ intervals[s].start \in Nat /\ intervals[s].end \in Nat
  BY <1>2 DEF AllocationInv, TypeOK
<1>4. /\ r \in DOMAIN intervals /\ r \notin DOMAIN mapping
      /\ DOMAIN mapping \subseteq DOMAIN intervals
      /\ active \subseteq DOMAIN mapping
      /\ \A s \in DOMAIN mapping : mapping[s] \in Nat
      /\ \A s \in DOMAIN mapping : intervals[s].start <= intervals[r].start
  BY <1>1 DEF AllocationInv, TypeOK, Scanned
<1>5. /\ DOMAIN mapping' = DOMAIN mapping \cup {r} /\ mapping'[r] = n
      /\ \A s \in DOMAIN mapping : mapping'[s] = mapping[s]
  BY <1>1, <1>4
<1>6. /\ IsFiniteSet(DOMAIN mapping)
      /\ \A s \in DOMAIN mapping : \A k \in 0..(mapping[s] - 1) :
           \E t \in DOMAIN mapping : mapping[t] = k
      /\ \E p \in Positions : \A s \in DOMAIN mapping :
           \E t \in Crossing(p) : mapping[t] = mapping[s]
  BY <1>1 DEF Packed
<1>7. IsFiniteSet(DOMAIN mapping')
  BY <1>5, <1>6, FS_AddElement
<1>8. ASSUME NEW s \in DOMAIN mapping', NEW k \in 0..(mapping'[s] - 1)
      PROVE  \E t \in DOMAIN mapping' : mapping'[t] = k
  <2>1. CASE s = r
    <3>1. k \in 0..(n - 1)
      BY <1>5, <1>8, <2>1
    <3>2. PICK t \in StillActive(r) : mapping[t] = k
      BY <1>1, <3>1
    <3> QED
      BY <1>4, <1>5, <3>2 DEF StillActive
  <2>2. CASE s # r
    BY <1>5, <1>6, <1>8, <2>2
  <2> QED
    BY <2>1, <2>2
<1>9. \A p : Crossing(p) \subseteq Crossing(p)' /\ Crossing(p) \subseteq DOMAIN mapping
  BY <1>1, <1>5 DEF Crossing
<1>10. \E p \in Positions : \A s \in DOMAIN mapping' :
         \E t \in Crossing(p)' : mapping'[t] = mapping'[s]
  <2>1. CASE \E q \in DOMAIN mapping : mapping[q] = n
    <3>1. PICK q \in DOMAIN mapping : mapping[q] = n
      BY <2>1
    <3>2. PICK p \in Positions : \A s \in DOMAIN mapping :
            \E t \in Crossing(p) : mapping[t] = mapping[s]
      BY <1>6
    <3>3. \A s \in DOMAIN mapping' : \E t \in Crossing(p) : mapping[t] = mapping'[s]
      BY <1>5, <3>1, <3>2
    <3> QED
      BY <1>5, <1>9, <3>3
  <2>2. CASE ~\E q \in DOMAIN mapping : mapping[q] = n
    <3>0. PICK p \in Positions : p = intervals[r].start
      BY <1>3, <1>4
    <3>1. r \in Crossing(p)'
      <4>1. intervals[r].start <= intervals[r].end
        BY <1>4 DEF Packed
      <4> QED
        BY <1>1, <1>3, <1>4, <1>5, <3>0, <4>1 DEF Crossing
    \* Nothing is numbered above n.
    <3>2. \A s \in DOMAIN mapping : mapping[s] < n
      <4> SUFFICES ASSUME NEW s \in DOMAIN mapping, ~(mapping[s] < n) PROVE FALSE
        OBVIOUS
      <4>1. mapping[s] # n /\ mapping[s] \in Nat
        BY <1>4, <2>2
      <4>2. n \in 0..(mapping[s] - 1)
        BY <4>1
      <4> QED
        BY <1>6, <2>2, <4>2
    <3>3. ASSUME NEW s \in DOMAIN mapping PROVE \E t \in Crossing(p)' : mapping'[t] = mapping'[s]
      <4>1. mapping[s] \in 0..(n - 1)
        BY <1>4, <3>2
      <4>2. PICK t \in StillActive(r) : mapping[t] = mapping[s]
        BY <1>1, <4>1
      <4>3. t \in DOMAIN mapping /\ intervals[t].start <= p /\ p <= intervals[t].end
        BY <1>3, <1>4, <3>0, <4>2 DEF StillActive
      <4>4. t \in Crossing(p)'
        BY <1>1, <1>5, <4>3 DEF Crossing
      <4> QED
        BY <1>5, <4>2, <4>3, <4>4
    <3>4. \A s \in DOMAIN mapping' : s = r \/ s \in DOMAIN mapping
      BY <1>5
    <3>5. \A s \in DOMAIN mapping' : \E t \in Crossing(p)' : mapping'[t] = mapping'[s]
      BY <3>1, <3>3, <3>4
    <3> QED
      BY <3>1, <3>5
  <2> QED
    BY <2>1, <2>2
<1> QED
  BY <1>1, <1>2, <1>7, <1>8, <1>10 DEF Packed

LEMMA InitPacked == Init => Packed
<1> SUFFICES ASSUME Init PROVE Packed
  OBVIOUS
<1>1. Kept /\ DOMAIN mapping = {} /\ DOMAIN intervals = {}
  BY DEF Init, Kept
<1> QED
  BY <1>1, NothingPacked

LEMMA NextPacked ==
    ASSUME AllocationInv, Packed, AllocationInv', [Next]_vars
    PROVE  Packed'
<1> USE DEF flowVars, scanVars, runVars
<1>1. CASE Dense
  <2>1. /\ phase = "dense" /\ phase' = "run" /\ UNCHANGED <<code, intervals>>
    BY <1>1 DEF Dense, Start
  <2>2. ~UsesLiveness(code) /\ UsesLiveness(code)' = UsesLiveness(code)
    BY <2>1 DEF AllocationInv, Phases, UsesLiveness
  <2> QED
    BY <2>1, <2>2 DEF Packed
<1>2. CASE Propagate \/ EndPass \/ EndIntervals \/ Execute \/ Fail \/ EndPart
  BY <1>2, SamePacked DEF Propagate, EndPass, EndIntervals, Execute, Fail, EndPart
<1>3. CASE ExtendIntervals
  <2>1. /\ phase = "intervals" /\ phase' = phase /\ mapping' = mapping
        /\ intervals' =
             [r \in DOMAIN intervals \cup Touched(position) |->
                IF r \notin DOMAIN intervals THEN [start |-> position, end |-> position]
                ELSE IF r \in Touched(position) THEN [intervals[r] EXCEPT !.end = position]
                ELSE intervals[r]]
    BY <1>3 DEF ExtendIntervals
  <2>2. /\ position \in Nat
        /\ \A r \in DOMAIN intervals :
             /\ intervals[r] \in [start : Positions, end : Positions]
             /\ intervals[r].start <= intervals[r].end /\ intervals[r].end < position
    BY <2>1, CodeFacts DEF AllocationInv, TypeOK, Covered
  <2>3. Positions \subseteq Nat
    BY CodeFacts DEF AllocationInv, Positions
  <2>4. ASSUME NEW r \in DOMAIN intervals' PROVE intervals'[r].start <= intervals'[r].end
    <3>1. CASE r \notin DOMAIN intervals
      BY <2>1, <2>2, <3>1
    <3>2. CASE r \in DOMAIN intervals
      <4>1. /\ intervals[r].start \in Nat /\ intervals[r].end \in Nat
            /\ intervals[r] \in [start : Positions, end : Positions]
        BY <2>2, <2>3, <3>2
      <4> QED
        BY <2>1, <2>2, <3>2, <4>1
    <3> QED
      BY <3>1, <3>2
  <2>5. DOMAIN mapping' = {}
    BY <2>1 DEF AllocationInv, Scanned
  <2>6. 1 \in Positions'
    BY <1>3, CodeFacts DEF AllocationInv, Positions, ExtendIntervals
  <2> QED
    BY <2>4, <2>5, <2>6, FS_EmptySet DEF Packed
<1>4. ASSUME NEW r \in ordered, NEW n \in 0..Cardinality(active), Assign(r, n)
      PROVE  Packed'
  <2>1. n \in Nat
    OBVIOUS
  <2> QED
    BY <1>4, <2>1, AssignPacked
<1>5. CASE EndScan
  <2>1. /\ phase = "scan" /\ UNCHANGED <<code, intervals, mapping>>
    BY <1>5 DEF EndScan, Start
  <2>2. Positions' = Positions /\ UsesLiveness(code)' = UsesLiveness(code)
        /\ \A p : Crossing(p)' = Crossing(p)
    BY <2>1 DEF Positions, UsesLiveness, Crossing
  <2> QED
    BY <2>1, <2>2 DEF Packed
<1>6. CASE UNCHANGED vars
  BY <1>6, SamePacked DEF vars
<1> QED
  BY <1>1, <1>2, <1>3, <1>4, <1>5, <1>6 DEF Next, Allocate

\* The scan needs no more physical registers than there are intervals over some
\* position, for every frame with intervals and whatever order they come in: those
\* that cross it have different ones, and there are no others.
THEOREM FrameIsSmallest == Spec => []FrameSmallest
<1>1. Init => Packed
  BY InitPacked
<1>2. AllocationInv /\ AllocationInv' /\ Packed /\ [Next]_vars => Packed'
  BY NextPacked
<1>3. AllocationInv /\ Packed => FrameSmallest
  <2> SUFFICES ASSUME AllocationInv, Packed, phase = "run", UsesLiveness(code)
               PROVE  \E p \in Positions :
                        Cardinality({mapping[r] : r \in DOMAIN mapping}) =
                        Cardinality({r \in DOMAIN intervals :
                                       intervals[r].start <= p /\ p <= intervals[r].end})
    BY DEF FrameSmallest
  <2>1. PICK p \in Positions : \A r \in DOMAIN mapping :
          \E s \in Crossing(p) : mapping[s] = mapping[r]
    BY DEF Packed
  <2>2. IsFiniteSet(DOMAIN mapping) /\ DOMAIN mapping = DOMAIN intervals /\ Disjoint
    BY DEF Packed, AllocationInv, Scanned
  <2> DEFINE image == {mapping[r] : r \in DOMAIN mapping}
             number == [r \in Crossing(p) |-> mapping[r]]
  <2>3. Crossing(p) \subseteq DOMAIN mapping
    BY DEF Crossing
  <2>4. IsFiniteSet(Crossing(p))
    BY <2>2, <2>3, FS_Subset
  <2>5. ASSUME NEW r \in Crossing(p), NEW s \in Crossing(p), mapping[r] = mapping[s]
        PROVE  r = s
    <3>1. /\ intervals[r].start <= p /\ p <= intervals[r].end
          /\ intervals[s].start <= p /\ p <= intervals[s].end
          /\ intervals[r] \in [start : Positions, end : Positions]
          /\ intervals[s] \in [start : Positions, end : Positions]
      BY <2>2 DEF Crossing, AllocationInv, TypeOK
    <3>2. Positions \subseteq Nat
      BY CodeFacts DEF AllocationInv, Positions
    <3>3. /\ p \in Nat /\ intervals[r].start \in Nat /\ intervals[r].end \in Nat
          /\ intervals[s].start \in Nat /\ intervals[s].end \in Nat
      BY <3>1, <3>2
    <3>4. ~Apart(r, s)
      BY <3>1, <3>3 DEF Apart
    <3> QED
      BY <2>2, <2>3, <2>5, <3>4 DEF Disjoint
  <2>6. number \in [Crossing(p) -> image]
    BY <2>3
  <2>7. \A n \in image : \E r \in Crossing(p) : number[r] = n
    BY <2>1
  <2>8. \A r, s \in Crossing(p) : number[r] = number[s] => r = s
    BY <2>5
  <2> HIDE DEF number, image
  <2>9. number \in Bijection(Crossing(p), image)
    BY <2>6, <2>7, <2>8 DEF Bijection, Injection, Surjection, IsInjective
  <2>10. Cardinality(image) = Cardinality(Crossing(p))
    BY <2>4, <2>9, FS_Bijection DEF ExistsBijection
  <2> QED
    BY <2>2, <2>10 DEF Crossing, image
<1> QED
  BY <1>1, <1>2, <1>3, AllocationCorrect, PTL DEF Spec

-----------------------------------------------------------------------------
(* Liveness is exact.                                                      *)

LEMMA SuccessorsGo ==
    ASSUME Kept, NEW p \in Positions
    PROVE  Successors(p) = Goes(p) \cap Positions
<1>1. Len(code) \in Nat \ {0} /\ Positions = 1..Len(code) /\ code[p].op \in Ops
  BY CodeFacts DEF Positions
<1>2. (Len(code) + 1) \notin Positions
  BY <1>1
<1> QED
  BY <1>1, <1>2 DEF Goes, Successors, Ops

LEMMA ReachedKept ==
    ASSUME UNCHANGED code
    PROVE  \A p, r : ReachedFrom(p, r)' = ReachedFrom(p, r)
<1>1. /\ Positions' = Positions
      /\ \A p : Goes(p)' = Goes(p) /\ Defs(p)' = Defs(p)
  BY DEF Positions, Goes, Defs
<1>2. \A C, r : ClosedFor(C, r)' = ClosedFor(C, r)
  BY <1>1 DEF ClosedFor
<1> QED
  BY <1>1, <1>2 DEF ReachedFrom

\* What can be reached from a successor can be reached from before it.
LEMMA ReachedOnward ==
    ASSUME Kept, NEW p \in Positions, NEW r, r \notin Defs(p),
           NEW s \in Successors(p)
    PROVE  ReachedFrom(s, r) \subseteq ReachedFrom(p, r)
<1> SUFFICES ASSUME NEW q \in ReachedFrom(s, r),
                    NEW C \in SUBSET Positions, p \in C, ClosedFor(C, r)
             PROVE  q \in C
  BY DEF ReachedFrom
<1>1. s \in C
  BY SuccessorsGo DEF ClosedFor
<1> QED
  BY <1>1 DEF ReachedFrom

\* A pass makes a register live because of a use at the position, or because of one
\* that is reached from a successor.
LEMMA PropagateGrounded ==
    ASSUME AllocationInv, Grounded, Propagate
    PROVE  Grounded'
<1>1. /\ phase = "liveness" /\ position > 0 /\ UNCHANGED code
      /\ live_in' = [live_in EXCEPT ![position] = LiveIn(position)]
  BY DEF Propagate
<1>2. /\ position \in Positions /\ Kept
      /\ live_in \in [Positions -> SUBSET Registers]
  BY <1>1, CodeFacts DEF AllocationInv, TypeOK, Positions
<1>3. Positions' = Positions /\ \A p : Uses(p)' = Uses(p)
  BY <1>1, CodeKept
<1>4. \A p, r : ReachedFrom(p, r)' = ReachedFrom(p, r)
  BY <1>1, ReachedKept
<1>5. ASSUME NEW r \in LiveIn(position)
      PROVE  \E q \in ReachedFrom(position, r) : r \in Uses(q)
  <2>1. CASE r \in Uses(position)
    <3>1. position \in ReachedFrom(position, r)
      BY <1>2 DEF ReachedFrom
    <3> QED
      BY <2>1, <3>1
  <2>2. CASE r \notin Uses(position)
    <3>1. r \notin Defs(position) /\ r \in LiveOut(position)
      BY <1>5, <2>2 DEF LiveIn
    <3>2. PICK s \in Successors(position) : r \in live_in[s]
      BY <3>1 DEF LiveOut
    <3>3. s \in Positions
      BY <1>2, <3>2, PassFacts
    <3>4. PICK q \in ReachedFrom(s, r) : r \in Uses(q)
      BY <3>2, <3>3 DEF Grounded
    <3> QED
      BY <1>2, <3>1, <3>2, <3>4, ReachedOnward
  <2> QED
    BY <2>1, <2>2
<1> SUFFICES ASSUME NEW p \in Positions, NEW r \in live_in'[p]
             PROVE  \E q \in ReachedFrom(p, r) : r \in Uses(q)
  BY <1>3, <1>4 DEF Grounded
<1>6. CASE p = position
  BY <1>1, <1>2, <1>5, <1>6
<1>7. CASE p # position
  BY <1>1, <1>2, <1>7 DEF Grounded
<1> QED
  BY <1>6, <1>7

LEMMA NextGrounded ==
    ASSUME AllocationInv, Grounded, [Next]_vars
    PROVE  Grounded'
<1>1. ASSUME UNCHANGED <<code, live_in>> PROVE Grounded'
  <2>1. /\ Positions' = Positions
        /\ \A p : Uses(p)' = Uses(p)
        /\ \A p, r : ReachedFrom(p, r)' = ReachedFrom(p, r)
    BY <1>1, CodeKept, ReachedKept
  <2> QED
    BY <1>1, <2>1 DEF Grounded
<1>2. CASE Propagate
  BY <1>2, PropagateGrounded
<1>3. CASE Next /\ ~Propagate
  <2>1. UNCHANGED <<code, live_in>>
    BY <1>3 DEF Next, Allocate, Dense, Start, EndPass, ExtendIntervals, EndIntervals,
                Assign, EndScan, Execute, Fail, EndPart, flowVars
  <2> QED
    BY <1>1, <2>1
<1>4. CASE UNCHANGED vars
  BY <1>1, <1>4 DEF vars, flowVars
<1> QED
  BY <1>2, <1>3, <1>4

\* The positions where r is live only if it is so at p are closed: a use among
\* those that can be reached from p makes it live at p.
LEMMA ReachedIsLive ==
    ASSUME Kept, NEW p \in Positions, NEW r, NEW q \in ReachedFrom(p, r), r \in Uses(q),
           \A s \in Positions : live_in[s] = LiveIn(s)
    PROVE  r \in live_in[p]
<1> DEFINE C == {s \in Positions : r \in live_in[s] => r \in live_in[p]}
<1>1. ASSUME NEW s \in C, r \notin Defs(s), NEW t \in Goes(s) \cap Positions,
             r \in live_in[t]
      PROVE  r \in live_in[p]
  <2>1. t \in Successors(s)
    BY <1>1, SuccessorsGo
  <2>2. r \in LiveIn(s)
    BY <1>1, <2>1 DEF LiveIn, LiveOut
  <2> QED
    BY <1>1, <2>2
<1>2. ClosedFor(C, r)
  BY <1>1 DEF ClosedFor
<1>3. q \in C
  BY <1>2 DEF ReachedFrom
<1>4. q \in Positions /\ r \in live_in[q]
  BY DEF ReachedFrom, LiveIn
<1> QED
  BY <1>3, <1>4

\* The passes compute liveness exactly, for every frame that they are run on: a
\* register is live where a use of it can be reached, and nowhere else.
THEOREM LivenessIsExact == Spec => []LivenessExact
<1>1. Init => Grounded
  <2> SUFFICES ASSUME Init PROVE Grounded
    OBVIOUS
  <2>1. \A p \in Positions : live_in[p] = {}
    BY DEF Init
  <2> QED
    BY <2>1 DEF Grounded
<1>2. AllocationInv /\ Grounded /\ [Next]_vars => Grounded'
  BY NextGrounded
<1>3. AllocationInv /\ Grounded => LivenessExact
  <2> SUFFICES ASSUME AllocationInv, Grounded, phase = "intervals",
                      NEW p \in Positions, NEW r \in Registers
               PROVE  r \in live_in[p] <=> \E q \in ReachedFrom(p, r) : r \in Uses(q)
    BY DEF LivenessExact
  <2>1. r \in live_in[p] => \E q \in ReachedFrom(p, r) : r \in Uses(q)
    BY DEF Grounded
  <2>2. Kept /\ \A s \in Positions : live_in[s] = LiveIn(s)
    BY DEF AllocationInv, Phases, Analysed, Solved
  <2>3. ASSUME NEW q \in ReachedFrom(p, r), r \in Uses(q) PROVE r \in live_in[p]
    BY <2>2, <2>3, ReachedIsLive
  <2> QED
    BY <2>1, <2>3
<1> QED
  BY <1>1, <1>2, <1>3, AllocationCorrect, PTL DEF Spec

=============================================================================
