-------------------------- MODULE RegisterAllocation --------------------------
(***************************************************************************)
(* The numbering of registers that ends the optimisation of bytecode       *)
(* (crates/core/src/lib.rs): liveness, live intervals and a linear scan    *)
(* that lets virtual registers share physical ones, with a mapping of one  *)
(* register each for frames with try statements and for long frames.       *)
(*                                                                         *)
(* The frame, which is one function's own instructions, is then executed   *)
(* twice in lockstep, with its virtual registers and with the physical     *)
(* ones.  Whatever an instruction computes is new, so that two registers   *)
(* agree only when they hold the same result.                              *)
(***************************************************************************)
EXTENDS Naturals, Sequences, FiniteSets

CONSTANTS
    Registers,          \* virtual registers
    Programs,           \* frames to be numbered
    AllocationLimit     \* LIVENESS_REGISTER_ALLOCATION_LIMIT

\* "plain", "yield" and "try" fall through, the latter also names the starts of
\* its catch and finally and its end as targets; "jump" goes to one of its targets, "branch"
\* to a target or on, "return" nowhere.  A target may be the end of the frame.
Ops == {"plain", "yield", "try", "jump", "branch", "return"}

Instructions ==
    [op : Ops, dsts : SUBSET Registers, srcs : SUBSET Registers, targets : SUBSET Nat]

ASSUME ProgramAssumption ==
    /\ Registers \subseteq Nat
    /\ AllocationLimit \in Nat
    /\ \A c \in Programs :
         /\ c \in Seq(Instructions) /\ c # <<>>
         /\ \A p \in DOMAIN c : c[p].targets \subseteq 1..(Len(c) + 1)

VARIABLES
    code,           \* the frame
    phase,          \* "dense", "liveness", "intervals", "scan" or "run"
    position,       \* the position the pass is at
    changed,
    live_in,
    live_out,
    intervals,      \* the live interval of every register
    ordered,        \* the registers the scan has not come to
    active,
    mapping,        \* the physical register of a virtual one
    pc,
    virtual,        \* contents of the virtual registers
    physical        \* contents of the physical ones

flowVars == <<position, changed, live_in, live_out>>
scanVars == <<intervals, ordered, active, mapping>>
runVars == <<pc, virtual, physical>>
vars == <<code, phase, flowVars, scanVars, runVars>>

Positions == 1..Len(code)

-----------------------------------------------------------------------------
(* What the passes know of an instruction.                                 *)

\* A register written when a generator is resumed counts as used.
Uses(p) == IF code[p].op = "yield" THEN code[p].srcs \cup code[p].dsts
           ELSE code[p].srcs

Defs(p) == IF code[p].op = "yield" THEN {} ELSE code[p].dsts

\* Mutant: a conditional jump is taken for an unconditional one.
SuccessorsOfJumps(p) ==
    LET after == CASE code[p].op \in {"jump", "branch"} -> code[p].targets
                   [] code[p].op = "return" -> {}
                   [] OTHER -> {p + 1}
    IN  after \cap Positions

Successors(p) ==
    LET after == CASE code[p].op = "jump" -> code[p].targets
                   [] code[p].op = "branch" -> code[p].targets \cup {p + 1}
                   [] code[p].op = "return" -> {}
                   [] OTHER -> {p + 1}
    IN  after \cap Positions

\* Mutant: frames with exception flow are treated as the others.
ShortFrame(c) == Len(c) <= AllocationLimit

UsesLiveness(c) ==
    /\ Len(c) <= AllocationLimit
    /\ \A p \in DOMAIN c : c[p].op # "try"

Mentioned == UNION {code[p].dsts \cup code[p].srcs : p \in Positions}

Undefined == <<0, 0>>

Init ==
    /\ code \in Programs
    /\ phase = IF UsesLiveness(code) THEN "liveness" ELSE "dense"
    /\ position = Len(code)
    /\ changed = FALSE
    /\ live_in = [p \in Positions |-> {}]
    /\ live_out = [p \in Positions |-> {}]
    /\ intervals = <<>>
    /\ ordered = {}
    /\ active = {}
    /\ mapping = <<>>
    /\ pc = 1
    /\ virtual = [r \in Registers |-> Undefined]
    /\ physical = <<>>

-----------------------------------------------------------------------------
(* dense_register_mapping.                                                 *)

\* The frame is executed with the mapping m.
Start(m) ==
    /\ phase' = "run"
    /\ mapping' = m
    /\ physical' = [n \in {m[r] : r \in DOMAIN m} |-> Undefined]
    /\ UNCHANGED <<code, flowVars, intervals, ordered, active, pc, virtual>>

\* Registers are numbered in the order of their first operand.
Dense ==
    /\ phase = "dense"
    /\ \E m \in [Mentioned -> 0..(Cardinality(Mentioned) - 1)] :
         /\ \A r, s \in Mentioned : m[r] = m[s] => r = s
         /\ \A r, s \in Mentioned, p \in Positions :
              /\ r \in code[p].dsts \cup code[p].srcs
              /\ \A q \in 1..p : s \notin code[q].dsts \cup code[q].srcs
              => m[r] < m[s]
         /\ Start(m)

-----------------------------------------------------------------------------
(* live_register_intervals.                                                *)

LiveOut(p) == UNION {live_in[q] : q \in Successors(p)}

\* Mutant: a register that is overwritten is taken to be live before as well.
LiveInKeeping(p) == Uses(p) \cup LiveOut(p)

LiveIn(p) == Uses(p) \cup (LiveOut(p) \ Defs(p))

\* Mutant: whatever is live counts as a change.
PropagateForever ==
    /\ phase = "liveness" /\ position > 0
    /\ live_out' = [live_out EXCEPT ![position] = LiveOut(position)]
    /\ live_in' = [live_in EXCEPT ![position] = LiveIn(position)]
    /\ changed' = (changed \/ LiveOut(position) # {})
    /\ position' = position - 1
    /\ UNCHANGED <<code, phase, scanVars, runVars>>

\* The positions are visited from the last to the first.
Propagate ==
    /\ phase = "liveness" /\ position > 0
    /\ live_out' = [live_out EXCEPT ![position] = LiveOut(position)]
    /\ live_in' = [live_in EXCEPT ![position] = LiveIn(position)]
    /\ changed' = \/ changed
                  \/ LiveOut(position) # live_out[position]
                  \/ LiveIn(position) # live_in[position]
    /\ position' = position - 1
    /\ UNCHANGED <<code, phase, scanVars, runVars>>

\* Mutant: the next pass starts one position too far.
EndPassBeyond ==
    /\ phase = "liveness" /\ position = 0
    /\ IF changed
       THEN position' = Len(code) + 1 /\ phase' = phase
       ELSE position' = 1 /\ phase' = "intervals"
    /\ changed' = FALSE
    /\ UNCHANGED <<code, live_in, live_out, scanVars, runVars>>

EndPass ==
    /\ phase = "liveness" /\ position = 0
    /\ IF changed
       THEN position' = Len(code) /\ phase' = phase
       ELSE position' = 1 /\ phase' = "intervals"
    /\ changed' = FALSE
    /\ UNCHANGED <<code, live_in, live_out, scanVars, runVars>>

Touched(p) == Uses(p) \cup Defs(p) \cup live_in[p] \cup live_out[p]

ExtendIntervals ==
    /\ phase = "intervals" /\ position <= Len(code)
    /\ intervals' =
         [r \in DOMAIN intervals \cup Touched(position) |->
            IF r \notin DOMAIN intervals THEN [start |-> position, end |-> position]
            ELSE IF r \in Touched(position) THEN [intervals[r] EXCEPT !.end = position]
            ELSE intervals[r]]
    /\ position' = position + 1
    /\ UNCHANGED <<code, phase, changed, live_in, live_out, ordered, active,
                   mapping, runVars>>

EndIntervals ==
    /\ phase = "intervals" /\ position > Len(code)
    /\ phase' = "scan"
    /\ ordered' = DOMAIN intervals
    /\ UNCHANGED <<code, flowVars, intervals, active, mapping, runVars>>

-----------------------------------------------------------------------------
(* allocate_register_mapping_from_intervals.                               *)

Before(r, s) ==
    LET a == intervals[r]
        b == intervals[s]
    IN  \/ a.start < b.start
        \/ a.start = b.start /\ a.end < b.end
        \/ a.start = b.start /\ a.end = b.end /\ r <= s

\* Mutant: a register that is last used where another one starts is given to it.
StillActiveAfter(r) == {s \in active : intervals[s].end > intervals[r].start}

\* Mutant: no register is ever freed.
ActiveForever(r) == active

StillActive(r) == {s \in active : intervals[s].end >= intervals[r].start}

\* first_free_register
FirstFree(n, taken) ==
    /\ \A s \in taken : mapping[s] # n
    /\ \A k \in 0..(n - 1) : \E s \in taken : mapping[s] = k

Assign(r, n) ==
    /\ phase = "scan"
    /\ \A s \in ordered : Before(r, s)
    /\ FirstFree(n, StillActive(r))
    /\ ordered' = ordered \ {r}
    /\ active' = StillActive(r) \cup {r}
    /\ mapping' = [s \in DOMAIN mapping \cup {r} |-> IF s = r THEN n ELSE mapping[s]]
    /\ UNCHANGED <<code, phase, flowVars, intervals, runVars>>

EndScan == phase = "scan" /\ ordered = {} /\ Start(mapping)

-----------------------------------------------------------------------------
(* The frame in the executor.                                              *)

Goes(p) ==
    CASE code[p].op = "jump" -> code[p].targets
      [] code[p].op = "branch" -> code[p].targets \cup {p + 1}
      [] code[p].op = "return" -> {Len(code) + 1}
      [] OTHER -> {p + 1}

Execute ==
    /\ phase = "run" /\ pc \in Positions
    /\ virtual' = [r \in Registers |->
                     IF r \in code[pc].dsts THEN <<pc, r>> ELSE virtual[r]]
    /\ physical' = [n \in DOMAIN physical |->
                      IF \E r \in code[pc].dsts : mapping[r] = n
                      THEN <<pc, CHOOSE r \in code[pc].dsts : mapping[r] = n>>
                      ELSE physical[n]]
    /\ pc' \in Goes(pc)
    /\ UNCHANGED <<code, phase, flowVars, scanVars>>

\* An instruction in the body of a try statement fails, before it has written.
Protects(t) ==
    code[t].op = "try" /\ \E h \in code[t].targets : t < pc /\ pc < h

Fail ==
    /\ phase = "run" /\ pc \in Positions
    /\ \E t \in Positions :
         /\ Protects(t)
         /\ \A u \in (t + 1)..Len(code) : ~Protects(u)
         /\ pc' \in code[t].targets
    /\ UNCHANGED <<code, phase, flowVars, scanVars, virtual, physical>>

\* A part of a try statement has come to its end: a later part is next.
EndPart ==
    /\ phase = "run" /\ pc \in Positions
    /\ \E t \in Positions :
         /\ code[t].op = "try" /\ pc \in code[t].targets
         /\ pc' \in {h \in code[t].targets : pc < h}
    /\ UNCHANGED <<code, phase, flowVars, scanVars, virtual, physical>>

-----------------------------------------------------------------------------
Allocate ==
    \/ Dense
    \/ Propagate
    \/ EndPass
    \/ ExtendIntervals
    \/ EndIntervals
    \/ \E r \in ordered, n \in 0..Cardinality(active) : Assign(r, n)
    \/ EndScan

Next == Allocate \/ Execute \/ Fail \/ EndPart

Spec == Init /\ [][Next]_vars

\* The compiler is sequential code that runs on.
FairSpec == Spec /\ WF_vars(Allocate)

-----------------------------------------------------------------------------
(* Properties.                                                             *)

TypeOK ==
    /\ phase \in {"dense", "liveness", "intervals", "scan", "run"}
    /\ position \in 0..(Len(code) + 1)
    /\ phase = "liveness" => position <= Len(code)
    /\ phase = "intervals" => position >= 1
    /\ changed \in BOOLEAN
    /\ live_in \in [Positions -> SUBSET Registers]
    /\ live_out \in [Positions -> SUBSET Registers]
    /\ DOMAIN intervals \subseteq Registers
    /\ \A r \in DOMAIN intervals :
         intervals[r] \in [start : Positions, end : Positions]
    /\ ordered \subseteq DOMAIN intervals
    /\ active \subseteq DOMAIN mapping
    /\ DOMAIN mapping \subseteq Registers
    /\ \A r \in DOMAIN mapping : mapping[r] \in Nat
    /\ pc \in 1..(Len(code) + 1)
    /\ virtual \in [Registers -> (0..Len(code)) \X Nat]
    /\ phase = "run" => DOMAIN physical = {mapping[r] : r \in DOMAIN mapping}

\* Sharing physical registers changes nothing: on every path, around loops and
\* through catches, each register that an instruction reads holds what was last
\* written to its virtual register.
ReadsAgree ==
    phase = "run" /\ pc \in Positions =>
        \A r \in code[pc].srcs : physical[mapping[r]] = virtual[r]

\* A set of positions that the executor cannot leave unless r is written.
ClosedFor(C, r) ==
    \A q \in C : r \notin Defs(q) => Goes(q) \cap Positions \subseteq C

\* The positions that can be reached from p without passing a definition of r: the
\* smallest set around p that is closed for r.
ReachedFrom(p, r) ==
    {q \in Positions :
       \A C \in SUBSET Positions : p \in C /\ ClosedFor(C, r) => q \in C}

\* When the passes end, a register is live at a position exactly if the executor
\* can come from there to a use of it that no definition precedes: nothing is
\* missed through a backward jump, and nothing is kept alive for no reason.
LivenessExact ==
    phase = "intervals" /\ position = 1 =>
        \A p \in Positions, r \in Registers :
            r \in live_in[p] <=> \E q \in ReachedFrom(p, r) : r \in Uses(q)

\* The scan takes no more registers than there are intervals over one position,
\* so that the frame the executor allocates is as small as the intervals allow.
FrameSmallest ==
    phase = "run" /\ UsesLiveness(code) /\ intervals # <<>> =>
        \E p \in Positions :
            Cardinality({mapping[r] : r \in DOMAIN mapping}) =
            Cardinality({r \in DOMAIN intervals :
                           intervals[r].start <= p /\ p <= intervals[r].end})

\* The passes over the frame come to an end, and so does the scan: there is
\* always a next register, and a free one for it.
Allocates == <>(phase = "run")

-----------------------------------------------------------------------------
(* The parts of the inductive invariant behind ReadsAgree, see             *)
(* RegisterAllocation_proofs.                                              *)

Kept == code \in Programs

\* Which passes a frame goes through.
Phases ==
    /\ phase = "dense" => ~UsesLiveness(code)
    /\ phase \in {"liveness", "intervals", "scan"} => UsesLiveness(code)
    /\ phase # "run" => pc = 1 /\ \A r \in Registers : virtual[r] = Undefined

\* Before a pass that ends without a change, live sets solve their equations.
Solved(p) == live_out[p] = LiveOut(p) /\ live_in[p] = LiveIn(p)

Analysed ==
    /\ phase = "liveness" /\ ~changed =>
         \A p \in Positions : p > position => Solved(p)
    /\ phase \in {"intervals", "scan", "run"} /\ UsesLiveness(code) =>
         \A p \in Positions : Solved(p)

\* The interval of a register covers the positions where it is touched.
Covers(p) ==
    \A r \in Touched(p) :
        /\ r \in DOMAIN intervals
        /\ intervals[r].start <= p /\ p <= intervals[r].end

Covered ==
    /\ phase \in {"dense", "liveness"} => DOMAIN intervals = {}
    /\ phase = "intervals" =>
         /\ \A p \in Positions : p < position => Covers(p)
         /\ \A r \in DOMAIN intervals :
              intervals[r].start <= intervals[r].end /\ intervals[r].end < position
    /\ phase \in {"scan", "run"} /\ UsesLiveness(code) =>
         \A p \in Positions : Covers(p)

Apart(r, s) ==
    \/ intervals[r].end < intervals[s].start
    \/ intervals[s].end < intervals[r].start

\* Registers that share a physical one are never touched together.
Disjoint ==
    \A r, s \in DOMAIN mapping : r # s /\ mapping[r] = mapping[s] => Apart(r, s)

Scanned ==
    /\ phase \notin {"scan", "run"} => DOMAIN mapping = {}
    /\ phase = "scan" =>
         /\ DOMAIN mapping = DOMAIN intervals \ ordered
         /\ \A r \in DOMAIN mapping, s \in ordered :
              /\ intervals[r].start <= intervals[s].start
              /\ r \notin active => intervals[r].end < intervals[s].start
         /\ Disjoint
    /\ phase = "run" /\ UsesLiveness(code) =>
         DOMAIN mapping = DOMAIN intervals /\ Disjoint
    /\ phase = "run" /\ ~UsesLiveness(code) =>
         /\ DOMAIN mapping = Mentioned
         /\ \A r, s \in Mentioned : mapping[r] = mapping[s] => r = s

\* What the frame may still read is in the physical registers.
Tracked == IF UsesLiveness(code) THEN live_in[pc] ELSE Mentioned

Tracks ==
    phase = "run" /\ pc \in Positions =>
        \A r \in Tracked : physical[mapping[r]] = virtual[r]

AllocationInv ==
    Kept /\ TypeOK /\ Phases /\ Analysed /\ Covered /\ Scanned /\ Tracks

-----------------------------------------------------------------------------
(* The invariants behind LivenessExact and FrameSmallest.                  *)

\* A register is only taken to be live for the sake of a use that can be reached,
\* also before the passes have ended.
Grounded ==
    \A p \in Positions : \A r \in live_in[p] :
        \E q \in ReachedFrom(p, r) : r \in Uses(q)

\* The registers mapped so far that have something to keep at p.
Crossing(p) ==
    {r \in DOMAIN mapping : intervals[r].start <= p /\ p <= intervals[r].end}

\* The physical registers are numbered without a gap, and at some position all of
\* them are in use.
Packed ==
    /\ \A r \in DOMAIN intervals : intervals[r].start <= intervals[r].end
    /\ phase # "run" \/ UsesLiveness(code) =>
         /\ IsFiniteSet(DOMAIN mapping)
         /\ \A r \in DOMAIN mapping : \A n \in 0..(mapping[r] - 1) :
              \E s \in DOMAIN mapping : mapping[s] = n
         /\ \E p \in Positions : \A r \in DOMAIN mapping :
              \E s \in Crossing(p) : mapping[s] = mapping[r]

=============================================================================
