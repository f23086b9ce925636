-------------------------- MODULE RegisterNumbering --------------------------
(***************************************************************************)
(* The numbering of registers as a function of the bytecode                *)
(* (crates/core/src/lib.rs).  How its passes run, and why sharing registers *)
(* changes nothing, is the subject of RegisterAllocation.                  *)
(***************************************************************************)
EXTENDS Bytecode

\* The positions after position p of a frame that are in it.
Falls(i) == i.op \notin {"Jump", "MoveJump", "BinaryJump", "Return", "Throw",
                         "ReturnIfLocalFalseElseMemberBinary"}

SuccessorsIn(code, frame, p) ==
    {q \in DOMAIN frame : frame[q] \in TargetsOf(code[frame[p]]) \/ (q = p + 1 /\ Falls(code[frame[p]]))}

RECURSIVE Propagated(_, _, _)

\* One pass after the other until none changes anything.
Propagated(code, frame, live) ==
    LET Before(p) == Uses(code[frame[p]])
                     \cup (UNION {live[q] : q \in SuccessorsIn(code, frame, p)} \ Defs(code[frame[p]]))
        next == Evaluated([p \in DOMAIN frame |-> Before(p)])
    IN  IF next = live THEN live ELSE Propagated(code, frame, next)

\* The registers that are live before each position.
LiveBefore(code, frame) == Propagated(code, frame, Evaluated([p \in DOMAIN frame |-> {}]))

MentionedAt(code, frame, live, p) ==
    Uses(code[frame[p]]) \cup Defs(code[frame[p]]) \cup live[p]
    \cup UNION {live[q] : q \in SuccessorsIn(code, frame, p)}

\* Live intervals, in the order the scan takes them.
Intervals(code, frame) ==
    LET live == LiveBefore(code, frame)
        Where(r) == {p \in DOMAIN frame : r \in MentionedAt(code, frame, live, p)}
        registers == UNION {MentionedAt(code, frame, live, p) : p \in DOMAIN frame}
        intervals == {[start |-> Min(Where(r)), end |-> Max(Where(r)), register |-> r] :
                        r \in registers}
        Before(a, b) == \/ a.start < b.start
                        \/ a.start = b.start /\ a.end < b.end
                        \/ a.start = b.start /\ a.end = b.end /\ a.register < b.register
        Rank(i) == Cardinality({j \in intervals : Before(j, i)})
    IN  [n \in 1..Cardinality(intervals) |-> CHOOSE i \in intervals : Rank(i) = n - 1]

RECURSIVE Assigned(_, _, _)

\* Mutant: a register is given away while its last value is still read.
TakenBefore(intervals, m, i) ==
    {m[j.register] : j \in {j \in Range(intervals) : j.register \in DOMAIN m /\ j.end >= i.start + 2}}

\* The registers that are given when the interval i begins.
Taken(intervals, m, i) ==
    {m[j.register] : j \in {j \in Range(intervals) : j.register \in DOMAIN m /\ j.end >= i.start}}

\* allocate_register_mapping_from_intervals, from the interval n on.
Assigned(intervals, m, n) ==
    IF n > Len(intervals) THEN m
    ELSE LET i == intervals[n]
             first == Min((0..Len(intervals)) \ Taken(intervals, m, i))
         IN  Assigned(intervals, (i.register :> first) @@ m, n + 1)

RegistersOf(i) ==
    (IF i.dst = NoReg THEN <<>> ELSE <<i.dst>>)
    \o [j \in 1..Len(SelectSeq(i.args, IsReg)) |-> SelectSeq(i.args, IsReg)[j][2]]

\* dense_register_mapping: in the order in which they are first mentioned.
Dense(code, frame) ==
    LET mentioned == FlattenSeq([p \in DOMAIN frame |-> RegistersOf(code[frame[p]])])
        First(r) == Min({n \in DOMAIN mentioned : mentioned[n] = r})
        Number(r) == Cardinality({s \in Range(mentioned) : First(s) < First(r)})
    IN  [r \in Range(mentioned) |-> Number(r)]

\* current_frame_has_exception_flow
HasExceptionFlow(code, frame) ==
    \E k \in Range(frame) : code[k].op \in {"TryStart", "CatchStart", "FinallyStart", "TryEnd"}

Mapping(code, frame) ==
    IF HasExceptionFlow(code, frame) THEN Dense(code, frame) ELSE Assigned(Intervals(code, frame), <<>>, 1)

Renamed(i, m) ==
    [i EXCEPT !.dst = IF @ \in DOMAIN m THEN m[@] ELSE @,
              !.args = Evaluated([j \in DOMAIN @ |-> IF IsReg(@[j]) /\ @[j][2] \in DOMAIN m
                                                     THEN Reg(m[@[j][2]]) ELSE @[j]])]

\* renumber_registers_in_range
RenumberRegisters(code, dense) ==
    LET OnFrame(c, frame) ==
            LET m == IF dense THEN Dense(c, frame) ELSE Mapping(c, frame)
            IN  Evaluated([k \in 1..Len(c) |->
                    IF k \in Range(frame) THEN Renamed(c[k], m) ELSE c[k]])
    IN  FoldLeft(OnFrame, code, Frames(code))
=============================================================================
