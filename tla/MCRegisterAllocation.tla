------------------------- MODULE MCRegisterAllocation -------------------------
(***************************************************************************)
(* Small frames: every way to fill the middle of a loop over two registers *)
(* and of a straight line over three, and frames with a try statement.     *)
(***************************************************************************)
EXTENDS RegisterAllocation

ThreeRegisters == 0..2

Instruction(op, dsts, srcs, targets) ==
    [op |-> op, dsts |-> dsts, srcs |-> srcs, targets |-> targets]

Load(r) == Instruction("plain", {r}, {}, {})
Pop(r) == Instruction("plain", {}, {r}, {})
Compute(r, s) == Instruction("plain", {r}, {s}, {})
Jump(t) == Instruction("jump", {}, {}, {t})
Branch(s, t) == Instruction("branch", {}, {s}, {t})
MoveJump(r, s, t, u) == Instruction("jump", {r}, {s}, {t, u})
Yield(r, s) == Instruction("yield", {r}, {s}, {})
Return(s) == Instruction("return", {}, {s}, {})
Try(hs) == Instruction("try", {}, {}, hs)

\* Five instructions over registers 0 and 1, the last one closing a loop.
Middle ==
    {Load(r) : r \in 0..1} \cup {Pop(r) : r \in 0..1} \cup {Yield(1, 0), Return(1)}
    \cup {Compute(r, 1 - r) : r \in 0..1}
    \cup {Branch(r, t) : r \in 0..1, t \in {2, 4, 6}}

Loops ==
    {<<Load(0), a, b, c, last>> :
        a \in Middle, b \in Middle, c \in Middle,
        last \in {Branch(0, 2), Branch(1, 3), Jump(2), MoveJump(1, 0, 3, 6)}}

\* Three registers, with one branch over a part of the frame.
Lines ==
    {<<Load(0), Load(1), a, b, Compute(2, 1), Pop(0)>> :
        a \in {Branch(0, t) : t \in 2..6} \cup {Compute(2, 0), Load(2), Pop(1)},
        b \in {Compute(r, 2) : r \in 0..2} \cup {Pop(2), Branch(1, 2), Load(0)}}

\* The second one reads register 0 in a catch that is reached again after
\* register 1 was written.
Tries ==
    {<<Load(0), Try({4, 5}), Pop(0), Pop(0), Load(1), Pop(1)>>,
     <<Load(0), Try({4, 6}), Return(2), Pop(0), Load(1), Pop(1), Jump(2)>>,
     <<Load(0), Try({6, 7}), Try({5}), Return(0), Pop(0), Jump(2), Pop(1)>>}

\* Longer than the limit.
Long ==
    {<<Load(0), Pop(0), Load(1), Pop(1), Load(2), Branch(0, 1), Pop(2), Pop(0)>>}

Frames == Loops \cup Lines \cup Tries \cup Long

=============================================================================
