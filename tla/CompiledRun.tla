----------------------------- MODULE CompiledRun -----------------------------
(***************************************************************************)
(* A run of bytecode (crates/runtime/src/executor.rs on the instructions   *)
(* of Bytecode).                                                           *)
(*                                                                         *)
(* A turn of the executor is one action for each of its steps              *)
(* (InstructionSteps); a try statement keeps its range on a stack, as      *)
(* TryStart keeps it on the native one.  Registers, scope frames and the   *)
(* code are those of one frame; functions it creates are values.  It is run *)
(* against every sequence of outcomes, until MaxEvents of them.            *)
(***************************************************************************)
EXTENDS ObservedEffects, InstructionSteps

CONSTANTS
    MaxEvents,      \* bound on the events of a run
    SameMethods     \* members that are called stay functions of the host

ASSUME EventsAssumption == MaxEvents \in Nat

VARIABLES
    code,           \* instructions
    depths,         \* the depth of scopes at each position (ScopeMetadata)
    pc,
    step,           \* how many steps of the group are done, and one; 0: no group is tried
    frames,         \* scope frames of the environment
    registers,      \* the values of temporaries
    kept,           \* PcInlineCache: the names of members that have been called
    given,          \* history: the values of the arguments
    store,          \* the values of names
    ranges,         \* the try parts around the pc, the innermost last
    flow,           \* how the innermost range ended, NoFlow while it runs
    outcomes,       \* history: the answers of the outside
    trace           \* history: the events

frame == <<pc, step, frames, registers, kept, given, store, ranges, flow, outcomes, trace>>
module == <<code, depths>>

\* The global frame and that of the program.
Base == 2

\* Ends of a range: Ok(Flow::...) and Err, with a value.
NoFlow == <<"none">>
Ends == {"value", "return", "throw", "error", "cut"}

\* A frame before its first instruction.
Fresh ==
    /\ pc = 1
    /\ step = 1
    /\ frames = Base
    /\ registers = <<>>
    /\ kept = <<>>
    /\ given = <<>>
    /\ store = <<>>
    /\ ranges = <<>>
    /\ flow = NoFlow
    /\ outcomes = <<>>
    /\ trace = <<>>

\* It gets its arguments.
Begin(arguments) ==
    /\ given' = arguments
    /\ store' = arguments
    /\ UNCHANGED <<pc, step, frames, registers, kept, ranges, flow, outcomes, trace>>

-----------------------------------------------------------------------------
\* find_try_parts: the positions of the parts of the try that starts at k, 0
\* for a part that it does not have.
TryParts(list, k) ==
    LET Level(n) == Cardinality({j \in k..n : list[j].op = "TryStart"})
                    - Cardinality({j \in k..(n - 1) : list[j].op = "TryEnd"})
        First(op) == LET at == {j \in k..Len(list) : list[j].op = op /\ Level(j) = 1}
                     IN  IF at = {} THEN 0 ELSE CHOOSE j \in at : \A i \in at : j <= i
        end == First("TryEnd")
        Within(j) == IF j < end THEN j ELSE 0
    IN  [catch |-> Within(First("CatchStart")), finally |-> Within(First("FinallyStart")),
         end |-> end]

\* Where the innermost range ends: at the next part of its statement that there is.
RangeEnd ==
    IF ranges = <<>> THEN Len(code) + 1
    ELSE LET top == Last(ranges)
             after == CASE top.part = "body" -> <<top.parts.catch, top.parts.finally, top.parts.end>>
                        [] top.part = "catch" -> <<top.parts.finally, top.parts.end>>
                        [] top.part = "finally" -> <<top.parts.end>>
         IN  SelectSeq(after, LAMBDA p : p # 0)[1]

\* What is done at pc: a group of instructions or, at step 0 or if there is no
\* group, the one instruction.
AtPc ==
    LET group == GroupAt(code, pc, RangeEnd, DOMAIN kept)
    IN  IF step > 0 /\ group # NoGroup THEN group ELSE Group(Steps(code[pc]), 1)

Here == AtPc.steps[IF step = 0 THEN 1 ELSE step]

\* The position and the step after this one.
Advance ==
    IF step > 0 /\ step < Len(AtPc.steps) THEN pc' = pc /\ step' = step + 1
    ELSE pc' = pc + AtPc.past /\ step' = 1

Goto(position) == pc' = position /\ step' = 1

Executes(ops) == flow = NoFlow /\ pc <= Len(code) /\ Here.op \in ops

Lesser(m, n) == IF m < n THEN m ELSE n
Greater(m, n) == IF m > n THEN m ELSE n

ValueOfName(name) == IF name \in DOMAIN store THEN store[name] ELSE Global(name)

Value(operand) ==
    CASE operand[1] = "reg" -> IF operand[2] \in DOMAIN registers
                               THEN registers[operand[2]] ELSE Undefined
      [] operand[1] = "imm" -> operand[2]
      [] operand[1] \in {"name", "slot"} -> ValueOfName(operand[2])

Args == [i \in 1..Len(Here.args) |-> Value(Here.args[i])]

WriteTo(dst, v) == registers' = IF dst = NoReg THEN registers ELSE (dst :> v) @@ registers

Ordinary == UNCHANGED <<module, kept, given, ranges, outcomes, trace>>

-----------------------------------------------------------------------------
Compute ==
    /\ Executes({"Move", "LoadConst", "LoadName", "FunctionExpr", "Binary", "Array", "Member", "Call"})
    /\ \/ /\ Here.op \in {"Move", "LoadConst", "LoadName"}
          /\ WriteTo(Here.dst, Args[1])
          /\ Advance
       \/ /\ Here.op = "FunctionExpr"
          /\ WriteTo(Here.dst, <<"fn", Here.name>>)
          /\ Goto(Here.end)
       \/ /\ Here.op \in {"Binary", "Array", "Member", "Call"}
          /\ IsComputed(Here.op, Here.name, Args)
          /\ WriteTo(Here.dst, Computed(Here.op, Here.name, Args))
          /\ Advance
    /\ UNCHANGED <<frames, store, flow>> /\ Ordinary

StoresName ==
    /\ Executes({"StoreName", "DeclareStore", "Declare"})
    /\ store' = IF Here.op = "Declare" THEN store ELSE (Here.args[1][2] :> Args[2]) @@ store
    /\ Advance
    /\ UNCHANGED <<frames, registers, flow>> /\ Ordinary

EffectOps == {"Member", "StoreMember", "Call", "New", "Binary", "Unary", "Template", "Object",
              "ObjectRest", "Class", "yield", "await"}

HasEffect == Executes(EffectOps) /\ ~IsComputed(Here.op, Here.name, Args)

\* What is known of an outcome that is called: it is a function of the host, which
\* is_cacheable_plain_js_function knows, or it is not.
IsHostMethod(outcome) == outcome[1] = "obj"

\* Where a member is read that is called next (next_instruction_calls_register).
Site == IF Here.to # <<>> THEN Here.to[1] ELSE pc
IsCalledNext ==
    \/ Here.to # <<>>
    \/ code[pc].op = "Member" /\ CallsReg(InRange(code, pc + 1), code[pc].dst)

\* maybe_store_member_call_inline_cache
Keeps(outcome) ==
    kept' = IF Here.op = "Member" /\ IsHostMethod(outcome) /\ IsCalledNext
            THEN (Site :> Args[2]) @@ kept ELSE kept

Effect ==
    /\ HasEffect
    /\ ~FailsAtOnce(Here.op, Args)
    /\ Len(outcomes) < MaxEvents
    /\ \E outcome \in Outcomes(Here.op, Args, Len(outcomes)) :
         /\ outcomes' = Append(outcomes, outcome)
         /\ IF Fails(outcome)
            THEN flow' = <<"error", outcome>> /\ UNCHANGED <<pc, step, registers, kept>>
            ELSE Advance /\ WriteTo(Here.dst, outcome) /\ Keeps(outcome) /\ UNCHANGED flow
    /\ trace' = Append(trace, Event(Here.op, Here.name, Received(Here.op, Args), frames))
    /\ UNCHANGED <<module, given, frames, store, ranges>>

EffectFails ==
    /\ HasEffect /\ FailsAtOnce(Here.op, Args)
    /\ flow' = <<"error", TypeError>>
    /\ UNCHANGED <<pc, step, frames, registers, store>> /\ Ordinary

\* Mutant: the object may be null or undefined.
ReadsKeptOfAny ==
    Executes({"KeptMember"}) /\ Args[2] = kept[Here.to[1]] /\ Args[2][1] # "obj"

\* plain_js_member_function_for_call: a member that was kept is read of an object of
\* the host by the same name.
ReadsKept ==
    /\ Executes({"KeptMember"})
    /\ Args[1][1] \in {"obj", "global"} /\ Args[2] = kept[Here.to[1]] /\ Args[2][1] # "obj"

\* What is read is called at once if it is a function of the host.  If not, the
\* instruction is executed for itself, and reads again.
Kept ==
    /\ ReadsKept
    /\ Len(outcomes) < MaxEvents
    /\ \E outcome \in Outcomes("Member", Args, Len(outcomes)) :
         /\ SameMethods => IsHostMethod(outcome)
         /\ outcomes' = Append(outcomes, outcome)
         /\ IF IsHostMethod(outcome) THEN Advance /\ WriteTo(Here.dst, outcome)
            ELSE pc' = Here.to[1] /\ step' = 0 /\ UNCHANGED registers
    /\ trace' = Append(trace, Event("Member", Here.name, Args, frames))
    /\ UNCHANGED <<module, kept, given, frames, store, ranges, flow>>

NotKept ==
    /\ Executes({"KeptMember"}) /\ ~ReadsKept
    /\ pc' = Here.to[1] /\ step' = 0
    /\ UNCHANGED <<frames, registers, store, flow>> /\ Ordinary

\* The bound is reached: what follows is left out of the comparison.
Cut ==
    /\ (HasEffect /\ ~FailsAtOnce(Here.op, Args)) \/ ReadsKept
    /\ Len(outcomes) = MaxEvents
    /\ flow' = <<"cut", Undefined>>
    /\ ranges' = <<>>
    /\ UNCHANGED <<module, pc, step, frames, registers, kept, given, store, outcomes, trace>>

-----------------------------------------------------------------------------
\* jump_target: a jump that leaves scopes drops as many frames as the depths of
\* the two positions differ by, and keeps the last one.
FramesAt(target) ==
    LET to == IF target \in DOMAIN code THEN depths[target] ELSE 0
        from == depths[pc]
    IN  IF to < from THEN Lesser(frames, Greater(1, Greater(0, frames - from) + to)) ELSE frames

Jumps ==
    /\ Executes({"Jump", "JumpIfFalse", "JumpIfTrue"})
    /\ IF Here.op # "Jump" /\ Truthy(Args[1]) # (Here.op = "JumpIfTrue")
       THEN Advance /\ UNCHANGED frames
       ELSE Goto(Here.to[1]) /\ frames' = FramesAt(Here.to[1])
    /\ UNCHANGED <<registers, store, flow>> /\ Ordinary

\* try_execute_fused_local_branch: if the local is false, the frames are those of the
\* target but the load is executed again, for itself.
JumpsOnLocal ==
    /\ Executes({"LocalBranch"})
    /\ \/ Truthy(Args[1]) /\ Goto(Here.to[2]) /\ frames' = FramesAt(Here.to[2])
       \/ ~Truthy(Args[1]) /\ pc' = pc /\ step' = 0 /\ frames' = FramesAt(Here.to[1])
    /\ UNCHANGED <<registers, store, flow>> /\ Ordinary

ReturnsIfFalse ==
    /\ Executes({"ReturnIfFalse"}) /\ Truthy(Args[1])
    /\ Advance
    /\ UNCHANGED <<frames, registers, store, flow>> /\ Ordinary

Scopes ==
    /\ Executes({"EnterScope", "LeaveScope"})
    /\ frames' = IF Here.op = "EnterScope" THEN frames + 1 ELSE Greater(1, frames - 1)
    /\ Advance
    /\ UNCHANGED <<registers, store, flow>> /\ Ordinary

\* Return, Throw, the end of the code or of a range.
Leaves ==
    /\ \/ /\ Executes({"Return", "Throw"})
          /\ flow' = <<IF Here.op = "Return" THEN "return" ELSE "throw", Args[1]>>
       \/ /\ Executes({"ReturnIfFalse"}) /\ ~Truthy(Args[1])
          /\ flow' = <<"return", Args[2]>>
       \/ /\ Executes({"CatchStart", "FinallyStart", "TryEnd"}) \/ (flow = NoFlow /\ pc > Len(code))
          /\ flow' = <<"value", Undefined>>
    /\ frames' = Lesser(frames, IF ranges = <<>> THEN Base ELSE Last(ranges).entry)
    /\ UNCHANGED <<pc, step, registers, store>> /\ Ordinary

-----------------------------------------------------------------------------
(* Try statements.                                                         *)

Activation(part, parts, entry, pending) ==
    [part |-> part, parts |-> parts, entry |-> entry, pending |-> pending]

StartTry ==
    /\ Executes({"TryStart"})
    /\ ranges' = Append(ranges, Activation("body", TryParts(code, pc), frames, NoFlow))
    /\ Advance
    /\ UNCHANGED <<module, frames, registers, kept, given, store, flow, outcomes, trace>>

Top == Last(ranges)

\* The body of a try makes a throw of an Err that a program may catch.
Result == IF flow[1] = "error" /\ Top.part = "body" THEN <<"throw", flow[2]>> ELSE flow

\* The scope of a catch is popped whatever its range returned.
Remaining == CASE Top.part = "body" -> Lesser(frames, Top.entry)
               [] Top.part = "catch" -> Greater(1, frames - 1)
               [] Top.part = "finally" -> frames

Catches == Top.part = "body" /\ Result[1] = "throw" /\ Top.parts.catch # 0

Finalizes == Top.part # "finally" /\ Result[1] # "error" /\ Top.parts.finally # 0 /\ ~Catches

EnterCatch ==
    LET param == code[Top.parts.catch].args
    IN  /\ Goto(Top.parts.catch + 1)
        /\ frames' = Remaining + 1
        /\ store' = IF param = <<>> THEN store ELSE (param[1][2] :> Result[2]) @@ store
        /\ ranges' = Append(Front(ranges), Activation("catch", Top.parts, Remaining + 1, NoFlow))
        /\ flow' = NoFlow

EnterFinally ==
    /\ Goto(Top.parts.finally + 1)
    /\ frames' = Remaining
    /\ ranges' = Append(Front(ranges), Activation("finally", Top.parts, Remaining, Result))
    /\ flow' = NoFlow
    /\ UNCHANGED store

\* A finally that ends normally hands on the flow that it interrupted.
EndTry ==
    LET result == IF Top.part = "finally" /\ Result[1] = "value" THEN Top.pending ELSE Result
        outer == IF Len(ranges) = 1 THEN Base ELSE ranges[Len(ranges) - 1].entry
    IN  /\ ranges' = Front(ranges)
        /\ IF result[1] = "value"
           THEN flow' = NoFlow /\ Goto(Top.parts.end + 1) /\ frames' = Remaining
           ELSE /\ flow' = result
                /\ frames' = IF result[1] = "error" THEN Remaining ELSE Lesser(Remaining, outer)
                /\ UNCHANGED <<pc, step>>
        /\ UNCHANGED store

Unwinds ==
    /\ flow # NoFlow /\ ranges # <<>>
    /\ \/ Catches /\ EnterCatch
       \/ Finalizes /\ EnterFinally
       \/ ~Catches /\ ~Finalizes /\ EndTry
    /\ UNCHANGED <<module, registers, kept, given, outcomes, trace>>

-----------------------------------------------------------------------------
Runs ==
    \/ Compute
    \/ StoresName
    \/ Effect
    \/ EffectFails
    \/ Kept
    \/ NotKept
    \/ Cut
    \/ Jumps
    \/ JumpsOnLocal
    \/ ReturnsIfFalse
    \/ Scopes
    \/ Leaves
    \/ StartTry
    \/ Unwinds

Ended == flow # NoFlow /\ ranges = <<>>

FrameOK ==
    /\ pc \in 1..(Len(code) + 1)
    /\ step \in 0..(IF pc <= Len(code) THEN Len(AtPc.steps) ELSE 1)
    /\ frames \in Nat \ {0}
    /\ DOMAIN registers \subseteq Nat
    /\ \A i \in 1..Len(ranges) :
         ranges[i].part \in {"body", "catch", "finally"} /\ ranges[i].entry \in Nat
    /\ flow = NoFlow \/ flow[1] \in Ends
    /\ Len(outcomes) = Len(trace) /\ Len(trace) <= MaxEvents
=============================================================================
