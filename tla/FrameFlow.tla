------------------------------ MODULE FrameFlow ------------------------------
(***************************************************************************)
(* The control flow of one function frame of the executor                  *)
(* (crates/runtime/src/executor.rs): blocks, try statements, and the       *)
(* suspension of async and generator frames.                               *)
(*                                                                         *)
(* execute_range runs a range of instructions to a Flow or an Err, and     *)
(* TryStart runs the parts of its statement by calling it again, so that   *)
(* the ranges form a native stack.  A suspended frame keeps a pc and its   *)
(* environment but not that stack: it is resumed in one flat range.        *)
(*                                                                         *)
(* The program counter is abstracted to the constructs around it, and the  *)
(* environment to the number of scope frames inside the function's own.    *)
(* Any instruction may come next; an action is one that enters, leaves or  *)
(* ends something, or what TryStart does when a range it called returns.   *)
(***************************************************************************)
EXTENDS TryTypes, FiniteSets

CONSTANTS
    SuspendsInTry,  \* TRUE: frames are suspended inside try statements too
    CatchCalls      \* TRUE: instructions of a catch with a finally may fail

ASSUME FlowAssumption ==
    /\ SuspendsInTry \in BOOLEAN
    /\ CatchCalls \in BOOLEAN

VARIABLES
    kind,           \* the kind of the frame
    where,          \* the constructs around the program counter, outermost first
    depth,          \* scope frames of the environment inside the function's own
    ranges,         \* activations of execute_range, the innermost last
    flow,           \* what the innermost range returned, "none" while it runs
    status,
    saved,          \* where and depth in the GeneratorState
    failed          \* history: the frame has ended with an Err

vars == <<kind, where, depth, ranges, flow, status, saved, failed>>

\* A range runs the part where[at] is in, or with at = 0 the body of the frame;
\* pending is the flow that a finally part interrupted.
Ranges == [at : 0..MaxNesting, entry : 0..MaxNesting, pending : Completion]

\* What execute_range returns: Ok(Flow::...), Err with an error that a program
\* may catch, Err with another one, and both kinds of suspension.
Flows == Completion \cup {"error", "fatal", "suspend"}

Nestings == UNION {[1..n -> Constructs] : n \in 0..MaxNesting}

TypeOK ==
    /\ kind \in FrameKinds
    /\ where \in Nestings
    /\ depth \in 0..MaxNesting
    /\ ranges \in Seq(Ranges)
    /\ flow \in Flows \cup {"none"}
    /\ status \in {"running", "suspended", "done"}
    /\ saved \in [where : Nestings, depth : 0..MaxNesting]
    /\ failed \in BOOLEAN

-----------------------------------------------------------------------------
Top == ranges[Len(ranges)]

Callers == SubSeq(ranges, 1, Len(ranges) - 1)

Smaller(m, n) == IF m < n THEN m ELSE n

Activation(at, entry, pending) == [at |-> at, entry |-> entry, pending |-> pending]

InTry == \E i \in 1..Len(where) : IsTry(where[i])

Init ==
    /\ kind \in FrameKinds
    /\ where = <<>>
    /\ depth = 0
    /\ ranges = <<Activation(0, 0, "value")>>
    /\ flow = "none"
    /\ status = "running"
    /\ saved = [where |-> <<>>, depth |-> 0]
    /\ failed = FALSE

-----------------------------------------------------------------------------
(* Instructions.                                                           *)

Executes == status = "running" /\ flow = "none"

EnterScope ==
    /\ Executes
    /\ Len(where) < MaxNesting
    /\ where' = Append(where, Block)
    /\ depth' = depth + 1
    /\ UNCHANGED <<kind, ranges, flow, status, saved, failed>>

\* LeaveScope, and jump_target when a jump leaves several blocks at once.  No
\* jump leaves a part of a try statement: break and continue inside one are
\* compiled to jumps only for loops inside the same part.
LeaveScopes(n) ==
    /\ Executes
    /\ n < Len(where)
    /\ \A j \in (n + 1)..Len(where) : ~IsTry(where[j])
    /\ where' = SubSeq(where, 1, n)
    /\ depth' = depth - (Len(where) - n)
    /\ UNCHANGED <<kind, ranges, flow, status, saved, failed>>

\* TryStart: the body runs in a range of its own.
TryStart(handler, finalizer) ==
    /\ Executes
    /\ handler \/ finalizer
    /\ Len(where) < MaxNesting
    /\ where' = Append(where, [part |-> "body", handler |-> handler,
                               finalizer |-> finalizer])
    /\ ranges' = Append(ranges, Activation(Len(where) + 1, depth, "value"))
    /\ UNCHANGED <<kind, depth, flow, status, saved, failed>>

\* Mutant: the scopes that the range entered are left.
FinishFlowUntruncated(result) ==
    /\ flow' = result
    /\ UNCHANGED <<kind, where, depth, ranges, status, saved, failed>>

\* finish_flow: the range returns Ok and drops the scopes it entered.
FinishFlow(result) ==
    /\ flow' = result
    /\ depth' = Smaller(depth, Top.entry)
    /\ UNCHANGED <<kind, where, ranges, status, saved, failed>>

\* The end of the range, or a CatchStart, FinallyStart or TryEnd that a flat
\* range meets where the part it was resumed in ends.
EndRange == Executes /\ AtEnd(where) /\ FinishFlow("value")

ReturnOrThrow(result) ==
    /\ Executes
    /\ result \in {"return", "throw"}
    /\ FinishFlow(result)

\* The innermost try part is a catch with a finally, or such a catch is reached
\* through finally parts and catches without one: `?` passes the Err through.
InFinalizedCatch ==
    \E i \in 1..Len(where) :
        /\ where[i].part = "catch" /\ where[i].finalizer
        /\ \A j \in (i + 1)..Len(where) : where[j].part # "body"

\* An instruction fails: a callee throws, an operand has the wrong type, the
\* step limit is reached (error), or the VM finds itself at fault (fatal).
Fail(result) ==
    /\ Executes
    /\ result \in {"error", "fatal"}
    /\ CatchCalls \/ result = "fatal" \/ ~InFinalizedCatch
    /\ flow' = result
    /\ UNCHANGED <<kind, where, depth, ranges, status, saved, failed>>

\* Await of a host promise in an async frame, Yield in a generator.
Suspend ==
    /\ Executes
    /\ InTry => SuspendsInTry
    /\ flow' = "suspend"
    /\ UNCHANGED <<kind, where, depth, ranges, status, saved, failed>>

-----------------------------------------------------------------------------
(* TryStart, when the range of a part returns.                             *)

\* The innermost range has returned to a TryStart, from the given part.
Returned(part) ==
    /\ status = "running" /\ flow # "none"
    /\ Top.at # 0
    /\ where[Top.at].part = part

\* The Err, or the suspension, goes on to the caller of the TryStart.
PassUp(d) ==
    /\ ranges' = Callers
    /\ where' = IF flow = "suspend" THEN where ELSE Outside(where, Top.at)
    /\ depth' = d
    /\ UNCHANGED <<kind, flow, status, saved, failed>>

EnterCatch(d) ==
    /\ ranges' = Append(Callers, Activation(Top.at, d + 1, "value"))
    /\ where' = Enters(where, Top.at, "catch")
    /\ depth' = d + 1
    /\ flow' = "none"
    /\ UNCHANGED <<kind, status, saved, failed>>

\* The statement is over: the enclosing range goes on, or ends as well.
EndTry(result, d) ==
    /\ ranges' = Callers
    /\ where' = Outside(where, Top.at)
    /\ IF result = "value"
       THEN flow' = "none" /\ depth' = d
       ELSE flow' = result /\ depth' = Smaller(d, Callers[Len(Callers)].entry)
    /\ UNCHANGED <<kind, status, saved, failed>>

EnterFinally(result, d) ==
    /\ ranges' = Append(Callers, Activation(Top.at, d, result))
    /\ where' = Enters(where, Top.at, "finally")
    /\ depth' = d
    /\ flow' = "none"
    /\ UNCHANGED <<kind, status, saved, failed>>

FinallyOrEnd(result, d) ==
    IF where[Top.at].finalizer THEN EnterFinally(result, d) ELSE EndTry(result, d)

BodyReturned ==
    /\ Returned("body")
    /\ LET result == IF flow = "error" THEN "throw" ELSE flow
           d == IF flow \in {"error", "fatal"} THEN Smaller(depth, Top.entry) ELSE depth
       IN  \/ result \in {"fatal", "suspend"} /\ PassUp(d)
           \/ result = "throw" /\ where[Top.at].handler /\ EnterCatch(d)
           \/ result = "throw" /\ ~where[Top.at].handler /\ FinallyOrEnd(result, d)
           \/ result \in {"value", "return"} /\ FinallyOrEnd(result, d)

\* pop_frame runs first, whatever the range returned.
CatchReturned ==
    /\ Returned("catch")
    /\ \/ flow \in {"error", "fatal", "suspend"} /\ PassUp(depth - 1)
       \/ flow \in Completion /\ FinallyOrEnd(flow, depth - 1)

\* Mutant: the end of a finally pops a scope like that of a catch.
FinallyReturnedPopping ==
    /\ Returned("finally")
    /\ \/ flow \in {"error", "fatal", "suspend"} /\ PassUp(depth - 1)
       \/ flow = "value" /\ EndTry(Top.pending, depth - 1)
       \/ flow \in {"return", "throw"} /\ EndTry(flow, depth - 1)

\* Mutant: a finally that ends normally ends the statement normally.
FinallyReturnedForgetting ==
    /\ Returned("finally")
    /\ \/ flow \in {"error", "fatal", "suspend"} /\ PassUp(depth)
       \/ flow \in Completion /\ EndTry(flow, depth)

FinallyReturned ==
    /\ Returned("finally")
    /\ \/ flow \in {"error", "fatal", "suspend"} /\ PassUp(depth)
       \/ flow = "value" /\ EndTry(Top.pending, depth)
       \/ flow \in {"return", "throw"} /\ EndTry(flow, depth)

-----------------------------------------------------------------------------
(* The frame, when its outermost range returns.                            *)

FrameReturned == status = "running" /\ flow # "none" /\ Top.at = 0

Stop ==
    /\ ranges' = <<>>
    /\ flow' = "none"
    /\ UNCHANGED kind

Done ==
    /\ status' = "done"
    /\ where' = <<>>
    /\ depth' = 0
    /\ UNCHANGED saved

FrameSuspended ==
    /\ FrameReturned /\ flow = "suspend"
    /\ Stop
    /\ status' = "suspended"
    /\ saved' = IF kind = "generator" THEN [where |-> where, depth |-> depth] ELSE saved
    /\ UNCHANGED <<where, depth, failed>>

FrameEnded ==
    /\ FrameReturned /\ flow \in Completion
    /\ Stop
    /\ Done
    /\ UNCHANGED failed

\* An async frame is rejected.  The Err of a generator leaves next through `?`,
\* before the GeneratorState is updated: the next call starts again from there.
FrameFailed ==
    /\ FrameReturned /\ flow \in {"error", "fatal"}
    /\ Stop
    /\ \/ kind = "async" /\ Done
       \/ /\ kind = "generator"
          /\ status' = "suspended"
          /\ where' = saved.where /\ depth' = saved.depth
          /\ UNCHANGED saved
    /\ failed' = TRUE

\* The promise is fulfilled, or next is called: the instructions from the saved
\* pc on run in one range, from the depth the environment has now.
Resume ==
    /\ status = "suspended"
    /\ status' = "running"
    /\ ranges' = <<Activation(0, depth, "value")>>
    /\ UNCHANGED <<kind, where, depth, flow, saved, failed>>

\* The promise is rejected, or return is called on the generator.
Abandon ==
    /\ status = "suspended"
    /\ Done
    /\ UNCHANGED <<kind, ranges, flow, failed>>

-----------------------------------------------------------------------------
Next ==
    \/ EnterScope
    \/ \E n \in 0..Len(where) : LeaveScopes(n)
    \/ \E handler, finalizer \in BOOLEAN : TryStart(handler, finalizer)
    \/ EndRange
    \/ \E result \in {"return", "throw"} : ReturnOrThrow(result)
    \/ \E result \in {"error", "fatal"} : Fail(result)
    \/ Suspend
    \/ BodyReturned
    \/ CatchReturned
    \/ FinallyReturned
    \/ FrameSuspended
    \/ FrameEnded
    \/ FrameFailed
    \/ Resume
    \/ Abandon

Spec == Init /\ [][Next]_vars

-----------------------------------------------------------------------------
(* Properties.                                                             *)

ScopesUpTo(constructs, n) ==
    Cardinality({i \in 1..n : constructs[i].part \in {"scope", "catch"}})

\* The scope frames the environment has inside the function's own are those of
\* the blocks and catches around the program counter: whatever unwinds to it or
\* is suspended and resumed there, names and slots are looked up in the scopes
\* the program text shows.
ScopesBalanced ==
    status # "done" /\ flow = "none" =>
        depth = ScopesUpTo(where, Len(where))

\* The completion interrupted by the finally part at where[i].
Interrupted(i) ==
    IF where[i].part = "finally" /\ \E k \in DOMAIN ranges : ranges[k].at = i
    THEN (CHOOSE r \in {ranges[k] : k \in DOMAIN ranges} : r.at = i).pending
    ELSE "value"

Pending == [i \in DOMAIN where |-> Interrupted(i)]

Outcome == CASE flow = "suspend" -> "none" [] flow = "error" -> "throw" [] OTHER -> flow

\* Until it fails, the native stack of ranges with its two ways to report a throw
\* behaves as the completions of Completions, in which an error is a throw and a
\* frame is suspended as it stands.  A failed generator may run again, which no
\* completion allows: from there on it is compared with a frame that is done.
CP == INSTANCE Completions WITH
        where <- IF failed THEN <<>> ELSE where,
        pending <- IF failed THEN <<>> ELSE Pending,
        completion <- IF failed THEN "none" ELSE Outcome,
        status <- IF failed THEN "done" ELSE status

CompletionsSpec == CP!Spec

-----------------------------------------------------------------------------
(* The parts of the inductive invariant behind ScopesBalanced, for frames  *)
(* that are suspended outside of try statements, see FrameFlow_proofs.     *)

Linear(constructs) == \A i \in 1..Len(constructs) : ~IsTry(constructs[i])

\* Each try statement around the program counter has the range of the part it is
\* in on the native stack, entered with the scopes around that part.
RangesNest ==
    status = "running" =>
        /\ ranges # <<>> /\ ranges[1].at = 0
        /\ \A k \in 2..Len(ranges) :
             /\ ranges[k].at \in 1..Len(where) /\ IsTry(where[ranges[k].at])
             /\ ranges[k].entry = ScopesUpTo(where, ranges[k].at)
        /\ \A j, k \in 1..Len(ranges) : j < k => ranges[j].at < ranges[k].at
        /\ \A i \in 1..Len(where) :
             IsTry(where[i]) => \E k \in 2..Len(ranges) : ranges[k].at = i

\* When a part has returned, the scopes it entered are gone, or after an Err not
\* yet: the outermost range of a resumed frame may have left some more.
ScopesLeft ==
    status = "running" /\ flow # "none" =>
        /\ flow = "suspend" => Len(ranges) = 1 /\ depth = ScopesUpTo(where, Len(where))
        /\ Top.at # 0 /\ flow \in Completion => depth = Top.entry
        /\ Top.at # 0 /\ flow \in {"error", "fatal"} => depth >= Top.entry

\* A frame is suspended, and a generator started again, outside of try statements.
SavedFlat ==
    /\ status = "suspended" => flow = "none" /\ Linear(where)
    /\ Linear(saved.where) /\ saved.depth = ScopesUpTo(saved.where, Len(saved.where))

\* Errors that a program may catch do not arise in, or reach, a catch with a
\* finally: what the refinement of Completions needs when CatchCalls = FALSE.
ErrorsOutside == status = "running" /\ flow = "error" => ~InFinalizedCatch

FlowInv == TypeOK /\ RangesNest /\ ScopesBalanced /\ ScopesLeft /\ SavedFlat

=============================================================================
