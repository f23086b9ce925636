----------------------------- MODULE SourceRuns -----------------------------
(***************************************************************************)
(* Compiled programs against what they mean: the lowering, the layout of   *)
(* blocks, the passes over the bytecode, the scopes that jumps leave and   *)
(* the try statements of the executor together (LoweringContext to         *)
(* CompiledRun) do what SourceSemantics says of the source.                *)
(*                                                                         *)
(* A program is chosen and compiled, one pass after the other, by a build  *)
(* with the feature compiler-optimizations or without it, and then run     *)
(* with any arguments.                                                     *)
(***************************************************************************)
EXTENDS CompiledRun

CONSTANT Programs       \* a sequence of functions, as syntax

VARIABLES
    program,        \* the number of the program
    optimizes,      \* whether the build has compiler-optimizations
    pass            \* how many passes are done

vars == <<program, optimizes, pass, module, frame>>

Compiler == INSTANCE Optimizer
Source == INSTANCE SourceSemantics

Init ==
    /\ program \in DOMAIN Programs
    /\ optimizes \in BOOLEAN
    /\ pass = 0
    /\ code = <<>>
    /\ depths = <<>>
    /\ Fresh

Passes == Compiler!Passes(optimizes)

\* lower_module_to_bytecode_instructions, then the passes of compile_module.
Compile ==
    /\ pass <= Len(Passes)
    /\ code' = IF pass = 0 THEN Compiler!BuildFunction(<<>>, Programs[program])
               ELSE Compiler!After(Passes[pass], Programs[program], code)
    /\ pass' = pass + 1
    /\ UNCHANGED <<program, optimizes, depths, frame>>

Call ==
    /\ pass = Len(Passes) + 1 /\ depths = <<>>
    /\ depths' = Compiler!ScopeDepths(code)
    /\ \E arguments \in [Compiler!ParameterNames(Programs[program]) -> {Undefined, Obj(0)}] :
         Begin(arguments)
    /\ UNCHANGED <<program, optimizes, pass, code>>

Step == depths # <<>> /\ Runs /\ UNCHANGED <<program, optimizes, pass>>

Next == Compile \/ Call \/ Step

Spec == Init /\ [][Next]_vars

-----------------------------------------------------------------------------
Meaning == Source!Meaning(Programs[program], given, outcomes, Base)

\* An Err at the end of a program is an uncaught throw.
Completion == IF flow[1] = "error" THEN "throw" ELSE flow[1]

WithoutFrames(events) ==
    [i \in DOMAIN events |-> <<events[i].op, events[i].name, events[i].args>>]

FramesOf(events) == [i \in DOMAIN events |-> events[i].frames]

Agrees(meaning) ==
    /\ WithoutFrames(trace) = WithoutFrames(meaning.trace)
    /\ Completion = meaning.out[1]
    /\ Completion \in {"return", "throw"} => flow[2] = meaning.out[2]
    /\ store = meaning.vars

TypeOK ==
    /\ program \in DOMAIN Programs
    /\ optimizes \in BOOLEAN
    /\ pass \in 0..(Len(Passes) + 1)
    /\ depths # <<>> => DOMAIN depths = DOMAIN code /\ FrameOK

\* A program calls what it calls, with the arguments it says, in the order it
\* says and no more often; it ends as it says, with that value, and leaves its
\* variables with the values it says: whatever the outside answers, however
\* conditions, loops, switches, chains, patterns and try statements are cut into
\* labels and jumps, laid out in blocks, folded into fewer instructions and made
\* to share registers.
RunsAsWritten == Ended => Agrees(Meaning)

\* Each event happens inside the scopes the program text puts around it: a jump
\* that leaves blocks leaves their scopes, and no other.
ScopesAsWritten == Ended => FramesOf(trace) = FramesOf(Meaning.trace)
=============================================================================
