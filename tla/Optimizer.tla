------------------------------ MODULE Optimizer ------------------------------
(***************************************************************************)
(* compile_module of crates/core/src/lib.rs: the passes over the bytecode  *)
(* of a program, in their order; and the depth of scopes at each position, *)
(* as the executor counts it.                                              *)
(***************************************************************************)
EXTENDS BranchTemplates, RegisterNumbering

\* What a pass does at a position.
FoldAt(pass, s, k) ==
    CASE pass = "constant_temporaries" -> FoldConstant(s, k)
      [] pass = "return_branches" -> FoldReturn(s, k)
      [] pass = "redundant_resolved_jumps" -> FoldRedundantJump(s, k)
      [] pass = "branch_templates" -> FoldBranch(s, k)
      [] pass = "conditional_jump_pairs" -> FoldPair(s, k)
      [] pass = "move_elimination" -> FoldMove(s, k)
      [] pass = "member_local_temporaries" -> FoldMember(s, k)
      [] pass = "declare_store_pairs" -> FoldDeclare(s, k)
      [] pass = "local_load_templates" -> FoldLoad(s, k)

\* Those that do not go through the functions of the list one by one.
WholeList == {"redundant_resolved_jumps", "conditional_jump_pairs", "member_local_temporaries",
              "declare_store_pairs"}

RECURSIVE Sweep(_, _, _, _), Repeated(_, _)

\* n positions from the one with number p on, in two halves; what is removed is
\* passed over.
Sweep(pass, s, p, n) ==
    IF p > Len(s.frame) THEN s
    ELSE IF n > 1 THEN Sweep(pass, Sweep(pass, s, p, n \div 2), p + n \div 2, n - n \div 2)
    ELSE IF s.frame[p] \in s.removed THEN s ELSE FoldAt(pass, s, s.frame[p])

\* A frame that has unreachable instructions only loses these.
OnFrame(pass, s) ==
    IF pass = "return_branches" /\ Unreachable(s) # {} THEN Removing(s, Unreachable(s))
    ELSE Sweep(pass, s, 1, Len(s.frame))

Once(pass, code) ==
    IF pass \in WholeList THEN OnFrame(pass, Pass(code))
    ELSE FoldLeft(LAMBDA s, frame : OnFrame(pass, InFrame(s, frame)), Pass(code), Frames(code))

\* Until a pass removes nothing.
Repeated(pass, code) ==
    LET done == Once(pass, code)
    IN  IF done.removed = {} THEN done.code
        ELSE Repeated(pass, WithoutResolved(done.code, done.removed))

ConstantTemporaries(code) ==
    LET done == Once("constant_temporaries", code)
    IN  WithoutIndexes(done.code, done.removed)

\* compile_module, and without the feature compiler-optimizations.
Passes(optimizes) ==
    IF optimizes
    THEN <<"compile_instructions", "control_flow", "constant_temporaries", "resolve_labels",
           "jump_threading", "return_branches", "redundant_resolved_jumps", "branch_templates",
           "conditional_jump_pairs", "jump_threading", "redundant_resolved_jumps",
           "move_elimination", "member_local_temporaries", "declare_store_pairs",
           "renumber_registers", "local_load_templates">>
    ELSE <<"compile_instructions", "resolve_labels", "dense_registers">>

ParameterNames(fn) == {fn.params[i].argument : i \in DOMAIN fn.params}

\* A pass over the bytecode of the function fn.
After(pass, fn, code) ==
    CASE pass = "compile_instructions" -> CompileInstructions(code, ParameterNames(fn))
      [] pass = "control_flow" -> ControlFlow(code)
      [] pass = "constant_temporaries" -> ConstantTemporaries(code)
      [] pass = "resolve_labels" -> ResolveLabels(code)
      [] pass = "jump_threading" -> ThreadJumps(code)
      [] pass = "renumber_registers" -> RenumberRegisters(code, FALSE)
      [] pass = "dense_registers" -> RenumberRegisters(code, TRUE)
      [] OTHER -> Repeated(pass, code)

-----------------------------------------------------------------------------
\* collect_scope_metadata: the scopes entered and not left by the instructions
\* before a position, as they are written, never below 0.
ScopeDepths(code) ==
    LET Enter(d, i) ==
            CASE i.op = "EnterScope" -> d + 1
              [] i.op = "LeaveScope" -> IF d > 0 THEN d - 1 ELSE 0
              [] OTHER -> d
    IN  [k \in 1..Len(code) |-> FoldLeft(Enter, 0, SubSeq(code, 1, k - 1))]
=============================================================================
