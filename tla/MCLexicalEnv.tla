---------------------------- MODULE MCLexicalEnv ----------------------------
(* Instances of LexicalEnv for TLC.  The bounds are the constants: the     *)
(* executor frames that live at one time and the records ever created.     *)
EXTENDS LexicalEnv, FiniteSets

CONSTANTS main, callee, other, gen, global, r1, r2, x, s, undef, v, unbound

ThreeFrames == {main, callee, other}
ThreeRecords == {global, r1, r2}
TwoValues == {undef, v}

\* How many environments function values hold on to.
TwoFunctions == Cardinality(captured) <= 2

=============================================================================
