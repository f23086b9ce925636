----------------------------- MODULE MCCallFrames -----------------------------
(* Instances of CallFrames for TLC.  Every bound is a constant: the runs,   *)
(* the frames parked at one time and the budget cells in use at one time.  *)
EXTENDS CallFrames

CONSTANTS run1, run2, cell1, f, g, p, none

OneRun == {run1}
TwoRuns == {run1, run2}
OneCell == {cell1}
TwoFunctions == {f, g}
OneAsync == {g}
OneAwait == {p}

=============================================================================
