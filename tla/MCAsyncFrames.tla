---------------------------- MODULE MCAsyncFrames ----------------------------
(* Instances of AsyncFrames for TLC.                                        *)
EXTENDS AsyncFrames, TLC

CONSTANTS f1, f2, f3, f4, f5, p1, p2, p3, p4, p5,
    leaf, twice, both, late, over, idle, soon, early, eager,
    undef, module, none

FiveFrames == {f1, f2, f3, f4, f5}
FivePromises == {p1, p2, p3, p4, p5}
AllFunctions == {leaf, twice, both, late, over, idle, soon, early, eager}
TwoVariables == {"a", "b"}

Op(op, x) == [op |-> op, var |-> x]
CallOf(fn, x) == [op |-> "call", var |-> x, callee |-> fn]

\* Functions that wait, in a row, for calls that go on beside each other, that return a
\* call or fail with one after a wait, and three that do not wait.
Bodies ==
    leaf :> <<Op("ask", "a"), Op("await", "a"), Op("return", "a")>>
    @@ twice :> <<CallOf(leaf, "a"), Op("await", "a"), Op("ask", "b"), Op("await", "b"),
                  Op("return", "a")>>
    @@ both :> <<CallOf(leaf, "a"), CallOf(leaf, "b"), Op("await", "b"), Op("await", "a"),
                 Op("import", "a"), Op("await", "a"), Op("throw", "a")>>
    @@ late :> <<Op("ask", "a"), Op("await", "a"), CallOf(soon, "b"), Op("return", "b")>>
    @@ over :> <<Op("ask", "a"), Op("await", "a"), CallOf(soon, "b"), CallOf(early, "b")>>
    @@ idle :> <<Op("ask", "a"), Op("await", "a")>>
    @@ soon :> <<Op("import", "a"), Op("return", "a")>>
    @@ early :> <<Op("throw", "a")>>
    @@ eager :> <<CallOf(soon, "a"), Op("await", "a"), Op("return", "a")>>

\* Five calls at most, one promise of the host for each.
SixScripts ==
    {<<twice, leaf, idle>>, <<both, leaf, leaf>>, <<late, leaf, leaf>>,
     <<twice, twice, leaf>>,
     <<over, twice>>, <<both, twice>>}

\* A function that awaits one that does not wait.
EagerScript == {<<eager>>}

=============================================================================
