----------------------------- MODULE Completions -----------------------------
(***************************************************************************)
(* What try statements promise, without ranges, scope depths or Rust       *)
(* results: every part of a try statement ends with a completion, a throw  *)
(* in the body goes to the catch, and nothing leaves a try statement but   *)
(* through its finally, which keeps the completion it interrupted unless   *)
(* it ends abruptly itself.  A suspended frame goes on where it was.       *)
(***************************************************************************)
EXTENDS TryTypes

VARIABLES
    where,          \* the constructs around the program counter, outermost first
    pending,        \* pending[i]: what the finally part where[i] interrupted
    completion,     \* how the innermost part ended, "none" while it runs
    status

vars == <<where, pending, completion, status>>

Init ==
    /\ where = <<>>
    /\ pending = <<>>
    /\ completion = "none"
    /\ status = "running"

Runs == status = "running" /\ completion = "none"

\* i is the try statement whose part has ended.
Ended(i) ==
    /\ status = "running" /\ completion # "none"
    /\ i \in 1..Len(where)
    /\ IsTry(where[i])
    /\ \A j \in (i + 1)..Len(where) : ~IsTry(where[j])

Enter(construct) ==
    /\ Runs
    /\ where' = Append(where, construct)
    /\ pending' = Append(pending, "value")
    /\ UNCHANGED <<completion, status>>

\* Leaving blocks, not try statements.
LeaveBlocks(n) ==
    /\ Runs
    /\ \A j \in (n + 1)..Len(where) : ~IsTry(where[j])
    /\ where' = SubSeq(where, 1, n)
    /\ pending' = SubSeq(pending, 1, n)
    /\ UNCHANGED <<completion, status>>

Complete(c) ==
    /\ Runs
    /\ completion' = c
    /\ UNCHANGED <<where, pending, status>>

EnterPart(i, part, interrupted) ==
    /\ where' = Enters(where, i, part)
    /\ pending' = Append(Outside(pending, i), interrupted)
    /\ completion' = "none"

\* The statement ends with c; the code after it runs when that is a value.
Leave(i, c) ==
    /\ where' = Outside(where, i)
    /\ pending' = Outside(pending, i)
    /\ completion' = IF c = "value" THEN "none" ELSE c

Catches(i) == where[i].part = "body" /\ where[i].handler /\ completion = "throw"

\* A fatal error is not the program's: it runs no part of it.
Finalizes(i) ==
    /\ where[i].part \in {"body", "catch"} /\ where[i].finalizer
    /\ ~Catches(i)
    /\ completion # "fatal"

Unwind(i) ==
    /\ Ended(i)
    /\ \/ Catches(i) /\ EnterPart(i, "catch", "value")
       \/ Finalizes(i) /\ EnterPart(i, "finally", completion)
       \/ /\ ~Catches(i) /\ ~Finalizes(i)
          /\ Leave(i, IF where[i].part = "finally" /\ completion = "value"
                      THEN pending[i] ELSE completion)
    /\ UNCHANGED status

\* Without a try statement around it, a completion ends the frame.  A frame
\* that is suspended may be ended from outside in the same case.
Finish ==
    /\ status = "suspended" \/ (status = "running" /\ completion # "none")
    /\ \A j \in 1..Len(where) : ~IsTry(where[j])
    /\ where' = <<>> /\ pending' = <<>>
    /\ completion' = "none"
    /\ status' = "done"

Suspend ==
    /\ Runs
    /\ status' = "suspended"
    /\ UNCHANGED <<where, pending, completion>>

Resume ==
    /\ status = "suspended"
    /\ status' = "running"
    /\ UNCHANGED <<where, pending, completion>>

Next ==
    \/ \E construct \in Constructs : Enter(construct)
    \/ \E n \in 0..Len(where) : LeaveBlocks(n)
    \/ \E c \in Completion \cup {"fatal"} : Complete(c)
    \/ \E i \in 1..Len(where) : Unwind(i)
    \/ Finish
    \/ Suspend
    \/ Resume

Spec == Init /\ [][Next]_vars

=============================================================================
