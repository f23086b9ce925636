----------------------------- MODULE ScopeTypes -----------------------------
(***************************************************************************)
(* The data the lexical environments of crates/runtime/src/env.rs are      *)
(* built from, shared by the detailed specification (LexicalEnv) and by    *)
(* the abstract one (ScopeChain): environment records with their two       *)
(* binding stores, scope kinds, and the frames of an executor, ordered     *)
(* from the global scope (first) to the current scope (last).              *)
(***************************************************************************)
EXTENDS Naturals, Sequences

CONSTANTS
    Frames,         \* executor frames that may be alive at one time
    Generators,     \* generator objects
    Records,        \* environment records (Rc<RefCell<EnvironmentRecord>>)
    Names,          \* names bound by string
    Slots,          \* local slots
    Values,         \* values a binding may hold
    Main,           \* the frame of the module body
    GlobalRecord,   \* the record of the global scope
    Undefined,      \* the value undefined
    Unbound         \* marks a name or a slot that a record does not hold

ASSUME TypesAssumption ==
    /\ Main \in Frames
    /\ Frames \cap Generators = {}
    /\ GlobalRecord \in Records
    /\ Undefined \in Values
    /\ Unbound \notin Values

\* What owns an environment: an executor frame runs in it, the state of a
\* generator keeps it from one activation to the next.
Holders == Frames \cup Generators

\* The frames that have run beside another activation of their generator,
\* after f has become an activation of g.
Joined(owner, shared, f, g) ==
    LET others == {h \in Frames : owner[h] = g}
    IN  IF others = {} THEN shared ELSE shared \cup others \cup {f}

ScopeKinds == {"Global", "Function", "Block", "Catch"}

\* A record that no push_frame has created yet.
Unused == "Unused"

\* The frames a `var` is hoisted to and a slot lookup stops at.
Boundaries == {"Global", "Function"}

Chains == Seq(Records)

Cell == Values \cup {Unbound}

EmptyNames == [n \in Names |-> Unbound]

EmptySlots == [s \in Slots |-> Unbound]

\* What a lookup answers: the key that was asked for and what was found.  A
\* name may be unbound; a slot always has a value.
Answers == [key : Names, value : Cell] \cup [key : Slots, value : Values]

Current(chain) == chain[Len(chain)]

\* i is the greatest member of S: the frame a scan from the current scope
\* outwards meets first.
IsInnermost(S, i) == i \in S /\ \A j \in S : j <= i

\* The frame nearest to the current scope that starts a function or is the
\* global scope.
IsBoundary(kind, chain, i) ==
    IsInnermost({j \in 1..Len(chain) : kind[chain[j]] \in Boundaries}, i)

\* The frames of a chain whose record holds name n.
NameHolders(names, chain, n) ==
    {i \in 1..Len(chain) : names[chain[i]][n] # Unbound}

\* The frames from boundary b inwards whose record holds slot s.
SlotHolders(slots, chain, b, s) ==
    {i \in b..Len(chain) : slots[chain[i]][s] # Unbound}

=============================================================================
