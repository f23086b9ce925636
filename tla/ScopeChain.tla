----------------------------- MODULE ScopeChain -----------------------------
(***************************************************************************)
(* What the lexical environments promise: scope chains without caches.     *)
(* A name is looked up from the current scope outwards; a slot likewise,   *)
(* up to the nearest function boundary.  Any frame may take a step at any  *)
(* time: the promise does not depend on who runs when.  Only of the frames *)
(* that have run beside another activation of their generator less is      *)
(* said: they may find a slot in any of the scopes that hold it.           *)
(***************************************************************************)
EXTENDS ScopeTypes

VARIABLES frames, kind, bindings, slot_values, captured, answer, owner, shared

activationVars == <<owner, shared>>
vars == <<frames, kind, bindings, slot_values, captured, answer, activationVars>>

Init ==
    /\ frames = [x \in Holders |-> IF x = Main THEN <<GlobalRecord>> ELSE <<>>]
    /\ kind = [r \in Records |-> IF r = GlobalRecord THEN "Global" ELSE Unused]
    /\ \E injected \in [Names -> Cell] :
         bindings = [r \in Records |->
                        IF r = GlobalRecord THEN injected ELSE EmptyNames]
    /\ slot_values = [r \in Records |-> EmptySlots]
    /\ captured = {}
    /\ answer = Unbound
    /\ owner = [x \in Holders |-> x] /\ shared = {}

\* The cell a lookup of n along chain answers with.
Resolves(chain, n, cell) ==
    LET holders == NameHolders(bindings, chain, n)
    IN  \/ holders = {} /\ cell = Unbound
        \/ \E i \in holders : IsInnermost(holders, i) /\ cell = bindings[chain[i]][n]

\* Frame f answers for slot s from scope i.
AnswersSlot(f, holders, i) == i \in holders /\ (f \in shared \/ IsInnermost(holders, i))

ResolvesSlot(f, s, cell) ==
    \E b \in 1..Len(frames[f]) :
        /\ IsBoundary(kind, frames[f], b)
        /\ LET holders == SlotHolders(slot_values, frames[f], b, s)
           IN  \/ holders = {} /\ cell = Undefined
               \/ \E i \in holders :
                    AnswersSlot(f, holders, i) /\ cell = slot_values[frames[f][i]][s]

\* Record r of the chain is the one an assignment to n goes to.
Assigns(names, chain, n, r) ==
    LET holders == NameHolders(names, chain, n)
    IN  \/ holders = {} /\ r = Current(chain)
        \/ \E i \in holders : IsInnermost(holders, i) /\ r = chain[i]

AssignsSlot(f, s, r) ==
    \E b \in 1..Len(frames[f]) :
        /\ IsBoundary(kind, frames[f], b)
        /\ LET holders == SlotHolders(slot_values, frames[f], b, s)
           IN  \/ holders = {} /\ r = Current(frames[f])
               \/ \E i \in holders : AnswersSlot(f, holders, i) /\ r = frames[f][i]

BindName(r, n, v) == bindings' = [bindings EXCEPT ![r][n] = v]
BindSlot(r, s, v) == slot_values' = [slot_values EXCEPT ![r][s] = v]

ReadName(f, n) ==
    /\ UNCHANGED <<frames, kind, bindings, slot_values, captured, activationVars>>
    /\ \E cell \in Cell : Resolves(frames[f], n, cell)
                          /\ answer' = [key |-> n, value |-> cell]

ReadSlot(f, s) ==
    /\ UNCHANGED <<frames, kind, bindings, slot_values, captured, activationVars>>
    /\ \E cell \in Cell : ResolvesSlot(f, s, cell)
                          /\ answer' = [key |-> s, value |-> cell]

AssignName(f, n, v) ==
    /\ UNCHANGED <<frames, kind, slot_values, captured, answer, activationVars>>
    /\ \E r \in Records : Assigns(bindings, frames[f], n, r) /\ BindName(r, n, v)

AssignSlot(f, s, v) ==
    /\ UNCHANGED <<frames, kind, bindings, captured, answer, activationVars>>
    /\ \E r \in Records : AssignsSlot(f, s, r) /\ BindSlot(r, s, v)

\* A declaration leaves an existing binding of its scope alone.
DeclareIn(r, n) ==
    /\ UNCHANGED <<frames, kind, slot_values, captured, answer, activationVars>>
    /\ BindName(r, n, IF bindings[r][n] = Unbound THEN Undefined ELSE bindings[r][n])

DeclareSlotIn(r, s) ==
    /\ UNCHANGED <<frames, kind, bindings, captured, answer, activationVars>>
    /\ BindSlot(r, s, IF slot_values[r][s] = Unbound THEN Undefined
                      ELSE slot_values[r][s])

DeclareLet(f) ==
    \/ \E n \in Names : DeclareIn(Current(frames[f]), n)
    \/ \E s \in Slots : DeclareSlotIn(Current(frames[f]), s)

DeclareVar(f) ==
    \E b \in 1..Len(frames[f]) :
        /\ IsBoundary(kind, frames[f], b)
        /\ \/ \E n \in Names : DeclareIn(frames[f][b], n)
           \/ \E s \in Slots : DeclareSlotIn(frames[f][b], s)

\* A new scope with initial bindings, which hold nowhere else; o is whose
\* environment it belongs to besides f.
NewScope(f, o, chain, r, k) ==
    /\ kind[r] = Unused
    /\ kind' = [kind EXCEPT ![r] = k]
    /\ frames' = [frames EXCEPT ![f] = Append(chain, r), ![o] = Append(chain, r)]
    /\ \E S \in [Slots -> Cell] : slot_values' = [slot_values EXCEPT ![r] = S]
    /\ UNCHANGED <<answer, shared>>

Enter(f) ==
    \E r \in Records, k \in {"Block", "Catch"} :
        /\ NewScope(f, f, frames[f], r, k)
        /\ \E N \in [Names -> Cell] : bindings' = [bindings EXCEPT ![r] = N]
        /\ UNCHANGED <<captured, owner>>

Leave(f) ==
    /\ UNCHANGED <<kind, bindings, slot_values, captured, answer, activationVars>>
    /\ \E depth \in 1..(Len(frames[f]) - 1) :
         frames' = [frames EXCEPT ![f] = SubSeq(@, 1, depth)]

Capture(f) ==
    /\ UNCHANGED <<frames, kind, slot_values, answer, activationVars>>
    /\ captured' = captured \cup {frames[f]}
    /\ \/ UNCHANGED bindings
       \/ \E n \in Names, v \in Values, r \in Records :
            Assigns(bindings, frames[f], n, r) /\ BindName(r, n, v)

\* A call runs in a new scope under the chain the function captured; a
\* function declared in its body is assigned on entry.  What runs may be a
\* generator, which keeps the new scope.
Call(f) ==
    \E o \in {f} \cup Generators, chain \in captured, r \in Records :
        /\ frames[o] = <<>>
        /\ owner' = [owner EXCEPT ![f] = o]
        /\ NewScope(f, o, chain, r, "Function")
        /\ \E N \in [Names -> Cell] :
             LET entered == [bindings EXCEPT ![r] = N]
             IN  \/ bindings' = entered /\ UNCHANGED captured
                 \/ \E h \in Names, w \in Values, q \in Records :
                      /\ Assigns(entered, Append(chain, r), h, q)
                      /\ bindings' = [entered EXCEPT ![q][h] = w]
                      /\ captured' = captured \cup {Append(chain, r)}

\* A frame ends; the generator it runs may keep its scopes.
End(f) ==
    /\ UNCHANGED <<kind, bindings, slot_values, captured, answer>>
    /\ \/ frames' = [frames EXCEPT ![owner[f]] = frames[f], ![f] = <<>>]
       \/ frames' = [frames EXCEPT ![f] = <<>>]
    /\ owner' = [owner EXCEPT ![f] = f]
    /\ shared' = shared \ {f}

\* A generator goes on, in the scopes it has kept.
GoOn(f) ==
    \E g \in Generators :
        /\ frames[g] # <<>>
        /\ UNCHANGED <<kind, bindings, slot_values, captured, answer>>
        /\ frames' = [frames EXCEPT ![f] = frames[g]]
        /\ owner' = [owner EXCEPT ![f] = g]
        /\ shared' = Joined(owner, shared, f, g)

Next ==
    \E f \in Frames :
        \/ frames[f] = <<>> /\ (Call(f) \/ GoOn(f))
        \/ /\ frames[f] # <<>>
           /\ \/ Enter(f) \/ Leave(f) \/ Capture(f) \/ DeclareLet(f) \/ DeclareVar(f)
              \/ End(f)
              \/ \E n \in Names : ReadName(f, n) \/ \E v \in Values : AssignName(f, n, v)
              \/ \E s \in Slots : ReadSlot(f, s) \/ \E v \in Values : AssignSlot(f, s, v)

Spec == Init /\ [][Next]_vars

=============================================================================
