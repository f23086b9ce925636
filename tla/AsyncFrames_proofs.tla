-------------------------- MODULE AsyncFrames_proofs --------------------------
(***************************************************************************)
(* Proofs about AsyncFrames: any number of calls, of any functions, that   *)
(* wait for the host and for each other in any order.                      *)
(***************************************************************************)
EXTENDS AsyncFrames, TLAPS

-----------------------------------------------------------------------------
(* What AsyncFunctions says of outcomes, with the results r of the calls   *)
(* and the states h of the host's promises as parameters.                  *)

ReturnedIn(r, c) == {d \in Frames : r[c] = SeenCalls!Returned(SeenCalls!PromiseOf(d))}
ClosedIn(r, C) == \A e \in C : ReturnedIn(r, e) \subseteq C
AnsweredIn(r, c) ==
    {d \in Frames : \A C \in SUBSET Frames : c \in C /\ ClosedIn(r, C) => d \in C}
LastIn(r, c) == {d \in AnsweredIn(r, c) : ReturnedIn(r, d) = {}}
OwnIn(h, v) ==
    CASE v[1] = "datum" -> v
      [] v[1] = "import" -> Datum(Module)
      [] v[1] = "host" -> IF h[v[2]] = "fulfilled" THEN Datum(v[2])
                          ELSE IF h[v[2]] = "rejected" THEN SeenCalls!Rejected
                          ELSE SeenCalls!Pending
OutcomeIn(r, h, v) ==
    LET last == LastIn(r, v[2])
        end == r[CHOOSE d \in last : TRUE]
    IN  IF v[1] # "call" THEN OwnIn(h, v)
        ELSE IF last = {} \/ end = SeenCalls!Going THEN SeenCalls!Pending
        ELSE IF end = SeenCalls!Failed THEN SeenCalls!Rejected ELSE OwnIn(h, end.value)

\* The results are those of calls, and their values name calls and promises there are.
SeenValue(v) ==
    \/ \E d : v = <<"datum", d>>
    \/ v = <<"import">>
    \/ \E p \in HostPromises : v = <<"host", p>>
    \/ \E c \in Frames : v = <<"call", c>>
ResultsSeen(r) ==
    \A c \in Frames :
        r[c] # SeenCalls!Going /\ r[c] # SeenCalls!Failed =>
            SeenValue(r[c].value) /\ r[c] = SeenCalls!Returned(r[c].value)

LEMMA OutcomesSeen ==
    /\ \A c : SeenCalls!AnsweredBy(c) = AnsweredIn(SeenResults, c)
    /\ \A v : SeenCalls!Outcome(v) = OutcomeIn(SeenResults, SeenHosts, v)
BY DEF SeenCalls!AnsweredBy, SeenCalls!ReturnedBy, SeenCalls!Outcome,
       SeenCalls!OwnOutcome, SeenCalls!Datum, Datum, AnsweredIn, ClosedIn, ReturnedIn,
       LastIn, OwnIn, OutcomeIn

LEMMA AnsweredSelf ==
    ASSUME NEW r, NEW c \in Frames
    PROVE  c \in AnsweredIn(r, c)
BY DEF AnsweredIn

LEMMA AnsweredClosed ==
    ASSUME NEW r, NEW c \in Frames
    PROVE  AnsweredIn(r, c) \subseteq Frames /\ ClosedIn(r, AnsweredIn(r, c))
<1>1. AnsweredIn(r, c) \subseteq Frames
  BY DEF AnsweredIn
<1>2. ASSUME NEW e \in AnsweredIn(r, c), NEW d \in ReturnedIn(r, e)
      PROVE  d \in AnsweredIn(r, c)
  BY DEF AnsweredIn, ClosedIn, ReturnedIn
<1> QED
  BY <1>1, <1>2 DEF ClosedIn

\* A set around c that is closed holds all the calls that c is answered by.
LEMMA AnsweredLeast ==
    ASSUME NEW r, NEW c, NEW C \in SUBSET Frames, c \in C, ClosedIn(r, C)
    PROVE  AnsweredIn(r, c) \subseteq C
BY DEF AnsweredIn

LEMMA ReturnedOnce ==
    ASSUME NEW r, NEW c, NEW d \in ReturnedIn(r, c)
    PROVE  ReturnedIn(r, c) = {d}
BY DEF ReturnedIn, SeenCalls!Returned, SeenCalls!PromiseOf

LEMMA AnsweredStep ==
    ASSUME NEW r, NEW c \in Frames, NEW d \in ReturnedIn(r, c)
    PROVE  AnsweredIn(r, c) = {c} \cup AnsweredIn(r, d)
<1>1. d \in Frames /\ ReturnedIn(r, c) = {d}
  BY ReturnedOnce DEF ReturnedIn
<1>2. AnsweredIn(r, d) \subseteq AnsweredIn(r, c) /\ c \in AnsweredIn(r, c)
  <2>1. d \in AnsweredIn(r, c)
    BY AnsweredClosed, AnsweredSelf DEF ClosedIn
  <2> QED
    BY <2>1, AnsweredClosed, AnsweredLeast, AnsweredSelf
<1>3. AnsweredIn(r, c) \subseteq {c} \cup AnsweredIn(r, d)
  <2>1. ClosedIn(r, {c} \cup AnsweredIn(r, d))
    BY <1>1, AnsweredClosed, AnsweredSelf DEF ClosedIn
  <2> QED
    BY <1>1, <2>1, AnsweredClosed, AnsweredLeast
<1> QED
  BY <1>2, <1>3

LEMMA AnsweredEnd ==
    ASSUME NEW r, NEW c \in Frames, ReturnedIn(r, c) = {}
    PROVE  AnsweredIn(r, c) = {c}
<1>1. ClosedIn(r, {c})
  BY DEF ClosedIn
<1> QED
  BY <1>1, AnsweredLeast, AnsweredSelf

\* The calls that c is answered by have the same last call.
LEMMA LastAlong ==
    ASSUME NEW r, NEW c \in Frames, NEW d \in AnsweredIn(r, c)
    PROVE  LastIn(r, d) = LastIn(r, c)
<1> DEFINE C == {x \in Frames : LastIn(r, x) = LastIn(r, c)}
<1>1. ASSUME NEW x \in C, NEW y \in ReturnedIn(r, x)
      PROVE  y \in C
  <2>1. y \in Frames /\ AnsweredIn(r, x) = {x} \cup AnsweredIn(r, y)
    BY AnsweredStep DEF ReturnedIn
  <2> QED
    BY <2>1 DEF LastIn
<1>2. ClosedIn(r, C)
  BY <1>1 DEF ClosedIn
<1> QED
  BY <1>2, AnsweredLeast

LEMMA LastOnce ==
    ASSUME NEW r, NEW c \in Frames, NEW d \in LastIn(r, c)
    PROVE  LastIn(r, c) = {d}
<1>1. d \in Frames /\ d \in AnsweredIn(r, c) /\ ReturnedIn(r, d) = {}
  BY AnsweredClosed DEF LastIn
<1>2. LastIn(r, d) = {d}
  BY <1>1, AnsweredEnd DEF LastIn
<1> QED
  BY <1>1, <1>2, LastAlong

LEMMA OutcomeAlong ==
    ASSUME NEW r, NEW h, NEW c \in Frames, NEW d \in AnsweredIn(r, c)
    PROVE  OutcomeIn(r, h, <<"call", c>>) = OutcomeIn(r, h, <<"call", d>>)
BY LastAlong DEF OutcomeIn

\* A call that failed is rejected, and what one returns decides.
LEMMA OutcomeOfFailed ==
    ASSUME NEW r, NEW h, NEW c \in Frames, r[c] = SeenCalls!Failed
    PROVE  OutcomeIn(r, h, <<"call", c>>) = SeenCalls!Rejected
<1>1. ReturnedIn(r, c) = {}
  BY DEF ReturnedIn, SeenCalls!Failed, SeenCalls!Returned
<1>2. LastIn(r, c) = {c}
  BY <1>1, AnsweredEnd DEF LastIn
<1>3. (CHOOSE d \in LastIn(r, c) : TRUE) = c
  BY <1>2
<1> QED
  BY <1>2, <1>3 DEF OutcomeIn, SeenCalls!Failed, SeenCalls!Going

LEMMA OutcomeOfReturned ==
    ASSUME NEW r, NEW h, NEW c \in Frames, NEW v, SeenValue(v),
           r[c] = SeenCalls!Returned(v)
    PROVE  OutcomeIn(r, h, <<"call", c>>) = OutcomeIn(r, h, v)
<1>1. CASE \E d \in Frames : v = <<"call", d>>
  <2>1. PICK d \in Frames : v = <<"call", d>>
    BY <1>1
  <2>2. d \in ReturnedIn(r, c)
    BY <2>1 DEF ReturnedIn, SeenCalls!PromiseOf
  <2>3. d \in AnsweredIn(r, c)
    BY <2>1, <2>2, AnsweredStep, AnsweredSelf
  <2> QED
    BY <2>1, <2>3, OutcomeAlong
<1>2. CASE ~\E d \in Frames : v = <<"call", d>>
  <2>1. v[1] # "call"
    BY <1>2 DEF SeenValue
  <2>2. ReturnedIn(r, c) = {}
    BY <1>2 DEF ReturnedIn, SeenCalls!Returned, SeenCalls!PromiseOf
  <2>3. LastIn(r, c) = {c}
    BY <2>2, AnsweredEnd DEF LastIn
  <2>4. (CHOOSE d \in LastIn(r, c) : TRUE) = c
    BY <2>3
  <2>5. r[c] # SeenCalls!Going /\ r[c] # SeenCalls!Failed /\ r[c].value = v
    BY DEF SeenCalls!Going, SeenCalls!Failed, SeenCalls!Returned
  <2> QED
    BY <2>1, <2>3, <2>4, <2>5 DEF OutcomeIn
<1> QED
  BY <1>1, <1>2

\* As calls end and promises are settled, calls are answered by more calls,
LEMMA AnsweredGrows ==
    ASSUME NEW r, NEW s, NEW c \in Frames,
           \A d \in Frames : r[d] # SeenCalls!Going => s[d] = r[d]
    PROVE  AnsweredIn(r, c) \subseteq AnsweredIn(s, c)
<1> SUFFICES ASSUME NEW C \in SUBSET Frames, c \in C, ClosedIn(s, C)
             PROVE  ClosedIn(r, C)
  BY DEF AnsweredIn
<1>1. ASSUME NEW e \in C, NEW d \in ReturnedIn(r, e) PROVE d \in C
  <2>1. r[e] # SeenCalls!Going
    BY DEF ReturnedIn, SeenCalls!Going, SeenCalls!Returned
  <2>2. d \in ReturnedIn(s, e)
    BY <2>1 DEF ReturnedIn
  <2> QED
    BY <2>2 DEF ClosedIn
<1> QED
  BY <1>1 DEF ClosedIn

\* and an outcome that there is does not change.
LEMMA OutcomeStays ==
    ASSUME NEW r, NEW s, NEW h, NEW k, NEW c \in Frames,
           ResultsSeen(r),
           \A d \in Frames : r[d] # SeenCalls!Going => s[d] = r[d],
           \A p \in HostPromises : h[p] \in {"fulfilled", "rejected"} => k[p] = h[p],
           OutcomeIn(r, h, <<"call", c>>) # SeenCalls!Pending
    PROVE  OutcomeIn(s, k, <<"call", c>>) = OutcomeIn(r, h, <<"call", c>>)
<1>1. PICK e \in LastIn(r, c) : r[e] # SeenCalls!Going
  BY DEF OutcomeIn
<1>2. LastIn(r, c) = {e} /\ e \in Frames
  BY LastOnce, AnsweredClosed DEF LastIn
<1>3. \A d \in AnsweredIn(r, c) : d \in Frames /\ r[d] # SeenCalls!Going
  <2> SUFFICES ASSUME NEW d \in AnsweredIn(r, c), r[d] = SeenCalls!Going PROVE FALSE
    BY AnsweredClosed
  <2>1. ReturnedIn(r, d) = {}
    BY DEF ReturnedIn, SeenCalls!Going, SeenCalls!Returned
  <2> QED
    BY <1>1, <1>2, <2>1 DEF LastIn
<1>4. \A d \in AnsweredIn(r, c) : s[d] = r[d] /\ ReturnedIn(s, d) = ReturnedIn(r, d)
  BY <1>3 DEF ReturnedIn
<1>5. AnsweredIn(s, c) = AnsweredIn(r, c)
  <2>1. ClosedIn(s, AnsweredIn(r, c))
    BY <1>4, AnsweredClosed DEF ClosedIn
  <2>2. AnsweredIn(s, c) \subseteq AnsweredIn(r, c)
    BY <2>1, AnsweredClosed, AnsweredLeast, AnsweredSelf
  <2> QED
    BY <2>2, AnsweredGrows
<1>6. LastIn(s, c) = {e} /\ s[e] = r[e]
  BY <1>2, <1>4, <1>5 DEF LastIn
<1>7. (CHOOSE d \in {e} : TRUE) = e
  OBVIOUS
<1>8. CASE r[e] = SeenCalls!Failed
  BY <1>1, <1>2, <1>6, <1>7, <1>8 DEF OutcomeIn
<1>9. CASE r[e] # SeenCalls!Failed
  <2>1. SeenValue(r[e].value) /\ r[e] = SeenCalls!Returned(r[e].value)
    BY <1>1, <1>2, <1>9 DEF ResultsSeen
  <2>2. /\ OutcomeIn(r, h, <<"call", c>>) = OwnIn(h, r[e].value)
        /\ OutcomeIn(s, k, <<"call", c>>) = OwnIn(k, r[e].value)
    BY <1>1, <1>2, <1>6, <1>7, <1>9 DEF OutcomeIn
  <2>3. ~\E d \in Frames : r[e].value = <<"call", d>>
    BY <1>1, <2>1 DEF LastIn, ReturnedIn, SeenCalls!PromiseOf
  <2>4. OwnIn(h, r[e].value) # SeenCalls!Pending
    BY <2>2
  <2> HIDE DEF OutcomeIn
  <2>5. OwnIn(k, r[e].value) = OwnIn(h, r[e].value)
    <3>1. CASE \E p \in HostPromises : r[e].value = <<"host", p>>
      BY <2>4, <3>1 DEF OwnIn
    <3>2. CASE \E d : r[e].value = <<"datum", d>>
      BY <3>2 DEF OwnIn
    <3>3. CASE r[e].value = <<"import">>
      BY <3>3 DEF OwnIn
    <3> QED
      BY <2>1, <2>3, <3>1, <3>2, <3>3 DEF SeenValue
  <2> QED
    BY <2>2, <2>5
<1> QED
  BY <1>8, <1>9

-----------------------------------------------------------------------------
(* Facts about a state.                                                    *)

LEMMA BodyFacts ==
    ASSUME NEW fn \in Functions
    PROVE  /\ Len(Body[fn]) \in Nat /\ DOMAIN Body[fn] = 1..Len(Body[fn])
           /\ \A i \in DOMAIN Body[fn] :
                /\ Body[fn][i].var \in Variables
                /\ Body[fn][i].op = "call" => Body[fn][i].callee \in Functions
<1>1. Body[fn] \in Seq(Instructions)
  BY AsyncAssumption
<1>2. \A i \in DOMAIN Body[fn] : Body[fn][i] \in Instructions
  BY <1>1
<1> QED
  BY <1>1, <1>2 DEF Instructions

LEMMA NoneApart ==
    None \notin Functions /\ None \notin Frames /\ None \notin Promises
BY AsyncAssumption

LEMMA FrameFacts ==
    ASSUME DataSound, NEW f \in Frames
    PROVE  /\ DOMAIN frame[f] = {"fn", "pc", "variables", "waits", "on", "failed", "result"}
           /\ DOMAIN frame[f].variables = Variables
           /\ \A x \in Variables : Sound(frame[f].variables[x])
           /\ frame[f].waits \in 0..MaxWaits
           /\ frame[f].fn # None =>
                /\ frame[f].fn \in Functions
                /\ frame[f].pc \in 1..(Len(Body[frame[f].fn]) + 1)
                /\ frame[f].pc \in Nat /\ frame[f].pc >= 1
BY BodyFacts DEF DataSound, FrameSound, InBody

LEMMA NoFrameFacts ==
    /\ DOMAIN NoFrame = {"fn", "pc", "variables", "waits", "on", "failed", "result"}
    /\ NoFrame.fn = None /\ NoFrame.pc = 1 /\ NoFrame.waits = 0 /\ NoFrame.on = None
    /\ NoFrame.failed = None /\ NoFrame.result = <<"going">>
    /\ DOMAIN NoFrame.variables = Variables
    /\ \A x \in Variables : NoFrame.variables[x] = Datum(Undefined)
BY DEF NoFrame

LEMMA FreshFacts ==
    ASSUME HasFresh
    PROVE  Fresh \in Frames /\ frame[Fresh] = NoFrame
BY DEF HasFresh, Fresh

LEMMA TopFacts ==
    ASSUME AsyncInv, stack # <<>>
    PROVE  /\ Len(stack) \in Nat /\ Len(stack) >= 1 /\ DOMAIN stack = 1..Len(stack)
           /\ Top \in Frames /\ Top = stack[Len(stack)]
           /\ frame[Top].fn \in Functions /\ frame[Top].fn # None
           /\ frame[Top].result = <<"going">> /\ frame[Top].on = None
<1>1. /\ stack \in Seq(Frames)
      /\ \A i \in DOMAIN stack : Going(stack[i]) /\ frame[stack[i]].on = None
  BY DEF AsyncInv, StackSound
<1>2. Len(stack) \in Nat /\ Len(stack) >= 1 /\ DOMAIN stack = 1..Len(stack)
  BY <1>1
<1>3. Top \in Frames /\ Going(Top) /\ frame[Top].on = None
  BY <1>1, <1>2 DEF Top
<1> QED
  BY <1>2, <1>3, FrameFacts DEF AsyncInv, Going, Top

LEMMA CallerFacts ==
    ASSUME AsyncInv, stack # <<>>, HasCaller
    PROVE  /\ Caller \in Frames /\ Caller # Top /\ Caller = stack[Len(stack) - 1]
           /\ Len(stack) > 1 /\ frame[Top].waits = 0
           /\ frame[Caller].fn \in Functions /\ frame[Caller].result = <<"going">>
           /\ frame[Caller].on = None /\ frame[Caller].failed = None
           /\ HasDone(Caller, "call") /\ LastOf(Caller).var \in Variables
<1>1. /\ stack \in Seq(Frames)
      /\ \A i, j \in DOMAIN stack : stack[i] = stack[j] => i = j
      /\ \A i \in DOMAIN stack : Going(stack[i]) /\ frame[stack[i]].on = None
      /\ \A i \in DOMAIN stack :
           i # Len(stack) => HasDone(stack[i], "call") /\ frame[stack[i]].failed = None
  BY DEF AsyncInv, StackSound
<1>2. /\ Len(stack) \in Nat /\ Len(stack) > 1 /\ DOMAIN stack = 1..Len(stack)
      /\ frame[Top].waits = 0
  BY <1>1, TopFacts DEF HasCaller
<1>3. /\ Len(stack) - 1 \in DOMAIN stack /\ Len(stack) - 1 # Len(stack)
      /\ Len(stack) \in DOMAIN stack
  <2>1. Len(stack) \in Nat /\ Len(stack) > 1
    BY <1>2
  <2>2. /\ Len(stack) - 1 \in 1..Len(stack) /\ Len(stack) - 1 # Len(stack)
        /\ Len(stack) \in 1..Len(stack)
    BY <2>1
  <2> QED
    BY <1>2, <2>2
<1>4. /\ Caller \in Frames /\ Caller # Top /\ Going(Caller) /\ HasDone(Caller, "call")
      /\ frame[Caller].failed = None /\ frame[Caller].on = None
  <2>1. Caller = stack[Len(stack) - 1] /\ Top = stack[Len(stack)]
    BY DEF Caller, Top
  <2>2. Caller # Top
    BY <1>1, <1>3, <2>1
  <2>3. Caller \in Frames
    BY <1>1, <1>3, <2>1
  <2> QED
    BY <1>1, <1>3, <2>1, <2>2, <2>3
<1>5. frame[Caller].fn \in Functions
  BY <1>4, FrameFacts DEF AsyncInv, Going
<1>6. LastOf(Caller).var \in Variables
  BY <1>4, <1>5, BodyFacts DEF HasDone, LastOf
<1> QED
  BY <1>2, <1>4, <1>5, <1>6 DEF Going, Caller

\* The instruction that the frame on top is about to do.
LEMMA AtFacts ==
    ASSUME AsyncInv, NEW op, At(op)
    PROVE  /\ stack # <<>> /\ frame[Top].failed = None
           /\ frame[Top].pc \in DOMAIN Body[frame[Top].fn]
           /\ frame[Top].pc \in Nat /\ frame[Top].pc + 1 \in 1..(Len(Body[frame[Top].fn]) + 1)
           /\ Instruction.op = op /\ Instruction.var \in Variables
           /\ Sound(Value)
<1>1. /\ stack # <<>> /\ frame[Top].failed = None /\ Instruction.op = op
      /\ frame[Top].pc \in DOMAIN Body[frame[Top].fn]
  BY DEF At, Instruction
<1>2. Top \in Frames /\ frame[Top].fn \in Functions
  BY <1>1, TopFacts
<1>3. Instruction.var \in Variables
  BY <1>1, <1>2, BodyFacts DEF Instruction
<1>4. Sound(Value)
  BY <1>2, <1>3, FrameFacts DEF AsyncInv, Value
<1> QED
  BY <1>1, <1>2, <1>3, <1>4, BodyFacts

LEMMA OuterFacts ==
    ASSUME NEW f \in Frames, NEW n \in Waits
    PROVE  /\ <<f, n>> \in Outer /\ <<f, n>> \in Promises /\ <<f, n>> \notin HostPromises
           /\ n \in Nat /\ 1 <= n /\ n <= MaxWaits
BY AsyncAssumption DEF Outer, Promises, Waits

-----------------------------------------------------------------------------
(* What is seen of values and results.                                     *)

LEMMA SoundSeen ==
    ASSUME NEW v, Sound(v)
    PROVE  SeenValue(Seen(v))
<1>1. CASE \E d : v = Datum(d)
  BY <1>1 DEF Seen, SeenValue, Datum
<1>2. CASE v = Marked(Datum(Module))
  BY <1>2 DEF Seen, SeenValue, Marked
<1>3. CASE \E f \in Frames : v = Resolved(frame[f].result[2], f)
  BY <1>3 DEF Seen, SeenValue, Resolved
<1>4. CASE \E q \in Promises : v = Promise(q)
  <2>1. PICK q \in Promises : v = Promise(q)
    BY <1>4
  <2>2. CASE q \in HostPromises
    BY <2>1, <2>2 DEF Seen, SeenValue, Promise
  <2>3. CASE q \notin HostPromises
    <3>1. q[1] \in Frames
      BY <2>3 DEF Promises, Outer
    <3> QED
      BY <2>1, <2>3, <3>1 DEF Seen, SeenValue, Promise
  <2> QED
    BY <2>2, <2>3
<1> QED
  BY <1>1, <1>2, <1>3, <1>4 DEF Sound

LEMMA ResultFacts ==
    /\ SeenResult(<<"going">>) = SeenCalls!Going
    /\ SeenResult(<<"failed">>) = SeenCalls!Failed
    /\ \A v : SeenResult(<<"returned", v>>) = SeenCalls!Returned(Seen(v))
    /\ SeenCalls!Going # SeenCalls!Failed
    /\ \A v : SeenCalls!Returned(v) # SeenCalls!Going
    /\ \A v : SeenCalls!Returned(v) # SeenCalls!Failed
    /\ \A v : SeenCalls!Returned(v).value = v
BY DEF SeenResult, SeenCalls!Going, SeenCalls!Failed, SeenCalls!Returned

LEMMA ResultsAreSeen ==
    ASSUME DataSound
    PROVE  /\ ResultsSeen(SeenResults)
           /\ \A f \in Frames :
                /\ SeenResults[f] = SeenResult(frame[f].result)
                /\ SeenResults[f] = SeenCalls!Going <=> frame[f].result = <<"going">>
<1> SUFFICES ASSUME NEW f \in Frames
             PROVE  /\ SeenResults[f] # SeenCalls!Going /\ SeenResults[f] # SeenCalls!Failed =>
                         /\ SeenValue(SeenResults[f].value)
                         /\ SeenResults[f] = SeenCalls!Returned(SeenResults[f].value)
                    /\ SeenResults[f] = SeenResult(frame[f].result)
                    /\ SeenResults[f] = SeenCalls!Going <=> frame[f].result = <<"going">>
  BY DEF ResultsSeen
<1>1. SeenResults[f] = SeenResult(frame[f].result)
  BY DEF SeenResults
<1>2. CASE frame[f].result = <<"going">>
  BY <1>1, <1>2, ResultFacts
<1>3. CASE frame[f].result = <<"failed">>
  BY <1>1, <1>3, ResultFacts
<1>4. CASE frame[f].result = <<"returned", frame[f].result[2]>> /\ Sound(frame[f].result[2])
  <2>1. SeenResults[f] = SeenCalls!Returned(Seen(frame[f].result[2]))
    BY <1>1, <1>4, ResultFacts
  <2>2. frame[f].result # <<"going">>
    BY <1>4
  <2> QED
    BY <1>1, <1>4, <2>1, <2>2, ResultFacts, SoundSeen
<1> QED
  BY <1>2, <1>3, <1>4 DEF DataSound, FrameSound

-----------------------------------------------------------------------------
(* What the steps do to the frames.                                        *)

FramesFormed ==
    /\ DOMAIN frame' = Frames
    /\ \A f \in Frames :
         /\ DOMAIN frame'[f] = {"fn", "pc", "variables", "waits", "on", "failed", "result"}
         /\ DOMAIN frame'[f].variables = Variables

LEMMA GoesEffect ==
    ASSUME AsyncInv, NEW value, NEW op, At(op), Goes(value), NEW t, t = Top
    PROVE  /\ FramesFormed
           /\ \A f \in Frames : f # t => frame'[f] = frame[f]
           /\ frame'[t].fn = frame[t].fn /\ frame'[t].pc = frame[t].pc + 1
           /\ frame'[t].waits = frame[t].waits /\ frame'[t].on = frame[t].on
           /\ frame'[t].failed = frame[t].failed /\ frame'[t].result = frame[t].result
           /\ \A x \in Variables : frame'[t].variables[x] =
                IF x = Instruction.var THEN value ELSE frame[t].variables[x]
<1>1. t \in Frames /\ Instruction.var \in Variables
  BY AtFacts, TopFacts
<1>2. DOMAIN frame = Frames
  BY DEF AsyncInv, DataSound
<1>3. \A f \in Frames :
        /\ DOMAIN frame[f] = {"fn", "pc", "variables", "waits", "on", "failed", "result"}
        /\ DOMAIN frame[f].variables = Variables
  BY FrameFacts DEF AsyncInv
<1>4. frame' = [frame EXCEPT ![t] = PastWith(t, value)]
  BY DEF Goes
<1>5. /\ DOMAIN PastWith(t, value) = DOMAIN frame[t]
      /\ PastWith(t, value).fn = frame[t].fn /\ PastWith(t, value).pc = frame[t].pc + 1
      /\ PastWith(t, value).waits = frame[t].waits /\ PastWith(t, value).on = frame[t].on
      /\ PastWith(t, value).failed = frame[t].failed
      /\ PastWith(t, value).result = frame[t].result
      /\ DOMAIN PastWith(t, value).variables = Variables
      /\ \A x \in Variables : PastWith(t, value).variables[x] =
           IF x = Instruction.var THEN value ELSE frame[t].variables[x]
  BY <1>1, <1>3 DEF PastWith, Past
<1> QED
  BY <1>1, <1>2, <1>3, <1>4, <1>5 DEF FramesFormed

\* A frame that gives its caller a value.
LEMMA GivenEffect ==
    ASSUME AsyncInv, stack # <<>>, NEW value
    PROVE  /\ DOMAIN Given(value) = Frames
           /\ Given(value)[Top] = frame[Top]
           /\ \A f \in Frames : ~(HasCaller /\ f = Caller) => Given(value)[f] = frame[f]
           /\ \A f \in Frames :
                /\ DOMAIN Given(value)[f] = DOMAIN frame[f]
                /\ DOMAIN Given(value)[f].variables = Variables
                /\ Given(value)[f].fn = frame[f].fn /\ Given(value)[f].pc = frame[f].pc
                /\ Given(value)[f].waits = frame[f].waits /\ Given(value)[f].on = frame[f].on
                /\ Given(value)[f].failed = frame[f].failed
                /\ Given(value)[f].result = frame[f].result
                /\ \A x \in Variables : Given(value)[f].variables[x] =
                     IF HasCaller /\ f = Caller /\ x = LastOf(f).var THEN value
                     ELSE frame[f].variables[x]
<1>1. DOMAIN frame = Frames /\ Top \in Frames
  BY TopFacts DEF AsyncInv, DataSound
<1>2. \A f \in Frames :
        /\ DOMAIN frame[f] = {"fn", "pc", "variables", "waits", "on", "failed", "result"}
        /\ DOMAIN frame[f].variables = Variables
  BY FrameFacts DEF AsyncInv
<1>3. CASE ~HasCaller
  BY <1>1, <1>2, <1>3 DEF Given
<1>4. CASE HasCaller
  <2>1. PICK c \in Frames : c = Caller
    BY <1>4, CallerFacts
  <2>2. c # Top /\ LastOf(c).var \in Variables
    BY <1>4, <2>1, CallerFacts
  <2>3. Given(value) = [frame EXCEPT ![c].variables[LastOf(c).var] = value]
    BY <1>4, <2>1 DEF Given
  <2> QED
    BY <1>1, <1>2, <1>4, <2>1, <2>2, <2>3
<1> QED
  BY <1>3, <1>4

LEMMA LeaveEffect ==
    ASSUME AsyncInv, stack # <<>>, NEW value, Leave(value), NEW t, t = Top
    PROVE  /\ FramesFormed
           /\ \A f \in Frames :
                f # t /\ ~(HasCaller /\ f = Caller) => frame'[f] = frame[f]
           /\ \A f \in Frames :
                /\ frame'[f].fn = frame[f].fn /\ frame'[f].pc = frame[f].pc
                /\ frame'[f].waits = frame[f].waits /\ frame'[f].on = frame[f].on
                /\ frame'[f].failed = frame[f].failed
                /\ frame'[f].result = IF f = t THEN <<"returned", value>> ELSE frame[f].result
                /\ \A x \in Variables : frame'[f].variables[x] =
                     IF HasCaller /\ f = Caller /\ x = LastOf(f).var THEN Resolved(value, t)
                     ELSE frame[f].variables[x]
<1>1. t \in Frames
  BY TopFacts
<1>2. \A f \in Frames :
        /\ DOMAIN frame[f] = {"fn", "pc", "variables", "waits", "on", "failed", "result"}
        /\ DOMAIN frame[f].variables = Variables
  BY FrameFacts DEF AsyncInv
<1>3. frame' = [Given(Resolved(value, t)) EXCEPT ![t].result = <<"returned", value>>]
  BY DEF Leave
<1> DEFINE G == Given(Resolved(value, t))
<1>4. /\ DOMAIN G = Frames
      /\ \A f \in Frames : ~(HasCaller /\ f = Caller) => G[f] = frame[f]
      /\ \A f \in Frames :
           /\ DOMAIN G[f] = DOMAIN frame[f] /\ DOMAIN G[f].variables = Variables
           /\ G[f].fn = frame[f].fn /\ G[f].pc = frame[f].pc
           /\ G[f].waits = frame[f].waits /\ G[f].on = frame[f].on
           /\ G[f].failed = frame[f].failed /\ G[f].result = frame[f].result
           /\ \A x \in Variables : G[f].variables[x] =
                IF HasCaller /\ f = Caller /\ x = LastOf(f).var THEN Resolved(value, t)
                ELSE frame[f].variables[x]
  BY GivenEffect
<1> HIDE DEF G
<1>5. frame' = [G EXCEPT ![t].result = <<"returned", value>>]
  BY <1>3 DEF G
<1> QED
  BY <1>1, <1>2, <1>4, <1>5 DEF FramesFormed

LEMMA LeaveFailingEffect ==
    ASSUME AsyncInv, stack # <<>>, LeaveFailing, NEW t, t = Top
    PROVE  /\ FramesFormed
           /\ \A f \in Frames :
                f # t /\ ~(HasCaller /\ f = Caller) => frame'[f] = frame[f]
           /\ \A f \in Frames :
                /\ frame'[f].fn = frame[f].fn /\ frame'[f].pc = frame[f].pc
                /\ frame'[f].waits = frame[f].waits /\ frame'[f].on = frame[f].on
                /\ frame'[f].variables = frame[f].variables
                /\ frame'[f].result = IF f = t THEN <<"failed">> ELSE frame[f].result
                /\ frame'[f].failed = IF HasCaller /\ f = Caller THEN t ELSE frame[f].failed
<1>1. t \in Frames /\ DOMAIN frame = Frames
  BY TopFacts DEF AsyncInv, DataSound
<1>2. \A f \in Frames :
        /\ DOMAIN frame[f] = {"fn", "pc", "variables", "waits", "on", "failed", "result"}
        /\ DOMAIN frame[f].variables = Variables
  BY FrameFacts DEF AsyncInv
<1>3. CASE ~HasCaller
  <2>1. frame' = [frame EXCEPT ![t].result = <<"failed">>]
    BY <1>3 DEF LeaveFailing
  <2> QED
    BY <1>1, <1>2, <1>3, <2>1 DEF FramesFormed
<1>4. CASE HasCaller
  <2>1. PICK c \in Frames : c = Caller
    BY <1>4, CallerFacts
  <2>2. c # t
    BY <1>4, <2>1, CallerFacts
  <2>3. frame' = [frame EXCEPT ![t].result = <<"failed">>, ![c].failed = t]
    BY <1>4, <2>1 DEF LeaveFailing
  <2> QED
    BY <1>1, <1>2, <1>4, <2>1, <2>2, <2>3 DEF FramesFormed
<1> QED
  BY <1>3, <1>4

LEMMA SuspendEffect ==
    ASSUME AsyncInv, Suspend, NEW t, t = Top
    PROVE  /\ FramesFormed
           /\ \A f \in Frames :
                f # t /\ ~(HasCaller /\ f = Caller) => frame'[f] = frame[f]
           /\ \A f \in Frames :
                /\ frame'[f].fn = frame[f].fn
                /\ frame'[f].pc = IF f = t THEN frame[f].pc + 1 ELSE frame[f].pc
                /\ frame'[f].waits = IF f = t THEN frame[f].waits + 1 ELSE frame[f].waits
                /\ frame'[f].on = IF f = t THEN Value[2] ELSE frame[f].on
                /\ frame'[f].failed = frame[f].failed /\ frame'[f].result = frame[f].result
                /\ \A x \in Variables : frame'[f].variables[x] =
                     IF HasCaller /\ f = Caller /\ x = LastOf(f).var
                     THEN Promise(<<t, frame[t].waits + 1>>)
                     ELSE frame[f].variables[x]
<1>1. t \in Frames /\ stack # <<>>
  BY AtFacts, TopFacts DEF Suspend
<1>2. \A f \in Frames :
        /\ DOMAIN frame[f] = {"fn", "pc", "variables", "waits", "on", "failed", "result"}
        /\ DOMAIN frame[f].variables = Variables
  BY FrameFacts DEF AsyncInv
<1> DEFINE q == <<t, frame[t].waits + 1>>
           G == Given(Promise(q))
<1>3. frame' = [G EXCEPT ![t] = [Past(t) EXCEPT !.waits = @ + 1, !.on = Value[2]]]
  BY DEF Suspend
<1>4. /\ DOMAIN G = Frames
      /\ \A f \in Frames : ~(HasCaller /\ f = Caller) => G[f] = frame[f]
      /\ \A f \in Frames :
           /\ DOMAIN G[f] = DOMAIN frame[f] /\ DOMAIN G[f].variables = Variables
           /\ G[f].fn = frame[f].fn /\ G[f].pc = frame[f].pc
           /\ G[f].waits = frame[f].waits /\ G[f].on = frame[f].on
           /\ G[f].failed = frame[f].failed /\ G[f].result = frame[f].result
           /\ \A x \in Variables : G[f].variables[x] =
                IF HasCaller /\ f = Caller /\ x = LastOf(f).var THEN Promise(q)
                ELSE frame[f].variables[x]
  BY <1>1, GivenEffect
<1> HIDE DEF G
<1>5. ~(HasCaller /\ t = Caller)
  BY <1>1, CallerFacts
<1>6. DOMAIN frame[t] = {"fn", "pc", "variables", "waits", "on", "failed", "result"}
  BY <1>1, <1>2
<1> DEFINE T == [Past(t) EXCEPT !.waits = @ + 1, !.on = Value[2]]
<1>7. /\ DOMAIN T = DOMAIN frame[t]
      /\ T.fn = frame[t].fn /\ T.pc = frame[t].pc + 1 /\ T.waits = frame[t].waits + 1
      /\ T.on = Value[2] /\ T.failed = frame[t].failed /\ T.result = frame[t].result
      /\ T.variables = frame[t].variables
  BY <1>6 DEF Past
<1> HIDE DEF T
<1>8. frame' = [G EXCEPT ![t] = T]
  BY <1>3 DEF T
<1> QED
  BY <1>1, <1>2, <1>4, <1>5, <1>7, <1>8 DEF FramesFormed

\* A call takes a frame that nothing was done with.
LEMMA StartEffect ==
    ASSUME AsyncInv, Start, NEW n, n = Fresh
    PROVE  /\ FramesFormed /\ n \in Frames /\ frame[n] = NoFrame
           /\ Head(script) \in Functions /\ Tail(script) \in Seq(Functions)
           /\ stack' = <<n>>
           /\ \A f \in Frames : frame'[f] = IF f = n THEN Enter(Head(script)) ELSE frame[f]
<1>1. n \in Frames /\ frame[n] = NoFrame
  BY FreshFacts DEF Start
<1>2. Head(script) \in Functions /\ Tail(script) \in Seq(Functions)
  BY DEF Start, AsyncInv, DataSound
<1>3. frame' = [frame EXCEPT ![n] = Enter(Head(script))] /\ DOMAIN frame = Frames
  BY DEF Start, AsyncInv, DataSound
<1>4. /\ DOMAIN Enter(Head(script)) = DOMAIN NoFrame
      /\ Enter(Head(script)).variables = NoFrame.variables
  BY NoFrameFacts DEF Enter
<1>5. \A f \in Frames :
        /\ DOMAIN frame[f] = {"fn", "pc", "variables", "waits", "on", "failed", "result"}
        /\ DOMAIN frame[f].variables = Variables
  BY FrameFacts DEF AsyncInv
<1>6. \A f \in Frames : frame'[f] = IF f = n THEN Enter(Head(script)) ELSE frame[f]
  BY <1>1, <1>3
<1>7. FramesFormed
  BY <1>1, <1>3, <1>4, <1>5, NoFrameFacts DEF FramesFormed
<1> QED
  BY <1>1, <1>2, <1>6, <1>7 DEF Start

LEMMA EnterFacts ==
    ASSUME NEW fn
    PROVE  /\ Enter(fn).fn = fn /\ Enter(fn).pc = 1 /\ Enter(fn).waits = 0
           /\ Enter(fn).on = None /\ Enter(fn).failed = None
           /\ Enter(fn).result = <<"going">>
           /\ \A x \in Variables : Enter(fn).variables[x] = Datum(Undefined)
BY NoFrameFacts DEF Enter

LEMMA CallEffect ==
    ASSUME AsyncInv, Call, NEW n, n = Fresh, NEW t, t = Top
    PROVE  /\ FramesFormed /\ n \in Frames /\ frame[n] = NoFrame /\ n # t /\ t \in Frames
           /\ Instruction.callee \in Functions
           /\ stack' = Append(stack, n)
           /\ \A f \in Frames : f # n /\ f # t => frame'[f] = frame[f]
           /\ frame'[n] = Enter(Instruction.callee)
           /\ frame'[t].fn = frame[t].fn /\ frame'[t].pc = frame[t].pc + 1
           /\ frame'[t].waits = frame[t].waits /\ frame'[t].on = frame[t].on
           /\ frame'[t].failed = frame[t].failed /\ frame'[t].result = frame[t].result
           /\ frame'[t].variables = frame[t].variables
<1>1. n \in Frames /\ frame[n] = NoFrame
  BY FreshFacts DEF Call
<1>2. t \in Frames /\ t # n
  BY <1>1, AtFacts, TopFacts, NoFrameFacts DEF Call
<1>3. Instruction.callee \in Functions
  BY AtFacts, TopFacts, BodyFacts DEF Call, Instruction
<1>4. /\ frame' = [frame EXCEPT ![n] = Enter(Instruction.callee), ![t] = Past(t)]
      /\ DOMAIN frame = Frames
  BY DEF Call, AsyncInv, DataSound
<1> DEFINE E == Enter(Instruction.callee)
<1>5. DOMAIN E = DOMAIN NoFrame /\ E.variables = NoFrame.variables
  BY NoFrameFacts DEF Enter
<1>6. \A f \in Frames :
        /\ DOMAIN frame[f] = {"fn", "pc", "variables", "waits", "on", "failed", "result"}
        /\ DOMAIN frame[f].variables = Variables
  BY FrameFacts DEF AsyncInv
<1> DEFINE T == Past(t)
<1>7. /\ DOMAIN T = DOMAIN frame[t]
      /\ T.fn = frame[t].fn /\ T.pc = frame[t].pc + 1 /\ T.waits = frame[t].waits
      /\ T.on = frame[t].on /\ T.failed = frame[t].failed /\ T.result = frame[t].result
      /\ T.variables = frame[t].variables
  BY <1>2, <1>6 DEF Past
<1>8. frame' = [frame EXCEPT ![n] = E, ![t] = T]
  BY <1>4
<1> HIDE DEF E, T
<1>9. /\ \A f \in Frames : f # n /\ f # t => frame'[f] = frame[f]
      /\ frame'[n] = E /\ frame'[t] = T /\ DOMAIN frame' = Frames
  BY <1>1, <1>2, <1>4, <1>8
<1>10. FramesFormed
  BY <1>2, <1>5, <1>6, <1>7, <1>9, NoFrameFacts DEF FramesFormed
<1> QED
  BY <1>1, <1>2, <1>3, <1>7, <1>9, <1>10 DEF Call, E

LEMMA ResumeEffect ==
    ASSUME AsyncInv, NEW t \in Frames, Resume(t)
    PROVE  /\ FramesFormed
           /\ frame[t].on \in Promises /\ frame[t].on # None
           /\ LastOf(t).var \in Variables
           /\ promise[frame[t].on].is = "fulfilled"
           /\ \A f \in Frames : f # t => frame'[f] = frame[f]
           /\ frame'[t].fn = frame[t].fn /\ frame'[t].pc = frame[t].pc
           /\ frame'[t].waits = frame[t].waits /\ frame'[t].on = None
           /\ frame'[t].failed = frame[t].failed /\ frame'[t].result = frame[t].result
           /\ \A x \in Variables : frame'[t].variables[x] =
                IF x = LastOf(t).var THEN promise[frame[t].on].value
                ELSE frame[t].variables[x]
<1>1. /\ frame[t].on # None /\ promise[frame[t].on].is = "fulfilled"
      /\ frame' = [frame EXCEPT ![t].on = None,
                     ![t].variables[LastOf(t).var] = promise[frame[t].on].value]
  BY DEF Resume
<1>2. Going(t) /\ HasDone(t, "await") /\ frame[t].on \in Promises
  BY <1>1 DEF AsyncInv, WaitsSound, WaitSound
<1>3. LastOf(t).var \in Variables
  BY <1>2, FrameFacts, BodyFacts DEF AsyncInv, Going, HasDone, LastOf
<1>4. \A f \in Frames :
        /\ DOMAIN frame[f] = {"fn", "pc", "variables", "waits", "on", "failed", "result"}
        /\ DOMAIN frame[f].variables = Variables
  BY FrameFacts DEF AsyncInv
<1>5. DOMAIN frame = Frames
  BY DEF AsyncInv, DataSound
<1> DEFINE v == promise[frame[t].on].value
           y == LastOf(t).var
<1>6. frame' = [frame EXCEPT ![t].on = None, ![t].variables[y] = v]
  BY <1>1
<1> HIDE DEF v, y
<1>7. /\ FramesFormed
      /\ \A f \in Frames : f # t => frame'[f] = frame[f]
      /\ frame'[t].fn = frame[t].fn /\ frame'[t].pc = frame[t].pc
      /\ frame'[t].waits = frame[t].waits /\ frame'[t].on = None
      /\ frame'[t].failed = frame[t].failed /\ frame'[t].result = frame[t].result
      /\ \A x \in Variables :
           frame'[t].variables[x] = IF x = y THEN v ELSE frame[t].variables[x]
  BY <1>4, <1>5, <1>6 DEF FramesFormed
<1> QED
  BY <1>1, <1>2, <1>3, <1>7 DEF v, y

LEMMA RejectEffect ==
    ASSUME AsyncInv, NEW t \in Frames, Reject(t)
    PROVE  /\ FramesFormed
           /\ frame[t].on \in Promises /\ frame[t].on # None
           /\ promise[frame[t].on].is = "rejected"
           /\ \A f \in Frames : f # t => frame'[f] = frame[f]
           /\ frame'[t].fn = frame[t].fn /\ frame'[t].pc = frame[t].pc
           /\ frame'[t].waits = frame[t].waits /\ frame'[t].on = None
           /\ frame'[t].failed = frame[t].failed /\ frame'[t].result = <<"failed">>
           /\ frame'[t].variables = frame[t].variables
<1>1. /\ frame[t].on # None /\ promise[frame[t].on].is = "rejected"
      /\ frame' = [frame EXCEPT ![t].on = None, ![t].result = <<"failed">>]
  BY DEF Reject
<1>2. frame[t].on \in Promises
  BY <1>1 DEF AsyncInv, WaitsSound, WaitSound
<1>3. \A f \in Frames :
        /\ DOMAIN frame[f] = {"fn", "pc", "variables", "waits", "on", "failed", "result"}
        /\ DOMAIN frame[f].variables = Variables
  BY FrameFacts DEF AsyncInv
<1>4. DOMAIN frame = Frames
  BY DEF AsyncInv, DataSound
<1> QED
  BY <1>1, <1>2, <1>3, <1>4 DEF FramesFormed

-----------------------------------------------------------------------------
(* What the steps do to the promises.                                      *)

LEMMA PromiseFacts ==
    ASSUME DataSound, NEW q \in Promises
    PROVE  /\ promise[q].is \in {"none", "pending", "locked", "fulfilled", "rejected"}
           /\ promise[q].is = "none" <=> promise[q] = Unmade
           /\ promise[q].is = "pending" <=> promise[q] = Unsettled
           /\ promise[q].is = "rejected" <=> promise[q] = Rejected
           /\ promise[q].is \in {"locked", "fulfilled"} =>
                promise[q] = ResolvedWith(promise[q].value) /\ Sound(promise[q].value)
           /\ promise[q].is = "fulfilled" <=>
                promise[q] = ResolvedWith(promise[q].value) /\ promise[q].value[1] = "datum"
<1>1. \/ promise[q] \in {Unmade, Unsettled, Rejected}
      \/ promise[q] = ResolvedWith(promise[q].value) /\ Sound(promise[q].value)
  BY DEF DataSound, PromiseSound
<1>2. CASE promise[q] \in {Unmade, Unsettled, Rejected}
  BY <1>2 DEF Unmade, Unsettled, Rejected, ResolvedWith
<1>3. CASE promise[q] = ResolvedWith(promise[q].value) /\ Sound(promise[q].value)
  BY <1>3 DEF Unmade, Unsettled, Rejected, ResolvedWith
<1> QED
  BY <1>1, <1>2, <1>3

LEMMA ResolvedFacts ==
    ASSUME NEW v
    PROVE  /\ ResolvedWith(v).value = v
           /\ ResolvedWith(v).is \in {"locked", "fulfilled"}
           /\ ResolvedWith(v).is = "fulfilled" <=> v[1] = "datum"
BY DEF ResolvedWith

LEMMA SettleEffect ==
    ASSUME AsyncInv, stack # <<>>, NEW state, NEW t, t = Top
    PROVE  /\ DOMAIN Settle(state) = Promises
           /\ \A q \in Promises : Settle(state)[q] =
                IF frame[t].waits # 0 /\ q = <<t, frame[t].waits>> THEN state ELSE promise[q]
           /\ t \in Frames
           /\ frame[t].waits # 0 =>
                /\ frame[t].waits \in Waits
                /\ promise[<<t, frame[t].waits>>] = Unsettled
<1>1. t \in Frames /\ Going(t) /\ DOMAIN promise = Promises /\ frame[t].waits \in 0..MaxWaits
  BY TopFacts, FrameFacts DEF AsyncInv, DataSound, Going
<1>2. CASE frame[t].waits = 0
  BY <1>1, <1>2 DEF Settle
<1>3. CASE frame[t].waits # 0
  <2>1. frame[t].waits \in Waits
    BY <1>1, <1>3, AsyncAssumption DEF Waits
  <2>2. promise[<<t, frame[t].waits>>] = Unsettled
    BY <1>1, <2>1 DEF AsyncInv, ChainSound, LinkSound
  <2>3. Settle(state) = [promise EXCEPT ![<<t, frame[t].waits>>] = state]
    BY <1>3 DEF Settle
  <2>4. <<t, frame[t].waits>> \in Promises
    BY <1>1, <2>1, OuterFacts
  <2> QED
    BY <1>1, <1>3, <2>1, <2>2, <2>3, <2>4
<1> QED
  BY <1>2, <1>3

LEMMA SuspendPromises ==
    ASSUME AsyncInv, Suspend, NEW t, t = Top
    PROVE  /\ t \in Frames /\ frame[t].waits + 1 \in Waits /\ frame[t].waits \in Nat
           /\ <<t, frame[t].waits + 1>> \in Promises
           /\ promise[<<t, frame[t].waits + 1>>] = Unmade
           /\ DOMAIN promise' = Promises
           /\ \A q \in Promises : promise'[q] =
                IF q = <<t, frame[t].waits + 1>> THEN Unsettled
                ELSE IF frame[t].waits # 0 /\ q = <<t, frame[t].waits>>
                THEN ResolvedWith(Promise(<<t, frame[t].waits + 1>>))
                ELSE promise[q]
<1>1. t \in Frames /\ stack # <<>> /\ frame[t].waits \in 0..MaxWaits
  BY AtFacts, TopFacts, FrameFacts DEF Suspend, AsyncInv
<1>2. frame[t].waits + 1 \in Waits /\ frame[t].waits \in Nat
  BY <1>1, AsyncAssumption DEF Suspend, Waits
<1> DEFINE q == <<t, frame[t].waits + 1>>
           S == Settle(ResolvedWith(Promise(q)))
<1>3. q \in Promises
  BY <1>1, <1>2, OuterFacts
<1>4. promise[q] = Unmade
  <2>1. promise[q].is = "none" <=> frame[t].waits + 1 > frame[t].waits
    BY <1>1, <1>2 DEF AsyncInv, ChainSound, LinkSound
  <2> QED
    BY <1>2, <1>3, <2>1, PromiseFacts DEF AsyncInv
<1>5. promise' = [S EXCEPT ![q] = Unsettled]
  BY DEF Suspend
<1>6. /\ DOMAIN S = Promises
      /\ \A p \in Promises : S[p] =
           IF frame[t].waits # 0 /\ p = <<t, frame[t].waits>>
           THEN ResolvedWith(Promise(q)) ELSE promise[p]
  BY <1>1, SettleEffect
<1> HIDE DEF S, q
<1>7. /\ DOMAIN promise' = Promises
      /\ \A p \in Promises : promise'[p] = IF p = q THEN Unsettled
           ELSE IF frame[t].waits # 0 /\ p = <<t, frame[t].waits>>
           THEN ResolvedWith(Promise(q)) ELSE promise[p]
  BY <1>3, <1>5, <1>6
<1> QED
  BY <1>1, <1>2, <1>3, <1>4, <1>7 DEF q

LEMMA AskPromises ==
    ASSUME AsyncInv, Ask, NEW p, p = FreshPromise
    PROVE  /\ p \in HostPromises /\ p \in Promises /\ promise[p] = Unmade
           /\ DOMAIN promise' = Promises
           /\ \A q \in Promises : promise'[q] = IF q = p THEN Unsettled ELSE promise[q]
<1>1. p \in HostPromises /\ promise[p].is = "none"
  BY DEF Ask, FreshPromise
<1>2. p \in Promises /\ DOMAIN promise = Promises
  BY <1>1 DEF Promises, AsyncInv, DataSound
<1>3. promise' = [promise EXCEPT ![p] = Unsettled]
  BY DEF Ask
<1> QED
  BY <1>1, <1>2, <1>3, PromiseFacts DEF AsyncInv

LEMMA RejectPromises ==
    ASSUME AsyncInv, NEW t \in Frames, Reject(t)
    PROVE  /\ frame[t].waits \in Waits /\ <<t, frame[t].waits>> \in Promises
           /\ promise[<<t, frame[t].waits>>] = Unsettled
           /\ DOMAIN promise' = Promises
           /\ \A q \in Promises : promise'[q] =
                IF q = <<t, frame[t].waits>> THEN Rejected ELSE promise[q]
<1>1. /\ frame[t].on # None /\ frame[t].waits # 0 /\ Going(t)
      /\ promise' = [promise EXCEPT ![<<t, frame[t].waits>>] = Rejected]
  BY DEF Reject, OnRejected, AsyncInv, WaitsSound, WaitSound
<1>2. DOMAIN promise = Promises /\ frame[t].waits \in 0..MaxWaits
  BY FrameFacts DEF AsyncInv, DataSound
<1>3. frame[t].waits \in Waits
  BY <1>1, <1>2, AsyncAssumption DEF Waits
<1>4. <<t, frame[t].waits>> \in Promises /\ promise[<<t, frame[t].waits>>] = Unsettled
  BY <1>1, <1>3, OuterFacts DEF AsyncInv, ChainSound, LinkSound
<1> QED
  BY <1>1, <1>2, <1>3, <1>4

\* What a promise that follows another, or unwraps a thenable, becomes.
LEMMA AdoptPromises ==
    ASSUME AsyncInv, NEW q \in Outer, Adopt(q)
    PROVE  /\ q \in Promises /\ promise[q].is = "locked"
           /\ DOMAIN promise' = Promises
           /\ \A p \in Promises : p # q => promise'[p] = promise[p]
           /\ \/ promise'[q] = ResolvedWith(Datum(Module))
                 /\ promise[q].value = Marked(Datum(Module))
              \/ \E f \in Frames :
                   /\ frame[f].result[1] = "returned"
                   /\ promise[q].value = Resolved(frame[f].result[2], f)
                   /\ promise'[q] = ResolvedWith(frame[f].result[2])
              \/ \E p \in Promises :
                   /\ promise[q].value = Promise(p)
                   /\ promise[p].is \in {"fulfilled", "rejected"}
                   /\ promise'[q] = promise[p]
<1>1. q \in Promises /\ promise[q].is = "locked" /\ DOMAIN promise = Promises
  BY DEF Adopt, Promises, AsyncInv, DataSound
<1>2. Sound(promise[q].value)
  BY <1>1, PromiseFacts DEF AsyncInv
<1> DEFINE v == promise[q].value
<1>3. \/ v[1] \in {"resolved", "marked"} /\ promise' = [promise EXCEPT ![q] = ResolvedWith(v[2])]
      \/ /\ v[1] = "promise" /\ promise[v[2]].is \in {"fulfilled", "rejected"}
         /\ promise' = [promise EXCEPT ![q] = promise[v[2]]]
  BY DEF Adopt
<1>4. DOMAIN promise' = Promises /\ \A p \in Promises : p # q => promise'[p] = promise[p]
  BY <1>1, <1>3
<1>5. CASE \E d : v = Datum(d)
  BY <1>3, <1>5 DEF Datum
<1>6. CASE v = Marked(Datum(Module))
  BY <1>1, <1>3, <1>4, <1>6 DEF Marked
<1>7. CASE \E f \in Frames :
             frame[f].result[1] = "returned" /\ v = Resolved(frame[f].result[2], f)
  <2>1. PICK f \in Frames :
          frame[f].result[1] = "returned" /\ v = Resolved(frame[f].result[2], f)
    BY <1>7
  <2>2. promise' = [promise EXCEPT ![q] = ResolvedWith(frame[f].result[2])]
    BY <1>3, <2>1 DEF Resolved
  <2> QED
    BY <1>1, <1>4, <2>1, <2>2
<1>8. CASE \E p \in Promises : v = Promise(p)
  <2>1. PICK p \in Promises : v = Promise(p)
    BY <1>8
  <2>2. /\ promise[p].is \in {"fulfilled", "rejected"}
        /\ promise' = [promise EXCEPT ![q] = promise[p]]
    BY <1>3, <2>1 DEF Promise
  <2> QED
    BY <1>1, <1>4, <2>1, <2>2
<1> QED
  BY <1>2, <1>5, <1>6, <1>7, <1>8 DEF Sound

LEMMA HostSettlesPromises ==
    ASSUME AsyncInv, NEW p \in HostPromises, HostSettles(p)
    PROVE  /\ p \in Promises /\ promise[p].is = "pending"
           /\ promise'[p] \in {ResolvedWith(Datum(p)), Rejected}
           /\ DOMAIN promise' = Promises
           /\ \A q \in Promises : q # p => promise'[q] = promise[q]
<1>1. p \in Promises /\ DOMAIN promise = Promises
  BY DEF Promises, AsyncInv, DataSound
<1> QED
  BY <1>1 DEF HostSettles

-----------------------------------------------------------------------------
(* What no step undoes.                                                    *)

Progress ==
    /\ FramesFormed /\ DOMAIN promise' = Promises
    /\ \A f \in Frames :
         frame[f].result # <<"going">> => frame'[f].result = frame[f].result
    /\ \A q \in Promises :
         /\ promise[q].is # "none" => promise'[q].is # "none"
         /\ promise[q].is \in {"fulfilled", "rejected"} => promise'[q] = promise[q]

LEMMA FramesStay ==
    ASSUME AsyncInv, UNCHANGED frame
    PROVE  FramesFormed
BY FrameFacts DEF FramesFormed, AsyncInv, DataSound

LEMMA PromisesStay ==
    ASSUME AsyncInv, UNCHANGED promise
    PROVE  /\ DOMAIN promise' = Promises
           /\ \A q \in Promises :
                /\ promise[q].is # "none" => promise'[q].is # "none"
                /\ promise[q].is \in {"fulfilled", "rejected"} => promise'[q] = promise[q]
BY DEF AsyncInv, DataSound

\* The ends of the frame on top.
LEMMA SettleProgress ==
    ASSUME AsyncInv, stack # <<>>, NEW state, state.is # "none", promise' = Settle(state)
    PROVE  /\ DOMAIN promise' = Promises
           /\ \A q \in Promises :
                /\ promise[q].is # "none" => promise'[q].is # "none"
                /\ promise[q].is \in {"fulfilled", "rejected"} => promise'[q] = promise[q]
<1>1. PICK t \in Frames : t = Top
  BY TopFacts
<1>2. /\ DOMAIN promise' = Promises
      /\ \A q \in Promises : promise'[q] =
           IF frame[t].waits # 0 /\ q = <<t, frame[t].waits>> THEN state ELSE promise[q]
      /\ frame[t].waits # 0 => promise[<<t, frame[t].waits>>] = Unsettled
  BY <1>1, SettleEffect
<1> QED
  BY <1>2 DEF Unsettled

LEMMA LeaveProgress ==
    ASSUME AsyncInv, stack # <<>>, NEW value, Leave(value)
    PROVE  Progress
<1>1. PICK t \in Frames : t = Top
  BY TopFacts
<1>2. /\ FramesFormed
      /\ \A f \in Frames :
           frame'[f].result = IF f = t THEN <<"returned", value>> ELSE frame[f].result
  BY <1>1, LeaveEffect
<1>3. frame[t].result = <<"going">>
  BY <1>1, TopFacts
<1>4. promise' = Settle(ResolvedWith(value)) /\ ResolvedWith(value).is # "none"
  BY ResolvedFacts DEF Leave
<1> QED
  BY <1>2, <1>3, <1>4, SettleProgress DEF Progress

LEMMA LeaveFailingProgress ==
    ASSUME AsyncInv, stack # <<>>, LeaveFailing
    PROVE  Progress
<1>1. PICK t \in Frames : t = Top
  BY TopFacts
<1>2. /\ FramesFormed
      /\ \A f \in Frames :
           frame'[f].result = IF f = t THEN <<"failed">> ELSE frame[f].result
  BY <1>1, LeaveFailingEffect
<1>3. frame[t].result = <<"going">>
  BY <1>1, TopFacts
<1>4. promise' = Settle(Rejected) /\ Rejected.is # "none"
  BY DEF LeaveFailing, Rejected
<1> QED
  BY <1>2, <1>3, <1>4, SettleProgress DEF Progress

LEMMA SuspendProgress == AsyncInv /\ Suspend => Progress
<1> SUFFICES ASSUME AsyncInv, Suspend PROVE Progress
  OBVIOUS
<1>1. PICK t \in Frames : t = Top
  BY SuspendPromises
<1>2. FramesFormed /\ \A f \in Frames : frame'[f].result = frame[f].result
  BY <1>1, SuspendEffect
<1>3. /\ promise[<<t, frame[t].waits + 1>>] = Unmade
      /\ DOMAIN promise' = Promises
      /\ \A q \in Promises : promise'[q] =
           IF q = <<t, frame[t].waits + 1>> THEN Unsettled
           ELSE IF frame[t].waits # 0 /\ q = <<t, frame[t].waits>>
           THEN ResolvedWith(Promise(<<t, frame[t].waits + 1>>))
           ELSE promise[q]
  BY <1>1, SuspendPromises
<1>4. stack # <<>>
  BY AtFacts DEF Suspend
<1>5. frame[t].waits # 0 => promise[<<t, frame[t].waits>>] = Unsettled
  BY <1>1, <1>4, SettleEffect
<1>6. ResolvedWith(Promise(<<t, frame[t].waits + 1>>)).is # "none"
  BY ResolvedFacts
<1> QED
  BY <1>2, <1>3, <1>5, <1>6 DEF Progress, Unsettled, Unmade

LEMMA NextProgress == AsyncInv /\ Next => Progress
<1> SUFFICES ASSUME AsyncInv, Next PROVE Progress
  OBVIOUS
<1>1. CASE Start
  <2>1. PICK n : n = Fresh
    OBVIOUS
  <2>2. /\ FramesFormed
        /\ \A f \in Frames : frame'[f] = IF f = n THEN Enter(Head(script)) ELSE frame[f]
        /\ frame[n] = NoFrame /\ UNCHANGED promise
    BY <1>1, <2>1, StartEffect DEF Start
  <2> QED
    BY <2>2, EnterFacts, NoFrameFacts, PromisesStay DEF Progress
<1>2. CASE Call
  <2>1. PICK n : n = Fresh
    OBVIOUS
  <2>2. PICK t : t = Top
    OBVIOUS
  <2>3. /\ FramesFormed
        /\ \A f \in Frames : f # n /\ f # t => frame'[f] = frame[f]
        /\ frame[n] = NoFrame /\ frame'[t].result = frame[t].result
    BY <1>2, <2>1, <2>2, CallEffect
  <2>4. UNCHANGED promise
    BY <1>2 DEF Call
  <2> QED
    BY <2>3, <2>4, NoFrameFacts, PromisesStay DEF Progress
<1>3. ASSUME NEW value, NEW op, At(op), Goes(value)
      PROVE  FramesFormed /\ \A f \in Frames : frame'[f].result = frame[f].result
  <2>1. PICK t \in Frames : t = Top
    BY <1>3, AtFacts, TopFacts
  <2> QED
    BY <1>3, <2>1, GoesEffect
<1>4. CASE Ask
  <2>1. PICK p : p = FreshPromise
    OBVIOUS
  <2> QED
    BY <1>3, <1>4, <2>1, AskPromises DEF Ask, Progress, Unmade, Unsettled
<1>5. CASE Import \/ Await
  BY <1>3, <1>5, PromisesStay DEF Import, Await, Progress
<1>6. CASE Suspend
  BY <1>6, SuspendProgress
<1>7. CASE Return \/ RunOff
  BY <1>7, LeaveProgress DEF Return, RunOff, At
<1>8. CASE Fail
  BY <1>8, LeaveFailingProgress DEF Fail, At
<1>9. ASSUME NEW f \in Frames, Resume(f) PROVE Progress
  <2>1. /\ FramesFormed /\ \A g \in Frames : frame'[g].result = frame[g].result
        /\ UNCHANGED promise
    BY <1>9, ResumeEffect DEF Resume
  <2> QED
    BY <2>1, PromisesStay DEF Progress
<1>10. ASSUME NEW f \in Frames, Reject(f) PROVE Progress
  <2>1. frame[f].result = <<"going">>
    BY <1>10 DEF Reject, AsyncInv, WaitsSound, WaitSound, Going
  <2>2. /\ FramesFormed
        /\ \A g \in Frames : g # f => frame'[g] = frame[g]
    BY <1>10, RejectEffect
  <2>3. /\ promise[<<f, frame[f].waits>>] = Unsettled
        /\ DOMAIN promise' = Promises
        /\ \A q \in Promises : promise'[q] =
             IF q = <<f, frame[f].waits>> THEN Rejected ELSE promise[q]
    BY <1>10, RejectPromises
  <2> QED
    BY <2>1, <2>2, <2>3 DEF Progress, Unsettled, Rejected
<1>11. ASSUME NEW q \in Outer, Adopt(q) PROVE Progress
  <2>1. UNCHANGED frame
    BY <1>11 DEF Adopt
  <2>2. promise'[q].is # "none"
    <3>1. \A v : ResolvedWith(v).is # "none"
      BY ResolvedFacts
    <3> QED
      BY <1>11, <3>1, AdoptPromises
  <2> QED
    BY <1>11, <2>1, <2>2, AdoptPromises, FramesStay DEF Progress
<1>12. ASSUME NEW p \in HostPromises, HostSettles(p) PROVE Progress
  <2>1. UNCHANGED frame
    BY <1>12 DEF HostSettles
  <2>2. promise'[p].is # "none"
    BY <1>12, HostSettlesPromises, ResolvedFacts DEF Rejected
  <2> QED
    BY <1>12, <2>1, <2>2, HostSettlesPromises, FramesStay DEF Progress
<1> QED
  BY <1>1, <1>2, <1>4, <1>5, <1>6, <1>7, <1>8, <1>9, <1>10, <1>11, <1>12 DEF Next, Runs

-----------------------------------------------------------------------------
(* What follows from that.                                                 *)

LEMMA SoundGrows ==
    ASSUME Progress, NEW v, Sound(v)
    PROVE  Sound(v)'
<1>1. \A f \in Frames : frame[f].result[1] = "returned" => frame'[f].result = frame[f].result
  BY DEF Progress
<1>2. \A q \in Promises : promise[q].is # "none" => promise'[q].is # "none"
  BY DEF Progress
<1> QED
  BY <1>1, <1>2 DEF Sound

LEMMA SeenGrows ==
    ASSUME AsyncInv, Progress
    PROVE  /\ \A d \in Frames :
                SeenResults[d] # SeenCalls!Going => SeenResults'[d] = SeenResults[d]
           /\ \A p \in HostPromises :
                SeenHosts[p] \in {"fulfilled", "rejected"} => SeenHosts'[p] = SeenHosts[p]
<1>1. ASSUME NEW d \in Frames, SeenResults[d] # SeenCalls!Going
      PROVE  SeenResults'[d] = SeenResults[d]
  <2>1. frame[d].result # <<"going">>
    BY <1>1, ResultsAreSeen DEF AsyncInv
  <2> QED
    BY <2>1 DEF Progress, SeenResults
<1>2. ASSUME NEW p \in HostPromises, SeenHosts[p] \in {"fulfilled", "rejected"}
      PROVE  SeenHosts'[p] = SeenHosts[p]
  BY <1>2 DEF Progress, SeenHosts, Promises
<1> QED
  BY <1>1, <1>2

LEMMA OutcomesSeenNext ==
    /\ \A c : SeenCalls!AnsweredBy(c)' = AnsweredIn(SeenResults', c)
    /\ \A v : SeenCalls!Outcome(v)' = OutcomeIn(SeenResults', SeenHosts', v)
BY DEF SeenCalls!AnsweredBy, SeenCalls!ReturnedBy, SeenCalls!Outcome,
       SeenCalls!OwnOutcome, SeenCalls!Datum, Datum, AnsweredIn, ClosedIn, ReturnedIn,
       LastIn, OwnIn, OutcomeIn

\* A promise that was settled goes on keeping to the outcome.
LEMMA KeepsOn ==
    ASSUME AsyncInv, Progress, NEW q \in Outer, promise'[q] = promise[q]
    PROVE  Keeps(q)'
<1>1. Keeps(q) /\ q[1] \in Frames /\ q \in Promises
  BY DEF AsyncInv, AllKept, Outer, Promises
<1>2. ASSUME promise[q].is \in {"fulfilled", "rejected"}
      PROVE  SeenCalls!Outcome(<<"call", q[1]>>)' = SeenCalls!Outcome(<<"call", q[1]>>)
  <2>1. SeenCalls!Outcome(<<"call", q[1]>>) # SeenCalls!Pending
    <3>1. CASE promise[q].is = "fulfilled"
      <4>1. promise[q].value[1] = "datum"
        BY <1>1, <3>1, PromiseFacts DEF AsyncInv
      <4> QED
        BY <1>1, <3>1, <4>1 DEF Keeps, SeenCalls!Pending
    <3>2. CASE promise[q].is = "rejected"
      BY <1>1, <3>2 DEF Keeps, SeenCalls!Rejected, SeenCalls!Pending
    <3> QED
      BY <1>2, <3>1, <3>2
  <2>2. OutcomeIn(SeenResults', SeenHosts', <<"call", q[1]>>)
          = OutcomeIn(SeenResults, SeenHosts, <<"call", q[1]>>)
    BY <1>1, <2>1, OutcomesSeen, OutcomeStays, SeenGrows, ResultsAreSeen DEF AsyncInv
  <2> QED
    BY <2>2, OutcomesSeen, OutcomesSeenNext
<1> QED
  BY <1>1, <1>2 DEF Keeps, SeenCalls!Rejected

LEMMA AnsweredOn ==
    ASSUME AsyncInv, Progress, NEW f \in Frames
    PROVE  SeenCalls!AnsweredBy(f) \subseteq SeenCalls!AnsweredBy(f)'
BY AnsweredGrows, SeenGrows, OutcomesSeen, OutcomesSeenNext

\* A promise that nothing was done to is linked as before.
LEMMA LinkOn ==
    ASSUME AsyncInv, Progress, NEW f \in Frames, NEW n \in Waits,
           promise'[<<f, n>>] = promise[<<f, n>>],
           frame'[f].waits = frame[f].waits,
           Going(f)' => Going(f) \/ n # frame[f].waits
    PROVE  LinkSound(f, n)'
<1>1. LinkSound(f, n)
  BY DEF AsyncInv, ChainSound
<1>2. ASSUME NEW e \in SeenCalls!AnsweredBy(f), NEW v, frame[e].result = <<"returned", v>>
      PROVE  e \in SeenCalls!AnsweredBy(f)' /\ frame'[e].result = <<"returned", v>>
  <2>1. e \in SeenCalls!AnsweredBy(f)' /\ e \in Frames
    BY AnsweredOn, OutcomesSeen, AnsweredClosed
  <2>2. frame[e].result # <<"going">>
    BY <1>2
  <2> QED
    BY <1>2, <2>1, <2>2 DEF Progress
<1> QED
  BY <1>1, <1>2 DEF LinkSound

-----------------------------------------------------------------------------
(* Data stay where they may be.                                            *)

LEMMA DataNext ==
    ASSUME AsyncInv, Progress,
           \A f \in Frames : frame'[f] = frame[f] \/ FrameSound(f)',
           \A q \in Promises : promise'[q] = promise[q] \/
             /\ PromiseSound(q)'
             /\ q \in HostPromises =>
                  promise'[q] \in {Unmade, Unsettled, Rejected, ResolvedWith(Datum(q))},
           script' \in Seq(Functions)
    PROVE  DataSound'
<1>1. /\ \A f \in Frames : FrameSound(f)
      /\ \A q \in Promises : PromiseSound(q)
      /\ \A p \in HostPromises :
           p \in Promises /\ promise[p] \in {Unmade, Unsettled, Rejected, ResolvedWith(Datum(p))}
  BY DEF AsyncInv, DataSound, Promises
<1>2. ASSUME NEW f \in Frames PROVE FrameSound(f)'
  <2>1. CASE frame'[f] = frame[f]
    <3>1. FrameSound(f) /\ \A v : Sound(v) => Sound(v)'
      BY <1>1, SoundGrows
    <3> QED
      BY <2>1, <3>1 DEF FrameSound, InBody
  <2> QED
    BY <2>1
<1>3. ASSUME NEW q \in Promises PROVE PromiseSound(q)'
  <2>1. CASE promise'[q] = promise[q]
    <3>1. PromiseSound(q) /\ \A v : Sound(v) => Sound(v)'
      BY <1>1, SoundGrows
    <3> QED
      BY <2>1, <3>1 DEF PromiseSound
  <2> QED
    BY <2>1
<1>4. \A p \in HostPromises :
        promise'[p] \in {Unmade, Unsettled, Rejected, ResolvedWith(Datum(p))}
  BY <1>1
<1> QED
  BY <1>2, <1>3, <1>4 DEF DataSound, Progress, FramesFormed

\* A frame of a call stays sound if what is new in it is.
LEMMA FrameNext ==
    ASSUME AsyncInv, Progress, NEW f \in Frames,
           frame[f].fn # None, frame'[f].fn = frame[f].fn,
           frame'[f].waits \in 0..MaxWaits,
           frame'[f].pc \in 1..(Len(Body[frame[f].fn]) + 1),
           \A x \in Variables : frame'[f].variables[x] = frame[f].variables[x]
                \/ \E v : Sound(v)' /\ frame'[f].variables[x] = v,
           \/ frame'[f].result \in {frame[f].result, <<"failed">>}
           \/ \E v : Sound(v) /\ frame'[f].result = <<"returned", v>>
    PROVE  FrameSound(f)'
<1>1. FrameSound(f) /\ frame[f].fn \in Functions
  BY FrameFacts DEF AsyncInv, DataSound
<1>2. \A v : Sound(v) => Sound(v)'
  BY SoundGrows
<1>3. /\ DOMAIN frame'[f] = {"fn", "pc", "variables", "waits", "on", "failed", "result"}
      /\ DOMAIN frame'[f].variables = Variables
  BY DEF Progress, FramesFormed
<1>4. ASSUME NEW x \in Variables PROVE Sound(frame[f].variables[x])'
  <2>1. PICK v : Sound(v)' /\ frame'[f].variables[x] = v
    BY <1>1, <1>2 DEF FrameSound
  <2> QED
    BY <2>1 DEF Sound
<1>5. \/ frame'[f].result \in {<<"going">>, <<"failed">>}
      \/ /\ frame'[f].result = <<"returned", frame'[f].result[2]>>
         /\ Sound(frame[f].result[2])'
  <2>1. CASE frame'[f].result = frame[f].result
    <3>1. CASE frame[f].result \in {<<"going">>, <<"failed">>}
      BY <2>1, <3>1
    <3>2. CASE /\ frame[f].result = <<"returned", frame[f].result[2]>>
               /\ Sound(frame[f].result[2])
      <4>1. PICK v : v = frame[f].result[2] /\ Sound(v)'
        BY <1>2, <3>2
      <4>2. frame'[f].result[2] = v /\ frame'[f].result = <<"returned", v>>
        BY <2>1, <3>2, <4>1
      <4> QED
        BY <4>1, <4>2 DEF Sound
    <3> QED
      BY <1>1, <3>1, <3>2 DEF FrameSound
  <2>2. CASE \E v : Sound(v) /\ frame'[f].result = <<"returned", v>>
    <3>1. PICK v : Sound(v)' /\ frame'[f].result = <<"returned", v>>
      BY <1>2, <2>2
    <3>2. frame'[f].result[2] = v
      BY <3>1
    <3> QED
      BY <3>1, <3>2 DEF Sound
  <2>3. CASE frame'[f].result = <<"failed">>
    BY <2>3
  <2> QED
    BY <2>1, <2>2, <2>3
<1> QED
  BY <1>1, <1>3, <1>4, <1>5 DEF FrameSound, InBody

\* A frame that a call takes.
LEMMA EnteredSound ==
    ASSUME Progress, NEW f \in Frames, NEW fn \in Functions, frame'[f] = Enter(fn)
    PROVE  FrameSound(f)'
<1>1. /\ frame'[f].fn = fn /\ frame'[f].pc = 1 /\ frame'[f].waits = 0
      /\ frame'[f].result = <<"going">>
      /\ \A x \in Variables : frame'[f].variables[x] = Datum(Undefined)
  BY EnterFacts
<1>2. /\ DOMAIN frame'[f] = {"fn", "pc", "variables", "waits", "on", "failed", "result"}
      /\ DOMAIN frame'[f].variables = Variables
  BY DEF Progress, FramesFormed
<1>3. \A x \in Variables : Sound(frame[f].variables[x])'
  BY <1>1 DEF Sound
<1>4. 1 \in 1..(Len(Body[fn]) + 1) /\ 0 \in 0..MaxWaits /\ fn # None
  BY BodyFacts, NoneApart, AsyncAssumption
<1> QED
  BY <1>1, <1>2, <1>3, <1>4 DEF FrameSound, InBody

LEMMA ResolvedSound ==
    ASSUME NEW q, NEW v, promise'[q] = ResolvedWith(v), Sound(v)'
    PROVE  PromiseSound(q)'
<1>1. promise'[q].value = v
  BY ResolvedFacts
<1>2. Sound(promise[q].value)'
  BY <1>1 DEF Sound
<1> QED
  BY <1>1, <1>2 DEF PromiseSound, ResolvedWith

LEMMA LeaveData ==
    ASSUME AsyncInv, stack # <<>>, NEW value, Sound(value), Leave(value)
    PROVE  DataSound'
<1>1. PICK t \in Frames : t = Top
  BY TopFacts
<1>2. Progress
  BY LeaveProgress
<1>3. \A f \in Frames :
        /\ frame'[f].fn = frame[f].fn /\ frame'[f].pc = frame[f].pc
        /\ frame'[f].waits = frame[f].waits /\ frame'[f].on = frame[f].on
        /\ frame'[f].failed = frame[f].failed
        /\ frame'[f].result = IF f = t THEN <<"returned", value>> ELSE frame[f].result
        /\ \A x \in Variables : frame'[f].variables[x] =
             IF HasCaller /\ f = Caller /\ x = LastOf(f).var THEN Resolved(value, t)
             ELSE frame[f].variables[x]
  BY <1>1, LeaveEffect
<1>4. frame[t].fn # None /\ (HasCaller => frame[Caller].fn # None)
  BY <1>1, TopFacts, CallerFacts, NoneApart
<1>5. Sound(Resolved(value, t))'
  BY <1>3 DEF Sound
<1>6. ASSUME NEW f \in Frames, f = t \/ (HasCaller /\ f = Caller)
      PROVE  FrameSound(f)'
  <2>1. frame[f].fn # None
    BY <1>4, <1>6
  <2>2. /\ frame[f].waits \in 0..MaxWaits
        /\ frame[f].pc \in 1..(Len(Body[frame[f].fn]) + 1)
    BY <2>1, FrameFacts DEF AsyncInv
  <2>3. \A x \in Variables : frame'[f].variables[x] = frame[f].variables[x]
          \/ \E v : Sound(v)' /\ frame'[f].variables[x] = v
    BY <1>3, <1>5
  <2>4. \/ frame'[f].result \in {frame[f].result, <<"failed">>}
        \/ \E v : Sound(v) /\ frame'[f].result = <<"returned", v>>
    BY <1>3
  <2> QED
    BY <1>2, <1>3, <2>1, <2>2, <2>3, <2>4, FrameNext
<1>7. \A f \in Frames : frame'[f] = frame[f] \/ FrameSound(f)'
  <2>1. \A f \in Frames : f # t /\ ~(HasCaller /\ f = Caller) => frame'[f] = frame[f]
    BY <1>1, LeaveEffect
  <2> QED
    BY <1>6, <2>1
<1>8. ASSUME NEW q \in Promises, promise'[q] # promise[q]
      PROVE  PromiseSound(q)' /\ q \notin HostPromises
  <2>1. /\ q = <<t, frame[t].waits>> /\ promise'[q] = ResolvedWith(value)
        /\ frame[t].waits \in Waits
    BY <1>1, <1>8, SettleEffect DEF Leave
  <2>2. Sound(value)'
    BY <1>2, SoundGrows
  <2> QED
    BY <2>1, <2>2, ResolvedSound, OuterFacts
<1>9. script' \in Seq(Functions)
  BY DEF Leave, AsyncInv, DataSound
<1> QED
  BY <1>2, <1>7, <1>8, <1>9, DataNext

LEMMA LeaveFailingData == AsyncInv /\ stack # <<>> /\ LeaveFailing => DataSound'
<1> SUFFICES ASSUME AsyncInv, stack # <<>>, LeaveFailing PROVE DataSound'
  OBVIOUS
<1>1. PICK t \in Frames : t = Top
  BY TopFacts
<1>2. Progress
  BY LeaveFailingProgress
<1>3. \A f \in Frames :
        /\ frame'[f].fn = frame[f].fn /\ frame'[f].pc = frame[f].pc
        /\ frame'[f].waits = frame[f].waits
        /\ frame'[f].variables = frame[f].variables
        /\ frame'[f].result = IF f = t THEN <<"failed">> ELSE frame[f].result
  BY <1>1, LeaveFailingEffect
<1>4. frame[t].fn # None /\ (HasCaller => frame[Caller].fn # None)
  BY <1>1, TopFacts, CallerFacts, NoneApart
<1>5. ASSUME NEW f \in Frames, f = t \/ (HasCaller /\ f = Caller)
      PROVE  FrameSound(f)'
  <2>1. frame[f].fn # None
    BY <1>4, <1>5
  <2>2. /\ frame[f].waits \in 0..MaxWaits
        /\ frame[f].pc \in 1..(Len(Body[frame[f].fn]) + 1)
    BY <2>1, FrameFacts DEF AsyncInv
  <2>3. /\ \A x \in Variables : frame'[f].variables[x] = frame[f].variables[x]
        /\ frame'[f].result \in {frame[f].result, <<"failed">>}
    BY <1>3
  <2> QED
    BY <1>2, <1>3, <2>1, <2>2, <2>3, FrameNext
<1>6. \A f \in Frames : frame'[f] = frame[f] \/ FrameSound(f)'
  <2>1. \A f \in Frames : f # t /\ ~(HasCaller /\ f = Caller) => frame'[f] = frame[f]
    BY <1>1, LeaveFailingEffect
  <2> QED
    BY <1>5, <2>1
<1>7. ASSUME NEW q \in Promises, promise'[q] # promise[q]
      PROVE  PromiseSound(q)' /\ promise'[q] = Rejected
  <2>1. promise'[q] = Rejected
    BY <1>1, <1>7, SettleEffect DEF LeaveFailing
  <2> QED
    BY <2>1 DEF PromiseSound, Rejected
<1>8. script' \in Seq(Functions)
  BY DEF LeaveFailing, AsyncInv, DataSound
<1> QED
  BY <1>2, <1>6, <1>7, <1>8, DataNext

LEMMA SuspendData == AsyncInv /\ Suspend => DataSound'
<1> SUFFICES ASSUME AsyncInv, Suspend PROVE DataSound'
  OBVIOUS
<1>1. PICK t \in Frames : t = Top
  BY SuspendPromises
<1>0. PICK q : q = <<t, frame[t].waits + 1>>
  OBVIOUS
<1>2. Progress
  BY SuspendProgress
<1>3. \A f \in Frames :
        /\ frame'[f].fn = frame[f].fn
        /\ frame'[f].pc = IF f = t THEN frame[f].pc + 1 ELSE frame[f].pc
        /\ frame'[f].waits = IF f = t THEN frame[f].waits + 1 ELSE frame[f].waits
        /\ frame'[f].result = frame[f].result
        /\ \A x \in Variables : frame'[f].variables[x] =
             IF HasCaller /\ f = Caller /\ x = LastOf(f).var THEN Promise(q)
             ELSE frame[f].variables[x]
  BY <1>0, <1>1, SuspendEffect
<1>4. /\ q \in Promises /\ frame[t].waits + 1 \in Waits /\ frame[t].waits \in Nat
      /\ \A p \in Promises : promise'[p] = IF p = q THEN Unsettled
           ELSE IF frame[t].waits # 0 /\ p = <<t, frame[t].waits>>
           THEN ResolvedWith(Promise(q)) ELSE promise[p]
  BY <1>0, <1>1, SuspendPromises
<1>5. Sound(Promise(q))'
  BY <1>4 DEF Sound, Unsettled
<1>6. /\ frame[t].fn # None /\ (HasCaller => frame[Caller].fn # None)
      /\ frame[t].pc + 1 \in 1..(Len(Body[frame[t].fn]) + 1)
      /\ frame[t].waits + 1 \in 0..MaxWaits
  <2>1. stack # <<>> /\ frame[t].pc + 1 \in 1..(Len(Body[frame[t].fn]) + 1)
    BY <1>1, AtFacts DEF Suspend
  <2>2. frame[t].waits + 1 \in 0..MaxWaits
    BY <1>4 DEF Waits
  <2>3. frame[t].fn # None /\ (HasCaller => frame[Caller].fn # None)
    BY <1>1, <2>1, TopFacts, CallerFacts, NoneApart
  <2> QED
    BY <2>1, <2>2, <2>3
<1>7. ASSUME NEW f \in Frames, f = t \/ (HasCaller /\ f = Caller)
      PROVE  FrameSound(f)'
  <2>1. frame[f].fn # None
    BY <1>6, <1>7
  <2>2. /\ frame[f].waits \in 0..MaxWaits
        /\ frame[f].pc \in 1..(Len(Body[frame[f].fn]) + 1)
    BY <2>1, FrameFacts DEF AsyncInv
  <2>3. /\ frame'[f].waits \in 0..MaxWaits
        /\ frame'[f].pc \in 1..(Len(Body[frame[f].fn]) + 1)
    BY <1>3, <1>6, <2>2
  <2>4. \A x \in Variables : frame'[f].variables[x] = frame[f].variables[x]
          \/ \E v : Sound(v)' /\ frame'[f].variables[x] = v
    BY <1>3, <1>5
  <2>5. frame'[f].fn = frame[f].fn /\ frame'[f].result \in {frame[f].result, <<"failed">>}
    BY <1>3
  <2> QED
    BY <1>2, <2>1, <2>3, <2>4, <2>5, FrameNext
<1>8. \A f \in Frames : frame'[f] = frame[f] \/ FrameSound(f)'
  <2>1. \A f \in Frames : f # t /\ ~(HasCaller /\ f = Caller) => frame'[f] = frame[f]
    BY <1>1, SuspendEffect
  <2> QED
    BY <1>7, <2>1
<1>9. ASSUME NEW p \in Promises, promise'[p] # promise[p]
      PROVE  PromiseSound(p)' /\ p \notin HostPromises
  <2>1. CASE p = q
    <3>1. promise'[p] = Unsettled
      BY <1>4, <2>1
    <3>2. p \notin HostPromises
      BY <1>0, <1>4, <2>1, OuterFacts
    <3> QED
      BY <3>1, <3>2 DEF PromiseSound, Unsettled
  <2>2. CASE p # q
    <3>1. p = <<t, frame[t].waits>> /\ promise'[p] = ResolvedWith(Promise(q))
          /\ frame[t].waits # 0
      BY <1>4, <1>9, <2>2
    <3>2. frame[t].waits \in Waits
      BY <1>4, <3>1, AsyncAssumption DEF Waits
    <3> QED
      BY <1>5, <3>1, <3>2, ResolvedSound, OuterFacts
  <2> QED
    BY <2>1, <2>2
<1>10. script' \in Seq(Functions)
  BY DEF Suspend, AsyncInv, DataSound
<1> QED
  BY <1>2, <1>8, <1>9, <1>10, DataNext

LEMMA GoesData ==
    ASSUME AsyncInv, Progress, NEW value, NEW op, At(op), Goes(value), Sound(value)'
    PROVE  \A f \in Frames : frame'[f] = frame[f] \/ FrameSound(f)'
<1>1. PICK t \in Frames : t = Top
  BY AtFacts, TopFacts
<1>2. /\ \A f \in Frames : f # t => frame'[f] = frame[f]
      /\ frame'[t].fn = frame[t].fn /\ frame'[t].pc = frame[t].pc + 1
      /\ frame'[t].waits = frame[t].waits
      /\ frame'[t].result = frame[t].result
      /\ \A x \in Variables : frame'[t].variables[x] =
           IF x = Instruction.var THEN value ELSE frame[t].variables[x]
  BY <1>1, GoesEffect
<1>3. /\ frame[t].pc + 1 \in 1..(Len(Body[frame[t].fn]) + 1)
      /\ frame[t].fn # None /\ frame[t].waits \in 0..MaxWaits
  BY <1>1, AtFacts, TopFacts, FrameFacts DEF AsyncInv
<1>4. FrameSound(t)'
  <2>1. \A x \in Variables : frame'[t].variables[x] = frame[t].variables[x]
          \/ \E v : Sound(v)' /\ frame'[t].variables[x] = v
    BY <1>2
  <2>2. /\ frame'[t].waits \in 0..MaxWaits
        /\ frame'[t].pc \in 1..(Len(Body[frame[t].fn]) + 1)
        /\ frame'[t].result \in {frame[t].result, <<"failed">>}
    BY <1>2, <1>3
  <2> QED
    BY <1>2, <1>3, <2>1, <2>2, FrameNext
<1> QED
  BY <1>2, <1>4

LEMMA NextData == AsyncInv /\ Next => DataSound'
<1> SUFFICES ASSUME AsyncInv, Next PROVE DataSound'
  OBVIOUS
<1>0. Progress /\ (UNCHANGED script => script' \in Seq(Functions))
  BY NextProgress DEF AsyncInv, DataSound
<1>1. CASE Start
  <2>1. PICK n : n = Fresh
    OBVIOUS
  <2>2. /\ n \in Frames /\ Head(script) \in Functions /\ Tail(script) \in Seq(Functions)
        /\ \A f \in Frames : frame'[f] = IF f = n THEN Enter(Head(script)) ELSE frame[f]
    BY <1>1, <2>1, StartEffect
  <2>3. FrameSound(n)'
    BY <1>0, <2>2, EnteredSound
  <2> QED
    BY <1>0, <1>1, <2>2, <2>3, DataNext DEF Start
<1>2. CASE Call
  <2>1. PICK n : n = Fresh
    OBVIOUS
  <2>2. PICK t : t = Top
    OBVIOUS
  <2>3. /\ n \in Frames /\ t \in Frames /\ Instruction.callee \in Functions
        /\ \A f \in Frames : f # n /\ f # t => frame'[f] = frame[f]
        /\ frame'[n] = Enter(Instruction.callee)
        /\ frame'[t].fn = frame[t].fn /\ frame'[t].pc = frame[t].pc + 1
        /\ frame'[t].waits = frame[t].waits /\ frame'[t].result = frame[t].result
        /\ frame'[t].variables = frame[t].variables
    BY <1>2, <2>1, <2>2, CallEffect
  <2>4. FrameSound(n)'
    BY <1>0, <2>3, EnteredSound
  <2>5. /\ frame[t].pc + 1 \in 1..(Len(Body[frame[t].fn]) + 1)
        /\ frame[t].fn # None /\ frame[t].waits \in 0..MaxWaits
    BY <1>2, <2>2, AtFacts, TopFacts, FrameFacts DEF AsyncInv, Call
  <2>6. FrameSound(t)'
    <3>1. /\ frame'[t].waits \in 0..MaxWaits
          /\ frame'[t].pc \in 1..(Len(Body[frame[t].fn]) + 1)
          /\ frame'[t].result \in {frame[t].result, <<"failed">>}
          /\ \A x \in Variables : frame'[t].variables[x] = frame[t].variables[x]
      BY <2>3, <2>5
    <3> QED
      BY <1>0, <2>3, <2>5, <3>1, FrameNext
  <2>7. \A f \in Frames : frame'[f] = frame[f] \/ FrameSound(f)'
    BY <2>3, <2>4, <2>6
  <2>8. UNCHANGED promise /\ UNCHANGED script
    BY <1>2 DEF Call
  <2> QED
    BY <1>0, <2>7, <2>8, DataNext
<1>3. CASE Ask
  <2>1. PICK p : p = FreshPromise
    OBVIOUS
  <2>2. /\ p \in Promises
        /\ \A q \in Promises : promise'[q] = IF q = p THEN Unsettled ELSE promise[q]
    BY <1>3, <2>1, AskPromises
  <2>3. Sound(Promise(p))'
    BY <2>2 DEF Sound, Unsettled
  <2>4. At("ask") /\ Goes(Promise(p))
    BY <1>3, <2>1 DEF Ask
  <2>5. \A f \in Frames : frame'[f] = frame[f] \/ FrameSound(f)'
    BY <1>0, <2>3, <2>4, GoesData
  <2>6. \A q \in Promises : promise'[q] = promise[q]
          \/ (PromiseSound(q)' /\ promise'[q] = Unsettled)
    BY <2>2 DEF PromiseSound, Unsettled
  <2>7. UNCHANGED script
    BY <2>4 DEF Goes
  <2> QED
    BY <1>0, <2>5, <2>6, <2>7, DataNext
<1>4. CASE Import
  <2>1. Sound(Marked(Datum(Module)))'
    BY DEF Sound
  <2>2. At("import") /\ Goes(Marked(Datum(Module))) /\ UNCHANGED promise
    BY <1>4 DEF Import
  <2>3. \A f \in Frames : frame'[f] = frame[f] \/ FrameSound(f)'
    BY <1>0, <2>1, <2>2, GoesData
  <2>4. UNCHANGED script
    BY <2>2 DEF Goes
  <2> QED
    BY <1>0, <2>2, <2>3, <2>4, DataNext
<1>5. CASE Await
  <2>1. At("await") /\ Goes(AwaitValue(Value)) /\ UNCHANGED promise
    BY <1>5 DEF Await
  <2>2. Sound(Value)
    BY <2>1, AtFacts
  <2>3. PICK v : v = AwaitValue(Value) /\ Sound(v)
    BY <2>2 DEF AwaitValue, Sound, Datum, Marked, Promise, Resolved
  <2>4. Goes(v) /\ Sound(v)'
    BY <1>0, <2>1, <2>3, SoundGrows
  <2>5. \A f \in Frames : frame'[f] = frame[f] \/ FrameSound(f)'
    BY <1>0, <2>1, <2>4, GoesData
  <2>6. UNCHANGED script
    BY <2>1 DEF Goes
  <2> QED
    BY <1>0, <2>1, <2>5, <2>6, DataNext
<1>6. CASE Suspend
  BY <1>6, SuspendData
<1>7. CASE Return
  <2>1. PICK v : v = Value
    OBVIOUS
  <2>2. stack # <<>> /\ Sound(v) /\ Leave(v)
    BY <1>7, <2>1, AtFacts DEF Return
  <2> QED
    BY <2>2, LeaveData
<1>8. CASE RunOff
  <2>1. Sound(Datum(Undefined))
    BY DEF Sound
  <2> QED
    BY <1>8, <2>1, LeaveData DEF RunOff
<1>9. CASE Fail
  BY <1>9, LeaveFailingData DEF Fail, At
<1>10. ASSUME NEW t \in Frames, Resume(t) PROVE DataSound'
  <2>1. /\ frame[t].on \in Promises /\ promise[frame[t].on].is = "fulfilled"
        /\ \A f \in Frames : f # t => frame'[f] = frame[f]
        /\ frame'[t].fn = frame[t].fn /\ frame'[t].pc = frame[t].pc
        /\ frame'[t].waits = frame[t].waits /\ frame'[t].result = frame[t].result
        /\ \A x \in Variables : frame'[t].variables[x] =
             IF x = LastOf(t).var THEN promise[frame[t].on].value
             ELSE frame[t].variables[x]
    BY <1>10, ResumeEffect
  <2>2. PICK v : v = promise[frame[t].on].value /\ Sound(v)
    BY <2>1, PromiseFacts DEF AsyncInv
  <2>3. Sound(v)'
    BY <1>0, <2>2, SoundGrows
  <2>4. frame[t].fn # None
    BY <1>10 DEF Resume, AsyncInv, WaitsSound, WaitSound, Going
  <2>5. FrameSound(t)'
    <3>1. /\ frame'[t].waits \in 0..MaxWaits
          /\ frame'[t].pc \in 1..(Len(Body[frame[t].fn]) + 1)
          /\ frame'[t].result \in {frame[t].result, <<"failed">>}
      BY <2>1, <2>4, FrameFacts DEF AsyncInv
    <3>2. \A x \in Variables : frame'[t].variables[x] = frame[t].variables[x]
            \/ \E w : Sound(w)' /\ frame'[t].variables[x] = w
      BY <2>1, <2>2, <2>3
    <3> QED
      BY <1>0, <2>1, <2>4, <3>1, <3>2, FrameNext
  <2>6. \A f \in Frames : frame'[f] = frame[f] \/ FrameSound(f)'
    BY <2>1, <2>5
  <2>7. UNCHANGED promise /\ UNCHANGED script
    BY <1>10 DEF Resume
  <2> QED
    BY <1>0, <2>6, <2>7, DataNext
<1>11. ASSUME NEW t \in Frames, Reject(t) PROVE DataSound'
  <2>1. /\ \A f \in Frames : f # t => frame'[f] = frame[f]
        /\ frame'[t].fn = frame[t].fn /\ frame'[t].pc = frame[t].pc
        /\ frame'[t].waits = frame[t].waits /\ frame'[t].result = <<"failed">>
        /\ frame'[t].variables = frame[t].variables
    BY <1>11, RejectEffect
  <2>2. frame[t].fn # None
    BY <1>11 DEF Reject, AsyncInv, WaitsSound, WaitSound, Going
  <2>3. FrameSound(t)'
    <3>1. /\ frame'[t].waits \in 0..MaxWaits
          /\ frame'[t].pc \in 1..(Len(Body[frame[t].fn]) + 1)
          /\ frame'[t].result \in {frame[t].result, <<"failed">>}
          /\ \A x \in Variables : frame'[t].variables[x] = frame[t].variables[x]
      BY <2>1, <2>2, FrameFacts DEF AsyncInv
    <3> QED
      BY <1>0, <2>1, <2>2, <3>1, FrameNext
  <2>4. \A f \in Frames : frame'[f] = frame[f] \/ FrameSound(f)'
    BY <2>1, <2>3
  <2>5. \A q \in Promises : promise'[q] = promise[q]
          \/ (PromiseSound(q)' /\ promise'[q] = Rejected)
    BY <1>11, RejectPromises DEF PromiseSound, Rejected
  <2>6. UNCHANGED script
    BY <1>11 DEF Reject
  <2> QED
    BY <1>0, <2>4, <2>5, <2>6, DataNext
<1>12. ASSUME NEW q \in Outer, Adopt(q) PROVE DataSound'
  <2>1. UNCHANGED <<frame, script>>
    BY <1>12 DEF Adopt
  <2>2. q \in Promises /\ \A p \in Promises : p # q => promise'[p] = promise[p]
    BY <1>12, AdoptPromises
  <2>3. q \notin HostPromises
    BY AsyncAssumption
  <2>4. PromiseSound(q)'
    <3>1. CASE promise'[q] = ResolvedWith(Datum(Module))
      <4>1. Sound(Datum(Module))'
        BY DEF Sound
      <4> QED
        BY <3>1, <4>1, ResolvedSound
    <3>2. CASE \E f \in Frames : /\ frame[f].result[1] = "returned"
                                 /\ promise'[q] = ResolvedWith(frame[f].result[2])
      <4>1. PICK f \in Frames : /\ frame[f].result[1] = "returned"
                                /\ promise'[q] = ResolvedWith(frame[f].result[2])
        BY <3>2
      <4>2. PICK v : v = frame[f].result[2] /\ Sound(v)
        BY <4>1 DEF AsyncInv, DataSound, FrameSound
      <4>3. Sound(v)' /\ promise'[q] = ResolvedWith(v)
        BY <1>0, <4>1, <4>2, SoundGrows
      <4> QED
        BY <4>3, ResolvedSound
    <3>3. CASE \E p \in Promises : /\ promise[p].is \in {"fulfilled", "rejected"}
                                   /\ promise'[q] = promise[p]
      <4>1. PICK p \in Promises : /\ promise[p].is \in {"fulfilled", "rejected"}
                                  /\ promise'[q] = promise[p]
        BY <3>3
      <4>2. CASE promise[p].is = "fulfilled"
        <5>1. PICK v : promise[p] = ResolvedWith(v) /\ Sound(v)
          BY <4>2, PromiseFacts DEF AsyncInv
        <5>2. Sound(v)' /\ promise'[q] = ResolvedWith(v)
          BY <1>0, <4>1, <5>1, SoundGrows
        <5> QED
          BY <5>2, ResolvedSound
      <4>3. CASE promise[p].is = "rejected"
        <5>1. promise'[q] = Rejected
          BY <4>1, <4>3, PromiseFacts DEF AsyncInv
        <5> QED
          BY <5>1 DEF PromiseSound, Rejected
      <4> QED
        BY <4>1, <4>2, <4>3
    <3> QED
      BY <1>12, <3>1, <3>2, <3>3, AdoptPromises
  <2> QED
    BY <1>0, <2>1, <2>2, <2>3, <2>4, DataNext
<1>13. ASSUME NEW p \in HostPromises, HostSettles(p) PROVE DataSound'
  <2>1. UNCHANGED <<frame, script>>
    BY <1>13 DEF HostSettles
  <2>2. /\ p \in Promises /\ promise'[p] \in {ResolvedWith(Datum(p)), Rejected}
        /\ \A q \in Promises : q # p => promise'[q] = promise[q]
    BY <1>13, HostSettlesPromises
  <2>3. PromiseSound(p)'
    <3>1. Sound(Datum(p))'
      BY DEF Sound
    <3>2. CASE promise'[p] = Rejected
      BY <3>2 DEF PromiseSound, Rejected
    <3> QED
      BY <2>2, <3>1, <3>2, ResolvedSound
  <2> QED
    BY <1>0, <2>1, <2>2, <2>3, DataNext
<1> QED
  BY <1>1, <1>2, <1>3, <1>4, <1>5, <1>6, <1>7, <1>8, <1>9, <1>10, <1>11, <1>12, <1>13
     DEF Next, Runs

-----------------------------------------------------------------------------
(* The stack.                                                              *)

LEMMA StackNext ==
    ASSUME stack' \in Seq(Frames),
           \A i, j \in DOMAIN stack' : stack'[i] = stack'[j] => i = j,
           \A i \in DOMAIN stack', f \in Frames : f = stack'[i] =>
             /\ Going(f)' /\ frame'[f].on = None
             /\ i # 1 => frame'[f].waits = 0
             /\ i # Len(stack') => HasDone(f, "call")' /\ frame'[f].failed = None,
           \A f \in Frames : frame'[f].failed # None =>
             /\ \E d \in Frames : d = frame'[f].failed /\ frame'[d].result = <<"failed">>
             /\ Going(f)' => /\ stack' # <<>> /\ f = stack'[Len(stack')]
                             /\ HasDone(f, "call")'
    PROVE  StackSound'
<1>1. \A i \in DOMAIN stack' : stack'[i] \in Frames
  OBVIOUS
<1>2. ASSUME NEW i \in DOMAIN stack'
      PROVE  /\ Going(stack[i])' /\ frame'[stack'[i]].on = None
             /\ i # 1 => frame'[stack'[i]].waits = 0
             /\ i # Len(stack') => HasDone(stack[i], "call")' /\ frame'[stack'[i]].failed = None
  <2>1. PICK f \in Frames : f = stack'[i]
    BY <1>1
  <2> QED
    BY <2>1 DEF Going, HasDone, LastOf
<1>3. \A f \in Frames : FailureSound(f)'
  BY DEF FailureSound, Top
<1> QED
  BY <1>2, <1>3 DEF StackSound

\* Only the frame on top can have a call that failed.
LEMMA NoFailure ==
    ASSUME AsyncInv, stack # <<>> => frame[Top].failed = None, NEW f \in Frames, Going(f)
    PROVE  frame[f].failed = None
BY DEF AsyncInv, StackSound, FailureSound

\* What the failure part needs of a step that makes no call fail.
LEMMA FailuresStay ==
    ASSUME AsyncInv, Progress, stack # <<>> => frame[Top].failed = None,
           NEW f \in Frames, frame'[f].failed = frame[f].failed, Going(f)' => Going(f),
           frame'[f].failed # None
    PROVE  /\ \E d \in Frames : d = frame'[f].failed /\ frame'[d].result = <<"failed">>
           /\ ~Going(f)'
<1>1. FailureSound(f)
  BY DEF AsyncInv, StackSound
<1>2. PICK d \in Frames : d = frame[f].failed /\ frame[d].result = <<"failed">>
  BY <1>1 DEF FailureSound
<1>3. frame'[d].result = <<"failed">>
  BY <1>2 DEF Progress
<1> QED
  BY <1>2, <1>3, NoFailure

LEMMA BelowFacts ==
    ASSUME AsyncInv, stack # <<>>, stack' = Below
    PROVE  /\ stack' \in Seq(Frames) /\ Len(stack') = Len(stack) - 1
           /\ DOMAIN stack' = 1..(Len(stack) - 1)
           /\ Len(stack) \in DOMAIN stack
           /\ \A i \in DOMAIN stack' :
                i \in DOMAIN stack /\ i # Len(stack) /\ stack'[i] = stack[i]
           /\ HasCaller <=> Len(stack) > 1
           /\ HasCaller => stack' # <<>> /\ stack'[Len(stack')] = Caller
           /\ Len(stack) = 1 => stack' = <<>>
<1>1. stack \in Seq(Frames) /\ Len(stack) \in Nat /\ Len(stack) >= 1 /\ DOMAIN stack = 1..Len(stack)
  BY TopFacts DEF AsyncInv, StackSound
<1>2. stack' = SubSeq(stack, 1, Len(stack) - 1)
  BY DEF Below
<1>3. /\ stack' \in Seq(Frames) /\ Len(stack') = Len(stack) - 1
      /\ \A i \in 1..(Len(stack) - 1) : stack'[i] = stack[i]
  BY <1>1, <1>2
<1>4. DOMAIN stack' = 1..(Len(stack) - 1)
  BY <1>3
<1>5. /\ Len(stack) \in 1..Len(stack)
      /\ \A i \in 1..(Len(stack) - 1) : i \in 1..Len(stack) /\ i # Len(stack)
      /\ Len(stack) > 1 => Len(stack) - 1 \in 1..(Len(stack) - 1)
      /\ Len(stack) > 1 => Len(stack) # 1
  <2>1. PICK n \in Nat : n = Len(stack) /\ n >= 1
    BY <1>1
  <2>2. n \in 1..n /\ \A i \in 1..(n - 1) : i \in 1..n /\ i # n
    BY <2>1
  <2>3. n > 1 => n - 1 \in 1..(n - 1) /\ n # 1
    OBVIOUS
  <2> QED
    BY <2>1, <2>2, <2>3
<1>6. HasCaller <=> Len(stack) > 1
  BY <1>1, <1>5 DEF HasCaller, AsyncInv, StackSound, Top
<1>7. HasCaller => stack' # <<>> /\ stack'[Len(stack')] = Caller
  <2>1. HasCaller => Len(stack') # 0
    BY <1>1, <1>3, <1>6
  <2> QED
    BY <1>3, <1>5, <1>6, <2>1 DEF Caller
<1>8. Len(stack) = 1 => stack' = <<>>
  BY <1>1, <1>2, <1>3
<1> QED
  BY <1>1, <1>3, <1>4, <1>5, <1>6, <1>7, <1>8

\* The frame on top is left.
LEMMA LeftStack ==
    ASSUME AsyncInv, Progress, stack # <<>>, stack' = Below, NEW t, t = Top,
           \A f \in Frames : f # t =>
             /\ frame'[f].fn = frame[f].fn /\ frame'[f].pc = frame[f].pc
             /\ frame'[f].waits = frame[f].waits /\ frame'[f].on = frame[f].on
             /\ frame'[f].result = frame[f].result,
           \A f \in Frames : frame'[f].failed = frame[f].failed
             \/ (HasCaller /\ f = Caller /\ frame'[f].failed = t),
           frame'[t].fn = frame[t].fn,
           Going(t)' => frame[t].failed = None,
           frame'[t].result = <<"failed">> \/ \A f \in Frames : frame'[f].failed = frame[f].failed
    PROVE  StackSound'
<1>1. /\ stack' \in Seq(Frames) /\ Len(stack') = Len(stack) - 1
      /\ DOMAIN stack' = 1..(Len(stack) - 1)
      /\ Len(stack) \in DOMAIN stack
      /\ \A i \in DOMAIN stack' :
           i \in DOMAIN stack /\ i # Len(stack) /\ stack'[i] = stack[i]
      /\ HasCaller => stack' # <<>> /\ stack'[Len(stack')] = Caller
  BY BelowFacts
<1>2. /\ \A i, j \in DOMAIN stack : stack[i] = stack[j] => i = j
      /\ \A i \in DOMAIN stack : stack[i] \in Frames
      /\ \A i \in DOMAIN stack :
           /\ Going(stack[i]) /\ frame[stack[i]].on = None
           /\ i # 1 => frame[stack[i]].waits = 0
           /\ i # Len(stack) => HasDone(stack[i], "call") /\ frame[stack[i]].failed = None
  BY DEF AsyncInv, StackSound
<1>3. t = stack[Len(stack)] /\ t \in Frames
  BY <1>1, <1>2 DEF Top
<1>4. \A i, j \in DOMAIN stack' : stack'[i] = stack'[j] => i = j
  BY <1>1, <1>2
<1>5. ASSUME NEW i \in DOMAIN stack', NEW f \in Frames, f = stack'[i]
      PROVE  /\ Going(f)' /\ frame'[f].on = None
             /\ i # 1 => frame'[f].waits = 0
             /\ i # Len(stack') => HasDone(f, "call")' /\ frame'[f].failed = None
  <2>1. i \in DOMAIN stack /\ f = stack[i] /\ i # Len(stack)
    BY <1>1, <1>5
  <2>2. f # t
    BY <1>1, <1>2, <1>3, <2>1
  <2>3. /\ Going(f) /\ frame[f].on = None /\ (i # 1 => frame[f].waits = 0)
        /\ HasDone(f, "call") /\ frame[f].failed = None
    BY <1>2, <2>1
  <2>4. Going(f)' /\ frame'[f].on = None /\ (i # 1 => frame'[f].waits = 0)
        /\ HasDone(f, "call")'
    BY <2>2, <2>3 DEF Going, HasDone, LastOf
  <2>5. ASSUME i # Len(stack') PROVE frame'[f].failed = None
    <3>1. HasCaller => Len(stack') \in DOMAIN stack'
      BY <1>1
    <3>2. ~(HasCaller /\ f = Caller)
      BY <1>1, <1>4, <1>5, <2>5, <3>1
    <3> QED
      BY <2>3, <3>2
  <2> QED
    BY <2>4, <2>5
<1>6. ASSUME NEW f \in Frames, frame'[f].failed # None
      PROVE  /\ \E d \in Frames : d = frame'[f].failed /\ frame'[d].result = <<"failed">>
             /\ Going(f)' => /\ stack' # <<>> /\ f = stack'[Len(stack')]
                             /\ HasDone(f, "call")'
  <2>1. CASE frame'[f].failed = frame[f].failed
    <3>1. PICK d \in Frames : d = frame[f].failed /\ frame[d].result = <<"failed">>
      BY <1>6, <2>1 DEF AsyncInv, StackSound, FailureSound
    <3>2. frame'[d].result = <<"failed">>
      BY <3>1 DEF Progress
    <3>3. f # t => ~Going(f)
      BY <1>6, <2>1 DEF AsyncInv, StackSound, FailureSound
    <3>4. ~Going(f)'
      BY <1>6, <2>1, <3>3 DEF Going
    <3> QED
      BY <2>1, <3>1, <3>2, <3>4
  <2>2. CASE HasCaller /\ f = Caller /\ frame'[f].failed = t /\ frame'[t].result = <<"failed">>
    <3>1. HasDone(f, "call") /\ f # t
      BY <2>2, CallerFacts
    <3>2. HasDone(f, "call")'
      BY <3>1 DEF HasDone, LastOf
    <3> QED
      BY <1>1, <1>3, <2>2, <3>2
  <2> QED
    BY <2>1, <2>2
<1> QED
  BY <1>1, <1>4, <1>5, <1>6, StackNext

\* The frame on top goes on.
LEMMA GoesStack ==
    ASSUME AsyncInv, Progress, NEW value, NEW op, At(op), Goes(value)
    PROVE  StackSound'
<1>1. PICK t \in Frames : t = Top
  BY AtFacts, TopFacts
<1>2. /\ \A f \in Frames : f # t => frame'[f] = frame[f]
      /\ frame'[t].fn = frame[t].fn /\ frame'[t].pc = frame[t].pc + 1
      /\ frame'[t].waits = frame[t].waits /\ frame'[t].on = frame[t].on
      /\ frame'[t].failed = frame[t].failed /\ frame'[t].result = frame[t].result
  BY <1>1, GoesEffect
<1>3. stack # <<>> /\ frame[t].failed = None /\ stack' = stack
  BY <1>1, AtFacts DEF Goes
<1>4. /\ stack \in Seq(Frames)
      /\ \A i, j \in DOMAIN stack : stack[i] = stack[j] => i = j
      /\ \A i \in DOMAIN stack :
           /\ Going(stack[i]) /\ frame[stack[i]].on = None
           /\ i # 1 => frame[stack[i]].waits = 0
           /\ i # Len(stack) => HasDone(stack[i], "call") /\ frame[stack[i]].failed = None
  BY DEF AsyncInv, StackSound
<1>5. Len(stack) \in DOMAIN stack /\ t = stack[Len(stack)]
  <2>1. Len(stack) \in 1..Len(stack) /\ DOMAIN stack = 1..Len(stack)
    BY <1>3, TopFacts
  <2> QED
    BY <1>1, <2>1 DEF Top
<1>6. ASSUME NEW i \in DOMAIN stack', NEW f \in Frames, f = stack'[i]
      PROVE  /\ Going(f)' /\ frame'[f].on = None
             /\ i # 1 => frame'[f].waits = 0
             /\ i # Len(stack') => HasDone(f, "call")' /\ frame'[f].failed = None
  <2>1. i \in DOMAIN stack /\ f = stack[i]
    BY <1>3, <1>6
  <2>2. CASE f = t
    <3>1. i = Len(stack')
      BY <1>3, <1>4, <1>5, <2>1, <2>2
    <3>2. Going(f) /\ frame[f].on = None /\ (i # 1 => frame[f].waits = 0)
      BY <1>4, <2>1
    <3> QED
      BY <1>2, <2>2, <3>1, <3>2 DEF Going
  <2>3. CASE f # t
    BY <1>2, <1>3, <1>4, <2>1, <2>3 DEF Going, HasDone, LastOf
  <2> QED
    BY <2>2, <2>3
<1>7. \A f \in Frames : frame'[f].failed = frame[f].failed /\ (Going(f)' => Going(f))
  BY <1>2 DEF Going
<1>8. \A f \in Frames : frame'[f].failed # None =>
        /\ \E d \in Frames : d = frame'[f].failed /\ frame'[d].result = <<"failed">>
        /\ ~Going(f)'
  BY <1>1, <1>3, <1>7, FailuresStay
<1> QED
  BY <1>3, <1>4, <1>6, <1>8, StackNext

LEMMA LeaveStack ==
    ASSUME AsyncInv, stack # <<>>, NEW value, Leave(value)
    PROVE  StackSound'
<1>1. PICK t \in Frames : t = Top
  BY TopFacts
<1>2. \A f \in Frames :
        /\ frame'[f].fn = frame[f].fn /\ frame'[f].pc = frame[f].pc
        /\ frame'[f].waits = frame[f].waits /\ frame'[f].on = frame[f].on
        /\ frame'[f].failed = frame[f].failed
        /\ frame'[f].result = IF f = t THEN <<"returned", value>> ELSE frame[f].result
  BY <1>1, LeaveEffect
<1>3. Progress /\ stack' = Below
  BY LeaveProgress DEF Leave
<1>4. ~Going(t)'
  BY <1>2 DEF Going
<1> QED
  BY <1>1, <1>2, <1>3, <1>4, LeftStack

LEMMA LeaveFailingStack == AsyncInv /\ stack # <<>> /\ LeaveFailing => StackSound'
<1> SUFFICES ASSUME AsyncInv, stack # <<>>, LeaveFailing PROVE StackSound'
  OBVIOUS
<1>1. PICK t \in Frames : t = Top
  BY TopFacts
<1>2. \A f \in Frames :
        /\ frame'[f].fn = frame[f].fn /\ frame'[f].pc = frame[f].pc
        /\ frame'[f].waits = frame[f].waits /\ frame'[f].on = frame[f].on
        /\ frame'[f].result = IF f = t THEN <<"failed">> ELSE frame[f].result
        /\ frame'[f].failed = IF HasCaller /\ f = Caller THEN t ELSE frame[f].failed
  BY <1>1, LeaveFailingEffect
<1>3. Progress /\ stack' = Below
  BY LeaveFailingProgress DEF LeaveFailing
<1>4. ~Going(t)'
  BY <1>2 DEF Going
<1> QED
  BY <1>1, <1>2, <1>3, <1>4, LeftStack

LEMMA SuspendStack == AsyncInv /\ Suspend => StackSound'
<1> SUFFICES ASSUME AsyncInv, Suspend PROVE StackSound'
  OBVIOUS
<1>1. PICK t \in Frames : t = Top
  BY SuspendPromises
<1>2. \A f \in Frames :
        /\ frame'[f].fn = frame[f].fn
        /\ frame'[f].pc = IF f = t THEN frame[f].pc + 1 ELSE frame[f].pc
        /\ frame'[f].waits = IF f = t THEN frame[f].waits + 1 ELSE frame[f].waits
        /\ frame'[f].on = IF f = t THEN Value[2] ELSE frame[f].on
        /\ frame'[f].failed = frame[f].failed /\ frame'[f].result = frame[f].result
        /\ \A x \in Variables : frame'[f].variables[x] =
             IF HasCaller /\ f = Caller /\ x = LastOf(f).var
             THEN Promise(<<t, frame[t].waits + 1>>)
             ELSE frame[f].variables[x]
  BY <1>1, SuspendEffect
<1>3. Progress /\ stack' = Below
  BY SuspendProgress DEF Suspend
<1>4. stack # <<>> /\ frame[t].failed = None
  BY <1>1, AtFacts DEF Suspend
<1> QED
  BY <1>1, <1>2, <1>3, <1>4, LeftStack

LEMMA CallStack == AsyncInv /\ Call => StackSound'
<1> SUFFICES ASSUME AsyncInv, Call PROVE StackSound'
  OBVIOUS
<1>1. PICK n : n = Fresh
  OBVIOUS
<1>2. PICK t : t = Top
  OBVIOUS
<1>3. /\ n \in Frames /\ frame[n] = NoFrame /\ n # t /\ t \in Frames
      /\ Instruction.callee \in Functions
      /\ stack' = Append(stack, n)
      /\ \A f \in Frames : f # n /\ f # t => frame'[f] = frame[f]
      /\ frame'[n] = Enter(Instruction.callee)
      /\ frame'[t].fn = frame[t].fn /\ frame'[t].pc = frame[t].pc + 1
      /\ frame'[t].waits = frame[t].waits /\ frame'[t].on = frame[t].on
      /\ frame'[t].failed = frame[t].failed /\ frame'[t].result = frame[t].result
  BY <1>1, <1>2, CallEffect
<1>4. /\ frame'[n].fn # None /\ frame'[n].waits = 0 /\ frame'[n].on = None
      /\ frame'[n].failed = None /\ frame'[n].result = <<"going">>
  BY <1>3, EnterFacts, NoneApart
<1>5. Progress
  BY NextProgress DEF Next, Runs
<1>6. At("call") /\ stack # <<>> /\ frame[t].failed = None
  BY <1>2, AtFacts DEF Call
<1>7. HasDone(t, "call")'
  <2>1. /\ frame[t].pc \in Nat /\ frame[t].pc \in DOMAIN Body[frame[t].fn]
        /\ Body[frame[t].fn][frame[t].pc].op = "call"
    BY <1>2, <1>6, AtFacts DEF Instruction
  <2>2. frame'[t].pc - 1 = frame[t].pc
    BY <1>3, <2>1
  <2> QED
    BY <1>3, <2>1, <2>2 DEF HasDone, LastOf
<1>8. /\ stack \in Seq(Frames) /\ Len(stack) \in Nat /\ Len(stack) >= 1
      /\ DOMAIN stack = 1..Len(stack) /\ t = stack[Len(stack)]
      /\ \A i, j \in DOMAIN stack : stack[i] = stack[j] => i = j
      /\ \A i \in DOMAIN stack :
           /\ Going(stack[i]) /\ frame[stack[i]].on = None
           /\ i # 1 => frame[stack[i]].waits = 0
           /\ i # Len(stack) => HasDone(stack[i], "call") /\ frame[stack[i]].failed = None
  BY <1>2, <1>6, TopFacts DEF AsyncInv, StackSound, Top
<1>9. /\ stack' \in Seq(Frames) /\ Len(stack') = Len(stack) + 1
      /\ DOMAIN stack' = 1..(Len(stack) + 1)
      /\ stack'[Len(stack) + 1] = n
      /\ \A i \in 1..Len(stack) : stack'[i] = stack[i]
  BY <1>3, <1>8
<1>10. \A i \in DOMAIN stack' : i \in DOMAIN stack \/ i = Len(stack')
  BY <1>8, <1>9
<1>11. \A i \in DOMAIN stack : stack'[i] = stack[i] /\ stack[i] # n /\ i # Len(stack')
  <2>1. ~Going(n)
    BY <1>3, NoFrameFacts DEF Going
  <2>2. \A i \in DOMAIN stack : i # Len(stack) + 1
    BY <1>8
  <2> QED
    BY <1>8, <1>9, <2>1, <2>2
<1>12. \A i, j \in DOMAIN stack' : stack'[i] = stack'[j] => i = j
  BY <1>8, <1>9, <1>10, <1>11
<1>13. ASSUME NEW i \in DOMAIN stack', NEW f \in Frames, f = stack'[i]
       PROVE  /\ Going(f)' /\ frame'[f].on = None
              /\ i # 1 => frame'[f].waits = 0
              /\ i # Len(stack') => HasDone(f, "call")' /\ frame'[f].failed = None
  <2>1. CASE i = Len(stack')
    BY <1>4, <1>9, <1>13, <2>1 DEF Going
  <2>2. CASE i # Len(stack')
    <3>1. i \in DOMAIN stack /\ f = stack[i] /\ f # n
      BY <1>10, <1>11, <1>13, <2>2
    <3>2. CASE f = t
      BY <1>3, <1>6, <1>7, <1>8, <3>1, <3>2 DEF Going
    <3>3. CASE f # t
      <4>1. i # Len(stack) /\ frame'[f] = frame[f]
        BY <1>3, <1>8, <3>1, <3>3
      <4> QED
        BY <1>8, <3>1, <4>1 DEF Going, HasDone, LastOf
    <3> QED
      BY <3>2, <3>3
  <2> QED
    BY <2>1, <2>2
<1>14. ASSUME NEW f \in Frames, frame'[f].failed # None
       PROVE  /\ \E d \in Frames : d = frame'[f].failed /\ frame'[d].result = <<"failed">>
              /\ ~Going(f)'
  <2>1. f # n
    BY <1>4, <1>14
  <2>2. frame'[f].failed = frame[f].failed /\ (Going(f)' => Going(f))
    BY <1>3, <2>1 DEF Going
  <2> QED
    BY <1>2, <1>5, <1>6, <1>14, <2>2, FailuresStay
<1> QED
  BY <1>9, <1>12, <1>13, <1>14, StackNext

LEMMA NextStack == AsyncInv /\ Next => StackSound'
<1> SUFFICES ASSUME AsyncInv, Next PROVE StackSound'
  OBVIOUS
<1>0. Progress
  BY NextProgress
<1>1. CASE Start
  <2>1. PICK n : n = Fresh
    OBVIOUS
  <2>2. /\ n \in Frames /\ Head(script) \in Functions /\ stack' = <<n>> /\ stack = <<>>
        /\ \A f \in Frames : frame'[f] = IF f = n THEN Enter(Head(script)) ELSE frame[f]
    BY <1>1, <2>1, StartEffect DEF Start
  <2>3. /\ frame'[n].fn # None /\ frame'[n].waits = 0 /\ frame'[n].on = None
        /\ frame'[n].failed = None /\ frame'[n].result = <<"going">>
    BY <2>2, EnterFacts, NoneApart
  <2>4. stack' \in Seq(Frames) /\ DOMAIN stack' = {1} /\ Len(stack') = 1 /\ stack'[1] = n
    BY <2>2
  <2>5. \A f \in Frames : frame'[f].failed # None =>
          /\ frame'[f].failed = frame[f].failed /\ (Going(f)' => Going(f))
    BY <2>2, <2>3 DEF Going
  <2>6. \A f \in Frames : frame'[f].failed # None =>
          /\ \E d \in Frames : d = frame'[f].failed /\ frame'[d].result = <<"failed">>
          /\ ~Going(f)'
    BY <1>0, <2>2, <2>5, FailuresStay
  <2>7. \A i \in DOMAIN stack', f \in Frames : f = stack'[i] =>
          Going(f)' /\ frame'[f].on = None /\ i = 1 /\ i = Len(stack')
    BY <2>3, <2>4 DEF Going
  <2> QED
    BY <2>4, <2>6, <2>7, StackNext
<1>2. CASE Call
  BY <1>2, CallStack
<1>3. CASE Ask \/ Import \/ Await
  BY <1>0, <1>3, GoesStack DEF Ask, Import, Await
<1>4. CASE Suspend
  BY <1>4, SuspendStack
<1>5. CASE Return \/ RunOff
  BY <1>5, LeaveStack DEF Return, RunOff, At
<1>6. CASE Fail
  BY <1>6, LeaveFailingStack DEF Fail, At
<1>7. ASSUME NEW t \in Frames, Resume(t) PROVE StackSound'
  <2>1. /\ \A f \in Frames : f # t => frame'[f] = frame[f]
        /\ frame'[t].fn = frame[t].fn
        /\ frame'[t].waits = frame[t].waits /\ frame'[t].on = None
        /\ frame'[t].failed = frame[t].failed /\ frame'[t].result = frame[t].result
    BY <1>7, ResumeEffect
  <2>2. stack = <<>> /\ stack' = <<t>> /\ Going(t)
    BY <1>7 DEF Resume, AsyncInv, WaitsSound, WaitSound
  <2>3. stack' \in Seq(Frames) /\ DOMAIN stack' = {1} /\ Len(stack') = 1 /\ stack'[1] = t
    BY <2>2
  <2>4. \A f \in Frames : frame'[f].failed = frame[f].failed /\ (Going(f)' => Going(f))
    BY <2>1 DEF Going
  <2>5. \A f \in Frames : frame'[f].failed # None =>
          /\ \E d \in Frames : d = frame'[f].failed /\ frame'[d].result = <<"failed">>
          /\ ~Going(f)'
    BY <1>0, <2>2, <2>4, FailuresStay
  <2>6. \A i \in DOMAIN stack', f \in Frames : f = stack'[i] =>
          Going(f)' /\ frame'[f].on = None /\ i = 1 /\ i = Len(stack')
    BY <2>1, <2>2, <2>3 DEF Going
  <2> QED
    BY <2>3, <2>5, <2>6, StackNext
<1>8. ASSUME stack = <<>>, UNCHANGED stack,
             \A f \in Frames : frame'[f].failed = frame[f].failed /\ (Going(f)' => Going(f))
      PROVE  StackSound'
  <2>1. stack' \in Seq(Frames) /\ DOMAIN stack' = {}
    BY <1>8
  <2>2. \A f \in Frames : frame'[f].failed # None =>
          /\ \E d \in Frames : d = frame'[f].failed /\ frame'[d].result = <<"failed">>
          /\ ~Going(f)'
    BY <1>0, <1>8, FailuresStay
  <2> QED
    BY <2>1, <2>2, StackNext
<1>9. ASSUME NEW t \in Frames, Reject(t) PROVE StackSound'
  <2>1. /\ \A f \in Frames : f # t => frame'[f] = frame[f]
        /\ frame'[t].failed = frame[t].failed /\ frame'[t].result = <<"failed">>
    BY <1>9, RejectEffect
  <2>2. \A f \in Frames : frame'[f].failed = frame[f].failed /\ (Going(f)' => Going(f))
    BY <2>1 DEF Going
  <2> QED
    BY <1>8, <1>9, <2>2 DEF Reject
<1>10. ASSUME UNCHANGED <<frame, stack>>, stack = <<>> PROVE StackSound'
  BY <1>8, <1>10 DEF Going
<1> QED
  BY <1>1, <1>2, <1>3, <1>4, <1>5, <1>6, <1>7, <1>9, <1>10
     DEF Next, Runs, Adopt, HostSettles

-----------------------------------------------------------------------------
(* The frames that wait.                                                   *)

LEMMA WaitStays ==
    ASSUME AsyncInv, Progress, NEW f \in Frames, frame'[f] = frame[f],
           Going(f) /\ frame[f].on = None => \E i \in DOMAIN stack' : stack'[i] = f
    PROVE  WaitSound(f)'
<1>1. WaitSound(f)
  BY DEF AsyncInv, WaitsSound
<1>2. frame[f].on # None => promise'[frame[f].on].is # "none"
  BY <1>1 DEF WaitSound, Progress
<1> QED
  BY <1>1, <1>2 DEF WaitSound, Going, HasDone, LastOf

LEMMA WaitRuns ==
    ASSUME NEW f \in Frames, frame'[f].on = None,
           Going(f)' => \E i \in DOMAIN stack' : stack'[i] = f
    PROVE  WaitSound(f)'
BY DEF WaitSound

LEMMA OnStack ==
    ASSUME AsyncInv, NEW f \in Frames, Going(f), frame[f].on = None
    PROVE  \E i \in DOMAIN stack : stack[i] = f
BY DEF AsyncInv, WaitsSound, WaitSound

LEMMA OnBelow ==
    ASSUME AsyncInv, stack # <<>>, stack' = Below,
           NEW f \in Frames, Going(f), frame[f].on = None, f # Top
    PROVE  \E i \in DOMAIN stack' : stack'[i] = f
<1>1. PICK i \in DOMAIN stack : stack[i] = f
  BY OnStack
<1>2. /\ Len(stack) \in Nat /\ DOMAIN stack = 1..Len(stack)
      /\ DOMAIN stack' = 1..(Len(stack) - 1)
      /\ \A k \in DOMAIN stack' : stack'[k] = stack[k]
  BY BelowFacts, TopFacts
<1>3. i # Len(stack)
  BY <1>1 DEF Top
<1>4. i \in DOMAIN stack'
  BY <1>1, <1>2, <1>3
<1> QED
  BY <1>1, <1>2, <1>4

\* The frame on top is left, but does not wait.
LEMMA LeftWaits ==
    ASSUME AsyncInv, Progress, stack # <<>>, stack' = Below, NEW t, t = Top, ~Going(t)',
           \A f \in Frames :
             /\ frame'[f].on = frame[f].on
             /\ f # t /\ ~(HasCaller /\ f = Caller) => frame'[f] = frame[f],
           HasCaller => frame'[Caller].fn = frame[Caller].fn
                          /\ frame'[Caller].result = frame[Caller].result
    PROVE  WaitsSound'
<1> SUFFICES ASSUME NEW f \in Frames PROVE WaitSound(f)'
  BY DEF WaitsSound
<1>1. CASE f = t
  <2>1. frame'[f].on = None
    BY <1>1, TopFacts
  <2> QED
    BY <1>1, <2>1, WaitRuns
<1>2. CASE f # t /\ HasCaller /\ f = Caller
  <2>1. frame[f].on = None /\ Going(f)' => Going(f)
    BY <1>2 DEF Going
  <2>2. frame'[f].on = None
    BY <1>2, CallerFacts
  <2> QED
    BY <1>2, <2>1, <2>2, OnBelow, WaitRuns
<1>3. CASE f # t /\ ~(HasCaller /\ f = Caller)
  BY <1>3, OnBelow, WaitStays
<1> QED
  BY <1>1, <1>2, <1>3

LEMMA LeaveWaits ==
    ASSUME AsyncInv, stack # <<>>, NEW value, Leave(value)
    PROVE  WaitsSound'
<1>1. PICK t \in Frames : t = Top
  BY TopFacts
<1>2. \A f \in Frames :
        /\ frame'[f].fn = frame[f].fn /\ frame'[f].on = frame[f].on
        /\ f # t /\ ~(HasCaller /\ f = Caller) => frame'[f] = frame[f]
        /\ frame'[f].result = IF f = t THEN <<"returned", value>> ELSE frame[f].result
  BY <1>1, LeaveEffect
<1>3. Progress /\ stack' = Below
  BY LeaveProgress DEF Leave
<1>4. ~Going(t)'
  BY <1>2 DEF Going
<1>5. HasCaller => Caller \in Frames /\ Caller # t
  BY <1>1, CallerFacts
<1> QED
  BY <1>1, <1>2, <1>3, <1>4, <1>5, LeftWaits

LEMMA LeaveFailingWaits == AsyncInv /\ stack # <<>> /\ LeaveFailing => WaitsSound'
<1> SUFFICES ASSUME AsyncInv, stack # <<>>, LeaveFailing PROVE WaitsSound'
  OBVIOUS
<1>1. PICK t \in Frames : t = Top
  BY TopFacts
<1>2. \A f \in Frames :
        /\ frame'[f].fn = frame[f].fn /\ frame'[f].on = frame[f].on
        /\ f # t /\ ~(HasCaller /\ f = Caller) => frame'[f] = frame[f]
        /\ frame'[f].result = IF f = t THEN <<"failed">> ELSE frame[f].result
  BY <1>1, LeaveFailingEffect
<1>3. Progress /\ stack' = Below
  BY LeaveFailingProgress DEF LeaveFailing
<1>4. ~Going(t)'
  BY <1>2 DEF Going
<1>5. HasCaller => Caller \in Frames /\ Caller # t
  BY <1>1, CallerFacts
<1> QED
  BY <1>1, <1>2, <1>3, <1>4, <1>5, LeftWaits

\* The value that is awaited, if it is a promise.
LEMMA PromiseAwaited ==
    ASSUME NEW v, Sound(v), v[1] = "promise"
    PROVE  v[2] \in Promises /\ promise[v[2]].is # "none" /\ v = Promise(v[2])
BY DEF Sound, Datum, Marked, Resolved, Promise

LEMMA SuspendWaits == AsyncInv /\ Suspend => WaitsSound'
<1> SUFFICES ASSUME AsyncInv, Suspend PROVE WaitsSound'
  OBVIOUS
<1>1. PICK t \in Frames : t = Top
  BY SuspendPromises
<1>2. \A f \in Frames :
        /\ f # t /\ ~(HasCaller /\ f = Caller) => frame'[f] = frame[f]
        /\ frame'[f].fn = frame[f].fn
        /\ frame'[f].pc = IF f = t THEN frame[f].pc + 1 ELSE frame[f].pc
        /\ frame'[f].waits = IF f = t THEN frame[f].waits + 1 ELSE frame[f].waits
        /\ frame'[f].on = IF f = t THEN Value[2] ELSE frame[f].on
        /\ frame'[f].failed = frame[f].failed /\ frame'[f].result = frame[f].result
        /\ \A x \in Variables : frame'[f].variables[x] =
             IF HasCaller /\ f = Caller /\ x = LastOf(f).var
             THEN Promise(<<t, frame[t].waits + 1>>)
             ELSE frame[f].variables[x]
  BY <1>1, SuspendEffect
<1>3. Progress /\ stack' = Below /\ At("await") /\ Value[1] = "promise"
  BY SuspendProgress DEF Suspend
<1>4. /\ stack # <<>> /\ Sound(Value) /\ Instruction.var \in Variables
      /\ frame[t].pc \in Nat /\ frame[t].pc \in DOMAIN Body[frame[t].fn]
      /\ Body[frame[t].fn][frame[t].pc].op = "await"
      /\ Instruction = Body[frame[t].fn][frame[t].pc]
      /\ Value = frame[t].variables[Instruction.var]
  BY <1>1, <1>3, AtFacts DEF Instruction, Value
<1>5. HasCaller => Caller \in Frames /\ Caller # t /\ frame[Caller].on = None
  BY <1>1, <1>4, CallerFacts
<1> SUFFICES ASSUME NEW f \in Frames PROVE WaitSound(f)'
  BY DEF WaitsSound
<1>6. CASE f = t
  <2>1. PICK q \in Promises : Value = Promise(q) /\ promise[q].is # "none"
    BY <1>3, <1>4, PromiseAwaited
  <2>2. frame'[f].on = q /\ q # None /\ promise'[q].is # "none"
    BY <1>2, <1>3, <1>6, <2>1, NoneApart DEF Promise, Progress
  <2>3. Going(f)'
    BY <1>1, <1>2, <1>4, <1>6, TopFacts DEF Going
  <2>4. frame'[f].pc - 1 = frame[t].pc /\ frame'[f].fn = frame[t].fn
    <3>1. frame'[f].pc = frame[t].pc + 1 /\ frame'[f].fn = frame[t].fn
      BY <1>2, <1>6
    <3>2. \A n \in Nat : (n + 1) - 1 = n
      OBVIOUS
    <3>3. frame[t].pc \in Nat
      BY <1>4
    <3> QED
      BY <3>1, <3>2, <3>3
  <2>5. HasDone(f, "await")'
    BY <1>4, <2>4 DEF HasDone, LastOf
  <2>6. LastOf(f)' = Instruction
    BY <1>4, <2>4 DEF LastOf
  <2>7. frame'[f].variables[Instruction.var] = Promise(q)
    BY <1>2, <1>4, <1>5, <1>6, <2>1
  <2>8. frame'[f].waits # 0
    <3>1. frame[t].waits \in Nat
      BY <1>1, SuspendPromises
    <3> QED
      BY <1>2, <1>6, <3>1
  <2> QED
    BY <2>2, <2>3, <2>5, <2>6, <2>7, <2>8 DEF WaitSound
<1>7. CASE f # t /\ HasCaller /\ f = Caller
  <2>1. frame'[f].on = None /\ frame[f].on = None /\ (Going(f)' => Going(f))
    BY <1>2, <1>5, <1>7 DEF Going
  <2> QED
    BY <1>1, <1>3, <1>4, <1>7, <2>1, OnBelow, WaitRuns
<1>8. CASE f # t /\ ~(HasCaller /\ f = Caller)
  <2>1. frame'[f] = frame[f]
    BY <1>2, <1>8
  <2> QED
    BY <1>1, <1>3, <1>4, <1>8, <2>1, OnBelow, WaitStays
<1> QED
  BY <1>6, <1>7, <1>8

LEMMA NextWaits == AsyncInv /\ Next => WaitsSound'
<1> SUFFICES ASSUME AsyncInv, Next PROVE WaitsSound'
  OBVIOUS
<1>0. Progress
  BY NextProgress
<1>1. ASSUME \A f \in Frames : \/ frame'[f] = frame[f]
                               \/ frame'[f].on = None /\ \E i \in DOMAIN stack' : stack'[i] = f,
             \A i \in DOMAIN stack : i \in DOMAIN stack' /\ stack'[i] = stack[i]
      PROVE  WaitsSound'
  <2> SUFFICES ASSUME NEW f \in Frames PROVE WaitSound(f)'
    BY DEF WaitsSound
  <2>1. CASE frame'[f] = frame[f]
    BY <1>0, <1>1, <2>1, OnStack, WaitStays
  <2>2. CASE frame'[f].on = None /\ \E i \in DOMAIN stack' : stack'[i] = f
    BY <2>2, WaitRuns
  <2> QED
    BY <1>1, <2>1, <2>2
<1>2. CASE Start
  <2>1. PICK n : n = Fresh
    OBVIOUS
  <2>2. /\ n \in Frames /\ stack' = <<n>> /\ stack = <<>>
        /\ \A f \in Frames : frame'[f] = IF f = n THEN Enter(Head(script)) ELSE frame[f]
    BY <1>2, <2>1, StartEffect DEF Start
  <2>3. frame'[n].on = None /\ 1 \in DOMAIN stack' /\ stack'[1] = n
    BY <2>2, EnterFacts
  <2> QED
    BY <1>1, <2>2, <2>3
<1>3. CASE Call
  <2>1. PICK n : n = Fresh
    OBVIOUS
  <2>2. PICK t : t = Top
    OBVIOUS
  <2>3. /\ n \in Frames /\ t \in Frames /\ stack' = Append(stack, n)
        /\ \A f \in Frames : f # n /\ f # t => frame'[f] = frame[f]
        /\ frame'[n] = Enter(Instruction.callee) /\ frame'[t].on = frame[t].on
    BY <1>3, <2>1, <2>2, CallEffect
  <2>4. /\ stack \in Seq(Frames) /\ Len(stack) \in Nat /\ Len(stack) >= 1
        /\ DOMAIN stack = 1..Len(stack) /\ t = stack[Len(stack)] /\ frame[t].on = None
    BY <1>3, <2>2, AtFacts, TopFacts DEF Call, AsyncInv, StackSound
  <2>5. /\ DOMAIN stack' = 1..(Len(stack) + 1)
        /\ stack'[Len(stack) + 1] = n
        /\ \A i \in 1..Len(stack) : stack'[i] = stack[i]
    BY <2>3, <2>4
  <2>6. /\ Len(stack) \in 1..(Len(stack) + 1) /\ Len(stack) + 1 \in 1..(Len(stack) + 1)
        /\ Len(stack) \in 1..Len(stack)
        /\ \A i \in 1..Len(stack) : i \in 1..(Len(stack) + 1)
    BY <2>4
  <2>7. /\ frame'[n].on = None /\ frame'[t].on = None
        /\ \E i \in DOMAIN stack' : stack'[i] = n
        /\ \E i \in DOMAIN stack' : stack'[i] = t
        /\ \A i \in DOMAIN stack : i \in DOMAIN stack' /\ stack'[i] = stack[i]
    BY <2>3, <2>4, <2>5, <2>6, EnterFacts
  <2> QED
    BY <1>1, <2>3, <2>7
<1>4. ASSUME NEW value, NEW op, At(op), Goes(value) PROVE WaitsSound'
  <2>1. PICK t \in Frames : t = Top
    BY <1>4, AtFacts, TopFacts
  <2>2. /\ \A f \in Frames : f # t => frame'[f] = frame[f]
        /\ frame'[t].on = frame[t].on
    BY <1>4, <2>1, GoesEffect
  <2>3. stack # <<>> /\ stack' = stack
    BY <1>4, AtFacts DEF Goes
  <2>4. /\ Len(stack) \in Nat /\ Len(stack) >= 1 /\ DOMAIN stack = 1..Len(stack)
        /\ t = stack[Len(stack)] /\ frame[t].on = None
    BY <2>1, <2>3, TopFacts
  <2>5. Len(stack) \in 1..Len(stack)
    BY <2>4
  <2> QED
    BY <1>1, <2>2, <2>3, <2>4, <2>5
<1>5. CASE Ask \/ Import \/ Await
  BY <1>4, <1>5 DEF Ask, Import, Await
<1>6. CASE Suspend
  BY <1>6, SuspendWaits
<1>7. CASE Return \/ RunOff
  BY <1>7, LeaveWaits DEF Return, RunOff, At
<1>8. CASE Fail
  BY <1>8, LeaveFailingWaits DEF Fail, At
<1>9. ASSUME NEW t \in Frames, Resume(t) PROVE WaitsSound'
  <2>1. /\ \A f \in Frames : f # t => frame'[f] = frame[f]
        /\ frame'[t].on = None
    BY <1>9, ResumeEffect
  <2>2. stack = <<>> /\ stack' = <<t>>
    BY <1>9 DEF Resume
  <2>3. 1 \in DOMAIN stack' /\ stack'[1] = t
    BY <2>2
  <2> QED
    BY <1>1, <2>1, <2>2, <2>3
<1>10. ASSUME NEW t \in Frames, Reject(t) PROVE WaitsSound'
  <2>1. /\ \A f \in Frames : f # t => frame'[f] = frame[f]
        /\ frame'[t].on = None /\ frame'[t].result = <<"failed">>
    BY <1>10, RejectEffect
  <2>2. stack = <<>> /\ stack' = stack
    BY <1>10 DEF Reject
  <2> SUFFICES ASSUME NEW f \in Frames PROVE WaitSound(f)'
    BY DEF WaitsSound
  <2>3. CASE f = t
    BY <2>1, <2>3, WaitRuns DEF Going
  <2>4. CASE f # t
    BY <1>0, <2>1, <2>2, <2>4, OnStack, WaitStays
  <2> QED
    BY <2>3, <2>4
<1>11. ASSUME UNCHANGED <<frame, stack>> PROVE WaitsSound'
  BY <1>1, <1>11
<1> QED
  BY <1>2, <1>3, <1>5, <1>6, <1>7, <1>8, <1>9, <1>10, <1>11
     DEF Next, Runs, Adopt, HostSettles

-----------------------------------------------------------------------------
(* The promises of the waits.                                              *)

LEMMA ReturnedSound ==
    ASSUME DataSound, NEW e \in Frames, NEW v, frame[e].result = <<"returned", v>>
    PROVE  Sound(v) /\ SeenResults[e] = SeenCalls!Returned(Seen(v))
<1>1. \/ frame[e].result \in {<<"going">>, <<"failed">>}
      \/ /\ frame[e].result = <<"returned", frame[e].result[2]>>
         /\ Sound(frame[e].result[2])
  BY DEF DataSound, FrameSound
<1>2. frame[e].result[2] = v /\ frame[e].result \notin {<<"going">>, <<"failed">>}
  OBVIOUS
<1> QED
  BY <1>1, <1>2, ResultsAreSeen, ResultFacts

LEMMA LinksNext ==
    ASSUME \A f \in Frames, n \in Waits : LinkSound(f, n)' /\ Keeps(<<f, n>>)'
    PROVE  ChainSound' /\ AllKept'
<1>1. ASSUME NEW q \in Outer PROVE Keeps(q)'
  <2>1. PICK f \in Frames, n \in Waits : q = <<f, n>>
    BY DEF Outer
  <2>2. Keeps(<<f, n>>)' /\ <<f, n>>[1] = f /\ q[1] = f
    BY <2>1
  <2> QED
    BY <2>1, <2>2 DEF Keeps
<1> QED
  BY <1>1 DEF ChainSound, AllKept

\* A call has the outcome of what one that answers it returned.
LEMMA ReturnedOutcome ==
    ASSUME AsyncInv, NEW f \in Frames, NEW e \in SeenCalls!AnsweredBy(f), NEW v,
           frame[e].result = <<"returned", v>>
    PROVE  OutcomeIn(SeenResults, SeenHosts, <<"call", f>>)
             = OutcomeIn(SeenResults, SeenHosts, Seen(v))
<1>1. e \in AnsweredIn(SeenResults, f) /\ e \in Frames
  BY OutcomesSeen, AnsweredClosed
<1>2. SeenResults[e] = SeenCalls!Returned(Seen(v)) /\ SeenValue(Seen(v))
  BY <1>1, ReturnedSound, SoundSeen DEF AsyncInv
<1>3. OutcomeIn(SeenResults, SeenHosts, <<"call", f>>)
        = OutcomeIn(SeenResults, SeenHosts, <<"call", e>>)
  BY <1>1, OutcomeAlong
<1>4. OutcomeIn(SeenResults, SeenHosts, <<"call", e>>)
        = OutcomeIn(SeenResults, SeenHosts, Seen(v))
  BY <1>1, <1>2, OutcomeOfReturned
<1> QED
  BY <1>3, <1>4

\* Whoever has a promise that is settled has the outcome it stands for.
LEMMA PromiseOutcome ==
    ASSUME AsyncInv, NEW p \in Promises
    PROVE  /\ promise[p].is = "fulfilled" =>
                OutcomeIn(SeenResults, SeenHosts, Seen(Promise(p))) = promise[p].value
           /\ promise[p].is = "rejected" =>
                OutcomeIn(SeenResults, SeenHosts, Seen(Promise(p))) = SeenCalls!Rejected
<1>1. CASE p \in HostPromises
  <2>1. Seen(Promise(p)) = <<"host", p>>
    BY <1>1 DEF Seen, Promise
  <2>2. promise[p] \in {Unmade, Unsettled, Rejected, ResolvedWith(Datum(p))}
    BY <1>1 DEF AsyncInv, DataSound
  <2>3. SeenHosts[p] = promise[p].is
    BY <1>1 DEF SeenHosts
  <2>4. OutcomeIn(SeenResults, SeenHosts, <<"host", p>>) =
          IF SeenHosts[p] = "fulfilled" THEN Datum(p)
          ELSE IF SeenHosts[p] = "rejected" THEN SeenCalls!Rejected ELSE SeenCalls!Pending
    BY DEF OutcomeIn, OwnIn
  <2>5. promise[p].is = "fulfilled" => promise[p].value = Datum(p)
    BY <2>2, ResolvedFacts DEF Unmade, Unsettled, Rejected
  <2> QED
    BY <2>1, <2>3, <2>4, <2>5
<1>2. CASE p \notin HostPromises
  <2>1. p \in Outer /\ Seen(Promise(p)) = <<"call", p[1]>>
    BY <1>2 DEF Seen, Promise, Promises
  <2>2. Keeps(p)
    BY <2>1 DEF AsyncInv, AllKept
  <2> QED
    BY <2>1, <2>2, OutcomesSeen DEF Keeps
<1> QED
  BY <1>1, <1>2

\* What a promise becomes that follows a value that a call returned.
LEMMA LastLink ==
    ASSUME AsyncInv, NEW f \in Frames, NEW n \in Waits, promise[<<f, n>>].is = "locked"
    PROVE  /\ ~(n = frame[f].waits /\ Going(f)) /\ ~(n > frame[f].waits)
           /\ \/ /\ n < frame[f].waits /\ n + 1 \in Waits
                 /\ promise[<<f, n>>].value = Promise(<<f, n + 1>>)
              \/ /\ n = frame[f].waits
                 /\ \E e \in SeenCalls!AnsweredBy(f) :
                      e \in Frames /\ frame[e].result = <<"returned", promise[<<f, n>>].value>>
<1>1. LinkSound(f, n)
  BY DEF AsyncInv, ChainSound
<1>2. \A e \in SeenCalls!AnsweredBy(f) : e \in Frames
  BY OutcomesSeen, AnsweredClosed
<1>3. ASSUME n < frame[f].waits PROVE n + 1 \in Waits
  <2>1. n \in Nat /\ 1 <= n /\ frame[f].waits \in 0..MaxWaits
    BY FrameFacts, OuterFacts DEF AsyncInv
  <2> QED
    BY <1>3, <2>1, AsyncAssumption DEF Waits
<1> QED
  BY <1>1, <1>2, <1>3 DEF LinkSound, Unsettled

LEMMA AdoptLink ==
    ASSUME AsyncInv, NEW f \in Frames, NEW n \in Waits, Adopt(<<f, n>>)
    PROVE  LinkSound(f, n)' /\ Keeps(<<f, n>>)'
<1> DEFINE q == <<f, n>>
<1>1. q \in Outer /\ q \in Promises /\ q \notin HostPromises /\ promise[q].is = "locked"
  BY OuterFacts, AdoptPromises
<1>2. Progress /\ UNCHANGED frame
  BY NextProgress DEF Next, Adopt, Outer
<1>3. SeenResults' = SeenResults
  BY <1>2 DEF SeenResults
<1>4. SeenHosts' = SeenHosts
  <2>1. \A p \in HostPromises : promise'[p] = promise[p]
    BY <1>1, AdoptPromises DEF Promises
  <2> QED
    BY <2>1 DEF SeenHosts
<1>5. /\ \A v : SeenCalls!Outcome(v)' = OutcomeIn(SeenResults, SeenHosts, v)
      /\ \A c : SeenCalls!AnsweredBy(c)' = AnsweredIn(SeenResults, c)
  BY <1>3, <1>4, OutcomesSeenNext
<1>6. /\ ~(n = frame[f].waits /\ Going(f)) /\ ~(n > frame[f].waits)
      /\ \/ /\ n < frame[f].waits /\ n + 1 \in Waits
            /\ promise[q].value = Promise(<<f, n + 1>>)
         \/ /\ n = frame[f].waits
            /\ \E e \in SeenCalls!AnsweredBy(f) :
                 e \in Frames /\ frame[e].result = <<"returned", promise[q].value>>
  BY <1>1, LastLink
<1>7. Going(f)' => Going(f)
  BY <1>2 DEF Going
<1>8. ASSUME promise'[q].is \in {"fulfilled", "rejected"} PROVE LinkSound(f, n)'
  BY <1>2, <1>6, <1>7, <1>8 DEF LinkSound
<1>9. ASSUME NEW v, v = OutcomeIn(SeenResults, SeenHosts, <<"call", f>>),
             promise'[q].is = "fulfilled" => promise'[q].value = v,
             promise'[q].is = "rejected" => SeenCalls!Rejected = v
      PROVE  Keeps(q)'
  <2>1. q[1] = f
    OBVIOUS
  <2>2. SeenCalls!Outcome(<<"call", f>>)' = v
    BY <1>5, <1>9
  <2> QED
    BY <1>9, <2>1, <2>2 DEF Keeps, SeenCalls!Rejected
<1>10. CASE promise'[q] = ResolvedWith(Datum(Module)) /\ promise[q].value = Marked(Datum(Module))
  <2>1. PICK e \in SeenCalls!AnsweredBy(f) : frame[e].result = <<"returned", promise[q].value>>
    BY <1>6, <1>10 DEF Marked, Promise
  <2>2. OutcomeIn(SeenResults, SeenHosts, <<"call", f>>)
          = OutcomeIn(SeenResults, SeenHosts, Seen(Marked(Datum(Module))))
    BY <1>10, <2>1, ReturnedOutcome
  <2>3. OutcomeIn(SeenResults, SeenHosts, Seen(Marked(Datum(Module)))) = Datum(Module)
    BY DEF OutcomeIn, OwnIn, Seen, Marked
  <2>4. promise'[q].is = "fulfilled" /\ promise'[q].value = Datum(Module)
    BY <1>10, ResolvedFacts DEF Datum
  <2> QED
    BY <1>8, <1>9, <2>2, <2>3, <2>4
<1>11. ASSUME NEW g \in Frames, frame[g].result[1] = "returned",
              promise[q].value = Resolved(frame[g].result[2], g),
              promise'[q] = ResolvedWith(frame[g].result[2])
       PROVE  LinkSound(f, n)' /\ Keeps(q)'
  <2>1. PICK v : v = frame[g].result[2]
    OBVIOUS
  <2>2. frame[g].result = <<"returned", v>>
    BY <1>11, <2>1 DEF AsyncInv, DataSound, FrameSound
  <2>3. PICK e \in SeenCalls!AnsweredBy(f) : e \in Frames /\ n = frame[f].waits
          /\ frame[e].result = <<"returned", promise[q].value>>
    BY <1>6, <1>11 DEF Resolved, Promise
  <2>4. Seen(promise[q].value) = <<"call", g>>
    BY <1>11 DEF Seen, Resolved
  <2>5. g \in AnsweredIn(SeenResults, f)
    <3>1. SeenResults[e] = SeenCalls!Returned(<<"call", g>>)
      BY <2>3, <2>4, ReturnedSound DEF AsyncInv
    <3>2. g \in ReturnedIn(SeenResults, e)
      BY <3>1 DEF ReturnedIn, SeenCalls!PromiseOf
    <3> QED
      BY <2>3, <3>2, AnsweredClosed, OutcomesSeen DEF ClosedIn
  <2>6. OutcomeIn(SeenResults, SeenHosts, <<"call", f>>)
          = OutcomeIn(SeenResults, SeenHosts, Seen(v))
    BY <2>2, <2>5, OutcomesSeen, ReturnedOutcome
  <2>7. promise'[q].value = v /\ promise'[q].is \in {"locked", "fulfilled"}
        /\ (promise'[q].is = "fulfilled" => v[1] = "datum")
    BY <1>11, <2>1, ResolvedFacts
  <2>8. v[1] = "datum" => OutcomeIn(SeenResults, SeenHosts, Seen(v)) = v
    BY DEF OutcomeIn, OwnIn, Seen
  <2>9. Keeps(q)'
    BY <1>9, <2>6, <2>7, <2>8
  <2>10. LinkSound(f, n)'
    <3>1. g \in SeenCalls!AnsweredBy(f)' /\ frame'[g].result = <<"returned", promise'[q].value>>
      BY <1>2, <1>5, <2>2, <2>5, <2>7
    <3>2. frame'[f].waits = n /\ ~(n > n) /\ promise'[q].is # "none" /\ ~Going(f)'
      BY <1>2, <1>6, <1>7, <2>3, <2>7
    <3> QED
      BY <3>1, <3>2 DEF LinkSound
  <2> QED
    BY <2>9, <2>10
<1>12. ASSUME NEW p \in Promises, promise[q].value = Promise(p),
              promise[p].is \in {"fulfilled", "rejected"}, promise'[q] = promise[p]
       PROVE  LinkSound(f, n)' /\ Keeps(q)'
  <2>1. OutcomeIn(SeenResults, SeenHosts, <<"call", f>>)
          = OutcomeIn(SeenResults, SeenHosts, Seen(Promise(p)))
    <3>1. CASE promise[q].value = Promise(<<f, n + 1>>) /\ n + 1 \in Waits
      <4>1. p = <<f, n + 1>>
        BY <1>12, <3>1 DEF Promise
      <4>2. p \notin HostPromises
        BY <3>1, <4>1, OuterFacts
      <4> QED
        BY <4>1, <4>2 DEF Seen, Promise
    <3>2. CASE \E e \in SeenCalls!AnsweredBy(f) :
                 frame[e].result = <<"returned", promise[q].value>>
      BY <1>12, <3>2, ReturnedOutcome
    <3> QED
      BY <1>6, <3>1, <3>2
  <2> QED
    BY <1>8, <1>9, <1>12, <2>1, PromiseOutcome
<1> QED
  BY <1>1, <1>10, <1>11, <1>12, AdoptPromises

LEMMA LeaveLinks ==
    ASSUME AsyncInv, stack # <<>>, NEW value, Sound(value), Leave(value)
    PROVE  ChainSound' /\ AllKept'
<1>1. PICK t \in Frames : t = Top
  BY TopFacts
<1>2. Progress
  BY LeaveProgress
<1>3. \A f \in Frames :
        /\ frame'[f].fn = frame[f].fn /\ frame'[f].waits = frame[f].waits
        /\ frame'[f].result = IF f = t THEN <<"returned", value>> ELSE frame[f].result
  BY <1>1, LeaveEffect
<1>4. /\ \A q \in Promises : promise'[q] =
           IF frame[t].waits # 0 /\ q = <<t, frame[t].waits>>
           THEN ResolvedWith(value) ELSE promise[q]
      /\ frame[t].waits # 0 => frame[t].waits \in Waits
  BY <1>1, SettleEffect DEF Leave
<1>5. \A f \in Frames : Going(f)' => Going(f)
  BY <1>3 DEF Going
<1>6. ASSUME NEW f \in Frames, NEW n \in Waits
      PROVE  LinkSound(f, n)' /\ Keeps(<<f, n>>)'
  <2>1. CASE promise'[<<f, n>>] = promise[<<f, n>>]
    BY <1>2, <1>3, <1>5, <2>1, KeepsOn, LinkOn, OuterFacts
  <2>2. CASE f = t /\ n = frame[t].waits /\ promise'[<<f, n>>] = ResolvedWith(value)
    <3>1. /\ promise'[<<f, n>>].value = value
          /\ promise'[<<f, n>>].is \in {"locked", "fulfilled"}
          /\ promise'[<<f, n>>].is = "fulfilled" => value[1] = "datum"
      BY <2>2, ResolvedFacts
    <3>2. /\ frame'[f].result = <<"returned", value>> /\ frame'[f].waits = n
          /\ ~Going(f)' /\ ~(n > n)
      BY <1>3, <2>2, OuterFacts DEF Going
    <3>3. f \in SeenCalls!AnsweredBy(f)'
      BY AnsweredSelf, OutcomesSeenNext
    <3>4. LinkSound(f, n)'
      BY <3>1, <3>2, <3>3 DEF LinkSound
    <3>5. SeenCalls!Outcome(<<"call", f>>)' = OutcomeIn(SeenResults', SeenHosts', Seen(value))
      <4>1. SeenResults'[f] = SeenCalls!Returned(Seen(value))
        BY <3>2, ResultFacts DEF SeenResults
      <4>2. SeenValue(Seen(value))
        BY SoundSeen
      <4> QED
        BY <4>1, <4>2, OutcomesSeenNext, OutcomeOfReturned
    <3>6. value[1] = "datum" => OutcomeIn(SeenResults', SeenHosts', Seen(value)) = value
      BY DEF OutcomeIn, OwnIn, Seen
    <3>7. Keeps(<<f, n>>)'
      BY <3>1, <3>5, <3>6 DEF Keeps
    <3> QED
      BY <3>4, <3>7
  <2> QED
    BY <1>4, <2>1, <2>2, OuterFacts
<1> QED
  BY <1>6, LinksNext

\* A frame fails: its last promise is rejected.
LEMMA FailedLink ==
    ASSUME NEW f \in Frames, NEW n \in Waits, frame'[f].waits = n,
           frame'[f].result = <<"failed">>, promise'[<<f, n>>] = Rejected
    PROVE  LinkSound(f, n)' /\ Keeps(<<f, n>>)'
<1>1. promise'[<<f, n>>].is = "rejected" /\ ~Going(f)' /\ ~(n > n)
  BY OuterFacts DEF Rejected, Going
<1>2. LinkSound(f, n)'
  BY <1>1 DEF LinkSound
<1>3. SeenCalls!Outcome(<<"call", f>>)' = SeenCalls!Rejected
  <2>1. SeenResults'[f] = SeenCalls!Failed
    BY ResultFacts DEF SeenResults
  <2> QED
    BY <2>1, OutcomesSeenNext, OutcomeOfFailed
<1> QED
  BY <1>1, <1>2, <1>3 DEF Keeps, SeenCalls!Rejected

LEMMA LeaveFailingLinks == AsyncInv /\ stack # <<>> /\ LeaveFailing => ChainSound' /\ AllKept'
<1> SUFFICES ASSUME AsyncInv, stack # <<>>, LeaveFailing PROVE ChainSound' /\ AllKept'
  OBVIOUS
<1>1. PICK t \in Frames : t = Top
  BY TopFacts
<1>2. Progress
  BY LeaveFailingProgress
<1>3. \A f \in Frames :
        /\ frame'[f].fn = frame[f].fn /\ frame'[f].waits = frame[f].waits
        /\ frame'[f].result = IF f = t THEN <<"failed">> ELSE frame[f].result
  BY <1>1, LeaveFailingEffect
<1>4. /\ \A q \in Promises : promise'[q] =
           IF frame[t].waits # 0 /\ q = <<t, frame[t].waits>> THEN Rejected ELSE promise[q]
      /\ frame[t].waits # 0 => frame[t].waits \in Waits
  BY <1>1, SettleEffect DEF LeaveFailing
<1>5. \A f \in Frames : Going(f)' => Going(f)
  BY <1>3 DEF Going
<1>6. ASSUME NEW f \in Frames, NEW n \in Waits
      PROVE  LinkSound(f, n)' /\ Keeps(<<f, n>>)'
  <2>1. CASE promise'[<<f, n>>] = promise[<<f, n>>]
    BY <1>2, <1>3, <1>5, <2>1, KeepsOn, LinkOn, OuterFacts
  <2>2. CASE f = t /\ n = frame[t].waits /\ promise'[<<f, n>>] = Rejected
    BY <1>3, <2>2, FailedLink
  <2> QED
    BY <1>4, <2>1, <2>2, OuterFacts
<1> QED
  BY <1>6, LinksNext

LEMMA SuspendLinks == AsyncInv /\ Suspend => ChainSound' /\ AllKept'
<1> SUFFICES ASSUME AsyncInv, Suspend PROVE ChainSound' /\ AllKept'
  OBVIOUS
<1>1. PICK t \in Frames : t = Top
  BY SuspendPromises
<1>2. Progress
  BY SuspendProgress
<1>3. \A f \in Frames :
        /\ frame'[f].fn = frame[f].fn /\ frame'[f].result = frame[f].result
        /\ frame'[f].waits = IF f = t THEN frame[f].waits + 1 ELSE frame[f].waits
  <2>1. \A f \in Frames :
        /\ frame'[f].fn = frame[f].fn
        /\ frame'[f].pc = IF f = t THEN frame[f].pc + 1 ELSE frame[f].pc
        /\ frame'[f].waits = IF f = t THEN frame[f].waits + 1 ELSE frame[f].waits
        /\ frame'[f].on = IF f = t THEN Value[2] ELSE frame[f].on
        /\ frame'[f].failed = frame[f].failed /\ frame'[f].result = frame[f].result
        /\ \A x \in Variables : frame'[f].variables[x] =
             IF HasCaller /\ f = Caller /\ x = LastOf(f).var
             THEN Promise(<<t, frame[t].waits + 1>>)
             ELSE frame[f].variables[x]
    BY <1>1, SuspendEffect
  <2> QED
    BY <2>1
<1>4. PICK w \in Nat : w = frame[t].waits /\ w + 1 \in Waits
  BY <1>1, SuspendPromises
<1>5. /\ promise[<<t, w + 1>>] = Unmade
      /\ \A q \in Promises : promise'[q] =
           IF q = <<t, w + 1>> THEN Unsettled
           ELSE IF w # 0 /\ q = <<t, w>> THEN ResolvedWith(Promise(<<t, w + 1>>))
           ELSE promise[q]
  BY <1>1, <1>4, SuspendPromises
<1>6. \A f \in Frames : Going(f)' => Going(f)
  BY <1>3 DEF Going
<1>7. ASSUME NEW f \in Frames, NEW n \in Waits
      PROVE  LinkSound(f, n)' /\ Keeps(<<f, n>>)'
  <2>0. <<f, n>> \in Outer /\ <<f, n>> \in Promises /\ n \in Nat /\ 1 <= n
    BY OuterFacts
  <2>1. CASE f # t
    <3>1. promise'[<<f, n>>] = promise[<<f, n>>]
      BY <1>5, <2>0, <2>1
    <3> QED
      BY <1>2, <1>3, <1>6, <2>0, <2>1, <3>1, KeepsOn, LinkOn
  <2>2. CASE f = t /\ n = w + 1
    <3>1. promise'[<<f, n>>] = Unsettled /\ frame'[f].waits = n /\ ~(n > n)
      BY <1>3, <1>4, <1>5, <2>0, <2>2
    <3> QED
      BY <3>1 DEF LinkSound, Keeps, Unsettled
  <2>3. CASE f = t /\ n = w
    <3>1. promise'[<<f, n>>] = ResolvedWith(Promise(<<f, n + 1>>))
      BY <1>4, <1>5, <2>0, <2>3
    <3>2. promise'[<<f, n>>].is = "locked" /\ promise'[<<f, n>>].value = Promise(<<f, n + 1>>)
      BY <3>1 DEF ResolvedWith, Promise
    <3>3. frame'[f].waits = n + 1 /\ ~(n > n + 1) /\ n # n + 1 /\ n < n + 1
      BY <1>3, <1>4, <2>0, <2>3
    <3> QED
      BY <3>2, <3>3 DEF LinkSound, Keeps
  <2>4. CASE f = t /\ n # w /\ n # w + 1
    <3>1. promise'[<<f, n>>] = promise[<<f, n>>]
      BY <1>5, <2>0, <2>4
    <3>2. Keeps(<<f, n>>)'
      BY <1>2, <2>0, <3>1, KeepsOn
    <3>3. LinkSound(f, n)
      BY DEF AsyncInv, ChainSound
    <3>4. /\ n > w + 1 <=> n > w
          /\ n < w => n < w + 1
      BY <2>0, <2>4
    <3>5. /\ promise'[<<f, n>>].is = "none" <=> n > w + 1
          /\ promise'[<<f, n>>].is = "locked" =>
               n < w + 1 /\ promise'[<<f, n>>].value = Promise(<<f, n + 1>>)
      BY <1>4, <2>4, <3>1, <3>3, <3>4 DEF LinkSound
    <3>6. LinkSound(f, n)'
      BY <1>3, <1>4, <2>4, <3>5 DEF LinkSound
    <3> QED
      BY <3>2, <3>6
  <2> QED
    BY <2>1, <2>2, <2>3, <2>4
<1> QED
  BY <1>7, LinksNext

LEMMA NextLinks == AsyncInv /\ Next => ChainSound' /\ AllKept'
<1> SUFFICES ASSUME AsyncInv, Next PROVE ChainSound' /\ AllKept'
  OBVIOUS
<1>0. Progress
  BY NextProgress
<1>1. ASSUME \A q \in Outer : promise'[q] = promise[q],
             \A f \in Frames : frame'[f].waits = frame[f].waits,
             \A f \in Frames : Going(f)' => Going(f) \/ frame[f].waits = 0
      PROVE  ChainSound' /\ AllKept'
  <2>1. ASSUME NEW f \in Frames, NEW n \in Waits
        PROVE  LinkSound(f, n)' /\ Keeps(<<f, n>>)'
    <3>1. <<f, n>> \in Outer /\ n # 0 /\ promise'[<<f, n>>] = promise[<<f, n>>]
      BY <1>1, OuterFacts
    <3> QED
      BY <1>0, <1>1, <3>1, KeepsOn, LinkOn
  <2> QED
    BY <2>1, LinksNext
<1>2. CASE Start
  <2>1. PICK n : n = Fresh
    OBVIOUS
  <2>2. /\ n \in Frames /\ frame[n] = NoFrame
        /\ \A f \in Frames : frame'[f] = IF f = n THEN Enter(Head(script)) ELSE frame[f]
    BY <1>2, <2>1, StartEffect
  <2>3. frame[n].waits = 0 /\ frame'[n].waits = 0 /\ UNCHANGED promise
    BY <1>2, <2>2, EnterFacts, NoFrameFacts DEF Start
  <2> QED
    BY <1>1, <2>2, <2>3 DEF Going
<1>3. CASE Call
  <2>1. PICK n : n = Fresh
    OBVIOUS
  <2>2. PICK t : t = Top
    OBVIOUS
  <2>3. /\ n \in Frames /\ frame[n] = NoFrame
        /\ \A f \in Frames : f # n /\ f # t => frame'[f] = frame[f]
        /\ frame'[n] = Enter(Instruction.callee)
        /\ frame'[t].fn = frame[t].fn /\ frame'[t].waits = frame[t].waits
        /\ frame'[t].result = frame[t].result
    BY <1>3, <2>1, <2>2, CallEffect
  <2>4. frame[n].waits = 0 /\ frame'[n].waits = 0 /\ UNCHANGED promise
    BY <1>3, <2>3, EnterFacts, NoFrameFacts DEF Call
  <2> QED
    BY <1>1, <2>3, <2>4 DEF Going
<1>4. ASSUME NEW value, NEW op, At(op), Goes(value), \A q \in Outer : promise'[q] = promise[q]
      PROVE  ChainSound' /\ AllKept'
  <2>1. PICK t \in Frames : t = Top
    BY <1>4, AtFacts, TopFacts
  <2>2. /\ \A f \in Frames : f # t => frame'[f] = frame[f]
        /\ frame'[t].fn = frame[t].fn /\ frame'[t].waits = frame[t].waits
        /\ frame'[t].result = frame[t].result
    BY <1>4, <2>1, GoesEffect
  <2> QED
    BY <1>1, <1>4, <2>2 DEF Going
<1>5. CASE Ask
  <2>1. PICK p : p = FreshPromise
    OBVIOUS
  <2>2. /\ p \in HostPromises
        /\ \A q \in Promises : promise'[q] = IF q = p THEN Unsettled ELSE promise[q]
    BY <1>5, <2>1, AskPromises
  <2>3. \A q \in Outer : promise'[q] = promise[q]
    BY <2>2, AsyncAssumption DEF Promises
  <2> QED
    BY <1>4, <1>5, <2>3 DEF Ask
<1>6. CASE Import \/ Await
  BY <1>4, <1>6 DEF Import, Await
<1>7. CASE Suspend
  BY <1>7, SuspendLinks
<1>8. CASE Return
  <2>1. PICK v : v = Value
    OBVIOUS
  <2>2. stack # <<>> /\ Sound(v) /\ Leave(v)
    BY <1>8, <2>1, AtFacts DEF Return
  <2> QED
    BY <2>2, LeaveLinks
<1>9. CASE RunOff
  <2>1. Sound(Datum(Undefined))
    BY DEF Sound
  <2> QED
    BY <1>9, <2>1, LeaveLinks DEF RunOff
<1>10. CASE Fail
  BY <1>10, LeaveFailingLinks DEF Fail, At
<1>11. ASSUME NEW t \in Frames, Resume(t) PROVE ChainSound' /\ AllKept'
  <2>1. /\ \A f \in Frames : f # t => frame'[f] = frame[f]
        /\ frame'[t].fn = frame[t].fn /\ frame'[t].waits = frame[t].waits
        /\ frame'[t].result = frame[t].result
    BY <1>11, ResumeEffect
  <2> QED
    BY <1>1, <1>11, <2>1 DEF Going, Resume
<1>12. ASSUME NEW t \in Frames, Reject(t) PROVE ChainSound' /\ AllKept'
  <2>1. /\ \A f \in Frames : f # t => frame'[f] = frame[f]
        /\ frame'[t].waits = frame[t].waits /\ frame'[t].result = <<"failed">>
    BY <1>12, RejectEffect
  <2>2. /\ frame[t].waits \in Waits
        /\ \A q \in Promises : promise'[q] =
             IF q = <<t, frame[t].waits>> THEN Rejected ELSE promise[q]
    BY <1>12, RejectPromises
  <2>3. \A f \in Frames : frame'[f].waits = frame[f].waits /\ (Going(f)' => Going(f))
    BY <2>1 DEF Going
  <2>4. ASSUME NEW f \in Frames, NEW n \in Waits
        PROVE  LinkSound(f, n)' /\ Keeps(<<f, n>>)'
    <3>1. CASE promise'[<<f, n>>] = promise[<<f, n>>]
      BY <1>0, <2>3, <3>1, KeepsOn, LinkOn, OuterFacts
    <3>2. CASE f = t /\ n = frame[t].waits /\ promise'[<<f, n>>] = Rejected
      BY <2>1, <3>2, FailedLink
    <3> QED
      BY <2>2, <3>1, <3>2, OuterFacts
  <2> QED
    BY <2>4, LinksNext
<1>13. ASSUME NEW q \in Outer, Adopt(q) PROVE ChainSound' /\ AllKept'
  <2>1. /\ UNCHANGED frame
        /\ \A p \in Promises : p # q => promise'[p] = promise[p]
    BY <1>13, AdoptPromises DEF Adopt
  <2>2. ASSUME NEW f \in Frames, NEW n \in Waits
        PROVE  LinkSound(f, n)' /\ Keeps(<<f, n>>)'
    <3>1. CASE q = <<f, n>>
      BY <1>13, <3>1, AdoptLink
    <3>2. CASE q # <<f, n>>
      <4>1. promise'[<<f, n>>] = promise[<<f, n>>] /\ (Going(f)' => Going(f))
        BY <2>1, <3>2, OuterFacts DEF Going
      <4> QED
        BY <1>0, <2>1, <4>1, KeepsOn, LinkOn, OuterFacts
    <3> QED
      BY <3>1, <3>2
  <2> QED
    BY <2>2, LinksNext
<1>14. ASSUME NEW p \in HostPromises, HostSettles(p) PROVE ChainSound' /\ AllKept'
  <2>1. \A q \in Promises : q # p => promise'[q] = promise[q]
    BY <1>14, HostSettlesPromises
  <2>2. \A q \in Outer : promise'[q] = promise[q]
    BY <2>1, AsyncAssumption DEF Promises
  <2>3. UNCHANGED frame
    BY <1>14 DEF HostSettles
  <2> QED
    BY <1>1, <2>2, <2>3 DEF Going
<1> QED
  BY <1>2, <1>3, <1>5, <1>6, <1>7, <1>8, <1>9, <1>10, <1>11, <1>12, <1>13, <1>14
     DEF Next, Runs

-----------------------------------------------------------------------------
(* The invariant, and what it is for.                                      *)

LEMMA AsyncStart == Init => AsyncInv
<1> SUFFICES ASSUME Init PROVE AsyncInv
  OBVIOUS
<1>1. /\ \A f \in Frames : frame[f] = NoFrame
      /\ \A q \in Promises : promise[q] = Unmade
      /\ stack = <<>> /\ DOMAIN frame = Frames /\ DOMAIN promise = Promises
  BY DEF Init
<1>2. DataSound
  <2>1. ASSUME NEW f \in Frames PROVE FrameSound(f)
    <3>1. \A x \in Variables : Sound(frame[f].variables[x])
      BY <1>1, NoFrameFacts DEF Sound
    <3>2. frame[f].waits \in 0..MaxWaits
      BY <1>1, NoFrameFacts, AsyncAssumption
    <3> QED
      BY <1>1, <3>1, <3>2, NoFrameFacts DEF FrameSound
  <2>2. script \in Seq(Functions)
    BY AsyncAssumption DEF Init
  <2> QED
    BY <1>1, <2>1, <2>2 DEF DataSound, PromiseSound, Promises
<1>3. StackSound
  BY <1>1, NoFrameFacts DEF StackSound, FailureSound
<1>4. WaitsSound
  BY <1>1, NoFrameFacts DEF WaitsSound, WaitSound, Going
<1>5. ASSUME NEW f \in Frames, NEW n \in Waits PROVE LinkSound(f, n)
  <2>1. promise[<<f, n>>].is = "none" /\ frame[f].waits = 0 /\ n > 0 /\ n # 0
    BY <1>1, OuterFacts, NoFrameFacts DEF Unmade
  <2> QED
    BY <2>1 DEF LinkSound
<1>6. AllKept
  BY <1>1 DEF AllKept, Keeps, Promises, Unmade
<1> QED
  BY <1>2, <1>3, <1>4, <1>5, <1>6 DEF AsyncInv, ChainSound

LEMMA AsyncNext == AsyncInv /\ [Next]_vars => AsyncInv'
<1> SUFFICES ASSUME AsyncInv, [Next]_vars PROVE AsyncInv'
  OBVIOUS
<1>1. CASE Next
  BY <1>1, NextData, NextStack, NextWaits, NextLinks DEF AsyncInv
<1>2. CASE UNCHANGED vars
  <2>1. UNCHANGED <<frame, stack, promise, script>>
    BY <1>2 DEF vars
  <2>2. \A v : Sound(v)' <=> Sound(v)
    BY <2>1 DEF Sound
  <2>3. Progress
    BY <2>1, FramesStay, PromisesStay DEF Progress
  <2>4. DataSound'
    BY <2>1, <2>3, DataNext DEF AsyncInv, DataSound
  <2>5. StackSound'
    BY <2>1 DEF AsyncInv, StackSound, FailureSound, Going, HasDone, LastOf, Top
  <2>6. WaitsSound'
    BY <2>1 DEF AsyncInv, WaitsSound, WaitSound, Going, HasDone, LastOf
  <2>7. ASSUME NEW f \in Frames, NEW n \in Waits PROVE LinkSound(f, n)' /\ Keeps(<<f, n>>)'
    BY <2>1, <2>3, KeepsOn, LinkOn, OuterFacts DEF Going
  <2> QED
    BY <2>4, <2>5, <2>6, <2>7, LinksNext DEF AsyncInv
<1> QED
  BY <1>1, <1>2

\* The invariant of AsyncFrames: where data may be, which frames are on the stack, what
\* those that are not wait for, how their promises are linked, and that settled ones tell
\* what became of the call.
THEOREM AsyncInvariant == Spec => []AsyncInv
BY AsyncStart, AsyncNext, PTL DEF Spec

\* Frames, the stack and the promises keep to their types; a promise is only fulfilled
\* with data, never with another promise or a thenable (async_resume_result_to_js).
THEOREM TypesHold == Spec => []TypeOK
<1>1. AsyncInv => TypeOK
  <2> SUFFICES ASSUME AsyncInv PROVE TypeOK
    OBVIOUS
  <2>1. ASSUME NEW f \in Frames
        PROVE  /\ frame[f].fn \in Functions \cup {None} /\ frame[f].waits \in 0..MaxWaits
               /\ frame[f].on \in Promises \cup {None}
               /\ frame[f].failed \in Frames \cup {None}
               /\ frame[f].fn # None => frame[f].pc \in 1..(Len(Body[frame[f].fn]) + 1)
    <3>1. FrameSound(f) /\ FailureSound(f) /\ WaitSound(f)
      BY DEF AsyncInv, DataSound, StackSound, WaitsSound
    <3> QED
      BY <3>1 DEF FrameSound, FailureSound, WaitSound, InBody
  <2>2. stack \in Seq(Frames)
    BY DEF AsyncInv, StackSound
  <2>3. ASSUME NEW q \in Promises
        PROVE  /\ promise[q].is \in {"none", "pending", "locked", "fulfilled", "rejected"}
               /\ promise[q].is = "fulfilled" => promise[q].value[1] = "datum"
    BY PromiseFacts DEF AsyncInv
  <2> QED
    BY <2>1, <2>2, <2>3 DEF TypeOK
<1> QED
  BY <1>1, AsyncInvariant, PTL

\* Whoever has the promise of a call is told what became of the call, however many waits,
\* returned promises and thenables are in between, and never anything else later
\* (async_resume_promise, async_resume_result_to_js).
THEOREM PromisesAreKept == Spec => []PromisesKept
<1>1. AsyncInv => PromisesKept
  <2> SUFFICES ASSUME AsyncInv, NEW f \in Frames
               PROVE  /\ promise[<<f, 1>>].is = "fulfilled" =>
                           SeenCalls!Outcome(<<"call", f>>) = promise[<<f, 1>>].value
                      /\ promise[<<f, 1>>].is = "rejected" =>
                           SeenCalls!Outcome(<<"call", f>>) = SeenCalls!Rejected
    BY DEF PromisesKept
  <2>1. <<f, 1>> \in Outer
    BY AsyncAssumption DEF Outer, Waits
  <2>2. Keeps(<<f, 1>>) /\ <<f, 1>>[1] = f
    BY <2>1 DEF AsyncInv, AllKept
  <2> QED
    BY <2>2 DEF Keeps
<1> QED
  BY <1>1, AsyncInvariant, PTL

-----------------------------------------------------------------------------
(* The calls as AsyncFunctions has them.                                   *)

\* What is seen of f does not change.
Same(f) ==
    /\ SeenCode'[f] = SeenCode[f] /\ SeenPositions'[f] = SeenPositions[f]
    /\ SeenVariables'[f] = SeenVariables[f] /\ SeenResults'[f] = SeenResults[f]

\* Which frames f has called and is not done with, if the stack is s and d has failed.
CalleesIn(s, d, f) == {s[k + 1] : k \in {k \in 1..(Len(s) - 1) : s[k] = f}} \cup ({d} \ {None})
VariableIn(r, callees, x) ==
    IF r.result # <<"going">> THEN Datum(Undefined)
    ELSE IF callees # {} /\ x = Body[r.fn][r.pc - 1].var
    THEN <<"call", CHOOSE d \in callees : TRUE>>
    ELSE Seen(r.variables[x])
PositionIn(r) ==
    IF r.result # <<"going">> THEN 1 ELSE IF r.on = None THEN r.pc ELSE r.pc - 1

LEMMA SeenOne ==
    ASSUME NEW f \in Frames
    PROVE  /\ SeenCode[f] = frame[f].fn /\ SeenPositions[f] = PositionIn(frame[f])
           /\ SeenVariables[f] = [x \in Variables |-> SeenVariables[f][x]]
           /\ \A x \in Variables : SeenVariables[f][x] =
                VariableIn(frame[f], CalleesIn(stack, frame[f].failed, f), x)
           /\ SeenResults[f] = SeenResult(frame[f].result)
<1>1. SeenVariables[f] = [x \in Variables |-> SeenVariables[f][x]]
  BY DEF SeenVariables
<1>2. ASSUME NEW x \in Variables
      PROVE  SeenVariables[f][x] = VariableIn(frame[f], CalleesIn(stack, frame[f].failed, f), x)
  BY DEF SeenVariables, SeenVariable, VariableIn, Callees, CalleesIn, LastOf
<1> QED
  BY <1>1, <1>2 DEF SeenCode, SeenPositions, SeenPosition, PositionIn, SeenResults

LEMMA SeenOneNext ==
    ASSUME NEW f \in Frames
    PROVE  /\ SeenCode'[f] = frame'[f].fn /\ SeenPositions'[f] = PositionIn(frame'[f])
           /\ SeenVariables'[f] = [x \in Variables |-> SeenVariables'[f][x]]
           /\ \A x \in Variables : SeenVariables'[f][x] =
                VariableIn(frame'[f], CalleesIn(stack', frame'[f].failed, f), x)
           /\ SeenResults'[f] = SeenResult(frame'[f].result)
<1>1. SeenVariables'[f] = [x \in Variables |-> SeenVariables'[f][x]]
  BY DEF SeenVariables
<1>2. ASSUME NEW x \in Variables
      PROVE  SeenVariables'[f][x] =
               VariableIn(frame'[f], CalleesIn(stack', frame'[f].failed, f), x)
  BY DEF SeenVariables, SeenVariable, VariableIn, Callees, CalleesIn, LastOf
<1> QED
  BY <1>1, <1>2 DEF SeenCode, SeenPositions, SeenPosition, PositionIn, SeenResults

\* A step of one call.
LEMMA OneChanges ==
    ASSUME NEW c \in Frames, \A f \in Frames : f # c => Same(f),
           NEW k, NEW p, NEW v, NEW r,
           SeenCode'[c] = k, SeenPositions'[c] = p, SeenVariables'[c] = v, SeenResults'[c] = r
    PROVE  /\ SeenCode' = [SeenCode EXCEPT ![c] = k]
           /\ SeenPositions' = [SeenPositions EXCEPT ![c] = p]
           /\ SeenVariables' = [SeenVariables EXCEPT ![c] = v]
           /\ SeenResults' = [SeenResults EXCEPT ![c] = r]
<1>1. /\ DOMAIN SeenCode = Frames /\ DOMAIN SeenPositions = Frames
      /\ DOMAIN SeenVariables = Frames /\ DOMAIN SeenResults = Frames
  BY DEF SeenCode, SeenPositions, SeenVariables, SeenResults
<1>2. /\ SeenCode' = [f \in Frames |-> SeenCode'[f]]
      /\ SeenPositions' = [f \in Frames |-> SeenPositions'[f]]
      /\ SeenVariables' = [f \in Frames |-> SeenVariables'[f]]
      /\ SeenResults' = [f \in Frames |-> SeenResults'[f]]
  BY DEF SeenCode, SeenPositions, SeenVariables, SeenResults
<1> QED
  BY <1>1, <1>2 DEF Same

LEMMA NothingChanges ==
    ASSUME \A f \in Frames : Same(f)
    PROVE  /\ SeenCode' = SeenCode /\ SeenPositions' = SeenPositions
           /\ SeenVariables' = SeenVariables /\ SeenResults' = SeenResults
<1>1. /\ SeenCode' = [f \in Frames |-> SeenCode'[f]]
      /\ SeenPositions' = [f \in Frames |-> SeenPositions'[f]]
      /\ SeenVariables' = [f \in Frames |-> SeenVariables'[f]]
      /\ SeenResults' = [f \in Frames |-> SeenResults'[f]]
  BY DEF SeenCode, SeenPositions, SeenVariables, SeenResults
<1>2. /\ SeenCode = [f \in Frames |-> SeenCode[f]]
      /\ SeenPositions = [f \in Frames |-> SeenPositions[f]]
      /\ SeenVariables = [f \in Frames |-> SeenVariables[f]]
      /\ SeenResults = [f \in Frames |-> SeenResults[f]]
  BY DEF SeenCode, SeenPositions, SeenVariables, SeenResults
<1> QED
  BY <1>1, <1>2 DEF Same

\* A frame of which all is seen as before.
LEMMA SameSeen ==
    ASSUME NEW f \in Frames, frame'[f].fn = frame[f].fn,
           PositionIn(frame'[f]) = PositionIn(frame[f]),
           frame'[f].result = frame[f].result,
           \A x \in Variables : VariableIn(frame'[f], CalleesIn(stack', frame'[f].failed, f), x)
             = VariableIn(frame[f], CalleesIn(stack, frame[f].failed, f), x)
    PROVE  Same(f)
<1>1. ASSUME NEW x \in Variables PROVE SeenVariables'[f][x] = SeenVariables[f][x]
  <2>1. SeenVariables[f][x] = VariableIn(frame[f], CalleesIn(stack, frame[f].failed, f), x)
    BY SeenOne
  <2>2. SeenVariables'[f][x] =
          VariableIn(frame'[f], CalleesIn(stack', frame'[f].failed, f), x)
    BY SeenOneNext
  <2> QED
    BY <2>1, <2>2
<1>2. SeenVariables'[f] = SeenVariables[f]
  <2>1. SeenVariables[f] = [x \in Variables |-> SeenVariables[f][x]]
    BY SeenOne
  <2>2. SeenVariables'[f] = [x \in Variables |-> SeenVariables'[f][x]]
    BY SeenOneNext
  <2> QED
    BY <1>1, <2>1, <2>2
<1>3. SeenCode[f] = frame[f].fn /\ SeenCode'[f] = frame'[f].fn
  BY SeenOne, SeenOneNext
<1>4. SeenPositions'[f] = SeenPositions[f]
  <2>1. SeenPositions[f] = PositionIn(frame[f])
    BY SeenOne
  <2>2. SeenPositions'[f] = PositionIn(frame'[f])
    BY SeenOneNext
  <2> QED
    BY <2>1, <2>2
<1>5. SeenResults'[f] = SeenResults[f]
  BY SeenOne, SeenOneNext
<1> QED
  BY <1>2, <1>3, <1>4, <1>5 DEF Same

LEMMA FrameStaysSeen ==
    ASSUME NEW f \in Frames, frame'[f] = frame[f],
           CalleesIn(stack', frame[f].failed, f) = CalleesIn(stack, frame[f].failed, f)
    PROVE  Same(f)
BY SameSeen

LEMMA HostsStaySeen ==
    ASSUME \A p \in HostPromises : promise'[p] = promise[p]
    PROVE  SeenHosts' = SeenHosts
BY DEF SeenHosts

-----------------------------------------------------------------------------
(* Which frames have been called by a frame and are not done with.         *)

LEMMA CalleesInFacts ==
    ASSUME NEW s \in Seq(Frames), NEW d, NEW f
    PROVE  /\ Len(s) \in Nat /\ DOMAIN s = 1..Len(s)
           /\ \A c : c \in CalleesIn(s, d, f) <=>
                \/ \E k \in 1..(Len(s) - 1) : s[k] = f /\ c = s[k + 1]
                \/ d # None /\ c = d
<1>1. Len(s) \in Nat /\ DOMAIN s = 1..Len(s)
  OBVIOUS
<1>2. ASSUME NEW c
      PROVE  c \in CalleesIn(s, d, f) <=>
                \/ \E k \in 1..(Len(s) - 1) : s[k] = f /\ c = s[k + 1]
                \/ d # None /\ c = d
  <2> DEFINE K == {k \in 1..(Len(s) - 1) : s[k] = f}
  <2>1. c \in CalleesIn(s, d, f) <=> c \in {s[k + 1] : k \in K} \/ c \in {d} \ {None}
    BY Zenon DEF CalleesIn
  <2>2. c \in {s[k + 1] : k \in K} <=> \E k \in K : c = s[k + 1]
    BY Zenon
  <2>3. (\E k \in K : c = s[k + 1]) <=> \E k \in 1..(Len(s) - 1) : s[k] = f /\ c = s[k + 1]
    BY Zenon
  <2>4. c \in {d} \ {None} <=> d # None /\ c = d
    BY Zenon
  <2> QED
    BY <2>1, <2>2, <2>3, <2>4, Zenon
<1> QED
  BY <1>1, <1>2, Zenon

\* Only the call that failed, if any, of a frame on top or not on the stack.
LEMMA NoCallees ==
    ASSUME NEW s \in Seq(Frames), NEW d, NEW f,
           \A i \in DOMAIN s : s[i] = f => i = Len(s)
    PROVE  CalleesIn(s, d, f) = {d} \ {None}
<1>1. ASSUME NEW k \in 1..(Len(s) - 1) PROVE s[k] # f
  <2>1. PICK n \in Nat : n = Len(s) /\ DOMAIN s = 1..n
    BY CalleesInFacts
  <2>2. k \in 1..n /\ k # n
    BY <2>1
  <2> QED
    BY <2>1, <2>2
<1> QED
  BY <1>1, CalleesInFacts

\* The one above.
LEMMA OneCallee ==
    ASSUME NEW s \in Seq(Frames), \A i, j \in DOMAIN s : s[i] = s[j] => i = j,
           Len(s) > 1
    PROVE  CalleesIn(s, None, s[Len(s) - 1]) = {s[Len(s)]}
<1>1. PICK n \in Nat : n = Len(s) - 1 /\ n >= 1 /\ n + 1 = Len(s)
  <2>1. Len(s) \in Nat
    BY CalleesInFacts
  <2>2. Len(s) - 1 \in Nat /\ Len(s) - 1 >= 1 /\ (Len(s) - 1) + 1 = Len(s)
    BY <2>1
  <2> QED
    BY <2>2
<1>2. DOMAIN s = 1..(n + 1)
  BY <1>1, CalleesInFacts
<1>3. \A k \in 1..n : k \in 1..(n + 1) /\ n \in 1..(n + 1)
  BY <1>1
<1>4. n \in 1..n
  BY <1>1
<1>5. \A k \in 1..n : s[k] = s[n] <=> k = n
  BY <1>2, <1>3
<1> QED
  BY <1>1, <1>4, <1>5, CalleesInFacts

\* Those of all others, when the stack gets shorter or longer.
LEMMA CalleesPopped ==
    ASSUME NEW s \in Seq(Frames), s # <<>>, NEW d, NEW f,
           Len(s) > 1 => f # s[Len(s) - 1]
    PROVE  CalleesIn(SubSeq(s, 1, Len(s) - 1), d, f) = CalleesIn(s, d, f)
<1> DEFINE b == SubSeq(s, 1, Len(s) - 1)
<1>1. PICK n \in Nat : n = Len(s) - 1 /\ n + 1 = Len(s)
  <2>1. Len(s) \in Nat /\ Len(s) >= 1
    OBVIOUS
  <2>2. Len(s) - 1 \in Nat /\ (Len(s) - 1) + 1 = Len(s)
    BY <2>1
  <2> QED
    BY <2>2
<1>2. b \in Seq(Frames) /\ Len(b) = n /\ \A i \in 1..n : b[i] = s[i]
  BY <1>1
<1>3. \A k \in 1..n : k = n \/ (k \in 1..(n - 1) /\ k + 1 \in 1..n)
  BY <1>1
<1>4. \A k \in 1..(n - 1) : k \in 1..n /\ k + 1 \in 1..n
  BY <1>1
<1>5. \A k \in 1..n : s[k] = f => k # n
  BY <1>1
<1> HIDE DEF b
<1>6. \A c : c \in CalleesIn(s, d, f) <=>
        (\E k \in 1..n : s[k] = f /\ c = s[k + 1]) \/ (d # None /\ c = d)
  BY <1>1, CalleesInFacts
<1>7. \A c : c \in CalleesIn(b, d, f) <=>
        (\E k \in 1..(n - 1) : b[k] = f /\ c = b[k + 1]) \/ (d # None /\ c = d)
  BY <1>2, CalleesInFacts
<1>8. \A c : c \in CalleesIn(b, d, f) <=> c \in CalleesIn(s, d, f)
  BY <1>2, <1>3, <1>4, <1>5, <1>6, <1>7
<1>9. CalleesIn(b, d, f) = CalleesIn(s, d, f)
  BY <1>8
<1> QED
  BY <1>9 DEF b

LEMMA CalleesPushed ==
    ASSUME NEW s \in Seq(Frames), NEW n \in Frames, NEW d, NEW f,
           s # <<>> => f # s[Len(s)]
    PROVE  CalleesIn(Append(s, n), d, f) = CalleesIn(s, d, f)
<1>1. /\ Append(s, n) \in Seq(Frames) /\ Append(s, n) # <<>>
      /\ Len(Append(s, n)) = Len(s) + 1
      /\ \A i \in 1..Len(s) : Append(s, n)[i] = s[i]
  OBVIOUS
<1>2. Len(s) \in Nat /\ (Len(s) + 1) - 1 = Len(s)
  OBVIOUS
<1>3. SubSeq(Append(s, n), 1, Len(Append(s, n)) - 1) = s
  BY <1>1, <1>2
<1>4. Len(Append(s, n)) > 1 => f # Append(s, n)[Len(Append(s, n)) - 1]
  <2>1. Len(s) + 1 > 1 => s # <<>> /\ Len(s) \in 1..Len(s)
    BY <1>2
  <2> QED
    BY <1>1, <1>2, <2>1
<1> QED
  BY <1>1, <1>3, <1>4, CalleesPopped

\* A frame that goes on, and is on top.
LEMMA TopSeen ==
    ASSUME AsyncInv, stack # <<>>, NEW t, t = Top, frame[t].failed = None
    PROVE  /\ t \in Frames /\ SeenCode[t] = frame[t].fn /\ SeenCode[t] # None
           /\ SeenPositions[t] = frame[t].pc /\ SeenResults[t] = SeenCalls!Going
           /\ CalleesIn(stack, None, t) = {}
           /\ \A x \in Variables : SeenVariables[t][x] = Seen(frame[t].variables[x])
           /\ SeenCalls!Goes(t)
<1>1. /\ t \in Frames /\ frame[t].fn # None /\ frame[t].result = <<"going">>
      /\ frame[t].on = None /\ t = stack[Len(stack)] /\ Len(stack) \in DOMAIN stack
      /\ stack \in Seq(Frames)
  BY TopFacts, NoneApart DEF AsyncInv, StackSound
<1>2. SeenCode[t] = frame[t].fn /\ SeenPositions[t] = PositionIn(frame[t])
  BY <1>1, SeenOne
<1>3. SeenResults[t] = SeenCalls!Going
  BY <1>1, SeenOne, ResultFacts
<1>4. CalleesIn(stack, None, t) = {}
  <2>1. \A i \in DOMAIN stack : stack[i] = t => i = Len(stack)
    BY <1>1 DEF AsyncInv, StackSound
  <2>2. CalleesIn(stack, None, t) = {None} \ {None}
    BY <1>1, <2>1, NoCallees
  <2> QED
    BY <2>2
<1>5. ASSUME NEW x \in Variables PROVE SeenVariables[t][x] = Seen(frame[t].variables[x])
  <2>1. SeenVariables[t][x] = VariableIn(frame[t], CalleesIn(stack, frame[t].failed, t), x)
    BY <1>1, SeenOne
  <2> QED
    BY <1>1, <1>4, <2>1 DEF VariableIn
<1>6. SeenPositions[t] = frame[t].pc
  BY <1>1, <1>2 DEF PositionIn
<1> QED
  BY <1>1, <1>2, <1>3, <1>4, <1>5, <1>6 DEF SeenCalls!Goes

LEMMA AtSeen ==
    ASSUME AsyncInv, NEW op, At(op), NEW t, t = Top
    PROVE  /\ SeenCalls!At(t, op) /\ SeenCalls!Variable(t) = Instruction.var
           /\ SeenCalls!Value(t) = Seen(Value)
           /\ Body[SeenCode[t]][SeenPositions[t]] = Instruction
<1>1. /\ stack # <<>> /\ frame[t].failed = None
      /\ frame[t].pc \in DOMAIN Body[frame[t].fn]
      /\ Instruction.op = op /\ Instruction.var \in Variables
      /\ Instruction = Body[frame[t].fn][frame[t].pc]
      /\ Value = frame[t].variables[Instruction.var]
  BY AtFacts DEF Instruction, Value
<1>2. /\ SeenCode[t] = frame[t].fn /\ SeenPositions[t] = frame[t].pc /\ SeenCalls!Goes(t)
      /\ SeenVariables[t][Instruction.var] = Seen(frame[t].variables[Instruction.var])
  BY <1>1, TopSeen
<1> QED
  BY <1>1, <1>2 DEF SeenCalls!At, SeenCalls!Variable, SeenCalls!Value

\* A frame that waits: it is seen at its await.
LEMMA WaiterSeen ==
    ASSUME AsyncInv, NEW f \in Frames, frame[f].on # None
    PROVE  /\ frame[f].on \in Promises /\ LastOf(f).var \in Variables
           /\ SeenCalls!At(f, "await") /\ SeenCalls!Variable(f) = LastOf(f).var
           /\ SeenCalls!Value(f) = Seen(Promise(frame[f].on))
           /\ SeenPositions[f] = frame[f].pc - 1
           /\ \A d : CalleesIn(stack, d, f) = {d} \ {None}
           /\ frame[f].failed = None
           /\ \A x \in Variables : SeenVariables[f][x] = Seen(frame[f].variables[x])
<1>1. /\ Going(f) /\ HasDone(f, "await") /\ frame[f].on \in Promises
      /\ frame[f].variables[LastOf(f).var] = Promise(frame[f].on)
  BY DEF AsyncInv, WaitsSound, WaitSound
<1>2. /\ frame[f].fn \in Functions /\ frame[f].fn # None /\ frame[f].result = <<"going">>
      /\ frame[f].pc - 1 \in DOMAIN Body[frame[f].fn]
      /\ LastOf(f) = Body[frame[f].fn][frame[f].pc - 1] /\ LastOf(f).op = "await"
  BY <1>1, FrameFacts DEF AsyncInv, Going, HasDone, LastOf
<1>3. LastOf(f).var \in Variables
  BY <1>2, BodyFacts
<1>4. /\ \A i \in DOMAIN stack : stack[i] # f
      /\ stack \in Seq(Frames)
  BY DEF AsyncInv, StackSound
<1>5. \A d : CalleesIn(stack, d, f) = {d} \ {None}
  BY <1>4, NoCallees
<1>6. frame[f].failed = None
  <2>1. stack # <<>> => f # Top
    BY <1>4, TopFacts
  <2> QED
    BY <1>1, <2>1 DEF AsyncInv, StackSound, FailureSound
<1>7. ASSUME NEW x \in Variables PROVE SeenVariables[f][x] = Seen(frame[f].variables[x])
  <2>1. SeenVariables[f][x] = VariableIn(frame[f], CalleesIn(stack, frame[f].failed, f), x)
    BY SeenOne
  <2> QED
    BY <1>2, <1>5, <1>6, <2>1 DEF VariableIn
<1>8. SeenPositions[f] = frame[f].pc - 1
  BY <1>2, SeenOne DEF PositionIn
<1>9. SeenResults[f] = SeenCalls!Going /\ SeenCode[f] = frame[f].fn
  BY <1>2, SeenOne, ResultFacts
<1> QED
  BY <1>1, <1>2, <1>3, <1>5, <1>6, <1>7, <1>8, <1>9
     DEF SeenCalls!At, SeenCalls!Goes, SeenCalls!Variable, SeenCalls!Value

\* The frame on top is left.
LEMMA OthersLeft ==
    ASSUME AsyncInv, stack # <<>>, stack' = Below, NEW f \in Frames, f # Top,
           ~(HasCaller /\ f = Caller), frame'[f] = frame[f]
    PROVE  Same(f)
<1>1. stack \in Seq(Frames) /\ stack' = SubSeq(stack, 1, Len(stack) - 1)
      /\ (Len(stack) > 1 => f # stack[Len(stack) - 1])
  BY BelowFacts DEF AsyncInv, StackSound, Below, Caller
<1>2. CalleesIn(stack', frame[f].failed, f) = CalleesIn(stack, frame[f].failed, f)
  BY <1>1, CalleesPopped
<1> QED
  BY <1>2, FrameStaysSeen

LEMMA CallerCallees ==
    ASSUME AsyncInv, stack # <<>>, stack' = Below, HasCaller, NEW c, c = Caller
    PROVE  /\ CalleesIn(stack, None, c) = {Top}
           /\ \A d : CalleesIn(stack', d, c) = {d} \ {None}
<1>1. /\ stack \in Seq(Frames) /\ \A i, j \in DOMAIN stack : stack[i] = stack[j] => i = j
      /\ Len(stack) > 1 /\ c = stack[Len(stack) - 1]
  BY CallerFacts DEF AsyncInv, StackSound
<1>2. CalleesIn(stack, None, c) = {Top}
  BY <1>1, OneCallee DEF Top
<1>3. /\ stack' \in Seq(Frames) /\ c = stack'[Len(stack')] /\ stack' # <<>>
      /\ \A i \in DOMAIN stack' : i \in DOMAIN stack /\ stack'[i] = stack[i]
  BY BelowFacts
<1>4. Len(stack') \in DOMAIN stack'
  BY <1>3
<1>5. \A i \in DOMAIN stack' : stack'[i] = c => i = Len(stack')
  BY <1>1, <1>3, <1>4
<1> QED
  BY <1>2, <1>3, <1>5, NoCallees

\* Its caller was seen to have the call already.
LEMMA CallerGiven ==
    ASSUME AsyncInv, stack # <<>>, stack' = Below, HasCaller, NEW c, c = Caller,
           frame'[c].fn = frame[c].fn, frame'[c].pc = frame[c].pc,
           frame'[c].on = frame[c].on, frame'[c].failed = frame[c].failed,
           frame'[c].result = frame[c].result,
           NEW v, Seen(v) = <<"call", Top>>,
           \A x \in Variables : frame'[c].variables[x] =
             IF x = LastOf(c).var THEN v ELSE frame[c].variables[x]
    PROVE  Same(c)
<1>1. c \in Frames /\ frame[c].result = <<"going">> /\ frame[c].failed = None
  BY CallerFacts
<1>2. CalleesIn(stack, None, c) = {Top} /\ CalleesIn(stack', None, c) = {}
  <2>1. CalleesIn(stack', None, c) = {None} \ {None}
    BY CallerCallees
  <2> QED
    BY <2>1, CallerCallees
<1>3. (CHOOSE d \in {Top} : TRUE) = Top
  OBVIOUS
<1>4. ASSUME NEW x \in Variables
      PROVE  VariableIn(frame'[c], CalleesIn(stack', frame'[c].failed, c), x)
               = VariableIn(frame[c], CalleesIn(stack, frame[c].failed, c), x)
  <2>1. VariableIn(frame'[c], {}, x) = Seen(frame'[c].variables[x])
    BY <1>1 DEF VariableIn
  <2>2. VariableIn(frame[c], {Top}, x) =
          IF x = LastOf(c).var THEN <<"call", Top>> ELSE Seen(frame[c].variables[x])
    BY <1>1, <1>3 DEF VariableIn, LastOf
  <2> QED
    BY <1>1, <1>2, <2>1, <2>2
<1>5. PositionIn(frame'[c]) = PositionIn(frame[c])
  BY DEF PositionIn
<1> QED
  BY <1>1, <1>4, <1>5, SameSeen

LEMMA CallerFails ==
    ASSUME AsyncInv, stack # <<>>, stack' = Below, HasCaller, NEW c, c = Caller,
           frame'[c].fn = frame[c].fn, frame'[c].pc = frame[c].pc,
           frame'[c].on = frame[c].on, frame'[c].failed = Top,
           frame'[c].result = frame[c].result,
           frame'[c].variables = frame[c].variables
    PROVE  Same(c)
<1>1. /\ c \in Frames /\ frame[c].failed = None /\ Top \in Frames /\ Top # None
      /\ frame[c].result = <<"going">>
  BY CallerFacts, TopFacts, NoneApart
<1>2. CalleesIn(stack, None, c) = {Top} /\ CalleesIn(stack', Top, c) = {Top}
  <2>1. \A d : CalleesIn(stack', d, c) = {d} \ {None}
    BY CallerCallees
  <2> QED
    BY <1>1, <2>1, CallerCallees
<1>3. ASSUME NEW x \in Variables
      PROVE  VariableIn(frame'[c], CalleesIn(stack', frame'[c].failed, c), x)
               = VariableIn(frame[c], CalleesIn(stack, frame[c].failed, c), x)
  BY <1>1, <1>2 DEF VariableIn
<1>4. PositionIn(frame'[c]) = PositionIn(frame[c])
  BY DEF PositionIn
<1> QED
  BY <1>1, <1>3, <1>4, SameSeen

\* A call ends.
LEMMA EndSeen ==
    ASSUME NEW c \in Frames, \A f \in Frames : f # c => Same(f), SeenHosts' = SeenHosts,
           frame'[c].fn = frame[c].fn, frame'[c].result # <<"going">>,
           NEW r, SeenResult(frame'[c].result) = r
    PROVE  SeenCalls!End(c, r)
<1>1. SeenCode'[c] = SeenCode[c] /\ SeenResults'[c] = r
  BY SeenOne, SeenOneNext
<1>2. SeenPositions'[c] = 1
  BY SeenOneNext DEF PositionIn
<1>3. SeenVariables'[c] = SeenCalls!NoVariables
  <2>1. SeenVariables'[c] = [x \in Variables |-> SeenVariables'[c][x]]
    BY SeenOneNext
  <2>2. ASSUME NEW x \in Variables PROVE SeenVariables'[c][x] = Datum(Undefined)
    BY SeenOneNext DEF VariableIn
  <2> QED
    BY <2>1, <2>2 DEF SeenCalls!NoVariables, SeenCalls!Datum, Datum
<1>4. /\ SeenCode' = [SeenCode EXCEPT ![c] = SeenCode[c]]
      /\ SeenPositions' = [SeenPositions EXCEPT ![c] = 1]
      /\ SeenVariables' = [SeenVariables EXCEPT ![c] = SeenCalls!NoVariables]
      /\ SeenResults' = [SeenResults EXCEPT ![c] = r]
  BY <1>1, <1>2, <1>3, OneChanges
<1>5. SeenCode' = SeenCode
  BY <1>4 DEF SeenCode
<1> QED
  BY <1>4, <1>5 DEF SeenCalls!End

\* A call goes on to its next instruction, with a value.
LEMMA AdvanceSeen ==
    ASSUME NEW c \in Frames, \A f \in Frames : f # c => Same(f),
           SeenCode'[c] = SeenCode[c], SeenResults'[c] = SeenResults[c],
           SeenPositions'[c] = SeenPositions[c] + 1,
           SeenCalls!Variable(c) \in Variables, NEW v,
           \A x \in Variables : SeenVariables'[c][x] =
             IF x = SeenCalls!Variable(c) THEN v ELSE SeenVariables[c][x]
    PROVE  /\ SeenCalls!Advance(c) /\ SeenCalls!Assign(c, v)
           /\ SeenCode' = SeenCode /\ SeenResults' = SeenResults
<1> DEFINE y == SeenCalls!Variable(c)
<1>1. /\ SeenVariables[c] = [x \in Variables |-> SeenVariables[c][x]]
      /\ SeenVariables'[c] = [x \in Variables |-> SeenVariables'[c][x]]
  BY SeenOne, SeenOneNext
<1>2. SeenVariables'[c] = [SeenVariables[c] EXCEPT ![y] = v]
  BY <1>1
<1>3. /\ SeenCode' = [SeenCode EXCEPT ![c] = SeenCode[c]]
      /\ SeenPositions' = [SeenPositions EXCEPT ![c] = SeenPositions[c] + 1]
      /\ SeenVariables' = [SeenVariables EXCEPT ![c] = [SeenVariables[c] EXCEPT ![y] = v]]
      /\ SeenResults' = [SeenResults EXCEPT ![c] = SeenResults[c]]
  BY <1>2, OneChanges
<1>4. SeenCode' = SeenCode /\ SeenResults' = SeenResults
  BY <1>3 DEF SeenCode, SeenResults
<1> QED
  BY <1>3, <1>4 DEF SeenCalls!Advance, SeenCalls!Assign

-----------------------------------------------------------------------------
(* Every step is one of AsyncFunctions, or is not seen.                    *)

Stutters == UNCHANGED <<SeenCode, SeenPositions, SeenVariables, SeenResults, SeenHosts>>

LEMMA LeaveSeen ==
    ASSUME AsyncInv, stack # <<>>, NEW value, Leave(value), NEW t, t = Top
    PROVE  SeenCalls!End(t, SeenCalls!Returned(Seen(value)))
<1>1. t \in Frames /\ stack' = Below
  BY TopFacts DEF Leave
<1>2. /\ \A f \in Frames :
           f # t /\ ~(HasCaller /\ f = Caller) => frame'[f] = frame[f]
      /\ \A f \in Frames :
           /\ frame'[f].fn = frame[f].fn /\ frame'[f].pc = frame[f].pc
           /\ frame'[f].waits = frame[f].waits /\ frame'[f].on = frame[f].on
           /\ frame'[f].failed = frame[f].failed
           /\ frame'[f].result = IF f = t THEN <<"returned", value>> ELSE frame[f].result
           /\ \A x \in Variables : frame'[f].variables[x] =
                IF HasCaller /\ f = Caller /\ x = LastOf(f).var THEN Resolved(value, t)
                ELSE frame[f].variables[x]
  BY LeaveEffect
<1>3. ASSUME NEW f \in Frames, f # t PROVE Same(f)
  <2>1. CASE HasCaller /\ f = Caller
    <3>1. Seen(Resolved(value, t)) = <<"call", Top>>
      BY DEF Seen, Resolved
    <3>2. /\ frame'[f].fn = frame[f].fn /\ frame'[f].pc = frame[f].pc
          /\ frame'[f].on = frame[f].on /\ frame'[f].failed = frame[f].failed
          /\ frame'[f].result = frame[f].result
      BY <1>2, <1>3
    <3>3. \A x \in Variables : frame'[f].variables[x] =
            IF x = LastOf(f).var THEN Resolved(value, t) ELSE frame[f].variables[x]
      BY <1>2, <2>1
    <3> QED
      BY <1>1, <2>1, <3>1, <3>2, <3>3, CallerGiven
  <2>2. CASE ~(HasCaller /\ f = Caller)
    BY <1>1, <1>2, <1>3, <2>2, OthersLeft
  <2> QED
    BY <2>1, <2>2
<1>4. SeenHosts' = SeenHosts
  <2>1. /\ \A q \in Promises : promise'[q] =
             IF frame[t].waits # 0 /\ q = <<t, frame[t].waits>>
             THEN ResolvedWith(value) ELSE promise[q]
        /\ frame[t].waits # 0 => frame[t].waits \in Waits
    BY SettleEffect DEF Leave
  <2>2. \A p \in HostPromises : promise'[p] = promise[p]
    BY <1>1, <2>1, OuterFacts DEF Promises
  <2> QED
    BY <2>2, HostsStaySeen
<1>5. frame'[t].result = <<"returned", value>> /\ frame'[t].fn = frame[t].fn
  BY <1>1, <1>2
<1>6. frame'[t].result # <<"going">>
      /\ SeenResult(frame'[t].result) = SeenCalls!Returned(Seen(value))
  BY <1>5, ResultFacts
<1> QED
  BY <1>1, <1>3, <1>4, <1>5, <1>6, EndSeen

LEMMA LeaveFailingSeen ==
    ASSUME AsyncInv, stack # <<>>, LeaveFailing, NEW t, t = Top
    PROVE  SeenCalls!End(t, SeenCalls!Failed)
<1>1. t \in Frames /\ stack' = Below
  BY TopFacts DEF LeaveFailing
<1>2. /\ \A f \in Frames :
           f # t /\ ~(HasCaller /\ f = Caller) => frame'[f] = frame[f]
      /\ \A f \in Frames :
           /\ frame'[f].fn = frame[f].fn /\ frame'[f].pc = frame[f].pc
           /\ frame'[f].waits = frame[f].waits /\ frame'[f].on = frame[f].on
           /\ frame'[f].variables = frame[f].variables
           /\ frame'[f].result = IF f = t THEN <<"failed">> ELSE frame[f].result
           /\ frame'[f].failed = IF HasCaller /\ f = Caller THEN t ELSE frame[f].failed
  BY LeaveFailingEffect
<1>3. ASSUME NEW f \in Frames, f # t PROVE Same(f)
  <2>1. CASE HasCaller /\ f = Caller
    <3>1. /\ frame'[f].fn = frame[f].fn /\ frame'[f].pc = frame[f].pc
          /\ frame'[f].on = frame[f].on /\ frame'[f].failed = Top
          /\ frame'[f].result = frame[f].result
          /\ frame'[f].variables = frame[f].variables
      BY <1>2, <1>3, <2>1
    <3> QED
      BY <1>1, <2>1, <3>1, CallerFails
  <2>2. CASE ~(HasCaller /\ f = Caller)
    BY <1>1, <1>2, <1>3, <2>2, OthersLeft
  <2> QED
    BY <2>1, <2>2
<1>4. SeenHosts' = SeenHosts
  <2>1. /\ \A q \in Promises : promise'[q] =
             IF frame[t].waits # 0 /\ q = <<t, frame[t].waits>> THEN Rejected ELSE promise[q]
        /\ frame[t].waits # 0 => frame[t].waits \in Waits
    BY SettleEffect DEF LeaveFailing
  <2>2. \A p \in HostPromises : promise'[p] = promise[p]
    BY <1>1, <2>1, OuterFacts DEF Promises
  <2> QED
    BY <2>2, HostsStaySeen
<1>5. frame'[t].result = <<"failed">> /\ frame'[t].fn = frame[t].fn
  BY <1>1, <1>2
<1>6. frame'[t].result # <<"going">> /\ SeenResult(frame'[t].result) = SeenCalls!Failed
  BY <1>5, ResultFacts
<1> QED
  BY <1>1, <1>3, <1>4, <1>5, <1>6, EndSeen

LEMMA ReturnSeen == AsyncInv /\ Return => SeenCalls!Next
<1> SUFFICES ASSUME AsyncInv, Return PROVE SeenCalls!Next
  OBVIOUS
<1>1. PICK t \in Frames : t = Top
  BY AtFacts, TopFacts DEF Return
<1>2. PICK v : v = Value
  OBVIOUS
<1>3. stack # <<>> /\ At("return") /\ Leave(v)
  BY <1>2, AtFacts DEF Return
<1>4. SeenCalls!End(t, SeenCalls!Returned(Seen(v)))
  BY <1>1, <1>3, LeaveSeen
<1>5. SeenCalls!At(t, "return") /\ SeenCalls!Value(t) = Seen(v)
  BY <1>1, <1>2, <1>3, AtSeen
<1> QED
  BY <1>4, <1>5 DEF SeenCalls!Next, SeenCalls!Return

LEMMA RunOffSeen == AsyncInv /\ RunOff => SeenCalls!Next
<1> SUFFICES ASSUME AsyncInv, RunOff PROVE SeenCalls!Next
  OBVIOUS
<1>1. PICK t \in Frames : t = Top
  BY TopFacts DEF RunOff
<1>2. /\ stack # <<>> /\ frame[t].failed = None /\ Leave(Datum(Undefined))
      /\ frame[t].pc \notin DOMAIN Body[frame[t].fn]
  BY <1>1 DEF RunOff
<1>3. SeenCalls!End(t, SeenCalls!Returned(Seen(Datum(Undefined))))
  BY <1>1, <1>2, LeaveSeen
<1>4. Seen(Datum(Undefined)) = SeenCalls!Datum(Undefined)
  BY DEF Seen, Datum, SeenCalls!Datum
<1>5. SeenPositions[t] = frame[t].pc /\ SeenCode[t] = frame[t].fn /\ SeenCalls!Goes(t)
  BY <1>1, <1>2, TopSeen
<1>6. frame[t].pc = Len(Body[frame[t].fn]) + 1
  <2>1. frame[t].fn \in Functions /\ frame[t].pc \in 1..(Len(Body[frame[t].fn]) + 1)
    BY <1>1, <1>2, TopFacts, FrameFacts DEF AsyncInv
  <2>2. Len(Body[frame[t].fn]) \in Nat /\ DOMAIN Body[frame[t].fn] = 1..Len(Body[frame[t].fn])
    BY <2>1, BodyFacts
  <2> QED
    BY <1>2, <2>1, <2>2
<1> QED
  BY <1>3, <1>4, <1>5, <1>6 DEF SeenCalls!Next, SeenCalls!RunOff

LEMMA FailSeen == AsyncInv /\ Fail => SeenCalls!Next
<1> SUFFICES ASSUME AsyncInv, Fail PROVE SeenCalls!Next
  OBVIOUS
<1>1. stack # <<>> /\ LeaveFailing
  BY DEF Fail, At
<1>2. PICK t \in Frames : t = Top
  BY <1>1, TopFacts
<1>3. SeenCalls!End(t, SeenCalls!Failed)
  BY <1>1, <1>2, LeaveFailingSeen
<1>4. CASE At("throw")
  BY <1>2, <1>3, <1>4, AtSeen DEF SeenCalls!Next, SeenCalls!Throw
<1>5. CASE frame[t].failed # None
  <2>1. PICK d \in Frames : d = frame[t].failed /\ frame[d].result = <<"failed">>
    BY <1>5 DEF AsyncInv, StackSound, FailureSound
  <2>2. /\ frame[t].fn \in Functions /\ frame[t].fn # None
        /\ frame[t].result = <<"going">> /\ frame[t].on = None
        /\ t = stack[Len(stack)] /\ stack \in Seq(Frames)
    BY <1>1, <1>2, TopFacts DEF AsyncInv, StackSound
  <2>3. HasDone(t, "call")
    BY <1>5, <2>2 DEF AsyncInv, StackSound, FailureSound, Going
  <2>4. /\ frame[t].pc - 1 \in DOMAIN Body[frame[t].fn]
        /\ LastOf(t) = Body[frame[t].fn][frame[t].pc - 1] /\ LastOf(t).op = "call"
    BY <2>3 DEF HasDone, LastOf
  <2>5. LastOf(t).var \in Variables
    BY <2>2, <2>4, BodyFacts
  <2>6. frame[t].pc > 1
    <3>1. /\ Len(Body[frame[t].fn]) \in Nat
          /\ DOMAIN Body[frame[t].fn] = 1..Len(Body[frame[t].fn])
      BY <2>2, BodyFacts
    <3>2. frame[t].pc \in Nat
      BY <2>2, FrameFacts DEF AsyncInv
    <3>3. frame[t].pc - 1 \in 1..Len(Body[frame[t].fn])
      BY <2>4, <3>1
    <3> QED
      BY <3>1, <3>2, <3>3
  <2>7. /\ SeenPositions[t] = frame[t].pc /\ SeenCode[t] = frame[t].fn
        /\ SeenResults[t] = SeenCalls!Going /\ SeenResults[d] = SeenCalls!Failed
    BY <2>1, <2>2, SeenOne, ResultFacts DEF PositionIn
  <2>8. SeenVariables[t][LastOf(t).var] = <<"call", d>>
    <3>1. CalleesIn(stack, d, t) = {d}
      <4>1. \A i \in DOMAIN stack : stack[i] = t => i = Len(stack)
        <5>1. Len(stack) \in DOMAIN stack
          BY <1>1, TopFacts
        <5> QED
          BY <2>2, <5>1 DEF AsyncInv, StackSound
      <4>2. CalleesIn(stack, d, t) = {d} \ {None}
        BY <2>2, <4>1, NoCallees
      <4> QED
        BY <4>2, NoneApart
    <3>2. SeenVariables[t][LastOf(t).var] = VariableIn(frame[t], {d}, LastOf(t).var)
      <4>1. SeenVariables[t][LastOf(t).var] =
              VariableIn(frame[t], CalleesIn(stack, frame[t].failed, t), LastOf(t).var)
        BY <2>5, SeenOne
      <4> QED
        BY <2>1, <3>1, <4>1
    <3>3. (CHOOSE c \in {d} : TRUE) = d
      OBVIOUS
    <3> QED
      BY <2>2, <2>4, <3>2, <3>3 DEF VariableIn
  <2>9. SeenCalls!Outcome(<<"call", d>>) = SeenCalls!Rejected
    BY <2>7, OutcomesSeen, OutcomeOfFailed
  <2>10. SeenCalls!FailWithCallee(t)
    BY <1>3, <2>2, <2>4, <2>6, <2>7, <2>8, <2>9
       DEF SeenCalls!FailWithCallee, SeenCalls!Goes
  <2> QED
    BY <2>10 DEF SeenCalls!Next
<1> QED
  BY <1>2, <1>4, <1>5 DEF Fail

LEMMA SuspendSeen == AsyncInv /\ Suspend => Stutters
<1> SUFFICES ASSUME AsyncInv, Suspend PROVE Stutters
  OBVIOUS
<1>1. PICK t \in Frames : t = Top
  BY SuspendPromises
<1>2. PICK q : q = <<t, frame[t].waits + 1>>
  OBVIOUS
<1>3. /\ \A f \in Frames :
           f # t /\ ~(HasCaller /\ f = Caller) => frame'[f] = frame[f]
      /\ \A f \in Frames :
           /\ frame'[f].fn = frame[f].fn
           /\ frame'[f].pc = IF f = t THEN frame[f].pc + 1 ELSE frame[f].pc
           /\ frame'[f].waits = IF f = t THEN frame[f].waits + 1 ELSE frame[f].waits
           /\ frame'[f].on = IF f = t THEN Value[2] ELSE frame[f].on
           /\ frame'[f].failed = frame[f].failed /\ frame'[f].result = frame[f].result
           /\ \A x \in Variables : frame'[f].variables[x] =
                IF HasCaller /\ f = Caller /\ x = LastOf(f).var THEN Promise(q)
                ELSE frame[f].variables[x]
  BY <1>1, <1>2, SuspendEffect
<1>4. stack' = Below /\ At("await") /\ Value[1] = "promise" /\ AsyncInv'
  BY AsyncNext DEF Suspend, Next, Runs
<1>5. stack # <<>> /\ Sound(Value) /\ frame[t].failed = None /\ frame[t].pc \in Nat
  BY <1>1, <1>4, AtFacts
<1>6. q \in Outer /\ q[1] = t /\ q \notin HostPromises
  BY <1>1, <1>2, SuspendPromises, OuterFacts
<1>7. ASSUME NEW f \in Frames, f # t PROVE Same(f)
  <2>1. CASE HasCaller /\ f = Caller
    <3>1. Seen(Promise(q)) = <<"call", Top>>
      BY <1>1, <1>6 DEF Seen, Promise
    <3>2. /\ frame'[f].fn = frame[f].fn /\ frame'[f].pc = frame[f].pc
          /\ frame'[f].on = frame[f].on /\ frame'[f].failed = frame[f].failed
          /\ frame'[f].result = frame[f].result
      BY <1>3, <1>7
    <3>3. \A x \in Variables : frame'[f].variables[x] =
            IF x = LastOf(f).var THEN Promise(q) ELSE frame[f].variables[x]
      BY <1>3, <2>1
    <3> QED
      BY <1>4, <1>5, <2>1, <3>1, <3>2, <3>3, CallerGiven
  <2>2. CASE ~(HasCaller /\ f = Caller)
    BY <1>1, <1>3, <1>4, <1>5, <1>7, <2>2, OthersLeft
  <2> QED
    BY <2>1, <2>2
<1>8. Same(t)
  <2>1. Value[2] # None
    BY <1>4, <1>5, PromiseAwaited, NoneApart
  <2>2. /\ frame'[t].fn = frame[t].fn /\ frame'[t].result = frame[t].result
        /\ frame'[t].pc = frame[t].pc + 1 /\ frame'[t].on = Value[2]
        /\ frame'[t].failed = None
    BY <1>3, <1>5
  <2>3. frame[t].on = None /\ frame[t].result = <<"going">>
    BY <1>1, <1>5, TopFacts
  <2>4. PositionIn(frame'[t]) = PositionIn(frame[t])
    BY <1>5, <2>1, <2>2, <2>3 DEF PositionIn
  <2>5. \A x \in Variables : frame'[t].variables[x] = frame[t].variables[x]
    BY <1>1, <1>3, <1>5, CallerFacts
  <2>6. CalleesIn(stack, None, t) = {}
    BY <1>1, <1>5, TopSeen
  <2>7. CalleesIn(stack', None, t) = {}
    <3>1. /\ stack' \in Seq(Frames)
          /\ \A i \in DOMAIN stack' : frame'[stack'[i]].on = None
      BY <1>4 DEF AsyncInv, StackSound
    <3>2. \A i \in DOMAIN stack' : stack'[i] # t
      BY <2>1, <2>2, <3>1
    <3>3. CalleesIn(stack', None, t) = {None} \ {None}
      BY <3>1, <3>2, NoCallees
    <3> QED
      BY <3>3
  <2>8. ASSUME NEW x \in Variables
        PROVE  VariableIn(frame'[t], CalleesIn(stack', frame'[t].failed, t), x)
                 = VariableIn(frame[t], CalleesIn(stack, frame[t].failed, t), x)
    BY <1>5, <2>2, <2>3, <2>5, <2>6, <2>7 DEF VariableIn
  <2> QED
    BY <2>2, <2>4, <2>8, SameSeen
<1>9. \A p \in HostPromises : promise'[p] = promise[p]
  <2>1. /\ frame[t].waits \in Nat /\ frame[t].waits + 1 \in Waits
        /\ \A p \in Promises : promise'[p] =
             IF p = q THEN Unsettled
             ELSE IF frame[t].waits # 0 /\ p = <<t, frame[t].waits>>
             THEN ResolvedWith(Promise(q)) ELSE promise[p]
    BY <1>1, <1>2, SuspendPromises
  <2>2. frame[t].waits # 0 => <<t, frame[t].waits>> \notin HostPromises
    <3>1. frame[t].waits # 0 => frame[t].waits \in Waits
      BY <2>1, AsyncAssumption DEF Waits
    <3> QED
      BY <3>1, OuterFacts
  <2> QED
    BY <1>6, <2>1, <2>2 DEF Promises
<1> QED
  BY <1>7, <1>8, <1>9, NothingChanges, HostsStaySeen DEF Stutters

\* The frame on top goes on.
LEMMA GoesSeen ==
    ASSUME AsyncInv, NEW value, NEW op, At(op), Goes(value), NEW t, t = Top,
           NEW v, Seen(value) = v
    PROVE  /\ SeenCalls!Advance(t) /\ SeenCalls!Assign(t, v)
           /\ SeenCode' = SeenCode /\ SeenResults' = SeenResults
<1>1. /\ t \in Frames /\ stack # <<>> /\ frame[t].failed = None /\ stack' = stack
      /\ Instruction.var \in Variables
  BY AtFacts, TopFacts DEF Goes
<1>2. /\ \A f \in Frames : f # t => frame'[f] = frame[f]
      /\ frame'[t].fn = frame[t].fn /\ frame'[t].pc = frame[t].pc + 1
      /\ frame'[t].on = frame[t].on
      /\ frame'[t].failed = frame[t].failed /\ frame'[t].result = frame[t].result
      /\ \A x \in Variables : frame'[t].variables[x] =
           IF x = Instruction.var THEN value ELSE frame[t].variables[x]
  BY GoesEffect
<1>3. \A f \in Frames : f # t => Same(f)
  BY <1>1, <1>2, FrameStaysSeen
<1>4. /\ frame[t].on = None /\ frame[t].result = <<"going">>
      /\ CalleesIn(stack, None, t) = {}
      /\ SeenPositions[t] = frame[t].pc
      /\ \A x \in Variables : SeenVariables[t][x] = Seen(frame[t].variables[x])
  BY <1>1, TopFacts, TopSeen
<1>5. SeenCode'[t] = SeenCode[t] /\ SeenResults'[t] = SeenResults[t]
  <2>1. SeenCode[t] = frame[t].fn /\ SeenResults[t] = SeenResult(frame[t].result)
    BY <1>1, SeenOne
  <2>2. SeenCode'[t] = frame'[t].fn /\ SeenResults'[t] = SeenResult(frame'[t].result)
    BY <1>1, SeenOneNext
  <2> QED
    BY <1>2, <2>1, <2>2
<1>6. SeenPositions'[t] = SeenPositions[t] + 1
  BY <1>1, <1>2, <1>4, SeenOneNext DEF PositionIn
<1>7. SeenCalls!Variable(t) = Instruction.var
  BY AtSeen
<1>8. ASSUME NEW x \in Variables
      PROVE  SeenVariables'[t][x] = IF x = Instruction.var THEN v ELSE SeenVariables[t][x]
  <2>1. SeenVariables'[t][x] =
          VariableIn(frame'[t], CalleesIn(stack', frame'[t].failed, t), x)
    BY <1>1, SeenOneNext
  <2>2. CalleesIn(stack', frame'[t].failed, t) = {}
    BY <1>1, <1>2, <1>4
  <2>3. SeenVariables'[t][x] = Seen(frame'[t].variables[x])
    BY <1>2, <1>4, <2>1, <2>2 DEF VariableIn
  <2> QED
    BY <1>2, <1>4, <2>3
<1> QED
  BY <1>1, <1>3, <1>5, <1>6, <1>7, <1>8, AdvanceSeen

LEMMA AskSeen == AsyncInv /\ Ask => SeenCalls!Next
<1> SUFFICES ASSUME AsyncInv, Ask PROVE SeenCalls!Next
  OBVIOUS
<1>1. PICK t \in Frames : t = Top
  BY AtFacts, TopFacts DEF Ask
<1>2. PICK p : p = FreshPromise
  OBVIOUS
<1>3. /\ p \in HostPromises /\ p \in Promises /\ promise[p] = Unmade
      /\ \A q \in Promises : promise'[q] = IF q = p THEN Unsettled ELSE promise[q]
  BY <1>2, AskPromises
<1>4. At("ask") /\ Goes(Promise(p))
  BY <1>2 DEF Ask
<1>5. Seen(Promise(p)) = SeenCalls!HostPromise(p)
  BY <1>3 DEF Seen, Promise, SeenCalls!HostPromise
<1>6. /\ SeenCalls!Advance(t) /\ SeenCalls!Assign(t, SeenCalls!HostPromise(p))
      /\ SeenCode' = SeenCode /\ SeenResults' = SeenResults
  BY <1>1, <1>4, <1>5, GoesSeen
<1>7. SeenHosts[p] = "none" /\ SeenHosts' = [SeenHosts EXCEPT ![p] = "pending"]
  <2>1. \A r \in HostPromises :
          promise'[r].is = IF r = p THEN "pending" ELSE promise[r].is
    BY <1>3 DEF Unsettled, Promises
  <2>2. promise[p].is = "none"
    BY <1>3 DEF Unmade
  <2> QED
    BY <1>3, <2>1, <2>2 DEF SeenHosts
<1>8. SeenCalls!At(t, "ask")
  BY <1>1, <1>4, AtSeen
<1>9. SeenCalls!Ask(t, p)
  BY <1>6, <1>7, <1>8 DEF SeenCalls!Ask
<1> QED
  BY <1>3, <1>9 DEF SeenCalls!Next

LEMMA ImportSeen == AsyncInv /\ Import => SeenCalls!Next
<1> SUFFICES ASSUME AsyncInv, Import PROVE SeenCalls!Next
  OBVIOUS
<1>1. PICK t \in Frames : t = Top
  BY AtFacts, TopFacts DEF Import
<1>2. At("import") /\ Goes(Marked(Datum(Module))) /\ UNCHANGED promise
  BY DEF Import
<1>3. Seen(Marked(Datum(Module))) = SeenCalls!Imported
  BY DEF Seen, Marked, SeenCalls!Imported
<1>4. /\ SeenCalls!Advance(t) /\ SeenCalls!Assign(t, SeenCalls!Imported)
      /\ SeenCode' = SeenCode /\ SeenResults' = SeenResults
  BY <1>1, <1>2, <1>3, GoesSeen
<1>5. SeenCalls!At(t, "import")
  BY <1>1, <1>2, AtSeen
<1>6. SeenHosts' = SeenHosts
  BY <1>2, HostsStaySeen
<1> QED
  BY <1>4, <1>5, <1>6 DEF SeenCalls!Next, SeenCalls!Import

\* The outcome of a value that is not a promise nor a thenable is what await_value gives.
LEMMA AwaitSeen == AsyncInv /\ Await /\ ~AwaitsThenable => SeenCalls!Next
<1> SUFFICES ASSUME AsyncInv, Await, ~AwaitsThenable PROVE SeenCalls!Next
  OBVIOUS
<1>1. PICK t \in Frames : t = Top
  BY AtFacts, TopFacts DEF Await
<1>2. /\ At("await") /\ Value[1] # "promise" /\ Value[1] # "resolved" /\ UNCHANGED promise
      /\ Sound(Value)
  BY AtFacts DEF Await, AwaitsThenable
<1>3. PICK v : v = AwaitValue(Value) /\ Goes(v)
  BY DEF Await
<1>4. \/ \E d : Value = Datum(d) /\ v = Datum(d)
      \/ Value = Marked(Datum(Module)) /\ v = Datum(Module)
  <2>1. \/ \E d : Value = Datum(d)
        \/ Value = Marked(Datum(Module))
    BY <1>2 DEF Sound, Promise, Resolved
  <2> QED
    BY <1>3, <2>1 DEF AwaitValue, Datum, Marked
<1>5. /\ OutcomeIn(SeenResults, SeenHosts, Seen(Value)) = v
      /\ Seen(v) = v /\ v \notin {SeenCalls!Pending, SeenCalls!Rejected}
  <2>1. CASE \E d : Value = Datum(d) /\ v = Datum(d)
    <3>1. PICK d : Value = Datum(d) /\ v = Datum(d)
      BY <2>1
    <3>2. Seen(Value) = Datum(d) /\ Seen(v) = v
      BY <3>1 DEF Seen, Datum
    <3>3. OutcomeIn(SeenResults, SeenHosts, Datum(d)) = Datum(d)
      BY DEF OutcomeIn, OwnIn, Datum
    <3> QED
      BY <3>1, <3>2, <3>3 DEF Datum, SeenCalls!Pending, SeenCalls!Rejected
  <2>2. CASE Value = Marked(Datum(Module)) /\ v = Datum(Module)
    <3>1. Seen(Value) = <<"import">> /\ Seen(v) = v
      BY <2>2 DEF Seen, Datum, Marked
    <3>2. OutcomeIn(SeenResults, SeenHosts, <<"import">>) = Datum(Module)
      BY DEF OutcomeIn, OwnIn
    <3> QED
      BY <2>2, <3>1, <3>2 DEF Datum, SeenCalls!Pending, SeenCalls!Rejected
  <2> QED
    BY <1>4, <2>1, <2>2
<1>6. SeenCalls!Outcome(SeenCalls!Value(t)) = v
  BY <1>1, <1>2, <1>5, AtSeen, OutcomesSeen
<1>7. /\ SeenCalls!Advance(t) /\ SeenCalls!Assign(t, v)
      /\ SeenCode' = SeenCode /\ SeenResults' = SeenResults
  BY <1>1, <1>2, <1>3, <1>5, GoesSeen
<1>8. SeenCalls!At(t, "await") /\ SeenHosts' = SeenHosts
  BY <1>1, <1>2, AtSeen, HostsStaySeen
<1>9. SeenCalls!Await(t)
  BY <1>5, <1>6, <1>7, <1>8 DEF SeenCalls!Await
<1> QED
  BY <1>9 DEF SeenCalls!Next

LEMMA ResumeSeen == ASSUME AsyncInv, NEW t \in Frames, Resume(t) PROVE SeenCalls!Next
<1>1. /\ frame[t].on \in Promises /\ frame[t].on # None
      /\ promise[frame[t].on].is = "fulfilled"
      /\ \A f \in Frames : f # t => frame'[f] = frame[f]
      /\ frame'[t].fn = frame[t].fn /\ frame'[t].pc = frame[t].pc
      /\ frame'[t].on = None
      /\ frame'[t].failed = frame[t].failed /\ frame'[t].result = frame[t].result
      /\ \A x \in Variables : frame'[t].variables[x] =
           IF x = LastOf(t).var THEN promise[frame[t].on].value
           ELSE frame[t].variables[x]
  BY ResumeEffect
<1>2. PICK v : v = promise[frame[t].on].value /\ v[1] = "datum"
  BY <1>1, PromiseFacts DEF AsyncInv
<1>3. /\ LastOf(t).var \in Variables
      /\ SeenCalls!At(t, "await") /\ SeenCalls!Variable(t) = LastOf(t).var
      /\ SeenCalls!Value(t) = Seen(Promise(frame[t].on))
      /\ SeenPositions[t] = frame[t].pc - 1
      /\ CalleesIn(stack, None, t) = {None} \ {None}
      /\ frame[t].failed = None
      /\ \A x \in Variables : SeenVariables[t][x] = Seen(frame[t].variables[x])
  BY <1>1, WaiterSeen
<1>4. SeenCalls!Outcome(SeenCalls!Value(t)) = v
  BY <1>1, <1>2, <1>3, PromiseOutcome, OutcomesSeen
<1>5. Seen(v) = v /\ v \notin {SeenCalls!Pending, SeenCalls!Rejected}
  BY <1>2 DEF Seen, SeenCalls!Pending, SeenCalls!Rejected
<1>6. stack = <<>> /\ stack' = <<t>> /\ UNCHANGED promise
  BY DEF Resume
<1>7. \A d, f : CalleesIn(stack, d, f) = {d} \ {None} /\ CalleesIn(stack', d, f) = {d} \ {None}
  <2>1. stack \in Seq(Frames) /\ DOMAIN stack = {}
    BY <1>6
  <2>2. stack' \in Seq(Frames) /\ DOMAIN stack' = {1} /\ Len(stack') = 1
    BY <1>6
  <2> QED
    BY <2>1, <2>2, NoCallees
<1>8. ASSUME NEW f \in Frames, f # t PROVE Same(f)
  <2>1. CalleesIn(stack', frame[f].failed, f) = CalleesIn(stack, frame[f].failed, f)
    BY <1>7
  <2> QED
    BY <1>1, <1>8, <2>1, FrameStaysSeen
<1>9. frame[t].result = <<"going">> /\ frame[t].pc \in Nat
  <2>1. Going(t)
    BY <1>1 DEF AsyncInv, WaitsSound, WaitSound
  <2> QED
    BY <2>1, FrameFacts DEF AsyncInv, Going
<1>10. SeenCode'[t] = SeenCode[t] /\ SeenResults'[t] = SeenResults[t]
  <2>1. SeenCode[t] = frame[t].fn /\ SeenResults[t] = SeenResult(frame[t].result)
    BY <1>1, SeenOne
  <2>2. SeenCode'[t] = frame'[t].fn /\ SeenResults'[t] = SeenResult(frame'[t].result)
    BY <1>1, SeenOneNext
  <2> QED
    BY <1>1, <2>1, <2>2
<1>11. SeenPositions'[t] = SeenPositions[t] + 1
  <2>1. SeenPositions'[t] = frame[t].pc
    BY <1>1, <1>9, SeenOneNext DEF PositionIn
  <2>2. (frame[t].pc - 1) + 1 = frame[t].pc
    BY <1>9
  <2> QED
    BY <1>3, <2>1, <2>2
<1>12. ASSUME NEW x \in Variables
       PROVE  SeenVariables'[t][x] =
                IF x = SeenCalls!Variable(t) THEN v ELSE SeenVariables[t][x]
  <2>1. SeenVariables'[t][x] =
          VariableIn(frame'[t], CalleesIn(stack', frame'[t].failed, t), x)
    BY SeenOneNext
  <2>2. CalleesIn(stack', frame'[t].failed, t) = {}
    BY <1>1, <1>3, <1>7
  <2>3. SeenVariables'[t][x] = Seen(frame'[t].variables[x])
    BY <1>1, <1>9, <2>1, <2>2 DEF VariableIn
  <2> QED
    BY <1>1, <1>2, <1>3, <1>5, <2>3
<1>13. /\ SeenCalls!Advance(t) /\ SeenCalls!Assign(t, v)
       /\ SeenCode' = SeenCode /\ SeenResults' = SeenResults
  BY <1>3, <1>8, <1>10, <1>11, <1>12, AdvanceSeen
<1>14. SeenHosts' = SeenHosts
  BY <1>6, HostsStaySeen
<1>15. SeenCalls!Await(t)
  BY <1>3, <1>4, <1>5, <1>13, <1>14 DEF SeenCalls!Await
<1> QED
  BY <1>15 DEF SeenCalls!Next

LEMMA RejectSeen == ASSUME AsyncInv, NEW t \in Frames, Reject(t) PROVE SeenCalls!Next
<1>1. /\ frame[t].on \in Promises /\ frame[t].on # None
      /\ promise[frame[t].on].is = "rejected"
      /\ \A f \in Frames : f # t => frame'[f] = frame[f]
      /\ frame'[t].fn = frame[t].fn /\ frame'[t].result = <<"failed">>
  BY RejectEffect
<1>2. /\ SeenCalls!At(t, "await")
      /\ SeenCalls!Value(t) = Seen(Promise(frame[t].on))
  BY <1>1, WaiterSeen
<1>3. SeenCalls!Outcome(SeenCalls!Value(t)) = SeenCalls!Rejected
  BY <1>1, <1>2, PromiseOutcome, OutcomesSeen
<1>4. \A f \in Frames : f # t => Same(f)
  BY <1>1, FrameStaysSeen DEF Reject
<1>5. SeenHosts' = SeenHosts
  <2>1. /\ frame[t].waits \in Waits
        /\ \A q \in Promises : promise'[q] =
             IF q = <<t, frame[t].waits>> THEN Rejected ELSE promise[q]
    BY RejectPromises
  <2>2. \A p \in HostPromises : promise'[p] = promise[p]
    BY <2>1, OuterFacts DEF Promises
  <2> QED
    BY <2>2, HostsStaySeen
<1>6. frame'[t].result # <<"going">> /\ SeenResult(frame'[t].result) = SeenCalls!Failed
  BY <1>1, ResultFacts
<1>7. SeenCalls!End(t, SeenCalls!Failed)
  BY <1>1, <1>4, <1>5, <1>6, EndSeen
<1>8. SeenCalls!AwaitRejected(t)
  BY <1>2, <1>3, <1>7 DEF SeenCalls!AwaitRejected
<1> QED
  BY <1>8 DEF SeenCalls!Next

\* A call takes a frame that is seen to have run nothing.
LEMMA EnteredSeen ==
    ASSUME NEW n \in Frames, frame[n] = NoFrame, NEW fn, frame'[n] = Enter(fn),
           CalleesIn(stack, None, n) = {}, CalleesIn(stack', None, n) = {}
    PROVE  /\ SeenCode[n] = None /\ SeenCode'[n] = fn
           /\ SeenPositions'[n] = SeenPositions[n] /\ SeenVariables'[n] = SeenVariables[n]
           /\ SeenResults'[n] = SeenResults[n]
<1>1. /\ frame'[n].fn = fn /\ frame'[n].pc = 1 /\ frame'[n].on = None
      /\ frame'[n].failed = None /\ frame'[n].result = <<"going">>
      /\ \A x \in Variables : frame'[n].variables[x] = Datum(Undefined)
  BY EnterFacts
<1>2. /\ frame[n].fn = None /\ frame[n].pc = 1 /\ frame[n].on = None
      /\ frame[n].failed = None /\ frame[n].result = <<"going">>
      /\ \A x \in Variables : frame[n].variables[x] = Datum(Undefined)
  BY NoFrameFacts
<1>3. SeenCode[n] = None /\ SeenPositions[n] = 1 /\ SeenResults[n] = SeenResult(<<"going">>)
  BY <1>2, SeenOne DEF PositionIn
<1>4. SeenCode'[n] = fn /\ SeenPositions'[n] = 1 /\ SeenResults'[n] = SeenResult(<<"going">>)
  BY <1>1, SeenOneNext DEF PositionIn
<1>5. ASSUME NEW x \in Variables PROVE SeenVariables'[n][x] = SeenVariables[n][x]
  <2>1. SeenVariables[n][x] = VariableIn(frame[n], {}, x)
    BY <1>2, SeenOne
  <2>2. SeenVariables'[n][x] = VariableIn(frame'[n], {}, x)
    BY <1>1, SeenOneNext
  <2> QED
    BY <1>1, <1>2, <2>1, <2>2 DEF VariableIn
<1>6. SeenVariables'[n] = SeenVariables[n]
  <2>1. SeenVariables[n] = [x \in Variables |-> SeenVariables[n][x]]
    BY SeenOne
  <2>2. SeenVariables'[n] = [x \in Variables |-> SeenVariables'[n][x]]
    BY SeenOneNext
  <2> QED
    BY <1>5, <2>1, <2>2
<1> QED
  BY <1>3, <1>4, <1>6

LEMMA StartSeen == AsyncInv /\ Start => SeenCalls!Next
<1> SUFFICES ASSUME AsyncInv, Start PROVE SeenCalls!Next
  OBVIOUS
<1>1. PICK n : n = Fresh
  OBVIOUS
<1>2. /\ n \in Frames /\ frame[n] = NoFrame /\ Head(script) \in Functions
      /\ stack = <<>> /\ stack' = <<n>> /\ UNCHANGED promise
      /\ \A f \in Frames : frame'[f] = IF f = n THEN Enter(Head(script)) ELSE frame[f]
  BY <1>1, StartEffect DEF Start
<1>3. \A d, f : CalleesIn(stack, d, f) = {d} \ {None} /\ CalleesIn(stack', d, f) = {d} \ {None}
  <2>1. stack \in Seq(Frames) /\ DOMAIN stack = {}
    BY <1>2
  <2>2. stack' \in Seq(Frames) /\ DOMAIN stack' = {1} /\ Len(stack') = 1
    BY <1>2
  <2> QED
    BY <2>1, <2>2, NoCallees
<1>4. ASSUME NEW f \in Frames, f # n PROVE Same(f)
  <2>1. CalleesIn(stack', frame[f].failed, f) = CalleesIn(stack, frame[f].failed, f)
    BY <1>3
  <2> QED
    BY <1>2, <1>4, <2>1, FrameStaysSeen
<1>5. CalleesIn(stack, None, n) = {} /\ CalleesIn(stack', None, n) = {}
  BY <1>3
<1>6. /\ SeenCode[n] = None /\ SeenCode'[n] = Head(script)
      /\ SeenPositions'[n] = SeenPositions[n] /\ SeenVariables'[n] = SeenVariables[n]
      /\ SeenResults'[n] = SeenResults[n]
  BY <1>2, <1>5, EnteredSeen
<1>7. /\ SeenCode' = [SeenCode EXCEPT ![n] = Head(script)]
      /\ SeenPositions' = [SeenPositions EXCEPT ![n] = SeenPositions[n]]
      /\ SeenVariables' = [SeenVariables EXCEPT ![n] = SeenVariables[n]]
      /\ SeenResults' = [SeenResults EXCEPT ![n] = SeenResults[n]]
  BY <1>2, <1>4, <1>6, OneChanges
<1>8. /\ SeenPositions' = SeenPositions /\ SeenVariables' = SeenVariables
      /\ SeenResults' = SeenResults /\ SeenHosts' = SeenHosts
  BY <1>2, <1>7, HostsStaySeen DEF SeenPositions, SeenVariables, SeenResults
<1>9. SeenCalls!Start(n, Head(script))
  BY <1>6, <1>7, <1>8 DEF SeenCalls!Start
<1> QED
  BY <1>2, <1>9 DEF SeenCalls!Next

LEMMA CallSeen == AsyncInv /\ Call => SeenCalls!Next
<1> SUFFICES ASSUME AsyncInv, Call PROVE SeenCalls!Next
  OBVIOUS
<1>1. PICK n : n = Fresh
  OBVIOUS
<1>2. PICK t : t = Top
  OBVIOUS
<1>3. /\ n \in Frames /\ frame[n] = NoFrame /\ n # t /\ t \in Frames
      /\ Instruction.callee \in Functions
      /\ stack' = Append(stack, n)
      /\ \A f \in Frames : f # n /\ f # t => frame'[f] = frame[f]
      /\ frame'[n] = Enter(Instruction.callee)
      /\ frame'[t].fn = frame[t].fn /\ frame'[t].pc = frame[t].pc + 1
      /\ frame'[t].on = frame[t].on
      /\ frame'[t].failed = frame[t].failed /\ frame'[t].result = frame[t].result
      /\ frame'[t].variables = frame[t].variables
  BY <1>1, <1>2, CallEffect
<1>4. /\ At("call") /\ stack # <<>> /\ frame[t].failed = None /\ UNCHANGED promise
      /\ Instruction = Body[frame[t].fn][frame[t].pc] /\ Instruction.var \in Variables
      /\ frame[t].pc \in Nat
  BY <1>2, AtFacts DEF Call, Instruction
<1>5. /\ stack \in Seq(Frames) /\ t = stack[Len(stack)]
      /\ \A i \in DOMAIN stack : stack[i] # n
      /\ Len(stack) \in Nat /\ Len(stack) >= 1 /\ DOMAIN stack = 1..Len(stack)
  BY <1>2, <1>3, <1>4, TopFacts, NoFrameFacts DEF AsyncInv, StackSound, Going, Top
<1>6. ASSUME NEW f \in Frames, f # n, f # t PROVE Same(f)
  <2>1. CalleesIn(stack', frame[f].failed, f) = CalleesIn(stack, frame[f].failed, f)
    BY <1>3, <1>5, <1>6, CalleesPushed
  <2> QED
    BY <1>3, <1>6, <2>1, FrameStaysSeen
<1>7. /\ SeenCode[n] = None /\ SeenCode'[n] = Instruction.callee
      /\ SeenPositions'[n] = SeenPositions[n] /\ SeenVariables'[n] = SeenVariables[n]
      /\ SeenResults'[n] = SeenResults[n]
  <2>1. CalleesIn(stack, None, n) = {}
    <3>1. CalleesIn(stack, None, n) = {None} \ {None}
      BY <1>5, NoCallees
    <3> QED
      BY <3>1
  <2>2. CalleesIn(stack', None, n) = {}
    <3>1. CalleesIn(stack', None, n) = CalleesIn(stack, None, n)
      BY <1>3, <1>5, CalleesPushed
    <3> QED
      BY <2>1, <3>1
  <2> QED
    BY <1>3, <2>1, <2>2, EnteredSeen
<1>8. /\ SeenCode[t] = frame[t].fn /\ SeenPositions[t] = frame[t].pc
      /\ SeenResults[t] = SeenResult(frame[t].result)
      /\ \A x \in Variables : SeenVariables[t][x] = Seen(frame[t].variables[x])
      /\ frame[t].on = None /\ frame[t].result = <<"going">>
  <2>1. frame[t].on = None /\ frame[t].result = <<"going">>
    BY <1>2, <1>4, TopFacts
  <2>2. /\ SeenCode[t] = frame[t].fn /\ SeenPositions[t] = frame[t].pc
        /\ \A x \in Variables : SeenVariables[t][x] = Seen(frame[t].variables[x])
    BY <1>2, <1>4, TopSeen
  <2>3. SeenResults[t] = SeenResult(frame[t].result)
    BY <1>3, SeenOne
  <2> QED
    BY <2>1, <2>2, <2>3
<1>9. SeenCode'[t] = SeenCode[t] /\ SeenResults'[t] = SeenResults[t]
  <2>1. SeenCode'[t] = frame'[t].fn /\ SeenResults'[t] = SeenResult(frame'[t].result)
    BY <1>3, SeenOneNext
  <2> QED
    BY <1>3, <1>8, <2>1
<1>10. SeenPositions'[t] = SeenPositions[t] + 1
  BY <1>3, <1>8, SeenOneNext DEF PositionIn
<1>11. CalleesIn(stack', None, t) = {n}
  <2>1. /\ stack' \in Seq(Frames) /\ Len(stack') = Len(stack) + 1
        /\ stack'[Len(stack) + 1] = n /\ stack'[Len(stack)] = t
    BY <1>3, <1>5
  <2>2. Len(stack') > 1 /\ Len(stack') - 1 = Len(stack)
    BY <1>5, <2>1
  <2>3. AsyncInv'
    BY AsyncNext DEF Next, Runs
  <2>4. \A i, j \in DOMAIN stack' : stack'[i] = stack'[j] => i = j
    BY <2>3 DEF AsyncInv, StackSound
  <2>5. CalleesIn(stack', None, stack'[Len(stack') - 1]) = {stack'[Len(stack')]}
    BY <2>1, <2>2, <2>4, OneCallee
  <2> QED
    BY <2>1, <2>2, <2>5
<1>12. SeenVariables'[t] = [SeenVariables[t] EXCEPT ![Instruction.var] = SeenCalls!PromiseOf(n)]
  <2>1. ASSUME NEW x \in Variables
        PROVE  SeenVariables'[t][x] =
                 IF x = Instruction.var THEN SeenCalls!PromiseOf(n) ELSE SeenVariables[t][x]
    <3>1. SeenVariables'[t][x] =
            VariableIn(frame'[t], CalleesIn(stack', frame'[t].failed, t), x)
      BY <1>3, SeenOneNext
    <3>2. CalleesIn(stack', frame'[t].failed, t) = {n}
      BY <1>3, <1>4, <1>11
    <3>3. (CHOOSE d \in {n} : TRUE) = n
      OBVIOUS
    <3>4. Body[frame'[t].fn][frame'[t].pc - 1] = Instruction
      <4>1. (frame[t].pc + 1) - 1 = frame[t].pc
        BY <1>4
      <4> QED
        BY <1>3, <1>4, <4>1
    <3>5. VariableIn(frame'[t], {n}, x) =
            IF x = Instruction.var THEN <<"call", n>> ELSE Seen(frame[t].variables[x])
      BY <1>3, <1>8, <3>3, <3>4 DEF VariableIn
    <3> QED
      BY <1>8, <3>1, <3>2, <3>5 DEF SeenCalls!PromiseOf
  <2>2. /\ SeenVariables[t] = [x \in Variables |-> SeenVariables[t][x]]
        /\ SeenVariables'[t] = [x \in Variables |-> SeenVariables'[t][x]]
    BY <1>3, SeenOne, SeenOneNext
  <2> QED
    BY <2>1, <2>2
<1>13. /\ SeenCode' = [SeenCode EXCEPT ![n] = Instruction.callee]
       /\ SeenPositions' = [SeenPositions EXCEPT ![t] = @ + 1]
       /\ SeenVariables' = [SeenVariables EXCEPT ![t][Instruction.var] = SeenCalls!PromiseOf(n)]
       /\ SeenResults' = SeenResults
  <2>1. /\ SeenCode' = [f \in Frames |-> SeenCode'[f]]
        /\ SeenPositions' = [f \in Frames |-> SeenPositions'[f]]
        /\ SeenVariables' = [f \in Frames |-> SeenVariables'[f]]
        /\ SeenResults' = [f \in Frames |-> SeenResults'[f]]
    BY DEF SeenCode, SeenPositions, SeenVariables, SeenResults
  <2>2. /\ SeenCode = [f \in Frames |-> SeenCode[f]]
        /\ SeenPositions = [f \in Frames |-> SeenPositions[f]]
        /\ SeenVariables = [f \in Frames |-> SeenVariables[f]]
        /\ SeenResults = [f \in Frames |-> SeenResults[f]]
    BY DEF SeenCode, SeenPositions, SeenVariables, SeenResults
  <2>3. \A f \in Frames : f # n /\ f # t =>
          /\ SeenCode'[f] = SeenCode[f] /\ SeenPositions'[f] = SeenPositions[f]
          /\ SeenVariables'[f] = SeenVariables[f] /\ SeenResults'[f] = SeenResults[f]
    BY <1>6 DEF Same
  <2>4. SeenCode' = [SeenCode EXCEPT ![n] = Instruction.callee]
    BY <1>3, <1>7, <1>9, <2>1, <2>2, <2>3
  <2>5. SeenPositions' = [SeenPositions EXCEPT ![t] = @ + 1]
    BY <1>3, <1>7, <1>10, <2>1, <2>2, <2>3
  <2>6. SeenVariables' = [SeenVariables EXCEPT ![t][Instruction.var] = SeenCalls!PromiseOf(n)]
    BY <1>3, <1>7, <1>12, <2>1, <2>2, <2>3
  <2>7. SeenResults' = SeenResults
    BY <1>3, <1>7, <1>9, <2>1, <2>2, <2>3
  <2> QED
    BY <2>4, <2>5, <2>6, <2>7
<1>14. /\ SeenCalls!At(t, "call") /\ SeenCalls!Variable(t) = Instruction.var
       /\ Body[SeenCode[t]][SeenPositions[t]] = Instruction
  BY <1>2, <1>4, AtSeen
<1>15. SeenHosts' = SeenHosts
  BY <1>4, HostsStaySeen
<1>16. SeenCalls!Call(t, n)
  BY <1>7, <1>13, <1>14, <1>15 DEF SeenCalls!Call, SeenCalls!Advance, SeenCalls!Assign
<1> QED
  BY <1>3, <1>16 DEF SeenCalls!Next

LEMMA HostSettlesSeen ==
    ASSUME AsyncInv, NEW p \in HostPromises, HostSettles(p) PROVE SeenCalls!Next
<1>1. /\ p \in Promises /\ promise[p].is = "pending"
      /\ promise'[p] \in {ResolvedWith(Datum(p)), Rejected}
      /\ \A q \in Promises : q # p => promise'[q] = promise[q]
  BY HostSettlesPromises
<1>2. PICK s \in {"fulfilled", "rejected"} : promise'[p].is = s
  BY <1>1 DEF ResolvedWith, Datum, Rejected
<1>3. SeenHosts[p] = "pending" /\ SeenHosts' = [SeenHosts EXCEPT ![p] = s]
  <2>1. \A r \in HostPromises : promise'[r].is = IF r = p THEN s ELSE promise[r].is
    BY <1>1, <1>2 DEF Promises
  <2> QED
    BY <1>1, <2>1 DEF SeenHosts
<1>4. UNCHANGED <<frame, stack>>
  BY DEF HostSettles
<1>5. \A f \in Frames : Same(f)
  BY <1>4, FrameStaysSeen
<1>6. /\ SeenCode' = SeenCode /\ SeenPositions' = SeenPositions
      /\ SeenVariables' = SeenVariables /\ SeenResults' = SeenResults
  BY <1>5, NothingChanges
<1>7. SeenCalls!Settle(p, s)
  BY <1>2, <1>3, <1>6 DEF SeenCalls!Settle
<1> QED
  BY <1>7 DEF SeenCalls!Next

LEMMA AdoptSeen == ASSUME AsyncInv, NEW q \in Outer, Adopt(q) PROVE Stutters
<1>1. UNCHANGED <<frame, stack>> /\ q \notin HostPromises
  BY AsyncAssumption DEF Adopt
<1>2. \A p \in HostPromises : promise'[p] = promise[p]
  BY <1>1, AdoptPromises DEF Promises
<1>3. \A f \in Frames : Same(f)
  BY <1>1, FrameStaysSeen
<1> QED
  BY <1>2, <1>3, NothingChanges, HostsStaySeen DEF Stutters

LEMMA InitSeen == Init => SeenCalls!Init
<1> SUFFICES ASSUME Init PROVE SeenCalls!Init
  OBVIOUS
<1>1. /\ \A f \in Frames : frame[f] = NoFrame
      /\ \A q \in Promises : promise[q] = Unmade
      /\ stack = <<>>
  BY DEF Init
<1>2. stack \in Seq(Frames) /\ DOMAIN stack = {}
  BY <1>1
<1>3. ASSUME NEW f \in Frames
      PROVE  /\ SeenCode[f] = None /\ SeenPositions[f] = 1
             /\ SeenVariables[f] = SeenCalls!NoVariables /\ SeenResults[f] = SeenCalls!Going
  <2>1. SeenCode[f] = None /\ SeenPositions[f] = 1 /\ SeenResults[f] = SeenCalls!Going
    BY <1>1, SeenOne, NoFrameFacts, ResultFacts DEF PositionIn
  <2>2. CalleesIn(stack, None, f) = {}
    <3>1. CalleesIn(stack, None, f) = {None} \ {None}
      BY <1>2, NoCallees
    <3> QED
      BY <3>1
  <2>3. ASSUME NEW x \in Variables PROVE SeenVariables[f][x] = Datum(Undefined)
    <3>1. SeenVariables[f][x] = VariableIn(NoFrame, CalleesIn(stack, NoFrame.failed, f), x)
      BY <1>1, SeenOne
    <3> QED
      BY <2>2, <3>1, NoFrameFacts DEF VariableIn, Seen, Datum
  <2>4. SeenVariables[f] = [x \in Variables |-> SeenVariables[f][x]]
    BY SeenOne
  <2>5. SeenVariables[f] = SeenCalls!NoVariables
    BY <2>3, <2>4 DEF SeenCalls!NoVariables, SeenCalls!Datum, Datum
  <2> QED
    BY <2>1, <2>5
<1>4. /\ SeenCode = [f \in Frames |-> SeenCode[f]]
      /\ SeenPositions = [f \in Frames |-> SeenPositions[f]]
      /\ SeenVariables = [f \in Frames |-> SeenVariables[f]]
      /\ SeenResults = [f \in Frames |-> SeenResults[f]]
  BY DEF SeenCode, SeenPositions, SeenVariables, SeenResults
<1>5. SeenHosts = [p \in HostPromises |-> "none"]
  BY <1>1 DEF SeenHosts, Unmade, Promises
<1> QED
  BY <1>3, <1>4, <1>5 DEF SeenCalls!Init

LEMMA NextSeen ==
    AsyncInv /\ ~AwaitsThenable /\ [Next]_vars => [SeenCalls!Next]_(SeenCalls!vars)
<1> SUFFICES ASSUME AsyncInv, ~AwaitsThenable, [Next]_vars
             PROVE  SeenCalls!Next \/ UNCHANGED SeenCalls!vars
  OBVIOUS
<1>1. Stutters => UNCHANGED SeenCalls!vars
  BY DEF Stutters, SeenCalls!vars
<1>2. CASE UNCHANGED vars
  <2>1. UNCHANGED <<frame, stack, promise>>
    BY <1>2 DEF vars
  <2>2. \A f \in Frames : Same(f)
    BY <2>1, FrameStaysSeen
  <2> QED
    BY <1>1, <2>1, <2>2, NothingChanges, HostsStaySeen DEF Stutters
<1>3. CASE Start \/ Runs
  BY <1>1, <1>3, StartSeen, CallSeen, AskSeen, ImportSeen, AwaitSeen, SuspendSeen, ReturnSeen,
     RunOffSeen, FailSeen DEF Runs
<1>4. CASE \E f \in Frames : Resume(f) \/ Reject(f)
  BY <1>4, ResumeSeen, RejectSeen
<1>5. CASE \E q \in Outer : Adopt(q)
  BY <1>1, <1>5, AdoptSeen
<1>6. CASE \E p \in HostPromises : HostSettles(p)
  BY <1>6, HostSettlesSeen
<1> QED
  BY <1>2, <1>3, <1>4, <1>5, <1>6 DEF Next

\* The executor keeps the promise that AsyncFunctions makes of async functions: however
\* frames are moved into callbacks and resumed, wait for each other and for the host, each
\* goes on from its await once, with the value awaited, and ends or fails as its body says
\* (call_async_function to async_resume_promise, BytecodeOp::Await); as long as nothing
\* awaits the thenable of a call that did not wait, which await_value does not unwrap.
THEOREM CallsAsPromised == Spec /\ []~AwaitsThenable => AsyncFunctionsSpec
<1>1. Spec => []AsyncInv
  BY AsyncInvariant
<1> QED
  BY <1>1, InitSeen, NextSeen, PTL DEF Spec, AsyncFunctionsSpec, SeenCalls!Spec

=============================================================================
