-------------------------- MODULE Generators_proofs --------------------------
(***************************************************************************)
(* Proofs about Generators: its invariants, that a generator at its end is *)
(* not revived, and that it implements GeneratorObjects.                   *)
(*                                                                         *)
(* A step leaves the executors as they are, moves the innermost one on,    *)
(* removes it or adds one (Stay, Move, Pop and Push below): what the       *)
(* actions do to the stack is proved once, and the rest follows from these *)
(* four shapes.                                                            *)
(***************************************************************************)
EXTENDS Generators, TLAPS

-----------------------------------------------------------------------------
(* The stack.                                                              *)

Unmoved(k) ==
    /\ stack'[k].gen = stack[k].gen
    /\ stack'[k].pc = stack[k].pc
    /\ stack'[k].register = stack[k].register

Stay ==
    /\ DOMAIN stack' = DOMAIN stack
    /\ \A k \in DOMAIN stack : Unmoved(k)

Move ==
    /\ stack # <<>>
    /\ DOMAIN stack' = DOMAIN stack
    /\ \A k \in DOMAIN stack : k # Len(stack) => Unmoved(k)
    /\ stack'[Len(stack)].gen = Top.gen
    /\ stack'[Len(stack)].pc = Top.pc + 1
    /\ stack'[Len(stack)].register = Top.register

Pop ==
    /\ stack # <<>>
    /\ DOMAIN stack' = DOMAIN stack \ {Len(stack)}
    /\ \A k \in DOMAIN stack' : Unmoved(k)

Push(g, v) ==
    /\ DOMAIN stack' = DOMAIN stack \cup {Len(stack) + 1}
    /\ \A k \in DOMAIN stack : Unmoved(k)
    /\ stack'[Len(stack) + 1].gen = g
    /\ stack'[Len(stack) + 1].pc = saved[g].pc
    /\ stack'[Len(stack) + 1].register = Received(g, v)

\* What is known of a stack that is not empty.
LEMMA TopAndBelow ==
    ASSUME stack \in Seq(Executors), stack # <<>>
    PROVE  /\ Len(stack) \in Nat \ {0}
           /\ DOMAIN stack = 1..Len(stack)
           /\ Top \in Executors
           /\ Below \in Seq(Executors)
           /\ Len(Below) = Len(stack) - 1
           /\ DOMAIN Below = 1..(Len(stack) - 1)
           /\ \A k \in 1..(Len(stack) - 1) : Below[k] = stack[k]
<1>1. Len(stack) \in Nat \ {0} /\ DOMAIN stack = 1..Len(stack)
  OBVIOUS
<1>2. Top \in Executors
  BY <1>1 DEF Top
<1>3. /\ Below \in Seq(Executors) /\ Len(Below) = Len(stack) - 1
      /\ DOMAIN Below = 1..(Len(stack) - 1)
  BY <1>1 DEF Below
<1>4. \A k \in 1..(Len(stack) - 1) : Below[k] = stack[k]
  BY <1>1 DEF Below
<1> QED
  BY <1>1, <1>2, <1>3, <1>4

\* Given changes nothing but the mode of the caller.
LEMMA GivenFacts ==
    ASSUME NEW result, NEW caller \in Seq(Executors)
    PROVE  /\ Given(result, caller) \in Seq(Executors)
           /\ Len(Given(result, caller)) = Len(caller)
           /\ \A k \in DOMAIN caller :
                /\ Given(result, caller)[k].gen = caller[k].gen
                /\ Given(result, caller)[k].pc = caller[k].pc
                /\ Given(result, caller)[k].register = caller[k].register
<1>1. CASE caller = <<>>
  BY <1>1 DEF Given
<1>2. CASE caller # <<>>
  <2> DEFINE n == Len(caller)
             m == IF result = Exception THEN "fails" ELSE "runs"
             e == [caller[n] EXCEPT !.mode = m]
  <2>1. n \in DOMAIN caller /\ caller[n] \in Executors
    BY <1>2
  <2>2. e \in Executors /\ e.gen = caller[n].gen /\ e.pc = caller[n].pc
        /\ e.register = caller[n].register
    BY <2>1 DEF Executors
  <2>3. Given(result, caller) = [caller EXCEPT ![n] = e]
    BY <1>2, <2>1 DEF Given
  <2> HIDE DEF e
  <2> QED
    BY <2>1, <2>2, <2>3
<1> QED
  BY <1>1, <1>2

\* An executor that goes on to its next instruction.
LEMMA MovedOn ==
    ASSUME NEW e \in Executors, NEW m \in {"runs", "asks", "fails"}
    PROVE  LET f == [e EXCEPT !.pc = @ + 1, !.mode = m]
           IN  f \in Executors /\ f.gen = e.gen /\ f.pc = e.pc + 1 /\ f.register = e.register
<1> DEFINE f == [e EXCEPT !.pc = @ + 1, !.mode = m]
           h == [e EXCEPT !.pc = @ + 1]
<1>1. h \in Executors
  BY DEF Executors
<1>2. f = [h EXCEPT !.mode = m]
  OBVIOUS
<1>3. f.gen = e.gen /\ f.pc = e.pc + 1 /\ f.register = e.register
  BY DEF Executors
<1> HIDE DEF h
<1>4. [h EXCEPT !.mode = m] \in Executors
  BY <1>1 DEF Executors
<1> QED
  BY <1>2, <1>3, <1>4

LEMMA GivesStay ==
    ASSUME stack \in Seq(Executors), NEW g, NEW result, Give(g, result, stack)
    PROVE  stack' \in Seq(Executors) /\ Stay
BY GivenFacts DEF Give, Stay, Unmoved

LEMMA GivesPop ==
    ASSUME stack \in Seq(Executors), stack # <<>>, NEW g, NEW result, Give(g, result, Below)
    PROVE  stack' \in Seq(Executors) /\ Pop
<1>1. /\ Given(result, Below) \in Seq(Executors)
      /\ Len(Given(result, Below)) = Len(stack) - 1
      /\ \A k \in 1..(Len(stack) - 1) :
            /\ Given(result, Below)[k].gen = stack[k].gen
            /\ Given(result, Below)[k].pc = stack[k].pc
            /\ Given(result, Below)[k].register = stack[k].register
  <2> DEFINE b == Below
  <2>1. /\ b \in Seq(Executors) /\ DOMAIN b = 1..(Len(stack) - 1)
        /\ Len(b) = Len(stack) - 1
        /\ \A k \in 1..(Len(stack) - 1) : b[k] = stack[k]
    BY TopAndBelow
  <2> HIDE DEF b
  <2>2. /\ Given(result, b) \in Seq(Executors)
        /\ Len(Given(result, b)) = Len(b)
        /\ \A k \in DOMAIN b :
              /\ Given(result, b)[k].gen = b[k].gen
              /\ Given(result, b)[k].pc = b[k].pc
              /\ Given(result, b)[k].register = b[k].register
    BY <2>1, GivenFacts
  <2> QED
    BY <2>1, <2>2 DEF b
<1>2. DOMAIN Given(result, Below) = 1..(Len(stack) - 1)
  BY <1>1
<1> QED
  BY <1>1, <1>2, TopAndBelow DEF Give, Pop, Unmoved

LEMMA ReplacesMove ==
    ASSUME stack \in Seq(Executors), stack # <<>>, NEW e \in Executors,
           e.gen = Top.gen, e.pc = Top.pc + 1, e.register = Top.register,
           stack' = WithTop(e)
    PROVE  stack' \in Seq(Executors) /\ Move
<1> DEFINE b == Below
<1>1. /\ b \in Seq(Executors) /\ Len(b) = Len(stack) - 1 /\ Len(stack) \in Nat \ {0}
      /\ \A k \in 1..(Len(stack) - 1) : b[k] = stack[k]
  BY TopAndBelow
<1>2. stack' = Append(b, e)
  BY DEF WithTop
<1> HIDE DEF b
<1>3. /\ stack' \in Seq(Executors) /\ Len(stack') = Len(stack)
      /\ stack'[Len(stack)] = e
      /\ \A k \in 1..(Len(stack) - 1) : stack'[k] = stack[k]
  BY <1>1, <1>2
<1>4. DOMAIN stack' = DOMAIN stack
  BY <1>3, TopAndBelow
<1> QED
  BY <1>3, <1>4, TopAndBelow DEF Move, Unmoved

LEMMA WorkMoves ==
    ASSUME TypeOK, Work
    PROVE  stack' \in Seq(Executors) /\ Move
<1> DEFINE e == [Top EXCEPT !.pc = @ + 1]
<1>1. Top \in Executors /\ stack # <<>> /\ stack \in Seq(Executors)
  BY TopAndBelow DEF Work, AtInstruction, TypeOK
<1>2. e \in Executors /\ e.gen = Top.gen /\ e.pc = Top.pc + 1 /\ e.register = Top.register
  BY <1>1 DEF Executors
<1>3. stack' = WithTop(e)
  BY DEF Work
<1> HIDE DEF e
<1> QED
  BY <1>1, <1>2, <1>3, ReplacesMove

LEMMA AskMoves ==
    ASSUME TypeOK, Ask
    PROVE  stack' \in Seq(Executors) /\ Move
<1> DEFINE e == [Top EXCEPT !.pc = @ + 1, !.mode = "asks"]
<1>1. Top \in Executors /\ stack # <<>> /\ stack \in Seq(Executors)
  BY TopAndBelow DEF Ask, AtInstruction, TypeOK
<1>2. e \in Executors /\ e.gen = Top.gen /\ e.pc = Top.pc + 1 /\ e.register = Top.register
  BY <1>1, MovedOn
<1>3. stack' = WithTop(e)
  BY DEF Ask
<1> HIDE DEF e
<1> QED
  BY <1>1, <1>2, <1>3, ReplacesMove

LEMMA ResumesPush ==
    ASSUME TypeOK, NEW g \in Generators, NEW v \in Sent, Resume(g, v)
    PROVE  stack' \in Seq(Executors) /\ Push(g, v)
<1> DEFINE caller == Given(Last(v), stack)
           e == Executor(g, saved[g].pc, Received(g, v))
<1>1. caller \in Seq(Executors) /\ Len(caller) = Len(stack)
      /\ \A k \in DOMAIN stack :
            /\ caller[k].gen = stack[k].gen
            /\ caller[k].pc = stack[k].pc
            /\ caller[k].register = stack[k].register
  BY GivenFacts DEF TypeOK
<1>2. e \in Executors /\ e.gen = g /\ e.pc = saved[g].pc /\ e.register = Received(g, v)
  BY DEF TypeOK, States, Values, Executor, Executors, Received
<1>3. stack' = Append(caller, e)
  BY DEF Resume
<1> HIDE DEF caller, e
<1>4. /\ stack' \in Seq(Executors) /\ DOMAIN stack' = 1..(Len(stack) + 1)
      /\ stack'[Len(stack) + 1] = e
      /\ \A k \in 1..Len(stack) : stack'[k] = caller[k]
  BY <1>1, <1>2, <1>3
<1>5. DOMAIN stack = 1..Len(stack) /\ Len(stack) \in Nat
  BY DEF TypeOK
<1> QED
  BY <1>1, <1>2, <1>4, <1>5 DEF Push, Unmoved

-----------------------------------------------------------------------------
(* The states of the generators: an action changes that of one.            *)

SavedBut(g) ==
    /\ saved' \in [Generators -> States]
    /\ \A h \in Generators : h # g => saved'[h] = saved[h]

LEMMA YieldSaves ==
    ASSUME TypeOK, Yield
    PROVE  /\ SavedBut(Top.gen)
           /\ LET s == saved'[Top.gen]
              IN  /\ s.initialized = saved[Top.gen].initialized /\ s.done = saved[Top.gen].done
                  /\ s.waits /\ s.pc = Top.pc + 1 /\ s.register = Top.register
<1> DEFINE g == Top.gen
           s0 == saved[g]
           s1 == [s0 EXCEPT !.pc = Top.pc + 1]
           s2 == [s1 EXCEPT !.waits = TRUE]
           s3 == [s2 EXCEPT !.register = Top.register]
<1>1. /\ stack # <<>> /\ g \in Generators /\ Top.pc \in Nat /\ Top.register \in Values
      /\ saved \in [Generators -> States]
  BY TopAndBelow DEF Yield, AtInstruction, TypeOK, Executors
<1>2. s0 \in States
  BY <1>1
<1>3. SavedAfterYield(s0, Top) = s3
  BY DEF SavedAfterYield
<1>4. saved' = [saved EXCEPT ![g] = SavedAfterYield(saved[g], Top)]
  BY DEF Yield
<1> HIDE DEF s0
<1>5. s1 \in States /\ s1.pc = Top.pc + 1 /\ s1.initialized = s0.initialized /\ s1.done = s0.done
  BY <1>1, <1>2 DEF States
<1> HIDE DEF s1
<1>6. s2 \in States /\ s2.pc = s1.pc /\ s2.waits
      /\ s2.initialized = s1.initialized /\ s2.done = s1.done
  BY <1>5 DEF States
<1> HIDE DEF s2
<1>7. s3 \in States /\ s3.pc = s2.pc /\ s3.waits = s2.waits /\ s3.register = Top.register
      /\ s3.initialized = s2.initialized /\ s3.done = s2.done
  BY <1>1, <1>6 DEF States
<1> HIDE DEF s3
<1>8. saved' = [saved EXCEPT ![g] = s3]
  BY <1>3, <1>4 DEF s0
<1>9. SavedBut(g) /\ saved'[g] = s3
  BY <1>1, <1>7, <1>8 DEF SavedBut
<1> QED
  BY <1>5, <1>6, <1>7, <1>9 DEF s0

LEMMA EndSaves ==
    ASSUME TypeOK, stack # <<>>,
           saved' = [saved EXCEPT ![Top.gen] = SavedAtEnd(@, Top)]
    PROVE  /\ SavedBut(Top.gen)
           /\ LET s == saved'[Top.gen]
              IN  /\ s.initialized = saved[Top.gen].initialized /\ s.done
                  /\ s.pc = Len(body[Top.gen]) + 1
<1> DEFINE g == Top.gen
           s0 == saved[g]
           s1 == [s0 EXCEPT !.done = TRUE]
           s2 == [s1 EXCEPT !.pc = Len(body[g]) + 1]
           s3 == [s2 EXCEPT !.waits = FALSE]
           s4 == [s3 EXCEPT !.register = Top.register]
<1>1. /\ g \in Generators /\ Top.register \in Values
      /\ saved \in [Generators -> States]
  BY TopAndBelow DEF TypeOK, Executors
<1>2. s0 \in States /\ Len(body[g]) + 1 \in Nat
  BY <1>1, GeneratorAssumption DEF TypeOK
<1>3. SavedAtEnd(s0, Top) = s4
  BY DEF SavedAtEnd
<1> HIDE DEF s0
<1>4. s1 \in States /\ s1.initialized = s0.initialized /\ s1.done
  BY <1>2 DEF States
<1> HIDE DEF s1
<1>5. s2 \in States /\ s2.initialized = s1.initialized /\ s2.done = s1.done
      /\ s2.pc = Len(body[g]) + 1
  BY <1>2, <1>4 DEF States
<1> HIDE DEF s2
<1>6. s3 \in States /\ s3.initialized = s2.initialized /\ s3.done = s2.done /\ s3.pc = s2.pc
  BY <1>5 DEF States
<1> HIDE DEF s3
<1>7. s4 \in States /\ s4.initialized = s3.initialized /\ s4.done = s3.done /\ s4.pc = s3.pc
  BY <1>1, <1>6 DEF States
<1> HIDE DEF s4
<1>8. saved' = [saved EXCEPT ![g] = s4]
  BY <1>3 DEF s0
<1>9. SavedBut(g) /\ saved'[g] = s4
  BY <1>1, <1>7, <1>8 DEF SavedBut
<1> QED
  BY <1>4, <1>5, <1>6, <1>7, <1>9 DEF s0

LEMMA DoneSaves ==
    ASSUME TypeOK, NEW g \in Generators, saved' = [saved EXCEPT ![g].done = TRUE]
    PROVE  /\ SavedBut(g)
           /\ LET s == saved'[g]
              IN  /\ s.initialized = saved[g].initialized /\ s.done
                  /\ s.waits = saved[g].waits
                  /\ s.pc = saved[g].pc /\ s.register = saved[g].register
<1>1. saved[g] \in States /\ saved \in [Generators -> States]
  BY DEF TypeOK
<1> DEFINE s == [saved[g] EXCEPT !.done = TRUE]
<1>2. /\ s \in States /\ s.initialized = saved[g].initialized /\ s.done /\ s.pc = saved[g].pc
      /\ s.waits = saved[g].waits /\ s.register = saved[g].register
  BY <1>1 DEF States
<1>3. saved' = [saved EXCEPT ![g] = s]
  OBVIOUS
<1> HIDE DEF s
<1> QED
  BY <1>1, <1>2, <1>3 DEF SavedBut

LEMMA ResumeSaves ==
    ASSUME TypeOK, NEW g \in Generators, saved' = [saved EXCEPT ![g].initialized = TRUE]
    PROVE  /\ SavedBut(g)
           /\ LET s == saved'[g]
              IN  /\ s.initialized /\ s.done = saved[g].done /\ s.waits = saved[g].waits
                  /\ s.pc = saved[g].pc /\ s.register = saved[g].register
<1>1. saved[g] \in States /\ saved \in [Generators -> States]
  BY DEF TypeOK
<1> DEFINE s == [saved[g] EXCEPT !.initialized = TRUE]
<1>2. /\ s \in States /\ s.initialized /\ s.done = saved[g].done /\ s.pc = saved[g].pc
      /\ s.waits = saved[g].waits /\ s.register = saved[g].register
  BY <1>1 DEF States
<1>3. saved' = [saved EXCEPT ![g] = s]
  OBVIOUS
<1> HIDE DEF s
<1> QED
  BY <1>1, <1>2, <1>3 DEF SavedBut

-----------------------------------------------------------------------------
(* What all actions but Create have in common: only one generator acts.    *)

\* The executors of the others stay as they are.
Apart(g) ==
    /\ \A k \in DOMAIN stack : stack[k].gen # g => k \in DOMAIN stack' /\ Unmoved(k)
    /\ \A k \in DOMAIN stack' : stack'[k].gen # g => k \in DOMAIN stack /\ Unmoved(k)

Acts(g) ==
    /\ Created(g) /\ body' = body
    /\ SavedBut(g)
    /\ locals' \in [Generators -> 0..MaxWork]
    /\ \A h \in Generators : h # g => locals'[h] = locals[h]
    /\ DOMAIN answer' = Generators
    /\ \A h \in Generators : h # g => answer'[h] = answer[h]
    /\ spoiled \subseteq spoiled' /\ spoiled' \subseteq spoiled \cup {g}
    /\ stack' \in Seq(Executors) /\ Apart(g)

LEMMA StayApart ==
    ASSUME NEW g, Stay
    PROVE  Apart(g)
BY DEF Stay, Apart, Unmoved

LEMMA MoveApart ==
    ASSUME stack \in Seq(Executors), Move
    PROVE  Apart(Top.gen)
BY TopAndBelow DEF Move, Apart, Unmoved, Top

LEMMA PopApart ==
    ASSUME stack \in Seq(Executors), Pop
    PROVE  Apart(Top.gen)
BY TopAndBelow DEF Pop, Apart, Unmoved, Top

LEMMA PushApart ==
    ASSUME NEW g, NEW v, Push(g, v)
    PROVE  Apart(g)
BY DEF Push, Apart, Unmoved

LEMMA Lengths ==
    ASSUME stack \in Seq(Executors), stack' \in Seq(Executors)
    PROVE  /\ Stay \/ Move => Len(stack') = Len(stack)
           /\ Pop => Len(stack') = Len(stack) - 1
           /\ \A g, v : Push(g, v) => Len(stack') = Len(stack) + 1
<1>1. /\ Len(stack) \in Nat /\ DOMAIN stack = 1..Len(stack)
      /\ Len(stack') \in Nat /\ DOMAIN stack' = 1..Len(stack')
  OBVIOUS
<1>2. ASSUME NEW m \in Nat, NEW n \in Nat, 1..m = 1..n PROVE m = n
  <2>1. m \in 1..m \/ m = 0
    OBVIOUS
  <2>2. n \in 1..n \/ n = 0
    OBVIOUS
  <2> QED
    BY <1>2, <2>1, <2>2
<1>3. Stay \/ Move => Len(stack') = Len(stack)
  BY <1>1, <1>2 DEF Stay, Move
<1>4. ASSUME Pop PROVE Len(stack') = Len(stack) - 1
  <2>1. Len(stack) # 0
    BY <1>4 DEF Pop
  <2>2. DOMAIN stack' = 1..Len(stack) \ {Len(stack)}
    <3>1. DOMAIN stack' = DOMAIN stack \ {Len(stack)}
      BY <1>4 DEF Pop
    <3> QED
      BY <1>1, <3>1, Zenon
  <2>4. Len(stack) - 1 \in Nat
    BY <1>1, <2>1
  <2>3. \A n \in Nat : 1..n \ {n} = 1..(n - 1)
    OBVIOUS
  <2> QED
    BY <1>1, <1>2, <2>2, <2>3, <2>4
<1>5. ASSUME NEW g, NEW v, Push(g, v) PROVE Len(stack') = Len(stack) + 1
  <2>1. DOMAIN stack' = 1..Len(stack) \cup {Len(stack) + 1}
    <3>1. DOMAIN stack' = DOMAIN stack \cup {Len(stack) + 1}
      BY <1>5 DEF Push
    <3> QED
      BY <1>1, <3>1, Zenon
  <2>2. \A n \in Nat : 1..n \cup {n + 1} = 1..(n + 1)
    OBVIOUS
  <2> QED
    <3>1. Len(stack) + 1 \in Nat
      BY <1>1
    <3>2. 1..Len(stack') = 1..(Len(stack) + 1)
      BY <1>1, <2>1, <2>2
    <3> QED
      BY <1>1, <1>2, <3>1, <3>2
<1> QED
  BY <1>3, <1>4, <1>5

\* The parts of TypeOK that every action keeps if it moves one generator's places
\* inside its body.
LEMMA ActsTypes ==
    ASSUME TypeOK, NEW g \in Generators, Acts(g),
           Len(stack') <= MaxCallDepth,
           saved'[g].pc \in 1..(Len(body[g]) + 1),
           \A k \in DOMAIN stack' : stack'[k].gen = g =>
                stack'[k].pc \in 1..(Len(body[g]) + 1)
    PROVE  TypeOK'
<1>1. /\ body' \in [Generators -> Bodies \cup {<<>>}] /\ saved' \in [Generators -> States]
      /\ locals' \in [Generators -> 0..MaxWork] /\ stack' \in Seq(Executors)
      /\ DOMAIN answer' = Generators /\ spoiled' \subseteq Generators
  BY DEF TypeOK, Acts, SavedBut
<1>2. \A h \in Generators : saved'[h].pc \in 1..(Len(body'[h]) + 1)
  BY DEF TypeOK, Acts, SavedBut
<1>3. \A k \in DOMAIN stack' : stack'[k].pc \in 1..(Len(body'[stack'[k].gen]) + 1)
  BY DEF TypeOK, Acts, Apart, Unmoved
<1> QED
  BY <1>1, <1>2, <1>3 DEF TypeOK

\* Running' and Running differ in g only.
LEMMA ActsRunning ==
    ASSUME NEW g \in Generators, Acts(g)
    PROVE  \A h : h # g => (h \in Running' <=> h \in Running)
BY DEF Acts, Apart, Unmoved, Running

\* The parts of the invariant about the others are kept; those about g remain to be shown.
LEMMA ActsInvariant ==
    ASSUME GeneratorInv, NEW g \in Generators, Acts(g), TypeOK',
           g \notin spoiled' => \A j, k \in DOMAIN stack' :
                stack'[j].gen = g /\ stack'[k].gen = g => j = k,
           g \in Running' \ spoiled' => saved'[g].initialized /\ ~saved'[g].done,
           g \notin Running' \cup spoiled' =>
                (saved'[g].initialized /\ ~saved'[g].done => saved'[g].waits)
    PROVE  GeneratorInv'
<1> USE DEF GeneratorInv
<1>1. \A h \in Generators : h # g => saved'[h] = saved[h] /\ locals'[h] = locals[h]
        /\ (h \in Running' <=> h \in Running) /\ (h \in spoiled' <=> h \in spoiled)
  BY ActsRunning DEF Acts, SavedBut
<1>2. Unborn'
  BY <1>1 DEF Unborn, Created, Acts, Fresh
<1>3. Alone'
  <2> SUFFICES ASSUME NEW j \in DOMAIN stack', NEW k \in DOMAIN stack',
                      stack'[j].gen = stack'[k].gen, stack'[j].gen \notin spoiled'
               PROVE  j = k
    BY DEF Alone
  <2>1. CASE stack'[j].gen = g
    BY <2>1
  <2>2. CASE stack'[j].gen # g
    <3>1. /\ j \in DOMAIN stack /\ k \in DOMAIN stack
          /\ stack[j].gen = stack'[j].gen /\ stack[k].gen = stack'[k].gen
      BY <2>2 DEF Acts, Apart, Unmoved
    <3>2. stack[j].gen \notin spoiled
      BY <3>1 DEF Acts
    <3> QED
      BY <3>1, <3>2 DEF Alone
  <2> QED
    BY <2>1, <2>2
<1>4. Running' \subseteq Generators
  <2>1. \A k \in DOMAIN stack' : stack'[k] \in Executors
    BY DEF Acts
  <2> QED
    BY <2>1 DEF Running, Executors
<1>5. Busy'
  BY <1>1, <1>4 DEF Busy
<1>6. Resting'
  BY <1>1 DEF Resting
<1> QED
  BY <1>2, <1>3, <1>5, <1>6

-----------------------------------------------------------------------------
(* The actions.                                                            *)

\* The generator whose body runs.
LEMMA TopActor ==
    ASSUME GeneratorInv, stack # <<>>
    PROVE  /\ Top.gen \in Generators /\ Created(Top.gen) /\ Top.gen \in Running
           /\ Top.pc \in 1..(Len(body[Top.gen]) + 1)
           /\ Top.gen \notin spoiled =>
                \A k \in DOMAIN stack : stack[k].gen = Top.gen => k = Len(stack)
<1>1. stack \in Seq(Executors) /\ Len(stack) \in DOMAIN stack /\ Top \in Executors
  BY TopAndBelow DEF GeneratorInv, TypeOK
<1>2. Top.gen \in Generators /\ Top.gen \in Running
  BY <1>1 DEF Running, Executors, Top
<1>3. Created(Top.gen)
  BY <1>2 DEF GeneratorInv, Unborn
<1>4. Top.pc \in 1..(Len(body[Top.gen]) + 1)
  BY <1>1 DEF GeneratorInv, TypeOK, Top
<1>5. Top.gen \notin spoiled => \A k \in DOMAIN stack : stack[k].gen = Top.gen => k = Len(stack)
  BY <1>1 DEF GeneratorInv, Alone, Top
<1> QED
  BY <1>2, <1>3, <1>4, <1>5

LEMMA BodyLengths ==
    ASSUME TypeOK, NEW g \in Generators
    PROVE  Len(body[g]) \in Nat /\ DOMAIN body[g] = 1..Len(body[g])
BY GeneratorAssumption DEF TypeOK

\* A step that leaves the executors and perhaps sets done: the answer to a call that
\* starts none.
LEMMA StaysInvariant ==
    ASSUME GeneratorInv, NEW g \in Generators, Acts(g), Stay,
           saved'[g].pc = saved[g].pc,
           \/ saved'[g] = saved[g] /\ spoiled' = spoiled
           \/ saved'[g].done /\ (g \in Running => g \in spoiled')
    PROVE  GeneratorInv'
<1>1. stack \in Seq(Executors) /\ stack' \in Seq(Executors) /\ TypeOK
  BY DEF GeneratorInv, TypeOK, Acts
<1>2. g \in Running' <=> g \in Running
  BY DEF Stay, Running, Unmoved
<1>3. TypeOK'
  <2>1. Len(stack') <= MaxCallDepth
    BY <1>1, Lengths DEF TypeOK
  <2>2. saved'[g].pc \in 1..(Len(body[g]) + 1)
    BY <1>1 DEF TypeOK
  <2>3. \A k \in DOMAIN stack' : stack'[k].gen = g => stack'[k].pc \in 1..(Len(body[g]) + 1)
    BY <1>1 DEF TypeOK, Stay, Unmoved
  <2> QED
    BY <1>1, <2>1, <2>2, <2>3, ActsTypes
<1>5. g \notin spoiled' => \A j, k \in DOMAIN stack' :
        stack'[j].gen = g /\ stack'[k].gen = g => j = k
  BY DEF Stay, Unmoved, GeneratorInv, Alone, Acts
<1>6. g \in Running' \ spoiled' => saved'[g].initialized /\ ~saved'[g].done
  BY <1>2 DEF GeneratorInv, Busy
<1>7. g \notin Running' \cup spoiled' =>
        (saved'[g].initialized /\ ~saved'[g].done => saved'[g].waits)
  BY <1>2 DEF GeneratorInv, Resting
<1> QED
  BY <1>3, <1>5, <1>6, <1>7, ActsInvariant

\* A step that ends the innermost executor: the state it leaves is that of a generator
\* that waits, is at its end or is spoiled.
LEMMA PopsInvariant ==
    ASSUME GeneratorInv, Acts(Top.gen), Pop,
           saved'[Top.gen].pc \in 1..(Len(body[Top.gen]) + 1),
           saved'[Top.gen].waits \/ saved'[Top.gen].done \/ Top.gen \in spoiled'
    PROVE  GeneratorInv'
<1> DEFINE g == Top.gen
<1>1. /\ stack \in Seq(Executors) /\ stack' \in Seq(Executors) /\ TypeOK /\ stack # <<>>
      /\ g \in Generators /\ DOMAIN stack = 1..Len(stack)
  BY TopActor DEF GeneratorInv, TypeOK, Acts, Pop
<1>2. g \notin spoiled' => \A k \in DOMAIN stack' : stack'[k].gen # g
  BY <1>1, TopActor DEF Pop, Unmoved, Acts
<1>3. TypeOK'
  <2>1. Len(stack') <= MaxCallDepth
    BY <1>1, Lengths, GeneratorAssumption DEF TypeOK
  <2>2. \A k \in DOMAIN stack' : stack'[k].gen = g => stack'[k].pc \in 1..(Len(body[g]) + 1)
    BY <1>1 DEF TypeOK, Pop, Unmoved
  <2> QED
    BY <1>1, <2>1, <2>2, ActsTypes
<1>5. g \notin spoiled' => g \notin Running'
  BY <1>2 DEF Running
<1> QED
  BY <1>1, <1>2, <1>3, <1>5, ActsInvariant

\* A step of the body that goes on to the next instruction.
LEMMA MovesInvariant ==
    ASSUME GeneratorInv, Acts(Top.gen), Move, Top.pc \in DOMAIN body[Top.gen],
           saved' = saved, spoiled' = spoiled
    PROVE  GeneratorInv'
<1> DEFINE g == Top.gen
<1>1. /\ stack \in Seq(Executors) /\ stack' \in Seq(Executors) /\ TypeOK /\ stack # <<>>
      /\ g \in Generators /\ DOMAIN stack = 1..Len(stack)
  BY TopActor DEF GeneratorInv, TypeOK, Acts, Move
<1>2. \A k \in DOMAIN stack : stack'[k].gen = stack[k].gen
  BY DEF Move, Unmoved, Top
<1>3. TypeOK'
  <2>1. Len(stack') <= MaxCallDepth
    BY <1>1, Lengths DEF TypeOK
  <2>2. Top.pc + 1 \in 1..(Len(body[g]) + 1)
    BY <1>1, BodyLengths
  <2>3. \A k \in DOMAIN stack' : stack'[k].gen = g => stack'[k].pc \in 1..(Len(body[g]) + 1)
    BY <1>1, <1>2, <2>2 DEF TypeOK, Move, Unmoved
  <2>4. saved'[g].pc \in 1..(Len(body[g]) + 1)
    BY <1>1 DEF TypeOK
  <2> QED
    BY <1>1, <2>1, <2>3, <2>4, ActsTypes
<1>5. Running' = Running
  BY <1>2 DEF Move, Running
<1>6. g \notin spoiled' => \A j, k \in DOMAIN stack' :
        stack'[j].gen = g /\ stack'[k].gen = g => j = k
  BY <1>2 DEF GeneratorInv, Alone, Move
<1>7. g \in Running' \ spoiled' => saved'[g].initialized /\ ~saved'[g].done
  BY <1>5 DEF GeneratorInv, Busy
<1>8. g \notin Running' \cup spoiled' =>
        (saved'[g].initialized /\ ~saved'[g].done => saved'[g].waits)
  BY <1>1, <1>5 DEF GeneratorInv, Resting
<1> QED
  BY <1>1, <1>3, <1>6, <1>7, <1>8, ActsInvariant

\* A step that starts an executor.
LEMMA PushesInvariant ==
    ASSUME GeneratorInv, NEW g \in Generators, NEW v, Acts(g), Push(g, v),
           Len(stack) < MaxCallDepth,
           saved'[g].initialized, ~saved'[g].done, saved'[g].pc = saved[g].pc,
           g \in Running => g \in spoiled'
    PROVE  GeneratorInv'
<1>1. /\ stack \in Seq(Executors) /\ stack' \in Seq(Executors) /\ TypeOK
      /\ DOMAIN stack = 1..Len(stack) /\ Len(stack) \in Nat
      /\ saved[g].pc \in 1..(Len(body[g]) + 1)
  BY DEF GeneratorInv, TypeOK, Acts
<1>2. \A k \in DOMAIN stack : stack'[k].gen = stack[k].gen /\ stack'[k].pc = stack[k].pc
  BY DEF Push, Unmoved
<1>3. /\ DOMAIN stack' = DOMAIN stack \cup {Len(stack) + 1}
      /\ stack'[Len(stack) + 1].gen = g /\ stack'[Len(stack) + 1].pc = saved[g].pc
  BY DEF Push
<1>4. TypeOK'
  <2>1. Len(stack') <= MaxCallDepth
    <3>1. Len(stack') = Len(stack) + 1
      BY <1>1, Lengths
    <3> QED
      BY <1>1, <3>1, GeneratorAssumption
  <2>2. \A k \in DOMAIN stack' : stack'[k].gen = g => stack'[k].pc \in 1..(Len(body[g]) + 1)
    BY <1>1, <1>2, <1>3 DEF TypeOK
  <2> QED
    BY <1>1, <2>1, <2>2, ActsTypes
<1>6. g \notin spoiled' => \A k \in DOMAIN stack' : stack'[k].gen = g => k = Len(stack) + 1
  BY <1>2, <1>3 DEF Running
<1>7. g \in Running'
  BY <1>3 DEF Running
<1> QED
  BY <1>1, <1>4, <1>6, <1>7, ActsInvariant

LEMMA AnswerKept ==
    ASSUME TypeOK, NEW g \in Generators, NEW result, answer' = [answer EXCEPT ![g] = result]
    PROVE  /\ DOMAIN answer' = Generators
           /\ \A h \in Generators : h # g => answer'[h] = answer[h]
           /\ answer'[g] = result
BY DEF TypeOK

LEMMA RefuseActs ==
    ASSUME GeneratorInv, NEW g \in Generators, Refuse(g)
    PROVE  Acts(g) /\ Stay
<1>1. stack' \in Seq(Executors) /\ Stay
  BY GivesStay DEF GeneratorInv, TypeOK, Refuse
<1> QED
  BY <1>1, StayApart, AnswerKept DEF GeneratorInv, TypeOK, Refuse, Give, Acts, SavedBut

LEMMA AskDoneActs ==
    ASSUME GeneratorInv, NEW g \in Generators, AskDone(g)
    PROVE  Acts(g) /\ Stay
<1>1. stack' \in Seq(Executors) /\ Stay
  BY GivesStay DEF GeneratorInv, TypeOK, AskDone
<1> QED
  BY <1>1, StayApart, AnswerKept DEF GeneratorInv, TypeOK, AskDone, Give, Acts, SavedBut

LEMMA CloseActs ==
    ASSUME GeneratorInv, NEW g \in Generators, NEW v, Close(g, v)
    PROVE  Acts(g) /\ Stay /\ saved'[g].done /\ saved'[g].pc = saved[g].pc
<1>1. stack' \in Seq(Executors) /\ Stay
  BY GivesStay DEF GeneratorInv, TypeOK, Close
<1>2. SavedBut(g) /\ saved'[g].done /\ saved'[g].pc = saved[g].pc
  BY DoneSaves DEF GeneratorInv, Close
<1>3. spoiled \subseteq spoiled' /\ spoiled' \subseteq spoiled \cup {g}
  BY DEF Close
<1>4. DOMAIN answer' = Generators /\ \A h \in Generators : h # g => answer'[h] = answer[h]
  BY AnswerKept DEF GeneratorInv, Close, Give
<1> QED
  BY <1>1, <1>2, <1>3, <1>4, StayApart DEF GeneratorInv, TypeOK, Close, Acts

LEMMA ResumeActs ==
    ASSUME GeneratorInv, NEW g \in Generators, NEW v \in Sent, Resume(g, v)
    PROVE  /\ Acts(g) /\ Push(g, v)
           /\ saved'[g].initialized /\ saved'[g].done = saved[g].done
           /\ saved'[g].waits = saved[g].waits /\ saved'[g].pc = saved[g].pc
<1>1. stack' \in Seq(Executors) /\ Push(g, v)
  BY ResumesPush DEF GeneratorInv
<1>2. SavedBut(g) /\ saved'[g].initialized /\ saved'[g].done = saved[g].done
      /\ saved'[g].waits = saved[g].waits /\ saved'[g].pc = saved[g].pc
  BY ResumeSaves DEF GeneratorInv, Resume
<1>3. spoiled \subseteq spoiled' /\ spoiled' \subseteq spoiled \cup {g}
  BY DEF Resume
<1> QED
  BY <1>1, <1>2, <1>3, PushApart DEF GeneratorInv, TypeOK, Resume, Acts

LEMMA WorkActs ==
    ASSUME GeneratorInv, Work
    PROVE  Acts(Top.gen) /\ Move
<1>1. stack # <<>> /\ Top.gen \in Generators /\ Created(Top.gen)
  BY TopActor DEF Work, AtInstruction
<1>2. stack' \in Seq(Executors) /\ Move
  BY WorkMoves DEF GeneratorInv
<1>3. Apart(Top.gen)
  BY <1>2, MoveApart DEF GeneratorInv, TypeOK
<1>4. /\ locals' \in [Generators -> 0..MaxWork]
      /\ \A h \in Generators : h # Top.gen => locals'[h] = locals[h]
  BY <1>1, GeneratorAssumption DEF GeneratorInv, TypeOK, Work
<1> QED
  BY <1>1, <1>2, <1>3, <1>4 DEF GeneratorInv, TypeOK, Work, Acts, SavedBut

LEMMA AskActs ==
    ASSUME GeneratorInv, Ask
    PROVE  Acts(Top.gen) /\ Move
<1>1. stack # <<>> /\ Top.gen \in Generators /\ Created(Top.gen)
  BY TopActor DEF Ask, AtInstruction
<1>2. stack' \in Seq(Executors) /\ Move
  BY AskMoves DEF GeneratorInv
<1>3. Apart(Top.gen)
  BY <1>2, MoveApart DEF GeneratorInv, TypeOK
<1> QED
  BY <1>1, <1>2, <1>3 DEF GeneratorInv, TypeOK, Ask, Acts, SavedBut

\* The steps that end an executor give an answer to the caller.
LEMMA EndsActs ==
    ASSUME GeneratorInv, stack # <<>>, NEW result, Give(Top.gen, result, Below),
           SavedBut(Top.gen), body' = body, locals' = locals,
           spoiled \subseteq spoiled', spoiled' \subseteq spoiled \cup {Top.gen}
    PROVE  Acts(Top.gen) /\ Pop
<1>1. stack' \in Seq(Executors) /\ Pop
  BY GivesPop DEF GeneratorInv, TypeOK
<1>2. Apart(Top.gen)
  BY <1>1, PopApart DEF GeneratorInv, TypeOK
<1>3. Top.gen \in Generators /\ Created(Top.gen)
  BY TopActor
<1>4. /\ DOMAIN answer' = Generators
      /\ \A h \in Generators : h # Top.gen => answer'[h] = answer[h]
  BY <1>3, AnswerKept DEF GeneratorInv, Give
<1> QED
  BY <1>1, <1>2, <1>3, <1>4 DEF GeneratorInv, TypeOK, Acts

LEMMA YieldActs ==
    ASSUME GeneratorInv, Yield
    PROVE  /\ Acts(Top.gen) /\ Pop
           /\ saved'[Top.gen].initialized = saved[Top.gen].initialized
           /\ saved'[Top.gen].done = saved[Top.gen].done
           /\ saved'[Top.gen].waits
           /\ saved'[Top.gen].pc = Top.pc + 1 /\ saved'[Top.gen].register = Top.register
BY YieldSaves, EndsActs DEF GeneratorInv, Yield, AtInstruction

LEMMA FinishActs ==
    ASSUME GeneratorInv, Return \/ RunOff \/ Throw
    PROVE  /\ Acts(Top.gen) /\ Pop
           /\ saved'[Top.gen].initialized = saved[Top.gen].initialized
           /\ saved'[Top.gen].done
           /\ saved'[Top.gen].pc \in 1..(Len(body[Top.gen]) + 1)
<1>1. stack # <<>> /\ Top.gen \in Generators /\ TypeOK
  BY TopActor DEF GeneratorInv, Return, RunOff, Throw, AtInstruction
<1>2. CASE Return
  BY <1>1, <1>2, EndSaves, EndsActs, BodyLengths DEF Return
<1>3. CASE RunOff
  BY <1>1, <1>3, EndSaves, EndsActs, BodyLengths DEF RunOff
<1>4. CASE Throw
  <2>1. saved[Top.gen].pc \in 1..(Len(body[Top.gen]) + 1)
    BY <1>1 DEF TypeOK
  <2> QED
    BY <1>1, <1>4, <2>1, DoneSaves, EndsActs DEF Throw
<1> QED
  BY <1>2, <1>3, <1>4

LEMMA FailActs ==
    ASSUME GeneratorInv, Fail
    PROVE  Acts(Top.gen) /\ Pop /\ saved' = saved /\ Top.gen \in spoiled'
<1>1. stack # <<>> /\ saved' = saved /\ Top.gen \in spoiled' /\ SavedBut(Top.gen)
  BY DEF Fail, GeneratorInv, TypeOK, SavedBut
<1> QED
  BY <1>1, EndsActs DEF Fail

-----------------------------------------------------------------------------
(* The theorems.                                                           *)

LEMMA InitInvariant ==
    ASSUME Init
    PROVE  GeneratorInv
<1>1. stack = <<>> /\ DOMAIN stack = {} /\ Len(stack) = 0
  BY DEF Init
<1>2. Fresh \in States
  BY DEF Fresh, States, Values
<1>3. TypeOK
  <2>1. \A g \in Generators : saved[g].pc = 1 /\ Len(body[g]) = 0
    BY DEF Init, Fresh
  <2>2. \A g \in Generators : saved[g].pc \in 1..(Len(body[g]) + 1)
    BY <2>1
  <2> QED
    BY <1>1, <1>2, <2>2, GeneratorAssumption DEF Init, TypeOK
<1>4. Running = {}
  BY <1>1 DEF Running
<1>5. Unborn /\ Alone /\ Busy
  BY <1>1, <1>4 DEF Init, Unborn, Alone, Busy
<1>6. Resting
  BY DEF Init, Resting, Fresh
<1> QED
  BY <1>3, <1>5, <1>6 DEF GeneratorInv

LEMMA CreateInvariant ==
    ASSUME GeneratorInv, NEW g \in Generators, NEW b \in Bodies, Create(g, b)
    PROVE  GeneratorInv'
<1> USE DEF GeneratorInv
<1>1. /\ stack = <<>> /\ DOMAIN stack = {} /\ body[g] = <<>>
      /\ saved' = saved /\ locals' = locals /\ stack' = stack /\ answer' = answer
      /\ spoiled' = spoiled
  BY DEF Create, Created
<1>2. /\ body' \in [Generators -> Bodies \cup {<<>>}]
      /\ body'[g] = b
      /\ \A h \in Generators : h # g => body'[h] = body[h]
  BY DEF Create, TypeOK
<1>3. saved[g] = Fresh
  BY <1>1 DEF Unborn, Created
<1>4. TypeOK'
  <2>1. Len(b) \in Nat
    BY GeneratorAssumption
  <2>2. saved'[g].pc \in 1..(Len(body'[g]) + 1)
    BY <1>1, <1>2, <1>3, <2>1 DEF Fresh
  <2>3. \A h \in Generators : saved'[h].pc \in 1..(Len(body'[h]) + 1)
    BY <1>1, <1>2, <2>2 DEF TypeOK
  <2> QED
    BY <1>1, <1>2, <2>3 DEF TypeOK
<1>6. Unborn'
  BY <1>1, <1>2 DEF Unborn, Created, Running
<1>7. Alone' /\ Busy' /\ Resting'
  BY <1>1 DEF Alone, Busy, Resting, Running
<1> QED
  BY <1>4, <1>6, <1>7

LEMMA NextInvariant ==
    ASSUME GeneratorInv, [Next]_vars
    PROVE  GeneratorInv'
<1>1. CASE UNCHANGED vars
  <2> USE <1>1 DEF vars
  <2>1. TypeOK'
    BY DEF GeneratorInv, TypeOK
  <2>2. Unborn' /\ Alone' /\ Busy' /\ Resting'
    BY DEF GeneratorInv, Unborn, Alone, Busy, Resting, Created, Running
  <2> QED
    BY <2>1, <2>2 DEF GeneratorInv
<1>2. ASSUME NEW g \in Generators, NEW b \in Bodies, Create(g, b)
      PROVE  GeneratorInv'
  BY <1>2, CreateInvariant
<1>3. ASSUME NEW g \in Generators, Refuse(g)
      PROVE  GeneratorInv'
  BY <1>3, RefuseActs, StaysInvariant DEF Refuse
<1>4. ASSUME NEW g \in Generators, AskDone(g)
      PROVE  GeneratorInv'
  BY <1>4, AskDoneActs, StaysInvariant DEF AskDone
<1>5. ASSUME NEW g \in Generators, NEW v \in Sent, Resume(g, v)
      PROVE  GeneratorInv'
  BY <1>5, ResumeActs, PushesInvariant DEF Resume, Admitted
<1>6. ASSUME NEW g \in Generators, NEW v \in Sent, Close(g, v)
      PROVE  GeneratorInv'
  BY <1>6, CloseActs, StaysInvariant DEF Close
<1>7. CASE Work
  BY <1>7, WorkActs, MovesInvariant DEF Work, AtInstruction
<1>8. CASE Ask
  BY <1>8, AskActs, MovesInvariant DEF Ask, AtInstruction
<1>9. CASE Yield
  <2>1. /\ stack # <<>> /\ Top.gen \in Generators /\ TypeOK
        /\ Top.pc \in DOMAIN body[Top.gen]
    BY <1>9, TopActor DEF GeneratorInv, Yield, AtInstruction
  <2>2. Top.pc + 1 \in 1..(Len(body[Top.gen]) + 1)
    BY <2>1, BodyLengths
  <2> QED
    BY <1>9, <2>2, YieldActs, PopsInvariant
<1>10. CASE Return \/ RunOff \/ Throw
  BY <1>10, FinishActs, PopsInvariant
<1>11. CASE Fail
  <2>1. stack # <<>> /\ Top.gen \in Generators
    BY <1>11, TopActor DEF Fail
  <2>2. saved[Top.gen].pc \in 1..(Len(body[Top.gen]) + 1)
    BY <2>1 DEF GeneratorInv, TypeOK
  <2> QED
    BY <1>11, <2>2, FailActs, PopsInvariant
<1> QED
  BY <1>1, <1>2, <1>3, <1>4, <1>5, <1>6, <1>7, <1>8, <1>9, <1>10, <1>11 DEF Next

\* The invariant holds: the types, and what is known of a generator that is not there
\* yet, that runs and that rests (generator_object to call_generator_return).
THEOREM GeneratorsCorrect == Spec => []GeneratorInv
<1>1. Init => GeneratorInv
  BY InitInvariant
<1>2. GeneratorInv /\ [Next]_vars => GeneratorInv'
  BY NextInvariant
<1> QED
  BY <1>1, <1>2, PTL DEF Spec

\* The state of a generator and its executors is of its type, and every program counter
\* is one of the body or the place behind it (resume_generator, Flow::Yield).
THEOREM GeneratorTypes == Spec => []TypeOK
<1>1. GeneratorInv => TypeOK
  BY DEF GeneratorInv
<1> QED
  BY <1>1, GeneratorsCorrect, PTL

LEMMA NextFinished ==
    ASSUME GeneratorInv, [Next]_vars, NEW h \in Generators
    PROVE  NotRevived(h)
<1> SUFFICES ASSUME saved[h].done
             PROVE  saved'[h].done /\ ExecutorsOf(h)' \subseteq ExecutorsOf(h)
  BY DEF NotRevived
<1>1. ASSUME NEW g, Acts(g), h # g
      PROVE  saved'[h].done /\ ExecutorsOf(h)' \subseteq ExecutorsOf(h)
  BY <1>1 DEF Acts, SavedBut, Apart, Unmoved, ExecutorsOf
<1>2. ASSUME stack \in Seq(Executors), Stay \/ Move \/ Pop
      PROVE  ExecutorsOf(h)' \subseteq ExecutorsOf(h)
  BY <1>2, TopAndBelow DEF Stay, Move, Pop, Unmoved, ExecutorsOf, Top
<1>3. stack \in Seq(Executors)
  BY DEF GeneratorInv, TypeOK
<1>4. CASE UNCHANGED vars
  BY <1>4 DEF vars, ExecutorsOf
<1>5. ASSUME NEW g \in Generators, NEW b \in Bodies, Create(g, b)
      PROVE  saved'[h].done /\ ExecutorsOf(h)' \subseteq ExecutorsOf(h)
  BY <1>5 DEF Create, ExecutorsOf
<1>6. ASSUME NEW g \in Generators, Refuse(g) \/ AskDone(g)
      PROVE  saved'[h].done /\ ExecutorsOf(h)' \subseteq ExecutorsOf(h)
  BY <1>2, <1>3, <1>6, RefuseActs, AskDoneActs DEF Refuse, AskDone
<1>7. ASSUME NEW g \in Generators, NEW v \in Sent, Close(g, v)
      PROVE  saved'[h].done /\ ExecutorsOf(h)' \subseteq ExecutorsOf(h)
  BY <1>1, <1>2, <1>3, <1>7, CloseActs
<1>8. ASSUME NEW g \in Generators, NEW v \in Sent, Resume(g, v)
      PROVE  saved'[h].done /\ ExecutorsOf(h)' \subseteq ExecutorsOf(h)
  BY <1>1, <1>8, ResumeActs DEF Resume
<1>9. CASE Work \/ Ask \/ Fail
  BY <1>2, <1>3, <1>9, WorkActs, AskActs, FailActs DEF Work, Ask
<1>10. CASE Yield
  BY <1>1, <1>2, <1>3, <1>10, YieldActs
<1>11. CASE Return \/ RunOff \/ Throw
  BY <1>1, <1>2, <1>3, <1>11, FinishActs
<1> QED
  BY <1>4, <1>5, <1>6, <1>7, <1>8, <1>9, <1>10, <1>11 DEF Next

\* A generator at its end starts no executor any more, and a later yield of one that
\* still ran does not bring it back (call_generator_return, Flow::Yield).
THEOREM FinishedStays == Spec => StaysFinished
<1>1. GeneratorInv /\ [Next]_vars => [\A g \in Generators : NotRevived(g)]_vars
  BY NextFinished
<1> QED
  BY <1>1, GeneratorsCorrect, PTL DEF Spec, StaysFinished

-----------------------------------------------------------------------------
(* The refinement: what the others see of a generator.                     *)

SeenAlike(h) ==
    /\ Status(h)' = Status(h) /\ Position(h)' = Position(h)
    /\ Variables(h)' = Variables(h) /\ LastReceived(h)' = LastReceived(h)

\* The executor of a generator that is not spoiled is the only one it has.
LEMMA ExecutorIs ==
    ASSUME GeneratorInv, NEW h \in Generators, h \notin spoiled,
           NEW k \in DOMAIN stack, stack[k].gen = h
    PROVE  ExecutorOf(h) = stack[k]
<1>1. \A j \in DOMAIN stack : stack[j].gen = h => j = k
  BY DEF GeneratorInv, Alone
<1>2. (CHOOSE j \in DOMAIN stack : stack[j].gen = h) = k
  BY <1>1
<1> QED
  BY <1>2 DEF ExecutorOf

LEMMA ExecutorBecomes ==
    ASSUME GeneratorInv', NEW h \in Generators, h \notin spoiled',
           NEW k \in DOMAIN stack', stack'[k].gen = h
    PROVE  ExecutorOf(h)' = stack'[k]
<1>1. \A j \in DOMAIN stack' : stack'[j].gen = h => j = k
  BY DEF GeneratorInv, Alone
<1>2. (CHOOSE j \in DOMAIN stack' : stack'[j].gen = h) = k
  BY <1>1
<1> QED
  BY <1>2 DEF ExecutorOf

\* A generator whose state and executors are left alone looks as before.
LEMMA LeftAlone ==
    ASSUME GeneratorInv, GeneratorInv', NEW h \in Generators,
           body'[h] = body[h], saved'[h] = saved[h], locals'[h] = locals[h],
           h \in spoiled' <=> h \in spoiled, h \in Running' <=> h \in Running,
           \A k \in DOMAIN stack : stack[k].gen = h => k \in DOMAIN stack' /\ Unmoved(k)
    PROVE  SeenAlike(h)
<1>1. Status(h)' = Status(h)
  BY DEF Status, Created
<1>2. ASSUME Status(h) = "running"
      PROVE  ExecutorOf(h)'.pc = ExecutorOf(h).pc
             /\ ExecutorOf(h)'.register = ExecutorOf(h).register
  <2>1. h \in Running /\ h \notin spoiled /\ h \notin spoiled'
    BY <1>2 DEF Status
  <2>2. PICK k \in DOMAIN stack : stack[k].gen = h
    BY <2>1 DEF Running
  <2>3. k \in DOMAIN stack' /\ stack'[k].gen = h /\ Unmoved(k)
    BY <2>2 DEF Unmoved
  <2>4. ExecutorOf(h) = stack[k] /\ ExecutorOf(h)' = stack'[k]
    BY <2>1, <2>2, <2>3, ExecutorIs, ExecutorBecomes
  <2> QED
    BY <2>3, <2>4 DEF Unmoved
<1>3. Position(h)' = Position(h) /\ LastReceived(h)' = LastReceived(h)
  <2>1. CASE Status(h) = "running"
    BY <1>1, <1>2, <2>1 DEF Position, LastReceived, Seen
  <2>2. CASE Status(h) # "running"
    BY <1>1, <2>2 DEF Position, LastReceived, Seen
  <2> QED
    BY <2>1, <2>2
<1> QED
  BY <1>1, <1>3 DEF SeenAlike, Variables

LEMMA OthersAlike ==
    ASSUME GeneratorInv, GeneratorInv', NEW g \in Generators, Acts(g)
    PROVE  \A h \in Generators : h # g => SeenAlike(h)
<1> SUFFICES ASSUME NEW h \in Generators, h # g
             PROVE  SeenAlike(h)
  OBVIOUS
<1>1. /\ body'[h] = body[h] /\ saved'[h] = saved[h] /\ locals'[h] = locals[h]
      /\ (h \in spoiled' <=> h \in spoiled)
      /\ \A k \in DOMAIN stack : stack[k].gen = h => k \in DOMAIN stack' /\ Unmoved(k)
  BY DEF Acts, SavedBut, Apart
<1>2. h \in Running' <=> h \in Running
  BY ActsRunning
<1> QED
  BY <1>1, <1>2, LeftAlone

\* How the actor looks: not there, spoiled, running or resting.
LEMMA Looks ==
    ASSUME GeneratorInv, NEW g \in Generators, Created(g)
    PROVE  /\ g \in spoiled => /\ Status(g) = "spoiled" /\ Position(g) = 1
                               /\ Variables(g) = 0 /\ LastReceived(g) = Undefined
           /\ g \in Running \ spoiled => Status(g) = "running" /\ Variables(g) = locals[g]
           /\ g \notin Running \cup spoiled =>
                /\ Variables(g) = locals[g]
                /\ saved[g].done => /\ Status(g) = "finished" /\ Position(g) = 1
                                    /\ LastReceived(g) = Undefined
                /\ ~saved[g].done =>
                    /\ Status(g) = IF saved[g].initialized THEN "suspended" ELSE "fresh"
                    /\ Position(g) = saved[g].pc /\ LastReceived(g) = saved[g].register
BY DEF Status, Position, Variables, LastReceived, Seen

LEMMA WillLook ==
    ASSUME NEW g \in Generators, Created(g)'
    PROVE  /\ g \in spoiled' => /\ Status(g)' = "spoiled" /\ Position(g)' = 1
                                /\ Variables(g)' = 0 /\ LastReceived(g)' = Undefined
           /\ g \in Running' \ spoiled' =>
                /\ Status(g)' = "running" /\ Variables(g)' = locals'[g]
                /\ Position(g)' = ExecutorOf(g)'.pc
                /\ LastReceived(g)' = ExecutorOf(g)'.register
           /\ g \notin Running' \cup spoiled' =>
                /\ Variables(g)' = locals'[g]
                /\ saved'[g].done => /\ Status(g)' = "finished" /\ Position(g)' = 1
                                     /\ LastReceived(g)' = Undefined
                /\ ~saved'[g].done =>
                    /\ Status(g)' = IF saved'[g].initialized THEN "suspended" ELSE "fresh"
                    /\ Position(g)' = saved'[g].pc /\ LastReceived(g)' = saved'[g].register
BY DEF Status, Position, Variables, LastReceived, Seen

\* The generator whose body runs.
LEMMA TopLooks ==
    ASSUME GeneratorInv, stack # <<>>, Top.gen \notin spoiled
    PROVE  /\ Status(Top.gen) = "running" /\ Position(Top.gen) = Top.pc
           /\ Variables(Top.gen) = locals[Top.gen] /\ LastReceived(Top.gen) = Top.register
<1>1. Top.gen \in Generators /\ Created(Top.gen) /\ Top.gen \in Running
  BY TopActor
<1>2. ExecutorOf(Top.gen) = Top
  <2>1. Len(stack) \in DOMAIN stack
    BY TopAndBelow DEF GeneratorInv, TypeOK
  <2> QED
    BY <1>1, <2>1, ExecutorIs DEF Top
<1>3. Status(Top.gen) = "running" /\ Variables(Top.gen) = locals[Top.gen]
  BY <1>1, Looks
<1> QED
  BY <1>2, <1>3 DEF Position, LastReceived, Seen

\* The views of all generators after a step of one of them.
LEMMA Viewed ==
    ASSUME GeneratorInv, GeneratorInv', NEW g \in Generators, Acts(g)
    PROVE  /\ [h \in Generators |-> Status(h)]' =
                [[h \in Generators |-> Status(h)] EXCEPT ![g] = Status(g)']
           /\ [h \in Generators |-> Position(h)]' =
                [[h \in Generators |-> Position(h)] EXCEPT ![g] = Position(g)']
           /\ [h \in Generators |-> Variables(h)]' =
                [[h \in Generators |-> Variables(h)] EXCEPT ![g] = Variables(g)']
           /\ [h \in Generators |-> LastReceived(h)]' =
                [[h \in Generators |-> LastReceived(h)] EXCEPT ![g] = LastReceived(g)']
           /\ body' = body
BY OthersAlike DEF SeenAlike, Acts

LEMMA ViewedAlike ==
    ASSUME GeneratorInv, GeneratorInv', NEW g \in Generators, Acts(g)
    PROVE  /\ Status(g)' = Status(g) =>
                [h \in Generators |-> Status(h)]' = [h \in Generators |-> Status(h)]
           /\ Variables(g)' = Variables(g) =>
                [h \in Generators |-> Variables(h)]' = [h \in Generators |-> Variables(h)]
           /\ LastReceived(g)' = LastReceived(g) =>
                [h \in Generators |-> LastReceived(h)]' = [h \in Generators |-> LastReceived(h)]
BY OthersAlike DEF SeenAlike

\* A step of a generator of which nothing is promised any more.
LEMMA Spoils ==
    ASSUME GeneratorInv, GeneratorInv', NEW g \in Generators, Acts(g),
           g \in spoiled', g \in Running \cup spoiled
    PROVE  Objects!Spoil(g)
<1>1. Created(g) /\ Created(g)' /\ body' = body
  BY DEF Acts, Created
<1>2. Status(g) \in {"running", "spoiled"}
  BY <1>1, Looks
<1>3. /\ Status(g)' = "spoiled" /\ Position(g)' = 1
      /\ Variables(g)' = 0 /\ LastReceived(g)' = Undefined
  BY <1>1, WillLook
<1> QED
  BY <1>1, <1>2, <1>3, Viewed DEF Acts, Objects!Spoil, Objects!Forget

\* A call that changes nothing but the answer.
LEMMA AnsweredOnly ==
    ASSUME GeneratorInv, GeneratorInv', NEW g \in Generators, Acts(g), Stay,
           saved' = saved, locals' = locals, spoiled' = spoiled
    PROVE  SeenAlike(g)
<1>1. g \in Running' <=> g \in Running
  BY DEF Stay, Running, Unmoved
<1>2. \A k \in DOMAIN stack : stack[k].gen = g => k \in DOMAIN stack' /\ Unmoved(k)
  BY DEF Stay
<1> QED
  BY <1>1, <1>2, LeftAlone DEF Acts

LEMMA RefuseImplements ==
    ASSUME GeneratorInv, GeneratorInv', NEW g \in Generators, Refuse(g)
    PROVE  Objects!TooDeep(g)
<1>1. Acts(g) /\ Stay /\ Created(g)
  BY RefuseActs DEF Refuse
<1>2. SeenAlike(g)
  BY <1>1, AnsweredOnly DEF Refuse
<1>3. Status(g) # "none"
  BY <1>1 DEF Status
<1>4. answer' = [answer EXCEPT ![g] = Exception]
  BY DEF Refuse, Give
<1> QED
  BY <1>1, <1>2, <1>3, <1>4, Viewed DEF SeenAlike, Exception,
     Objects!TooDeep, Objects!Answers, Objects!Exception

LEMMA AskDoneImplements ==
    ASSUME GeneratorInv, GeneratorInv', NEW g \in Generators, AskDone(g)
    PROVE  Objects!AskFinished(g) \/ Objects!Spoil(g)
<1>1. Acts(g) /\ Stay /\ Created(g) /\ spoiled' = spoiled
  BY AskDoneActs DEF AskDone
<1>2. CASE g \in spoiled
  BY <1>1, <1>2, Spoils
<1>3. CASE g \notin spoiled
  <2>1. g \notin Running
    BY <1>3 DEF AskDone, GeneratorInv, Busy
  <2>2. Status(g) = "finished"
    BY <1>1, <1>3, <2>1, Looks DEF AskDone
  <2>3. SeenAlike(g)
    BY <1>1, AnsweredOnly DEF AskDone
  <2>4. answer' = [answer EXCEPT ![g] = Last(Undefined)]
    BY DEF AskDone, Give
  <2> QED
    BY <1>1, <2>2, <2>3, <2>4, Viewed, ZenonT(40) DEF SeenAlike, Last,
       Objects!AskFinished, Objects!Answers, Objects!Last
<1> QED
  BY <1>2, <1>3

LEMMA ResumeImplements ==
    ASSUME GeneratorInv, GeneratorInv', NEW g \in Generators, NEW v \in Sent, Resume(g, v)
    PROVE  Objects!Resume(g, v) \/ Objects!Spoil(g)
<1>1. Acts(g) /\ Push(g, v) /\ Created(g) /\ Created(g)'
  BY ResumeActs DEF Acts, Created
<1>2. spoiled' = IF g \in Running THEN spoiled \cup {g} ELSE spoiled
  BY DEF Resume
<1>3. CASE g \in Running \cup spoiled
  BY <1>1, <1>2, <1>3, Spoils
<1>4. CASE g \notin Running \cup spoiled
  <2>1. /\ Status(g) = IF saved[g].initialized THEN "suspended" ELSE "fresh"
        /\ Position(g) = saved[g].pc /\ LastReceived(g) = saved[g].register
        /\ Variables(g) = locals[g]
    BY <1>1, <1>4, Looks DEF Resume
  <2>2. Received(g, v) = IF saved[g].initialized THEN v ELSE saved[g].register
    BY <1>4 DEF Received, GeneratorInv, Resting, Resume
  <2>3. /\ Len(stack) + 1 \in DOMAIN stack' /\ stack'[Len(stack) + 1].gen = g
        /\ stack'[Len(stack) + 1].pc = saved[g].pc
        /\ stack'[Len(stack) + 1].register = Received(g, v)
    BY <1>1 DEF Push
  <2>4. g \in Running' /\ g \notin spoiled'
    BY <1>2, <1>4, <2>3 DEF Running
  <2>5. ExecutorOf(g)' = stack'[Len(stack) + 1]
    BY <2>3, <2>4, ExecutorBecomes
  <2>6. /\ Status(g)' = "running" /\ Position(g)' = saved[g].pc
        /\ LastReceived(g)' = Received(g, v) /\ Variables(g)' = locals[g]
    BY <1>1, <2>3, <2>4, <2>5, WillLook DEF Resume
  <2>7. answer' = answer
    BY DEF Resume
  <2>8. saved[g].initialized \in BOOLEAN
    BY DEF GeneratorInv, TypeOK, States
  <2> QED
    BY <1>1, <2>1, <2>2, <2>6, <2>7, <2>8, Viewed DEF Objects!Resume
<1> QED
  BY <1>3, <1>4

LEMMA CloseImplements ==
    ASSUME GeneratorInv, GeneratorInv', NEW g \in Generators, NEW v \in Sent, Close(g, v)
    PROVE  Objects!Close(g, v) \/ Objects!Spoil(g)
<1>1. Acts(g) /\ Stay /\ Created(g) /\ Created(g)' /\ saved'[g].done
  BY CloseActs DEF Acts, Created
<1>2. spoiled' = IF g \in Running THEN spoiled \cup {g} ELSE spoiled
  BY DEF Close
<1>3. CASE g \in Running \cup spoiled
  BY <1>1, <1>2, <1>3, Spoils
<1>4. CASE g \notin Running \cup spoiled
  <2>1. Status(g) \in {"fresh", "suspended", "finished"} /\ Variables(g) = locals[g]
    BY <1>1, <1>4, Looks
  <2>2. g \notin Running' \cup spoiled'
    BY <1>1, <1>2, <1>4 DEF Stay, Running, Unmoved
  <2>3. /\ Status(g)' = "finished" /\ Position(g)' = 1
        /\ LastReceived(g)' = Undefined /\ Variables(g)' = locals[g]
    BY <1>1, <2>2, WillLook DEF Close
  <2>4. answer' = [answer EXCEPT ![g] = Last(v)]
    BY DEF Close, Give
  <2> QED
    BY <1>1, <2>1, <2>3, <2>4, Viewed DEF Last, Objects!Close, Objects!Answers,
       Objects!Forget, Objects!Last
<1> QED
  BY <1>3, <1>4

\* The body, seen before and after a step that goes on and before one that ends it.
LEMMA MovesLooks ==
    ASSUME GeneratorInv, GeneratorInv', NEW g \in Generators, g = Top.gen,
           Acts(g), Move, g \notin spoiled'
    PROVE  /\ Status(g)' = "running" /\ Position(g)' = Top.pc + 1
           /\ LastReceived(g)' = Top.register
           /\ Variables(g)' = locals'[g]
<1>1. /\ Len(stack) \in DOMAIN stack' /\ stack'[Len(stack)].gen = g
      /\ stack'[Len(stack)].pc = Top.pc + 1 /\ stack'[Len(stack)].register = Top.register
  BY TopAndBelow DEF Move, GeneratorInv, TypeOK
<1>2. g \in Generators /\ (body[g] # <<>>) /\ (body'[g] # <<>>)
  BY TopActor DEF Move, Acts, Created
<1>3. g \in Running' \ spoiled'
  BY <1>1 DEF Running
<1>4. ExecutorOf(g)' = stack'[Len(stack)]
  BY <1>1, <1>2, <1>3, ExecutorBecomes
<1>5. /\ Status(g)' = "running" /\ Variables(g)' = locals'[g]
      /\ Position(g)' = ExecutorOf(g)'.pc /\ LastReceived(g)' = ExecutorOf(g)'.register
  BY <1>2, <1>3, WillLook DEF Created
<1> QED
  BY <1>1, <1>4, <1>5

LEMMA PopsAway ==
    ASSUME GeneratorInv, GeneratorInv', NEW g \in Generators, g = Top.gen,
           Acts(g), Pop, g \notin spoiled
    PROVE  g \notin Running'
<1>1. \A k \in DOMAIN stack' : stack'[k].gen # g
  BY TopActor DEF Pop, Unmoved
<1> QED
  BY <1>1 DEF Running

LEMMA WorkImplements ==
    ASSUME GeneratorInv, GeneratorInv', NEW g \in Generators, g = Top.gen, Work
    PROVE  Objects!Work(g) \/ Objects!Spoil(g)
<1>1. /\ Acts(g) /\ Move /\ g \in Generators /\ g \in Running /\ spoiled' = spoiled
      /\ stack # <<>> /\ answer' = answer
  BY WorkActs, TopActor DEF Work, Move
<1>2. CASE g \in spoiled
  BY <1>1, <1>2, Spoils
<1>3. CASE g \notin spoiled
  <2>1. /\ Status(g) = "running" /\ Position(g) = Top.pc
        /\ Variables(g) = locals[g] /\ LastReceived(g) = Top.register
    BY <1>1, <1>3, TopLooks
  <2>2. /\ Status(g)' = "running" /\ Position(g)' = Top.pc + 1
        /\ LastReceived(g)' = Top.register /\ Variables(g)' = locals'[g]
    BY <1>1, <1>3, MovesLooks
  <2>3. locals'[g] = locals[g] + 1
    BY <1>1 DEF Work, GeneratorInv, TypeOK
  <2>4. Top.pc \in DOMAIN body[g] /\ body[g][Top.pc] = "work"
    BY DEF Work, AtInstruction
  <2> QED
    <3>1. Objects!At(g, "work")
      BY <2>1, <2>4 DEF Objects!At
    <3>2. Objects!Step(g, "work")
      BY <1>1, <2>1, <2>2, <3>1, Viewed, ViewedAlike, ZenonT(40) DEF Objects!Step
    <3>3. [h \in Generators |-> Variables(h)]' =
            [[h \in Generators |-> Variables(h)] EXCEPT ![g] = locals[g] + 1]
      BY <1>1, <2>2, <2>3, Viewed
    <3>4. [h \in Generators |-> Status(h)]' = [h \in Generators |-> Status(h)]
      BY <1>1, <2>1, <2>2, ViewedAlike
    <3> QED
      BY <1>1, <2>1, <3>2, <3>3, <3>4 DEF Objects!Work
<1> QED
  BY <1>2, <1>3

LEMMA AskImplements ==
    ASSUME GeneratorInv, GeneratorInv', NEW g \in Generators, g = Top.gen, Ask
    PROVE  Objects!Ask(g) \/ Objects!Spoil(g)
<1>1. /\ Acts(g) /\ Move /\ g \in Generators /\ g \in Running /\ spoiled' = spoiled
      /\ stack # <<>> /\ answer' = answer /\ locals' = locals
  BY AskActs, TopActor DEF Ask, Move
<1>2. CASE g \in spoiled
  BY <1>1, <1>2, Spoils
<1>3. CASE g \notin spoiled
  <2>1. /\ Status(g) = "running" /\ Position(g) = Top.pc
        /\ Variables(g) = locals[g] /\ LastReceived(g) = Top.register
    BY <1>1, <1>3, TopLooks
  <2>2. /\ Status(g)' = "running" /\ Position(g)' = Top.pc + 1
        /\ LastReceived(g)' = Top.register /\ Variables(g)' = locals'[g]
    BY <1>1, <1>3, MovesLooks
  <2>3. Top.pc \in DOMAIN body[g] /\ body[g][Top.pc] = "ask"
    BY DEF Ask, AtInstruction
  <2> QED
    <3>1. Objects!At(g, "ask")
      BY <2>1, <2>3 DEF Objects!At
    <3>2. Objects!Step(g, "ask")
      BY <1>1, <2>1, <2>2, <3>1, Viewed, ViewedAlike, ZenonT(40) DEF Objects!Step
    <3> QED
      BY <1>1, <2>1, <2>2, <3>2, ViewedAlike DEF Objects!Ask
<1> QED
  BY <1>2, <1>3

LEMMA YieldImplements ==
    ASSUME GeneratorInv, GeneratorInv', NEW g \in Generators, g = Top.gen, Yield
    PROVE  Objects!Yield(g) \/ Objects!Spoil(g)
<1>1. /\ Acts(g) /\ Pop /\ g \in Generators /\ g \in Running /\ spoiled' = spoiled
      /\ stack # <<>> /\ locals' = locals /\ Created(g)'
  BY YieldActs, TopActor DEF Yield, Pop, Acts, Created
<1>2. CASE g \in spoiled
  BY <1>1, <1>2, Spoils
<1>3. CASE g \notin spoiled
  <2>1. /\ Status(g) = "running" /\ Position(g) = Top.pc
        /\ Variables(g) = locals[g] /\ LastReceived(g) = Top.register
    BY <1>1, <1>3, TopLooks
  <2>2. /\ saved'[g].initialized /\ ~saved'[g].done
        /\ saved'[g].pc = Top.pc + 1 /\ saved'[g].register = Top.register
    BY <1>1, <1>3, YieldActs DEF GeneratorInv, Busy
  <2>3. g \notin Running' \cup spoiled'
    BY <1>1, <1>3, PopsAway
  <2>4. /\ Status(g)' = "suspended" /\ Position(g)' = Top.pc + 1
        /\ LastReceived(g)' = Top.register /\ Variables(g)' = locals[g]
    BY <1>1, <2>2, <2>3, WillLook
  <2>5. Top.pc \in DOMAIN body[g] /\ body[g][Top.pc] = "yield"
    BY DEF Yield, AtInstruction
  <2>6. answer' = [answer EXCEPT ![g] = Item(<<locals[g], Top.register>>)]
    BY DEF Yield, Give, Value
  <2> QED
    <3>1. Objects!At(g, "yield")
      BY <2>1, <2>5 DEF Objects!At
    <3>2. Objects!Step(g, "yield")
      BY <1>1, <2>1, <2>4, <3>1, Viewed, ViewedAlike DEF Objects!Step
    <3>3. Objects!Answers(g, Objects!Item(Objects!Yielded(g)))
      BY <2>1, <2>6 DEF Item, Objects!Answers, Objects!Item, Objects!Yielded
    <3> QED
      BY <1>1, <2>1, <2>4, <3>2, <3>3, Viewed, ViewedAlike DEF Objects!Yield
<1> QED
  BY <1>2, <1>3

\* Return, RunOff and Throw: the body is at its end.
LEMMA FinishImplements ==
    ASSUME GeneratorInv, GeneratorInv', NEW g \in Generators, g = Top.gen,
           Return \/ RunOff \/ Throw, g \notin spoiled,
           NEW result, answer' = [answer EXCEPT ![g] = result]
    PROVE  /\ Objects!Finish(g, result)
           /\ Status(g) = "running" /\ Position(g) = Top.pc
           /\ Variables(g) = locals[g] /\ LastReceived(g) = Top.register
<1>1. /\ Acts(g) /\ Pop /\ g \in Generators /\ spoiled' = spoiled /\ saved'[g].done
      /\ stack # <<>> /\ locals' = locals /\ Created(g)'
  BY FinishActs, TopActor DEF Return, RunOff, Throw, Pop, Acts, Created
<1>2. /\ Status(g) = "running" /\ Position(g) = Top.pc
      /\ Variables(g) = locals[g] /\ LastReceived(g) = Top.register
  BY <1>1, TopLooks
<1>3. g \notin Running' \cup spoiled'
  BY <1>1, PopsAway
<1>4. /\ Status(g)' = "finished" /\ Position(g)' = 1
      /\ LastReceived(g)' = Undefined /\ Variables(g)' = locals[g]
  BY <1>1, <1>3, WillLook
<1>5. Objects!Finish(g, result)
  <2>1. Objects!Forget(g)
    BY <1>1, <1>4, Viewed DEF Objects!Forget
  <2> QED
    BY <1>1, <1>2, <1>4, <2>1, Viewed, ViewedAlike DEF Objects!Finish, Objects!Answers
<1> QED
  BY <1>2, <1>5

LEMMA EndImplements ==
    ASSUME GeneratorInv, GeneratorInv', NEW g \in Generators, g = Top.gen,
           Return \/ RunOff \/ Throw
    PROVE  Objects!Return(g) \/ Objects!RunOff(g) \/ Objects!Throw(g) \/ Objects!Spoil(g)
<1>1. Acts(g) /\ g \in Running /\ stack # <<>> /\ spoiled' = spoiled
  BY FinishActs, TopActor DEF Return, RunOff, Throw, AtInstruction
<1>2. CASE g \in spoiled
  BY <1>1, <1>2, Spoils
<1>3. CASE g \notin spoiled /\ Return
  <2>1. answer' = [answer EXCEPT ![g] = Last(<<locals[g], Top.register>>)]
    BY <1>3 DEF Return, Give, Value
  <2>2. /\ Objects!Finish(g, Last(<<locals[g], Top.register>>))
        /\ Status(g) = "running" /\ Position(g) = Top.pc
        /\ Variables(g) = locals[g] /\ LastReceived(g) = Top.register
    BY <1>3, <2>1, FinishImplements
  <2>3. Objects!At(g, "return")
    BY <1>3, <2>2 DEF Return, AtInstruction, Objects!At
  <2>4. Objects!Last(Objects!Yielded(g)) = Last(<<locals[g], Top.register>>)
    BY <2>2 DEF Last, Objects!Last, Objects!Yielded
  <2> QED
    BY <2>2, <2>3, <2>4 DEF Objects!Return
<1>4. CASE g \notin spoiled /\ RunOff
  <2>1. answer' = [answer EXCEPT ![g] = Last(Undefined)]
    BY <1>4 DEF RunOff, Give
  <2>2. Objects!Finish(g, Last(Undefined)) /\ Position(g) = Top.pc
    BY <1>4, <2>1, FinishImplements
  <2>3. Top.pc = Len(body[g]) + 1
    BY <1>1, <1>4, TopActor, BodyLengths DEF RunOff, GeneratorInv
  <2> QED
    BY <2>2, <2>3 DEF Last, Objects!Last, Objects!RunOff
<1>5. CASE g \notin spoiled /\ Throw
  <2>1. answer' = [answer EXCEPT ![g] = Exception]
    BY <1>5 DEF Throw, Give
  <2>2. Objects!Finish(g, Exception) /\ Status(g) = "running" /\ Position(g) = Top.pc
    BY <1>5, <2>1, FinishImplements
  <2>3. Objects!At(g, "throw")
    BY <1>5, <2>2 DEF Throw, AtInstruction, Objects!At
  <2> QED
    BY <2>2, <2>3 DEF Exception, Objects!Exception, Objects!Throw
<1> QED
  BY <1>2, <1>3, <1>4, <1>5

LEMMA FailImplements ==
    ASSUME GeneratorInv, GeneratorInv', NEW g \in Generators, g = Top.gen, Fail
    PROVE  Objects!Spoil(g)
BY FailActs, TopActor, Spoils DEF Fail

\* A body without an instruction cannot be told from none.
LEMMA CreateImplements ==
    ASSUME GeneratorInv, GeneratorInv', NEW g \in Generators, NEW b \in Bodies, Create(g, b)
    PROVE  Objects!Create(g, b) \/ UNCHANGED Objects!vars
<1>1. /\ ~Created(g) /\ stack = <<>> /\ DOMAIN stack = {}
      /\ saved' = saved /\ locals' = locals /\ stack' = stack
      /\ answer' = answer /\ spoiled' = spoiled
  BY DEF Create
<1>2. /\ body' = [body EXCEPT ![g] = b] /\ body'[g] = b
      /\ \A h \in Generators : h # g => body'[h] = body[h]
  BY DEF Create, GeneratorInv, TypeOK
<1>3. saved[g] = Fresh /\ locals[g] = 0 /\ g \notin spoiled /\ Running = {} /\ Running' = {}
  BY <1>1 DEF GeneratorInv, Unborn, Running
<1>4. \A h \in Generators : h # g => SeenAlike(h)
  <2> SUFFICES ASSUME NEW h \in Generators, h # g
               PROVE  SeenAlike(h)
    OBVIOUS
  <2> QED
    BY <1>1, <1>2, <1>3, LeftAlone
<1>5. /\ Status(g) = "none" /\ Position(g) = 1 /\ Variables(g) = 0
      /\ LastReceived(g) = Undefined
  BY <1>1, <1>3 DEF Status, Position, Variables, LastReceived, Seen, Fresh
<1>6. CASE b = <<>>
  <2>1. body' = body
    BY <1>1, <1>2, <1>6 DEF Created, GeneratorInv, TypeOK
  <2>2. SeenAlike(g)
    BY <1>1, <1>3, <2>1, LeftAlone
  <2> QED
    BY <1>1, <1>4, <2>1, <2>2 DEF SeenAlike, Objects!vars
<1>7. CASE b # <<>>
  <2>1. /\ Status(g)' = "fresh" /\ Position(g)' = 1 /\ Variables(g)' = 0
        /\ LastReceived(g)' = Undefined
    <3>1. Created(g)'
      BY <1>2, <1>7 DEF Created
    <3>2. ~saved'[g].done /\ ~saved'[g].initialized /\ saved'[g].pc = 1
          /\ saved'[g].register = Undefined
      BY <1>1, <1>3 DEF Fresh
    <3> QED
      BY <1>1, <1>3, <3>1, <3>2, WillLook
  <2>2. /\ [h \in Generators |-> Status(h)]' =
              [[h \in Generators |-> Status(h)] EXCEPT ![g] = "fresh"]
        /\ [h \in Generators |-> Position(h)]' = [h \in Generators |-> Position(h)]
        /\ [h \in Generators |-> Variables(h)]' = [h \in Generators |-> Variables(h)]
        /\ [h \in Generators |-> LastReceived(h)]' = [h \in Generators |-> LastReceived(h)]
    BY <1>4, <1>5, <2>1 DEF SeenAlike
  <2> QED
    BY <1>1, <1>2, <1>5, <2>2 DEF Objects!Create
<1> QED
  BY <1>6, <1>7

LEMMA InitImplements ==
    ASSUME Init
    PROVE  Objects!Init
<1>1. \A g \in Generators :
        /\ Status(g) = "none" /\ Position(g) = 1 /\ Variables(g) = 0
        /\ LastReceived(g) = Undefined
  BY DEF Init, Status, Position, Variables, LastReceived, Seen, Created, Fresh
<1> QED
  BY <1>1 DEF Init, Last, Objects!Init, Objects!Last

LEMMA NextImplements ==
    ASSUME GeneratorInv, GeneratorInv', [Next]_vars
    PROVE  [Objects!Next]_(Objects!vars)
<1>1. CASE UNCHANGED vars
  <2>1. \A h \in Generators : SeenAlike(h)
    BY <1>1, LeftAlone DEF vars, Running, Unmoved
  <2> QED
    BY <1>1, <2>1 DEF vars, SeenAlike, Objects!vars
<1>2. ASSUME NEW g \in Generators, NEW b \in Bodies, Create(g, b)
      PROVE  [Objects!Next]_(Objects!vars)
  BY <1>2, CreateImplements DEF Objects!Next
<1>3. ASSUME NEW g \in Generators, Refuse(g) \/ AskDone(g)
      PROVE  Objects!Next
  BY <1>3, RefuseImplements, AskDoneImplements DEF Objects!Next
<1>4. ASSUME NEW g \in Generators, NEW v \in Sent, Resume(g, v) \/ Close(g, v)
      PROVE  Objects!Next
  BY <1>4, ResumeImplements, CloseImplements DEF Objects!Next
<1>5. CASE Work \/ Ask \/ Yield \/ Return \/ RunOff \/ Throw \/ Fail
  <2>1. stack # <<>>
    BY <1>5 DEF Work, Ask, Yield, Return, RunOff, Throw, Fail, AtInstruction
  <2>2. PICK g \in Generators : g = Top.gen
    BY <2>1, TopActor
  <2> QED
    BY <1>5, <2>2, WorkImplements, AskImplements, YieldImplements, EndImplements,
       FailImplements DEF Objects!Next
<1> QED
  BY <1>1, <1>2, <1>3, <1>4, <1>5 DEF Next

\* Generators as the executor runs them keep the promises of GeneratorObjects, for any
\* number of generators, bodies and limits (generator_object to call_generator_return).
THEOREM ObjectsImplemented == Spec => GeneratorObjectsSpec
<1>1. Init => Objects!Init
  BY InitImplements
<1>2. GeneratorInv /\ GeneratorInv' /\ [Next]_vars => [Objects!Next]_(Objects!vars)
  BY NextImplements
<1> QED
  BY <1>1, <1>2, GeneratorsCorrect, PTL DEF Spec, Objects!Spec, GeneratorObjectsSpec
=============================================================================
