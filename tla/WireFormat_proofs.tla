-------------------------- MODULE WireFormat_proofs --------------------------
(***************************************************************************)
(* What is written by WireOperands, WireInstructions and WireModule can be *)
(* read, and what can be read of a part of some bytes is read of the whole *)
(* as well: the lemmas behind the theorems of WireTransfer_proofs.         *)
(***************************************************************************)
EXTENDS WireModule, WellFoundedInduction, SequenceTheorems, TLAPS

-----------------------------------------------------------------------------
(* Induction and recursion, for sets and functions.                        *)

\* A set of numbers that has one has a least.
LEMMA LeastOf ==
    ASSUME NEW T, T \subseteq Nat, T # {}
    PROVE  \E x \in T : \A y \in T : x <= y
<1>1. PICK x \in T : \A y \in T : ~(<<y, x>> \in OpToRel(<, Nat))
  BY NatLessThanWellFounded, WFMin
<1>2. ASSUME NEW y \in T PROVE x <= y
  <2>1. x \in Nat /\ y \in Nat
    OBVIOUS
  <2>2. y < x => <<y, x>> \in OpToRel(<, Nat)
    BY <2>1 DEF OpToRel
  <2>3. ~(y < x)
    BY <1>1, <2>2
  <2> QED
    BY <2>1, <2>3
<1> QED
  BY <1>1, <1>2

\* Induction over the numbers, for a set of them.
LEMMA NatSet ==
    ASSUME NEW S, 0 \in S, \A n \in Nat : n \in S => n + 1 \in S
    PROVE  Nat \subseteq S
<1> SUFFICES ASSUME Nat \ S # {} PROVE FALSE
  OBVIOUS
<1>1. PICK x \in Nat \ S : \A y \in Nat \ S : x <= y
  BY LeastOf
<1>2. x # 0 /\ x - 1 \in Nat
  BY <1>1
<1>3. x - 1 \in S
  BY <1>1, <1>2
<1> QED
  BY <1>1, <1>2, <1>3

\* The same with all smaller numbers.
LEMMA StrongSet ==
    ASSUME NEW S, \A n \in Nat : (\A m \in 0..(n - 1) : m \in S) => n \in S
    PROVE  Nat \subseteq S
<1> SUFFICES ASSUME Nat \ S # {} PROVE FALSE
  OBVIOUS
<1>1. PICK x \in Nat \ S : \A y \in Nat \ S : x <= y
  BY LeastOf
<1>2. \A m \in 0..(x - 1) : m \in S
  BY <1>1
<1> QED
  BY <1>1, <1>2

\* A recursive function exists if its value at d depends on those at arguments of a
\* lower rank only; F[d] has the recursion's right side, as a function of the function.
Descends(D, V, rank, F) ==
    /\ V # {} /\ rank \in [D -> Nat] /\ F \in [D -> [[D -> V] -> V]]
    /\ \A d \in D : \A g, h \in [D -> V] :
          (\A c \in D : rank[c] < rank[d] => g[c] = h[c]) => F[d][g] = F[d][h]

\* A function defined by recursion over the numbers is one.
LEMMA Recursion ==
    ASSUME NEW D, NEW V, NEW rank, NEW F, Descends(D, V, rank, F)
    PROVE  \E f \in [D -> V] : \A d \in D : f[d] = F[d][f]
<1>0. /\ rank \in [D -> Nat] /\ F \in [D -> [[D -> V] -> V]]
      /\ \A d \in D : \A g, h \in [D -> V] :
            (\A c \in D : rank[c] < rank[d] => g[c] = h[c]) => F[d][g] = F[d][h]
  BY DEF Descends
<1> USE <1>0
<1> PICK v0 \in V : TRUE
  BY DEF Descends
<1> DEFINE Sat(g, n) == \A d \in D : rank[d] < n => g[d] = F[d][g]
           Some == {n \in Nat : \E g \in [D -> V] : Sat(g, n)}
<1>1. ASSUME NEW n \in Nat, NEW g \in [D -> V], NEW h \in [D -> V], Sat(g, n), Sat(h, n),
             NEW d \in D, rank[d] < n
      PROVE  g[d] = h[d]
  <2> DEFINE Differ == {k \in Nat : k < n /\ \E c \in D : rank[c] = k /\ g[c] # h[c]}
  <2> SUFFICES ASSUME Differ # {} PROVE FALSE
    <3>1. Differ = {} => \A c \in D : rank[c] < n => g[c] = h[c]
      OBVIOUS
    <3> QED
      BY <1>1, <3>1
  <2>1. PICK k \in Differ : \A j \in Differ : k <= j
    BY LeastOf
  <2>2. PICK c \in D : rank[c] = k /\ g[c] # h[c]
    BY <2>1
  <2>3. \A b \in D : rank[b] < rank[c] => g[b] = h[b]
    BY <2>1, <2>2
  <2>4. F[c][g] = F[c][h]
    BY <2>3
  <2>5. g[c] = F[c][g] /\ h[c] = F[c][h]
    BY <1>1, <2>1, <2>2
  <2> QED
    BY <2>2, <2>4, <2>5
<1>2. 0 \in Some
  <2>1. [d \in D |-> v0] \in [D -> V]
    OBVIOUS
  <2>2. Sat([d \in D |-> v0], 0)
    OBVIOUS
  <2> QED
    BY <2>1, <2>2
<1>3. ASSUME NEW n \in Nat, n \in Some PROVE n + 1 \in Some
  <2>1. PICK g \in [D -> V] : Sat(g, n)
    BY <1>3
  <2>2. PICK h : h = [d \in D |-> F[d][g]]
    OBVIOUS
  <2>3. h \in [D -> V]
    BY <2>2
  <2>4. ASSUME NEW d \in D, rank[d] < n + 1 PROVE h[d] = F[d][h]
    <3>1. \A c \in D : rank[c] < rank[d] => g[c] = h[c]
      BY <2>1, <2>2, <2>4
    <3>2. F[d][g] = F[d][h]
      BY <2>3, <3>1
    <3> QED
      BY <2>2, <3>2
  <2>5. Sat(h, n + 1)
    BY <2>4
  <2> QED
    BY <2>3, <2>5
<1>4. \A n \in Nat : n \in Some
  <2> HIDE DEF Some
  <2> QED
    BY <1>2, <1>3, NatSet
<1>5. ASSUME NEW n \in Nat, NEW g \in [D -> V], Sat(g, n + 1), NEW d \in D, n = rank[d] PROVE g[d] = F[d][g]
  BY <1>5
<1>6. ASSUME NEW n \in Nat, NEW k \in Nat, NEW g \in [D -> V], Sat(g, n + 1), k < n PROVE Sat(g, k + 1)
  <2>1. \A d \in D : rank[d] \in Nat
    OBVIOUS
  <2> QED
    BY <1>6, <2>1
<1> DEFINE G(n) == CHOOSE g \in [D -> V] : Sat(g, n)
<1>7. \A n \in Nat : G(n) \in [D -> V] /\ Sat(G(n), n)
  BY <1>4
<1>8. PICK f : f = [d \in D |-> G(rank[d] + 1)[d]]
  OBVIOUS
<1> HIDE DEF G, Sat
<1>9. f \in [D -> V]
  BY <1>7, <1>8
<1>10. ASSUME NEW d \in D PROVE f[d] = F[d][f]
  <2>1. PICK g : g = G(rank[d] + 1)
    OBVIOUS
  <2>2. g \in [D -> V] /\ Sat(g, rank[d] + 1) /\ f[d] = g[d] /\ rank[d] \in Nat
    BY <1>7, <1>8, <2>1
  <2>3. g[d] = F[d][g]
    BY <2>2, <1>5
  <2>4. ASSUME NEW c \in D, rank[c] < rank[d] PROVE f[c] = g[c]
    <3>1. PICK h : h = G(rank[c] + 1)
      OBVIOUS
    <3>2. /\ h \in [D -> V] /\ Sat(h, rank[c] + 1)
          /\ f[c] = h[c] /\ rank[c] \in Nat /\ rank[c] + 1 \in Nat
      BY <1>7, <1>8, <3>1
    <3>3. Sat(g, rank[c] + 1)
      BY <2>2, <2>4, <3>2, <1>6
    <3>4. h[c] = g[c]
      <4>1. rank[c] < rank[c] + 1
        BY <3>2
      <4> QED
        BY <1>1, <2>2, <3>2, <3>3, <4>1, Zenon
    <3> QED
      BY <3>2, <3>4
  <2>5. F[d][f] = F[d][g]
    BY <1>9, <2>2, <2>4
  <2> QED
    BY <2>2, <2>3, <2>5
<1> QED
  BY <1>9, <1>10

\* Induction up to a number.
LEMMA UptoSet ==
    ASSUME NEW n \in Nat, NEW S, 0 \in S, \A k \in 0..(n - 1) : k \in S => k + 1 \in S
    PROVE  0..n \subseteq S
<1> DEFINE T == {k \in Nat : k <= n => k \in S}
<1>1. 0 \in T
  OBVIOUS
<1>2. \A k \in Nat : k \in T => k + 1 \in T
  OBVIOUS
<1> HIDE DEF T
<1>3. Nat \subseteq T
  BY <1>1, <1>2, NatSet
<1> QED
  BY <1>3 DEF T

-----------------------------------------------------------------------------
(* Totals.                                                                 *)

\* What TotalUpto is defined by.
LEMMA TotalStep ==
    ASSUME NEW numbers, NEW n \in Nat, n = Len(numbers)
    PROVE  /\ TotalUpto(numbers)[0] = 0
           /\ \A k \in 1..n : TotalUpto(numbers)[k] = TotalUpto(numbers)[k - 1] + numbers[k]
<1> DEFINE S == {k \in Nat : \E f : f = [j \in 0..k |-> IF j = 0 THEN 0 ELSE f[j - 1] + numbers[j]]}
<1>1. 0 \in S
  <2>1. PICK f : f = [j \in 0..0 |-> 0]
    OBVIOUS
  <2>2. f = [j \in 0..0 |-> IF j = 0 THEN 0 ELSE f[j - 1] + numbers[j]]
    BY <2>1
  <2> QED
    BY <2>2
<1>2. ASSUME NEW k \in Nat, k \in S PROVE k + 1 \in S
  <2>1. PICK f : f = [j \in 0..k |-> IF j = 0 THEN 0 ELSE f[j - 1] + numbers[j]]
    BY <1>2
  <2>2. PICK g : g = [j \in 0..(k + 1) |-> IF j = k + 1 THEN f[k] + numbers[k + 1] ELSE f[j]]
    OBVIOUS
  <2>3. ASSUME NEW j \in 0..(k + 1)
        PROVE  g[j] = IF j = 0 THEN 0 ELSE g[j - 1] + numbers[j]
    BY <2>1, <2>2
  <2>4. g = [j \in 0..(k + 1) |-> IF j = 0 THEN 0 ELSE g[j - 1] + numbers[j]]
    BY <2>2, <2>3
  <2> QED
    BY <2>4
<1>3. n \in S
  <2> HIDE DEF S
  <2> QED
    BY <1>1, <1>2, NatSet
<1>4. \E f : f = [j \in 0..Len(numbers) |-> IF j = 0 THEN 0 ELSE f[j - 1] + numbers[j]]
  BY <1>3
<1>5. PICK f : /\ f = TotalUpto(numbers)
               /\ f = [j \in 0..Len(numbers) |-> IF j = 0 THEN 0 ELSE f[j - 1] + numbers[j]]
  BY <1>4 DEF TotalUpto
<1> QED
  BY <1>5

\* Totals of numbers are numbers.
LEMMA TotalType ==
    ASSUME NEW numbers \in Seq(Nat)
    PROVE  /\ \A k \in 0..Len(numbers) : TotalUpto(numbers)[k] \in Nat
           /\ Total(numbers) \in Nat
<1>1. PICK n \in Nat : n = Len(numbers)
  OBVIOUS
<1>2. /\ TotalUpto(numbers)[0] = 0
      /\ \A k \in 1..n : TotalUpto(numbers)[k] = TotalUpto(numbers)[k - 1] + numbers[k]
  BY <1>1, TotalStep
<1> DEFINE S == {k \in 0..n : TotalUpto(numbers)[k] \in Nat}
<1>3. 0 \in S
  BY <1>2
<1>4. ASSUME NEW k \in 0..(n - 1), k \in S PROVE k + 1 \in S
  BY <1>1, <1>2, <1>4
<1> HIDE DEF S
<1>5. 0..n \subseteq S
  BY <1>3, <1>4, UptoSet
<1> QED
  BY <1>1, <1>5 DEF S, Total

\* A total depends on what it is the total of only.
LEMMA TotalAgrees ==
    ASSUME NEW a \in Seq(Nat), NEW b \in Seq(Nat), NEW n \in Nat, n <= Len(a), n <= Len(b),
           \A k \in 1..n : a[k] = b[k]
    PROVE  TotalUpto(a)[n] = TotalUpto(b)[n]
<1>1. PICK p \in Nat, q \in Nat : p = Len(a) /\ q = Len(b)
  OBVIOUS
<1>2. /\ TotalUpto(a)[0] = 0
      /\ \A k \in 1..p : TotalUpto(a)[k] = TotalUpto(a)[k - 1] + a[k]
  BY <1>1, TotalStep
<1>3. /\ TotalUpto(b)[0] = 0
      /\ \A k \in 1..q : TotalUpto(b)[k] = TotalUpto(b)[k - 1] + b[k]
  BY <1>1, TotalStep
<1> DEFINE S == {k \in 0..n : TotalUpto(a)[k] = TotalUpto(b)[k]}
<1>4. 0 \in S
  BY <1>2, <1>3
<1>5. ASSUME NEW k \in 0..(n - 1), k \in S PROVE k + 1 \in S
  <2>1. TotalUpto(a)[k + 1] = TotalUpto(a)[k] + a[k + 1]
    BY <1>1, <1>2
  <2>2. TotalUpto(b)[k + 1] = TotalUpto(b)[k] + b[k + 1]
    BY <1>1, <1>3
  <2> QED
    BY <1>5, <2>1, <2>2
<1> HIDE DEF S
<1>6. 0..n \subseteq S
  BY <1>4, <1>5, UptoSet
<1> QED
  BY <1>6 DEF S

\* Totals of no number, of a concatenation, of one number and of one more.
LEMMA TotalEmpty == Total(<<>>) = 0
<1>1. Len(<<>>) = 0
  OBVIOUS
<1> QED
  BY <1>1, TotalStep DEF Total

LEMMA TotalConcat ==
    ASSUME NEW a \in Seq(Nat), NEW b \in Seq(Nat)
    PROVE  Total(a \o b) = Total(a) + Total(b)
<1>1. PICK p \in Nat, q \in Nat : p = Len(a) /\ q = Len(b)
  OBVIOUS
<1>2. /\ a \o b \in Seq(Nat) /\ Len(a \o b) = p + q
      /\ \A k \in 1..p : (a \o b)[k] = a[k]
      /\ \A k \in 1..q : (a \o b)[p + k] = b[k]
  BY <1>1, ConcatProperties
<1>3. PICK c \in Seq(Nat) : c = a \o b
  BY <1>2
<1>4. TotalUpto(c)[p] = TotalUpto(a)[p]
  <2>1. p <= Len(c) /\ p <= Len(a) /\ \A k \in 1..p : c[k] = a[k]
    BY <1>1, <1>2, <1>3
  <2> QED
    BY <2>1, TotalAgrees
<1>5. \A k \in 1..(p + q) : TotalUpto(c)[k] = TotalUpto(c)[k - 1] + c[k]
  <2>1. PICK r \in Nat : r = p + q /\ r = Len(c)
    BY <1>2, <1>3
  <2>2. \A k \in 1..r : TotalUpto(c)[k] = TotalUpto(c)[k - 1] + c[k]
    BY <2>1, TotalStep
  <2> QED
    BY <2>1, <2>2
<1>6. /\ TotalUpto(b)[0] = 0
      /\ \A k \in 1..q : TotalUpto(b)[k] = TotalUpto(b)[k - 1] + b[k]
  BY <1>1, TotalStep
<1>7. /\ TotalUpto(a)[p] \in Nat
      /\ \A k \in 0..q : TotalUpto(b)[k] \in Nat
  BY <1>1, TotalType
<1> DEFINE S == {k \in 0..q : TotalUpto(c)[p + k] = TotalUpto(a)[p] + TotalUpto(b)[k]}
<1>8. 0 \in S
  BY <1>4, <1>6, <1>7
<1>9. ASSUME NEW k \in 0..(q - 1), k \in S PROVE k + 1 \in S
  <2>1. TotalUpto(c)[p + (k + 1)] = TotalUpto(c)[p + k] + c[p + (k + 1)]
    BY <1>5
  <2>2. c[p + (k + 1)] = b[k + 1] /\ b[k + 1] \in Nat
    <3>1. k + 1 \in 1..q
      OBVIOUS
    <3>2. b[k + 1] \in Nat
      BY <1>1, <3>1
    <3> QED
      BY <1>2, <1>3, <3>1, <3>2, Zenon
  <2>3. TotalUpto(b)[k + 1] = TotalUpto(b)[k] + b[k + 1]
    BY <1>6
  <2>4. PICK x \in Nat, y \in Nat, z \in Nat : x = TotalUpto(a)[p] /\ y = TotalUpto(b)[k] /\ z = b[k + 1]
    <3>1. k \in 0..q
      OBVIOUS
    <3>2. TotalUpto(a)[p] \in Nat /\ TotalUpto(b)[k] \in Nat /\ b[k + 1] \in Nat
      BY <1>7, <2>2, <3>1, Zenon
    <3> QED
      BY <3>2, Zenon
  <2>5. TotalUpto(c)[p + k] = x + y
    BY <1>9, <2>4
  <2>6. TotalUpto(c)[p + (k + 1)] = (x + y) + z /\ TotalUpto(b)[k + 1] = y + z
    BY <2>1, <2>2, <2>3, <2>4, <2>5, Zenon
  <2>7. (x + y) + z = x + (y + z) /\ k + 1 \in 0..q
    OBVIOUS
  <2> QED
    BY <2>4, <2>6, <2>7, Zenon
<1> HIDE DEF S
<1>10. 0..q \subseteq S
  BY <1>8, <1>9, UptoSet
<1>11. TotalUpto(c)[p + q] = TotalUpto(a)[p] + TotalUpto(b)[q]
  BY <1>10 DEF S
<1> QED
  BY <1>1, <1>2, <1>3, <1>11 DEF Total

LEMMA TotalOne ==
    ASSUME NEW n \in Nat
    PROVE  Total(<<n>>) = n
<1>1. PICK s : s = <<n>>
  OBVIOUS
<1>2. Len(s) = 1 /\ s[1] = n /\ 1 \in Nat
  BY <1>1
<1>3. TotalUpto(s)[0] = 0 /\ \A k \in 1..1 : TotalUpto(s)[k] = TotalUpto(s)[k - 1] + s[k]
  BY <1>2, TotalStep
<1>4. TotalUpto(s)[1] = n
  BY <1>2, <1>3
<1> QED
  BY <1>1, <1>2, <1>4 DEF Total

LEMMA TotalAppend ==
    ASSUME NEW a \in Seq(Nat), NEW n \in Nat
    PROVE  Append(a, n) \in Seq(Nat) /\ Total(Append(a, n)) = Total(a) + n
<1>1. Append(a, n) = a \o <<n>> /\ <<n>> \in Seq(Nat)
  BY AppendIsConcat
<1> QED
  BY <1>1, TotalConcat, TotalOne, ConcatProperties

-----------------------------------------------------------------------------
(* Sequences of sequences.                                                 *)

\* What FlattenSeq is defined by.
LEMMA FlattenStep ==
    ASSUME NEW seqs, NEW n \in Nat, n = Len(seqs), n # 0
    PROVE  \E f : /\ FlattenSeq(seqs) = f[n]
                  /\ f[1] = seqs[1]
                  /\ \A k \in 2..n : f[k] = f[k - 1] \o seqs[k]
<1> DEFINE S == {k \in Nat : \E f : f = [j \in 1..k |-> IF j = 1 THEN seqs[j] ELSE f[j - 1] \o seqs[j]]}
<1>1. 0 \in S
  <2>1. PICK f : f = [j \in 1..0 |-> 0]
    OBVIOUS
  <2>2. f = [j \in 1..0 |-> IF j = 1 THEN seqs[j] ELSE f[j - 1] \o seqs[j]]
    BY <2>1
  <2> QED
    BY <2>2
<1>2. ASSUME NEW k \in Nat, k \in S PROVE k + 1 \in S
  <2>1. PICK f : f = [j \in 1..k |-> IF j = 1 THEN seqs[j] ELSE f[j - 1] \o seqs[j]]
    BY <1>2
  <2>2. PICK g : g = [j \in 1..(k + 1) |->
                        IF j = k + 1 THEN (IF k = 0 THEN seqs[1] ELSE f[k] \o seqs[k + 1]) ELSE f[j]]
    OBVIOUS
  <2>3. ASSUME NEW j \in 1..(k + 1)
        PROVE  g[j] = IF j = 1 THEN seqs[j] ELSE g[j - 1] \o seqs[j]
    <3>1. CASE j = k + 1
      <4>1. g[j] = IF k = 0 THEN seqs[1] ELSE f[k] \o seqs[k + 1]
        BY <2>2, <3>1
      <4>2. k # 0 => g[k] = f[k]
        BY <2>2
      <4>3. j - 1 = k
        BY <3>1
      <4> QED
        BY <3>1, <4>1, <4>2, <4>3
    <3>2. CASE j # k + 1
      <4>1. j \in 1..k /\ g[j] = f[j]
        BY <2>2, <3>2
      <4>2. j # 1 => j - 1 \in 1..k /\ g[j - 1] = f[j - 1]
        BY <2>2, <4>1
      <4> QED
        BY <2>1, <4>1, <4>2
    <3> QED
      BY <3>1, <3>2
  <2>4. g = [j \in 1..(k + 1) |-> IF j = 1 THEN seqs[j] ELSE g[j - 1] \o seqs[j]]
    BY <2>2, <2>3
  <2>5. \E h : h = [j \in 1..(k + 1) |-> IF j = 1 THEN seqs[j] ELSE h[j - 1] \o seqs[j]]
    BY <2>4, Zenon
  <2>6. k + 1 \in Nat
    OBVIOUS
  <2> QED
    BY <2>5, <2>6, Zenon
<1>3. n \in S
  <2> HIDE DEF S
  <2> QED
    BY <1>1, <1>2, NatSet
<1>4. \E f : f = [j \in 1..Len(seqs) |-> IF j = 1 THEN seqs[j] ELSE f[j - 1] \o seqs[j]]
  BY <1>3
<1>5. PICK f : /\ FlattenSeq(seqs) = f[Len(seqs)]
               /\ f = [j \in 1..Len(seqs) |-> IF j = 1 THEN seqs[j] ELSE f[j - 1] \o seqs[j]]
  BY <1>4 DEF FlattenSeq
<1>6. f = [j \in 1..n |-> IF j = 1 THEN seqs[j] ELSE f[j - 1] \o seqs[j]]
  BY <1>5
<1>7. f[1] = seqs[1] /\ \A k \in 2..n : f[k] = f[k - 1] \o seqs[k]
  <2>1. ASSUME NEW k \in 1..n PROVE f[k] = IF k = 1 THEN seqs[k] ELSE f[k - 1] \o seqs[k]
    BY <1>6, Zenon
  <2>2. 1 \in 1..n
    OBVIOUS
  <2>3. \A k \in 2..n : k \in 1..n /\ k # 1
    OBVIOUS
  <2> QED
    BY <2>1, <2>2, <2>3, Zenon
<1> QED
  BY <1>5, <1>7

\* The sizes of sequences are numbers.
LEMMA SizesType ==
    ASSUME NEW S, NEW seqs \in Seq(Seq(S))
    PROVE  /\ Sizes(seqs) \in Seq(Nat) /\ Len(Sizes(seqs)) = Len(seqs)
           /\ \A k \in 1..Len(seqs) : Sizes(seqs)[k] = Len(seqs[k])
<1>1. PICK n \in Nat : n = Len(seqs) /\ DOMAIN seqs = 1..n
  OBVIOUS
<1>2. \A k \in 1..n : Len(seqs[k]) \in Nat
  BY <1>1
<1>3. PICK f : f = [k \in 1..n |-> Len(seqs[k])]
  OBVIOUS
<1>4. f \in [1..n -> Nat]
  BY <1>2, <1>3
<1>5. f \in Seq(Nat) /\ Len(f) = n
  BY <1>4
<1>6. \A k \in 1..n : f[k] = Len(seqs[k])
  BY <1>3
<1>7. Sizes(seqs) = f
  BY <1>1, <1>3, Zenon DEF Sizes
<1> QED
  BY <1>1, <1>5, <1>6, <1>7, Zenon

\* The parts of a flat sequence are where the totals of the sizes say.
LEMMA Flatten ==
    ASSUME NEW S, NEW seqs \in Seq(Seq(S))
    PROVE  /\ FlattenSeq(seqs) \in Seq(S)
           /\ Len(FlattenSeq(seqs)) = Total(Sizes(seqs))
           /\ \A k \in 1..Len(seqs) : \A j \in 1..Len(seqs[k]) :
                /\ TotalUpto(Sizes(seqs))[k - 1] + j \in 1..Len(FlattenSeq(seqs))
                /\ FlattenSeq(seqs)[TotalUpto(Sizes(seqs))[k - 1] + j] = seqs[k][j]
<1>1. PICK n \in Nat : n = Len(seqs)
  OBVIOUS
<1>2. CASE n = 0
  <2>1. seqs = <<>> /\ Sizes(seqs) = <<>>
    BY <1>1, <1>2, SizesType, EmptySeq
  <2> QED
    BY <1>1, <1>2, <2>1, TotalEmpty DEF FlattenSeq
<1>3. CASE n # 0
  <2>1. PICK f : /\ FlattenSeq(seqs) = f[n]
                 /\ f[1] = seqs[1]
                 /\ \A k \in 2..n : f[k] = f[k - 1] \o seqs[k]
    BY <1>1, <1>3, FlattenStep
  <2>2. PICK t : t = TotalUpto(Sizes(seqs))
    OBVIOUS
  <2>3. /\ t[0] = 0
        /\ \A k \in 1..n : t[k] = t[k - 1] + Len(seqs[k])
        /\ \A k \in 0..n : t[k] \in Nat
    <3>1. Sizes(seqs) \in Seq(Nat) /\ n = Len(Sizes(seqs))
      BY <1>1, SizesType
    <3>2. \A k \in 1..n : Sizes(seqs)[k] = Len(seqs[k])
      BY <1>1, SizesType
    <3> QED
      BY <2>2, <3>1, <3>2, TotalStep, TotalType
  <2> DEFINE At(k) == /\ f[k] \in Seq(S)
                      /\ Len(f[k]) = t[k]
                      /\ \A i \in 1..k : \A j \in 1..Len(seqs[i]) :
                            /\ t[i - 1] + j \in 1..t[k]
                            /\ f[k][t[i - 1] + j] = seqs[i][j]
             T == {k \in 0..n : k # 0 => At(k)}
  <2>4. 0 \in T
    OBVIOUS
  <2>5. ASSUME NEW k \in 0..(n - 1), k \in T PROVE k + 1 \in T
    <3>1. seqs[k + 1] \in Seq(S) /\ Len(seqs[k + 1]) \in Nat
      BY <1>1
    <3>2. t[k + 1] = t[k] + Len(seqs[k + 1]) /\ t[k] \in Nat
      BY <2>3
    <3>3. CASE k = 0
      <4>1. At(1)
        BY <2>1, <2>3, <3>1, <3>2, <3>3
      <4> QED
        BY <3>3, <4>1
    <3>4. CASE k # 0
      <4>1. At(k)
        BY <2>5, <3>4
      <4>2. f[k + 1] = f[k] \o seqs[k + 1]
        <5>1. k + 1 \in 2..n /\ (k + 1) - 1 = k
          BY <3>4
        <5> QED
          BY <2>1, <5>1
      <4>3. /\ f[k + 1] \in Seq(S) /\ Len(f[k + 1]) = t[k] + Len(seqs[k + 1])
            /\ \A j \in 1..t[k] : f[k + 1][j] = f[k][j]
            /\ \A j \in 1..Len(seqs[k + 1]) : f[k + 1][t[k] + j] = seqs[k + 1][j]
        <5>1. PICK a \in Seq(S), b \in Seq(S) : a = f[k] /\ b = seqs[k + 1]
          BY <3>1, <4>1
        <5>2. /\ a \o b \in Seq(S) /\ Len(a \o b) = Len(a) + Len(b)
              /\ \A j \in 1..Len(a) : (a \o b)[j] = a[j]
              /\ \A j \in 1..Len(b) : (a \o b)[Len(a) + j] = b[j]
          BY ConcatProperties
        <5>3. Len(a) = t[k] /\ f[k + 1] = a \o b
          BY <4>1, <4>2, <5>1, Zenon
        <5> QED
          BY <5>1, <5>2, <5>3, Zenon
      <4>4. ASSUME NEW i \in 1..(k + 1), NEW j \in 1..Len(seqs[i])
            PROVE  t[i - 1] + j \in 1..t[k + 1] /\ f[k + 1][t[i - 1] + j] = seqs[i][j]
        <5>1. CASE i = k + 1
          <6>1. i - 1 = k /\ j \in 1..Len(seqs[k + 1])
            BY <5>1
          <6>2. PICK x \in Nat, y \in Nat : x = t[k] /\ y = Len(seqs[k + 1])
            BY <3>1, <3>2
          <6>3. t[k + 1] = x + y
            BY <3>1, <3>2, <6>2
          <6>4. x + j \in 1..(x + y)
            BY <6>1, <6>2
          <6>5. f[k + 1][x + j] = seqs[i][j]
            BY <4>3, <5>1, <6>1, <6>2, Zenon
          <6> QED
            BY <6>1, <6>2, <6>3, <6>4, <6>5, Zenon
        <5>2. CASE i # k + 1
          <6>1. i \in 1..k
            BY <5>2
          <6>2. t[i - 1] + j \in 1..t[k] /\ f[k][t[i - 1] + j] = seqs[i][j]
            BY <4>1, <6>1
          <6> QED
            <7>1. PICK m : m = t[i - 1] + j
              OBVIOUS
            <7>2. m \in 1..t[k] /\ f[k][m] = seqs[i][j]
              BY <6>2, <7>1
            <7>3. m \in 1..t[k + 1] /\ f[k + 1][m] = f[k][m]
              BY <3>1, <3>2, <4>3, <7>2
            <7> QED
              BY <7>1, <7>2, <7>3
        <5> QED
          BY <5>1, <5>2
      <4>5. At(k + 1)
        BY <3>2, <4>3, <4>4
      <4> QED
        BY <4>5
    <3> QED
      BY <3>3, <3>4
  <2> HIDE DEF T
  <2>6. 0..n \subseteq T
    BY <2>4, <2>5, UptoSet
  <2>7. At(n)
    <3>1. n \in T
      BY <2>6
    <3> QED
      BY <1>3, <3>1 DEF T
  <2>8. Total(Sizes(seqs)) = t[n]
    BY <1>1, <2>2, SizesType DEF Total
  <2> QED
    BY <1>1, <2>1, <2>2, <2>7, <2>8
<1> QED
  BY <1>2, <1>3

-----------------------------------------------------------------------------
(* Numbers.                                                                *)

\* What Varint and VarintLength are defined by.
LEMMA VarintStep ==
    \A n \in Nat : Varint[n] = IF n < 128 THEN <<n>> ELSE <<128 + (n % 128)>> \o Varint[n \div 128]
<1> DEFINE rank == [n \in Nat |-> n]
           V == [Nat -> Seq(Byte)]
           F == [n \in Nat |-> [g \in V |-> IF n < 128 THEN <<n>> ELSE <<128 + (n % 128)>> \o g[n \div 128]]]
<1>1. F \in [Nat -> [V -> Seq(Byte)]]
  <2>1. ASSUME NEW n \in Nat, NEW g \in V
        PROVE  (IF n < 128 THEN <<n>> ELSE <<128 + (n % 128)>> \o g[n \div 128]) \in Seq(Byte)
    <3>1. n < 128 => <<n>> \in Seq(Byte)
      BY DEF Byte
    <3>2. <<128 + (n % 128)>> \in Seq(Byte) /\ g[n \div 128] \in Seq(Byte)
      BY DEF Byte
    <3> QED
      BY <3>1, <3>2, ConcatProperties
  <2> HIDE DEF V
  <2> QED
    BY <2>1
<1>2. ASSUME NEW n \in Nat, NEW g \in V, NEW h \in V,
             \A c \in Nat : rank[c] < rank[n] => g[c] = h[c]
      PROVE  F[n][g] = F[n][h]
  <2>1. n >= 128 => n \div 128 \in Nat /\ n \div 128 < n
    OBVIOUS
  <2>2. n >= 128 => g[n \div 128] = h[n \div 128]
    BY <1>2, <2>1
  <2> HIDE DEF V
  <2> QED
    BY <2>2
<1>3. Descends(Nat, Seq(Byte), rank, F)
  <2>1. rank \in [Nat -> Nat] /\ Seq(Byte) # {}
    BY EmptySeq
  <2> HIDE DEF F, rank
  <2> QED
    BY <1>1, <1>2, <2>1 DEF Descends
<1>4. \E f \in V : \A n \in Nat : f[n] = F[n][f]
  <2> HIDE DEF F, rank
  <2> QED
    BY <1>3, Recursion
<1>5. PICK f \in V : \A n \in Nat : f[n] = F[n][f]
  BY <1>4
<1>6. ASSUME NEW n \in Nat
      PROVE  f[n] = IF n < 128 THEN <<n>> ELSE <<128 + (n % 128)>> \o f[n \div 128]
  <2> HIDE DEF V
  <2> QED
    BY <1>5
<1>7. \E g : g = [n \in Nat |-> IF n < 128 THEN <<n>> ELSE <<128 + (n % 128)>> \o g[n \div 128]]
  <2>1. f = [n \in Nat |-> f[n]]
    BY <1>5
  <2> HIDE DEF V, F
  <2>2. f = [n \in Nat |-> IF n < 128 THEN <<n>> ELSE <<128 + (n % 128)>> \o f[n \div 128]]
    BY <1>6, <2>1
  <2> QED
    BY <2>2, Zenon
<1>8. Varint = [n \in Nat |-> IF n < 128 THEN <<n>> ELSE <<128 + (n % 128)>> \o Varint[n \div 128]]
  BY <1>7, Zenon DEF Varint
<1> QED
  BY <1>8, Zenon

LEMMA VarintLengthStep ==
    \A n \in Nat : VarintLength[n] = IF n < 128 THEN 1 ELSE 1 + VarintLength[n \div 128]
<1> DEFINE rank == [n \in Nat |-> n]
           V == [Nat -> Nat]
           F == [n \in Nat |-> [g \in V |-> IF n < 128 THEN 1 ELSE 1 + g[n \div 128]]]
<1>1. F \in [Nat -> [V -> Nat]]
  <2>1. ASSUME NEW n \in Nat, NEW g \in V
        PROVE  (IF n < 128 THEN 1 ELSE 1 + g[n \div 128]) \in Nat
    OBVIOUS
  <2> HIDE DEF V
  <2> QED
    BY <2>1
<1>2. ASSUME NEW n \in Nat, NEW g \in V, NEW h \in V,
             \A c \in Nat : rank[c] < rank[n] => g[c] = h[c]
      PROVE  F[n][g] = F[n][h]
  <2>1. n >= 128 => n \div 128 \in Nat /\ n \div 128 < n
    OBVIOUS
  <2>2. n >= 128 => g[n \div 128] = h[n \div 128]
    BY <1>2, <2>1
  <2> HIDE DEF V
  <2> QED
    BY <2>2
<1>3. Descends(Nat, Nat, rank, F)
  <2>1. rank \in [Nat -> Nat] /\ Nat # {}
    BY EmptySeq
  <2> HIDE DEF F, rank
  <2> QED
    BY <1>1, <1>2, <2>1 DEF Descends
<1>4. \E f \in V : \A n \in Nat : f[n] = F[n][f]
  <2> HIDE DEF F, rank
  <2> QED
    BY <1>3, Recursion
<1>5. PICK f \in V : \A n \in Nat : f[n] = F[n][f]
  BY <1>4
<1>6. ASSUME NEW n \in Nat
      PROVE  f[n] = IF n < 128 THEN 1 ELSE 1 + f[n \div 128]
  <2> HIDE DEF V
  <2> QED
    BY <1>5
<1>7. \E g : g = [n \in Nat |-> IF n < 128 THEN 1 ELSE 1 + g[n \div 128]]
  <2>1. f = [n \in Nat |-> f[n]]
    BY <1>5
  <2> HIDE DEF V, F
  <2>2. f = [n \in Nat |-> IF n < 128 THEN 1 ELSE 1 + f[n \div 128]]
    BY <1>6, <2>1
  <2> QED
    BY <2>2, Zenon
<1>8. VarintLength = [n \in Nat |-> IF n < 128 THEN 1 ELSE 1 + VarintLength[n \div 128]]
  BY <1>7, Zenon DEF VarintLength
<1> QED
  BY <1>8, Zenon

\* A number is written in as many bytes as encoded_u32_len says.
LEMMA VarintType ==
    \A n \in Nat : /\ Varint[n] \in Seq(Byte)
                   /\ VarintLength[n] \in Nat \ {0}
                   /\ Len(Varint[n]) = VarintLength[n]
<1> DEFINE S == {n \in Nat : /\ Varint[n] \in Seq(Byte)
                             /\ VarintLength[n] \in Nat \ {0}
                             /\ Len(Varint[n]) = VarintLength[n]}
<1>1. ASSUME NEW n \in Nat, \A m \in 0..(n - 1) : m \in S PROVE n \in S
  <2>1. CASE n < 128
    <3>1. PICK t : t = <<n>>
      OBVIOUS
    <3>2. t \in Seq(Byte) /\ Len(t) = 1
      BY <2>1, <3>1 DEF Byte
    <3>3a. Varint[n] = t
      BY <2>1, <3>1, VarintStep, Zenon
    <3>3b. VarintLength[n] = 1
      BY <2>1, VarintLengthStep, Zenon
    <3>3. Varint[n] = t /\ VarintLength[n] = 1
      BY <3>3a, <3>3b
    <3>4. /\ Varint[n] \in Seq(Byte)
          /\ VarintLength[n] \in Nat \ {0}
          /\ Len(Varint[n]) = VarintLength[n]
      BY <3>2, <3>3
    <3> QED
      BY <3>4
  <2>2. CASE n >= 128
    <3>1. PICK m \in Nat : m = n \div 128 /\ m < n
      BY <2>2
    <3>2. m \in S
      BY <1>1, <3>1
    <3>3. PICK t : t = <<128 + (n % 128)>>
      OBVIOUS
    <3>4. t \in Seq(Byte) /\ Len(t) = 1
      BY <3>3 DEF Byte
    <3>5. Varint[n] = t \o Varint[m]
      <4>1. Varint[n] = <<128 + (n % 128)>> \o Varint[n \div 128]
        <5>1. ~(n < 128)
          BY <2>2
        <5> QED
          BY <5>1, VarintStep, Zenon
      <4> QED
        BY <3>1, <3>3, <4>1, Zenon
    <3>6. VarintLength[n] = 1 + VarintLength[m]
      BY <2>2, <3>1, VarintLengthStep
    <3>7. t \o Varint[m] \in Seq(Byte) /\ Len(t \o Varint[m]) = 1 + Len(Varint[m])
      <4>1. PICK u \in Seq(Byte) : u = Varint[m]
        BY <3>2
      <4>2. t \o u \in Seq(Byte) /\ Len(t \o u) = Len(t) + Len(u)
        BY <3>4, ConcatProperties
      <4> QED
        BY <3>4, <4>1, <4>2
    <3>8. /\ Varint[n] \in Seq(Byte)
          /\ VarintLength[n] \in Nat \ {0}
          /\ Len(Varint[n]) = VarintLength[n]
      BY <3>2, <3>5, <3>6, <3>7
    <3> QED
      BY <3>8
  <2> QED
    BY <2>1, <2>2
<1> HIDE DEF S
<1>2. Nat \subseteq S
  BY <1>1, StrongSet
<1> QED
  BY <1>2 DEF S

\* A position after one that could be read, or none.
LEMMA ReadByteType ==
    ASSUME NEW bytes \in Seq(Byte), NEW at \in Nat
    PROVE  /\ ReadByte(bytes, at).v \in Byte
           /\ ReadByte(bytes, at).at = 0 \/ ReadByte(bytes, at).at = at + 1
           /\ ReadByte(bytes, at).at # 0 => at \in 1..Len(bytes)
<1>1. CASE at \in DOMAIN bytes
  BY <1>1 DEF ReadByte, Got
<1>2. CASE at \notin DOMAIN bytes
  BY <1>2 DEF ReadByte, Failed, At0, Byte
<1> QED
  BY <1>1, <1>2

\* The least place where a number ends, and what its bytes add.
LEMMA MinOf ==
    ASSUME NEW T, T \subseteq Nat, T # {}
    PROVE  Min(T) \in T /\ \A y \in T : Min(T) <= y
BY LeastOf DEF Min

LEMMA PartType ==
    ASSUME NEW bytes \in Seq(Byte), NEW at \in Nat \ {0}, Ends(bytes, at) # {}
    PROVE  /\ Min(Ends(bytes, at)) \in at..(at + 4)
           /\ Min(Ends(bytes, at)) \in 1..Len(bytes)
           /\ bytes[Min(Ends(bytes, at))] < 128
           /\ \A k \in at..(at + 4) : k < Min(Ends(bytes, at)) => bytes[k] >= 128
           /\ \A n \in 1..5 : Part(bytes, at, Min(Ends(bytes, at)), n) \in Nat
<1> DEFINE last == Min(Ends(bytes, at))
<1>1. Ends(bytes, at) \subseteq Nat
  BY DEF Ends
<1>2. last \in Ends(bytes, at) /\ \A k \in Ends(bytes, at) : last <= k
  <2> HIDE DEF last
  <2> QED
    BY <1>1, MinOf DEF last
<1>3. last \in at..(at + 4) /\ last \in 1..Len(bytes) /\ bytes[last] < 128
  <2> HIDE DEF last
  <2> QED
    BY <1>2 DEF Ends
<1>4. ASSUME NEW k \in at..(at + 4), k < last PROVE bytes[k] >= 128
  <2> HIDE DEF last
  <2>1. k \in DOMAIN bytes /\ bytes[k] \in Byte
    BY <1>3, <1>4
  <2>2. k \notin Ends(bytes, at)
    BY <1>2, <1>3, <1>4
  <2>3. ~(bytes[k] < 128)
    BY <2>1, <2>2, Zenon DEF Ends
  <2>4. PICK b \in 0..255 : b = bytes[k]
    BY <2>1 DEF Byte
  <2> QED
    BY <2>3, <2>4
<1>5. ASSUME NEW n \in 1..5 PROVE Part(bytes, at, last, n) \in Nat
  <2>1. Weights[n] \in Nat /\ Rooms[n] \in {16, 128}
    BY DEF Weights, Rooms
  <2>2. PICK k \in Nat : k = at + n - 1
    OBVIOUS
  <2>3. Part(bytes, at, last, n) = IF k <= last THEN (bytes[k] % Rooms[n]) * Weights[n] ELSE 0
    BY <2>2 DEF Part
  <2> HIDE DEF last
  <2>4. k <= last => bytes[k] \in Byte
    BY <1>3, <2>2
  <2>5. \A b \in 0..255 : b % 128 \in Nat /\ b % 16 \in Nat
    OBVIOUS
  <2>6. \A a, b \in Nat : a * b \in Nat
    OBVIOUS
  <2>7. k <= last => bytes[k] % Rooms[n] \in Nat
    <3>1. k <= last => bytes[k] % 16 \in Nat /\ bytes[k] % 128 \in Nat
      BY <2>4, <2>5 DEF Byte
    <3> QED
      BY <2>1, <3>1
  <2>8. k <= last => (bytes[k] % Rooms[n]) * Weights[n] \in Nat
    BY <2>1, <2>6, <2>7
  <2> QED
    BY <2>3, <2>8
<1> QED
  BY <1>3, <1>4, <1>5

\* What is read as a number is one, and the place behind it lies in the bytes.
LEMMA ReadVarintType ==
    ASSUME NEW bytes \in Seq(Byte), NEW at \in Nat
    PROVE  /\ ReadVarint(bytes, at).v \in Nat
           /\ ReadVarint(bytes, at).at = 0 \/ ReadVarint(bytes, at).at \in (at + 1)..(Len(bytes) + 1)
           /\ ReadVarint(bytes, at).at = 0 => ReadVarint(bytes, at).v = 0
           /\ ReadVarint(bytes, at).at # 0 => at # 0
<1>1. CASE at = At0 \/ Ends(bytes, at) = {}
  BY <1>1 DEF ReadVarint, Failed, At0
<1>2. CASE ~(at = At0 \/ Ends(bytes, at) = {})
  <2>1. PICK last : last = Min(Ends(bytes, at))
    OBVIOUS
  <2>2. PICK sum : sum = Part(bytes, at, last, 1) + Part(bytes, at, last, 2)
                         + Part(bytes, at, last, 3) + Part(bytes, at, last, 4)
                         + Part(bytes, at, last, 5)
    OBVIOUS
  <2>3. ReadVarint(bytes, at) = Got(last + 1, sum)
    <3>1. ReadVarint(bytes, at) = NumberUpto(bytes, at, last)
      BY <1>2, <2>1 DEF ReadVarint
    <3>2. NumberUpto(bytes, at, last) = Got(last + 1, sum)
      BY <2>2 DEF NumberUpto
    <3> QED
      BY <3>1, <3>2, Zenon
  <2>4. last \in at..(at + 4) /\ last \in 1..Len(bytes)
    BY <1>2, <2>1, PartType DEF At0
  <2>5. sum \in Nat
    <3>1. \A n \in 1..5 : Part(bytes, at, last, n) \in Nat
      BY <1>2, <2>1, PartType DEF At0
    <3>2. /\ Part(bytes, at, last, 1) \in Nat /\ Part(bytes, at, last, 2) \in Nat
          /\ Part(bytes, at, last, 3) \in Nat /\ Part(bytes, at, last, 4) \in Nat
          /\ Part(bytes, at, last, 5) \in Nat
      BY <3>1
    <3> QED
      BY <2>2, <3>2
  <2> QED
    BY <1>2, <2>3, <2>4, <2>5 DEF Got, At0
<1> QED
  BY <1>1, <1>2

-----------------------------------------------------------------------------
(* Strings.                                                                *)

\* A stream of bytes, or what is left of one, is bytes.
LEMMA CryptType ==
    ASSUME NEW text \in Seq(Byte), NEW key \in Nat, NEW domain \in Nat, NEW index \in Nat
    PROVE  Crypt(text, key, domain, index) \in Seq(Byte)
<1>1. \A k \in 1..Len(text) :
            (Stream(key, domain, index, Len(text)) - text[k]) % 256 \in Byte
  <2>1. PICK s \in Nat : s = Stream(key, domain, index, Len(text))
    BY DEF Stream
  <2>2. \A b \in Byte : (s - b) % 256 \in Byte
    BY DEF Byte
  <2> QED
    BY <2>1, <2>2
<1>2. CASE key = NoKey
  BY <1>2 DEF Crypt
<1>3. CASE key # NoKey
  <2>1. Crypt(text, key, domain, index) =
            [k \in 1..Len(text) |-> (Stream(key, domain, index, Len(text)) - text[k]) % 256]
    BY <1>3 DEF Crypt
  <2>2. Len(text) \in Nat
    OBVIOUS
  <2>3. PICK f : f = Crypt(text, key, domain, index)
    OBVIOUS
  <2>4. f \in [1..Len(text) -> Byte]
    BY <1>1, <2>1, <2>3
  <2> QED
    BY <2>2, <2>3, <2>4
<1> QED
  BY <1>2, <1>3

LEMMA SuffixType ==
    ASSUME NEW text \in Seq(Byte), PrefixesOf(text) # {}
    PROVE  /\ LongestPrefix(text) \in DOMAIN PrefixAtoms
           /\ LongestPrefix(text) \in PrefixesOf(text)
           /\ Suffix(text) \in Seq(Byte)
           /\ Len(Suffix(text)) < Len(text)
<1>1. PICK n \in Nat : n = Len(text)
  OBVIOUS
<1>2. ASSUME NEW i \in PrefixesOf(text)
      PROVE  /\ i \in DOMAIN PrefixAtoms
             /\ Len(PrefixAtoms[i]) \in 1..n
  <2>1. i \in DOMAIN PrefixAtoms /\ IsStrictPrefix(PrefixAtoms[i], text)
    BY <1>2 DEF PrefixesOf
  <2>2. PrefixAtoms[i] \in Seq(Byte) /\ PrefixAtoms[i] # <<>>
    BY <2>1, TablesAssumption
  <2>3. Len(PrefixAtoms[i]) \in Nat \ {0}
    BY <2>2, EmptySeq
  <2> QED
    BY <1>1, <2>1, <2>3 DEF IsStrictPrefix, IsPrefix
<1> DEFINE T == {n - Len(PrefixAtoms[i]) : i \in PrefixesOf(text)}
<1>3. T \subseteq Nat /\ T # {}
  BY <1>2
<1>4. PICK x \in T : \A y \in T : x <= y
  <2> HIDE DEF T
  <2> QED
    BY <1>3, LeastOf
<1>5. PICK i \in PrefixesOf(text) : x = n - Len(PrefixAtoms[i])
  BY <1>4
<1>6. \A j \in PrefixesOf(text) : Len(PrefixAtoms[j]) <= Len(PrefixAtoms[i])
  <2>1. ASSUME NEW j \in PrefixesOf(text) PROVE Len(PrefixAtoms[j]) <= Len(PrefixAtoms[i])
    <3>1. n - Len(PrefixAtoms[j]) \in T
      OBVIOUS
    <3>2. x <= n - Len(PrefixAtoms[j])
      BY <1>4, <3>1
    <3> QED
      BY <1>2, <1>5, <3>2
  <2> QED
    BY <2>1
<1>7. PICK p : p = LongestPrefix(text)
  OBVIOUS
<1>8. p \in PrefixesOf(text)
  BY <1>6, <1>7, Zenon DEF LongestPrefix
<1>9. p \in DOMAIN PrefixAtoms /\ Len(PrefixAtoms[p]) \in 1..n
  BY <1>2, <1>8
<1>10. Suffix(text) = SubSeq(text, Len(PrefixAtoms[p]) + 1, n)
  BY <1>1, <1>7 DEF Suffix
<1>11. PICK m \in Nat : m = Len(PrefixAtoms[p]) + 1 /\ m \in 2..(n + 1)
  BY <1>9
<1>12. \A k \in m..n : text[k] \in Byte
  BY <1>1, <1>11
<1>13. SubSeq(text, m, n) \in Seq(Byte) /\ Len(SubSeq(text, m, n)) = IF m <= n THEN n - m + 1 ELSE 0
  BY <1>12, SubSeqProperties
<1> QED
  BY <1>1, <1>7, <1>8, <1>9, <1>10, <1>11, <1>13

\* The right side of TextBytes.
TextRule(written, t, key, domain, index) ==
    IF PositionIn(StringAtoms, t) # {}
    THEN Varint[0] \o Varint[Min(PositionIn(StringAtoms, t)) - 1]
    ELSE IF PrefixesOf(t) # {}
    THEN Varint[1] \o Varint[LongestPrefix(t) - 1] \o written[Suffix(t)]
    ELSE Varint[Len(t) + 2] \o Crypt(t, key, domain, index)

LEMMA TextRuleType ==
    ASSUME NEW t \in Seq(Byte), NEW key \in Nat, NEW domain \in Nat, NEW index \in Nat,
           NEW g, PrefixesOf(t) # {} => g[Suffix(t)] \in Seq(Byte)
    PROVE  TextRule(g, t, key, domain, index) \in Seq(Byte)
<1>1. CASE PositionIn(StringAtoms, t) # {}
  <2>1. PICK p : p = Min(PositionIn(StringAtoms, t))
    OBVIOUS
  <2>2. PositionIn(StringAtoms, t) \subseteq Nat \ {0}
    BY TablesAssumption DEF PositionIn
  <2>3. p \in Nat \ {0}
    <3>1. PositionIn(StringAtoms, t) \subseteq Nat
      BY <2>2
    <3> QED
      BY <1>1, <2>1, <2>2, <3>1, MinOf
  <2>4. Varint[0] \in Seq(Byte) /\ Varint[p - 1] \in Seq(Byte)
    BY <2>3, VarintType
  <2>5. TextRule(g, t, key, domain, index) = Varint[0] \o Varint[p - 1]
    BY <1>1, <2>1 DEF TextRule
  <2> QED
    BY <2>4, <2>5, ConcatProperties
<1>2. CASE PositionIn(StringAtoms, t) = {} /\ PrefixesOf(t) # {}
  <2>1. PICK p \in Nat \ {0} : p = LongestPrefix(t)
    <3>1. LongestPrefix(t) \in DOMAIN PrefixAtoms
      BY <1>2, SuffixType
    <3>2. DOMAIN PrefixAtoms \subseteq Nat \ {0}
      BY TablesAssumption
    <3> QED
      BY <3>1, <3>2
  <2>2. Varint[1] \in Seq(Byte) /\ Varint[p - 1] \in Seq(Byte)
    BY <2>1, VarintType
  <2>3. PICK a \in Seq(Byte), b \in Seq(Byte), c \in Seq(Byte) :
            a = Varint[1] /\ b = Varint[p - 1] /\ c = g[Suffix(t)]
    BY <1>2, <2>2
  <2>4. TextRule(g, t, key, domain, index) = a \o b \o c
    BY <1>2, <2>1, <2>3 DEF TextRule
  <2>5. a \o b \in Seq(Byte)
    BY ConcatProperties
  <2> QED
    BY <2>4, <2>5, ConcatProperties
<1>3. CASE PositionIn(StringAtoms, t) = {} /\ PrefixesOf(t) = {}
  <2>1. Varint[Len(t) + 2] \in Seq(Byte)
    BY VarintType
  <2>2. TextRule(g, t, key, domain, index) = Varint[Len(t) + 2] \o Crypt(t, key, domain, index)
    BY <1>3 DEF TextRule
  <2> QED
    BY <2>1, <2>2, CryptType, ConcatProperties
<1> QED
  BY <1>1, <1>2, <1>3

\* What TextBytes is defined by.
LEMMA TextStep ==
    ASSUME NEW key \in Nat, NEW domain \in Nat, NEW index \in Nat
    PROVE  \A t \in Seq(Byte) :
                TextBytes(key, domain, index)[t] = TextRule(TextBytes(key, domain, index), t, key, domain, index)
<1> DEFINE V == [Seq(Byte) -> Seq(Byte)]
           rank == [t \in Seq(Byte) |-> Len(t)]
           F == [t \in Seq(Byte) |-> [g \in V |-> TextRule(g, t, key, domain, index)]]
<1>1. F \in [Seq(Byte) -> [V -> Seq(Byte)]]
  <2>1. ASSUME NEW t \in Seq(Byte), NEW g \in V
        PROVE  TextRule(g, t, key, domain, index) \in Seq(Byte)
    <3>1. PrefixesOf(t) # {} => g[Suffix(t)] \in Seq(Byte)
      BY SuffixType
    <3> QED
      BY <3>1, TextRuleType
  <2> HIDE DEF V
  <2> QED
    BY <2>1
<1>2. ASSUME NEW t \in Seq(Byte), NEW g \in V, NEW h \in V,
             \A c \in Seq(Byte) : rank[c] < rank[t] => g[c] = h[c]
      PROVE  F[t][g] = F[t][h]
  <2>1. PrefixesOf(t) # {} => g[Suffix(t)] = h[Suffix(t)]
    <3>1. PrefixesOf(t) # {} => Suffix(t) \in Seq(Byte) /\ rank[Suffix(t)] < rank[t]
      BY SuffixType
    <3> QED
      BY <1>2, <3>1
  <2>2. TextRule(g, t, key, domain, index) = TextRule(h, t, key, domain, index)
    <3>1. CASE PositionIn(StringAtoms, t) # {}
      BY <3>1 DEF TextRule
    <3>2. CASE PositionIn(StringAtoms, t) = {} /\ PrefixesOf(t) # {}
      BY <2>1, <3>2 DEF TextRule
    <3>3. CASE PositionIn(StringAtoms, t) = {} /\ PrefixesOf(t) = {}
      BY <3>3 DEF TextRule
    <3> QED
      BY <3>1, <3>2, <3>3
  <2> HIDE DEF V
  <2> QED
    BY <2>2
<1>3. Descends(Seq(Byte), Seq(Byte), rank, F)
  <2>1. Seq(Byte) # {}
    BY EmptySeq
  <2>2. \A t \in Seq(Byte) : Len(t) \in Nat
    OBVIOUS
  <2>3. rank \in [Seq(Byte) -> Nat]
    BY <2>2
  <2> HIDE DEF F, rank
  <2> QED
    BY <1>1, <1>2, <2>1, <2>3 DEF Descends
<1>4. \E f \in V : \A t \in Seq(Byte) : f[t] = F[t][f]
  <2> HIDE DEF F, rank
  <2> QED
    BY <1>3, Recursion
<1>5. PICK f \in V : \A t \in Seq(Byte) : f[t] = F[t][f]
  BY <1>4
<1>6. ASSUME NEW t \in Seq(Byte) PROVE f[t] = TextRule(f, t, key, domain, index)
  <2> HIDE DEF V
  <2> QED
    BY <1>5
<1>7. \E g : g = [t \in Seq(Byte) |-> TextRule(g, t, key, domain, index)]
  <2>1. f = [t \in Seq(Byte) |-> f[t]]
    BY <1>5
  <2> HIDE DEF V, F
  <2>2. f = [t \in Seq(Byte) |-> TextRule(f, t, key, domain, index)]
    BY <1>6, <2>1
  <2> QED
    BY <2>2, Zenon
<1>8. TextBytes(key, domain, index) =
        [t \in Seq(Byte) |-> TextRule(TextBytes(key, domain, index), t, key, domain, index)]
  BY <1>7, Zenon DEF TextBytes, TextRule
<1> QED
  BY <1>8, Zenon

\* A string is written as bytes.
LEMMA StringType ==
    ASSUME NEW text \in Seq(Byte), NEW key \in Nat, NEW domain \in Nat, NEW index \in Nat
    PROVE  StringBytes(text, key, domain, index) \in Seq(Byte)
<1> DEFINE T == {n \in Nat : \A t \in Seq(Byte) : Len(t) = n => TextBytes(key, domain, index)[t] \in Seq(Byte)}
<1>1. ASSUME NEW n \in Nat, \A m \in 0..(n - 1) : m \in T PROVE n \in T
  <2>1. ASSUME NEW t \in Seq(Byte), Len(t) = n
        PROVE  TextBytes(key, domain, index)[t] \in Seq(Byte)
    <3>1. PICK g : g = TextBytes(key, domain, index)
      OBVIOUS
    <3>2. PrefixesOf(t) # {} => g[Suffix(t)] \in Seq(Byte)
      <4>1. SUFFICES ASSUME PrefixesOf(t) # {} PROVE g[Suffix(t)] \in Seq(Byte)
        OBVIOUS
      <4>2. Suffix(t) \in Seq(Byte) /\ Len(Suffix(t)) \in 0..(n - 1)
        BY <2>1, <4>1, SuffixType
      <4> QED
        BY <1>1, <3>1, <4>2
    <3>3. TextRule(g, t, key, domain, index) \in Seq(Byte)
      BY <3>2, TextRuleType
    <3>4. g[t] = TextRule(g, t, key, domain, index)
      BY <3>1, TextStep, Zenon
    <3> QED
      BY <3>1, <3>3, <3>4, Zenon
  <2> QED
    BY <2>1
<1> HIDE DEF T
<1>2. Nat \subseteq T
  BY <1>1, StrongSet
<1>3. Len(text) \in T
  BY <1>2
<1> QED
  BY <1>3 DEF T, StringBytes

\* What can be returned by what reads a text somewhere in the bytes.
Texts(bytes, at) ==
    {r \in [at : 0..(Len(bytes) + 1), v : Seq(Byte) \cup {0}] : r.at # 0 => r.at > at /\ r.v \in Seq(Byte)}

\* What is read of a string: nothing, or bytes and the place behind them.
LEMMA FailedText ==
    ASSUME NEW bytes \in Seq(Byte), NEW at
    PROVE  Failed \in Texts(bytes, at) /\ Failed.at = 0
BY DEF Texts, Failed, At0

LEMMA GotText ==
    ASSUME NEW bytes \in Seq(Byte), NEW at \in Int, NEW p \in 0..(Len(bytes) + 1), p > at, NEW t \in Seq(Byte)
    PROVE  Got(p, t) \in Texts(bytes, at) /\ Got(p, t).at = p /\ Got(p, t).v = t
BY DEF Texts, Got

LEMMA ReadAtomType ==
    ASSUME NEW bytes \in Seq(Byte), NEW at \in Nat, NEW table \in Seq(Seq(Byte))
    PROVE  ReadAtom(bytes, at, table) \in Texts(bytes, at)
<1>1. PICK entry : entry = ReadVarint(bytes, at)
  OBVIOUS
<1>2. /\ entry.v \in Nat
      /\ entry.at = 0 \/ entry.at \in (at + 1)..(Len(bytes) + 1)
  BY <1>1, ReadVarintType
<1>3. CASE entry.at # At0 /\ entry.v < Len(table)
  <2>1. table[entry.v + 1] \in Seq(Byte)
    BY <1>2, <1>3
  <2>2. ReadAtom(bytes, at, table) = Got(entry.at, table[entry.v + 1])
    BY <1>1, <1>3 DEF ReadAtom
  <2>3. entry.at \in 0..(Len(bytes) + 1) /\ entry.at > at
    BY <1>2, <1>3 DEF At0
  <2> QED
    BY <2>1, <2>2, <2>3, GotText
<1>4. CASE ~(entry.at # At0 /\ entry.v < Len(table))
  <2>1. ReadAtom(bytes, at, table) = Failed
    BY <1>1, <1>4 DEF ReadAtom
  <2> QED
    BY <2>1, FailedText
<1> QED
  BY <1>3, <1>4

LEMMA ReadOwnType ==
    ASSUME NEW bytes \in Seq(Byte), NEW at \in Nat \ {0}, NEW length \in Nat,
           NEW key \in Nat, NEW domain \in Nat, NEW index \in Nat
    PROVE  ReadOwn(bytes, at, length, key, domain, index) \in Texts(bytes, at - 1)
<1>1. CASE at + length <= Len(bytes) + 1
  <2>1. PICK last \in Int : last = at + length - 1
    OBVIOUS
  <2>2. \A k \in at..last : bytes[k] \in Byte
    BY <1>1, <2>1
  <2>3. SubSeq(bytes, at, last) \in Seq(Byte)
    BY <2>2, SubSeqProperties
  <2>4. Crypt(SubSeq(bytes, at, last), key, domain, index) \in Seq(Byte)
    BY <2>3, CryptType
  <2>5. at + length \in 0..(Len(bytes) + 1) /\ at + length > at - 1 /\ at - 1 \in Int
    BY <1>1
  <2>6. ReadOwn(bytes, at, length, key, domain, index)
            = Got(at + length, Crypt(SubSeq(bytes, at, last), key, domain, index))
    BY <1>1, <2>1 DEF ReadOwn
  <2> QED
    BY <2>4, <2>5, <2>6, GotText
<1>2. CASE ~(at + length <= Len(bytes) + 1)
  BY <1>2, FailedText DEF ReadOwn
<1> QED
  BY <1>1, <1>2

\* The right side of TextReadAt.
TextReadRule(read, bytes, at, key, domain, index) ==
    LET mark == ReadVarint(bytes, at)
        prefix == ReadAtom(bytes, mark.at, PrefixAtoms)
    IN  IF mark.at = At0 THEN Failed
        ELSE IF mark.v = 0 THEN ReadAtom(bytes, mark.at, StringAtoms)
        ELSE IF mark.v = 1
        THEN IF prefix.at # At0 /\ read[prefix.at].at # At0
             THEN Got(read[prefix.at].at, prefix.v \o read[prefix.at].v) ELSE Failed
        ELSE ReadOwn(bytes, mark.at, mark.v - 2, key, domain, index)

\* Where the text begins that the one at some place ends with.
RestAt(bytes, at) == ReadAtom(bytes, ReadVarint(bytes, at).at, PrefixAtoms).at

LEMMA RestAtType ==
    ASSUME NEW bytes \in Seq(Byte), NEW at \in Nat
    PROVE  RestAt(bytes, at) = 0 \/ RestAt(bytes, at) \in (at + 1)..(Len(bytes) + 1)
<1>1. PICK m : m = ReadVarint(bytes, at).at
  OBVIOUS
<1>2. m = 0 \/ m \in (at + 1)..(Len(bytes) + 1)
  BY <1>1, ReadVarintType
<1>3. m \in Nat
  BY <1>2
<1>4. ReadAtom(bytes, m, PrefixAtoms) \in Texts(bytes, m)
  BY <1>3, ReadAtomType, TablesAssumption
<1>5. RestAt(bytes, at) = ReadAtom(bytes, m, PrefixAtoms).at
  BY <1>1 DEF RestAt
<1>6. m = 0 => ReadAtom(bytes, m, PrefixAtoms).at = 0
  <2>1. SUFFICES ASSUME m = 0 PROVE ReadVarint(bytes, m).at = 0
    BY DEF ReadAtom, Failed, At0
  <2> QED
    BY <2>1, ReadVarintType
<1> QED
  BY <1>2, <1>4, <1>5, <1>6 DEF Texts

LEMMA TextReadRuleType ==
    ASSUME NEW bytes \in Seq(Byte), NEW at \in Nat, NEW g,
           NEW key \in Nat, NEW domain \in Nat, NEW index \in Nat, NEW low \in Int, low <= at,
           RestAt(bytes, at) # 0 => g[RestAt(bytes, at)] \in Texts(bytes, low)
    PROVE  TextReadRule(g, bytes, at, key, domain, index) \in Texts(bytes, low)
<1>1. PICK m, v : m = ReadVarint(bytes, at).at /\ v = ReadVarint(bytes, at).v
  OBVIOUS
<1>2. /\ v \in Nat
      /\ m = 0 \/ m \in (at + 1)..(Len(bytes) + 1)
  BY <1>1, ReadVarintType
<1>3. PICK prefix : prefix = ReadAtom(bytes, m, PrefixAtoms)
  OBVIOUS
<1>4. prefix \in Texts(bytes, m) /\ RestAt(bytes, at) = prefix.at
  <2>1. m \in Nat
    BY <1>2
  <2>2. ReadAtom(bytes, m, PrefixAtoms) \in Texts(bytes, m)
    BY <2>1, ReadAtomType, TablesAssumption
  <2> QED
    BY <1>1, <1>3, <2>2 DEF RestAt
<1>5. \A r : m # 0 /\ r \in Texts(bytes, m) => r \in Texts(bytes, low)
  BY <1>2 DEF Texts
<1>6. TextReadRule(g, bytes, at, key, domain, index) =
        IF m = At0 THEN Failed
        ELSE IF v = 0 THEN ReadAtom(bytes, m, StringAtoms)
        ELSE IF v = 1
        THEN IF prefix.at # At0 /\ g[prefix.at].at # At0
             THEN Got(g[prefix.at].at, prefix.v \o g[prefix.at].v) ELSE Failed
        ELSE ReadOwn(bytes, m, v - 2, key, domain, index)
  BY <1>1, <1>3, Zenon DEF TextReadRule
<1>7. CASE m = At0
  BY <1>6, <1>7, FailedText
<1>8. CASE m # At0 /\ v = 0
  <2>1. ReadAtom(bytes, m, StringAtoms) \in Texts(bytes, m)
    BY <1>2, ReadAtomType, TablesAssumption
  <2> QED
    BY <1>5, <1>6, <1>8, <2>1 DEF At0
<1>9. CASE m # At0 /\ v = 1
  <2>1. CASE prefix.at # At0 /\ g[prefix.at].at # At0
    <3>1. PICK r : r = g[prefix.at]
      OBVIOUS
    <3>2. r \in Texts(bytes, low) /\ r.at # 0
      BY <1>4, <2>1, <3>1 DEF At0
    <3>3. prefix.v \in Seq(Byte) /\ r.v \in Seq(Byte)
      BY <1>4, <2>1, <3>2 DEF Texts, At0
    <3>4. PICK p : p = r.at /\ p \in 0..(Len(bytes) + 1) /\ p > low
      BY <3>2 DEF Texts
    <3>5. PICK t \in Seq(Byte) : t = prefix.v \o r.v
      BY <3>3, ConcatProperties
    <3>6. TextReadRule(g, bytes, at, key, domain, index) = Got(p, t)
      <4>1. ~(m = At0) /\ ~(v = 0) /\ v = 1
        BY <1>9
      <4>2. TextReadRule(g, bytes, at, key, domain, index)
                = Got(g[prefix.at].at, prefix.v \o g[prefix.at].v)
        BY <1>6, <2>1, <4>1, Zenon
      <4> QED
        BY <3>1, <3>4, <3>5, <4>2, Zenon
    <3>7. Got(p, t) \in Texts(bytes, low)
      BY <3>4, GotText
    <3> QED
      BY <3>6, <3>7
  <2>2. CASE ~(prefix.at # At0 /\ g[prefix.at].at # At0)
    BY <1>6, <1>9, <2>2, FailedText
  <2> QED
    BY <2>1, <2>2
<1>10. CASE m # At0 /\ v # 0 /\ v # 1
  <2>1. m \in Nat \ {0} /\ v - 2 \in Nat
    BY <1>2, <1>10 DEF At0
  <2>2. ReadOwn(bytes, m, v - 2, key, domain, index) \in Texts(bytes, m - 1)
    BY <2>1, ReadOwnType
  <2>3. \A r : r \in Texts(bytes, m - 1) => r \in Texts(bytes, low)
    BY <1>2, <1>10 DEF Texts, At0
  <2> QED
    BY <1>6, <1>10, <2>2, <2>3
<1> QED
  BY <1>7, <1>8, <1>9, <1>10

\* What TextReadAt is defined by.
LEMMA TextReadStep ==
    ASSUME NEW bytes \in Seq(Byte), NEW key \in Nat, NEW domain \in Nat, NEW index \in Nat
    PROVE  \A at \in Nat :
                TextReadAt(bytes, key, domain, index)[at]
                    = TextReadRule(TextReadAt(bytes, key, domain, index), bytes, at, key, domain, index)
<1>1. PICK n \in Nat : n = Len(bytes)
  OBVIOUS
<1>2. PICK W : W = Texts(bytes, -1)
  OBVIOUS
<1> DEFINE V == [Nat -> W]
           rank == [at \in Nat |-> IF at <= n THEN n + 1 - at ELSE 0]
           F == [at \in Nat |-> [g \in V |-> TextReadRule(g, bytes, at, key, domain, index)]]
<1>3. F \in [Nat -> [V -> W]]
  <2>1. ASSUME NEW at \in Nat, NEW g \in V
        PROVE  TextReadRule(g, bytes, at, key, domain, index) \in W
    <3>1. RestAt(bytes, at) # 0 => g[RestAt(bytes, at)] \in Texts(bytes, -1)
      BY <1>2, RestAtType
    <3>2. -1 \in Int /\ -1 <= at
      OBVIOUS
    <3> QED
      BY <1>2, <3>1, <3>2, TextReadRuleType
  <2> HIDE DEF V
  <2> QED
    BY <2>1
<1>4. ASSUME NEW at \in Nat, NEW g \in V, NEW h \in V,
             \A c \in Nat : rank[c] < rank[at] => g[c] = h[c]
      PROVE  F[at][g] = F[at][h]
  <2>1. PICK p : p = RestAt(bytes, at)
    OBVIOUS
  <2>2. p # 0 => g[p] = h[p]
    <3>1. p # 0 => p \in Nat /\ p > at /\ p <= n + 1
      BY <1>1, <2>1, RestAtType
    <3>2. p # 0 => rank[p] < rank[at]
      BY <3>1
    <3> QED
      BY <1>4, <3>1, <3>2
  <2>3. PICK m, v, prefix :
            /\ m = ReadVarint(bytes, at).at /\ v = ReadVarint(bytes, at).v
            /\ prefix = ReadAtom(bytes, m, PrefixAtoms)
    OBVIOUS
  <2>4. prefix.at = p
    BY <2>1, <2>3 DEF RestAt
  <2>5. \A f : TextReadRule(f, bytes, at, key, domain, index) =
        IF m = At0 THEN Failed
        ELSE IF v = 0 THEN ReadAtom(bytes, m, StringAtoms)
        ELSE IF v = 1
        THEN IF prefix.at # At0 /\ f[prefix.at].at # At0
             THEN Got(f[prefix.at].at, prefix.v \o f[prefix.at].v) ELSE Failed
        ELSE ReadOwn(bytes, m, v - 2, key, domain, index)
    BY <2>3, Zenon DEF TextReadRule
  <2>6. TextReadRule(g, bytes, at, key, domain, index) = TextReadRule(h, bytes, at, key, domain, index)
    <3>1. CASE p = 0
      BY <2>4, <2>5, <3>1, Zenon DEF At0
    <3>2. CASE p # 0
      BY <2>2, <2>4, <2>5, <3>2, Zenon DEF At0
    <3> QED
      BY <3>1, <3>2
  <2> HIDE DEF V
  <2> QED
    BY <2>6
<1>5. Descends(Nat, W, rank, F)
  <2>1. W # {}
    BY <1>2, FailedText
  <2>2. rank \in [Nat -> Nat]
    OBVIOUS
  <2> HIDE DEF F, rank
  <2> QED
    BY <1>3, <1>4, <2>1, <2>2 DEF Descends
<1>6. \E f \in V : \A at \in Nat : f[at] = F[at][f]
  <2> HIDE DEF F, rank
  <2> QED
    BY <1>5, Recursion
<1>7. PICK f \in V : \A at \in Nat : f[at] = F[at][f]
  BY <1>6
<1>8. ASSUME NEW at \in Nat PROVE f[at] = TextReadRule(f, bytes, at, key, domain, index)
  <2> HIDE DEF V
  <2> QED
    BY <1>7
<1>9. \E g : g = [at \in Nat |-> TextReadRule(g, bytes, at, key, domain, index)]
  <2>1. f = [at \in Nat |-> f[at]]
    BY <1>7
  <2> HIDE DEF V, F
  <2>2. f = [at \in Nat |-> TextReadRule(f, bytes, at, key, domain, index)]
    BY <1>8, <2>1
  <2> QED
    BY <2>2, Zenon
<1>10. TextReadAt(bytes, key, domain, index) =
        [at \in Nat |-> TextReadRule(TextReadAt(bytes, key, domain, index), bytes, at, key, domain, index)]
  BY <1>9, Zenon DEF TextReadAt, TextReadRule
<1> QED
  BY <1>10, Zenon

\* What is read as a string is bytes, and the place behind it is a later one.
LEMMA ReadStringType ==
    ASSUME NEW bytes \in Seq(Byte), NEW at \in Nat, NEW key \in Nat, NEW domain \in Nat, NEW index \in Nat
    PROVE  ReadString(bytes, at, key, domain, index) \in Texts(bytes, at)
<1>1. PICK n \in Nat : n = Len(bytes)
  OBVIOUS
<1>2. PICK f : f = TextReadAt(bytes, key, domain, index)
  OBVIOUS
<1> DEFINE T == {k \in Nat : \A p \in Nat : (IF p <= n THEN n + 1 - p ELSE 0) = k => f[p] \in Texts(bytes, p)}
<1>3. ASSUME NEW k \in Nat, \A m \in 0..(k - 1) : m \in T PROVE k \in T
  <2>1. ASSUME NEW p \in Nat, (IF p <= n THEN n + 1 - p ELSE 0) = k PROVE f[p] \in Texts(bytes, p)
    <3>1. PICK q : q = RestAt(bytes, p)
      OBVIOUS
    <3>2. q # 0 => f[q] \in Texts(bytes, p)
      <4>1. SUFFICES ASSUME q # 0 PROVE f[q] \in Texts(bytes, p)
        OBVIOUS
      <4>2. q \in (p + 1)..(n + 1)
        BY <1>1, <3>1, <4>1, RestAtType
      <4>3. PICK m \in Nat : m = n + 1 - q
        BY <4>2
      <4>4. q \in Nat /\ m \in 0..(k - 1) /\ (IF q <= n THEN n + 1 - q ELSE 0) = m
        BY <2>1, <4>2, <4>3
      <4>5. m \in T
        BY <1>3, <4>4
      <4>6. f[q] \in Texts(bytes, q)
        BY <4>4, <4>5
      <4> QED
        BY <4>2, <4>6 DEF Texts
    <3>3. TextReadRule(f, bytes, p, key, domain, index) \in Texts(bytes, p)
      <4>1. p \in Int /\ p <= p
        OBVIOUS
      <4> QED
        BY <3>1, <3>2, <4>1, TextReadRuleType
    <3> QED
      BY <1>2, <3>3, TextReadStep
  <2> QED
    BY <2>1
<1> HIDE DEF T
<1>4. Nat \subseteq T
  BY <1>3, StrongSet
<1>5. PICK k \in Nat : k = IF at <= n THEN n + 1 - at ELSE 0
  <2>1. (IF at <= n THEN n + 1 - at ELSE 0) \in Nat
    OBVIOUS
  <2> QED
    BY <2>1, Zenon
<1>6. f[at] \in Texts(bytes, at)
  BY <1>4, <1>5 DEF T
<1> QED
  BY <1>2, <1>6 DEF ReadString

-----------------------------------------------------------------------------
(* Operands.                                                               *)

\* A table with a code for every kind.
IsTagTable(tags) == \A kind \in OperandKinds : tags[TagOf(kind)] \in Byte

\* An operand in one byte, and a reference to a name, are within their widths.
LEMMA CompactType ==
    ASSUME NEW o \in OperandKinds \X Nat, IsCompact(o)
    PROVE  CompactByte(o) \in 128..255
<1>1. PICK kind \in OperandKinds, n \in Nat : o = <<kind, n>>
  OBVIOUS
<1>2. o[1] = kind /\ Number(o) = n
  BY <1>1 DEF Number
<1>3. n < CompactSize(kind)
  BY <1>2 DEF IsCompact
<1>4. kind \in CompactKinds
  BY <1>3 DEF CompactSize, CompactKinds
<1>5. CompactBase(kind) + n \in 128..255
  BY <1>3, <1>4 DEF CompactSize, CompactBase, CompactKinds
<1> QED
  BY <1>2, <1>5 DEF CompactByte

LEMMA NameRefType ==
    ASSUME NEW o \in OperandKinds \X Nat, IsOfKind(o, "nameref")
    PROVE  NameRef(o) \in Nat
<1>1. PICK kind \in OperandKinds, n \in Nat : o = <<kind, n>>
  OBVIOUS
<1>2. o[1] = kind /\ Number(o) = n
  BY <1>1 DEF Number
<1>3. kind \in Range(NameRefKinds)
  BY <1>2 DEF IsOfKind, OperandKinds, Tagged
<1>4. \E i \in 1..3 : NameRefKinds[i] = kind
  BY <1>3 DEF Range, NameRefKinds
<1>5. PICK i \in 1..3 : i = CHOOSE j \in 1..3 : NameRefKinds[j] = kind
  BY <1>4
<1>6. NameRef(o) = 4 * n + i - 1
  BY <1>2, <1>5 DEF NameRef
<1> QED
  BY <1>6

\* An operand is written in as many bytes as encoded_operand_len says.
LEMMA TaggedBytesType ==
    ASSUME NEW o \in OperandKinds \X Nat, NEW tags, IsTagTable(tags)
    PROVE  /\ TaggedBytes(o, tags) \in Seq(Byte)
           /\ Len(TaggedBytes(o, tags)) = 1 + VarintLength[Number(o)]
<1>1. Number(o) \in Nat /\ o[1] \in OperandKinds
  BY DEF Number
<1>2. PICK n \in Nat : n = Number(o)
  BY <1>1
<1>3. PICK b \in Byte : b = tags[TagOf(o[1])]
  BY <1>1 DEF IsTagTable
<1>4. PICK t \in Seq(Byte) : t = <<b>> /\ Len(t) = 1
  <2>1. <<b>> \in Seq(Byte) /\ Len(<<b>>) = 1
    OBVIOUS
  <2> QED
    BY <2>1, Zenon
<1>5. PICK u \in Seq(Byte) : u = Varint[n] /\ Len(u) = VarintLength[n] /\ VarintLength[n] \in Nat
  BY VarintType
<1>6. TaggedBytes(o, tags) = t \o u
  BY <1>2, <1>3, <1>4, <1>5, Zenon DEF TaggedBytes
<1>7. t \o u \in Seq(Byte) /\ Len(t \o u) = Len(t) + Len(u)
  BY ConcatProperties
<1> QED
  BY <1>2, <1>4, <1>5, <1>6, <1>7

LEMMA OperandBytesType ==
    ASSUME NEW o \in OperandKinds \X Nat, NEW kind, NEW tags, IsTagTable(tags), IsOfKind(o, kind)
    PROVE  /\ OperandBytes(o, kind, tags) \in Seq(Byte)
           /\ Len(OperandBytes(o, kind, tags)) = OperandLength(o, kind)
           /\ OperandLength(o, kind) \in Nat
<1>0. kind \in Tagged => ~(kind = "nameref")
  BY DEF Tagged
<1>1. Number(o) \in Nat /\ o[1] \in OperandKinds
  BY DEF Number
<1>2. \A b : b \in Byte => <<b>> \in Seq(Byte) /\ Len(<<b>>) = 1
  OBVIOUS
<1>3. CASE kind \in Tagged /\ IsCompact(o)
  <2>1. CompactByte(o) \in Byte
    BY <1>3, CompactType DEF Byte
  <2>2. OperandBytes(o, kind, tags) = <<CompactByte(o)>> /\ OperandLength(o, kind) = 1
    BY <1>0, <1>3, Zenon DEF OperandBytes, OperandLength
  <2> QED
    BY <1>2, <2>1, <2>2
<1>4. CASE kind \in Tagged /\ ~IsCompact(o)
  <2>1. PICK t : t = <<tags[TagOf(o[1])]>>
    OBVIOUS
  <2>2. t \in Seq(Byte) /\ Len(t) = 1
    BY <1>1, <1>2, <2>1 DEF IsTagTable
  <2>3. PICK n \in Nat : n = Number(o)
    BY <1>1
  <2>4. OperandBytes(o, kind, tags) = t \o Varint[n]
    BY <1>0, <1>4, <2>1, <2>3, Zenon DEF OperandBytes, TaggedBytes
  <2>5. OperandLength(o, kind) = 1 + VarintLength[n]
    BY <1>0, <1>4, <2>3, Zenon DEF OperandLength
  <2>6. PICK u \in Seq(Byte) : u = Varint[n] /\ Len(u) = VarintLength[n] /\ VarintLength[n] \in Nat
    BY VarintType
  <2>7. t \o u \in Seq(Byte) /\ Len(t \o u) = Len(t) + Len(u)
    BY <2>2, ConcatProperties
  <2> QED
    BY <2>2, <2>4, <2>5, <2>6, <2>7
<1>5. CASE kind \notin Tagged /\ kind = "nameref"
  <2>1. NameRef(o) \in Nat
    BY <1>5, NameRefType
  <2>2. OperandBytes(o, kind, tags) = Varint[NameRef(o)] /\ OperandLength(o, kind) = VarintLength[NameRef(o)]
    BY <1>5 DEF OperandBytes, OperandLength
  <2> QED
    BY <2>1, <2>2, VarintType
<1>6. CASE kind \notin Tagged /\ kind # "nameref"
  <2>1. OperandBytes(o, kind, tags) = Varint[Number(o)] /\ OperandLength(o, kind) = VarintLength[Number(o)]
    BY <1>6 DEF OperandBytes, OperandLength
  <2> QED
    BY <1>1, <2>1, VarintType
<1> QED
  BY <1>3, <1>4, <1>5, <1>6

\* What the reader is at, or that it could not go on.
IsPlace(bytes, at) == at \in 0..(Len(bytes) + 1)

\* The place behind an operand lies in the bytes.
LEMMA ReadOperandType ==
    ASSUME NEW bytes \in Seq(Byte), NEW at \in Nat, NEW kind, NEW tags
    PROVE  IsPlace(bytes, ReadOperand(bytes, at, kind, tags).at)
<1>1. IsPlace(bytes, ReadVarint(bytes, at).at)
  BY ReadVarintType DEF IsPlace
<1>2. IsPlace(bytes, ReadByte(bytes, at).at) /\ ReadByte(bytes, at).at \in Nat
  <2>1. ReadByte(bytes, at).at \in Nat
    BY ReadByteType
  <2> QED
    BY <2>1, ReadByteType DEF IsPlace
<1>3. IsPlace(bytes, Failed.at)
  BY DEF IsPlace, Failed, At0
<1>4. \A p, v : Got(p, v).at = p
  BY DEF Got
<1>5. IsPlace(bytes, ReadTagged(bytes, at, tags).at)
  <2>1. PICK payload : payload = ReadVarint(bytes, ReadByte(bytes, at).at)
    OBVIOUS
  <2>2. IsPlace(bytes, payload.at)
    BY <1>2, <2>1, ReadVarintType DEF IsPlace
  <2>3. \/ ReadTagged(bytes, at, tags) = Failed
        \/ \E v : ReadTagged(bytes, at, tags) = Got(payload.at, v)
    BY <2>1 DEF ReadTagged
  <2> QED
    BY <1>3, <1>4, <2>2, <2>3
<1>6. \/ ReadOperand(bytes, at, kind, tags) = ReadTagged(bytes, at, tags)
      \/ ReadOperand(bytes, at, kind, tags) = Failed
      \/ \E v : ReadOperand(bytes, at, kind, tags) = Got(ReadByte(bytes, at).at, v)
      \/ \E v : ReadOperand(bytes, at, kind, tags) = Got(ReadVarint(bytes, at).at, v)
  BY DEF ReadOperand
<1> QED
  BY <1>1, <1>2, <1>3, <1>4, <1>5, <1>6

\* What OperandsReadUpto is defined by.
LEMMA OperandsReadStep ==
    ASSUME NEW r, NEW bytes, NEW kinds, NEW tags, NEW n \in Nat, n = Len(kinds)
    PROVE  /\ OperandsReadUpto(r, bytes, kinds, tags)[0] = r
           /\ \A k \in 1..n : OperandsReadUpto(r, bytes, kinds, tags)[k] = ReadOne(OperandsReadUpto(r, bytes, kinds, tags)[k - 1], bytes, kinds[k], tags)
<1> DEFINE S == {k \in Nat : \E f : f = [j \in 0..k |-> IF j = 0 THEN r
                                                   ELSE ReadOne(f[j - 1], bytes, kinds[j], tags)]}
<1>1. 0 \in S
  <2>1. PICK f : f = [j \in 0..0 |-> r]
    OBVIOUS
  <2>2. \A j \in 0..0 : j = 0
    OBVIOUS
  <2>3. f = [j \in 0..0 |-> IF j = 0 THEN r ELSE ReadOne(f[j - 1], bytes, kinds[j], tags)]
    BY <2>1, <2>2, Zenon
  <2>4. \E g : g = [j \in 0..0 |-> IF j = 0 THEN r ELSE ReadOne(g[j - 1], bytes, kinds[j], tags)]
    BY <2>3, Zenon
  <2> QED
    BY <2>4, Zenon
<1>2. ASSUME NEW k \in Nat, k \in S PROVE k + 1 \in S
  <2>1. PICK f : f = [j \in 0..k |-> IF j = 0 THEN r ELSE ReadOne(f[j - 1], bytes, kinds[j], tags)]
    BY <1>2
  <2>2. PICK g : g = [j \in 0..(k + 1) |-> IF j = k + 1 THEN ReadOne(f[k], bytes, kinds[j], tags) ELSE f[j]]
    OBVIOUS
  <2>3. ASSUME NEW j \in 0..(k + 1)
        PROVE  g[j] = IF j = 0 THEN r ELSE ReadOne(g[j - 1], bytes, kinds[j], tags)
    <3>1. CASE j = k + 1
      <4>1. ~(j = 0) /\ j - 1 = k /\ k \in 0..(k + 1) /\ ~(k = k + 1)
        BY <3>1
      <4>2. g[j] = ReadOne(f[k], bytes, kinds[j], tags) /\ g[k] = f[k]
        BY <2>2, <3>1, <4>1, Zenon
      <4> QED
        BY <4>1, <4>2, Zenon
    <3>2. CASE j # k + 1
      <4>1. j \in 0..k /\ ~(j = k + 1)
        BY <3>2
      <4>2. ~(j = 0) => j - 1 \in 0..(k + 1) /\ ~(j - 1 = k + 1)
        BY <4>1
      <4>3. g[j] = f[j] /\ (~(j = 0) => g[j - 1] = f[j - 1])
        BY <2>2, <4>1, <4>2, Zenon
      <4>4. f[j] = IF j = 0 THEN r ELSE ReadOne(f[j - 1], bytes, kinds[j], tags)
        BY <2>1, <4>1, Zenon
      <4> QED
        BY <4>3, <4>4, Zenon
    <3> QED
      BY <3>1, <3>2
  <2>4. g = [j \in 0..(k + 1) |-> g[j]]
    BY <2>2, Zenon
  <2>5. g = [j \in 0..(k + 1) |-> IF j = 0 THEN r ELSE ReadOne(g[j - 1], bytes, kinds[j], tags)]
    BY <2>3, <2>4, Zenon
  <2>6. \E h : h = [j \in 0..(k + 1) |-> IF j = 0 THEN r ELSE ReadOne(h[j - 1], bytes, kinds[j], tags)]
    BY <2>5, Zenon
  <2>7. k + 1 \in Nat
    OBVIOUS
  <2> QED
    BY <2>6, <2>7, Zenon
<1>3. n \in S
  <2> HIDE DEF S
  <2> QED
    BY <1>1, <1>2, NatSet
<1>4. \E f : f = [j \in 0..Len(kinds) |-> IF j = 0 THEN r ELSE ReadOne(f[j - 1], bytes, kinds[j], tags)]
  BY <1>3
<1>5. PICK f : /\ f = OperandsReadUpto(r, bytes, kinds, tags)
               /\ f = [j \in 0..Len(kinds) |-> IF j = 0 THEN r ELSE ReadOne(f[j - 1], bytes, kinds[j], tags)]
  BY <1>4, Zenon DEF OperandsReadUpto
<1>6. ASSUME NEW j \in 0..n
      PROVE  OperandsReadUpto(r, bytes, kinds, tags)[j] = IF j = 0 THEN r ELSE ReadOne(OperandsReadUpto(r, bytes, kinds, tags)[j - 1], bytes, kinds[j], tags)
  BY <1>5, Zenon
<1>7. 0 \in 0..n /\ \A k \in 1..n : k \in 0..n /\ ~(k = 0)
  OBVIOUS
<1> QED
  BY <1>6, <1>7, Zenon


\* What ItemsReadUpto is defined by.
LEMMA ItemsReadStep ==
    ASSUME NEW start, NEW bytes, NEW layout, NEW tags, NEW n \in Nat, n = Len(layout)
    PROVE  /\ ItemsReadUpto(start, bytes, layout, tags)[0] = start
           /\ \A k \in 1..n : ItemsReadUpto(start, bytes, layout, tags)[k] = ReadItem(ItemsReadUpto(start, bytes, layout, tags)[k - 1], bytes, layout[k], tags)
<1> DEFINE S == {k \in Nat : \E f : f = [j \in 0..k |-> IF j = 0 THEN start
                                                   ELSE ReadItem(f[j - 1], bytes, layout[j], tags)]}
<1>1. 0 \in S
  <2>1. PICK f : f = [j \in 0..0 |-> start]
    OBVIOUS
  <2>2. \A j \in 0..0 : j = 0
    OBVIOUS
  <2>3. f = [j \in 0..0 |-> IF j = 0 THEN start ELSE ReadItem(f[j - 1], bytes, layout[j], tags)]
    BY <2>1, <2>2, Zenon
  <2>4. \E g : g = [j \in 0..0 |-> IF j = 0 THEN start ELSE ReadItem(g[j - 1], bytes, layout[j], tags)]
    BY <2>3, Zenon
  <2> QED
    BY <2>4, Zenon
<1>2. ASSUME NEW k \in Nat, k \in S PROVE k + 1 \in S
  <2>1. PICK f : f = [j \in 0..k |-> IF j = 0 THEN start ELSE ReadItem(f[j - 1], bytes, layout[j], tags)]
    BY <1>2
  <2>2. PICK g : g = [j \in 0..(k + 1) |-> IF j = k + 1 THEN ReadItem(f[k], bytes, layout[j], tags) ELSE f[j]]
    OBVIOUS
  <2>3. ASSUME NEW j \in 0..(k + 1)
        PROVE  g[j] = IF j = 0 THEN start ELSE ReadItem(g[j - 1], bytes, layout[j], tags)
    <3>1. CASE j = k + 1
      <4>1. ~(j = 0) /\ j - 1 = k /\ k \in 0..(k + 1) /\ ~(k = k + 1)
        BY <3>1
      <4>2. g[j] = ReadItem(f[k], bytes, layout[j], tags) /\ g[k] = f[k]
        BY <2>2, <3>1, <4>1, Zenon
      <4> QED
        BY <4>1, <4>2, Zenon
    <3>2. CASE j # k + 1
      <4>1. j \in 0..k /\ ~(j = k + 1)
        BY <3>2
      <4>2. ~(j = 0) => j - 1 \in 0..(k + 1) /\ ~(j - 1 = k + 1)
        BY <4>1
      <4>3. g[j] = f[j] /\ (~(j = 0) => g[j - 1] = f[j - 1])
        BY <2>2, <4>1, <4>2, Zenon
      <4>4. f[j] = IF j = 0 THEN start ELSE ReadItem(f[j - 1], bytes, layout[j], tags)
        BY <2>1, <4>1, Zenon
      <4> QED
        BY <4>3, <4>4, Zenon
    <3> QED
      BY <3>1, <3>2
  <2>4. g = [j \in 0..(k + 1) |-> g[j]]
    BY <2>2, Zenon
  <2>5. g = [j \in 0..(k + 1) |-> IF j = 0 THEN start ELSE ReadItem(g[j - 1], bytes, layout[j], tags)]
    BY <2>3, <2>4, Zenon
  <2>6. \E h : h = [j \in 0..(k + 1) |-> IF j = 0 THEN start ELSE ReadItem(h[j - 1], bytes, layout[j], tags)]
    BY <2>5, Zenon
  <2>7. k + 1 \in Nat
    OBVIOUS
  <2> QED
    BY <2>6, <2>7, Zenon
<1>3. n \in S
  <2> HIDE DEF S
  <2> QED
    BY <1>1, <1>2, NatSet
<1>4. \E f : f = [j \in 0..Len(layout) |-> IF j = 0 THEN start ELSE ReadItem(f[j - 1], bytes, layout[j], tags)]
  BY <1>3
<1>5. PICK f : /\ f = ItemsReadUpto(start, bytes, layout, tags)
               /\ f = [j \in 0..Len(layout) |-> IF j = 0 THEN start ELSE ReadItem(f[j - 1], bytes, layout[j], tags)]
  BY <1>4, Zenon DEF ItemsReadUpto
<1>6. ASSUME NEW j \in 0..n
      PROVE  ItemsReadUpto(start, bytes, layout, tags)[j] = IF j = 0 THEN start ELSE ReadItem(ItemsReadUpto(start, bytes, layout, tags)[j - 1], bytes, layout[j], tags)
  BY <1>5, Zenon
<1>7. 0 \in 0..n /\ \A k \in 1..n : k \in 0..n /\ ~(k = 0)
  OBVIOUS
<1> QED
  BY <1>6, <1>7, Zenon


\* What WrittenUpto is defined by.
LEMMA WrittenStep ==
    ASSUME NEW layout, NEW args, NEW constants, NEW tags, NEW n \in Nat, n = Len(layout)
    PROVE  /\ WrittenUpto(layout, args, constants, tags)[0] = NothingWritten
           /\ \A k \in 1..n : WrittenUpto(layout, args, constants, tags)[k] = WriteNext(WrittenUpto(layout, args, constants, tags)[k - 1], args, constants, layout[k], tags)
<1> DEFINE S == {k \in Nat : \E f : f = [j \in 0..k |-> IF j = 0 THEN NothingWritten
                                                   ELSE WriteNext(f[j - 1], args, constants, layout[j], tags)]}
<1>1. 0 \in S
  <2>1. PICK f : f = [j \in 0..0 |-> NothingWritten]
    OBVIOUS
  <2>2. \A j \in 0..0 : j = 0
    OBVIOUS
  <2>3. f = [j \in 0..0 |-> IF j = 0 THEN NothingWritten ELSE WriteNext(f[j - 1], args, constants, layout[j], tags)]
    BY <2>1, <2>2, Zenon
  <2>4. \E g : g = [j \in 0..0 |-> IF j = 0 THEN NothingWritten ELSE WriteNext(g[j - 1], args, constants, layout[j], tags)]
    BY <2>3, Zenon
  <2> QED
    BY <2>4, Zenon
<1>2. ASSUME NEW k \in Nat, k \in S PROVE k + 1 \in S
  <2>1. PICK f : f = [j \in 0..k |-> IF j = 0 THEN NothingWritten ELSE WriteNext(f[j - 1], args, constants, layout[j], tags)]
    BY <1>2
  <2>2. PICK g : g = [j \in 0..(k + 1) |-> IF j = k + 1 THEN WriteNext(f[k], args, constants, layout[j], tags) ELSE f[j]]
    OBVIOUS
  <2>3. ASSUME NEW j \in 0..(k + 1)
        PROVE  g[j] = IF j = 0 THEN NothingWritten ELSE WriteNext(g[j - 1], args, constants, layout[j], tags)
    <3>1. CASE j = k + 1
      <4>1. ~(j = 0) /\ j - 1 = k /\ k \in 0..(k + 1) /\ ~(k = k + 1)
        BY <3>1
      <4>2. g[j] = WriteNext(f[k], args, constants, layout[j], tags) /\ g[k] = f[k]
        BY <2>2, <3>1, <4>1, Zenon
      <4> QED
        BY <4>1, <4>2, Zenon
    <3>2. CASE j # k + 1
      <4>1. j \in 0..k /\ ~(j = k + 1)
        BY <3>2
      <4>2. ~(j = 0) => j - 1 \in 0..(k + 1) /\ ~(j - 1 = k + 1)
        BY <4>1
      <4>3. g[j] = f[j] /\ (~(j = 0) => g[j - 1] = f[j - 1])
        BY <2>2, <4>1, <4>2, Zenon
      <4>4. f[j] = IF j = 0 THEN NothingWritten ELSE WriteNext(f[j - 1], args, constants, layout[j], tags)
        BY <2>1, <4>1, Zenon
      <4> QED
        BY <4>3, <4>4, Zenon
    <3> QED
      BY <3>1, <3>2
  <2>4. g = [j \in 0..(k + 1) |-> g[j]]
    BY <2>2, Zenon
  <2>5. g = [j \in 0..(k + 1) |-> IF j = 0 THEN NothingWritten ELSE WriteNext(g[j - 1], args, constants, layout[j], tags)]
    BY <2>3, <2>4, Zenon
  <2>6. \E h : h = [j \in 0..(k + 1) |-> IF j = 0 THEN NothingWritten ELSE WriteNext(h[j - 1], args, constants, layout[j], tags)]
    BY <2>5, Zenon
  <2>7. k + 1 \in Nat
    OBVIOUS
  <2> QED
    BY <2>6, <2>7, Zenon
<1>3. n \in S
  <2> HIDE DEF S
  <2> QED
    BY <1>1, <1>2, NatSet
<1>4. \E f : f = [j \in 0..Len(layout) |-> IF j = 0 THEN NothingWritten ELSE WriteNext(f[j - 1], args, constants, layout[j], tags)]
  BY <1>3
<1>5. PICK f : /\ f = WrittenUpto(layout, args, constants, tags)
               /\ f = [j \in 0..Len(layout) |-> IF j = 0 THEN NothingWritten ELSE WriteNext(f[j - 1], args, constants, layout[j], tags)]
  BY <1>4, Zenon DEF WrittenUpto
<1>6. ASSUME NEW j \in 0..n
      PROVE  WrittenUpto(layout, args, constants, tags)[j] = IF j = 0 THEN NothingWritten ELSE WriteNext(WrittenUpto(layout, args, constants, tags)[j - 1], args, constants, layout[j], tags)
  BY <1>5, Zenon
<1>7. 0 \in 0..n /\ \A k \in 1..n : k \in 0..n /\ ~(k = 0)
  OBVIOUS
<1> QED
  BY <1>6, <1>7, Zenon

-----------------------------------------------------------------------------
(* Layouts.                                                                *)

WireKinds == OperandKinds \cup Tagged \cup {"nameref", "tagged"}
KindLists == Seq(WireKinds)
Items == [item : {"one", "pair"}, kinds : KindLists] \cup [item : {"many"}, kinds : KindLists \ {<<>>}]
         \cup [item : {"implied"}, n : Nat] \cup [item : {"const"}, c : BytecodeConstant]
         \cup [item : {"small"}]

\* Layouts are lists of items, group by group of the operations.
LEMMA PlainType ==
    ASSUME NEW kinds \in KindLists
    PROVE  Plain(kinds) \in Seq(Items)
<1>1. \A k \in DOMAIN kinds : [item |-> "one", kinds |-> <<kinds[k]>>] \in Items
  BY DEF KindLists, Items
<1>2. PICK n \in Nat : n = Len(kinds) /\ DOMAIN kinds = 1..n
  BY DEF KindLists
<1>3. Plain(kinds) \in [1..n -> Items]
  BY <1>1, <1>2 DEF Plain
<1> QED
  BY <1>2, <1>3

LEMMA PiecesType ==
    /\ \A kinds \in KindLists \ {<<>>} : Many(kinds) \in Seq(Items)
    /\ \A kinds \in KindLists : Pair(kinds) \in Seq(Items)
    /\ \A n \in Nat : Implied(n) \in Seq(Items)
    /\ \A c \in BytecodeConstant : ImpliedConst(c) \in Seq(Items)
    /\ SmallInt \in Seq(Items)
<1>1. \A i \in Items : <<i>> \in Seq(Items)
  OBVIOUS
<1>2. /\ \A kinds \in KindLists \ {<<>>} : [item |-> "many", kinds |-> kinds] \in Items
      /\ \A kinds \in KindLists : [item |-> "pair", kinds |-> kinds] \in Items
  BY DEF Items
<1>3. \A n \in Nat : [item |-> "implied", n |-> n] \in Items
  BY DEF Items
<1>4. \A c \in BytecodeConstant : [item |-> "const", c |-> c] \in Items
  BY DEF Items
<1>5. [item |-> "small"] \in Items
  BY DEF Items
<1> QED
  BY <1>1, <1>2, <1>3, <1>4, <1>5, Zenon DEF Many, Pair, Implied, ImpliedConst, SmallInt

LEMMA LoadedByType ==
    ASSUME NEW op \in ImmediateLoads
    PROVE  LoadedBy(op) \in BytecodeConstant
<1>1. ASSUME NEW t \in {"bool", "null", "undefined"}, NEW v \in Seq(Int),
             t = "bool" => Const(t, v) \in {Bool(TRUE), Bool(FALSE)},
             t \in {"null", "undefined"} => v = <<>>
      PROVE  Const(t, v) \in BytecodeConstant
  <2>1. Const(t, v).type = t /\ Const(t, v).v = v /\ Const(t, v) \in [type : ConstantTypes, v : Seq(Int)]
    BY DEF Const, ConstantTypes
  <2> QED
    BY <1>1, <2>1 DEF BytecodeConstant
<1>2. <<>> \in Seq(Int) /\ \A n \in Int : <<n>> \in Seq(Int)
  OBVIOUS
<1>3. Undefined \in BytecodeConstant /\ Null \in BytecodeConstant
  BY <1>1, <1>2 DEF Undefined, Null
<1>4. Bool(TRUE) = Const("bool", <<1>>) /\ Bool(FALSE) = Const("bool", <<0>>)
  BY DEF Bool
<1>5. PICK t \in Seq(Int), f \in Seq(Int) : t = <<1>> /\ f = <<0>>
  <2>1. <<1>> \in Seq(Int) /\ <<0>> \in Seq(Int)
    OBVIOUS
  <2> QED
    BY <2>1, Zenon
<1>6. Const("bool", t) \in {Bool(TRUE), Bool(FALSE)} /\ Const("bool", f) \in {Bool(TRUE), Bool(FALSE)}
  BY <1>4, <1>5, Zenon
<1>7. Const("bool", t) \in BytecodeConstant /\ Const("bool", f) \in BytecodeConstant
  BY <1>1, <1>6
<1>8. \/ op = "LoadUndefined" \/ op = "LoadNull" \/ op = "LoadTrue" \/ op = "LoadFalse"
  BY DEF ImmediateLoads
<1>9. \/ LoadedBy(op) = Undefined \/ LoadedBy(op) = Null
      \/ LoadedBy(op) = Bool(TRUE) \/ LoadedBy(op) = Bool(FALSE)
  BY <1>8 DEF LoadedBy
<1> QED
  BY <1>3, <1>4, <1>5, <1>7, <1>9, Zenon

LEMMA NoKinds == <<>> \in KindLists
BY DEF KindLists

LEMMA Kinds1 ==
    ASSUME NEW a \in WireKinds
    PROVE  <<a>> \in KindLists
BY DEF KindLists

LEMMA Kinds2 ==
    ASSUME NEW a \in WireKinds, NEW b \in WireKinds
    PROVE  <<a, b>> \in KindLists
BY DEF KindLists

LEMMA ManyType ==
    ASSUME NEW a \in WireKinds, NEW b \in WireKinds
    PROVE  Many(<<a>>) \in Seq(Items) /\ Many(<<a, b>>) \in Seq(Items)
<1>1. <<a>> \in KindLists \ {<<>>} /\ <<a, b>> \in KindLists \ {<<>>}
  BY DEF KindLists
<1> QED
  BY <1>1, PiecesType, Zenon

LEMMA Kinds3 ==
    ASSUME NEW a \in WireKinds, NEW b \in WireKinds, NEW c \in WireKinds
    PROVE  <<a, b, c>> \in KindLists
BY DEF KindLists

LEMMA Kinds4 ==
    ASSUME NEW a \in WireKinds, NEW b \in WireKinds, NEW c \in WireKinds, NEW d \in WireKinds
    PROVE  <<a, b, c, d>> \in KindLists
BY DEF KindLists

LEMMA Kinds5 ==
    ASSUME NEW a \in WireKinds, NEW b \in WireKinds, NEW c \in WireKinds, NEW d \in WireKinds, NEW e \in WireKinds
    PROVE  <<a, b, c, d, e>> \in KindLists
BY DEF KindLists

LEMMA Kinds6 ==
    ASSUME NEW a \in WireKinds, NEW b \in WireKinds, NEW c \in WireKinds, NEW d \in WireKinds, NEW e \in WireKinds, NEW f \in WireKinds
    PROVE  <<a, b, c, d, e, f>> \in KindLists
BY DEF KindLists

LEMMA Kinds7 ==
    ASSUME NEW a \in WireKinds, NEW b \in WireKinds, NEW c \in WireKinds, NEW d \in WireKinds, NEW e \in WireKinds, NEW f \in WireKinds, NEW g \in WireKinds
    PROVE  <<a, b, c, d, e, f, g>> \in KindLists
BY DEF KindLists

LEMMA WireKindsHas ==
    /\ "reg" \in WireKinds /\ "const" \in WireKinds /\ "name" \in WireKinds /\ "slot" \in WireKinds
    /\ "label" \in WireKinds /\ "count" \in WireKinds /\ "fn" \in WireKinds
    /\ "operator" \in WireKinds /\ "decl" \in WireKinds /\ "scope" \in WireKinds
    /\ "nameref" \in WireKinds /\ "value" \in WireKinds /\ "optreg" \in WireKinds
    /\ "optname" \in WireKinds /\ "optvalue" \in WireKinds /\ "tagged" \in WireKinds
BY DEF WireKinds, OperandKinds, Tagged

LEMMA FixedSchemaType ==
    ASSUME NEW op
    PROVE  FixedSchema(op) \in KindLists
<1>1. CASE op \in {"Marker", "Unsupported", "ReturnConst"}
  <2>1. FixedSchema(op) = <<"const">>
    BY <1>1 DEF FixedSchema
  <2>2. <<"const">> \in KindLists
    BY WireKindsHas, Kinds1, Zenon
  <2> QED
    BY <2>1, <2>2, Zenon
<1>2. CASE op = "Label"
  <2>1. FixedSchema(op) = <<"label">>
    BY <1>2 DEF FixedSchema
  <2>2. <<"label">> \in KindLists
    BY WireKindsHas, Kinds1, Zenon
  <2> QED
    BY <2>1, <2>2, Zenon
<1>3. CASE op = "Declare"
  <2>1. FixedSchema(op) = <<"decl", "nameref">>
    BY <1>3 DEF FixedSchema
  <2>2. <<"decl", "nameref">> \in KindLists
    BY WireKindsHas, Kinds2, Zenon
  <2> QED
    BY <2>1, <2>2, Zenon
<1>4. CASE op \in {"LoadConst", "Move", "Await"}
  <2>1. FixedSchema(op) = <<"reg", "value">>
    BY <1>4 DEF FixedSchema
  <2>2. <<"reg", "value">> \in KindLists
    BY WireKindsHas, Kinds2, Zenon
  <2> QED
    BY <2>1, <2>2, Zenon
<1>5. CASE op = "LoadConstConst"
  <2>1. FixedSchema(op) = <<"reg", "const">>
    BY <1>5 DEF FixedSchema
  <2>2. <<"reg", "const">> \in KindLists
    BY WireKindsHas, Kinds2, Zenon
  <2> QED
    BY <2>1, <2>2, Zenon
<1>6. CASE op = "LoadName"
  <2>1. FixedSchema(op) = <<"reg", "nameref">>
    BY <1>6 DEF FixedSchema
  <2>2. <<"reg", "nameref">> \in KindLists
    BY WireKindsHas, Kinds2, Zenon
  <2> QED
    BY <2>1, <2>2, Zenon
<1>7. CASE op = "LoadLocal"
  <2>1. FixedSchema(op) = <<"reg", "slot">>
    BY <1>7 DEF FixedSchema
  <2>2. <<"reg", "slot">> \in KindLists
    BY WireKindsHas, Kinds2, Zenon
  <2> QED
    BY <2>1, <2>2, Zenon
<1>8. CASE op = "StoreName"
  <2>1. FixedSchema(op) = <<"nameref", "value">>
    BY <1>8 DEF FixedSchema
  <2>2. <<"nameref", "value">> \in KindLists
    BY WireKindsHas, Kinds2, Zenon
  <2> QED
    BY <2>1, <2>2, Zenon
<1>9. CASE op = "StoreLocal"
  <2>1. FixedSchema(op) = <<"slot", "reg">>
    BY <1>9 DEF FixedSchema
  <2>2. <<"slot", "reg">> \in KindLists
    BY WireKindsHas, Kinds2, Zenon
  <2> QED
    BY <2>1, <2>2, Zenon
<1>10. CASE op = "StoreLocalMemberConst"
  <2>1. FixedSchema(op) = <<"decl", "slot", "value", "const">>
    BY <1>10 DEF FixedSchema
  <2>2. <<"decl", "slot", "value", "const">> \in KindLists
    BY WireKindsHas, Kinds4, Zenon
  <2> QED
    BY <2>1, <2>2, Zenon
<1>11. CASE op = "DeclareStoreLocal"
  <2>1. FixedSchema(op) = <<"decl", "slot", "reg">>
    BY <1>11 DEF FixedSchema
  <2>2. <<"decl", "slot", "reg">> \in KindLists
    BY WireKindsHas, Kinds3, Zenon
  <2> QED
    BY <2>1, <2>2, Zenon
<1>12. CASE op = "StoreMember"
  <2>1. FixedSchema(op) = <<"value", "value", "value">>
    BY <1>12 DEF FixedSchema
  <2>2. <<"value", "value", "value">> \in KindLists
    BY WireKindsHas, Kinds3, Zenon
  <2> QED
    BY <2>1, <2>2, Zenon
<1>13. CASE op = "StoreMemberConst"
  <2>1. FixedSchema(op) = <<"value", "const", "value">>
    BY <1>13 DEF FixedSchema
  <2>2. <<"value", "const", "value">> \in KindLists
    BY WireKindsHas, Kinds3, Zenon
  <2> QED
    BY <2>1, <2>2, Zenon
<1>14. CASE op = "Binary"
  <2>1. FixedSchema(op) = <<"reg", "operator", "value", "value">>
    BY <1>14 DEF FixedSchema
  <2>2. <<"reg", "operator", "value", "value">> \in KindLists
    BY WireKindsHas, Kinds4, Zenon
  <2> QED
    BY <2>1, <2>2, Zenon
<1>15. CASE op = "BinaryRegReg"
  <2>1. FixedSchema(op) = <<"reg", "operator", "reg", "reg">>
    BY <1>15 DEF FixedSchema
  <2>2. <<"reg", "operator", "reg", "reg">> \in KindLists
    BY WireKindsHas, Kinds4, Zenon
  <2> QED
    BY <2>1, <2>2, Zenon
<1>16. CASE op = "BinaryRegConst"
  <2>1. FixedSchema(op) = <<"reg", "operator", "reg", "const">>
    BY <1>16 DEF FixedSchema
  <2>2. <<"reg", "operator", "reg", "const">> \in KindLists
    BY WireKindsHas, Kinds4, Zenon
  <2> QED
    BY <2>1, <2>2, Zenon
<1>17. CASE op \in {"JumpIfLocalBinaryConstFalse", "JumpIfLocalBinaryConstTrue"}
  <2>1. FixedSchema(op) = <<"reg", "slot", "reg", "operator", "const", "count">>
    BY <1>17 DEF FixedSchema
  <2>2. <<"reg", "slot", "reg", "operator", "const", "count">> \in KindLists
    BY WireKindsHas, Kinds6, Zenon
  <2> QED
    BY <2>1, <2>2, Zenon
<1>18. CASE op = "Unary"
  <2>1. FixedSchema(op) = <<"reg", "operator", "value">>
    BY <1>18 DEF FixedSchema
  <2>2. <<"reg", "operator", "value">> \in KindLists
    BY WireKindsHas, Kinds3, Zenon
  <2> QED
    BY <2>1, <2>2, Zenon
<1>19. CASE op = "Member"
  <2>1. FixedSchema(op) = <<"reg", "value", "value">>
    BY <1>19 DEF FixedSchema
  <2>2. <<"reg", "value", "value">> \in KindLists
    BY WireKindsHas, Kinds3, Zenon
  <2> QED
    BY <2>1, <2>2, Zenon
<1>20. CASE op = "MemberConst"
  <2>1. FixedSchema(op) = <<"reg", "value", "const">>
    BY <1>20 DEF FixedSchema
  <2>2. <<"reg", "value", "const">> \in KindLists
    BY WireKindsHas, Kinds3, Zenon
  <2> QED
    BY <2>1, <2>2, Zenon
<1>21. CASE op \in {"FunctionEnd", "FunctionExprEnd", "TryStart", "FinallyStart", "TryEnd", "LeaveScope"}
  <2>1. FixedSchema(op) = <<>>
    BY <1>21 DEF FixedSchema
  <2> QED
    BY <2>1, NoKinds, Zenon
<1>22. CASE op = "EnterScope"
  <2>1. FixedSchema(op) = <<"scope">>
    BY <1>22 DEF FixedSchema
  <2>2. <<"scope">> \in KindLists
    BY WireKindsHas, Kinds1, Zenon
  <2> QED
    BY <2>1, <2>2, Zenon
<1>23. CASE op = "CatchStart"
  <2>1. FixedSchema(op) = <<"optname">>
    BY <1>23 DEF FixedSchema
  <2>2. <<"optname">> \in KindLists
    BY WireKindsHas, Kinds1, Zenon
  <2> QED
    BY <2>1, <2>2, Zenon
<1>24. CASE op \in {"Throw", "Pop"}
  <2>1. FixedSchema(op) = <<"value">>
    BY <1>24 DEF FixedSchema
  <2>2. <<"value">> \in KindLists
    BY WireKindsHas, Kinds1, Zenon
  <2> QED
    BY <2>1, <2>2, Zenon
<1>25. CASE op = "Return"
  <2>1. FixedSchema(op) = <<"optvalue">>
    BY <1>25 DEF FixedSchema
  <2>2. <<"optvalue">> \in KindLists
    BY WireKindsHas, Kinds1, Zenon
  <2> QED
    BY <2>1, <2>2, Zenon
<1>26. CASE op \in {"ReturnReg", "PopReg"}
  <2>1. FixedSchema(op) = <<"reg">>
    BY <1>26 DEF FixedSchema
  <2>2. <<"reg">> \in KindLists
    BY WireKindsHas, Kinds1, Zenon
  <2> QED
    BY <2>1, <2>2, Zenon
<1>27. CASE op = "ReturnIfLocalFalse"
  <2>1. FixedSchema(op) = <<"reg", "slot", "optvalue">>
    BY <1>27 DEF FixedSchema
  <2>2. <<"reg", "slot", "optvalue">> \in KindLists
    BY WireKindsHas, Kinds3, Zenon
  <2> QED
    BY <2>1, <2>2, Zenon
<1>28. CASE op = "ReturnIfLocalFalseElseMemberBinaryConst"
  <2>1. FixedSchema(op) = <<"slot", "optvalue", "const", "operator", "const">>
    BY <1>28 DEF FixedSchema
  <2>2. <<"slot", "optvalue", "const", "operator", "const">> \in KindLists
    BY WireKindsHas, Kinds5, Zenon
  <2> QED
    BY <2>1, <2>2, Zenon
<1>29. CASE op = "Jump"
  <2>1. FixedSchema(op) = <<"count">>
    BY <1>29 DEF FixedSchema
  <2>2. <<"count">> \in KindLists
    BY WireKindsHas, Kinds1, Zenon
  <2> QED
    BY <2>1, <2>2, Zenon
<1>30. CASE op = "JumpIfFalse"
  <2>1. FixedSchema(op) = <<"value", "count">>
    BY <1>30 DEF FixedSchema
  <2>2. <<"value", "count">> \in KindLists
    BY WireKindsHas, Kinds2, Zenon
  <2> QED
    BY <2>1, <2>2, Zenon
<1>31. CASE op \in {"JumpIfFalseReg", "JumpIfTrueReg"}
  <2>1. FixedSchema(op) = <<"reg", "count">>
    BY <1>31 DEF FixedSchema
  <2>2. <<"reg", "count">> \in KindLists
    BY WireKindsHas, Kinds2, Zenon
  <2> QED
    BY <2>1, <2>2, Zenon
<1>32. CASE op = "MoveJumpReg"
  <2>1. FixedSchema(op) = <<"reg", "value", "reg", "count", "count">>
    BY <1>32 DEF FixedSchema
  <2>2. <<"reg", "value", "reg", "count", "count">> \in KindLists
    BY WireKindsHas, Kinds5, Zenon
  <2> QED
    BY <2>1, <2>2, Zenon
<1>33. CASE op = "MoveJumpFallthroughReg"
  <2>1. FixedSchema(op) = <<"reg", "value", "reg", "count">>
    BY <1>33 DEF FixedSchema
  <2>2. <<"reg", "value", "reg", "count">> \in KindLists
    BY WireKindsHas, Kinds4, Zenon
  <2> QED
    BY <2>1, <2>2, Zenon
<1>34. CASE op = "BinaryRegRegJump"
  <2>1. FixedSchema(op) = <<"reg", "operator", "reg", "reg", "reg", "count", "count">>
    BY <1>34 DEF FixedSchema
  <2>2. <<"reg", "operator", "reg", "reg", "reg", "count", "count">> \in KindLists
    BY WireKindsHas, Kinds7, Zenon
  <2> QED
    BY <2>1, <2>2, Zenon
<1>35. CASE op = "BinaryRegRegJumpFallthrough"
  <2>1. FixedSchema(op) = <<"reg", "operator", "reg", "reg", "reg", "count">>
    BY <1>35 DEF FixedSchema
  <2>2. <<"reg", "operator", "reg", "reg", "reg", "count">> \in KindLists
    BY WireKindsHas, Kinds6, Zenon
  <2> QED
    BY <2>1, <2>2, Zenon
<1>36. CASE op = "Yield"
  <2>1. FixedSchema(op) = <<"optvalue", "optvalue">>
    BY <1>36 DEF FixedSchema
  <2>2. <<"optvalue", "optvalue">> \in KindLists
    BY WireKindsHas, Kinds2, Zenon
  <2> QED
    BY <2>1, <2>2, Zenon
<1>37. CASE ~(op = "Marker"
             \/ op = "Unsupported"
             \/ op = "ReturnConst"
             \/ op = "Label"
             \/ op = "Declare"
             \/ op = "LoadConst"
             \/ op = "Move"
             \/ op = "Await"
             \/ op = "LoadConstConst"
             \/ op = "LoadName"
             \/ op = "LoadLocal"
             \/ op = "StoreName"
             \/ op = "StoreLocal"
             \/ op = "StoreLocalMemberConst"
             \/ op = "DeclareStoreLocal"
             \/ op = "StoreMember"
             \/ op = "StoreMemberConst"
             \/ op = "Binary"
             \/ op = "BinaryRegReg"
             \/ op = "BinaryRegConst"
             \/ op = "JumpIfLocalBinaryConstFalse"
             \/ op = "JumpIfLocalBinaryConstTrue"
             \/ op = "Unary"
             \/ op = "Member"
             \/ op = "MemberConst"
             \/ op = "FunctionEnd"
             \/ op = "FunctionExprEnd"
             \/ op = "TryStart"
             \/ op = "FinallyStart"
             \/ op = "TryEnd"
             \/ op = "LeaveScope"
             \/ op = "EnterScope"
             \/ op = "CatchStart"
             \/ op = "Throw"
             \/ op = "Pop"
             \/ op = "Return"
             \/ op = "ReturnReg"
             \/ op = "PopReg"
             \/ op = "ReturnIfLocalFalse"
             \/ op = "ReturnIfLocalFalseElseMemberBinaryConst"
             \/ op = "Jump"
             \/ op = "JumpIfFalse"
             \/ op = "JumpIfFalseReg"
             \/ op = "JumpIfTrueReg"
             \/ op = "MoveJumpReg"
             \/ op = "MoveJumpFallthroughReg"
             \/ op = "BinaryRegRegJump"
             \/ op = "BinaryRegRegJumpFallthrough"
             \/ op = "Yield")
  <2>1. FixedSchema(op) = <<>>
    BY <1>37 DEF FixedSchema
  <2> QED
    BY <2>1, NoKinds, Zenon
<1> QED
  BY <1>1, <1>2, <1>3, <1>4, <1>5, <1>6, <1>7, <1>8, <1>9, <1>10, <1>11, <1>12, <1>13, <1>14, <1>15, <1>16, <1>17, <1>18, <1>19, <1>20, <1>21, <1>22, <1>23, <1>24, <1>25, <1>26, <1>27, <1>28, <1>29, <1>30, <1>31, <1>32, <1>33, <1>34, <1>35, <1>36, <1>37

LEMMA Joined ==
    ASSUME NEW a \in Seq(Items), NEW b \in Seq(Items)
    PROVE  a \o b \in Seq(Items)
OBVIOUS

LEMMA WrittenShortType ==
    ASSUME NEW op \in Short
    PROVE  WrittenShort(op) \in Seq(Items)
<1>1. CASE op \in ImmediateLoads
  <2>1. WrittenShort(op) = Plain(<<"reg">>) \o ImpliedConst(LoadedBy(op))
    BY <1>1 DEF WrittenShort, ImmediateLoads
  <2>2. Plain(<<"reg">>) \in Seq(Items)
    <3>1. <<"reg">> \in KindLists
      BY WireKindsHas, Kinds1, Zenon
    <3> QED
      BY <3>1, PlainType, Zenon
  <2>3. ImpliedConst(LoadedBy(op)) \in Seq(Items)
    BY <1>1, LoadedByType, PiecesType, Zenon
  <2> QED
    BY <2>1, <2>2, <2>3, Joined, Zenon
<1>2. CASE op = "LoadIntSmall"
  <2>1. WrittenShort(op) = Plain(<<"reg">>) \o SmallInt
    BY <1>2 DEF WrittenShort
  <2>2. Plain(<<"reg">>) \in Seq(Items)
    <3>1. <<"reg">> \in KindLists
      BY WireKindsHas, Kinds1, Zenon
    <3> QED
      BY <3>1, PlainType, Zenon
  <2>3. SmallInt \in Seq(Items)
    BY PiecesType, Zenon
  <2> QED
    BY <2>1, <2>2, <2>3, Joined, Zenon
<1>3. CASE op = "LoadLocalSmall"
  <2>1. WrittenShort(op) = LocalPair
    BY <1>3 DEF WrittenShort
  <2>2. LocalPair \in Seq(Items)
    <3>1. <<"reg", "slot">> \in KindLists
      BY WireKindsHas, Kinds2, Zenon
    <3> QED
      BY <3>1, PiecesType, Zenon DEF LocalPair
  <2> QED
    BY <2>1, <2>2, Zenon
<1>4. CASE op = "MemberLocalConst"
  <2>1. WrittenShort(op) = LocalPair \o Plain(<<"const">>)
    BY <1>4 DEF WrittenShort
  <2>2. LocalPair \in Seq(Items)
    <3>1. <<"reg", "slot">> \in KindLists
      BY WireKindsHas, Kinds2, Zenon
    <3> QED
      BY <3>1, PiecesType, Zenon DEF LocalPair
  <2>3. Plain(<<"const">>) \in Seq(Items)
    <3>1. <<"const">> \in KindLists
      BY WireKindsHas, Kinds1, Zenon
    <3> QED
      BY <3>1, PlainType, Zenon
  <2> QED
    BY <2>1, <2>2, <2>3, Joined, Zenon
<1>5. CASE op = "BinaryLocalConst"
  <2>1. WrittenShort(op) = LocalPair \o Plain(<<"operator", "const">>)
    BY <1>5 DEF WrittenShort
  <2>2. LocalPair \in Seq(Items)
    <3>1. <<"reg", "slot">> \in KindLists
      BY WireKindsHas, Kinds2, Zenon
    <3> QED
      BY <3>1, PiecesType, Zenon DEF LocalPair
  <2>3. Plain(<<"operator", "const">>) \in Seq(Items)
    <3>1. <<"operator", "const">> \in KindLists
      BY WireKindsHas, Kinds2, Zenon
    <3> QED
      BY <3>1, PlainType, Zenon
  <2> QED
    BY <2>1, <2>2, <2>3, Joined, Zenon
<1>6. CASE op = "MemberLocal"
  <2>1. WrittenShort(op) = LocalPair \o Plain(<<"value">>)
    BY <1>6 DEF WrittenShort
  <2>2. LocalPair \in Seq(Items)
    <3>1. <<"reg", "slot">> \in KindLists
      BY WireKindsHas, Kinds2, Zenon
    <3> QED
      BY <3>1, PiecesType, Zenon DEF LocalPair
  <2>3. Plain(<<"value">>) \in Seq(Items)
    <3>1. <<"value">> \in KindLists
      BY WireKindsHas, Kinds1, Zenon
    <3> QED
      BY <3>1, PlainType, Zenon
  <2> QED
    BY <2>1, <2>2, <2>3, Joined, Zenon
<1>7. CASE op = "CallLocalZero"
  <2>1. WrittenShort(op) = LocalPair \o Implied(0)
    BY <1>7 DEF WrittenShort
  <2>2. LocalPair \in Seq(Items)
    <3>1. <<"reg", "slot">> \in KindLists
      BY WireKindsHas, Kinds2, Zenon
    <3> QED
      BY <3>1, PiecesType, Zenon DEF LocalPair
  <2>3. Implied(0) \in Seq(Items)
    <3>1. 0 \in Nat
      OBVIOUS
    <3> QED
      BY <3>1, PiecesType, Zenon
  <2> QED
    BY <2>1, <2>2, <2>3, Joined, Zenon
<1>8. CASE op = "CallLocalOne"
  <2>1. WrittenShort(op) = LocalPair \o Implied(1) \o Plain(<<"value">>)
    BY <1>8 DEF WrittenShort
  <2>2. LocalPair \in Seq(Items)
    <3>1. <<"reg", "slot">> \in KindLists
      BY WireKindsHas, Kinds2, Zenon
    <3> QED
      BY <3>1, PiecesType, Zenon DEF LocalPair
  <2>3. Implied(1) \in Seq(Items)
    <3>1. 1 \in Nat
      OBVIOUS
    <3> QED
      BY <3>1, PiecesType, Zenon
  <2>4. Plain(<<"value">>) \in Seq(Items)
    <3>1. <<"value">> \in KindLists
      BY WireKindsHas, Kinds1, Zenon
    <3> QED
      BY <3>1, PlainType, Zenon
  <2>5. LocalPair \o Implied(1) \in Seq(Items)
    BY <2>2, <2>3, Joined, Zenon
  <2> QED
    BY <2>1, <2>4, <2>5, Joined, Zenon
<1>9. CASE op = "CallLocalTwo"
  <2>1. WrittenShort(op) = LocalPair \o Implied(2) \o Plain(<<"value", "value">>)
    BY <1>9 DEF WrittenShort
  <2>2. LocalPair \in Seq(Items)
    <3>1. <<"reg", "slot">> \in KindLists
      BY WireKindsHas, Kinds2, Zenon
    <3> QED
      BY <3>1, PiecesType, Zenon DEF LocalPair
  <2>3. Implied(2) \in Seq(Items)
    <3>1. 2 \in Nat
      OBVIOUS
    <3> QED
      BY <3>1, PiecesType, Zenon
  <2>4. Plain(<<"value", "value">>) \in Seq(Items)
    <3>1. <<"value", "value">> \in KindLists
      BY WireKindsHas, Kinds2, Zenon
    <3> QED
      BY <3>1, PlainType, Zenon
  <2>5. LocalPair \o Implied(2) \in Seq(Items)
    BY <2>2, <2>3, Joined, Zenon
  <2> QED
    BY <2>1, <2>4, <2>5, Joined, Zenon
<1>10. CASE op = "StoreLocalSmall"
  <2>1. WrittenShort(op) = Pair(<<"slot", "reg">>)
    BY <1>10 DEF WrittenShort
  <2>2. Pair(<<"slot", "reg">>) \in Seq(Items)
    <3>1. <<"slot", "reg">> \in KindLists
      BY WireKindsHas, Kinds2, Zenon
    <3> QED
      BY <3>1, PiecesType, Zenon
  <2> QED
    BY <2>1, <2>2, Zenon
<1> QED
  BY <1>1, <1>2, <1>3, <1>4, <1>5, <1>6, <1>7, <1>8, <1>9, <1>10 DEF Short, ImmediateLoads

LEMMA WrittenCountedType ==
    ASSUME NEW op \in Counted \cup {"ObjectRest"}
    PROVE  WrittenCounted(op) \in Seq(Items)
<1>1. CASE op = "Array"
  <2>1. WrittenCounted(op) = Plain(<<"reg">>) \o Many(<<"value">>)
    BY <1>1 DEF WrittenCounted
  <2>2. Plain(<<"reg">>) \in Seq(Items)
    <3>1. <<"reg">> \in KindLists
      BY WireKindsHas, Kinds1, Zenon
    <3> QED
      BY <3>1, PlainType, Zenon
  <2>3. Many(<<"value">>) \in Seq(Items)
    BY WireKindsHas, ManyType, Zenon
  <2> QED
    BY <2>1, <2>2, <2>3, Joined, Zenon
<1>2. CASE op = "Object"
  <2>1. WrittenCounted(op) = Plain(<<"reg">>) \o Many(<<"const", "value">>)
    BY <1>2 DEF WrittenCounted
  <2>2. Plain(<<"reg">>) \in Seq(Items)
    <3>1. <<"reg">> \in KindLists
      BY WireKindsHas, Kinds1, Zenon
    <3> QED
      BY <3>1, PlainType, Zenon
  <2>3. Many(<<"const", "value">>) \in Seq(Items)
    BY WireKindsHas, ManyType, Zenon
  <2> QED
    BY <2>1, <2>2, <2>3, Joined, Zenon
<1>3. CASE op = "ObjectRest"
  <2>1. WrittenCounted(op) = Plain(<<"reg", "value">>) \o Many(<<"const">>)
    BY <1>3 DEF WrittenCounted
  <2>2. Plain(<<"reg", "value">>) \in Seq(Items)
    <3>1. <<"reg", "value">> \in KindLists
      BY WireKindsHas, Kinds2, Zenon
    <3> QED
      BY <3>1, PlainType, Zenon
  <2>3. Many(<<"const">>) \in Seq(Items)
    BY WireKindsHas, ManyType, Zenon
  <2> QED
    BY <2>1, <2>2, <2>3, Joined, Zenon
<1>4. CASE op \in {"Call", "New"}
  <2>1. WrittenCounted(op) = Plain(<<"reg", "value">>) \o Many(<<"value">>)
    BY <1>4 DEF WrittenCounted
  <2>2. Plain(<<"reg", "value">>) \in Seq(Items)
    <3>1. <<"reg", "value">> \in KindLists
      BY WireKindsHas, Kinds2, Zenon
    <3> QED
      BY <3>1, PlainType, Zenon
  <2>3. Many(<<"value">>) \in Seq(Items)
    BY WireKindsHas, ManyType, Zenon
  <2> QED
    BY <2>1, <2>2, <2>3, Joined, Zenon
<1> QED
  BY <1>1, <1>2, <1>3, <1>4 DEF Short, ImmediateLoads, Counted

LEMMA WrittenCallsType ==
    ASSUME NEW op \in MemberForms \cup CallForms
    PROVE  WrittenCalls(op) \in Seq(Items)
<1>1. CASE op = "MemberConst"
  <2>1. WrittenCalls(op) = Plain(<<"reg", "value", "const">>)
    BY <1>1 DEF WrittenCalls
  <2>2. Plain(<<"reg", "value", "const">>) \in Seq(Items)
    <3>1. <<"reg", "value", "const">> \in KindLists
      BY WireKindsHas, Kinds3, Zenon
    <3> QED
      BY <3>1, PlainType, Zenon
  <2> QED
    BY <2>1, <2>2, Zenon
<1>2. CASE op = "StoreMemberConst"
  <2>1. WrittenCalls(op) = Plain(<<"value", "const", "value">>)
    BY <1>2 DEF WrittenCalls
  <2>2. Plain(<<"value", "const", "value">>) \in Seq(Items)
    <3>1. <<"value", "const", "value">> \in KindLists
      BY WireKindsHas, Kinds3, Zenon
    <3> QED
      BY <3>1, PlainType, Zenon
  <2> QED
    BY <2>1, <2>2, Zenon
<1>3. CASE op = "CallZero"
  <2>1. WrittenCalls(op) = Plain(<<"reg", "value">>) \o Implied(0)
    BY <1>3 DEF WrittenCalls
  <2>2. Plain(<<"reg", "value">>) \in Seq(Items)
    <3>1. <<"reg", "value">> \in KindLists
      BY WireKindsHas, Kinds2, Zenon
    <3> QED
      BY <3>1, PlainType, Zenon
  <2>3. Implied(0) \in Seq(Items)
    <3>1. 0 \in Nat
      OBVIOUS
    <3> QED
      BY <3>1, PiecesType, Zenon
  <2> QED
    BY <2>1, <2>2, <2>3, Joined, Zenon
<1>4. CASE op = "CallOne"
  <2>1. WrittenCalls(op) = Plain(<<"reg", "value">>) \o Implied(1) \o Plain(<<"value">>)
    BY <1>4 DEF WrittenCalls
  <2>2. Plain(<<"reg", "value">>) \in Seq(Items)
    <3>1. <<"reg", "value">> \in KindLists
      BY WireKindsHas, Kinds2, Zenon
    <3> QED
      BY <3>1, PlainType, Zenon
  <2>3. Implied(1) \in Seq(Items)
    <3>1. 1 \in Nat
      OBVIOUS
    <3> QED
      BY <3>1, PiecesType, Zenon
  <2>4. Plain(<<"value">>) \in Seq(Items)
    <3>1. <<"value">> \in KindLists
      BY WireKindsHas, Kinds1, Zenon
    <3> QED
      BY <3>1, PlainType, Zenon
  <2>5. Plain(<<"reg", "value">>) \o Implied(1) \in Seq(Items)
    BY <2>2, <2>3, Joined, Zenon
  <2> QED
    BY <2>1, <2>4, <2>5, Joined, Zenon
<1>5. CASE op = "CallTwo"
  <2>1. WrittenCalls(op) = Plain(<<"reg", "value">>) \o Implied(2) \o Plain(<<"value", "value">>)
    BY <1>5 DEF WrittenCalls
  <2>2. Plain(<<"reg", "value">>) \in Seq(Items)
    <3>1. <<"reg", "value">> \in KindLists
      BY WireKindsHas, Kinds2, Zenon
    <3> QED
      BY <3>1, PlainType, Zenon
  <2>3. Implied(2) \in Seq(Items)
    <3>1. 2 \in Nat
      OBVIOUS
    <3> QED
      BY <3>1, PiecesType, Zenon
  <2>4. Plain(<<"value", "value">>) \in Seq(Items)
    <3>1. <<"value", "value">> \in KindLists
      BY WireKindsHas, Kinds2, Zenon
    <3> QED
      BY <3>1, PlainType, Zenon
  <2>5. Plain(<<"reg", "value">>) \o Implied(2) \in Seq(Items)
    BY <2>2, <2>3, Joined, Zenon
  <2> QED
    BY <2>1, <2>4, <2>5, Joined, Zenon
<1> QED
  BY <1>1, <1>2, <1>3, <1>4, <1>5 DEF Short, ImmediateLoads, Counted, MemberForms, CallForms

LEMMA WrittenBodiesType ==
    ASSUME NEW op \in Bodies
    PROVE  WrittenBodies(op) \in Seq(Items)
<1>1. CASE op = "Template"
  <2>1. WrittenBodies(op) = Plain(<<"reg">>) \o Many(<<"const">>) \o Many(<<"value">>)
    BY <1>1 DEF WrittenBodies
  <2>2. Plain(<<"reg">>) \in Seq(Items)
    <3>1. <<"reg">> \in KindLists
      BY WireKindsHas, Kinds1, Zenon
    <3> QED
      BY <3>1, PlainType, Zenon
  <2>3. Many(<<"const">>) \in Seq(Items)
    BY WireKindsHas, ManyType, Zenon
  <2>4. Many(<<"value">>) \in Seq(Items)
    BY WireKindsHas, ManyType, Zenon
  <2>5. Plain(<<"reg">>) \o Many(<<"const">>) \in Seq(Items)
    BY <2>2, <2>3, Joined, Zenon
  <2> QED
    BY <2>1, <2>4, <2>5, Joined, Zenon
<1>2. CASE op = "FunctionStart"
  <2>1. WrittenBodies(op) = Plain(<<"fn">>)
    BY <1>2 DEF WrittenBodies
  <2>2. Plain(<<"fn">>) \in Seq(Items)
    <3>1. <<"fn">> \in KindLists
      BY WireKindsHas, Kinds1, Zenon
    <3> QED
      BY <3>1, PlainType, Zenon
  <2> QED
    BY <2>1, <2>2, Zenon
<1>3. CASE op = "FunctionExprStart"
  <2>1. WrittenBodies(op) = Plain(<<"reg", "fn">>)
    BY <1>3 DEF WrittenBodies
  <2>2. Plain(<<"reg", "fn">>) \in Seq(Items)
    <3>1. <<"reg", "fn">> \in KindLists
      BY WireKindsHas, Kinds2, Zenon
    <3> QED
      BY <3>1, PlainType, Zenon
  <2> QED
    BY <2>1, <2>2, Zenon
<1> QED
  BY <1>1, <1>2, <1>3 DEF Short, ImmediateLoads, Counted, MemberForms, CallForms, Bodies

LEMMA WrittenExportsType ==
    ASSUME NEW op \in Exports
    PROVE  WrittenExports(op) \in Seq(Items)
<1>1. CASE op = "Class"
  <2>1. WrittenExports(op) = Plain(<<"optreg", "optname", "optvalue">>) \o Many(<<"const">>)
    BY <1>1 DEF WrittenExports
  <2>2. Plain(<<"optreg", "optname", "optvalue">>) \in Seq(Items)
    <3>1. <<"optreg", "optname", "optvalue">> \in KindLists
      BY WireKindsHas, Kinds3, Zenon
    <3> QED
      BY <3>1, PlainType, Zenon
  <2>3. Many(<<"const">>) \in Seq(Items)
    BY WireKindsHas, ManyType, Zenon
  <2> QED
    BY <2>1, <2>2, <2>3, Joined, Zenon
<1>2. CASE op = "Import"
  <2>1. WrittenExports(op) = Plain(<<"const">>) \o Many(<<"const">>)
    BY <1>2 DEF WrittenExports
  <2>2. Plain(<<"const">>) \in Seq(Items)
    <3>1. <<"const">> \in KindLists
      BY WireKindsHas, Kinds1, Zenon
    <3> QED
      BY <3>1, PlainType, Zenon
  <2>3. Many(<<"const">>) \in Seq(Items)
    BY WireKindsHas, ManyType, Zenon
  <2> QED
    BY <2>1, <2>2, <2>3, Joined, Zenon
<1>3. CASE op = "Export"
  <2>1. WrittenExports(op) = Plain(<<"const">>) \o Many(<<"const", "value">>)
    BY <1>3 DEF WrittenExports
  <2>2. Plain(<<"const">>) \in Seq(Items)
    <3>1. <<"const">> \in KindLists
      BY WireKindsHas, Kinds1, Zenon
    <3> QED
      BY <3>1, PlainType, Zenon
  <2>3. Many(<<"const", "value">>) \in Seq(Items)
    BY WireKindsHas, ManyType, Zenon
  <2> QED
    BY <2>1, <2>2, <2>3, Joined, Zenon
<1> QED
  BY <1>1, <1>2, <1>3 DEF Short, ImmediateLoads, Counted, MemberForms, CallForms, Bodies, Exports

\* No operation belongs to two groups.
LEMMA GroupsAreApart ==
    ASSUME NEW op
    PROVE  /\ op \in Short =>
                /\ op \notin Counted /\ op \notin {"ObjectRest"} /\ op \notin MemberForms
                /\ op \notin CallForms /\ op \notin Bodies /\ op \notin Exports
           /\ op \in Counted =>
                /\ op \notin Short /\ op \notin {"ObjectRest"} /\ op \notin MemberForms
                /\ op \notin CallForms /\ op \notin Bodies /\ op \notin Exports
           /\ op \in {"ObjectRest"} =>
                /\ op \notin Short /\ op \notin Counted /\ op \notin MemberForms
                /\ op \notin CallForms /\ op \notin Bodies /\ op \notin Exports
           /\ op \in MemberForms =>
                /\ op \notin Short /\ op \notin Counted /\ op \notin {"ObjectRest"}
                /\ op \notin CallForms /\ op \notin Bodies /\ op \notin Exports
           /\ op \in CallForms =>
                /\ op \notin Short /\ op \notin Counted /\ op \notin {"ObjectRest"}
                /\ op \notin MemberForms /\ op \notin Bodies /\ op \notin Exports
           /\ op \in Bodies =>
                /\ op \notin Short /\ op \notin Counted /\ op \notin {"ObjectRest"}
                /\ op \notin MemberForms /\ op \notin CallForms /\ op \notin Exports
           /\ op \in Exports =>
                /\ op \notin Short /\ op \notin Counted /\ op \notin {"ObjectRest"}
                /\ op \notin MemberForms /\ op \notin CallForms /\ op \notin Bodies
<1> USE DEF Short, ImmediateLoads, Counted, MemberForms, CallForms, Bodies, Exports
<1>1. op \in Short =>
                /\ op \notin Counted /\ op \notin {"ObjectRest"} /\ op \notin MemberForms
                /\ op \notin CallForms /\ op \notin Bodies /\ op \notin Exports
  OBVIOUS
<1>2. op \in Counted =>
                /\ op \notin Short /\ op \notin {"ObjectRest"} /\ op \notin MemberForms
                /\ op \notin CallForms /\ op \notin Bodies /\ op \notin Exports
  OBVIOUS
<1>3. op \in {"ObjectRest"} =>
                /\ op \notin Short /\ op \notin Counted /\ op \notin MemberForms
                /\ op \notin CallForms /\ op \notin Bodies /\ op \notin Exports
  OBVIOUS
<1>4. op \in MemberForms =>
                /\ op \notin Short /\ op \notin Counted /\ op \notin {"ObjectRest"}
                /\ op \notin CallForms /\ op \notin Bodies /\ op \notin Exports
  OBVIOUS
<1>5. op \in CallForms =>
                /\ op \notin Short /\ op \notin Counted /\ op \notin {"ObjectRest"}
                /\ op \notin MemberForms /\ op \notin Bodies /\ op \notin Exports
  OBVIOUS
<1>6. op \in Bodies =>
                /\ op \notin Short /\ op \notin Counted /\ op \notin {"ObjectRest"}
                /\ op \notin MemberForms /\ op \notin CallForms /\ op \notin Exports
  OBVIOUS
<1>7. op \in Exports =>
                /\ op \notin Short /\ op \notin Counted /\ op \notin {"ObjectRest"}
                /\ op \notin MemberForms /\ op \notin CallForms /\ op \notin Bodies
  OBVIOUS
<1> QED
  BY <1>1, <1>2, <1>3, <1>4, <1>5, <1>6, <1>7, Zenon

\* The layout of every operation is one.
LEMMA LayoutType ==
    ASSUME NEW op
    PROVE  WrittenLayout(op) \in Seq(Items)
<1>1. CASE op \in Short
  <2>1. WrittenLayout(op) = WrittenShort(op)
    BY <1>1, GroupsAreApart DEF WrittenLayout
  <2> QED
    BY <1>1, <2>1, WrittenShortType
<1>2. CASE op \in Counted \cup {"ObjectRest"}
  <2>1. WrittenLayout(op) = WrittenCounted(op)
    BY <1>2, GroupsAreApart DEF WrittenLayout
  <2> QED
    BY <1>2, <2>1, WrittenCountedType
<1>3. CASE op \in MemberForms \cup CallForms
  <2>1. WrittenLayout(op) = WrittenCalls(op)
    BY <1>3, GroupsAreApart DEF WrittenLayout
  <2> QED
    BY <1>3, <2>1, WrittenCallsType
<1>4. CASE op \in Bodies
  <2>1. WrittenLayout(op) = WrittenBodies(op)
    BY <1>4, GroupsAreApart DEF WrittenLayout
  <2> QED
    BY <1>4, <2>1, WrittenBodiesType
<1>5. CASE op \in Exports
  <2>1. WrittenLayout(op) = WrittenExports(op)
    BY <1>5, GroupsAreApart DEF WrittenLayout
  <2> QED
    BY <1>5, <2>1, WrittenExportsType
<1>6. CASE /\ op \notin Short /\ op \notin Counted \cup {"ObjectRest"}
           /\ op \notin MemberForms \cup CallForms /\ op \notin Bodies /\ op \notin Exports
  <2>1. WrittenLayout(op) = Plain(FixedSchema(op))
    BY <1>6 DEF WrittenLayout
  <2> QED
    BY <2>1, FixedSchemaType, PlainType
<1> QED
  BY <1>1, <1>2, <1>3, <1>4, <1>5, <1>6

\* The profile and the reader go through the operands of an operation by the layout of
\* the writer: profile_instruction_operands and read_instruction_operands branch on the
\* operation as write_instruction_operands does.
THEOREM LayoutsAgree ==
    ASSUME NEW op
    PROVE  /\ ProfiledLayout(op) = WrittenLayout(op)
           /\ ReadLayout(op) = WrittenLayout(op)
<1>1. CASE op \in Short
  <2>1. ProfiledShort(op) = WrittenShort(op) /\ ReadShort(op) = WrittenShort(op)
    BY DEF ProfiledShort, ReadShort, WrittenShort
  <2> QED
    BY <1>1, <2>1, GroupsAreApart DEF WrittenLayout, ProfiledLayout, ReadLayout
<1>2. CASE op \in Counted
  <2>1. /\ op \notin Short /\ op # "ObjectRest" /\ op \notin MemberForms /\ op \notin CallForms
        /\ op \notin Bodies /\ op \notin Exports
    BY <1>2, GroupsAreApart
  <2>2. op \in {"Array", "Object", "Call", "New"}
    BY <1>2 DEF Counted
  <2>3. ProfiledCounted(op) = WrittenCounted(op)
    BY <2>2 DEF ProfiledCounted, WrittenCounted
  <2>4. ReadCounted(op) = WrittenCounted(op)
    BY DEF ReadCounted, WrittenCounted
  <2> QED
    BY <1>2, <2>1, <2>3, <2>4 DEF WrittenLayout, ProfiledLayout, ReadLayout
<1>3. CASE op = "ObjectRest"
  <2>1. /\ op \notin Short /\ op \notin Counted /\ op \notin MemberForms /\ op \notin CallForms
        /\ op \notin Bodies /\ op \notin Exports
    BY <1>3, GroupsAreApart
  <2>2. ProfiledExports(op) = WrittenCounted(op)
    BY <1>3 DEF ProfiledExports, WrittenCounted
  <2>3. ReadCounted(op) = WrittenCounted(op)
    BY DEF ReadCounted, WrittenCounted
  <2> QED
    BY <1>3, <2>1, <2>2, <2>3 DEF WrittenLayout, ProfiledLayout, ReadLayout
<1>4. CASE op \in MemberForms
  <2>1. /\ op \notin Short /\ op \notin Counted \cup {"ObjectRest"} /\ op \notin Bodies
        /\ op \notin Exports
    BY <1>4, GroupsAreApart
  <2>2. op \notin CallForms
    BY <1>4 DEF MemberForms, CallForms
  <2>3. ProfiledCalls(op) = WrittenCalls(op)
    BY DEF ProfiledCalls, WrittenCalls
  <2>4. WrittenCalls(op) = Plain(FixedSchema(op))
    BY <1>4 DEF MemberForms, WrittenCalls, FixedSchema
  <2>5. WrittenLayout(op) = WrittenCalls(op)
    BY <1>4, <2>1 DEF WrittenLayout
  <2>6. ProfiledLayout(op) = ProfiledCalls(op)
    BY <1>4, <2>1 DEF ProfiledLayout
  <2>7. ReadLayout(op) = Plain(FixedSchema(op))
    BY <2>1, <2>2 DEF ReadLayout
  <2> QED
    BY <2>3, <2>4, <2>5, <2>6, <2>7
<1>5. CASE op \in CallForms
  <2>1. /\ op \notin Short /\ op \notin Counted /\ op # "ObjectRest" /\ op \notin MemberForms
        /\ op \notin Bodies /\ op \notin Exports
    BY <1>5, GroupsAreApart
  <2>3. ProfiledCalls(op) = WrittenCalls(op)
    BY DEF ProfiledCalls, WrittenCalls
  <2>4. ReadRest(op) = WrittenCalls(op)
    BY <1>5 DEF CallForms, WrittenCalls, ReadRest
  <2>5. WrittenLayout(op) = WrittenCalls(op)
    BY <1>5, <2>1 DEF WrittenLayout
  <2>6. ProfiledLayout(op) = ProfiledCalls(op)
    BY <1>5, <2>1 DEF ProfiledLayout
  <2>7. ReadLayout(op) = ReadRest(op)
    BY <1>5, <2>1 DEF ReadLayout
  <2> QED
    BY <2>3, <2>4, <2>5, <2>6, <2>7
<1>6. CASE op \in Bodies
  <2>1. /\ op \notin Short /\ op \notin Counted \cup {"ObjectRest"}
        /\ op \notin MemberForms /\ op \notin CallForms /\ op \notin Exports
    BY <1>6, GroupsAreApart
  <2>3. ProfiledBodies(op) = WrittenBodies(op)
    BY DEF ProfiledBodies, WrittenBodies
  <2>4. ReadRest(op) = WrittenBodies(op)
    BY <1>6 DEF Bodies, WrittenBodies, ReadRest
  <2>5. WrittenLayout(op) = WrittenBodies(op)
    BY <1>6, <2>1 DEF WrittenLayout
  <2>6. ProfiledLayout(op) = ProfiledBodies(op)
    BY <1>6, <2>1 DEF ProfiledLayout
  <2>7. ReadLayout(op) = ReadRest(op)
    BY <1>6, <2>1 DEF ReadLayout
  <2> QED
    BY <2>3, <2>4, <2>5, <2>6, <2>7
<1>7. CASE op \in Exports
  <2>1. /\ op \notin Short /\ op \notin Counted \cup {"ObjectRest"}
        /\ op \notin MemberForms \cup CallForms /\ op \notin Bodies
    BY <1>7, GroupsAreApart
  <2>3. ProfiledExports(op) = WrittenExports(op)
    BY <1>7 DEF Exports, ProfiledExports, WrittenExports
  <2>4. ReadRest(op) = WrittenExports(op)
    BY <1>7 DEF Exports, WrittenExports, ReadRest
  <2>5. WrittenLayout(op) = WrittenExports(op)
    BY <1>7, <2>1 DEF WrittenLayout
  <2>6. ProfiledLayout(op) = ProfiledExports(op)
    BY <1>7, <2>1 DEF ProfiledLayout
  <2>7. ReadLayout(op) = ReadRest(op)
    BY <1>7, <2>1 DEF ReadLayout
  <2> QED
    BY <2>3, <2>4, <2>5, <2>6, <2>7
<1>8. CASE /\ op \notin Short /\ op \notin Counted /\ op # "ObjectRest" /\ op \notin MemberForms
           /\ op \notin CallForms /\ op \notin Bodies /\ op \notin Exports
  BY <1>8 DEF WrittenLayout, ProfiledLayout, ReadLayout
<1> QED
  BY <1>1, <1>2, <1>3, <1>4, <1>5, <1>6, <1>7, <1>8

-----------------------------------------------------------------------------
(* Writing.                                                                *)

\* What is written so far, with the sizes of its parts, while all operands are allowed.
IsWriter(w) ==
    /\ w.ok \in BOOLEAN
    /\ w.ok = TRUE =>
        /\ w \in [bytes : Seq(Byte), sizes : Seq(Nat), next : Nat \ {0}, ok : BOOLEAN]
        /\ Len(w.bytes) = Total(w.sizes)

\* The writer, from item to item: the sizes add up to the bytes written.
LEMMA WriterStarts == IsWriter(NothingWritten)
<1>1. <<>> \in Seq(Byte) /\ <<>> \in Seq(Nat) /\ Len(<<>>) = 0 /\ 1 \in Nat \ {0} /\ TRUE \in BOOLEAN
  OBVIOUS
<1> QED
  BY <1>1, TotalEmpty DEF IsWriter, NothingWritten

\* A writer with one more part.
LEMMA WriterGoesOn ==
    ASSUME NEW w, w.ok = TRUE, IsWriter(w), NEW b \in Seq(Byte), NEW s \in Seq(Nat),
           Len(b) = Total(s), NEW n \in Nat \ {0}, NEW ok \in BOOLEAN
    PROVE  IsWriter([bytes |-> w.bytes \o b, sizes |-> w.sizes \o s, next |-> n, ok |-> ok])
<1>1. /\ w.bytes \in Seq(Byte) /\ w.sizes \in Seq(Nat) /\ Len(w.bytes) = Total(w.sizes)
  BY DEF IsWriter
<1>2. PICK wb \in Seq(Byte) : wb = w.bytes
  BY <1>1
<1>3. PICK ws \in Seq(Nat) : ws = w.sizes
  BY <1>1
<1>4. wb \o b \in Seq(Byte) /\ Len(wb \o b) = Len(wb) + Len(b)
  BY ConcatProperties
<1>5. ws \o s \in Seq(Nat)
  BY ConcatProperties
<1>6. Total(ws \o s) = Total(ws) + Total(s)
  BY TotalConcat
<1>7. PICK cb \in Seq(Byte) : cb = wb \o b
  BY <1>4
<1>8. PICK cs \in Seq(Nat) : cs = ws \o s
  BY <1>5
<1>9. Len(cb) = Total(cs)
  BY <1>1, <1>2, <1>3, <1>4, <1>6, <1>7, <1>8
<1>10. IsWriter([bytes |-> cb, sizes |-> cs, next |-> n, ok |-> ok])
  BY <1>9 DEF IsWriter
<1> QED
  BY <1>2, <1>3, <1>7, <1>8, <1>10, Zenon

LEMMA WriterFails ==
    ASSUME NEW w, w.ok = TRUE, IsWriter(w)
    PROVE  IsWriter([w EXCEPT !.ok = FALSE])
BY DEF IsWriter

LEMMA WriterMoves ==
    ASSUME NEW w, w.ok = TRUE, IsWriter(w), NEW b \in Seq(Byte), NEW s \in Seq(Nat),
           Len(b) = Total(s), NEW n \in Nat \ {0}, NEW ok \in BOOLEAN
    PROVE  /\ IsWriter([w EXCEPT !.bytes = b, !.sizes = s, !.next = n])
           /\ IsWriter([w EXCEPT !.next = n, !.bytes = b, !.sizes = s])
           /\ IsWriter([w EXCEPT !.next = n, !.ok = ok])
<1>1. PICK wb \in Seq(Byte), ws \in Seq(Nat), wn \in Nat \ {0} :
            w = [bytes |-> wb, sizes |-> ws, next |-> wn, ok |-> TRUE] /\ Len(wb) = Total(ws)
  BY DEF IsWriter
<1>2. [w EXCEPT !.bytes = b, !.sizes = s, !.next = n] = [bytes |-> b, sizes |-> s, next |-> n, ok |-> TRUE]
  <2>1. PICK v : v = [w EXCEPT !.bytes = b, !.sizes = s, !.next = n]
    OBVIOUS
  <2>2. v.bytes = b /\ v.sizes = s /\ v.next = n /\ v.ok = TRUE
    BY <1>1, <2>1
  <2>3. DOMAIN v = {"bytes", "sizes", "next", "ok"} /\ v = [x \in DOMAIN v |-> v[x]]
    BY <1>1, <2>1
  <2>4. v = [x \in {"bytes", "sizes", "next", "ok"} |-> v[x]]
    BY <2>3, Zenon
  <2>5. v = [bytes |-> v.bytes, sizes |-> v.sizes, next |-> v.next, ok |-> v.ok]
    BY <2>4
  <2> QED
    BY <2>1, <2>2, <2>5, Zenon
<1>3. [w EXCEPT !.next = n, !.bytes = b, !.sizes = s] = [bytes |-> b, sizes |-> s, next |-> n, ok |-> TRUE]
  <2>1. PICK v : v = [w EXCEPT !.next = n, !.bytes = b, !.sizes = s]
    OBVIOUS
  <2>2. v.bytes = b /\ v.sizes = s /\ v.next = n /\ v.ok = TRUE
    BY <1>1, <2>1
  <2>3. DOMAIN v = {"bytes", "sizes", "next", "ok"} /\ v = [x \in DOMAIN v |-> v[x]]
    BY <1>1, <2>1
  <2>4. v = [x \in {"bytes", "sizes", "next", "ok"} |-> v[x]]
    BY <2>3, Zenon
  <2>5. v = [bytes |-> v.bytes, sizes |-> v.sizes, next |-> v.next, ok |-> v.ok]
    BY <2>4
  <2> QED
    BY <2>1, <2>2, <2>5, Zenon
<1>4. [w EXCEPT !.next = n, !.ok = ok] = [bytes |-> wb, sizes |-> ws, next |-> n, ok |-> ok]
  <2>1. PICK v : v = [w EXCEPT !.next = n, !.ok = ok]
    OBVIOUS
  <2>2. v.bytes = wb /\ v.sizes = ws /\ v.next = n /\ v.ok = ok
    BY <1>1, <2>1
  <2>3. DOMAIN v = {"bytes", "sizes", "next", "ok"} /\ v = [x \in DOMAIN v |-> v[x]]
    BY <1>1, <2>1
  <2> QED
    BY <2>1, <2>2, <2>3
<1>5. ASSUME NEW p \in Seq(Byte), NEW q \in Seq(Nat), Len(p) = Total(q), NEW t \in BOOLEAN
      PROVE  IsWriter([bytes |-> p, sizes |-> q, next |-> n, ok |-> t])
  BY <1>5 DEF IsWriter
<1>6. IsWriter([bytes |-> b, sizes |-> s, next |-> n, ok |-> TRUE])
  BY <1>5
<1>7. IsWriter([bytes |-> wb, sizes |-> ws, next |-> n, ok |-> ok])
  BY <1>1, <1>5
<1> QED
  BY <1>2, <1>3, <1>4, <1>6, <1>7, Zenon

LEMMA OperandsWritten ==
    ASSUME NEW w, w.ok = TRUE, IsWriter(w), NEW args \in Seq(BytecodeOperand), NEW kinds, NEW n \in Nat,
           n = Len(kinds), DOMAIN kinds = 1..n, NEW tags, IsTagTable(tags)
    PROVE  IsWriter(WriteOperands(w, args, kinds, tags))
<1> DEFINE Arg(k) == args[w.next + k - 1]
           bs == [k \in DOMAIN kinds |-> OperandBytes(Arg(k), kinds[k], tags)]
           ss == [k \in DOMAIN kinds |-> OperandLength(Arg(k), kinds[k])]
           ok == \A k \in DOMAIN kinds : IsOfKind(Arg(k), kinds[k])
<1>0. PICK next \in Nat \ {0} : next = w.next
  BY DEF IsWriter
<1>1. CASE next + n - 1 > Len(args)
  <2>1. WriteOperands(w, args, kinds, tags) = [w EXCEPT !.ok = FALSE]
    BY <1>0, <1>1, Zenon DEF WriteOperands
  <2> QED
    BY <2>1, WriterFails
<1>2. CASE ~(next + n - 1 > Len(args))
  <2>1. PICK r : r = WriteOperands(w, args, kinds, tags)
    OBVIOUS
  <2>2. r = [bytes |-> w.bytes \o FlattenSeq(bs), sizes |-> w.sizes \o ss, next |-> w.next + n,
             ok |-> w.ok /\ ok]
    BY <1>0, <1>2, <2>1, Zenon DEF WriteOperands
  <2>3. PICK good \in BOOLEAN : good = (w.ok /\ ok)
    OBVIOUS
  <2>4. CASE good = FALSE
    <3>1. r = [bytes |-> w.bytes \o FlattenSeq(bs), sizes |-> w.sizes \o ss, next |-> w.next + n,
               ok |-> good]
      BY <2>2, <2>3, Zenon
    <3> HIDE DEF bs, ss, ok, Arg
    <3>2. r.ok = FALSE
      BY <2>4, <3>1
    <3> QED
      BY <2>1, <3>2 DEF IsWriter
  <2>5. CASE good = TRUE
    <3>1. \A k \in 1..n : IsOfKind(Arg(k), kinds[k])
      BY <2>3, <2>5
    <3>2. ASSUME NEW k \in 1..n
          PROVE  /\ bs[k] \in Seq(Byte) /\ ss[k] \in Nat /\ Len(bs[k]) = ss[k]
      <4>1. Arg(k) \in BytecodeOperand
        <5>1. next + k - 1 \in 1..Len(args)
          BY <1>2
        <5> QED
          BY <1>0, <5>1
      <4>2. PICK o \in OperandKinds \X Nat : o = Arg(k)
        BY <4>1 DEF BytecodeOperand
      <4>3. PICK kind : kind = kinds[k]
        OBVIOUS
      <4>4. IsOfKind(o, kind)
        BY <3>1, <4>2, <4>3
      <4>5. bs[k] = OperandBytes(o, kind, tags) /\ ss[k] = OperandLength(o, kind)
        BY <4>2, <4>3
      <4> QED
        BY <4>4, <4>5, OperandBytesType
    <3>3. PICK b \in Seq(Seq(Byte)) : b = bs
      <4>1. bs \in [1..n -> Seq(Byte)]
        BY <3>2
      <4> HIDE DEF bs, ss
      <4> QED
        BY <4>1
    <3>4. PICK s \in Seq(Nat) : s = ss
      <4>1. ss \in [1..n -> Nat]
        BY <3>2
      <4> HIDE DEF bs, ss
      <4> QED
        BY <4>1
    <3>5. Sizes(b) = s
      <4>1. Sizes(b) = [k \in DOMAIN b |-> Len(b[k])]
        BY DEF Sizes
      <4>2. DOMAIN b = 1..n
        BY <3>3
      <4>3. ss = [k \in 1..n |-> ss[k]]
        OBVIOUS
      <4>4. \A k \in 1..n : Len(b[k]) = ss[k]
        BY <3>2, <3>3
      <4> HIDE DEF ss, bs
      <4> QED
        BY <3>4, <4>1, <4>2, <4>3, <4>4
    <3>6. FlattenSeq(b) \in Seq(Byte) /\ Len(FlattenSeq(b)) = Total(s)
      BY <3>5, Flatten
    <3>7. next + n \in Nat \ {0}
      OBVIOUS
    <3>8. PICK p \in Nat \ {0} : p = next + n
      BY <3>7
    <3>9. PICK f \in Seq(Byte) : f = FlattenSeq(b)
      BY <3>6
    <3>10. IsWriter([bytes |-> w.bytes \o f, sizes |-> w.sizes \o s, next |-> p, ok |-> good])
      BY <3>6, <3>9, WriterGoesOn
    <3>11. r = [bytes |-> w.bytes \o f, sizes |-> w.sizes \o s, next |-> p, ok |-> good]
      BY <1>0, <2>2, <2>3, <3>3, <3>4, <3>8, <3>9, Zenon
    <3> QED
      BY <2>1, <3>10, <3>11, Zenon
  <2> QED
    BY <2>3, <2>4, <2>5
<1> QED
  BY <1>1, <1>2

LEMMA PairWritten ==
    ASSUME NEW w, w.ok = TRUE, IsWriter(w), NEW args \in Seq(BytecodeOperand), NEW kinds
    PROVE  IsWriter(WritePair(w, args, kinds))
<1>0. PICK next \in Nat \ {0} : next = w.next
  BY DEF IsWriter
<1>1. \/ WritePair(w, args, kinds) = [w EXCEPT !.ok = FALSE]
      \/ /\ next + 1 <= Len(args) /\ Fits4(Number(args[next])) /\ Fits4(Number(args[next + 1]))
         /\ WritePair(w, args, kinds) =
                [w EXCEPT !.bytes = Append(@, 16 * Number(args[next]) + Number(args[next + 1])),
                          !.sizes = Append(@, 1), !.next = @ + 2]
  BY <1>0, Zenon DEF WritePair
<1>2. CASE WritePair(w, args, kinds) = [w EXCEPT !.ok = FALSE]
  BY <1>2, WriterFails
<1>3. CASE /\ next + 1 <= Len(args) /\ Fits4(Number(args[next])) /\ Fits4(Number(args[next + 1]))
           /\ WritePair(w, args, kinds) =
                [w EXCEPT !.bytes = Append(@, 16 * Number(args[next]) + Number(args[next + 1])),
                          !.sizes = Append(@, 1), !.next = @ + 2]
  <2>1. args[next] \in OperandKinds \X Nat /\ args[next + 1] \in OperandKinds \X Nat
    <3>1. next \in 1..Len(args) /\ next + 1 \in 1..Len(args)
      BY <1>3
    <3> QED
      BY <3>1 DEF BytecodeOperand
  <2>2. PICK n \in Nat, m \in Nat : n = Number(args[next]) /\ m = Number(args[next + 1])
    BY <2>1 DEF Number
  <2>3. n < 16 /\ m < 16
    BY <1>3, <2>2 DEF Fits4
  <2>4. PICK b \in Byte : b = 16 * n + m
    <3>1. 16 * n + m \in Byte
      BY <2>3 DEF Byte
    <3> QED
      BY <3>1
  <2>5. PICK wb \in Seq(Byte), ws \in Seq(Nat) : wb = w.bytes /\ ws = w.sizes
    BY DEF IsWriter
  <2>6. Append(wb, b) \in Seq(Byte) /\ Len(Append(wb, b)) = Len(wb) + 1
    OBVIOUS
  <2>7. Append(ws, 1) \in Seq(Nat) /\ Total(Append(ws, 1)) = Total(ws) + 1
    BY TotalAppend
  <2>8. PICK wb2 \in Seq(Byte), ws2 \in Seq(Nat) : wb2 = Append(wb, b) /\ ws2 = Append(ws, 1)
    BY <2>6, <2>7
  <2>9. Len(wb2) = Total(ws2)
    BY <2>5, <2>6, <2>7, <2>8 DEF IsWriter
  <2>10. PICK p \in Nat \ {0} : p = next + 2
    <3>1. next + 2 \in Nat \ {0}
      OBVIOUS
    <3> QED
      BY <3>1
  <2>11. WritePair(w, args, kinds) = [w EXCEPT !.bytes = wb2, !.sizes = ws2, !.next = p]
    BY <1>0, <1>3, <2>2, <2>4, <2>5, <2>8, <2>10
  <2>12. IsWriter([w EXCEPT !.bytes = wb2, !.sizes = ws2, !.next = p])
    BY <2>9, WriterMoves
  <2> QED
    BY <2>11, <2>12, Zenon
<1> QED
  BY <1>1, <1>2, <1>3

LEMMA RepeatedType ==
    ASSUME NEW kinds \in KindLists, NEW n \in Nat
    PROVE  /\ Repeated(kinds, n) \in KindLists
           /\ n * Len(kinds) \in Nat /\ Len(Repeated(kinds, n)) = n * Len(kinds)
           /\ n > 0 /\ Len(kinds) > 0 => Len(Repeated(kinds, n)) >= n
<1>1. PICK l \in Nat : l = Len(kinds) /\ DOMAIN kinds = 1..l
  BY DEF KindLists
<1>2. n * l \in Nat
  OBVIOUS
<1>3. PICK m \in Nat : m = n * l
  BY <1>2
<1>4. ASSUME NEW j \in 1..m
      PROVE  kinds[((j - 1) % l) + 1] \in WireKinds
  <2>1. l # 0
    BY <1>3, <1>4
  <2>2. ((j - 1) % l) + 1 \in 1..l
    BY <2>1
  <2> QED
    BY <1>1, <2>2 DEF KindLists
<1>5. PICK r : r = Repeated(kinds, n)
  OBVIOUS
<1>6. r = [j \in 1..m |-> kinds[((j - 1) % l) + 1]]
  BY <1>1, <1>3, <1>5 DEF Repeated
<1>7. r \in [1..m -> WireKinds]
  BY <1>4, <1>6
<1>8. r \in Seq(WireKinds) /\ Len(r) = m
  BY <1>7
<1>9. n > 0 /\ l > 0 => m >= n
  BY <1>3
<1> QED
  BY <1>1, <1>2, <1>3, <1>5, <1>8, <1>9 DEF KindLists

\* A constant without the sign of a zero is a constant, and has no sign to lose.
LEMMA UnsignedKeeps ==
    ASSUME NEW c \in BytecodeConstant
    PROVE  Unsigned(c) \in BytecodeConstant /\ Unsigned(Unsigned(c)) = Unsigned(c)
<1>1. IntegerOf(0) \in BytecodeConstant
  <2>1. Zigzag(0) = 0 /\ U32(0)
    BY DEF Zigzag, U32
  <2>2. PICK zero \in Seq(Int) : zero = <<0>> /\ Len(zero) = 1 /\ zero[1] = 0
    <3>1. PICK n \in Int : n = 0
      OBVIOUS
    <3>2. <<n>> \in Seq(Int) /\ Len(<<n>>) = 1 /\ <<n>>[1] = n
      OBVIOUS
    <3> QED
      BY <3>1, <3>2
  <2>3. PICK d : d = IntegerOf(0) /\ d = [type |-> "integer", v |-> zero]
    BY <2>2, Zenon DEF IntegerOf, Const
  <2>4. d \in [type : ConstantTypes, v : Seq(Int)] /\ d.type = "integer" /\ d.v = zero
    BY <2>3 DEF ConstantTypes
  <2>5. U32(Zigzag(d.v[1])) /\ Len(d.v) = 1
    BY <2>1, <2>2, <2>4
  <2> QED
    BY <2>3, <2>4, <2>5 DEF BytecodeConstant
<1>2. IntegerOf(0) # NegativeZero
  <2>1. IntegerOf(0).type = "integer" /\ NegativeZero.type = "double"
    BY DEF IntegerOf, NegativeZero, Const
  <2> QED
    BY <2>1
<1>3. PICK z : z = IntegerOf(0)
  OBVIOUS
<1>4. Unsigned(c) = (IF c = NegativeZero THEN z ELSE c) /\ Unsigned(z) = z
  BY <1>2, <1>3, Zenon DEF Unsigned
<1>5. CASE c = NegativeZero
  BY <1>1, <1>3, <1>4, <1>5
<1>6. CASE c # NegativeZero
  <2>1. Unsigned(c) = c
    BY <1>4, <1>6
  <2> QED
    BY <2>1
<1> QED
  BY <1>5, <1>6

\* One item, whichever it is.
LEMMA ItemWritten ==
    ASSUME NEW w, w.ok = TRUE, IsWriter(w), NEW args \in Seq(BytecodeOperand),
           NEW constants \in Seq(BytecodeConstant), NEW item \in Items, NEW tags, IsTagTable(tags)
    PROVE  IsWriter(WriteItem(w, args, constants, item, tags))
<1> DEFINE W == WriteItem(w, args, constants, item, tags)
<1>0. PICK next \in Nat \ {0} : next = w.next
  BY DEF IsWriter
<1>1. CASE item.item \in {"many", "implied", "const", "small"} /\ next > Len(args)
  <2>1. W = [w EXCEPT !.ok = FALSE]
    BY <1>0, <1>1, Zenon DEF WriteItem
  <2> QED
    BY <2>1, WriterFails
<1>2. CASE item.item = "one"
  <2>1. W = WriteOperands(w, args, item.kinds, tags)
    BY <1>2 DEF WriteItem
  <2>2. PICK kinds \in KindLists : kinds = item.kinds
    BY <1>2 DEF Items
  <2>3. PICK n \in Nat : n = Len(kinds) /\ DOMAIN kinds = 1..n
    BY DEF KindLists
  <2> QED
    BY <2>1, <2>2, <2>3, OperandsWritten
<1>3. CASE item.item = "pair"
  <2>1. W = WritePair(w, args, item.kinds)
    BY <1>3 DEF WriteItem
  <2> QED
    BY <2>1, PairWritten
<1>4. CASE item.item \in {"many", "implied", "const", "small"} /\ ~(next > Len(args))
  <2>1. PICK here \in OperandKinds \X Nat : here = args[next]
    <3>1. next \in 1..Len(args)
      BY <1>4
    <3> QED
      BY <3>1 DEF BytecodeOperand
  <2>2. PICK number \in Nat : number = Number(here)
    BY DEF Number
  <2>3. CASE item.item = "many"
    <3>1. W = WriteOperands(w, args, <<"count">> \o Repeated(item.kinds, number), tags)
      BY <1>0, <1>4, <2>1, <2>2, <2>3 DEF WriteItem
    <3>2. PICK kinds \in KindLists : kinds = item.kinds
      BY <2>3 DEF Items
    <3>3. PICK tail \in KindLists : tail = Repeated(kinds, number)
      BY RepeatedType
    <3>4. PICK head \in KindLists : head = <<"count">>
      <4>1. <<"count">> \in KindLists
        BY WireKindsHas, Kinds1, Zenon
      <4> QED
        BY <4>1, Zenon
    <3>5. head \o tail \in KindLists
      BY ConcatProperties DEF KindLists
    <3>6. PICK all \in KindLists : all = head \o tail
      BY <3>5
    <3>7. PICK n \in Nat : n = Len(all) /\ DOMAIN all = 1..n
      BY DEF KindLists
    <3>8. IsWriter(WriteOperands(w, args, all, tags))
      BY <3>7, OperandsWritten
    <3> QED
      BY <3>1, <3>2, <3>3, <3>4, <3>6, <3>8, Zenon
  <2>4. CASE item.item = "implied"
    <3>1. PICK good \in BOOLEAN : good = (w.ok /\ here = Operand("count", item.n))
      OBVIOUS
    <3>2. W = [w EXCEPT !.next = @ + 1, !.ok = @ /\ here = Operand("count", item.n)]
      BY <1>0, <1>4, <2>1, <2>4 DEF WriteItem
    <3>3. W = [w EXCEPT !.next = next + 1, !.ok = good]
      BY <1>0, <3>1, <3>2, Zenon
    <3>4. next + 1 \in Nat \ {0}
      OBVIOUS
    <3>5. PICK p \in Nat \ {0} : p = next + 1
      BY <3>4
    <3>6. W = [w EXCEPT !.next = p, !.ok = good]
      BY <3>3, <3>5, Zenon
    <3> HIDE DEF W
    <3>7. IsWriter(W)
      BY <3>6, WriterMoves, TotalEmpty, EmptySeq
    <3> QED
      BY <3>7 DEF W
  <2>5. CASE item.item = "const"
    <3>1. PICK good \in BOOLEAN :
            good = (w.ok /\ here[1] = "const" /\ HasConstant(constants, Number(here))
                    /\ ConstantAt(constants, Number(here)) = item.c)
      OBVIOUS
    <3>2. W = [w EXCEPT !.next = @ + 1,
                        !.ok = @ /\ here[1] = "const" /\ HasConstant(constants, Number(here))
                                 /\ ConstantAt(constants, Number(here)) = item.c]
      BY <1>0, <1>4, <2>1, <2>5 DEF WriteItem
    <3>3. W = [w EXCEPT !.next = next + 1, !.ok = good]
      BY <1>0, <3>1, <3>2, Zenon
    <3>4. next + 1 \in Nat \ {0}
      OBVIOUS
    <3>5. PICK p \in Nat \ {0} : p = next + 1
      BY <3>4
    <3>6. W = [w EXCEPT !.next = p, !.ok = good]
      BY <3>3, <3>5, Zenon
    <3> HIDE DEF W
    <3>7. IsWriter(W)
      BY <3>6, WriterMoves, TotalEmpty, EmptySeq
    <3> QED
      BY <3>7 DEF W
  <2>6. CASE item.item = "small"
    <3> DEFINE c == Unsigned(ConstantAt(constants, Number(here)))
    <3>1. CASE ~(here[1] = "const" /\ HasConstant(constants, Number(here)) /\ IsSmall(c))
      <4>1. W = [w EXCEPT !.ok = FALSE]
        BY <1>0, <1>4, <2>1, <2>6, <3>1 DEF WriteItem
      <4>2. IsWriter([w EXCEPT !.ok = FALSE])
        BY <1>0, WriterFails
      <4> QED
        BY <4>1, <4>2, Zenon
    <3>2. CASE here[1] = "const" /\ HasConstant(constants, Number(here)) /\ IsSmall(c)
      <4>1. W = [w EXCEPT !.next = @ + 1, !.bytes = @ \o Varint[Zigzag(c.v[1])],
                          !.sizes = Append(@, VarintLength[Zigzag(c.v[1])])]
        BY <1>0, <1>4, <2>1, <2>6, <3>2 DEF WriteItem
      <4>2. c \in BytecodeConstant
        <5>1. ConstantAt(constants, Number(here)) \in BytecodeConstant
          BY <3>2 DEF HasConstant, ConstantAt
        <5> QED
          BY <5>1, UnsignedKeeps
      <4>3. PICK z \in Nat : z = Zigzag(c.v[1])
        <5>1. U32(Zigzag(c.v[1]))
          BY <3>2, <4>2 DEF BytecodeConstant, IsSmall
        <5> QED
          BY <5>1 DEF U32
      <4>4. PICK b \in Seq(Byte), l \in Nat : b = Varint[z] /\ l = VarintLength[z] /\ Len(b) = l
        BY VarintType
      <4>5. PICK wb \in Seq(Byte), ws \in Seq(Nat) : wb = w.bytes /\ ws = w.sizes
        BY DEF IsWriter
      <4>6. wb \o b \in Seq(Byte) /\ Len(wb \o b) = Len(wb) + Len(b)
        BY ConcatProperties
      <4>7. Append(ws, l) \in Seq(Nat) /\ Total(Append(ws, l)) = Total(ws) + l
        BY TotalAppend
      <4>8. PICK wb2 \in Seq(Byte), ws2 \in Seq(Nat) : wb2 = wb \o b /\ ws2 = Append(ws, l)
        BY <4>6, <4>7
      <4>9. Len(wb2) = Total(ws2)
        BY <4>4, <4>5, <4>6, <4>7, <4>8 DEF IsWriter
      <4> HIDE DEF c
      <4>10. W = [w EXCEPT !.next = next + 1, !.bytes = wb2, !.sizes = ws2]
        BY <1>0, <4>1, <4>3, <4>4, <4>5, <4>8
      <4>11. next + 1 \in Nat \ {0}
        OBVIOUS
      <4>12. PICK p \in Nat \ {0} : p = next + 1
        BY <4>11
      <4>13. W = [w EXCEPT !.next = p, !.bytes = wb2, !.sizes = ws2]
        BY <4>10, <4>12, Zenon
      <4> HIDE DEF W
      <4>14. IsWriter(W)
        BY <4>9, <4>13, WriterMoves
      <4> QED
        BY <4>14 DEF W
    <3> QED
      BY <3>1, <3>2
  <2> QED
    BY <1>4, <2>3, <2>4, <2>5, <2>6
<1>5. item.item \in {"one", "many", "pair", "implied", "const", "small"}
  BY DEF Items
<1> QED
  BY <1>1, <1>2, <1>3, <1>4, <1>5

\* Whatever the layout and the operands, what is written has the sizes it says.
LEMMA WrittenType ==
    ASSUME NEW layout \in Seq(Items), NEW args \in Seq(BytecodeOperand),
           NEW constants \in Seq(BytecodeConstant), NEW tags, IsTagTable(tags),
           Written(layout, args, constants, tags).ok = TRUE
    PROVE  /\ Written(layout, args, constants, tags).bytes \in Seq(Byte)
           /\ Written(layout, args, constants, tags).sizes \in Seq(Nat)
           /\ Len(Written(layout, args, constants, tags).bytes)
                = Total(Written(layout, args, constants, tags).sizes)
<1>1. PICK n \in Nat : n = Len(layout)
  OBVIOUS
<1>2. PICK f : f = WrittenUpto(layout, args, constants, tags)
  OBVIOUS
<1>3. /\ f[0] = NothingWritten
      /\ \A k \in 1..n : f[k] = WriteNext(f[k - 1], args, constants, layout[k], tags)
  <2>1. WrittenUpto(layout, args, constants, tags)[0] = NothingWritten
    BY <1>1, WrittenStep
  <2>2. \A k \in 1..n : WrittenUpto(layout, args, constants, tags)[k] =
                WriteNext(WrittenUpto(layout, args, constants, tags)[k - 1], args, constants, layout[k], tags)
    BY <1>1, WrittenStep
  <2> QED
    BY <1>2, <2>1, <2>2, Zenon
<1> DEFINE S == {k \in 0..n : IsWriter(f[k])}
<1>4. 0 \in S
  BY <1>3, WriterStarts
<1>5. ASSUME NEW k \in 0..(n - 1), k \in S
      PROVE  k + 1 \in S
  <2>1. f[k + 1] = WriteNext(f[k], args, constants, layout[k + 1], tags)
    <3>1. k + 1 \in 1..n /\ (k + 1) - 1 = k
      OBVIOUS
    <3> QED
      BY <1>3, <3>1
  <2>2. layout[k + 1] \in Items
    BY <1>1
  <2>3. PICK w : w = f[k]
    OBVIOUS
  <2>4. IsWriter(w)
    BY <1>5, <2>3
  <2>5. CASE w.ok = TRUE
    <3>1. f[k + 1] = WriteItem(w, args, constants, layout[k + 1], tags)
      BY <2>1, <2>3, <2>5 DEF WriteNext
    <3>2. IsWriter(f[k + 1])
      BY <2>2, <2>4, <2>5, <3>1, ItemWritten
    <3> QED
      BY <3>2
  <2>6. CASE w.ok = FALSE
    <3>1. f[k + 1] = w
      BY <2>1, <2>3, <2>6 DEF WriteNext
    <3> QED
      BY <2>4, <3>1
  <2>7. w.ok \in BOOLEAN
    BY <2>4 DEF IsWriter
  <2> QED
    BY <2>5, <2>6, <2>7
<1>6. IsWriter(f[n])
  <2> HIDE DEF S
  <2>1. 0..n \subseteq S
    BY <1>4, <1>5, UptoSet
  <2>2. n \in S
    BY <2>1
  <2> QED
    BY <2>2 DEF S
<1>7. PICK end : end = f[n]
  OBVIOUS
<1>8. PICK r : r = Written(layout, args, constants, tags)
  OBVIOUS
<1>9. r = [end EXCEPT !.ok = @ /\ end.next = Len(args) + 1]
  BY <1>1, <1>2, <1>7, <1>8, Zenon DEF Written
<1>10. end.ok \in BOOLEAN
  BY <1>6, <1>7 DEF IsWriter
<1>11. CASE end.ok = TRUE
  BY <1>6, <1>7, <1>8, <1>9, <1>11 DEF IsWriter
<1>12. CASE end.ok = FALSE
  <2>1. PICK good \in BOOLEAN : good = (end.ok /\ end.next = Len(args) + 1)
    OBVIOUS
  <2>2. good = FALSE
    BY <1>12, <2>1
  <2>3. r = [end EXCEPT !.ok = FALSE]
    BY <1>9, <2>1, <2>2, Zenon
  <2>4. r.ok = TRUE
    BY <1>8
  <2>5. r.ok = FALSE \/ r = end
    BY <2>3
  <2> QED
    BY <1>12, <2>4, <2>5
<1> QED
  BY <1>10, <1>11, <1>12

-----------------------------------------------------------------------------
(* Instructions.                                                           *)

SpecialOps ==
    {"LoadLocalSmall", "LoadLocal", "StoreLocalSmall", "StoreLocal", "LoadUndefined", "LoadNull",
     "LoadTrue", "LoadFalse", "LoadIntSmall", "LoadConstConst", "MemberConst",
     "StoreMemberConst", "PopReg", "CallZero", "CallOne", "CallTwo", "ReturnReg", "ReturnConst",
     "JumpIfFalseReg", "BinaryRegReg", "BinaryRegConst"}

\* Every operation that is written has a code.
LEMMA SpecialOpsType == SpecialOps \subseteq Range(Ops)
<1>1. \A n \in 1..76 : Ops[n] \in Range(Ops)
  <2>1. DOMAIN Ops = 1..76
    BY DEF Ops
  <2> QED
    BY <2>1 DEF Range
<1>2. /\ Ops[34] = "LoadConstConst" /\ Ops[35] = "PopReg" /\ Ops[36] = "CallOne"
      /\ Ops[39] = "LoadLocal" /\ Ops[40] = "StoreLocal" /\ Ops[41] = "LoadUndefined"
      /\ Ops[42] = "LoadNull" /\ Ops[43] = "LoadTrue" /\ Ops[44] = "LoadFalse"
      /\ Ops[45] = "LoadIntSmall" /\ Ops[46] = "MemberConst" /\ Ops[47] = "StoreMemberConst"
      /\ Ops[48] = "CallZero" /\ Ops[49] = "CallTwo" /\ Ops[50] = "ReturnReg"
      /\ Ops[51] = "ReturnConst" /\ Ops[52] = "JumpIfFalseReg" /\ Ops[53] = "BinaryRegReg"
      /\ Ops[54] = "BinaryRegConst" /\ Ops[55] = "LoadLocalSmall" /\ Ops[56] = "StoreLocalSmall"
  BY DEF Ops
<1>3. \A op \in SpecialOps : \E n \in 1..76 : Ops[n] = op
  BY <1>2 DEF SpecialOps
<1> QED
  BY <1>1, <1>3

LEMMA LoadOfType == ASSUME NEW c PROVE LoadOf(c) \in SpecialOps
BY DEF LoadOf, SpecialOps

LEMMA WireOpType ==
    ASSUME NEW i, i.op \in Range(Ops), NEW constants
    PROVE  WireOp(i, constants) \in Range(Ops)
<1> DEFINE kinds == Kinds(i)
           small == Fits4(Number(i.args[1])) /\ Fits4(Number(i.args[2]))
           count == IF Len(i.args) >= 3 THEN i.args[3] ELSE None
<1>1. \/ WireOp(i, constants) = i.op
      \/ WireOp(i, constants) \in SpecialOps
  BY LoadOfType DEF WireOp, SpecialOps
<1> QED
  BY <1>1, SpecialOpsType

\* A code for every operation, kind and type.
IsEncoding(e) ==
    /\ \A op \in Range(Ops) : e.opcodes[op] \in Byte
    /\ IsTagTable(e.tags)
    /\ \A type \in Range(ConstantTags) : e.types[type] \in Byte
    /\ e.key \in Nat

LEMMA CodesType ==
    ASSUME NEW names, NEW n \in Nat, n <= 256, DOMAIN names = 1..n, NEW name \in Range(names)
    PROVE  Codes(names)[name] \in Byte
<1>1. \E k \in DOMAIN names : names[k] = name
  BY DEF Range
<1>2. PICK p \in 1..n : p = CHOOSE k \in DOMAIN names : names[k] = name
  BY <1>1
<1>3. Codes(names)[name] = p - 1
  BY <1>2, Zenon DEF Codes, PlaceOf
<1> QED
  BY <1>3 DEF Byte

LEMMA NamesLengths == /\ Len(Ops) = 76 /\ DOMAIN Ops = 1..76
                      /\ Len(OperandTags) = 9 /\ DOMAIN OperandTags = 1..9
                      /\ Len(ConstantTags) = 6 /\ DOMAIN ConstantTags = 1..6
<1>1. Len(Ops) = 76 /\ DOMAIN Ops = 1..76
  BY DEF Ops
<1>2. Len(OperandTags) = 9 /\ DOMAIN OperandTags = 1..9
  BY DEF OperandTags
<1>3. Len(ConstantTags) = 6 /\ DOMAIN ConstantTags = 1..6
  BY DEF ConstantTags
<1> QED
  BY <1>1, <1>2, <1>3

LEMMA TagsType == ASSUME NEW kind \in OperandKinds PROVE TagOf(kind) \in Range(OperandTags)
<1>1. /\ OperandTags[1] = "reg" /\ OperandTags[2] = "const" /\ OperandTags[3] = "name"
      /\ OperandTags[4] = "slot" /\ OperandTags[5] = "extern" /\ OperandTags[6] = "label"
      /\ OperandTags[7] = "count" /\ OperandTags[8] = "none" /\ OperandTags[9] = "fn"
  BY DEF OperandTags
<1>2. \E n \in 1..9 : OperandTags[n] = TagOf(kind)
  BY <1>1 DEF TagOf, OperandKinds
<1> QED
  BY <1>2, NamesLengths DEF Range

\* Codes are bytes: the encoding of a valid configuration is one.
LEMMA EncodingType ==
    ASSUME NEW config \in ObfuscationConfig, Valid(config)
    PROVE  IsEncoding(EncodingOf(config))
<1>1. PICK e : e = EncodingOf(config)
  OBVIOUS
<1>2. /\ e.opcodes = Codes(config.opcodes) /\ e.tags = Codes(config.tags)
      /\ e.types = Codes(config.types) /\ e.key = config.key
  BY <1>1 DEF EncodingOf
<1>4. /\ config.opcodes \in Seq(Range(Ops)) /\ config.tags \in Seq(Range(OperandTags))
      /\ config.types \in Seq(Range(ConstantTags)) /\ config.key \in Nat
  BY DEF ObfuscationConfig
<1>5. /\ Reorders(config.opcodes, Ops) /\ Reorders(config.tags, OperandTags)
      /\ Reorders(config.types, ConstantTags)
  BY DEF Valid
<1>6. ASSUME NEW op \in Range(Ops)
      PROVE  Codes(config.opcodes)[op] \in Byte
  <2>1. PICK names \in Seq(Range(Ops)) : names = config.opcodes
    BY <1>4
  <2>2. Len(names) = 76 /\ Range(names) = Range(Ops)
    BY <1>5, <2>1, NamesLengths DEF Reorders
  <2>3. PICK l \in Nat : l = 76 /\ l <= 256
    OBVIOUS
  <2>4. DOMAIN names = 1..l
    BY <2>2, <2>3
  <2>5. op \in Range(names)
    BY <2>2
  <2>6. Codes(names)[op] \in Byte
    BY <2>3, <2>4, <2>5, CodesType
  <2> QED
    BY <2>1, <2>6, Zenon
<1>7. ASSUME NEW tag \in Range(OperandTags)
      PROVE  Codes(config.tags)[tag] \in Byte
  <2>1. PICK names \in Seq(Range(OperandTags)) : names = config.tags
    BY <1>4
  <2>2. Len(names) = 9 /\ Range(names) = Range(OperandTags)
    BY <1>5, <2>1, NamesLengths DEF Reorders
  <2>3. PICK l \in Nat : l = 9 /\ l <= 256
    OBVIOUS
  <2>4. DOMAIN names = 1..l
    BY <2>2, <2>3
  <2>5. tag \in Range(names)
    BY <2>2
  <2>6. Codes(names)[tag] \in Byte
    BY <2>3, <2>4, <2>5, CodesType
  <2> QED
    BY <2>1, <2>6, Zenon
<1>8. ASSUME NEW type \in Range(ConstantTags)
      PROVE  Codes(config.types)[type] \in Byte
  <2>1. PICK names \in Seq(Range(ConstantTags)) : names = config.types
    BY <1>4
  <2>2. Len(names) = 6 /\ Range(names) = Range(ConstantTags)
    BY <1>5, <2>1, NamesLengths DEF Reorders
  <2>3. PICK l \in Nat : l = 6 /\ l <= 256
    OBVIOUS
  <2>4. DOMAIN names = 1..l
    BY <2>2, <2>3
  <2>5. type \in Range(names)
    BY <2>2
  <2>6. Codes(names)[type] \in Byte
    BY <2>3, <2>4, <2>5, CodesType
  <2> QED
    BY <2>1, <2>6, Zenon
<1>9. IsTagTable(e.tags)
  BY <1>2, <1>7, TagsType DEF IsTagTable
<1>10. IsEncoding(e)
  BY <1>2, <1>4, <1>6, <1>8, <1>9 DEF IsEncoding
<1> QED
  BY <1>1, <1>10

\* The bytes of an instruction are one more than those of its operands.
LEMMA InstructionType ==
    ASSUME NEW i \in BytecodeInstruction, NEW constants \in Seq(BytecodeConstant), NEW e, IsEncoding(e),
           WriteInstruction(i, constants, e).ok = TRUE
    PROVE  /\ WriteInstruction(i, constants, e).bytes \in Seq(Byte)
           /\ ProfileInstruction(i, constants, e) \in Seq(Nat)
           /\ Len(WriteInstruction(i, constants, e).bytes) = 1 + Total(ProfileInstruction(i, constants, e))
<1>1. PICK op \in Range(Ops) : op = WireOp(i, constants)
  BY WireOpType DEF BytecodeInstruction
<1>2. PICK args \in Seq(BytecodeOperand) : args = i.args
  BY DEF BytecodeInstruction
<1>3. PICK layout \in Seq(Items) : layout = WrittenLayout(op) /\ layout = ProfiledLayout(op)
  BY LayoutType, LayoutsAgree
<1>4. PICK tags : tags = e.tags /\ IsTagTable(tags)
  BY DEF IsEncoding
<1>5. PICK w : w = Written(layout, args, constants, tags)
  OBVIOUS
<1>6. PICK b \in Byte : b = e.opcodes[op]
  BY DEF IsEncoding
<1>7. WriteInstruction(i, constants, e) = [ok |-> w.ok, bytes |-> <<b>> \o w.bytes]
  BY <1>1, <1>2, <1>3, <1>4, <1>5, <1>6, Zenon DEF WriteInstruction
<1>8. ProfileInstruction(i, constants, e) = w.sizes
  BY <1>1, <1>2, <1>3, <1>4, <1>5, Zenon DEF ProfileInstruction
<1>9. w.ok = TRUE
  BY <1>7
<1>10. w.bytes \in Seq(Byte) /\ w.sizes \in Seq(Nat) /\ Len(w.bytes) = Total(w.sizes)
  BY <1>4, <1>5, <1>9, WrittenType
<1>11. PICK wb \in Seq(Byte) : wb = w.bytes
  BY <1>10
<1>12. PICK head \in Seq(Byte) : head = <<b>> /\ Len(head) = 1
  <2>1. <<b>> \in Seq(Byte) /\ Len(<<b>>) = 1
    OBVIOUS
  <2> QED
    BY <2>1
<1>13. head \o wb \in Seq(Byte) /\ Len(head \o wb) = 1 + Len(wb)
  BY <1>12, ConcatProperties
<1>14. WriteInstruction(i, constants, e).bytes = head \o wb
  BY <1>7, <1>11, <1>12
<1> QED
  BY <1>8, <1>10, <1>11, <1>13, <1>14

-----------------------------------------------------------------------------
(* Modules.                                                                *)

LEMMA JoinedBytes ==
    ASSUME NEW a \in Seq(Byte), NEW b \in Seq(Byte)
    PROVE  a \o b \in Seq(Byte)
OBVIOUS

LEMMA OneByte == ASSUME NEW b \in Byte PROVE <<b>> \in Seq(Byte) /\ Len(<<b>>) = 1
OBVIOUS

\* Functions and constants are written as bytes.
LEMMA FunctionBytesType ==
    ASSUME NEW f \in BytecodeFunction, NEW e, IsEncoding(e)
    PROVE  FunctionBytes(f, e) \in Seq(Byte)
<1>1. PICK params \in Seq(BytecodeOperand) : params = f.params
  BY DEF BytecodeFunction
<1>2. PICK n \in Nat : n = Len(params) /\ DOMAIN params = 1..n
  OBVIOUS
<1> DEFINE ps == [k \in DOMAIN params |-> TaggedBytes(params[k], e.tags)]
<1>3. ASSUME NEW k \in 1..n
      PROVE  ps[k] \in Seq(Byte)
  <2>1. PICK o \in OperandKinds \X Nat : o = params[k]
    BY <1>2 DEF BytecodeOperand
  <2>2. TaggedBytes(o, e.tags) \in Seq(Byte)
    BY TaggedBytesType DEF IsEncoding
  <2> QED
    BY <1>2, <2>1, <2>2
<1>4. PICK p \in Seq(Seq(Byte)) : p = ps
  <2>1. ps \in [1..n -> Seq(Byte)]
    BY <1>2, <1>3
  <2> HIDE DEF ps
  <2> QED
    BY <2>1
<1>5. PICK p7 \in Seq(Byte) : p7 = FlattenSeq(p)
  BY Flatten
<1>6. PICK p1 \in Seq(Byte) : p1 = OptionalVarint(f.name)
  <2>1. f.name + 1 \in Nat
    BY DEF BytecodeFunction, U32
  <2> QED
    BY <2>1, VarintType DEF OptionalVarint
<1>7. PICK p2 \in Seq(Byte), p3 \in Seq(Byte), p4 \in Seq(Byte) :
            p2 = Varint[f.start] /\ p3 = Varint[f.end] /\ p4 = Varint[f.flags]
  <2>1. f.start \in Nat /\ f.end \in Nat /\ f.flags \in Nat
    BY DEF BytecodeFunction
  <2> QED
    BY <2>1, VarintType
<1>8. PICK p5 \in Seq(Byte) : p5 = Varint[n]
  BY VarintType
<1>9. PICK p6 \in Seq(Byte) : p6 = <<IF f.returns THEN 1 ELSE 0>>
  <2>1. PICK b \in Byte : b = IF f.returns THEN 1 ELSE 0
    <3>1. (IF f.returns THEN 1 ELSE 0) \in Byte
      BY DEF Byte
    <3> QED
      BY <3>1, Zenon
  <2>2. <<b>> \in Seq(Byte)
    BY OneByte
  <2> QED
    BY <2>1, <2>2, Zenon
<1>10. FunctionBytes(f, e) = p1 \o p2 \o p3 \o p4 \o p5 \o p6 \o p7
  BY <1>1, <1>2, <1>4, <1>5, <1>6, <1>7, <1>8, <1>9, Zenon DEF FunctionBytes
<1>11. p1 \o p2 \o p3 \in Seq(Byte)
  BY JoinedBytes
<1>12. p1 \o p2 \o p3 \o p4 \o p5 \in Seq(Byte)
  BY <1>11, JoinedBytes
<1>13. p1 \o p2 \o p3 \o p4 \o p5 \o p6 \o p7 \in Seq(Byte)
  BY <1>12, JoinedBytes
<1> QED
  BY <1>10, <1>13, Zenon

LEMMA TypeTagType == ASSUME NEW c \in BytecodeConstant PROVE TypeTag(c) \in Range(ConstantTags)
<1>1. /\ ConstantTags[1] = "number" /\ ConstantTags[2] = "string" /\ ConstantTags[3] = "bool"
      /\ ConstantTags[4] = "null" /\ ConstantTags[5] = "undefined" /\ ConstantTags[6] = "bigint"
  BY DEF ConstantTags
<1>2. c.type \in ConstantTypes
  BY DEF BytecodeConstant
<1>3. \E n \in 1..6 : ConstantTags[n] = TypeTag(c)
  BY <1>1, <1>2 DEF TypeTag, ConstantTypes
<1> QED
  BY <1>3, NamesLengths DEF Range

LEMMA ConstantBytesType ==
    ASSUME NEW c \in BytecodeConstant, NEW index \in Nat, NEW e, IsEncoding(e)
    PROVE  ConstantBytes(c, index, e) \in Seq(Byte)
<1>1. PICK tag \in Seq(Byte) : tag = <<e.types[TypeTag(c)]>>
  <2>1. PICK b \in Byte : b = e.types[TypeTag(c)]
    BY TypeTagType DEF IsEncoding
  <2>2. <<b>> \in Seq(Byte)
    BY OneByte
  <2> QED
    BY <2>1, <2>2, Zenon
<1>2. c.type \in ConstantTypes /\ c.v \in Seq(Int)
  BY DEF BytecodeConstant
<1>3. CASE c.type = "integer"
  <2>1. TypeTag(c) = "number"
    BY <1>3 DEF TypeTag
  <2>2. PICK z \in Nat : z = Zigzag(c.v[1])
    <3>1. U32(Zigzag(c.v[1]))
      BY <1>3 DEF BytecodeConstant
    <3> QED
      BY <3>1 DEF U32
  <2>3. PICK b \in Seq(Byte) : b = Varint[z]
    BY VarintType
  <2>4. PICK zero \in Seq(Byte) : zero = <<0>>
    <3>1. <<0>> \in Seq(Byte)
      BY DEF Byte
    <3> QED
      BY <3>1, Zenon
  <2>5. ConstantBytes(c, index, e) = tag \o (zero \o b)
    <3>1. NumberBytes(c) = zero \o b
      BY <1>3, <2>2, <2>3, <2>4, Zenon DEF NumberBytes
    <3>2. ConstantBytes(c, index, e) = tag \o NumberBytes(c)
      BY <1>1, <1>3, <2>1 DEF ConstantBytes
    <3> QED
      BY <3>1, <3>2, Zenon
  <2>6. zero \o b \in Seq(Byte)
    BY JoinedBytes
  <2>7. tag \o (zero \o b) \in Seq(Byte)
    BY <2>6, JoinedBytes
  <2> QED
    BY <2>5, <2>7, Zenon
<1>4. CASE c.type = "double"
  <2>1. TypeTag(c) = "number"
    BY <1>4 DEF TypeTag
  <2>2. PICK v \in Seq(Byte) : v = c.v
    BY <1>4 DEF BytecodeConstant
  <2>3. PICK one \in Seq(Byte) : one = <<1>>
    <3>1. <<1>> \in Seq(Byte)
      BY DEF Byte
    <3> QED
      BY <3>1, Zenon
  <2>4. c.type # "integer"
    BY <1>4
  <2>5. ConstantBytes(c, index, e) = tag \o (one \o v)
    <3>1. NumberBytes(c) = one \o v
      BY <2>2, <2>3, <2>4, Zenon DEF NumberBytes
    <3>2. ConstantBytes(c, index, e) = tag \o NumberBytes(c)
      BY <1>1, <1>4, <2>1 DEF ConstantBytes
    <3> QED
      BY <3>1, <3>2, Zenon
  <2>6. one \o v \in Seq(Byte)
    BY JoinedBytes
  <2>7. tag \o (one \o v) \in Seq(Byte)
    BY <2>6, JoinedBytes
  <2> QED
    BY <2>5, <2>7, Zenon
<1>5. CASE c.type \in {"string", "bigint"}
  <2>1. TypeTag(c) # "number"
    BY <1>5 DEF TypeTag
  <2>2. PICK v \in Seq(Byte) : v = c.v
    BY <1>5 DEF BytecodeConstant
  <2>3. PICK b \in Seq(Byte) : b = StringBytes(v, e.key, ConstantDomain, index)
    BY StringType DEF IsEncoding, ConstantDomain
  <2>4. ConstantBytes(c, index, e) = tag \o b
    BY <1>1, <1>5, <2>1, <2>2, <2>3 DEF ConstantBytes
  <2>5. tag \o b \in Seq(Byte)
    BY JoinedBytes
  <2> QED
    BY <2>4, <2>5, Zenon
<1>6. CASE c.type = "bool"
  <2>1. TypeTag(c) # "number"
    BY <1>6 DEF TypeTag
  <2>2. PICK v \in Seq(Byte) : v = c.v
    <3>1. c \in {Bool(TRUE), Bool(FALSE)}
      BY <1>6 DEF BytecodeConstant
    <3>2. c.v = <<1>> \/ c.v = <<0>>
      BY <3>1 DEF Bool, Const
    <3>3. <<1>> \in Seq(Byte) /\ <<0>> \in Seq(Byte)
      BY DEF Byte
    <3> QED
      BY <3>2, <3>3
  <2>4. ConstantBytes(c, index, e) = tag \o v
    BY <1>1, <1>6, <2>1, <2>2 DEF ConstantBytes
  <2>5. tag \o v \in Seq(Byte)
    BY JoinedBytes
  <2> QED
    BY <2>4, <2>5, Zenon
<1>7. CASE c.type \in {"null", "undefined"}
  <2>1. TypeTag(c) # "number"
    BY <1>7 DEF TypeTag
  <2>2. PICK v \in Seq(Byte) : v = <<>>
    <3>1. <<>> \in Seq(Byte)
      OBVIOUS
    <3> QED
      BY <3>1, Zenon
  <2>4. ConstantBytes(c, index, e) = tag \o v
    BY <1>1, <1>7, <2>1, <2>2 DEF ConstantBytes
  <2>5. tag \o v \in Seq(Byte)
    BY JoinedBytes
  <2> QED
    BY <2>4, <2>5, Zenon
<1> QED
  BY <1>2, <1>3, <1>4, <1>5, <1>6, <1>7 DEF ConstantTypes

\* A list with its length before it.
LEMMA ListedType ==
    ASSUME NEW items \in Seq(Seq(Byte))
    PROVE  /\ Listed(items) \in Seq(Byte)
           /\ Len(Listed(items)) = VarintLength[Len(items)] + Total(Sizes(items))
<1>1. PICK n \in Nat : n = Len(items)
  OBVIOUS
<1>2. PICK b \in Seq(Byte) : b = Varint[n] /\ Len(b) = VarintLength[n]
  BY VarintType
<1>3. PICK f \in Seq(Byte) : f = FlattenSeq(items) /\ Len(f) = Total(Sizes(items))
  BY Flatten
<1>4. Listed(items) = b \o f
  BY <1>1, <1>2, <1>3, Zenon DEF Listed
<1>5. b \o f \in Seq(Byte) /\ Len(b \o f) = Len(b) + Len(f)
  BY ConcatProperties
<1> QED
  BY <1>1, <1>2, <1>3, <1>4, <1>5

\* The parts of the head, and how long they are together.
LEMMA HeadType ==
    ASSUME NEW m \in BytecodeModule, NEW e, IsEncoding(e)
    PROVE  HeadBytes(m, e) \in Seq(Seq(Byte))
<1>1. /\ m.kind \in {0, 1} /\ m.externs \in Nat /\ m.names \in Seq(Seq(Byte))
      /\ m.functions \in Seq(BytecodeFunction) /\ m.constants \in Seq(BytecodeConstant)
  BY DEF BytecodeModule
<1>2. PICK p1 \in Seq(Byte) : p1 = Magic
  <2>1. <<74, 83>> \in Seq(Byte)
    BY DEF Byte
  <2> QED
    BY <2>1, Zenon DEF Magic
<1>3. PICK p2 \in Seq(Byte) : p2 = <<m.kind>>
  <2>1. m.kind \in Byte
    BY <1>1 DEF Byte
  <2> QED
    BY <2>1, OneByte
<1>4. PICK p3 \in Seq(Byte) : p3 = Varint[m.externs]
  BY <1>1, VarintType
<1>5. PICK p4 \in Seq(Byte) :
            p4 = Listed([i \in DOMAIN m.names |-> StringBytes(m.names[i], e.key, NameDomain, i - 1)])
  <2>1. PICK names \in Seq(Seq(Byte)) : names = m.names
    BY <1>1
  <2>2. PICK n \in Nat : n = Len(names) /\ DOMAIN names = 1..n
    OBVIOUS
  <2> DEFINE s == [i \in DOMAIN names |-> StringBytes(names[i], e.key, NameDomain, i - 1)]
  <2>3. ASSUME NEW i \in 1..n
        PROVE  StringBytes(names[i], e.key, NameDomain, i - 1) \in Seq(Byte)
    <3>1. i - 1 \in Nat /\ names[i] \in Seq(Byte) /\ NameDomain \in Nat /\ e.key \in Nat
      BY <2>2 DEF NameDomain, IsEncoding
    <3> QED
      BY <3>1, StringType
  <2>4. PICK t \in Seq(Seq(Byte)) : t = s
    <3>1. s \in [1..n -> Seq(Byte)]
      BY <2>2, <2>3
    <3> HIDE DEF s
    <3> QED
      BY <3>1
  <2>5. Listed(t) \in Seq(Byte)
    BY ListedType
  <2> QED
    BY <2>1, <2>4, <2>5, Zenon
<1>6. PICK p5 \in Seq(Byte) : p5 = Listed([i \in DOMAIN m.functions |-> FunctionBytes(m.functions[i], e)])
  <2>1. PICK fs \in Seq(BytecodeFunction) : fs = m.functions
    BY <1>1
  <2>2. PICK n \in Nat : n = Len(fs) /\ DOMAIN fs = 1..n
    OBVIOUS
  <2> DEFINE s == [i \in DOMAIN fs |-> FunctionBytes(fs[i], e)]
  <2>3. ASSUME NEW i \in 1..n
        PROVE  FunctionBytes(fs[i], e) \in Seq(Byte)
    <3>1. fs[i] \in BytecodeFunction
      BY <2>2
    <3> QED
      BY <3>1, FunctionBytesType
  <2>4. PICK t \in Seq(Seq(Byte)) : t = s
    <3>1. s \in [1..n -> Seq(Byte)]
      BY <2>2, <2>3
    <3> HIDE DEF s
    <3> QED
      BY <3>1
  <2>5. Listed(t) \in Seq(Byte)
    BY ListedType
  <2> QED
    BY <2>1, <2>4, <2>5, Zenon
<1>7. PICK p6 \in Seq(Byte) :
            p6 = Listed([i \in DOMAIN m.constants |-> ConstantBytes(m.constants[i], i - 1, e)])
  <2>1. PICK cs \in Seq(BytecodeConstant) : cs = m.constants
    BY <1>1
  <2>2. PICK n \in Nat : n = Len(cs) /\ DOMAIN cs = 1..n
    OBVIOUS
  <2> DEFINE s == [i \in DOMAIN cs |-> ConstantBytes(cs[i], i - 1, e)]
  <2>3. ASSUME NEW i \in 1..n
        PROVE  ConstantBytes(cs[i], i - 1, e) \in Seq(Byte)
    <3>1. cs[i] \in BytecodeConstant /\ i - 1 \in Nat
      BY <2>2
    <3> QED
      BY <3>1, ConstantBytesType
  <2>4. PICK t \in Seq(Seq(Byte)) : t = s
    <3>1. s \in [1..n -> Seq(Byte)]
      BY <2>2, <2>3
    <3> HIDE DEF s
    <3> QED
      BY <3>1
  <2>5. Listed(t) \in Seq(Byte)
    BY ListedType
  <2> QED
    BY <2>1, <2>4, <2>5, Zenon
<1>8. HeadBytes(m, e) = <<p1, p2, p3, p4, p5, p6>>
  BY <1>2, <1>3, <1>4, <1>5, <1>6, <1>7, Zenon DEF HeadBytes
<1>9. <<p1, p2, p3, p4, p5, p6>> \in Seq(Seq(Byte))
  <2>1. ASSUME NEW S, NEW a \in S, NEW b \in S, NEW c \in S, NEW d \in S, NEW f \in S, NEW g \in S
        PROVE  <<a, b, c, d, f, g>> \in Seq(S)
    OBVIOUS
  <2> QED
    BY <2>1, Zenon
<1> QED
  BY <1>8, <1>9, Zenon

\* Each instruction has the size that the profile gives to it.
LEMMA CodeType ==
    ASSUME NEW m \in BytecodeModule, NEW e, IsEncoding(e), IsWritable(m, e)
    PROVE  /\ CodeBytes(m, e) \in Seq(Seq(Byte)) /\ Len(CodeBytes(m, e)) = Len(m.code)
           /\ \A k \in DOMAIN m.code :
                /\ ProfileInstruction(m.code[k], m.constants, e) \in Seq(Nat)
                /\ Sizes(CodeBytes(m, e))[k] = 1 + Total(ProfileInstruction(m.code[k], m.constants, e))
<1>1. PICK code \in Seq(BytecodeInstruction) : code = m.code
  BY DEF BytecodeModule
<1>2. PICK constants \in Seq(BytecodeConstant) : constants = m.constants
  BY DEF BytecodeModule
<1>3. PICK n \in Nat : n = Len(code) /\ DOMAIN code = 1..n
  OBVIOUS
<1>4. ASSUME NEW k \in 1..n
      PROVE  /\ WriteInstruction(code[k], constants, e).bytes \in Seq(Byte)
             /\ ProfileInstruction(code[k], constants, e) \in Seq(Nat)
             /\ Len(WriteInstruction(code[k], constants, e).bytes)
                    = 1 + Total(ProfileInstruction(code[k], constants, e))
  <2>1. code[k] \in BytecodeInstruction
    BY <1>3
  <2>2. WriteInstruction(code[k], constants, e).ok = TRUE
    BY <1>1, <1>2, <1>3, Zenon DEF IsWritable
  <2> QED
    BY <2>1, <2>2, InstructionType
<1> DEFINE s == [k \in DOMAIN code |-> WriteInstruction(code[k], constants, e).bytes]
<1>5. CodeBytes(m, e) = s
  BY <1>1, <1>2, Zenon DEF CodeBytes
<1>6. s \in [1..n -> Seq(Byte)]
  BY <1>3, <1>4
<1>7. \A k \in 1..n : s[k] = WriteInstruction(code[k], constants, e).bytes
  BY <1>3
<1> HIDE DEF s
<1>8. PICK t \in Seq(Seq(Byte)) : t = s /\ Len(t) = n
  BY <1>6
<1>9. \A k \in 1..n : Sizes(t)[k] = 1 + Total(ProfileInstruction(code[k], constants, e))
  <2>1. \A k \in 1..n : Sizes(t)[k] = Len(t[k])
    BY <1>8, SizesType
  <2> QED
    BY <1>4, <1>7, <1>8, <2>1
<1> QED
  BY <1>1, <1>2, <1>3, <1>4, <1>5, <1>8, <1>9

\* A module is written as bytes, and the profile's sections add up to them.
LEMMA ModuleType ==
    ASSUME NEW m \in BytecodeModule, NEW e, IsEncoding(e), IsWritable(m, e)
    PROVE  /\ ModuleBytes(m, e) \in Seq(Byte)
           /\ Len(ModuleBytes(m, e)) = Total(Sizes(HeadBytes(m, e)))
                    + VarintLength[Len(m.code)] + Total(Sizes(CodeBytes(m, e)))
           /\ Profile(m, e).sections \in Seq(Nat)
           /\ Total(Profile(m, e).sections) = Len(ModuleBytes(m, e))
<1>1. PICK head \in Seq(Seq(Byte)) : head = HeadBytes(m, e)
  BY HeadType
<1>2. PICK code \in Seq(Seq(Byte)) : code = CodeBytes(m, e) /\ Len(code) = Len(m.code)
  BY CodeType
<1>3. PICK hs \in Seq(Nat), cs \in Seq(Nat) : hs = Sizes(head) /\ cs = Sizes(code)
  BY SizesType
<1>4. PICK hb \in Seq(Byte) : hb = FlattenSeq(head) /\ Len(hb) = Total(hs)
  BY <1>3, Flatten
<1>5. PICK l \in Nat : l = Len(code)
  OBVIOUS
<1>6. PICK v \in Nat : v = VarintLength[l]
  BY VarintType
<1>7. PICK ct \in Nat : ct = Total(cs)
  BY TotalType
<1>8. PICK cb \in Seq(Byte) : cb = Listed(code) /\ Len(cb) = v + ct
  BY <1>3, <1>5, <1>6, <1>7, ListedType
<1>9. ModuleBytes(m, e) = hb \o cb
  BY <1>1, <1>2, <1>4, <1>8, Zenon DEF ModuleBytes
<1>10. hb \o cb \in Seq(Byte) /\ Len(hb \o cb) = Len(hb) + Len(cb)
  BY ConcatProperties
<1>11. PICK x \in Nat : x = v + ct
  <2>1. v + ct \in Nat
    OBVIOUS
  <2> QED
    BY <2>1
<1>12. PICK last \in Seq(Nat) : last = <<x>>
  <2>1. <<x>> \in Seq(Nat)
    OBVIOUS
  <2> QED
    BY <2>1
<1>13. Profile(m, e).sections = hs \o last
  <2>1. PICK ops : ops = [k \in DOMAIN m.code |-> ProfileInstruction(m.code[k], m.constants, e)]
    OBVIOUS
  <2>2. PICK sections : sections = hs \o last
    OBVIOUS
  <2>3. Profile(m, e) = [sections |-> sections, opcodes |-> cs, operands |-> ops]
    BY <1>1, <1>2, <1>3, <1>5, <1>6, <1>7, <1>11, <1>12, <2>1, <2>2, Zenon DEF Profile
  <2>4. Profile(m, e).sections = sections
    BY <2>3
  <2> QED
    BY <2>2, <2>4, Zenon
<1>14. hs \o last \in Seq(Nat) /\ Total(hs \o last) = Total(hs) + Total(last)
  BY TotalConcat, ConcatProperties
<1>15. Total(last) = x
  BY <1>12, TotalOne
<1>16. PICK ht \in Nat : ht = Total(hs)
  BY TotalType
<1>17. Len(ModuleBytes(m, e)) = ht + v + ct
  BY <1>4, <1>8, <1>9, <1>10, <1>16
<1>18. Total(Profile(m, e).sections) = ht + x
  BY <1>13, <1>14, <1>15, <1>16
<1>19. ModuleBytes(m, e) \in Seq(Byte) /\ Profile(m, e).sections \in Seq(Nat)
  BY <1>9, <1>10, <1>13, <1>14, Zenon
<1>20. /\ Total(Sizes(HeadBytes(m, e))) = ht /\ VarintLength[Len(m.code)] = v
       /\ Total(Sizes(CodeBytes(m, e))) = ct
  BY <1>1, <1>2, <1>3, <1>5, <1>6, <1>7, <1>16, Zenon
<1>21. ht + v + ct = ht + x
  BY <1>11
<1> QED
  BY <1>17, <1>18, <1>19, <1>20, <1>21, Zenon

-----------------------------------------------------------------------------
(* Reading.                                                                *)

IsList(s) == \E S : s \in Seq(S)

\* A list remains one.
LEMMA ListGrows ==
    ASSUME NEW s, IsList(s), NEW v
    PROVE  IsList(Append(s, v)) /\ Len(s) \in Nat
<1>1. PICK S : s \in Seq(S)
  BY DEF IsList
<1>2. s \in Seq(S \cup {v}) /\ Len(s) \in Nat
  BY <1>1
<1>3. Append(s, v) \in Seq(S \cup {v})
  BY <1>2
<1> QED
  BY <1>2, <1>3 DEF IsList

\* What reads is at a place in the bytes, and has the constants in a list if it has any.
IsReader(r, bytes, D) ==
    /\ DOMAIN r = D /\ "at" \in D /\ IsPlace(bytes, r.at)
    /\ "constants" \in D => IsList(r.constants)

\* The reader, from operand to operand and from item to item.
LEMMA ReaderMoves ==
    ASSUME NEW bytes, NEW D, NEW r, IsReader(r, bytes, D), NEW at, IsPlace(bytes, at)
    PROVE  IsReader([r EXCEPT !.at = at], bytes, D)
<1>1. PICK q : q = [r EXCEPT !.at = at]
  OBVIOUS
<1>2. /\ DOMAIN q = D /\ q.at = at
      /\ "constants" \in D => q.constants = r.constants
  BY <1>1 DEF IsReader
<1> QED
  BY <1>1, <1>2 DEF IsReader

LEMMA ReaderTakes ==
    ASSUME NEW bytes, NEW D, NEW r, IsReader(r, bytes, D), NEW at, IsPlace(bytes, at), NEW args
    PROVE  IsReader([r EXCEPT !.at = at, !.args = args], bytes, D)
<1>1. PICK q : q = [r EXCEPT !.at = at, !.args = args]
  OBVIOUS
<1>2. /\ DOMAIN q = D /\ q.at = at
      /\ "constants" \in D => q.constants = r.constants
  BY <1>1 DEF IsReader
<1> QED
  BY <1>1, <1>2 DEF IsReader

LEMMA ReaderInserts ==
    ASSUME NEW bytes, NEW D, NEW r, IsReader(r, bytes, D), NEW at, IsPlace(bytes, at), NEW args, NEW constants,
           "constants" \in D => IsList(constants)
    PROVE  IsReader([r EXCEPT !.at = at, !.constants = constants, !.args = args], bytes, D)
<1>1. PICK q : q = [r EXCEPT !.at = at, !.constants = constants, !.args = args]
  OBVIOUS
<1>2. /\ DOMAIN q = D /\ q.at = at
      /\ "constants" \in D => q.constants = constants
  BY <1>1 DEF IsReader
<1> QED
  BY <1>1, <1>2 DEF IsReader

LEMMA WithConstantType ==
    ASSUME NEW constants, IsList(constants), NEW c
    PROVE  IsList(WithConstant(constants, c))
BY ListGrows DEF WithConstant

LEMMA ReadOneType ==
    ASSUME NEW bytes \in Seq(Byte), NEW D, NEW r, IsReader(r, bytes, D), NEW kind, NEW tags
    PROVE  IsReader(ReadOne(r, bytes, kind, tags), bytes, D)
<1>1. PICK o : o = ReadOperand(bytes, r.at, kind, tags)
  OBVIOUS
<1>2. IsPlace(bytes, o.at)
  BY <1>1, ReadOperandType DEF IsReader, IsPlace
<1>3. PICK args : args = IF o.at = At0 THEN r.args ELSE Append(r.args, o.v)
  OBVIOUS
<1>4. ReadOne(r, bytes, kind, tags) = [r EXCEPT !.at = o.at, !.args = args]
  BY <1>1, <1>3 DEF ReadOne
<1>5. IsReader([r EXCEPT !.at = o.at, !.args = args], bytes, D)
  BY <1>2, ReaderTakes, Zenon
<1> QED
  BY <1>4, <1>5, Zenon

LEMMA OperandsReadType ==
    ASSUME NEW bytes \in Seq(Byte), NEW D, NEW r, IsReader(r, bytes, D), NEW kinds \in KindLists, NEW tags
    PROVE  IsReader(ReadOperands(r, bytes, kinds, tags), bytes, D)
<1>1. PICK n \in Nat : n = Len(kinds)
  BY DEF KindLists
<1>2. PICK f : f = OperandsReadUpto(r, bytes, kinds, tags)
  OBVIOUS
<1>3. f[0] = r /\ \A k \in 1..n : f[k] = ReadOne(f[k - 1], bytes, kinds[k], tags)
  <2>1. OperandsReadUpto(r, bytes, kinds, tags)[0] = r
    BY <1>1, OperandsReadStep
  <2>2. \A k \in 1..n : OperandsReadUpto(r, bytes, kinds, tags)[k] =
                ReadOne(OperandsReadUpto(r, bytes, kinds, tags)[k - 1], bytes, kinds[k], tags)
    BY <1>1, OperandsReadStep
  <2> QED
    BY <1>2, <2>1, <2>2, Zenon
<1> DEFINE S == {k \in 0..n : IsReader(f[k], bytes, D)}
<1>4. 0 \in S
  BY <1>3
<1>5. ASSUME NEW k \in 0..(n - 1), k \in S
      PROVE  k + 1 \in S
  <2>1. f[k + 1] = ReadOne(f[k], bytes, kinds[k + 1], tags)
    <3>1. k + 1 \in 1..n /\ (k + 1) - 1 = k
      OBVIOUS
    <3> QED
      BY <1>3, <3>1
  <2>2. IsReader(f[k + 1], bytes, D)
    BY <1>5, <2>1, ReadOneType
  <2> QED
    BY <2>2
<1>6. IsReader(f[n], bytes, D)
  <2> HIDE DEF S
  <2>1. 0..n \subseteq S
    BY <1>4, <1>5, UptoSet
  <2>2. n \in S
    BY <2>1
  <2> QED
    BY <2>2 DEF S
<1>7. ReadOperands(r, bytes, kinds, tags) = f[n]
  BY <1>1, <1>2, Zenon DEF ReadOperands
<1> QED
  BY <1>6, <1>7, Zenon

\* One item, whichever it is.
LEMMA ItemReadType ==
    ASSUME NEW bytes \in Seq(Byte), NEW D, NEW r, IsReader(r, bytes, D), NEW item \in Items, NEW tags
    PROVE  IsReader(ReadItem(r, bytes, item, tags), bytes, D)
<1> DEFINE R == ReadItem(r, bytes, item, tags)
<1>1. PICK at \in Nat : at = r.at /\ IsPlace(bytes, at)
  BY DEF IsReader, IsPlace
<1>2. PICK byte : byte = ReadByte(bytes, at) /\ IsPlace(bytes, byte.at)
  <2>1. ReadByte(bytes, at).at \in Nat
    BY ReadByteType
  <2>2. IsPlace(bytes, ReadByte(bytes, at).at)
    BY <2>1, ReadByteType DEF IsPlace
  <2> QED
    BY <2>2
<1>3. PICK number : number = ReadVarint(bytes, at) /\ IsPlace(bytes, number.at) /\ number.v \in Nat
  BY ReadVarintType DEF IsPlace
<1>4. IsPlace(bytes, At0)
  BY DEF IsPlace, At0
<1>5. CASE item.item = "one"
  <2>1. R = ReadOperands(r, bytes, item.kinds, tags)
    BY <1>5 DEF ReadItem
  <2>2. item.kinds \in KindLists
    BY <1>5 DEF Items
  <2> QED
    BY <2>1, <2>2, OperandsReadType
<1>6. CASE item.item = "pair"
  <2>1. PICK args : args = r.args \o <<Operand(item.kinds[1], byte.v \div 16),
                                       Operand(item.kinds[2], byte.v % 16)>>
    OBVIOUS
  <2>2. R = [r EXCEPT !.at = byte.at, !.args = args]
    BY <1>1, <1>2, <1>6, <2>1 DEF ReadItem
  <2>3. IsReader([r EXCEPT !.at = byte.at, !.args = args], bytes, D)
    BY <1>2, ReaderTakes, Zenon
  <2> QED
    BY <2>2, <2>3, Zenon
<1>7. CASE item.item = "many"
  <2>1. PICK args : args = Append(r.args, Operand("count", number.v))
    OBVIOUS
  <2>2. PICK counted : counted = [r EXCEPT !.at = number.at, !.args = args]
    OBVIOUS
  <2>3. IsReader(counted, bytes, D)
    BY <1>3, <2>2, ReaderTakes
  <2>4. \/ R = [r EXCEPT !.at = At0]
        \/ R = ReadOperands(counted, bytes, Repeated(item.kinds, number.v), tags)
    BY <1>1, <1>3, <1>7, <2>1, <2>2 DEF ReadItem
  <2>5. IsReader([r EXCEPT !.at = At0], bytes, D)
    BY <1>4, ReaderMoves
  <2>6. item.kinds \in KindLists
    BY <1>7 DEF Items
  <2>7. Repeated(item.kinds, number.v) \in KindLists
    BY <1>3, <2>6, RepeatedType
  <2>8. IsReader(ReadOperands(counted, bytes, Repeated(item.kinds, number.v), tags), bytes, D)
    BY <2>3, <2>7, OperandsReadType
  <2> QED
    BY <2>4, <2>5, <2>8
<1>8. CASE item.item = "implied"
  <2>1. PICK args : args = Append(r.args, Operand("count", item.n))
    OBVIOUS
  <2>2. R = [r EXCEPT !.args = args]
    BY <1>8, <2>1 DEF ReadItem
  <2>3. PICK q : q = [r EXCEPT !.args = args]
    OBVIOUS
  <2>4. /\ DOMAIN q = D /\ q.at = at
        /\ "constants" \in D => q.constants = r.constants
    BY <1>1, <2>3 DEF IsReader
  <2> QED
    BY <1>1, <2>2, <2>3, <2>4 DEF IsReader
<1>9. CASE item.item = "const"
  <2>1. PICK constants : constants = WithConstant(r.constants, item.c)
    OBVIOUS
  <2>2. \E args : R = [r EXCEPT !.at = at, !.constants = constants, !.args = args]
    BY <1>1, <1>9, <2>1 DEF ReadItem
  <2>3. PICK args : R = [r EXCEPT !.at = at, !.constants = constants, !.args = args]
    BY <2>2
  <2>4. "constants" \in D => IsList(constants)
    BY <2>1, WithConstantType DEF IsReader
  <2>5. IsReader([r EXCEPT !.at = at, !.constants = constants, !.args = args], bytes, D)
    BY <1>1, <2>4, ReaderInserts, Zenon
  <2> QED
    BY <2>3, <2>5, Zenon
<1>10. CASE item.item = "small"
  <2>1. PICK constants : constants = WithConstant(r.constants, IntegerOf(Unzigzag(number.v)))
    OBVIOUS
  <2>2. \/ R = [r EXCEPT !.at = At0]
        \/ \E args : R = [r EXCEPT !.at = number.at, !.constants = constants, !.args = args]
    BY <1>1, <1>3, <1>10, <2>1 DEF ReadItem
  <2>3. CASE R = [r EXCEPT !.at = At0]
    BY <1>4, <2>3, ReaderMoves
  <2>4. ASSUME NEW args, R = [r EXCEPT !.at = number.at, !.constants = constants, !.args = args]
        PROVE  IsReader(R, bytes, D)
    <3>1. "constants" \in D => IsList(constants)
      BY <2>1, WithConstantType DEF IsReader
    <3>2. IsReader([r EXCEPT !.at = number.at, !.constants = constants, !.args = args], bytes, D)
      BY <1>3, <3>1, ReaderInserts, Zenon
    <3> QED
      BY <2>4, <3>2, Zenon
  <2> QED
    BY <2>2, <2>3, <2>4
<1>11. item.item \in {"one", "many", "pair", "implied", "const", "small"}
  BY DEF Items
<1> QED
  BY <1>5, <1>6, <1>7, <1>8, <1>9, <1>10, <1>11

LEMMA ItemsReadType ==
    ASSUME NEW bytes \in Seq(Byte), NEW D, NEW r, IsReader(r, bytes, D), NEW layout \in Seq(Items), NEW tags
    PROVE  IsReader(ItemsReadUpto(r, bytes, layout, tags)[Len(layout)], bytes, D)
<1>1. PICK n \in Nat : n = Len(layout)
  OBVIOUS
<1>2. PICK f : f = ItemsReadUpto(r, bytes, layout, tags)
  OBVIOUS
<1>3. f[0] = r /\ \A k \in 1..n : f[k] = ReadItem(f[k - 1], bytes, layout[k], tags)
  <2>1. ItemsReadUpto(r, bytes, layout, tags)[0] = r
    BY <1>1, ItemsReadStep
  <2>2. \A k \in 1..n : ItemsReadUpto(r, bytes, layout, tags)[k] =
                ReadItem(ItemsReadUpto(r, bytes, layout, tags)[k - 1], bytes, layout[k], tags)
    BY <1>1, ItemsReadStep
  <2> QED
    BY <1>2, <2>1, <2>2, Zenon
<1> DEFINE S == {k \in 0..n : IsReader(f[k], bytes, D)}
<1>4. 0 \in S
  BY <1>3
<1>5. ASSUME NEW k \in 0..(n - 1), k \in S
      PROVE  k + 1 \in S
  <2>1. f[k + 1] = ReadItem(f[k], bytes, layout[k + 1], tags)
    <3>1. k + 1 \in 1..n /\ (k + 1) - 1 = k
      OBVIOUS
    <3> QED
      BY <1>3, <3>1
  <2>2. layout[k + 1] \in Items
    BY <1>1
  <2>3. IsReader(f[k + 1], bytes, D)
    BY <1>5, <2>1, <2>2, ItemReadType
  <2> QED
    BY <2>3
<1>6. IsReader(f[n], bytes, D)
  <2> HIDE DEF S
  <2>1. 0..n \subseteq S
    BY <1>4, <1>5, UptoSet
  <2>2. n \in S
    BY <2>1
  <2> QED
    BY <2>2 DEF S
<1> QED
  BY <1>1, <1>2, <1>6, Zenon

\* The place behind an instruction lies in the bytes, and the constants remain a list.
LEMMA ReadInstructionType ==
    ASSUME NEW bytes \in Seq(Byte), NEW at \in Nat, NEW constants, IsList(constants), NEW e
    PROVE  /\ IsPlace(bytes, ReadInstruction(bytes, at, constants, e).at)
           /\ IsList(ReadInstruction(bytes, at, constants, e).constants)
<1>1. PICK code : code = ReadByte(bytes, at) /\ IsPlace(bytes, code.at)
  <2>1. ReadByte(bytes, at).at \in Nat
    BY ReadByteType
  <2>2. IsPlace(bytes, ReadByte(bytes, at).at)
    BY <2>1, ReadByteType DEF IsPlace
  <2> QED
    BY <2>2
<1>2. PICK start : start = [at |-> code.at, args |-> <<>>, constants |-> constants]
  OBVIOUS
<1>3. PICK D : D = {"at", "args", "constants"}
  OBVIOUS
<1>3a. IsReader(start, bytes, D)
  BY <1>1, <1>2, <1>3 DEF IsReader
<1>4. PICK op : op = CHOOSE o \in {p \in DOMAIN e.opcodes : e.opcodes[p] = code.v} : TRUE
  OBVIOUS
<1>5. PICK layout \in Seq(Items) : layout = ReadLayout(op)
  BY LayoutType, LayoutsAgree
<1>6. PICK end : end = ItemsReadUpto(start, bytes, layout, e.tags)[Len(layout)]
  OBVIOUS
<1>7. IsPlace(bytes, end.at) /\ IsList(end.constants)
  <2>1. IsReader(end, bytes, D)
    BY <1>3a, <1>6, ItemsReadType
  <2> QED
    BY <1>3, <2>1 DEF IsReader
<1>8. PICK r : r = ReadInstruction(bytes, at, constants, e)
  OBVIOUS
<1>9. \/ r = [at |-> At0, args |-> <<>>, constants |-> constants, op |-> "none"]
      \/ r = [at |-> end.at, args |-> end.args, constants |-> end.constants, op |-> op]
  BY <1>1, <1>2, <1>4, <1>5, <1>6, <1>8, Zenon DEF ReadInstruction, Decoded
<1>10. \/ r.at = At0 /\ r.constants = constants
       \/ r.at = end.at /\ r.constants = end.constants
  BY <1>9
<1> QED
  BY <1>7, <1>8, <1>10 DEF IsPlace, At0

\* The same for a byte, a number, and bytes of a given number.
LEMMA ReadBytePlace ==
    ASSUME NEW bytes \in Seq(Byte), NEW at \in Nat
    PROVE  /\ IsPlace(bytes, ReadByte(bytes, at).at) /\ ReadByte(bytes, at).at \in Nat
           /\ ReadByte(bytes, at).v \in Byte
<1>1. ReadByte(bytes, at).at \in Nat /\ ReadByte(bytes, at).v \in Byte
  BY ReadByteType
<1> QED
  BY <1>1, ReadByteType DEF IsPlace

LEMMA ReadVarintPlace ==
    ASSUME NEW bytes \in Seq(Byte), NEW at \in Nat
    PROVE  /\ IsPlace(bytes, ReadVarint(bytes, at).at) /\ ReadVarint(bytes, at).at \in Nat
           /\ ReadVarint(bytes, at).v \in Nat
BY ReadVarintType DEF IsPlace

\* A section has no more items than there are bytes left.
LEMMA ReadCountType ==
    ASSUME NEW bytes \in Seq(Byte), NEW at \in Nat
    PROVE  /\ IsPlace(bytes, ReadCount(bytes, at).at) /\ ReadCount(bytes, at).at \in Nat
           /\ ReadCount(bytes, at).v \in 0..Len(bytes)
<1>1. PICK count : count = ReadVarint(bytes, at)
  OBVIOUS
<1>2. /\ count.v \in Nat /\ IsPlace(bytes, count.at) /\ count.at \in Nat
      /\ count.at = 0 => count.v = 0
  BY <1>1, ReadVarintPlace, ReadVarintType
<1>3. CASE count.at # At0 /\ count.v > Remaining(bytes, count.at)
  <2>1. ReadCount(bytes, at) = Failed
    BY <1>1, <1>3 DEF ReadCount
  <2> QED
    BY <2>1 DEF Failed, At0, IsPlace
<1>4. CASE ~(count.at # At0 /\ count.v > Remaining(bytes, count.at))
  <2>1. ReadCount(bytes, at) = count
    BY <1>1, <1>4 DEF ReadCount
  <2>2. count.v \in 0..Len(bytes)
    BY <1>2, <1>4 DEF Remaining, At0
  <2> QED
    BY <1>2, <2>1, <2>2
<1> QED
  BY <1>3, <1>4

LEMMA ReadBytesPlace ==
    ASSUME NEW bytes \in Seq(Byte), NEW at \in Nat, NEW n \in Nat
    PROVE  IsPlace(bytes, ReadBytes(bytes, at, n).at) /\ ReadBytes(bytes, at, n).at \in Nat
<1>1. \/ ReadBytes(bytes, at, n) = Failed
      \/ /\ at + n - 1 <= Len(bytes)
         /\ ReadBytes(bytes, at, n) = Got(at + n, SubSeq(bytes, at, at + n - 1))
  BY DEF ReadBytes
<1>2. \A p, v : Got(p, v).at = p
  BY DEF Got
<1> QED
  BY <1>1, <1>2 DEF Failed, At0, IsPlace

\* The head, a function, a number and a constant.
LEMMA ReadHeadType ==
    ASSUME NEW bytes \in Seq(Byte)
    PROVE  /\ IsPlace(bytes, ReadHead(bytes).at) /\ ReadHead(bytes).at \in Nat
           /\ ReadHead(bytes).at # At0 =>
                ReadHead(bytes).v.kind \in {0, 1} /\ ReadHead(bytes).v.externs \in 0..MaxExterns
<1>1. PICK magic : magic = ReadBytes(bytes, 1, Len(Magic)) /\ magic.at \in Nat
  <2>1. Len(Magic) = 2
    BY DEF Magic
  <2> QED
    BY <2>1, ReadBytesPlace
<1>2. PICK kind : kind = ReadByte(bytes, magic.at) /\ kind.at \in Nat
  BY <1>1, ReadBytePlace
<1>3. PICK externs :
            externs = ReadVarint(bytes, kind.at) /\ IsPlace(bytes, externs.at) /\ externs.v \in Nat
  BY <1>2, ReadVarintPlace
<1>4. \/ ReadHead(bytes) = Failed
      \/ /\ kind.v \in {0, 1} /\ ~(externs.v > MaxExterns)
         /\ ReadHead(bytes) = Got(externs.at, [kind |-> kind.v, externs |-> externs.v])
  <2>1. PICK h : h = ReadHead(bytes)
    OBVIOUS
  <2>2. h = IF externs.at = At0 THEN Failed
            ELSE IF magic.v # Magic \/ kind.v \notin {0, 1} \/ externs.v > MaxExterns THEN Failed
            ELSE Got(externs.at, [kind |-> kind.v, externs |-> externs.v])
    BY <1>1, <1>2, <1>3, <2>1, Zenon DEF ReadHead
  <2>3. PICK got : got = Got(externs.at, [kind |-> kind.v, externs |-> externs.v])
    OBVIOUS
  <2>4. h = Failed \/ (kind.v \in {0, 1} /\ ~(externs.v > MaxExterns) /\ h = got)
    BY <2>2, <2>3, Zenon
  <2> QED
    BY <2>1, <2>3, <2>4, Zenon
<1>5. CASE ReadHead(bytes) = Failed
  BY <1>5 DEF Failed, At0, IsPlace
<1>6. CASE /\ kind.v \in {0, 1} /\ ~(externs.v > MaxExterns)
           /\ ReadHead(bytes) = Got(externs.at, [kind |-> kind.v, externs |-> externs.v])
  <2>1. ReadHead(bytes).at = externs.at /\ ReadHead(bytes).v.kind = kind.v /\ ReadHead(bytes).v.externs = externs.v
    BY <1>6 DEF Got
  <2>2. externs.at \in Nat
    BY <1>3 DEF IsPlace
  <2>3. externs.v \in 0..MaxExterns
    <3>1. PICK n \in Nat : n = externs.v
      BY <1>3
    <3>2. ~(n > MaxExterns)
      BY <1>6, <3>1, Zenon
    <3>3. PICK m \in Nat : m = MaxExterns
      BY DEF MaxExterns
    <3>4. n \in 0..m
      BY <3>2, <3>3
    <3> QED
      BY <3>1, <3>3, <3>4, Zenon
  <2>4. kind.v \in {0, 1}
    BY <1>6
  <2> QED
    BY <1>3, <2>1, <2>2, <2>3, <2>4
<1> QED
  BY <1>4, <1>5, <1>6

LEMMA ReadFunctionType ==
    ASSUME NEW bytes \in Seq(Byte), NEW at \in Nat, NEW tags
    PROVE  IsPlace(bytes, ReadFunction(bytes, at, tags).at)
<1>1. PICK name : name = ReadVarint(bytes, at) /\ name.at \in Nat
  BY ReadVarintPlace
<1>2. PICK start : start = ReadVarint(bytes, name.at) /\ start.at \in Nat
  BY <1>1, ReadVarintPlace
<1>3. PICK end : end = ReadVarint(bytes, start.at) /\ end.at \in Nat
  BY <1>2, ReadVarintPlace
<1>4. PICK flags : flags = ReadVarint(bytes, end.at) /\ flags.at \in Nat
  BY <1>3, ReadVarintPlace
<1>5. PICK count : count = ReadCount(bytes, flags.at) /\ count.at \in Nat /\ count.v \in Nat
  BY <1>4, ReadCountType
<1>6. PICK returns : returns = ReadByte(bytes, count.at) /\ IsPlace(bytes, returns.at)
  BY <1>5, ReadBytePlace
<1>7. PICK r : r = [at |-> returns.at, args |-> <<>>]
  OBVIOUS
<1>8. PICK kinds \in KindLists : kinds = Repeated(<<"tagged">>, count.v)
  <2>1. <<"tagged">> \in KindLists
    BY WireKindsHas, Kinds1, Zenon
  <2> QED
    BY <1>5, <2>1, RepeatedType
<1>9. PICK params : params = ReadOperands(r, bytes, kinds, tags)
  OBVIOUS
<1>10. IsPlace(bytes, params.at)
  <2>1. IsReader(r, bytes, {"at", "args"})
    BY <1>6, <1>7 DEF IsReader
  <2> QED
    BY <1>9, <2>1, OperandsReadType DEF IsReader
<1>11. \E v : ReadFunction(bytes, at, tags) = Got(params.at, v)
  BY <1>1, <1>2, <1>3, <1>4, <1>5, <1>6, <1>7, <1>8, <1>9, Zenon DEF ReadFunction
<1>12. \A p, v : Got(p, v).at = p
  BY DEF Got
<1> QED
  BY <1>10, <1>11, <1>12

LEMMA ReadNumberType ==
    ASSUME NEW bytes \in Seq(Byte), NEW at \in Nat
    PROVE  IsPlace(bytes, ReadNumber(bytes, at).at)
<1>1. PICK form : form = ReadByte(bytes, at) /\ form.at \in Nat
  BY ReadBytePlace
<1>2. PICK integer : integer = ReadVarint(bytes, form.at) /\ IsPlace(bytes, integer.at)
  BY <1>1, ReadVarintPlace
<1>3. PICK double : double = ReadBytes(bytes, form.at, 8) /\ IsPlace(bytes, double.at)
  BY <1>1, ReadBytesPlace
<1>4. \/ ReadNumber(bytes, at) = Failed
      \/ \E v : ReadNumber(bytes, at) = Got(integer.at, v)
      \/ \E v : ReadNumber(bytes, at) = Got(double.at, v)
  BY <1>1, <1>2, <1>3 DEF ReadNumber
<1>5. \A p, v : Got(p, v).at = p
  BY DEF Got
<1>6. IsPlace(bytes, Failed.at)
  BY DEF IsPlace, Failed, At0
<1> QED
  BY <1>2, <1>3, <1>4, <1>5, <1>6

LEMMA ReadStringPlace ==
    ASSUME NEW bytes \in Seq(Byte), NEW at \in Nat, NEW key \in Nat, NEW domain \in Nat, NEW index \in Nat
    PROVE  IsPlace(bytes, ReadString(bytes, at, key, domain, index).at)
<1>1. PICK r : r = ReadString(bytes, at, key, domain, index)
  OBVIOUS
<1>2. r \in Texts(bytes, at)
  BY <1>1, ReadStringType
<1>3. r.at \in 0..(Len(bytes) + 1)
  BY <1>2 DEF Texts
<1> QED
  BY <1>1, <1>3 DEF IsPlace

LEMMA ReadConstantType ==
    ASSUME NEW bytes \in Seq(Byte), NEW at \in Nat, NEW index \in Nat, NEW e, e.key \in Nat
    PROVE  IsPlace(bytes, ReadConstant(bytes, at, index, e).at)
<1>1. PICK tag : tag = ReadByte(bytes, at) /\ tag.at \in Nat /\ IsPlace(bytes, tag.at)
  BY ReadBytePlace
<1>2. PICK text : text = ReadString(bytes, tag.at, e.key, ConstantDomain, index) /\ IsPlace(bytes, text.at)
  BY <1>1, ReadStringPlace DEF ConstantDomain
<1>3. PICK byte : byte = ReadByte(bytes, tag.at) /\ IsPlace(bytes, byte.at)
  BY <1>1, ReadBytePlace
<1>4. PICK number : number = ReadNumber(bytes, tag.at) /\ IsPlace(bytes, number.at)
  BY <1>1, ReadNumberType
<1>5. \/ ReadConstant(bytes, at, index, e) = Failed
      \/ ReadConstant(bytes, at, index, e) = number
      \/ \E v : ReadConstant(bytes, at, index, e) = Got(text.at, v)
      \/ \E v : ReadConstant(bytes, at, index, e) = Got(byte.at, v)
      \/ \E v : ReadConstant(bytes, at, index, e) = Got(tag.at, v)
  <2>1. PICK types : types = {t \in DOMAIN e.types : e.types[t] = tag.v}
    OBVIOUS
  <2>2. PICK type : type = CHOOSE t \in types : TRUE
    OBVIOUS
  <2>3. PICK t1, t2, t3 : /\ t1 = Got(text.at, Const(type, text.v))
                          /\ t2 = Got(byte.at, Bool(byte.v # 0))
                          /\ t3 = Got(tag.at, Const(type, <<>>))
    OBVIOUS
  <2>4. CASE tag.at = At0 \/ types = {}
    BY <1>1, <2>1, <2>4 DEF ReadConstant
  <2>5. CASE ~(tag.at = At0 \/ types = {}) /\ type = "number"
    BY <1>1, <1>4, <2>1, <2>2, <2>5 DEF ReadConstant
  <2>6. CASE ~(tag.at = At0 \/ types = {}) /\ type \in {"string", "bigint"}
    BY <1>1, <1>2, <2>1, <2>2, <2>3, <2>6 DEF ReadConstant
  <2>7. CASE ~(tag.at = At0 \/ types = {}) /\ type = "bool"
    BY <1>1, <1>3, <2>1, <2>2, <2>3, <2>7 DEF ReadConstant
  <2>8. CASE /\ ~(tag.at = At0 \/ types = {}) /\ type # "number"
             /\ type \notin {"string", "bigint"} /\ type # "bool"
    BY <1>1, <2>1, <2>2, <2>3, <2>8 DEF ReadConstant
  <2> QED
    BY <2>4, <2>5, <2>6, <2>7, <2>8
<1>6. \A p, v : Got(p, v).at = p
  BY DEF Got
<1>7. IsPlace(bytes, Failed.at)
  BY DEF IsPlace, Failed, At0
<1> QED
  BY <1>1, <1>2, <1>3, <1>4, <1>5, <1>6, <1>7

-----------------------------------------------------------------------------
(* What is written is read back.                                           *)

\* The bytes that there are from a place on are those of w, which may be cut off.
Holds(bytes, at, w) ==
    /\ bytes \in Seq(Byte) /\ at \in Nat \ {0} /\ w \in Seq(Byte)
    /\ \A k \in 1..Len(w) : at + k - 1 <= Len(bytes) => bytes[at + k - 1] = w[k]

\* They are all there.
IsWhole(bytes, at, length) == at + length <= Len(bytes) + 1

\* A result is what was written in so many bytes, unless some of them are cut off.
ReadsBack(r, bytes, at, length, v) ==
    IF IsWhole(bytes, at, length) THEN r = Got(at + length, v) ELSE r.at = At0

\* The bytes of a number, the first and the others.
LEMMA VarintBytes ==
    ASSUME NEW n \in Nat
    PROVE  /\ n < 128 => VarintLength[n] = 1 /\ Varint[n][1] = n
           /\ n >= 128 => /\ n \div 128 \in Nat /\ n % 128 \in 0..127
                          /\ n = 128 * (n \div 128) + (n % 128)
                          /\ VarintLength[n] = 1 + VarintLength[n \div 128]
                          /\ Varint[n][1] = 128 + (n % 128)
                          /\ \A k \in 1..VarintLength[n \div 128] :
                                Varint[n][k + 1] = Varint[n \div 128][k]
<1>1. ASSUME n < 128 PROVE VarintLength[n] = 1 /\ Varint[n][1] = n
  <2>1. VarintLength[n] = 1
    BY <1>1, VarintLengthStep
  <2>2. Varint[n] = <<n>>
    BY <1>1, VarintStep
  <2>3. <<n>>[1] = n
    OBVIOUS
  <2> QED
    BY <2>1, <2>2, <2>3, Zenon
<1>2. ASSUME n >= 128
      PROVE  /\ n \div 128 \in Nat /\ n % 128 \in 0..127
             /\ n = 128 * (n \div 128) + (n % 128)
             /\ VarintLength[n] = 1 + VarintLength[n \div 128]
             /\ Varint[n][1] = 128 + (n % 128)
             /\ \A k \in 1..VarintLength[n \div 128] : Varint[n][k + 1] = Varint[n \div 128][k]
  <2>1. n \div 128 \in Nat /\ n % 128 \in 0..127 /\ n = 128 * (n \div 128) + (n % 128)
    OBVIOUS
  <2>2. ~(n < 128)
    BY <1>2
  <2>2a. Varint[n] = <<128 + (n % 128)>> \o Varint[n \div 128] /\ VarintLength[n] = 1 + VarintLength[n \div 128]
    BY <2>2, VarintStep, VarintLengthStep
  <2> DEFINE rest == Varint[n \div 128]
  <2>3. rest \in Seq(Byte) /\ Len(rest) = VarintLength[n \div 128]
    BY <2>1, VarintType
  <2>4. PICK b \in Byte : b = 128 + (n % 128)
    BY <2>1 DEF Byte
  <2> HIDE DEF rest
  <2>5. (<<b>> \o rest)[1] = b /\ \A k \in 1..Len(rest) : (<<b>> \o rest)[k + 1] = rest[k]
    BY <2>3
  <2> QED
    BY <2>1, <2>2a, <2>3, <2>4, <2>5 DEF rest
<1> QED
  BY <1>1, <1>2

\* The same without a division.
IsMore(n, q, r) ==
    /\ n = 128 * q + r
    /\ VarintLength[n] = 1 + VarintLength[q]
    /\ Varint[n][1] = 128 + r
    /\ \A k \in 1..VarintLength[q] : Varint[n][k + 1] = Varint[q][k]
LEMMA VarintMore ==
    ASSUME NEW n \in Nat, n >= 128
    PROVE  \E q \in Nat, r \in 0..127 : IsMore(n, q, r)
<1> DEFINE a == n \div 128  b == n % 128
<1>1. /\ a \in Nat /\ b \in 0..127 /\ n = 128 * a + b
      /\ VarintLength[n] = 1 + VarintLength[a]
      /\ Varint[n][1] = 128 + b
      /\ \A k \in 1..VarintLength[a] : Varint[n][k + 1] = Varint[a][k]
  BY VarintBytes
<1> HIDE DEF a, b
<1>2. IsMore(n, a, b)
  BY <1>1, Zenon DEF IsMore
<1> QED
  BY <1>1, <1>2

\* A number of 32 bits has at most five bytes, all but the last with the eighth bit,
\* and is their sum.
LEMMA VarintSum ==
    ASSUME NEW n, U32(n), NEW length, length = VarintLength[n], NEW w, w = Varint[n]
    PROVE  /\ length \in 1..5
           /\ length = 1 => n = w[1]
           /\ length = 2 => w[1] >= 128 /\ n = (w[1] - 128) + 128 * w[2]
           /\ length = 3 => w[1] >= 128 /\ w[2] >= 128 /\ n = (w[1] - 128) + 128 * ((w[2] - 128) + 128 * w[3])
           /\ length = 4 => /\ w[1] >= 128 /\ w[2] >= 128 /\ w[3] >= 128
                            /\ n = (w[1] - 128) + 128 * ((w[2] - 128) + 128 * ((w[3] - 128) + 128 * w[4]))
           /\ length = 5 => /\ w[1] >= 128 /\ w[2] >= 128 /\ w[3] >= 128 /\ w[4] >= 128
                            /\ n = (w[1] - 128) + 128 * ((w[2] - 128) + 128 * ((w[3] - 128)
                                        + 128 * ((w[4] - 128) + 128 * w[5])))
                            /\ w[5] < 16
           /\ w[length] < 128
<1>1. n \in Nat
  BY DEF U32
<1>2. ASSUME n < 128 PROVE length = 1 /\ w[1] = n
  BY <1>1, <1>2, VarintBytes
<1>3. CASE n < 128
  BY <1>1, <1>2, <1>3
<1>4. CASE n >= 128
  <2>0. PICK p \in Nat, a \in 0..127 : IsMore(n, p, a)
    BY <1>1, <1>4, VarintMore
  <2>1. /\ n = 128 * p + a /\ length = 1 + VarintLength[p] /\ w[1] = 128 + a
        /\ \A k \in 1..VarintLength[p] : w[k + 1] = Varint[p][k]
    BY <2>0, Zenon DEF IsMore
  <2>2. CASE p < 128
    <3>1. VarintLength[p] = 1 /\ Varint[p][1] = p
      BY <2>2, VarintBytes
    <3>2. length = 2 /\ w[2] = p
      BY <2>1, <3>1
    <3> QED
      BY <2>1, <2>2, <3>2
  <2>3. CASE p >= 128
    <3>0. PICK q \in Nat, b \in 0..127 : IsMore(p, q, b)
      BY <2>3, VarintMore
    <3>1. /\ p = 128 * q + b /\ VarintLength[p] = 1 + VarintLength[q] /\ Varint[p][1] = 128 + b
          /\ \A k \in 1..VarintLength[q] : Varint[p][k + 1] = Varint[q][k]
      BY <3>0, Zenon DEF IsMore
    <3>2. VarintLength[q] \in Nat \ {0}
      BY VarintType
    <3>3. /\ length = 2 + VarintLength[q] /\ w[2] = 128 + b
          /\ \A k \in 1..VarintLength[q] : w[k + 2] = Varint[q][k]
      <4>1. length = 2 + VarintLength[q] /\ w[2] = 128 + b
        BY <2>1, <3>1, <3>2
      <4>2. ASSUME NEW k \in 1..VarintLength[q] PROVE w[k + 2] = Varint[q][k]
        <5>1. k + 1 \in 1..VarintLength[p]
          BY <3>1, <3>2
        <5>2. w[(k + 1) + 1] = Varint[p][k + 1]
          BY <2>1, <5>1
        <5> QED
          BY <3>1, <3>2, <5>2
      <4> QED
        BY <4>1, <4>2
    <3>4. n = a + 128 * (b + 128 * q)
      BY <2>1, <3>1
    <3>5. CASE q < 128
      <4>1. VarintLength[q] = 1 /\ Varint[q][1] = q
        BY <3>5, VarintBytes
      <4>2. length = 3 /\ w[3] = q
        BY <3>3, <4>1
      <4> QED
        BY <2>1, <3>3, <3>4, <3>5, <4>2
    <3>6. CASE q >= 128
      <4>0. PICK s \in Nat, c \in 0..127 : IsMore(q, s, c)
        BY <3>6, VarintMore
      <4>1. /\ q = 128 * s + c /\ VarintLength[q] = 1 + VarintLength[s] /\ Varint[q][1] = 128 + c
            /\ \A k \in 1..VarintLength[s] : Varint[q][k + 1] = Varint[s][k]
        BY <4>0, Zenon DEF IsMore
      <4>2. VarintLength[s] \in Nat \ {0}
        BY VarintType
      <4>3. /\ length = 3 + VarintLength[s] /\ w[3] = 128 + c
            /\ \A k \in 1..VarintLength[s] : w[k + 3] = Varint[s][k]
        <5>1. length = 3 + VarintLength[s] /\ w[3] = 128 + c
          BY <3>3, <4>1, <4>2
        <5>2. ASSUME NEW k \in 1..VarintLength[s] PROVE w[k + 3] = Varint[s][k]
          <6>1. k + 1 \in 1..VarintLength[q]
            BY <4>1, <4>2
          <6>2. w[(k + 1) + 2] = Varint[q][k + 1]
            BY <3>3, <6>1
          <6> QED
            BY <4>1, <4>2, <6>2
        <5> QED
          BY <5>1, <5>2
      <4>4. n = a + 128 * (b + 128 * (c + 128 * s))
        BY <3>4, <4>1
      <4>5. CASE s < 128
        <5>1. VarintLength[s] = 1 /\ Varint[s][1] = s
          BY <4>5, VarintBytes
        <5>2. length = 4 /\ w[4] = s
          BY <4>3, <5>1
        <5> QED
          BY <2>1, <3>3, <4>3, <4>4, <4>5, <5>2
      <4>6. CASE s >= 128
        <5>0. PICK u \in Nat, d \in 0..127 : IsMore(s, u, d)
          BY <4>6, VarintMore
        <5>1. /\ s = 128 * u + d /\ VarintLength[s] = 1 + VarintLength[u] /\ Varint[s][1] = 128 + d
              /\ \A k \in 1..VarintLength[u] : Varint[s][k + 1] = Varint[u][k]
          BY <5>0, Zenon DEF IsMore
        <5>2. n = a + 128 * (b + 128 * (c + 128 * (d + 128 * u)))
          BY <4>4, <5>1
        <5>3. u < 16
          BY <5>2, SMT DEF U32
        <5>4. VarintLength[u] = 1 /\ Varint[u][1] = u
          BY <5>3, VarintBytes
        <5>5. VarintLength[s] = 2 /\ Varint[s][1] = 128 + d /\ Varint[s][2] = u
          BY <5>1, <5>4
        <5>6. length = 5 /\ w[4] = 128 + d /\ w[5] = u
          BY <4>3, <5>5
        <5> QED
          BY <2>1, <3>3, <4>3, <5>2, <5>3, <5>6
      <4> QED
        BY <4>5, <4>6
    <3> QED
      BY <3>5, <3>6
  <2> QED
    BY <2>2, <2>3
<1> QED
  BY <1>1, <1>3, <1>4

\* A byte without its eighth bit.
Low(b) == IF b >= 128 THEN b - 128 ELSE b

\* What the bytes add up to, the highest first.
LEMMA PartsAre ==
    ASSUME NEW bytes \in Seq(Byte), NEW at \in Nat \ {0}, NEW last \in Nat, last <= Len(bytes)
    PROVE  /\ Part(bytes, at, last, 1) = IF at <= last THEN Low(bytes[at]) ELSE 0
           /\ Part(bytes, at, last, 2) = IF at + 1 <= last THEN 128 * Low(bytes[at + 1]) ELSE 0
           /\ Part(bytes, at, last, 3) = IF at + 2 <= last THEN 128 * (128 * Low(bytes[at + 2])) ELSE 0
           /\ Part(bytes, at, last, 4) = IF at + 3 <= last THEN 128 * (128 * (128 * Low(bytes[at + 3]))) ELSE 0
           /\ Part(bytes, at, last, 5) = IF at + 4 <= last
                                         THEN 128 * (128 * (128 * (128 * (bytes[at + 4] % 16)))) ELSE 0
<1>1. \A b \in Byte : b % 128 = Low(b) /\ b % 16 \in Int /\ Low(b) \in Int
  BY SMT DEF Low, Byte
<1>2. \A b \in Int : /\ b * 1 = b /\ b * 128 = 128 * b /\ b * 16384 = 128 * (128 * b)
                     /\ b * 2097152 = 128 * (128 * (128 * b))
                     /\ b * 268435456 = 128 * (128 * (128 * (128 * b)))
  BY SMT
<1>3. \A k \in 1..last : bytes[k] \in Byte
  OBVIOUS
<1>4. Part(bytes, at, last, 1) = IF at <= last THEN Low(bytes[at]) ELSE 0
  <2>1. Part(bytes, at, last, 1) = IF at <= last THEN (bytes[at] % 128) * 1 ELSE 0
    BY SMT DEF Part, Rooms, Weights
  <2>2. CASE at <= last
    <3>1. bytes[at] \in Byte
      BY <1>3, <2>2
    <3>2. bytes[at] % 128 = Low(bytes[at]) /\ bytes[at] % 16 \in Int /\ Low(bytes[at]) \in Int
      BY <1>1, <3>1
    <3> QED
      BY <1>2, <2>1, <2>2, <3>2, SMT
  <2> QED
    BY <2>1, <2>2, SMT
<1>5. Part(bytes, at, last, 2) = IF at + 1 <= last THEN 128 * Low(bytes[at + 1]) ELSE 0
  <2>1. Part(bytes, at, last, 2) = IF at + 1 <= last THEN (bytes[at + 1] % 128) * 128 ELSE 0
    BY SMT DEF Part, Rooms, Weights
  <2>2. CASE at + 1 <= last
    <3>1. bytes[at + 1] \in Byte
      BY <1>3, <2>2
    <3>2. bytes[at + 1] % 128 = Low(bytes[at + 1]) /\ bytes[at + 1] % 16 \in Int /\ Low(bytes[at + 1]) \in Int
      BY <1>1, <3>1
    <3> QED
      BY <1>2, <2>1, <2>2, <3>2, SMT
  <2> QED
    BY <2>1, <2>2, SMT
<1>6. Part(bytes, at, last, 3) = IF at + 2 <= last THEN 128 * (128 * Low(bytes[at + 2])) ELSE 0
  <2>1. Part(bytes, at, last, 3) = IF at + 2 <= last THEN (bytes[at + 2] % 128) * 16384 ELSE 0
    BY SMT DEF Part, Rooms, Weights
  <2>2. CASE at + 2 <= last
    <3>1. bytes[at + 2] \in Byte
      BY <1>3, <2>2
    <3>2. bytes[at + 2] % 128 = Low(bytes[at + 2]) /\ bytes[at + 2] % 16 \in Int /\ Low(bytes[at + 2]) \in Int
      BY <1>1, <3>1
    <3> QED
      BY <1>2, <2>1, <2>2, <3>2, SMT
  <2> QED
    BY <2>1, <2>2, SMT
<1>7. Part(bytes, at, last, 4) = IF at + 3 <= last THEN 128 * (128 * (128 * Low(bytes[at + 3]))) ELSE 0
  <2>1. Part(bytes, at, last, 4) = IF at + 3 <= last THEN (bytes[at + 3] % 128) * 2097152 ELSE 0
    BY SMT DEF Part, Rooms, Weights
  <2>2. CASE at + 3 <= last
    <3>1. bytes[at + 3] \in Byte
      BY <1>3, <2>2
    <3>2. bytes[at + 3] % 128 = Low(bytes[at + 3]) /\ bytes[at + 3] % 16 \in Int /\ Low(bytes[at + 3]) \in Int
      BY <1>1, <3>1
    <3> QED
      BY <1>2, <2>1, <2>2, <3>2, SMT
  <2> QED
    BY <2>1, <2>2, SMT
<1>8. Part(bytes, at, last, 5) = IF at + 4 <= last
                                 THEN 128 * (128 * (128 * (128 * (bytes[at + 4] % 16)))) ELSE 0
  <2>1. Part(bytes, at, last, 5) = IF at + 4 <= last THEN (bytes[at + 4] % 16) * 268435456 ELSE 0
    BY SMT DEF Part, Rooms, Weights
  <2>2. CASE at + 4 <= last
    <3>1. bytes[at + 4] \in Byte
      BY <1>3, <2>2
    <3>2. bytes[at + 4] % 128 = Low(bytes[at + 4]) /\ bytes[at + 4] % 16 \in Int /\ Low(bytes[at + 4]) \in Int
      BY <1>1, <3>1
    <3> QED
      BY <1>2, <2>1, <2>2, <3>2, SMT
  <2> QED
    BY <2>1, <2>2, SMT
<1> QED
  BY <1>4, <1>5, <1>6, <1>7, <1>8

\* The same sum in both orders.
LEMMA Horner ==
    /\ \A a, b, c \in Int :
            (a - 128) + 128 * (b - 128) + 128 * (128 * c) + 0 + 0 = (a - 128) + 128 * ((b - 128) + 128 * c)
    /\ \A a, b, c, d \in Int :
            (a - 128) + 128 * (b - 128) + 128 * (128 * (c - 128)) + 128 * (128 * (128 * d)) + 0
                = (a - 128) + 128 * ((b - 128) + 128 * ((c - 128) + 128 * d))
    /\ \A a, b, c, d, e \in Int :
            (a - 128) + 128 * (b - 128) + 128 * (128 * (c - 128)) + 128 * (128 * (128 * (d - 128)))
                    + 128 * (128 * (128 * (128 * e)))
                = (a - 128) + 128 * ((b - 128) + 128 * ((c - 128) + 128 * ((d - 128) + 128 * e)))
BY SMT

\* A number is read back.
LEMMA VarintReads ==
    ASSUME NEW n, U32(n), NEW bytes, NEW at, Holds(bytes, at, Varint[n])
    PROVE  ReadsBack(ReadVarint(bytes, at), bytes, at, VarintLength[n], n)
<1> DEFINE length == VarintLength[n]  w == Varint[n]  last == at + length - 1
<1>1. n \in Nat
  BY DEF U32
<1>2. Len(w) = length /\ length \in Nat \ {0} /\ w \in Seq(Byte)
  BY <1>1, VarintType
<1>3. bytes \in Seq(Byte) /\ at \in Nat \ {0} /\ \A k \in 1..length : at + k - 1 <= Len(bytes) => bytes[at + k - 1] = w[k]
  BY <1>2 DEF Holds
<1>4. /\ length \in 1..5
      /\ length = 1 => n = w[1]
      /\ length = 2 => w[1] >= 128 /\ n = (w[1] - 128) + 128 * w[2]
      /\ length = 3 => w[1] >= 128 /\ w[2] >= 128 /\ n = (w[1] - 128) + 128 * ((w[2] - 128) + 128 * w[3])
      /\ length = 4 => /\ w[1] >= 128 /\ w[2] >= 128 /\ w[3] >= 128
                       /\ n = (w[1] - 128) + 128 * ((w[2] - 128) + 128 * ((w[3] - 128) + 128 * w[4]))
      /\ length = 5 => /\ w[1] >= 128 /\ w[2] >= 128 /\ w[3] >= 128 /\ w[4] >= 128
                       /\ n = (w[1] - 128) + 128 * ((w[2] - 128) + 128 * ((w[3] - 128)
                                   + 128 * ((w[4] - 128) + 128 * w[5])))
                       /\ w[5] < 16
      /\ w[length] < 128
  BY VarintSum
<1>5. \A k \in 1..length : w[k] \in Byte
  BY <1>2
<1> HIDE DEF length, w
<1>6. \A k \in 1..(length - 1) : w[k] >= 128
  BY <1>4
<1>7. ReadVarint(bytes, at) = IF Ends(bytes, at) = {} THEN Failed ELSE NumberUpto(bytes, at, Min(Ends(bytes, at)))
  BY <1>3 DEF ReadVarint, At0
<1>8. DOMAIN bytes = 1..Len(bytes) /\ Len(bytes) \in Nat
  BY <1>3
<1>9. CASE ~IsWhole(bytes, at, length)
  <2>1. ASSUME NEW k \in at..(at + 4), k \in DOMAIN bytes, bytes[k] < 128 PROVE FALSE
    <3>1. k \in Nat /\ k <= Len(bytes) /\ k - at + 1 \in 1..(length - 1)
      BY <1>3, <1>4, <1>8, <1>9, <2>1 DEF IsWhole
    <3>2. bytes[at + (k - at + 1) - 1] = w[k - at + 1]
      BY <1>3, <1>4, <3>1
    <3>3. at + (k - at + 1) - 1 = k
      BY <1>3, <3>1
    <3>4. w[k - at + 1] >= 128 /\ w[k - at + 1] \in Byte
      BY <1>4, <1>5, <1>6, <3>1
    <3> QED
      BY <2>1, <3>2, <3>3, <3>4 DEF Byte
  <2>2. Ends(bytes, at) = {}
    BY <2>1 DEF Ends
  <2> QED
    BY <1>7, <1>9, <2>2 DEF ReadsBack, Failed, length
<1>10. CASE IsWhole(bytes, at, length)
  <2>1. last \in at..(at + 4) /\ last \in 1..Len(bytes) /\ last \in Nat
    BY <1>3, <1>4, <1>8, <1>10 DEF IsWhole
  <2>2. \A k \in 1..length : bytes[at + k - 1] = w[k]
    BY <1>3, <1>4, <2>1
  <2>3. bytes[last] < 128
    BY <1>3, <1>4, <2>2
  <2>4. \A k \in at..(last - 1) : bytes[k] >= 128
    <3> TAKE k \in at..(last - 1)
    <3>1. k \in Nat /\ k - at + 1 \in 1..(length - 1) /\ at + (k - at + 1) - 1 = k
      BY <1>3, <1>4, <2>1
    <3> QED
      BY <1>4, <1>6, <2>2, <3>1
  <2>5. last \in Ends(bytes, at) /\ Ends(bytes, at) \subseteq Nat
    BY <1>3, <1>8, <2>1, <2>3 DEF Ends
  <2>6. Min(Ends(bytes, at)) \in Ends(bytes, at) /\ Min(Ends(bytes, at)) <= last
    BY <2>5, MinOf
  <2>7. Min(Ends(bytes, at)) \in at..last /\ bytes[Min(Ends(bytes, at))] < 128
    BY <1>3, <2>1, <2>5, <2>6 DEF Ends
  <2>8. bytes[Min(Ends(bytes, at))] \in Byte
    BY <1>3, <2>1, <2>7
  <2>9. Min(Ends(bytes, at)) = last
    <3>1. ASSUME NEW m \in at..last, m # last PROVE bytes[m] >= 128
      BY <1>3, <2>1, <2>4, <3>1
    <3> QED
      BY <2>7, <2>8, <3>1 DEF Byte
  <2>10. ReadVarint(bytes, at) = NumberUpto(bytes, at, last)
    BY <1>7, <2>5, <2>9
  <2>11. NumberUpto(bytes, at, last)
            = Got(last + 1, Part(bytes, at, last, 1) + Part(bytes, at, last, 2) + Part(bytes, at, last, 3)
                                + Part(bytes, at, last, 4) + Part(bytes, at, last, 5))
    BY DEF NumberUpto
  <2>12. last + 1 = at + length
    BY <1>3, <1>4
  <2>13. /\ Part(bytes, at, last, 1) = Low(w[1])
         /\ Part(bytes, at, last, 2) = IF length >= 2 THEN 128 * Low(w[2]) ELSE 0
         /\ Part(bytes, at, last, 3) = IF length >= 3 THEN 128 * (128 * Low(w[3])) ELSE 0
         /\ Part(bytes, at, last, 4) = IF length >= 4 THEN 128 * (128 * (128 * Low(w[4]))) ELSE 0
         /\ Part(bytes, at, last, 5) = IF length >= 5 THEN 128 * (128 * (128 * (128 * (w[5] % 16)))) ELSE 0
    <3>1. /\ at <= last
          /\ (at + 1 <= last) <=> length >= 2
          /\ (at + 2 <= last) <=> length >= 3
          /\ (at + 3 <= last) <=> length >= 4
          /\ (at + 4 <= last) <=> length >= 5
      BY <1>3, <1>4
    <3>2. /\ bytes[at] = w[1]
          /\ length >= 2 => bytes[at + 1] = w[2]
          /\ length >= 3 => bytes[at + 2] = w[3]
          /\ length >= 4 => bytes[at + 3] = w[4]
          /\ length >= 5 => bytes[at + 4] = w[5]
      BY <1>3, <1>4, <2>2
    <3>3. last <= Len(bytes)
      BY <2>1
    <3> HIDE DEF last
    <3>4. /\ Part(bytes, at, last, 1) = IF at <= last THEN Low(bytes[at]) ELSE 0
          /\ Part(bytes, at, last, 2) = IF at + 1 <= last THEN 128 * Low(bytes[at + 1]) ELSE 0
          /\ Part(bytes, at, last, 3) = IF at + 2 <= last THEN 128 * (128 * Low(bytes[at + 2])) ELSE 0
          /\ Part(bytes, at, last, 4) = IF at + 3 <= last THEN 128 * (128 * (128 * Low(bytes[at + 3]))) ELSE 0
          /\ Part(bytes, at, last, 5) = IF at + 4 <= last
                                         THEN 128 * (128 * (128 * (128 * (bytes[at + 4] % 16)))) ELSE 0
      <4>1. bytes \in Seq(Byte) /\ at \in Nat \ {0} /\ last \in Nat
        BY <1>3, <2>1
      <4> QED
        BY <3>3, <4>1, PartsAre, Zenon
    <3>5. Part(bytes, at, last, 1) = Low(w[1])
      BY <3>1, <3>2, <3>4, Zenon
    <3>6. Part(bytes, at, last, 2) = IF length >= 2 THEN 128 * Low(w[2]) ELSE 0
      BY <3>1, <3>2, <3>4, Zenon
    <3>7. Part(bytes, at, last, 3) = IF length >= 3 THEN 128 * (128 * Low(w[3])) ELSE 0
      BY <3>1, <3>2, <3>4, Zenon
    <3>8. Part(bytes, at, last, 4) = IF length >= 4 THEN 128 * (128 * (128 * Low(w[4]))) ELSE 0
      BY <3>1, <3>2, <3>4, Zenon
    <3>9. Part(bytes, at, last, 5) = IF length >= 5 THEN 128 * (128 * (128 * (128 * (w[5] % 16)))) ELSE 0
      BY <3>1, <3>2, <3>4, Zenon
    <3> QED
      BY <3>5, <3>6, <3>7, <3>8, <3>9
  <2>14. /\ length >= 1 => w[1] \in Byte
         /\ length >= 2 => w[2] \in Byte
         /\ length >= 3 => w[3] \in Byte
         /\ length >= 4 => w[4] \in Byte
         /\ length >= 5 => w[5] \in Byte
    BY <1>4, <1>5
  <2>15. Part(bytes, at, last, 1) + Part(bytes, at, last, 2) + Part(bytes, at, last, 3)
                                + Part(bytes, at, last, 4) + Part(bytes, at, last, 5) = n
    <3> HIDE DEF last
    <3>1. CASE length = 1
      BY <1>1, <1>4, <2>13, <2>14, <3>1, SMT DEF Low, Byte
    <3>2. CASE length = 2
      BY <1>1, <1>4, <2>13, <2>14, <3>2, SMT DEF Low, Byte
    <3>3. CASE length = 3
      <4>1. /\ w[1] \in 0..255
            /\ w[2] \in 0..255
            /\ w[3] \in 0..255
        BY <2>14, <3>3 DEF Byte
      <4>2. /\ Low(w[1]) = w[1] - 128
            /\ Low(w[2]) = w[2] - 128
            /\ Low(w[3]) = w[3]
        BY <1>4, <3>3, <4>1, SMT DEF Low
      <4>3. /\ Part(bytes, at, last, 1) = w[1] - 128
            /\ Part(bytes, at, last, 2) = 128 * (w[2] - 128)
            /\ Part(bytes, at, last, 3) = 128 * (128 * w[3])
            /\ Part(bytes, at, last, 4) = 0
            /\ Part(bytes, at, last, 5) = 0
        BY <2>13, <3>3, <4>2, SMT
      <4> QED
        <5>1. w[1] \in Int /\ w[2] \in Int /\ w[3] \in Int
          BY <4>1
        <5>2. n = (w[1] - 128) + 128 * ((w[2] - 128) + 128 * w[3])
          BY <1>4, <3>3
        <5> QED
          <6>1. n = (w[1] - 128) + 128 * (w[2] - 128) + 128 * (128 * w[3]) + 0 + 0
            BY <5>1, <5>2, Horner
          <6> QED
            BY <4>3, <6>1
    <3>4. CASE length = 4
      <4>1. /\ w[1] \in 0..255
            /\ w[2] \in 0..255
            /\ w[3] \in 0..255
            /\ w[4] \in 0..255
        BY <2>14, <3>4 DEF Byte
      <4>2. /\ Low(w[1]) = w[1] - 128
            /\ Low(w[2]) = w[2] - 128
            /\ Low(w[3]) = w[3] - 128
            /\ Low(w[4]) = w[4]
        BY <1>4, <3>4, <4>1, SMT DEF Low
      <4>3. /\ Part(bytes, at, last, 1) = w[1] - 128
            /\ Part(bytes, at, last, 2) = 128 * (w[2] - 128)
            /\ Part(bytes, at, last, 3) = 128 * (128 * (w[3] - 128))
            /\ Part(bytes, at, last, 4) = 128 * (128 * (128 * w[4]))
            /\ Part(bytes, at, last, 5) = 0
        BY <2>13, <3>4, <4>2, SMT
      <4> QED
        <5>1. w[1] \in Int /\ w[2] \in Int /\ w[3] \in Int /\ w[4] \in Int
          BY <4>1
        <5>2. n = (w[1] - 128) + 128 * ((w[2] - 128) + 128 * ((w[3] - 128) + 128 * w[4]))
          BY <1>4, <3>4
        <5> QED
          <6>1. n = (w[1] - 128) + 128 * (w[2] - 128) + 128 * (128 * (w[3] - 128)) + 128 * (128 * (128 * w[4])) + 0
            BY <5>1, <5>2, Horner
          <6> QED
            BY <4>3, <6>1
    <3>5. CASE length = 5
      <4>1. /\ w[1] \in 0..255
            /\ w[2] \in 0..255
            /\ w[3] \in 0..255
            /\ w[4] \in 0..255
            /\ w[5] \in 0..255
        BY <2>14, <3>5 DEF Byte
      <4>2. /\ Low(w[1]) = w[1] - 128
            /\ Low(w[2]) = w[2] - 128
            /\ Low(w[3]) = w[3] - 128
            /\ Low(w[4]) = w[4] - 128
            /\ w[5] % 16 = w[5]
        BY <1>4, <3>5, <4>1, SMT DEF Low
      <4>3. /\ Part(bytes, at, last, 1) = w[1] - 128
            /\ Part(bytes, at, last, 2) = 128 * (w[2] - 128)
            /\ Part(bytes, at, last, 3) = 128 * (128 * (w[3] - 128))
            /\ Part(bytes, at, last, 4) = 128 * (128 * (128 * (w[4] - 128)))
            /\ Part(bytes, at, last, 5) = 128 * (128 * (128 * (128 * w[5])))
        BY <2>13, <3>5, <4>2, SMT
      <4> QED
        <5>1. w[1] \in Int /\ w[2] \in Int /\ w[3] \in Int /\ w[4] \in Int /\ w[5] \in Int
          BY <4>1
        <5>2. n = (w[1] - 128) + 128 * ((w[2] - 128) + 128 * ((w[3] - 128) + 128 * ((w[4] - 128) + 128 * w[5])))
          BY <1>4, <3>5
        <5> QED
          <6>1. n = (w[1] - 128) + 128 * (w[2] - 128) + 128 * (128 * (w[3] - 128)) + 128 * (128 * (128 * (w[4] - 128)))
                    + 128 * (128 * (128 * (128 * w[5])))
            BY <5>1, <5>2, Horner
          <6> QED
            BY <4>3, <6>1
    <3> QED
      BY <1>4, <3>1, <3>2, <3>3, <3>4, <3>5
  <2>16. ReadVarint(bytes, at) = Got(at + length, n)
    BY <2>10, <2>11, <2>12, <2>15
  <2> QED
    BY <1>10, <2>16 DEF ReadsBack, length
<1> QED
  BY <1>9, <1>10

\* Bytes that are one piece after the other.
LEMMA HoldsBoth ==
    ASSUME NEW bytes, NEW at, NEW u \in Seq(Byte), NEW v \in Seq(Byte), Holds(bytes, at, u \o v)
    PROVE  /\ Holds(bytes, at, u) /\ Holds(bytes, at + Len(u), v)
           /\ Len(u \o v) = Len(u) + Len(v) /\ Len(u) \in Nat /\ Len(v) \in Nat
<1>1. bytes \in Seq(Byte) /\ at \in Nat \ {0}
  BY DEF Holds
<1>2. Len(u \o v) = Len(u) + Len(v) /\ Len(u) \in Nat /\ Len(v) \in Nat
  OBVIOUS
<1>3. \A k \in 1..(Len(u) + Len(v)) : at + k - 1 <= Len(bytes) => bytes[at + k - 1] = (u \o v)[k]
  BY <1>2 DEF Holds
<1>4. ASSUME NEW k \in 1..Len(u), at + k - 1 <= Len(bytes) PROVE bytes[at + k - 1] = u[k]
  <2>1. (u \o v)[k] = u[k] /\ k \in 1..(Len(u) + Len(v))
    BY <1>2
  <2> QED
    BY <1>3, <1>4, <2>1
<1>5. ASSUME NEW k \in 1..Len(v), (at + Len(u)) + k - 1 <= Len(bytes) PROVE bytes[(at + Len(u)) + k - 1] = v[k]
  <2>1. (u \o v)[Len(u) + k] = v[k] /\ Len(u) + k \in 1..(Len(u) + Len(v))
    BY <1>2
  <2>2. at + (Len(u) + k) - 1 = (at + Len(u)) + k - 1
    BY <1>1, <1>2
  <2> QED
    BY <1>3, <1>5, <2>1, <2>2
<1>6. at + Len(u) \in Nat \ {0}
  BY <1>1, <1>2
<1> QED
  BY <1>1, <1>2, <1>4, <1>5, <1>6 DEF Holds

\* What is whole, and what is read.
LEMMA ReadsApart ==
    ASSUME NEW r, NEW bytes \in Seq(Byte), NEW at \in Nat \ {0}, NEW length \in Nat, NEW v,
           ReadsBack(r, bytes, at, length, v)
    PROVE  /\ r.at = 0 <=> ~IsWhole(bytes, at, length)
           /\ r.at # 0 => r = Got(at + length, v) /\ r.at = at + length /\ r.v = v
           /\ r.at # 0 => at + length \in Nat \ {0}
BY DEF ReadsBack, Got, At0, IsWhole

\* A part of what is whole is whole.
LEMMA WholePart ==
    ASSUME NEW bytes \in Seq(Byte), NEW at \in Nat, NEW a \in Nat, NEW b \in Nat
    PROVE  IsWhole(bytes, at, a + b) => IsWhole(bytes, at, a) /\ IsWhole(bytes, at + a, b)
BY DEF IsWhole

\* Nothing is read at the place of what could not be read.
LEMMA NothingReads ==
    ASSUME NEW bytes \in Seq(Byte)
    PROVE  ReadByte(bytes, 0) = Failed /\ ReadVarint(bytes, 0) = Failed /\ Failed.at = 0 /\ Failed.v = 0
<1>1. 0 \notin DOMAIN bytes
  OBVIOUS
<1> QED
  BY <1>1 DEF ReadByte, ReadVarint, Failed, At0

\* A byte is read back.
LEMMA ByteReads ==
    ASSUME NEW b \in Byte, NEW bytes, NEW at, Holds(bytes, at, <<b>>)
    PROVE  ReadsBack(ReadByte(bytes, at), bytes, at, 1, b)
<1>1. bytes \in Seq(Byte) /\ at \in Nat \ {0} /\ (at <= Len(bytes) => bytes[at] = b)
  <2>1. Len(<<b>>) = 1 /\ <<b>>[1] = b
    OBVIOUS
  <2> QED
    BY <2>1 DEF Holds
<1>2. DOMAIN bytes = 1..Len(bytes) /\ Len(bytes) \in Nat
  BY <1>1
<1>3. IsWhole(bytes, at, 1) <=> at \in DOMAIN bytes
  BY <1>1, <1>2 DEF IsWhole
<1>4. CASE at \in DOMAIN bytes
  BY <1>1, <1>2, <1>3, <1>4 DEF ReadByte, ReadsBack
<1>5. CASE at \notin DOMAIN bytes
  BY <1>3, <1>5 DEF ReadByte, ReadsBack, Failed, At0
<1> QED
  BY <1>4, <1>5

\* The sign of a number is restored.
LEMMA ZigzagRestores ==
    ASSUME NEW n \in Int
    PROVE  Zigzag(n) \in Nat /\ Unzigzag(Zigzag(n)) = n
<1>1. CASE n >= 0
  <2>1. Zigzag(n) = 2 * n /\ 2 * n \in Nat
    BY <1>1 DEF Zigzag
  <2>2. (2 * n) % 2 = 0 /\ (2 * n) \div 2 = n
    BY <1>1
  <2> QED
    BY <2>1, <2>2 DEF Unzigzag
<1>2. CASE n < 0
  <2>1. Zigzag(n) = -2 * n - 1 /\ -2 * n - 1 \in Nat
    BY <1>2 DEF Zigzag
  <2>2. (-2 * n - 1) % 2 = 1 /\ -((-2 * n - 1) \div 2) - 1 = n
    BY <1>2
  <2> QED
    BY <2>1, <2>2 DEF Unzigzag
<1> QED
  BY <1>1, <1>2

\* Encrypting twice gives back the text.
LEMMA CryptRestores ==
    ASSUME NEW text \in Seq(Byte), NEW key \in Nat, NEW domain \in Nat, NEW index \in Nat
    PROVE  /\ Crypt(text, key, domain, index) \in Seq(Byte)
           /\ Len(Crypt(text, key, domain, index)) = Len(text)
           /\ Crypt(Crypt(text, key, domain, index), key, domain, index) = text
<1>1. CASE key = NoKey
  BY <1>1 DEF Crypt
<1>2. CASE key # NoKey
  <2> DEFINE s == Stream(key, domain, index, Len(text))  c == [k \in 1..Len(text) |-> (s - text[k]) % 256]
  <2>1. s \in Int
    BY DEF Stream
  <2>2. \A k \in 1..Len(text) : text[k] \in Byte
    OBVIOUS
  <2>3. \A b \in Byte : (s - b) % 256 \in Byte /\ (s - ((s - b) % 256)) % 256 = b
    <3> HIDE DEF s
    <3> QED
      BY <2>1, SMT DEF Byte
  <2>4. Crypt(text, key, domain, index) = c
    BY <1>2 DEF Crypt
  <2> HIDE DEF s
  <2>5. c \in Seq(Byte) /\ Len(c) = Len(text) /\ \A k \in 1..Len(text) : c[k] = (s - text[k]) % 256
    BY <2>2, <2>3
  <2>6. Crypt(c, key, domain, index) = [k \in 1..Len(text) |-> (s - c[k]) % 256]
    BY <1>2, <2>5 DEF Crypt, s
  <2>7. \A k \in 1..Len(text) : (s - c[k]) % 256 = text[k]
    BY <2>2, <2>3, <2>5
  <2> HIDE DEF c
  <2>8. [k \in 1..Len(text) |-> (s - c[k]) % 256] = [k \in 1..Len(text) |-> text[k]]
    BY <2>7
  <2>9. text = [k \in 1..Len(text) |-> text[k]]
    OBVIOUS
  <2> QED
    BY <2>4, <2>5, <2>6, <2>8, <2>9
<1> QED
  BY <1>1, <1>2

\* A reference to a name is read as the operand it was.
LEMMA NameRefRestores ==
    ASSUME NEW o \in BytecodeOperand, IsOfKind(o, "nameref")
    PROVE  U32(NameRef(o)) /\ FromNameRef(NameRef(o)) = o
<1>1. o = <<o[1], o[2]>> /\ o[1] \in OperandKinds /\ o[2] \in Nat
  BY DEF BytecodeOperand
<1>2. o[1] \in {"name", "slot", "extern"}
  <2>1. "nameref" \notin OperandKinds /\ "nameref" \notin Tagged
    BY DEF OperandKinds, Tagged
  <2>2. o[1] \in Range(NameRefKinds)
    BY <1>1, <2>1 DEF IsOfKind
  <2>3. DOMAIN NameRefKinds = 1..3 /\ NameRefKinds[1] = "name" /\ NameRefKinds[2] = "slot" /\ NameRefKinds[3] = "extern"
    BY DEF NameRefKinds
  <2> QED
    BY <2>2, <2>3 DEF Range
<1>3. U32(4 * o[2] + 2) /\ Number(o) = o[2]
  BY <1>2 DEF BytecodeOperand, Number
<1> DEFINE i == CHOOSE i \in 1..3 : NameRefKinds[i] = o[1]
<1>4. NameRefKinds[1] = "name" /\ NameRefKinds[2] = "slot" /\ NameRefKinds[3] = "extern"
  BY DEF NameRefKinds
<1>5. i \in 1..3 /\ NameRefKinds[i] = o[1]
  BY <1>2, <1>4
<1>6. NameRef(o) = 4 * o[2] + i - 1
  BY <1>3 DEF NameRef
<1> HIDE DEF i
<1>7. \A k \in 0..2, n \in Nat : (4 * n + k) % 4 = k /\ (4 * n + k) \div 4 = n
  OBVIOUS
<1>8. PICK k \in 0..2 : k = i - 1
  BY <1>5
<1>9. NameRef(o) = 4 * o[2] + k /\ k + 1 = i
  BY <1>1, <1>5, <1>6, <1>8
<1>10. NameRef(o) % 4 = k /\ NameRef(o) \div 4 = o[2]
  BY <1>1, <1>7, <1>9
<1>11. U32(NameRef(o))
  BY <1>1, <1>3, <1>9, SMT DEF U32
<1>12. FromNameRef(NameRef(o)) = Operand(NameRefKinds[i], o[2])
  BY <1>9, <1>10 DEF FromNameRef
<1> QED
  BY <1>1, <1>5, <1>11, <1>12 DEF Operand

\* And so is one that fits into a byte.
LEMMA CompactRestores ==
    ASSUME NEW o \in BytecodeOperand, IsCompact(o)
    PROVE  CompactByte(o) \in 128..255 /\ FromCompact(CompactByte(o)) = o
<1>1. o = <<o[1], o[2]>> /\ o[1] \in OperandKinds /\ o[2] \in Nat /\ Number(o) = o[2]
  BY DEF BytecodeOperand, Number
<1>2. o[1] \in CompactKinds
  BY <1>1 DEF IsCompact, CompactSize, CompactKinds, OperandKinds
<1> DEFINE b == CompactByte(o)
<1>3. CompactBase(o[1]) <= b /\ b < CompactBase(o[1]) + CompactSize(o[1]) /\ b - CompactBase(o[1]) = o[2] /\ b \in 128..255
  BY <1>1, <1>2 DEF CompactByte, CompactBase, CompactSize, IsCompact, CompactKinds
<1>4. \A k \in CompactKinds :
        CompactBase(k) <= b /\ b < CompactBase(k) + CompactSize(k) => k = o[1]
  BY <1>2, <1>3 DEF CompactBase, CompactSize, CompactKinds
<1>5. (CHOOSE k \in CompactKinds : CompactBase(k) <= b /\ b < CompactBase(k) + CompactSize(k)) = o[1]
  BY <1>2, <1>3, <1>4
<1>6. FromCompact(b) = Operand(o[1], o[2])
  BY <1>3, <1>5 DEF FromCompact
<1> QED
  BY <1>1, <1>3, <1>6 DEF Operand

\* What is whole is a part of the bytes.
LEMMA WholeBytes ==
    ASSUME NEW bytes, NEW at, NEW w, Holds(bytes, at, w), IsWhole(bytes, at, Len(w))
    PROVE  SubSeq(bytes, at, at + Len(w) - 1) = w
<1>1. bytes \in Seq(Byte) /\ at \in Nat \ {0} /\ w \in Seq(Byte) /\ at + Len(w) - 1 <= Len(bytes)
  BY DEF Holds, IsWhole
<1>1a. PICK l \in Nat, n \in Nat : l = Len(w) /\ n = Len(bytes) /\ at + l - 1 <= n
  BY <1>1
<1>2. \A k \in 1..l : bytes[at + k - 1] = w[k]
  <2>1. ASSUME NEW k \in 1..l PROVE at + k - 1 <= n
    BY <1>1, <1>1a
  <2> QED
    BY <1>1a, <2>1 DEF Holds
<1> DEFINE s == SubSeq(bytes, at, at + l - 1)
<1>3. s \in Seq(Byte) /\ Len(s) = l /\ \A k \in 1..l : s[k] = bytes[at + k - 1]
  <2>1. s \in Seq(Byte) /\ Len(s) = l
    BY <1>1, <1>1a
  <2>2. ASSUME NEW k \in 1..l PROVE s[k] = bytes[at + k - 1]
    BY <1>1, <1>1a
  <2> QED
    BY <2>1, <2>2
<1> HIDE DEF s
<1>4. s = w
  BY <1>1, <1>1a, <1>2, <1>3
<1> QED
  BY <1>1a, <1>4 DEF s

\* An entry of a table is read back.
LEMMA AtomReads ==
    ASSUME NEW table \in Seq(Seq(Byte)), U32(Len(table)), NEW i \in DOMAIN table,
           NEW bytes, NEW at, Holds(bytes, at, Varint[i - 1])
    PROVE  ReadsBack(ReadAtom(bytes, at, table), bytes, at, VarintLength[i - 1], table[i])
<1>1. i \in 1..Len(table) /\ Len(table) \in Nat /\ i - 1 \in Nat
  OBVIOUS
<1>2. U32(i - 1)
  BY <1>1, SMT DEF U32
<1> DEFINE entry == ReadVarint(bytes, at)
<1>3. ReadsBack(entry, bytes, at, VarintLength[i - 1], i - 1)
  BY <1>2, VarintReads
<1>4. VarintLength[i - 1] \in Nat /\ bytes \in Seq(Byte) /\ at \in Nat \ {0}
  BY <1>1, VarintType DEF Holds
<1> HIDE DEF entry
<1>5. ReadAtom(bytes, at, table)
        = IF entry.at # At0 /\ entry.v < Len(table) THEN Got(entry.at, table[entry.v + 1]) ELSE Failed
  BY DEF ReadAtom, entry
<1>6. CASE entry.at = 0
  <2>1. ReadAtom(bytes, at, table) = Failed /\ ~IsWhole(bytes, at, VarintLength[i - 1])
    BY <1>3, <1>4, <1>5, <1>6, ReadsApart DEF At0
  <2> QED
    BY <2>1 DEF ReadsBack, Failed
<1>7. CASE entry.at # 0
  <2>1. entry.at = at + VarintLength[i - 1] /\ entry.v = i - 1 /\ IsWhole(bytes, at, VarintLength[i - 1])
    BY <1>3, <1>4, <1>7, ReadsApart
  <2>2. entry.v < Len(table) /\ entry.v + 1 = i
    BY <1>1, <2>1
  <2>3. ReadAtom(bytes, at, table) = Got(at + VarintLength[i - 1], table[i])
    BY <1>5, <1>7, <2>1, <2>2 DEF At0
  <2> QED
    BY <2>1, <2>3 DEF ReadsBack
<1> QED
  BY <1>6, <1>7

\* A string that is written with bytes of its own is read back.
LEMMA OwnReads ==
    ASSUME NEW text \in Seq(Byte), NEW key \in Nat, NEW domain \in Nat, NEW index \in Nat,
           NEW bytes, NEW at, Holds(bytes, at, Crypt(text, key, domain, index))
    PROVE  ReadsBack(ReadOwn(bytes, at, Len(text), key, domain, index), bytes, at, Len(text), text)
<1> DEFINE c == Crypt(text, key, domain, index)
<1>1. c \in Seq(Byte) /\ Len(c) = Len(text) /\ Crypt(c, key, domain, index) = text
  BY CryptRestores
<1> HIDE DEF c
<1>2. Holds(bytes, at, c)
  BY DEF c
<1>3. CASE IsWhole(bytes, at, Len(text))
  <2>1. SubSeq(bytes, at, at + Len(text) - 1) = c
    BY <1>1, <1>2, <1>3, WholeBytes
  <2>2. ReadOwn(bytes, at, Len(text), key, domain, index) = Got(at + Len(text), text)
    BY <1>1, <1>3, <2>1 DEF ReadOwn, IsWhole
  <2> QED
    BY <1>3, <2>2 DEF ReadsBack
<1>4. CASE ~IsWhole(bytes, at, Len(text))
  BY <1>4 DEF ReadOwn, IsWhole, ReadsBack, Failed
<1> QED
  BY <1>3, <1>4

\* A prefix and what is left of a text behind it.
LEMMA SuffixRestores ==
    ASSUME NEW text \in Seq(Byte), PrefixesOf(text) # {}
    PROVE  PrefixAtoms[LongestPrefix(text)] \o Suffix(text) = text
<1> DEFINE p == PrefixAtoms[LongestPrefix(text)]
<1>1. LongestPrefix(text) \in DOMAIN PrefixAtoms /\ IsStrictPrefix(p, text)
  BY SuffixType DEF PrefixesOf
<1>2. p \in Seq(Byte)
  BY <1>1, TablesAssumption
<1>3. Suffix(text) = SubSeq(text, Len(p) + 1, Len(text))
  BY DEF Suffix
<1> HIDE DEF p
<1>4. Len(p) <= Len(text) /\ SubSeq(p, 1, Len(p)) = SubSeq(text, 1, Len(p))
  BY <1>1, <1>2 DEF IsStrictPrefix, IsPrefix
<1>5. p = SubSeq(text, 1, Len(p))
  BY <1>2, <1>4
<1>6. SubSeq(text, 1, Len(p)) \o SubSeq(text, Len(p) + 1, Len(text)) = text
  <2> DEFINE a == SubSeq(text, 1, Len(p))  b == SubSeq(text, Len(p) + 1, Len(text))
  <2>1. /\ a \in Seq(Byte) /\ Len(a) = Len(p) /\ \A k \in 1..Len(p) : a[k] = text[k]
        /\ b \in Seq(Byte) /\ Len(b) = Len(text) - Len(p)
        /\ \A k \in 1..(Len(text) - Len(p)) : b[k] = text[Len(p) + k]
    BY <1>2, <1>4
  <2> HIDE DEF a, b
  <2>a. /\ a \o b \in Seq(Byte) /\ Len(a \o b) = Len(a) + Len(b)
        /\ \A k \in 1..(Len(a) + Len(b)) : (a \o b)[k] = IF k <= Len(a) THEN a[k] ELSE b[k - Len(a)]
    BY <2>1, ConcatProperties
  <2>2. /\ a \o b \in Seq(Byte) /\ Len(a \o b) = Len(text)
        /\ \A k \in 1..Len(text) : (a \o b)[k] = IF k <= Len(p) THEN text[k] ELSE b[k - Len(p)]
    BY <1>2, <1>4, <2>1, <2>a
  <2>3. ASSUME NEW k \in 1..Len(text), ~(k <= Len(p)) PROVE b[k - Len(p)] = text[k]
    <3>1. k - Len(p) \in 1..(Len(text) - Len(p)) /\ Len(p) + (k - Len(p)) = k
      BY <1>2, <1>4, <2>3
    <3> QED
      BY <2>1, <3>1
  <2>4. \A k \in 1..Len(text) : (a \o b)[k] = text[k]
    BY <2>2, <2>3
  <2>5. a \o b = text
    <3> DEFINE c == a \o b
    <3> HIDE DEF c
    <3>1. c \in Seq(Byte) /\ Len(c) = Len(text) /\ \A k \in 1..Len(text) : c[k] = text[k]
      BY <2>2, <2>4 DEF c
    <3>2. c = text
      BY <3>1
    <3> QED
      BY <3>2 DEF c
  <2> QED
    BY <2>5 DEF a, b
<1> QED
  BY <1>3, <1>5, <1>6 DEF p

\* The tables have numbers of 32 bits.
LEMMA TableSizes == U32(Len(StringAtoms)) /\ U32(Len(PrefixAtoms)) /\ U32(0) /\ U32(1)
BY TablesAssumption, SMT DEF U32

\* Pieces that follow each other.
LEMMA Pieces ==
    ASSUME NEW u \in Seq(Byte), NEW v \in Seq(Byte), NEW x \in Seq(Byte)
    PROVE  /\ u \o v \in Seq(Byte) /\ Len(u \o v) = Len(u) + Len(v) /\ Len(u) \in Nat /\ Len(v) \in Nat
           /\ (u \o v) \o x = u \o (v \o x)
BY ConcatAssociative

\* The same as a fact about three of them.
Regrouped(u, v, x) == (u \o v) \o x = u \o (v \o x)
LEMMA PiecesRegroup ==
    ASSUME NEW u \in Seq(Byte), NEW v \in Seq(Byte), NEW x \in Seq(Byte)
    PROVE  Regrouped(u, v, x)
BY Pieces DEF Regrouped

\* After the first piece of so many bytes, which said x: either they are not whole, or v
\* is behind it, and what is read of v is read of them all.
GoesOn(r, bytes, at, x, v, length) ==
    /\ r.at = 0 => ~IsWhole(bytes, at, length)
    /\ r.at # 0 => /\ r.v = x /\ Holds(bytes, r.at, v) /\ r.at \in Nat \ {0}
                   /\ \A q, y : ReadsBack(q, bytes, r.at, Len(v), y) => ReadsBack(q, bytes, at, length, y)
                   /\ IsWhole(bytes, r.at, Len(v)) <=> IsWhole(bytes, at, length)
                   /\ r.at + Len(v) = at + length

\* What is read of the first bytes leaves the others to be read.
LEMMA ReadsFirst ==
    ASSUME NEW u \in Seq(Byte), NEW v \in Seq(Byte), NEW bytes, NEW at, Holds(bytes, at, u \o v),
           NEW r, NEW n, n = Len(u), NEW x, ReadsBack(r, bytes, at, n, x)
    PROVE  GoesOn(r, bytes, at, x, v, Len(u \o v))
<1>1. bytes \in Seq(Byte) /\ at \in Nat \ {0}
  BY DEF Holds
<1>2. Holds(bytes, at + n, v) /\ Len(u \o v) = n + Len(v) /\ n \in Nat /\ Len(v) \in Nat
  <2>1. Holds(bytes, at + Len(u), v)
    BY HoldsBoth
  <2>2. Len(u \o v) = Len(u) + Len(v) /\ Len(u) \in Nat /\ Len(v) \in Nat
    OBVIOUS
  <2> QED
    BY <2>1, <2>2
<1>3. CASE r.at = 0
  <2>1. ~IsWhole(bytes, at, n)
    BY <1>1, <1>2, <1>3, ReadsApart
  <2>2. ~IsWhole(bytes, at, Len(u \o v))
    BY <1>1, <1>2, <2>1 DEF IsWhole
  <2> QED
    BY <1>3, <2>2, Zenon DEF GoesOn
<1>4. CASE r.at # 0
  <2>1. r.at = at + n /\ r.v = x /\ IsWhole(bytes, at, n) /\ r.at \in Nat \ {0}
    BY <1>1, <1>2, <1>4, ReadsApart
  <2>2. IsWhole(bytes, r.at, Len(v)) <=> IsWhole(bytes, at, Len(u \o v))
    BY <1>1, <1>2, <2>1 DEF IsWhole
  <2>3. r.at + Len(v) = at + Len(u \o v)
    BY <1>1, <1>2, <2>1
  <2>4. ASSUME NEW q, NEW y, ReadsBack(q, bytes, r.at, Len(v), y) PROVE ReadsBack(q, bytes, at, Len(u \o v), y)
    BY <2>2, <2>3, <2>4 DEF ReadsBack
  <2> QED
    BY <1>2, <1>4, <2>1, <2>2, <2>3, <2>4, Zenon DEF GoesOn
<1> QED
  BY <1>3, <1>4

\* What is not whole is not read.
LEMMA ReadsNot ==
    ASSUME NEW bytes, NEW at, NEW length, ~IsWhole(bytes, at, length), NEW r, r.at = 0, NEW v
    PROVE  ReadsBack(r, bytes, at, length, v)
BY DEF ReadsBack, At0

\* A string is read back: induction over how long it is, for a prefix leaves less.
TextReads(text, key, domain, index) ==
    \A bytes, at : Holds(bytes, at, TextBytes(key, domain, index)[text]) =>
        ReadsBack(TextReadAt(bytes, key, domain, index)[at], bytes, at,
                  Len(TextBytes(key, domain, index)[text]), text)

\* A text is read back if the shorter ones it ends with are.
LEMMA TextReadsStep ==
    ASSUME NEW text \in Seq(Byte), U32(Len(text) + 2),
           NEW key \in Nat, NEW domain \in Nat, NEW index \in Nat,
           PrefixesOf(text) # {} => TextReads(Suffix(text), key, domain, index)
    PROVE  TextReads(text, key, domain, index)
<1> DEFINE w == TextBytes(key, domain, index)
<1>1. w[text] = TextRule(w, text, key, domain, index)
  BY TextStep
<1> SUFFICES ASSUME NEW bytes, NEW at, Holds(bytes, at, w[text])
             PROVE  ReadsBack(TextReadAt(bytes, key, domain, index)[at], bytes, at, Len(w[text]), text)
  BY DEF TextReads
<1>2. bytes \in Seq(Byte) /\ at \in Nat \ {0}
  BY DEF Holds
<1> DEFINE read == TextReadAt(bytes, key, domain, index)
           mark == ReadVarint(bytes, at)
           prefix == ReadAtom(bytes, mark.at, PrefixAtoms)
<1>3. read[at] = TextReadRule(read, bytes, at, key, domain, index)
  BY <1>2, TextReadStep
<1>4. read[at] = IF mark.at = 0 THEN Failed
                 ELSE IF mark.v = 0 THEN ReadAtom(bytes, mark.at, StringAtoms)
                 ELSE IF mark.v = 1
                 THEN IF prefix.at # 0 /\ read[prefix.at].at # 0
                      THEN Got(read[prefix.at].at, prefix.v \o read[prefix.at].v) ELSE Failed
                 ELSE ReadOwn(bytes, mark.at, mark.v - 2, key, domain, index)
  BY <1>3 DEF TextReadRule, At0
<1>f. Failed.at = 0
  BY DEF Failed, At0
<1>5. ASSUME NEW n \in Nat, U32(n), NEW rest \in Seq(Byte), w[text] = Varint[n] \o rest
      PROVE  GoesOn(mark, bytes, at, n, rest, Len(w[text]))
  <2>1. Varint[n] \in Seq(Byte) /\ Len(Varint[n]) = VarintLength[n]
    BY VarintType
  <2>2. Holds(bytes, at, Varint[n] \o rest)
    BY <1>5
  <2>3. Holds(bytes, at, Varint[n])
    BY <2>1, <2>2, HoldsBoth
  <2>4. ReadsBack(mark, bytes, at, VarintLength[n], n)
    BY <1>5, <2>3, VarintReads
  <2> HIDE DEF mark, w, read, prefix
  <2> QED
    BY <1>5, <2>1, <2>2, <2>4, ReadsFirst
<1>6a. ASSUME mark.at = 0, ~IsWhole(bytes, at, Len(w[text]))
       PROVE  ReadsBack(read[at], bytes, at, Len(w[text]), text)
  <2>1. read[at].at = 0
    BY <1>4, <1>6a, <1>f
  <2> QED
    BY <1>6a, <2>1, ReadsNot
<1>6. CASE PositionIn(StringAtoms, text) # {}
  <2> DEFINE i == Min(PositionIn(StringAtoms, text))
  <2>1. PositionIn(StringAtoms, text) \subseteq Nat /\ PositionIn(StringAtoms, text) \subseteq DOMAIN StringAtoms
    BY TablesAssumption DEF PositionIn
  <2>2. i \in PositionIn(StringAtoms, text)
    BY <1>6, <2>1, MinOf
  <2>3. i \in DOMAIN StringAtoms /\ StringAtoms[i] = text /\ i - 1 \in Nat
    BY <2>1, <2>2, TablesAssumption DEF PositionIn
  <2>4. w[text] = Varint[0] \o Varint[i - 1]
    BY <1>1, <1>6 DEF TextRule
  <2>5. Varint[i - 1] \in Seq(Byte) /\ Len(Varint[i - 1]) = VarintLength[i - 1]
    BY <2>3, VarintType
  <2>6. U32(0) /\ 0 \in Nat /\ U32(Len(StringAtoms)) /\ StringAtoms \in Seq(Seq(Byte))
    BY TableSizes, TablesAssumption
  <2> HIDE DEF i, w, mark, read, prefix
  <2>7. ASSUME mark.at = 0 PROVE ReadsBack(read[at], bytes, at, Len(w[text]), text)
    BY <1>5, <1>6a, <2>4, <2>5, <2>6, <2>7, Zenon DEF GoesOn
  <2>8. ASSUME mark.at # 0 PROVE ReadsBack(read[at], bytes, at, Len(w[text]), text)
    <3>1. /\ mark.v = 0 /\ Holds(bytes, mark.at, Varint[i - 1])
          /\ \A q, y : ReadsBack(q, bytes, mark.at, Len(Varint[i - 1]), y)
                            => ReadsBack(q, bytes, at, Len(w[text]), y)
      BY <1>5, <2>4, <2>5, <2>6, <2>8, Zenon DEF GoesOn
    <3>2. ReadsBack(ReadAtom(bytes, mark.at, StringAtoms), bytes, mark.at, VarintLength[i - 1], text)
      BY <2>3, <2>6, <3>1, AtomReads
    <3>3. read[at] = ReadAtom(bytes, mark.at, StringAtoms)
      BY <1>4, <2>8, <3>1
    <3> QED
      BY <2>5, <3>1, <3>2, <3>3, Zenon
  <2> QED
    BY <2>7, <2>8 DEF w, read
<1>7. CASE PositionIn(StringAtoms, text) = {} /\ PrefixesOf(text) # {}
  <2> DEFINE i == LongestPrefix(text)  s == Suffix(text)
  <2>1. i \in DOMAIN PrefixAtoms /\ s \in Seq(Byte) /\ PrefixAtoms[i] \o s = text
    BY <1>7, SuffixType, SuffixRestores
  <2>2. i - 1 \in Nat /\ U32(1) /\ 1 \in Nat /\ U32(Len(PrefixAtoms)) /\ PrefixAtoms \in Seq(Seq(Byte))
    BY <2>1, TableSizes, TablesAssumption
  <2>3. w[text] = Varint[1] \o Varint[i - 1] \o w[s]
    BY <1>1, <1>7 DEF TextRule
  <2>4. Varint[i - 1] \in Seq(Byte) /\ Len(Varint[i - 1]) = VarintLength[i - 1] /\ Varint[1] \in Seq(Byte)
    BY <2>2, VarintType
  <2>5. w[s] \in Seq(Byte)
    <3>1. StringBytes(s, key, domain, index) \in Seq(Byte)
      BY <2>1, StringType
    <3> QED
      BY <3>1 DEF StringBytes
  <2>6. TextReads(s, key, domain, index)
    BY <1>7
  <2>7. \A p : Holds(bytes, p, w[s]) => ReadsBack(read[p], bytes, p, Len(w[s]), s)
    BY <2>6 DEF TextReads
  <2> HIDE DEF i, s, w, mark, read
  <2> DEFINE rest == Varint[i - 1] \o w[s]
  <2>8. w[text] = Varint[1] \o rest /\ rest \in Seq(Byte)
    <3>1. PICK a \in Seq(Byte), b \in Seq(Byte), c \in Seq(Byte) : a = Varint[1] /\ b = Varint[i - 1] /\ c = w[s]
      BY <2>4, <2>5
    <3>2. (a \o b) \o c = a \o (b \o c)
      <4>1. Regrouped(a, b, c)
        BY PiecesRegroup
      <4> QED
        BY <4>1, Zenon DEF Regrouped
    <3>3. b \o c \in Seq(Byte)
      OBVIOUS
    <3> QED
      BY <2>3, <3>1, <3>2, <3>3, Zenon
  <2> HIDE DEF rest
  <2>9. ASSUME mark.at = 0 PROVE ReadsBack(read[at], bytes, at, Len(w[text]), text)
    BY <1>5, <1>6a, <2>2, <2>8, <2>9, Zenon DEF GoesOn
  <2>10. ASSUME mark.at # 0 PROVE ReadsBack(read[at], bytes, at, Len(w[text]), text)
    <3>1. /\ mark.v = 1 /\ Holds(bytes, mark.at, rest) /\ mark.at \in Nat \ {0}
          /\ \A q, y : ReadsBack(q, bytes, mark.at, Len(rest), y) => ReadsBack(q, bytes, at, Len(w[text]), y)
          /\ IsWhole(bytes, mark.at, Len(rest)) <=> IsWhole(bytes, at, Len(w[text]))
      BY <1>5, <2>2, <2>8, <2>10, Zenon DEF GoesOn
    <3>2. Holds(bytes, mark.at, Varint[i - 1] \o w[s])
      BY <3>1 DEF rest
    <3>3. Holds(bytes, mark.at, Varint[i - 1])
      BY <2>4, <2>5, <3>2, HoldsBoth
    <3>4. ReadsBack(prefix, bytes, mark.at, VarintLength[i - 1], PrefixAtoms[i])
      BY <2>1, <2>2, <3>3, AtomReads
    <3> HIDE DEF prefix
    <3>a. GoesOn(prefix, bytes, mark.at, PrefixAtoms[i], w[s], Len(rest))
      BY <2>4, <2>5, <3>2, <3>4, ReadsFirst DEF rest
    <3>5. /\ prefix.at = 0 => ~IsWhole(bytes, mark.at, Len(rest))
          /\ prefix.at # 0 => /\ prefix.v = PrefixAtoms[i] /\ Holds(bytes, prefix.at, w[s])
                              /\ prefix.at \in Nat \ {0}
                              /\ \A q, y : ReadsBack(q, bytes, prefix.at, Len(w[s]), y)
                                                => ReadsBack(q, bytes, mark.at, Len(rest), y)
                              /\ IsWhole(bytes, prefix.at, Len(w[s])) <=> IsWhole(bytes, mark.at, Len(rest))
      BY <3>a, Zenon DEF GoesOn
    <3>6. read[at] = IF prefix.at # 0 /\ read[prefix.at].at # 0
                     THEN Got(read[prefix.at].at, prefix.v \o read[prefix.at].v) ELSE Failed
      <4>1. mark.v # 0 /\ mark.v = 1
        BY <3>1
      <4> QED
        BY <1>4, <2>10, <4>1, Zenon
    <3>7. ASSUME prefix.at = 0 PROVE ReadsBack(read[at], bytes, at, Len(w[text]), text)
      <4>1. read[at].at = 0
        BY <1>f, <3>6, <3>7
      <4> QED
        BY <3>1, <3>5, <3>7, <4>1, ReadsNot
    <3>8. ASSUME prefix.at # 0 PROVE ReadsBack(read[at], bytes, at, Len(w[text]), text)
      <4> DEFINE behind == read[prefix.at]
      <4>1. ReadsBack(behind, bytes, prefix.at, Len(w[s]), s)
        BY <2>7, <3>5, <3>8
      <4> HIDE DEF behind
      <4>2. Len(w[s]) \in Nat
        BY <2>5
      <4>3. ASSUME behind.at = 0 PROVE ReadsBack(read[at], bytes, at, Len(w[text]), text)
        <5>1. ~IsWhole(bytes, prefix.at, Len(w[s]))
          BY <1>2, <3>5, <3>8, <4>1, <4>2, <4>3, ReadsApart
        <5>3. read[at] = Failed
          BY <3>6, <4>3, Zenon DEF behind
        <5>4. ~IsWhole(bytes, at, Len(w[text]))
          BY <3>1, <3>5, <3>8, <5>1, Zenon
        <5> QED
          BY <1>f, <5>3, <5>4, ReadsNot
      <4>4. ASSUME behind.at # 0 PROVE ReadsBack(read[at], bytes, at, Len(w[text]), text)
        <5>0. bytes \in Seq(Byte) /\ prefix.at \in Nat \ {0}
          BY <1>2, <3>5, <3>8
        <5>1. behind.v = s /\ behind.at = prefix.at + Len(w[s]) /\ IsWhole(bytes, prefix.at, Len(w[s]))
          BY <4>1, <4>2, <4>4, <5>0, ReadsApart
        <5>2. read[at] = Got(behind.at, prefix.v \o behind.v)
          BY <3>6, <3>8, <4>4, Zenon DEF behind
        <5>3. read[at] = Got(prefix.at + Len(w[s]), text)
          BY <2>1, <3>5, <3>8, <5>1, <5>2
        <5>4. ReadsBack(read[at], bytes, prefix.at, Len(w[s]), text)
          BY <5>1, <5>3, Zenon DEF ReadsBack
        <5> QED
          BY <3>1, <3>5, <3>8, <5>4, Zenon
      <4> QED
        BY <4>3, <4>4
    <3> QED
      BY <3>7, <3>8
  <2> QED
    BY <2>9, <2>10 DEF w, read
<1>8. CASE PositionIn(StringAtoms, text) = {} /\ PrefixesOf(text) = {}
  <2> DEFINE c == Crypt(text, key, domain, index)
             n == Len(text) + 2
  <2>1. w[text] = Varint[n] \o c
    BY <1>1, <1>8 DEF TextRule
  <2>2. c \in Seq(Byte) /\ Len(c) = Len(text) /\ n \in Nat /\ U32(n)
    BY CryptRestores
  <2>3. n # 0 /\ n # 1 /\ n - 2 = Len(text)
    OBVIOUS
  <2> HIDE DEF w, mark, read, prefix, c, n
  <2>4. ASSUME mark.at = 0 PROVE ReadsBack(read[at], bytes, at, Len(w[text]), text)
    BY <1>5, <1>6a, <2>1, <2>2, <2>4, Zenon DEF GoesOn
  <2>5. ASSUME mark.at # 0 PROVE ReadsBack(read[at], bytes, at, Len(w[text]), text)
    <3>1. /\ mark.v = n /\ Holds(bytes, mark.at, c)
          /\ \A q, y : ReadsBack(q, bytes, mark.at, Len(c), y) => ReadsBack(q, bytes, at, Len(w[text]), y)
      BY <1>5, <2>1, <2>2, <2>5, Zenon DEF GoesOn
    <3>2. ReadsBack(ReadOwn(bytes, mark.at, n - 2, key, domain, index), bytes, mark.at, Len(c), text)
      BY <2>2, <2>3, <3>1, OwnReads DEF c
    <3>3. read[at] = ReadOwn(bytes, mark.at, n - 2, key, domain, index)
      BY <1>4, <2>3, <2>5, <3>1, Zenon
    <3> QED
      BY <3>1, <3>2, <3>3, Zenon
  <2> QED
    BY <2>4, <2>5 DEF w, read
<1> QED
  BY <1>6, <1>7, <1>8

\* A string is read back with its key from what write_string_payload wrote: an atom, a prefix
\* and the rest in turn, or bytes of its own (read_constant_string, read_prefixed_string).
THEOREM StringReads ==
    ASSUME NEW text \in Seq(Byte), U32(Len(text) + 2),
           NEW key \in Nat, NEW domain \in Nat, NEW index \in Nat,
           NEW bytes, NEW at, Holds(bytes, at, StringBytes(text, key, domain, index))
    PROVE  ReadsBack(ReadString(bytes, at, key, domain, index), bytes, at,
                     Len(StringBytes(text, key, domain, index)), text)
<1> DEFINE S == {n \in Nat : \A t \in Seq(Byte) : Len(t) = n /\ U32(Len(t) + 2) => TextReads(t, key, domain, index)}
<1>1. ASSUME NEW n \in Nat, \A m \in 0..(n - 1) : m \in S PROVE n \in S
  <2>1. ASSUME NEW t \in Seq(Byte), Len(t) = n, U32(Len(t) + 2) PROVE TextReads(t, key, domain, index)
    <3>1. ASSUME PrefixesOf(t) # {} PROVE TextReads(Suffix(t), key, domain, index)
      <4>1. Suffix(t) \in Seq(Byte) /\ Len(Suffix(t)) < Len(t)
        BY <3>1, SuffixType
      <4>2. Len(Suffix(t)) \in 0..(n - 1) /\ Len(Suffix(t)) \in Nat
        BY <2>1, <4>1
      <4>3. \A a, b \in Nat : a < b /\ U32(b + 2) => U32(a + 2)
        BY SMT DEF U32
      <4>4. U32(Len(Suffix(t)) + 2)
        BY <2>1, <4>1, <4>2, <4>3
      <4> QED
        BY <1>1, <4>1, <4>2, <4>4
    <3> QED
      BY <2>1, <3>1, TextReadsStep
  <2> QED
    BY <2>1
<1> HIDE DEF S
<1>2. Len(text) \in S
  BY <1>1, StrongSet
<1>3. TextReads(text, key, domain, index)
  BY <1>2 DEF S
<1> QED
  BY <1>3 DEF TextReads, StringBytes, ReadString

-----------------------------------------------------------------------------
(* Encodings that can be read with, and operands.                          *)

\* An encoding whose codes are different for different names; the tags of operands are
\* below those of the operands that are one byte.
IsDecodable(e) ==
    /\ IsEncoding(e)
    /\ DOMAIN e.opcodes = Range(Ops) /\ IsInjective(e.opcodes)
    /\ DOMAIN e.tags = Range(OperandTags) /\ IsInjective(e.tags)
    /\ DOMAIN e.types = Range(ConstantTags) /\ IsInjective(e.types)
    /\ \A kind \in Range(OperandTags) : e.tags[kind] < 128

\* The codes of names that differ differ.
LEMMA CodesApart ==
    ASSUME NEW names, NEW n \in Nat, DOMAIN names = 1..n
    PROVE  /\ DOMAIN Codes(names) = Range(names) /\ IsInjective(Codes(names))
           /\ \A name \in Range(names) : Codes(names)[name] \in 0..(n - 1)
<1>1. DOMAIN Codes(names) = Range(names) /\ \A name \in Range(names) : Codes(names)[name] = PlaceOf(names, name)
  BY DEF Codes
<1>2. ASSUME NEW name \in Range(names)
      PROVE  PlaceOf(names, name) + 1 \in 1..n /\ names[PlaceOf(names, name) + 1] = name /\ PlaceOf(names, name) \in 0..(n - 1)
  <2> DEFINE k == CHOOSE k \in DOMAIN names : names[k] = name
  <2>1. \E j \in DOMAIN names : names[j] = name
    BY DEF Range
  <2>2. k \in 1..n /\ names[k] = name
    BY <2>1
  <2>3. PlaceOf(names, name) = k - 1
    BY DEF PlaceOf
  <2> HIDE DEF k
  <2> QED
    BY <2>2, <2>3
<1>3. IsInjective(Codes(names))
  <2>1. ASSUME NEW x \in Range(names), NEW y \in Range(names), PlaceOf(names, x) = PlaceOf(names, y) PROVE x = y
    <3>1. names[PlaceOf(names, x) + 1] = x /\ names[PlaceOf(names, y) + 1] = y
      BY <1>2
    <3> QED
      BY <2>1, <3>1
  <2> QED
    BY <1>1, <2>1 DEF IsInjective
<1> QED
  BY <1>1, <1>2, <1>3

\* A configuration that is valid can be decoded.
LEMMA DecodableType ==
    ASSUME NEW config \in ObfuscationConfig, Valid(config)
    PROVE  IsDecodable(EncodingOf(config))
<1>1. IsEncoding(EncodingOf(config))
  BY EncodingType
<1>2. /\ config.opcodes \in Seq(Range(Ops)) /\ config.tags \in Seq(Range(OperandTags))
      /\ config.types \in Seq(Range(ConstantTags))
  BY DEF ObfuscationConfig
<1>3. /\ Range(config.opcodes) = Range(Ops)
      /\ Len(config.tags) = Len(OperandTags) /\ Range(config.tags) = Range(OperandTags)
      /\ Range(config.types) = Range(ConstantTags)
  BY DEF Valid, Reorders
<1>4. /\ EncodingOf(config).opcodes = Codes(config.opcodes) /\ EncodingOf(config).tags = Codes(config.tags)
      /\ EncodingOf(config).types = Codes(config.types)
  BY DEF EncodingOf
<1>5. /\ DOMAIN config.opcodes = 1..Len(config.opcodes) /\ Len(config.opcodes) \in Nat
      /\ DOMAIN config.tags = 1..Len(config.tags) /\ Len(config.tags) \in Nat
      /\ DOMAIN config.types = 1..Len(config.types) /\ Len(config.types) \in Nat
  BY <1>2
<1>6. DOMAIN Codes(config.opcodes) = Range(Ops) /\ IsInjective(Codes(config.opcodes))
  BY <1>3, <1>5, CodesApart
<1>7. DOMAIN Codes(config.types) = Range(ConstantTags) /\ IsInjective(Codes(config.types))
  BY <1>3, <1>5, CodesApart
<1>8. /\ DOMAIN Codes(config.tags) = Range(OperandTags) /\ IsInjective(Codes(config.tags))
      /\ \A name \in Range(OperandTags) : Codes(config.tags)[name] < 128
  <2>1. Len(config.tags) = 9
    BY <1>3, NamesLengths
  <2> DEFINE n == Len(config.tags)
  <2>2. n \in Nat /\ DOMAIN config.tags = 1..n /\ n < 128
    BY <1>5, <2>1
  <2> HIDE DEF n
  <2> QED
    BY <1>3, <2>2, CodesApart
<1> QED
  BY <1>1, <1>4, <1>6, <1>7, <1>8 DEF IsDecodable

\* The name whose code was read is the one that was written.
LEMMA CodeRestores ==
    ASSUME NEW f, IsInjective(f), NEW x \in DOMAIN f, NEW names, names = {y \in DOMAIN f : f[y] = f[x]}
    PROVE  names # {} /\ (CHOOSE y \in names : TRUE) = x
<1>1. names = {x}
  BY DEF IsInjective
<1> QED
  BY <1>1

\* What an operand is read as that was written with its tag.
Untyped(o) == Operand(TagOf(o[1]), Number(o))

\* What an operand is made of.
LEMMA OperandParts ==
    ASSUME NEW o \in BytecodeOperand
    PROVE  /\ o = <<o[1], o[2]>> /\ o[1] \in OperandKinds /\ Number(o) = o[2] /\ Number(o) \in Nat /\ U32(Number(o))
           /\ o = Operand(o[1], Number(o)) /\ (o[1] = "none" => o = None)
           /\ TagOf(o[1]) \in Range(OperandTags)
BY TagsType DEF BytecodeOperand, Number, Operand

\* An operand with its tag is read back, but for the kinds that share a tag.
LEMMA TaggedReads ==
    ASSUME NEW o \in BytecodeOperand, NEW e, IsDecodable(e), NEW bytes, NEW at,
           Holds(bytes, at, TaggedBytes(o, e.tags))
    PROVE  /\ ReadsBack(ReadTagged(bytes, at, e.tags), bytes, at, Len(TaggedBytes(o, e.tags)), Untyped(o))
           /\ ReadsBack(ReadByte(bytes, at), bytes, at, 1, e.tags[TagOf(o[1])])
           /\ e.tags[TagOf(o[1])] < 128
<1> DEFINE kind == TagOf(o[1])  b == e.tags[kind]  n == Number(o)
<1>1. kind \in Range(OperandTags) /\ n \in Nat /\ U32(n) /\ o[1] \in OperandKinds
  BY OperandParts
<1>2. b \in Byte /\ b < 128 /\ kind \in DOMAIN e.tags
  BY <1>1 DEF IsDecodable, IsEncoding, IsTagTable
<1>3. TaggedBytes(o, e.tags) = <<b>> \o Varint[n]
  BY DEF TaggedBytes
<1>4. Varint[n] \in Seq(Byte) /\ Len(Varint[n]) = VarintLength[n] /\ bytes \in Seq(Byte)
  BY <1>1, VarintType DEF Holds
<1> DEFINE tag == ReadByte(bytes, at)  payload == ReadVarint(bytes, tag.at)
           kinds == {k \in DOMAIN e.tags : e.tags[k] = tag.v}
<1>5. ReadTagged(bytes, at, e.tags)
        = IF payload.at = 0 \/ kinds = {} THEN Failed
          ELSE Got(payload.at, IF (CHOOSE k \in kinds : TRUE) = "none" THEN None
                               ELSE Operand(CHOOSE k \in kinds : TRUE, payload.v))
  BY DEF ReadTagged, At0
<1> HIDE DEF n, b, kind
<1> DEFINE one == <<b>>
<1>6. one \in Seq(Byte) /\ Len(one) = 1
  BY <1>2, OneByte
<1>7. Holds(bytes, at, <<b>> \o Varint[n])
  BY <1>3
<1>8. Holds(bytes, at, <<b>>)
  BY <1>4, <1>6, <1>7, HoldsBoth
<1>9. ReadsBack(tag, bytes, at, 1, b)
  BY <1>2, <1>8, ByteReads
<1> DEFINE length == Len(<<b>> \o Varint[n])
<1> HIDE DEF tag
<1>10. GoesOn(tag, bytes, at, b, Varint[n], length)
  BY <1>4, <1>6, <1>7, <1>9, ReadsFirst
<1> HIDE DEF one, length
<1>f. Failed.at = 0 /\ ReadVarint(bytes, 0) = Failed
  BY <1>4, NothingReads
<1>11. ReadsBack(ReadTagged(bytes, at, e.tags), bytes, at, length, Untyped(o))
  <2>1. CASE tag.at = 0
    <3>1. payload = Failed /\ ~IsWhole(bytes, at, length)
      BY <1>10, <1>f, <2>1, Zenon DEF GoesOn
    <3>2. ReadTagged(bytes, at, e.tags).at = 0
      BY <1>5, <1>f, <3>1
    <3> QED
      BY <3>1, <3>2, ReadsNot
  <2>2. CASE tag.at # 0
    <3>1. /\ tag.v = b /\ Holds(bytes, tag.at, Varint[n]) /\ tag.at \in Nat \ {0}
          /\ \A q, y : ReadsBack(q, bytes, tag.at, Len(Varint[n]), y) => ReadsBack(q, bytes, at, length, y)
      BY <1>10, <2>2, Zenon DEF GoesOn
    <3>2. ReadsBack(payload, bytes, tag.at, Len(Varint[n]), n)
      BY <1>1, <1>4, <3>1, VarintReads
    <3>3. IsInjective(e.tags)
      BY DEF IsDecodable
    <3>4. kinds # {} /\ (CHOOSE k \in kinds : TRUE) = kind
      BY <1>2, <3>1, <3>3, CodeRestores DEF b
    <3> HIDE DEF payload, kinds
    <3>5. payload.at = 0 \/ payload = Got(tag.at + Len(Varint[n]), n)
      BY <3>2 DEF ReadsBack, At0
    <3>6. CASE payload.at = 0
      <4>1. ReadTagged(bytes, at, e.tags) = Failed
        BY <1>5, <3>6
      <4>2. ~IsWhole(bytes, tag.at, Len(Varint[n]))
        BY <1>4, <3>1, <3>2, <3>6, ReadsApart
      <4>3. ReadsBack(Failed, bytes, tag.at, Len(Varint[n]), Untyped(o))
        BY <1>f, <4>2, ReadsNot
      <4> QED
        BY <3>1, <4>1, <4>3, Zenon
    <3>7. CASE payload.at # 0
      <4>1. payload.at = tag.at + Len(Varint[n]) /\ payload.v = n /\ IsWhole(bytes, tag.at, Len(Varint[n]))
        BY <1>4, <3>1, <3>2, <3>7, ReadsApart
      <4>2. ReadTagged(bytes, at, e.tags) = Got(tag.at + Len(Varint[n]), IF kind = "none" THEN None ELSE Operand(kind, n))
        BY <1>5, <3>4, <3>7, <4>1
      <4>3. (IF kind = "none" THEN None ELSE Operand(kind, n)) = Untyped(o)
        <5>1. kind = "none" => o[1] = "none"
          BY DEF TagOf, kind
        <5>2. o[1] = "none" => n = 0
          BY OperandParts DEF n, None, Number
        <5> QED
          BY <5>1, <5>2 DEF Untyped, None, Operand, kind, n
      <4>4. ReadsBack(ReadTagged(bytes, at, e.tags), bytes, tag.at, Len(Varint[n]), Untyped(o))
        BY <4>1, <4>2, <4>3, Zenon DEF ReadsBack
      <4> QED
        BY <3>1, <4>4, Zenon
    <3> QED
      BY <3>6, <3>7
  <2> QED
    BY <2>1, <2>2
<1> QED
  BY <1>2, <1>3, <1>9, <1>11 DEF length, b, kind, tag

\* What an operand is read as in a place of some kind.
AsRead(o, kind) == IF kind \in Tagged THEN Untyped(o) ELSE o

\* An operand is read back in a place of the kind it was written in.
LEMMA OperandReads ==
    ASSUME NEW o \in BytecodeOperand, NEW kind \in WireKinds, IsOfKind(o, kind), NEW e, IsDecodable(e),
           NEW bytes, NEW at, Holds(bytes, at, OperandBytes(o, kind, e.tags))
    PROVE  ReadsBack(ReadOperand(bytes, at, kind, e.tags), bytes, at,
                     Len(OperandBytes(o, kind, e.tags)), AsRead(o, kind))
<1>1. /\ o[1] \in OperandKinds /\ Number(o) \in Nat /\ U32(Number(o)) /\ o = Operand(o[1], Number(o))
      /\ o \in OperandKinds \X Nat
  BY OperandParts DEF BytecodeOperand
<1>2. bytes \in Seq(Byte) /\ at \in Nat \ {0}
  BY DEF Holds
<1>3. "tagged" \notin OperandKinds /\ "tagged" \notin Tagged /\ "nameref" \notin Tagged /\ "nameref" \notin OperandKinds
  BY DEF OperandKinds, Tagged
<1>4. kind # "tagged"
  BY <1>1, <1>3 DEF IsOfKind
<1>5. CASE kind \in Tagged /\ IsCompact(o)
  <2> DEFINE b == CompactByte(o)
  <2>1. b \in 128..255 /\ FromCompact(b) = o
    BY <1>5, CompactRestores
  <2>2. OperandBytes(o, kind, e.tags) = <<b>>
    BY <1>3, <1>5, Zenon DEF OperandBytes
  <2> HIDE DEF b
  <2>3. b \in Byte /\ Len(<<b>>) = 1
    BY <2>1, SMT DEF Byte
  <2>4. Holds(bytes, at, <<b>>)
    BY <2>2
  <2> DEFINE first == ReadByte(bytes, at)
  <2>5. ReadsBack(first, bytes, at, 1, b)
    BY <2>3, <2>4, ByteReads
  <2>6. AsRead(o, kind) = o
    <3>1. TagOf(o[1]) = o[1]
      BY <1>1, <1>5 DEF IsCompact, CompactSize, TagOf
    <3> QED
      BY <1>1, <1>5, <3>1 DEF AsRead, Untyped
  <2>7. ReadOperand(bytes, at, kind, e.tags)
            = IF first.at # 0 /\ first.v >= 128 THEN Got(first.at, FromCompact(first.v))
              ELSE ReadTagged(bytes, at, e.tags)
    BY <1>4, <1>5 DEF ReadOperand, At0
  <2>8. first.at = 0 => ReadTagged(bytes, at, e.tags) = Failed
    <3>1. ReadVarint(bytes, 0) = Failed /\ Failed.at = 0
      BY <1>2, NothingReads
    <3> QED
      BY <3>1 DEF ReadTagged, At0
  <2> HIDE DEF first
  <2>9. CASE first.at = 0
    <3>1. ~IsWhole(bytes, at, 1)
      BY <1>2, <2>5, <2>9, ReadsApart
    <3>2. ReadOperand(bytes, at, kind, e.tags).at = 0
      BY <2>7, <2>8, <2>9 DEF Failed, At0
    <3> QED
      BY <2>2, <2>3, <3>1, <3>2, ReadsNot
  <2>10. CASE first.at # 0
    <3>1. first.at = at + 1 /\ first.v = b /\ IsWhole(bytes, at, 1)
      BY <1>2, <2>5, <2>10, ReadsApart
    <3>2. ReadOperand(bytes, at, kind, e.tags) = Got(at + 1, o)
      BY <2>1, <2>7, <2>10, <3>1
    <3> QED
      BY <2>2, <2>3, <2>6, <3>1, <3>2 DEF ReadsBack
  <2> QED
    BY <2>9, <2>10
<1>6. CASE kind \in Tagged /\ ~IsCompact(o)
  <2>1. OperandBytes(o, kind, e.tags) = TaggedBytes(o, e.tags)
    BY <1>3, <1>6, Zenon DEF OperandBytes
  <2>2. /\ ReadsBack(ReadTagged(bytes, at, e.tags), bytes, at, Len(TaggedBytes(o, e.tags)), Untyped(o))
        /\ ReadsBack(ReadByte(bytes, at), bytes, at, 1, e.tags[TagOf(o[1])])
        /\ e.tags[TagOf(o[1])] < 128
    BY <2>1, TaggedReads
  <2>3. e.tags[TagOf(o[1])] \in Byte
    BY <1>1 DEF IsDecodable, IsEncoding, IsTagTable
  <2> DEFINE first == ReadByte(bytes, at)
  <2>4. ~(first.at # 0 /\ first.v >= 128)
    <3> HIDE DEF first
    <3>1. first.at # 0 => first.v = e.tags[TagOf(o[1])]
      BY <1>2, <2>2, ReadsApart DEF first
    <3>2. PICK t \in Byte : t = e.tags[TagOf(o[1])] /\ t < 128
      BY <2>2, <2>3
    <3>3. ~(t >= 128)
      BY <3>2 DEF Byte
    <3> QED
      BY <3>1, <3>2, <3>3, Zenon
  <2>5. ReadOperand(bytes, at, kind, e.tags) = ReadTagged(bytes, at, e.tags)
    BY <1>4, <1>6, <2>4 DEF ReadOperand, At0
  <2> QED
    BY <1>6, <2>1, <2>2, <2>5 DEF AsRead
<1>7. ASSUME kind \notin Tagged, NEW n, U32(n), OperandBytes(o, kind, e.tags) = Varint[n],
             \A at1 : Got(at1, IF kind = "nameref" THEN FromNameRef(n) ELSE Operand(kind, n)) = Got(at1, o)
      PROVE  ReadsBack(ReadOperand(bytes, at, kind, e.tags), bytes, at,
                       Len(OperandBytes(o, kind, e.tags)), AsRead(o, kind))
  <2>1. n \in Nat
    BY <1>7 DEF U32
  <2>2. Len(Varint[n]) = VarintLength[n] /\ VarintLength[n] \in Nat
    BY <2>1, VarintType
  <2> DEFINE number == ReadVarint(bytes, at)
  <2>3. ReadsBack(number, bytes, at, VarintLength[n], n)
    BY <1>7, VarintReads
  <2>4. ReadOperand(bytes, at, kind, e.tags)
            = IF number.at = 0 THEN Failed
              ELSE Got(number.at, IF kind = "nameref" THEN FromNameRef(number.v) ELSE Operand(kind, number.v))
    BY <1>4, <1>7 DEF ReadOperand, At0
  <2>5. AsRead(o, kind) = o
    BY <1>7 DEF AsRead
  <2> HIDE DEF number
  <2>6. CASE number.at = 0
    <3>1. ~IsWhole(bytes, at, VarintLength[n])
      BY <1>2, <2>2, <2>3, <2>6, ReadsApart
    <3>2. ReadOperand(bytes, at, kind, e.tags).at = 0
      BY <2>4, <2>6 DEF Failed, At0
    <3> QED
      BY <1>7, <2>2, <3>1, <3>2, ReadsNot
  <2>7. CASE number.at # 0
    <3>1. number.at = at + VarintLength[n] /\ number.v = n /\ IsWhole(bytes, at, VarintLength[n])
      BY <1>2, <2>2, <2>3, <2>7, ReadsApart
    <3>2. ReadOperand(bytes, at, kind, e.tags) = Got(at + VarintLength[n], o)
      BY <1>7, <2>4, <2>7, <3>1
    <3> QED
      BY <1>7, <2>2, <2>5, <3>1, <3>2 DEF ReadsBack
  <2> QED
    BY <2>6, <2>7
<1>8. CASE kind = "nameref"
  <2>1. U32(NameRef(o)) /\ FromNameRef(NameRef(o)) = o
    BY <1>8, NameRefRestores
  <2>2. OperandBytes(o, kind, e.tags) = Varint[NameRef(o)]
    BY <1>3, <1>8 DEF OperandBytes
  <2> QED
    BY <1>3, <1>7, <1>8, <2>1, <2>2
<1>9. CASE kind \notin Tagged /\ kind # "nameref"
  <2>1. o[1] = kind
    BY <1>9 DEF IsOfKind
  <2>2. OperandBytes(o, kind, e.tags) = Varint[Number(o)]
    BY <1>9 DEF OperandBytes
  <2> QED
    BY <1>1, <1>7, <1>9, <2>1, <2>2
<1> QED
  BY <1>5, <1>6, <1>8, <1>9

\* Every operand has a byte at least, and none is read at the place of what could not be read.
LEMMA OperandLengths ==
    ASSUME NEW o \in BytecodeOperand, NEW kind \in WireKinds, IsOfKind(o, kind), NEW e, IsDecodable(e)
    PROVE  /\ OperandBytes(o, kind, e.tags) \in Seq(Byte)
           /\ Len(OperandBytes(o, kind, e.tags)) \in Nat \ {0}
<1>1. o \in OperandKinds \X Nat /\ Number(o) \in Nat
  BY OperandParts DEF BytecodeOperand
<1>2. OperandBytes(o, kind, e.tags) \in Seq(Byte) /\ Len(OperandBytes(o, kind, e.tags)) = OperandLength(o, kind)
  BY <1>1, OperandBytesType DEF IsDecodable, IsEncoding
<1>3. VarintLength[Number(o)] \in Nat \ {0}
  BY <1>1, VarintType
<1>4. kind = "nameref" => NameRef(o) \in Nat
  BY <1>1, NameRefType
<1>5. kind = "nameref" => VarintLength[NameRef(o)] \in Nat \ {0}
  BY <1>4, VarintType
<1>6. OperandLength(o, kind) \in Nat \ {0}
  BY <1>3, <1>5 DEF OperandLength
<1> QED
  BY <1>2, <1>6

\* Behind what could not be read there is no operand.
LEMMA NoOperand ==
    ASSUME NEW bytes \in Seq(Byte), NEW kind, NEW tags
    PROVE  ReadOperand(bytes, 0, kind, tags).at = 0
<1>1. ReadByte(bytes, 0) = Failed /\ ReadVarint(bytes, 0) = Failed /\ Failed.at = 0
  BY NothingReads
<1>2. ReadTagged(bytes, 0, tags) = Failed
  BY <1>1 DEF ReadTagged, At0
<1> QED
  BY <1>1, <1>2 DEF ReadOperand, At0

-----------------------------------------------------------------------------
(* Operands one after the other.                                           *)

\* Where the pieces are that bytes are made of.
LEMMA HoldsPieces ==
    ASSUME NEW pieces \in Seq(Seq(Byte)), NEW bytes, NEW at, Holds(bytes, at, FlattenSeq(pieces))
    PROVE  /\ Len(FlattenSeq(pieces)) = TotalUpto(Sizes(pieces))[Len(pieces)]
           /\ \A k \in 0..Len(pieces) : TotalUpto(Sizes(pieces))[k] \in Nat
           /\ TotalUpto(Sizes(pieces))[0] = 0
           /\ \A k \in 1..Len(pieces) :
                /\ Holds(bytes, at + TotalUpto(Sizes(pieces))[k - 1], pieces[k])
                /\ TotalUpto(Sizes(pieces))[k] = TotalUpto(Sizes(pieces))[k - 1] + Len(pieces[k])
                /\ Len(pieces[k]) \in Nat
<1> DEFINE sizes == Sizes(pieces)  flat == FlattenSeq(pieces)
<1>1. /\ sizes \in Seq(Nat) /\ Len(sizes) = Len(pieces)
      /\ \A k \in 1..Len(pieces) : sizes[k] = Len(pieces[k])
  BY SizesType
<1>2. /\ flat \in Seq(Byte) /\ Len(flat) = Total(sizes)
      /\ \A k \in 1..Len(pieces) : \A j \in 1..Len(pieces[k]) :
            /\ TotalUpto(sizes)[k - 1] + j \in 1..Len(flat)
            /\ flat[TotalUpto(sizes)[k - 1] + j] = pieces[k][j]
  BY Flatten
<1>3. bytes \in Seq(Byte) /\ at \in Nat \ {0}
  BY DEF Holds
<1>h. \A k \in 1..Len(flat) : at + k - 1 <= Len(bytes) => bytes[at + k - 1] = flat[k]
  BY DEF Holds
<1> HIDE DEF sizes, flat
<1>4. \A k \in 0..Len(pieces) : TotalUpto(sizes)[k] \in Nat
  BY <1>1, TotalType
<1>5. TotalUpto(sizes)[0] = 0 /\ \A k \in 1..Len(pieces) : TotalUpto(sizes)[k] = TotalUpto(sizes)[k - 1] + Len(pieces[k])
  BY <1>1, TotalStep
<1>6. Len(flat) = TotalUpto(sizes)[Len(pieces)]
  BY <1>1, <1>2 DEF Total
<1>7. ASSUME NEW k \in 1..Len(pieces)
      PROVE  Holds(bytes, at + TotalUpto(sizes)[k - 1], pieces[k]) /\ Len(pieces[k]) \in Nat
  <2> DEFINE t == TotalUpto(sizes)[k - 1]
  <2>1. pieces[k] \in Seq(Byte) /\ t \in Nat
    BY <1>4
  <2>2. \A j \in 1..Len(pieces[k]) : t + j \in 1..Len(flat) /\ flat[t + j] = pieces[k][j]
    BY <1>2
  <2> HIDE DEF t
  <2>3. ASSUME NEW j \in 1..Len(pieces[k]), (at + t) + j - 1 <= Len(bytes)
        PROVE  bytes[(at + t) + j - 1] = pieces[k][j]
    <3>1. at + (t + j) - 1 = (at + t) + j - 1
      BY <1>3, <2>1
    <3>2. bytes[at + (t + j) - 1] = flat[t + j]
      BY <1>h, <2>2, <2>3, <3>1
    <3> QED
      BY <2>2, <3>1, <3>2
  <2>4. at + t \in Nat \ {0}
    BY <1>3, <2>1
  <2>5. Holds(bytes, at + t, pieces[k])
    BY <1>3, <2>1, <2>3, <2>4 DEF Holds
  <2> QED
    BY <2>1, <2>5 DEF t
<1> QED
  BY <1>4, <1>5, <1>6, <1>7 DEF sizes, flat

AnyOperand == OperandKinds \X Nat

\* What was read so far when so many values were read with so many bytes, from r on.
HasRead(s, r, bytes, length, n, values) ==
    /\ DOMAIN s = DOMAIN r
    /\ IF IsWhole(bytes, r.at, length)
       THEN /\ s.at = r.at + length
            /\ s.args \in Seq(AnyOperand) /\ Len(s.args) = Len(r.args) + n
            /\ \A j \in 1..Len(r.args) : s.args[j] = r.args[j]
            /\ \A j \in 1..n : s.args[Len(r.args) + j] = values[j]
            /\ \A f \in DOMAIN r : f \notin {"at", "args"} => s[f] = r[f]
       ELSE s.at = 0

\* One more operand is read.
LEMMA HasReadMore ==
    ASSUME NEW bytes \in Seq(Byte), NEW r, r.at \in Nat \ {0}, r.args \in Seq(AnyOperand), "at" \in DOMAIN r, "args" \in DOMAIN r,
           NEW length \in Nat, NEW n \in Nat, NEW values, NEW more \in Nat,
           NEW s, HasRead(s, r, bytes, length, n, values), values[n + 1] \in AnyOperand,
           NEW kind, NEW tags,
           IsWhole(bytes, r.at, length)
                => ReadsBack(ReadOperand(bytes, r.at + length, kind, tags), bytes, r.at + length, more, values[n + 1])
    PROVE  HasRead(ReadOne(s, bytes, kind, tags), r, bytes, length + more, n + 1, values)
<1> DEFINE o == ReadOperand(bytes, s.at, kind, tags)  t == ReadOne(s, bytes, kind, tags)
<1>1. t = [s EXCEPT !.at = o.at, !.args = IF o.at = 0 THEN s.args ELSE Append(s.args, o.v)]
  BY DEF ReadOne, At0
<1>2. DOMAIN s = DOMAIN r
  BY DEF HasRead
<1>3. /\ DOMAIN t = DOMAIN r /\ t.at = o.at /\ t.args = IF o.at = 0 THEN s.args ELSE Append(s.args, o.v)
      /\ \A f \in DOMAIN r : f \notin {"at", "args"} => t[f] = s[f]
  <2> HIDE DEF o, t
  <2> QED
    BY <1>1, <1>2
<1>4. CASE ~IsWhole(bytes, r.at, length)
  <2>1. s.at = 0
    BY <1>4 DEF HasRead
  <2>2. o.at = 0
    BY <2>1, NoOperand
  <2>3. ~IsWhole(bytes, r.at, length + more)
    BY <1>4 DEF IsWhole
  <2> QED
    BY <1>3, <2>2, <2>3, Zenon DEF HasRead
<1>5. CASE IsWhole(bytes, r.at, length)
  <2>1. /\ s.at = r.at + length /\ s.args \in Seq(AnyOperand) /\ Len(s.args) = Len(r.args) + n
        /\ \A j \in 1..Len(r.args) : s.args[j] = r.args[j]
        /\ \A j \in 1..n : s.args[Len(r.args) + j] = values[j]
        /\ \A f \in DOMAIN r : f \notin {"at", "args"} => s[f] = r[f]
    BY <1>5 DEF HasRead
  <2>2. s.at \in Nat \ {0}
    BY <2>1
  <2>3. ReadsBack(o, bytes, s.at, more, values[n + 1])
    BY <1>5, <2>1
  <2>4. IsWhole(bytes, s.at, more) <=> IsWhole(bytes, r.at, length + more)
    BY <2>1 DEF IsWhole
  <2> HIDE DEF o, t
  <2>5. CASE o.at = 0
    <3>1. ~IsWhole(bytes, r.at, length + more)
      BY <2>2, <2>3, <2>4, <2>5, ReadsApart
    <3> QED
      BY <1>3, <2>5, <3>1, Zenon DEF HasRead, t
  <2>6. CASE o.at # 0
    <3>1. o.at = s.at + more /\ o.v = values[n + 1] /\ IsWhole(bytes, r.at, length + more)
      BY <2>2, <2>3, <2>4, <2>6, ReadsApart
    <3>2. t.at = r.at + (length + more)
      BY <1>3, <2>1, <3>1
    <3> DEFINE v == values[n + 1]  u == s.args
    <3>3. t.args = Append(u, v)
      BY <1>3, <2>6, <3>1
    <3>4. PICK m \in Nat : m = Len(r.args)
      OBVIOUS
    <3>5. u \in Seq(AnyOperand) /\ Len(u) = m + n /\ v \in AnyOperand
      BY <2>1, <3>4
    <3> HIDE DEF u, v
    <3>6. /\ Append(u, v) \in Seq(AnyOperand) /\ Len(Append(u, v)) = m + (n + 1)
          /\ \A j \in 1..(m + n) : Append(u, v)[j] = u[j]
          /\ Append(u, v)[m + (n + 1)] = v
      BY <3>5
    <3>7. \A j \in 1..m : Append(u, v)[j] = r.args[j]
      <4> TAKE j \in 1..m
      <4>1. j \in 1..(m + n) /\ u[j] = r.args[j]
        BY <2>1, <3>4 DEF u
      <4> QED
        BY <3>6, <4>1
    <3>8. \A j \in 1..(n + 1) : Append(u, v)[m + j] = values[j]
      <4> TAKE j \in 1..(n + 1)
      <4>1. CASE j = n + 1
        BY <3>6, <4>1 DEF v
      <4>2. CASE j \in 1..n
        <5>1. u[m + j] = values[j]
          BY <2>1, <3>4, <4>2 DEF u
        <5>2. m + j \in 1..(m + n)
          BY <4>2
        <5> QED
          BY <3>6, <5>1, <5>2
      <4>3. j = n + 1 \/ j \in 1..n
        OBVIOUS
      <4> QED
        BY <4>1, <4>2, <4>3, Zenon
    <3>9. \A f \in DOMAIN r : f \notin {"at", "args"} => t[f] = r[f]
      BY <1>3, <2>1
    <3> QED
      BY <1>3, <3>1, <3>2, <3>3, <3>4, <3>6, <3>7, <3>8, <3>9, Zenon DEF HasRead, t
  <2> QED
    BY <2>5, <2>6 DEF t
<1> QED
  BY <1>4, <1>5

\* The steps of the reading.
IsReading(f, r, bytes, kinds, tags, n) ==
    /\ f[0] = r /\ f[n] = ReadOperands(r, bytes, kinds, tags)
    /\ \A k \in 1..n : f[k] = ReadOne(f[k - 1], bytes, kinds[k], tags)

\* Operands are read one after the other.
LEMMA OperandsReadAs ==
    ASSUME NEW r, NEW bytes, NEW kinds, NEW tags, NEW n \in Nat, n = Len(kinds)
    PROVE  \E f : IsReading(f, r, bytes, kinds, tags, n)
<1>1. PICK f : f = OperandsReadUpto(r, bytes, kinds, tags)
  OBVIOUS
<1>2. f[0] = r
  BY <1>1, OperandsReadStep
<1>3. \A k \in 1..n : f[k] = ReadOne(f[k - 1], bytes, kinds[k], tags)
  BY <1>1, OperandsReadStep
<1>4. f[n] = ReadOperands(r, bytes, kinds, tags)
  BY <1>1 DEF ReadOperands
<1> QED
  BY <1>2, <1>3, <1>4 DEF IsReading

\* Operands whose pieces follow each other are read back.
LEMMA OperandsBack ==
    ASSUME NEW bytes \in Seq(Byte), NEW r, r.at \in Nat \ {0}, IsPlace(bytes, r.at),
           r.args \in Seq(AnyOperand), "at" \in DOMAIN r, "args" \in DOMAIN r,
           NEW kinds, NEW n \in Nat, n = Len(kinds), NEW tags,
           NEW pieces \in Seq(Seq(Byte)), Len(pieces) = n, Holds(bytes, r.at, FlattenSeq(pieces)),
           NEW values, \A k \in 1..n : values[k] \in AnyOperand,
           \A k \in 1..n : \A p : Holds(bytes, p, pieces[k])
                => ReadsBack(ReadOperand(bytes, p, kinds[k], tags), bytes, p, Len(pieces[k]), values[k])
    PROVE  HasRead(ReadOperands(r, bytes, kinds, tags), r, bytes, Len(FlattenSeq(pieces)), n, values)
<1> DEFINE total == TotalUpto(Sizes(pieces))
<1>1. /\ Len(FlattenSeq(pieces)) = total[n] /\ \A k \in 0..n : total[k] \in Nat
      /\ total[0] = 0
      /\ \A k \in 1..n : /\ Holds(bytes, r.at + total[k - 1], pieces[k])
                         /\ total[k] = total[k - 1] + Len(pieces[k]) /\ Len(pieces[k]) \in Nat
  BY HoldsPieces
<1>2. PICK upto : /\ upto[0] = r /\ upto[n] = ReadOperands(r, bytes, kinds, tags)
                  /\ \A k \in 1..n : upto[k] = ReadOne(upto[k - 1], bytes, kinds[k], tags)
  <2>1. \E f : IsReading(f, r, bytes, kinds, tags, n)
    BY OperandsReadAs
  <2> QED
    BY <2>1 DEF IsReading
<1>3. ReadOperands(r, bytes, kinds, tags) = upto[n]
  BY <1>2
<1> HIDE DEF total
<1> DEFINE S == {k \in 0..n : HasRead(upto[k], r, bytes, total[k], k, values)}
<1>4. 0 \in S
  <2>1. IsWhole(bytes, r.at, 0)
    BY DEF IsWhole, IsPlace
  <2> QED
    BY <1>1, <1>2, <2>1 DEF HasRead
<1>5. ASSUME NEW k \in 0..(n - 1), k \in S PROVE k + 1 \in S
  <2>1. k + 1 \in 1..n /\ (k + 1) - 1 = k /\ k \in Nat /\ k \in 0..n /\ k + 1 \in 0..n
    OBVIOUS
  <2>2. /\ total[k] \in Nat /\ Len(pieces[k + 1]) \in Nat /\ total[k + 1] = total[k] + Len(pieces[k + 1])
        /\ Holds(bytes, r.at + total[k], pieces[k + 1])
    BY <1>1, <2>1
  <2>3. ReadsBack(ReadOperand(bytes, r.at + total[k], kinds[k + 1], tags), bytes, r.at + total[k], Len(pieces[k + 1]), values[k + 1])
    BY <2>1, <2>2
  <2>4. HasRead(upto[k], r, bytes, total[k], k, values)
    BY <1>5
  <2>5. upto[k + 1] = ReadOne(upto[k], bytes, kinds[k + 1], tags)
    BY <1>2, <2>1
  <2>6. values[k + 1] \in AnyOperand
    BY <2>1
  <2>7. HasRead(ReadOne(upto[k], bytes, kinds[k + 1], tags), r, bytes, total[k] + Len(pieces[k + 1]), k + 1, values)
    BY <2>1, <2>2, <2>3, <2>4, <2>6, HasReadMore
  <2> QED
    BY <2>1, <2>2, <2>5, <2>7
<1> HIDE DEF S
<1>6. n \in S
  <2>1. 0..n \subseteq S
    BY <1>4, <1>5, UptoSet
  <2> QED
    BY <2>1
<1> QED
  BY <1>1, <1>3, <1>6 DEF S

-----------------------------------------------------------------------------
(* The items of a layout.                                                  *)

\* What an operand says: a constant is the same if its value is, but for the sign of a zero.
Same(o, constants) ==
    IF o[1] = "const" /\ HasConstant(constants, Number(o))
    THEN <<"const", Unsigned(ConstantAt(constants, Number(o)))>>
    ELSE IF o[1] \in {"operator", "decl", "scope", "count"} THEN <<"count", Number(o)>>
    ELSE o

\* What an operand is read as says the same.
LEMMA SaysSame ==
    ASSUME NEW o \in BytecodeOperand, NEW kind, NEW constants
    PROVE  AsRead(o, kind) \in AnyOperand /\ Same(AsRead(o, kind), constants) = Same(o, constants)
<1>1. PICK k \in OperandKinds, n \in Nat : o = <<k, n>> /\ o[1] = k /\ Number(o) = n
  BY DEF BytecodeOperand, Number
<1>2. Untyped(o) = <<TagOf(k), n>> /\ Number(Untyped(o)) = n /\ Untyped(o)[1] = TagOf(k)
  BY <1>1 DEF Untyped, Operand, Number
<1>3. TagOf(k) \in OperandKinds
  BY DEF TagOf, OperandKinds
<1>4. CASE k \in {"operator", "decl", "scope"}
  <2>1. TagOf(k) = "count"
    BY <1>4 DEF TagOf
  <2>2. k # "const" /\ k \in {"operator", "decl", "scope", "count"}
    BY <1>4
  <2>3. Same(Untyped(o), constants) = <<"count", n>> /\ Same(o, constants) = <<"count", n>>
    BY <1>1, <1>2, <2>1, <2>2 DEF Same
  <2> QED
    BY <1>1, <1>2, <1>3, <2>3 DEF AsRead, AnyOperand
<1>5. CASE k \notin {"operator", "decl", "scope"}
  <2>1. Untyped(o) = o
    BY <1>1, <1>2, <1>5 DEF TagOf
  <2> QED
    BY <1>1, <2>1 DEF AsRead, AnyOperand
<1> QED
  BY <1>4, <1>5

\* The pieces that operands are written as.
OperandPieces(pieces, args, next, kinds, n, tags) ==
    /\ pieces \in Seq(Seq(Byte)) /\ Len(pieces) = n
    /\ \A k \in 1..n :
        /\ args[next + k - 1] \in BytecodeOperand /\ kinds[k] \in WireKinds
        /\ IsOfKind(args[next + k - 1], kinds[k])
        /\ pieces[k] = OperandBytes(args[next + k - 1], kinds[k], tags)
OperandsAre(v, w, args, kinds, n, tags) ==
    \E pieces : /\ OperandPieces(pieces, args, w.next, kinds, n, tags)
                /\ v.bytes = w.bytes \o FlattenSeq(pieces) /\ v.next = w.next + n

\* Operands are written piece after piece.
LEMMA OperandsWrite ==
    ASSUME NEW w, w.ok = TRUE, IsWriter(w), NEW args \in Seq(BytecodeOperand), NEW kinds \in KindLists,
           NEW n \in Nat, n = Len(kinds), NEW tags, IsTagTable(tags),
           WriteOperands(w, args, kinds, tags).ok = TRUE
    PROVE  OperandsAre(WriteOperands(w, args, kinds, tags), w, args, kinds, n, tags)
<1> DEFINE Arg(k) == args[w.next + k - 1]
           bs == [k \in DOMAIN kinds |-> OperandBytes(Arg(k), kinds[k], tags)]
           ss == [k \in DOMAIN kinds |-> OperandLength(Arg(k), kinds[k])]
           ok == \A k \in DOMAIN kinds : IsOfKind(Arg(k), kinds[k])
<1>0. PICK next \in Nat \ {0} : next = w.next
  BY DEF IsWriter
<1>d. DOMAIN kinds = 1..n /\ \A k \in 1..n : kinds[k] \in WireKinds
  BY DEF KindLists
<1>1. PICK r : r = WriteOperands(w, args, kinds, tags)
  OBVIOUS
<1>2. ~(next + n - 1 > Len(args))
  <2>1. ASSUME next + n - 1 > Len(args) PROVE FALSE
    <3>1. r = [w EXCEPT !.ok = FALSE]
      BY <1>0, <1>1, <2>1, Zenon DEF WriteOperands
    <3> QED
      BY <1>1, <3>1 DEF IsWriter
  <2> QED
    BY <2>1
<1>3. r = [bytes |-> w.bytes \o FlattenSeq(bs), sizes |-> w.sizes \o ss, next |-> w.next + n, ok |-> w.ok /\ ok]
  BY <1>0, <1>1, <1>2, Zenon DEF WriteOperands
<1>4. r.ok = (w.ok /\ ok) /\ r.bytes = w.bytes \o FlattenSeq(bs) /\ r.next = w.next + n
  <2> HIDE DEF bs, ss, ok
  <2> QED
    BY <1>3
<1>5. \A k \in 1..n : IsOfKind(Arg(k), kinds[k])
  BY <1>1, <1>4, <1>d
<1>6. ASSUME NEW k \in 1..n
      PROVE  Arg(k) \in BytecodeOperand /\ bs[k] \in Seq(Byte)
  <2>1. Arg(k) \in BytecodeOperand
    <3>1. next + k - 1 \in 1..Len(args)
      BY <1>2
    <3> QED
      BY <1>0, <3>1
  <2>2. PICK o \in OperandKinds \X Nat : o = Arg(k)
    BY <2>1 DEF BytecodeOperand
  <2>3. OperandBytes(o, kinds[k], tags) \in Seq(Byte)
    BY <1>5, <2>2, OperandBytesType
  <2> QED
    BY <1>d, <2>1, <2>2, <2>3
<1>7. PICK b \in Seq(Seq(Byte)) : b = bs /\ Len(b) = n
  <2>1. bs \in [1..n -> Seq(Byte)]
    BY <1>d, <1>6
  <2> HIDE DEF bs
  <2> QED
    BY <2>1
<1>8. \A k \in 1..n : b[k] = OperandBytes(Arg(k), kinds[k], tags)
  BY <1>7, <1>d
<1>9. OperandPieces(b, args, w.next, kinds, n, tags)
  BY <1>5, <1>6, <1>7, <1>8, <1>d DEF OperandPieces
<1> QED
  BY <1>1, <1>4, <1>7, <1>9, Zenon DEF OperandsAre

\* A reader that can read on.
CanRead(r, bytes, constants) ==
    /\ bytes \in Seq(Byte) /\ r.at \in Nat \ {0} /\ IsPlace(bytes, r.at)
    /\ r.args \in Seq(AnyOperand) /\ DOMAIN r = {"at", "args", "constants"} /\ r.constants = constants

\* What they are read as.
ReadAs(values, args, next, kinds, n) ==
    \A k \in 1..n : values[k] = AsRead(args[next + k - 1], kinds[k])

\* The operands that were written are read back in the places of their kinds.
LEMMA PiecesBack ==
    ASSUME NEW pieces, NEW args, NEW next, NEW kinds, NEW n \in Nat, n = Len(kinds),
           NEW e, IsDecodable(e), OperandPieces(pieces, args, next, kinds, n, e.tags),
           NEW r, NEW bytes, NEW constants, CanRead(r, bytes, constants),
           Holds(bytes, r.at, FlattenSeq(pieces)),
           NEW values, ReadAs(values, args, next, kinds, n)
    PROVE  HasRead(ReadOperands(r, bytes, kinds, e.tags), r, bytes, Len(FlattenSeq(pieces)), n, values)
<1>1. ASSUME NEW k \in 1..n
      PROVE  /\ values[k] \in AnyOperand
             /\ \A p : Holds(bytes, p, pieces[k])
                    => ReadsBack(ReadOperand(bytes, p, kinds[k], e.tags), bytes, p, Len(pieces[k]), values[k])
  <2>1. PICK o \in BytecodeOperand : o = args[next + k - 1] /\ IsOfKind(o, kinds[k])
                                     /\ pieces[k] = OperandBytes(o, kinds[k], e.tags)
    BY DEF OperandPieces
  <2>2. kinds[k] \in WireKinds
    BY DEF OperandPieces
  <2>3. values[k] = AsRead(o, kinds[k])
    BY <2>1 DEF ReadAs
  <2>4. values[k] \in AnyOperand
    BY <2>3, SaysSame
  <2>5. ASSUME NEW p, Holds(bytes, p, pieces[k])
        PROVE  ReadsBack(ReadOperand(bytes, p, kinds[k], e.tags), bytes, p, Len(pieces[k]), values[k])
    BY <2>1, <2>2, <2>3, <2>5, OperandReads
  <2> QED
    BY <2>4, <2>5
<1>2. /\ pieces \in Seq(Seq(Byte)) /\ Len(pieces) = n /\ bytes \in Seq(Byte) /\ r.at \in Nat \ {0}
      /\ IsPlace(bytes, r.at) /\ r.args \in Seq(AnyOperand) /\ "at" \in DOMAIN r /\ "args" \in DOMAIN r
  BY DEF OperandPieces, CanRead
<1>3. \A k \in 1..n : values[k] \in AnyOperand
  BY <1>1
<1>4. \A k \in 1..n : \A p : Holds(bytes, p, pieces[k])
                    => ReadsBack(ReadOperand(bytes, p, kinds[k], e.tags), bytes, p, Len(pieces[k]), values[k])
  BY <1>1
<1> QED
  BY <1>2, <1>3, <1>4, OperandsBack

\* A piece that has a byte is at least one byte more.
LEMMA MoreThan ==
    ASSUME NEW a \in Nat, NEW b \in Nat, NEW c \in Nat, NEW k \in Nat, a >= c + k, b # 0
    PROVE  a + b >= c + (k + 1)
OBVIOUS

\* Pieces that have a byte each have as many bytes as there are pieces, and more if the
\* first has.
LEMMA PiecesLong ==
    ASSUME NEW pieces \in Seq(Seq(Byte)), NEW n \in Nat, Len(pieces) = n + 1,
           \A k \in 1..(n + 1) : Len(pieces[k]) # 0
    PROVE  Len(FlattenSeq(pieces)) \in Nat /\ Len(FlattenSeq(pieces)) >= Len(pieces[1]) + n
<1>1. PICK t : t = TotalUpto(Sizes(pieces))
  OBVIOUS
<1>2. PICK s \in Seq(Nat) : /\ s = Sizes(pieces) /\ Len(s) = n + 1
                            /\ \A k \in 1..(n + 1) : s[k] = Len(pieces[k]) /\ s[k] \in Nat
  BY SizesType
<1>3. t[0] = 0 /\ \A k \in 1..(n + 1) : t[k] = t[k - 1] + s[k]
  <2>1. PICK m \in Nat : m = n + 1 /\ m = Len(s)
    BY <1>2
  <2>2. t[0] = 0 /\ \A k \in 1..m : t[k] = t[k - 1] + s[k]
    BY <1>1, <1>2, <2>1, TotalStep
  <2> QED
    BY <2>1, <2>2
<1>4. Len(FlattenSeq(pieces)) = t[n + 1]
  BY <1>1, <1>2, Flatten DEF Total
<1>5. \A k \in 0..(n + 1) : t[k] \in Nat
  BY <1>1, <1>2, TotalType
<1> DEFINE S == {k \in 0..n : t[k + 1] >= s[1] + k}
<1>6. 0 \in S
  <2>1. t[1] = t[0] + s[1]
    BY <1>3
  <2> QED
    BY <1>2, <1>3, <2>1
<1>7. ASSUME NEW k \in 0..(n - 1), k \in S PROVE k + 1 \in S
  <2>1. (k + 1) + 1 \in 1..(n + 1) /\ ((k + 1) + 1) - 1 = k + 1 /\ k + 1 \in 0..(n + 1)
    OBVIOUS
  <2>2. t[(k + 1) + 1] = t[k + 1] + s[(k + 1) + 1]
    BY <1>3, <2>1
  <2>3. s[(k + 1) + 1] \in Nat /\ s[(k + 1) + 1] # 0 /\ t[k + 1] \in Nat /\ s[1] \in Nat
    BY <1>2, <1>5, <2>1
  <2>4. PICK a \in Nat, b \in Nat, c \in Nat :
            /\ a = t[k + 1] /\ b = s[(k + 1) + 1] /\ c = s[1] /\ b # 0 /\ t[(k + 1) + 1] = a + b
            /\ a >= c + k
    BY <1>7, <2>2, <2>3
  <2>4a. a + b >= c + (k + 1)
    <3>1. k \in Nat /\ a >= c + k /\ b # 0
      BY <2>4
    <3> QED
      BY <3>1, MoreThan
  <2>5. t[(k + 1) + 1] >= s[1] + (k + 1)
    BY <2>4, <2>4a, Zenon
  <2> QED
    BY <2>5
<1> HIDE DEF S
<1>8. n \in S
  <2>1. 0..n \subseteq S
    BY <1>6, <1>7, UptoSet
  <2> QED
    BY <2>1
<1>9. n + 1 \in 0..(n + 1) /\ 1 \in 1..(n + 1)
  OBVIOUS
<1> QED
  BY <1>2, <1>4, <1>5, <1>8, <1>9 DEF S

\* Operands are read one after the other: the first, and then the others.
LEMMA OperandsShift ==
    ASSUME NEW r, NEW bytes, NEW kinds, NEW n \in Nat, n = Len(kinds), NEW all, Len(all) = n + 1,
           \A k \in 1..n : all[k + 1] = kinds[k], NEW tags
    PROVE  ReadOperands(r, bytes, all, tags)
                = ReadOperands(ReadOne(r, bytes, all[1], tags), bytes, kinds, tags)
<1> DEFINE q == ReadOne(r, bytes, all[1], tags)
<1>1. PICK f : IsReading(f, r, bytes, all, tags, n + 1)
  <2>1. n + 1 \in Nat
    OBVIOUS
  <2> QED
    BY <2>1, OperandsReadAs
<1>2. PICK g : IsReading(g, q, bytes, kinds, tags, n)
  BY OperandsReadAs
<1>3. /\ f[0] = r /\ f[n + 1] = ReadOperands(r, bytes, all, tags)
      /\ \A k \in 1..(n + 1) : f[k] = ReadOne(f[k - 1], bytes, all[k], tags)
  BY <1>1 DEF IsReading
<1>4. /\ g[0] = q /\ g[n] = ReadOperands(q, bytes, kinds, tags)
      /\ \A k \in 1..n : g[k] = ReadOne(g[k - 1], bytes, kinds[k], tags)
  BY <1>2 DEF IsReading
<1> HIDE DEF q
<1> DEFINE S == {k \in 0..n : f[k + 1] = g[k]}
<1>5. 0 \in S
  <2>1. 1 \in 1..(n + 1) /\ 1 - 1 = 0 /\ 0 + 1 = 1 /\ 0 \in 0..n
    OBVIOUS
  <2>2. f[1] = ReadOne(r, bytes, all[1], tags)
    BY <1>3, <2>1
  <2> QED
    BY <1>4, <2>1, <2>2 DEF q
<1>6. ASSUME NEW k \in 0..(n - 1), k \in S PROVE k + 1 \in S
  <2>1. (k + 1) + 1 \in 1..(n + 1) /\ ((k + 1) + 1) - 1 = k + 1 /\ k + 1 \in 1..n /\ (k + 1) - 1 = k
        /\ k + 1 \in 0..n
    OBVIOUS
  <2>2. f[(k + 1) + 1] = ReadOne(f[k + 1], bytes, all[(k + 1) + 1], tags)
    BY <1>3, <2>1
  <2>3. g[k + 1] = ReadOne(g[k], bytes, kinds[k + 1], tags)
    BY <1>4, <2>1
  <2>4. all[(k + 1) + 1] = kinds[k + 1]
    BY <2>1
  <2>5. f[k + 1] = g[k]
    BY <1>6
  <2> QED
    BY <2>1, <2>2, <2>3, <2>4, <2>5
<1> HIDE DEF S
<1>7. n \in S
  <2>1. 0..n \subseteq S
    BY <1>5, <1>6, UptoSet
  <2> QED
    BY <2>1
<1> QED
  BY <1>3, <1>4, <1>7 DEF S, q

\* What was written behind w with an item is read back as operands that say the same.
SameAs(values, n, args, next, constants) ==
    \A j \in 1..n : values[j] \in AnyOperand
                    /\ Same(values[j], constants) = Same(args[next + j - 1], constants)
ReadsAs(item, tags, constants, b, n, values) ==
    \A bytes, r : CanRead(r, bytes, constants) /\ Holds(bytes, r.at, b)
        => HasRead(ReadItem(r, bytes, item, tags), r, bytes, Len(b), n, values)
ItemBack(w, v, item, args, constants, tags) ==
    \E b \in Seq(Byte), n \in Nat : \E values :
        /\ v.bytes = w.bytes \o b /\ v.next = w.next + n
        /\ SameAs(values, n, args, w.next, constants)
        /\ ReadsAs(item, tags, constants, b, n, values)

\* What the operands are read as says the same as they.
LEMMA PiecesSame ==
    ASSUME NEW pieces, NEW args, NEW next, NEW kinds, NEW n, NEW tags,
           OperandPieces(pieces, args, next, kinds, n, tags), NEW values, ReadAs(values, args, next, kinds, n),
           NEW constants
    PROVE  SameAs(values, n, args, next, constants)
<1>1. ASSUME NEW k \in 1..n
      PROVE  values[k] \in AnyOperand /\ Same(values[k], constants) = Same(args[next + k - 1], constants)
  <2>1. args[next + k - 1] \in BytecodeOperand
    BY DEF OperandPieces
  <2>2. values[k] = AsRead(args[next + k - 1], kinds[k])
    BY DEF ReadAs
  <2> QED
    BY <2>1, <2>2, SaysSame
<1> QED
  BY <1>1 DEF SameAs

\* An operand of one kind, or of several in a row, is read back.
LEMMA OneBack ==
    ASSUME NEW w, w.ok = TRUE, IsWriter(w), NEW args \in Seq(BytecodeOperand), NEW constants,
           NEW item \in Items, item.item = "one", NEW e, IsDecodable(e),
           NEW v, v = WriteItem(w, args, constants, item, e.tags), v.ok = TRUE
    PROVE  ItemBack(w, v, item, args, constants, e.tags)
<1>1. PICK kinds \in KindLists : kinds = item.kinds
  BY DEF Items
<1>2. PICK n \in Nat : n = Len(kinds)
  BY DEF KindLists
<1>3. v = WriteOperands(w, args, kinds, e.tags)
  BY <1>1 DEF WriteItem
<1>4. IsTagTable(e.tags)
  BY DEF IsDecodable, IsEncoding
<1>5. PICK pieces : /\ OperandPieces(pieces, args, w.next, kinds, n, e.tags)
                    /\ v.bytes = w.bytes \o FlattenSeq(pieces) /\ v.next = w.next + n
  <2>1. OperandsAre(v, w, args, kinds, n, e.tags)
    BY <1>2, <1>3, <1>4, OperandsWrite
  <2> QED
    BY <2>1 DEF OperandsAre
<1>6. PICK b \in Seq(Byte) : b = FlattenSeq(pieces)
  BY <1>5, Flatten DEF OperandPieces
<1>7. PICK values : ReadAs(values, args, w.next, kinds, n)
  <2>1. PICK values : values = [k \in 1..n |-> AsRead(args[w.next + k - 1], kinds[k])]
    OBVIOUS
  <2>2. ReadAs(values, args, w.next, kinds, n)
    BY <2>1 DEF ReadAs
  <2> QED
    BY <2>2
<1>8. SameAs(values, n, args, w.next, constants)
  BY <1>5, <1>7, PiecesSame
<1>9. ReadsAs(item, e.tags, constants, b, n, values)
  <2>1. ASSUME NEW bytes, NEW r, CanRead(r, bytes, constants), Holds(bytes, r.at, b)
        PROVE  HasRead(ReadItem(r, bytes, item, e.tags), r, bytes, Len(b), n, values)
    <3>1. ReadItem(r, bytes, item, e.tags) = ReadOperands(r, bytes, kinds, e.tags)
      BY <1>1 DEF ReadItem
    <3>2. HasRead(ReadOperands(r, bytes, kinds, e.tags), r, bytes, Len(FlattenSeq(pieces)), n, values)
      <4>1. PICK next : next = w.next
        OBVIOUS
      <4>2. OperandPieces(pieces, args, next, kinds, n, e.tags) /\ Holds(bytes, r.at, FlattenSeq(pieces))
        BY <1>5, <1>6, <2>1, <4>1
      <4>4. ReadAs(values, args, next, kinds, n)
        BY <1>7, <4>1
      <4> QED
        BY <1>2, <2>1, <4>2, <4>4, PiecesBack
    <3> QED
      BY <1>6, <3>1, <3>2
  <2> QED
    BY <2>1 DEF ReadsAs
<1> QED
  BY <1>5, <1>6, <1>8, <1>9 DEF ItemBack

\* What is written with a count: the operands' kinds, the count before them.
BehindCount(all, rest, m) ==
    /\ Len(rest) = m /\ Len(all) = m + 1 /\ all[1] = "count"
    /\ \A k \in 1..m : all[k + 1] = rest[k]

\* A count and the kinds it announces.
LEMMA CountedKinds ==
    ASSUME NEW kinds \in KindLists \ {<<>>}, NEW number \in Nat
    PROVE  \E rest \in KindLists, all \in KindLists, m \in Nat :
                /\ rest = Repeated(kinds, number) /\ all = <<"count">> \o rest
                /\ BehindCount(all, rest, m) /\ m >= number
<1>1. PICK rest \in KindLists : rest = Repeated(kinds, number)
  BY RepeatedType
<1>2. PICK l \in Nat : l = Len(kinds) /\ l # 0
  BY EmptySeq DEF KindLists
<1>3. PICK m \in Nat : m = Len(rest)
  BY DEF KindLists
<1>4. m >= number
  <2>1. number > 0 /\ Len(kinds) > 0 => Len(rest) >= number
    BY <1>1, RepeatedType
  <2> QED
    BY <1>2, <1>3, <2>1
<1>5. PICK head \in KindLists : head = <<"count">> /\ Len(head) = 1 /\ head[1] = "count"
  <2>1. <<"count">> \in KindLists /\ Len(<<"count">>) = 1 /\ <<"count">>[1] = "count"
    BY WireKindsHas, Kinds1
  <2> QED
    BY <2>1, Zenon
<1>6. PICK all : all = head \o rest
  OBVIOUS
<1>7. all \in KindLists /\ Len(all) = m + 1 /\ all[1] = "count" /\ \A k \in 1..m : all[k + 1] = rest[k]
  BY <1>3, <1>5, <1>6 DEF KindLists
<1> QED
  BY <1>1, <1>3, <1>4, <1>5, <1>6, <1>7, Zenon DEF BehindCount

\* How a count is read: there is none for more operands than there are bytes.
LEMMA CountRead ==
    ASSUME NEW r, NEW bytes, NEW constants, CanRead(r, bytes, constants), NEW tags,
           NEW item, item.item = "many", NEW count, count = ReadVarint(bytes, r.at),
           NEW rest, rest = Repeated(item.kinds, count.v)
    PROVE  /\ count.at = 0 \/ count.v > Remaining(bytes, count.at)
                => ReadItem(r, bytes, item, tags) = [r EXCEPT !.at = 0]
           /\ ~(count.at = 0 \/ count.v > Remaining(bytes, count.at))
                => ReadItem(r, bytes, item, tags)
                        = ReadOperands(ReadOne(r, bytes, "count", tags), bytes, rest, tags)
<1>1. CASE count.at = 0 \/ count.v > Remaining(bytes, count.at)
  BY <1>1 DEF ReadItem, At0
<1>2. CASE ~(count.at = 0 \/ count.v > Remaining(bytes, count.at))
  <2>1. PICK counted : counted = [r EXCEPT !.at = count.at, !.args = Append(@, Operand("count", count.v))]
    OBVIOUS
  <2>2. ReadItem(r, bytes, item, tags) = ReadOperands(counted, bytes, rest, tags)
    BY <1>2, <2>1 DEF ReadItem, At0
  <2>3. "count" \notin Tagged /\ "count" # "tagged" /\ "count" # "nameref"
    BY DEF Tagged
  <2>4. ReadOperand(bytes, r.at, "count", tags) = Got(count.at, Operand("count", count.v))
    BY <1>2, <2>3 DEF ReadOperand, At0
  <2>5. PICK o : o = ReadOperand(bytes, r.at, "count", tags) /\ o.at = count.at /\ o.v = Operand("count", count.v)
    BY <2>4 DEF Got
  <2>6. ReadOne(r, bytes, "count", tags) = [r EXCEPT !.at = o.at, !.args = IF o.at = At0 THEN @ ELSE Append(@, o.v)]
    BY <2>5, Zenon DEF ReadOne
  <2>7. o.at # At0
    BY <1>2, <2>5 DEF At0
  <2>8. ReadOne(r, bytes, "count", tags) = counted
    BY <2>1, <2>5, <2>6, <2>7
  <2> QED
    BY <1>2, <2>2, <2>8
<1> QED
  BY <1>1, <1>2

\* As many operands are read as their count says.
LEMMA ManyReads ==
    ASSUME NEW pieces, NEW args, NEW next, NEW all, NEW rest, NEW m \in Nat, NEW number, U32(number),
           NEW e, IsDecodable(e), OperandPieces(pieces, args, next, all, m + 1, e.tags),
           BehindCount(all, rest, m),
           m >= number, Number(args[next]) = number, next \in Nat,
           NEW item, item.item = "many", rest = Repeated(item.kinds, number),
           NEW r, NEW bytes, NEW constants, CanRead(r, bytes, constants),
           Holds(bytes, r.at, FlattenSeq(pieces)),
           NEW values, ReadAs(values, args, next, all, m + 1)
    PROVE  HasRead(ReadItem(r, bytes, item, e.tags), r, bytes, Len(FlattenSeq(pieces)), m + 1, values)
<1>0. Len(all) = m + 1 /\ Len(rest) = m /\ all[1] = "count" /\ \A k \in 1..m : all[k + 1] = rest[k]
  BY DEF BehindCount
<1>1. PICK t : t = ReadItem(r, bytes, item, e.tags)
  OBVIOUS
<1>2. PICK n \in Nat : n = m + 1 /\ n = Len(all)
  BY <1>0
<1>3. HasRead(ReadOperands(r, bytes, all, e.tags), r, bytes, Len(FlattenSeq(pieces)), m + 1, values)
  BY <1>2, PiecesBack
<1>4. ReadOperands(r, bytes, all, e.tags)
            = ReadOperands(ReadOne(r, bytes, "count", e.tags), bytes, rest, e.tags)
  <2>1. ReadOperands(r, bytes, all, e.tags)
            = ReadOperands(ReadOne(r, bytes, all[1], e.tags), bytes, rest, e.tags)
    BY <1>0, OperandsShift
  <2> QED
    BY <1>0, <2>1
<1>5. /\ pieces \in Seq(Seq(Byte)) /\ Len(pieces) = m + 1
      /\ \A k \in 1..(m + 1) : Len(pieces[k]) # 0
  <2>1. ASSUME NEW k \in 1..(m + 1) PROVE Len(pieces[k]) # 0
    <3>1. PICK o \in BytecodeOperand : /\ o = args[next + k - 1] /\ IsOfKind(o, all[k]) /\ all[k] \in WireKinds
                                       /\ pieces[k] = OperandBytes(o, all[k], e.tags)
      BY DEF OperandPieces
    <3>2. Len(OperandBytes(o, all[k], e.tags)) \in Nat \ {0}
      BY <3>1, OperandLengths
    <3> QED
      BY <3>1, <3>2
  <2> QED
    BY <2>1 DEF OperandPieces
<1>6. pieces[1] = Varint[number] /\ Len(pieces[1]) = VarintLength[number] /\ VarintLength[number] \in Nat
  <2>1. 1 \in 1..(m + 1) /\ next + 1 - 1 = next
    OBVIOUS
  <2>2. pieces[1] = OperandBytes(args[next], "count", e.tags)
    BY <1>0, <2>1 DEF OperandPieces
  <2>3. "count" \notin Tagged /\ "count" # "nameref"
    BY DEF Tagged
  <2>4. OperandBytes(args[next], "count", e.tags) = Varint[number]
    BY <2>3 DEF OperandBytes
  <2>5. number \in Nat
    BY DEF U32
  <2> QED
    BY <2>2, <2>4, <2>5, VarintType
<1>7. PICK long \in Nat : long = Len(FlattenSeq(pieces)) /\ long >= VarintLength[number] + m
  BY <1>5, <1>6, PiecesLong
<1>8. Holds(bytes, r.at, Varint[number])
  <2>1. /\ \A k \in 1..Len(pieces) : Holds(bytes, r.at + TotalUpto(Sizes(pieces))[k - 1], pieces[k])
        /\ TotalUpto(Sizes(pieces))[0] = 0
    BY <1>5, HoldsPieces
  <2>2. 1 \in 1..Len(pieces) /\ 1 - 1 = 0
    BY <1>5
  <2>3. r.at + 0 = r.at
    BY DEF CanRead
  <2> QED
    BY <1>6, <2>1, <2>2, <2>3
<1>9. PICK count : count = ReadVarint(bytes, r.at)
  OBVIOUS
<1>10. ReadsBack(count, bytes, r.at, VarintLength[number], number)
  BY <1>8, <1>9, VarintReads
<1>11. bytes \in Seq(Byte) /\ r.at \in Nat \ {0} /\ DOMAIN r = {"at", "args", "constants"}
  BY DEF CanRead
<1>12. ASSUME ~IsWhole(bytes, r.at, long), t = [r EXCEPT !.at = 0]
       PROVE  HasRead(t, r, bytes, long, m + 1, values)
  <2>1. t.at = 0 /\ DOMAIN t = DOMAIN r
    BY <1>11, <1>12
  <2> QED
    BY <1>12, <2>1, Zenon DEF HasRead
<1>13. CASE count.at = 0
  <2>1. ~IsWhole(bytes, r.at, VarintLength[number])
    BY <1>6, <1>10, <1>11, <1>13, ReadsApart
  <2>2. ~IsWhole(bytes, r.at, long)
    BY <1>6, <1>7, <1>11, <2>1 DEF IsWhole
  <2>3. t = [r EXCEPT !.at = 0]
    BY <1>1, <1>9, <1>13, CountRead
  <2> QED
    BY <1>1, <1>7, <1>12, <2>2, <2>3
<1>14. CASE count.at # 0
  <2>1. count.at = r.at + VarintLength[number] /\ count.v = number
    BY <1>6, <1>10, <1>11, <1>14, ReadsApart
  <2>2. rest = Repeated(item.kinds, count.v)
    BY <2>1
  <2>3. CASE count.v > Remaining(bytes, count.at)
    <3>1. t = [r EXCEPT !.at = 0]
      BY <1>1, <1>9, <2>2, <2>3, CountRead
    <3>2. ~IsWhole(bytes, r.at, long)
      <4>1. number \in Nat
        BY DEF U32
      <4> QED
        BY <1>6, <1>7, <1>11, <2>1, <2>3, <4>1 DEF IsWhole, Remaining
    <3> QED
      BY <1>1, <1>7, <1>12, <3>1, <3>2
  <2>4. CASE ~(count.v > Remaining(bytes, count.at))
    <3>1. t = ReadOperands(ReadOne(r, bytes, "count", e.tags), bytes, rest, e.tags)
      BY <1>1, <1>9, <1>14, <2>2, <2>4, CountRead
    <3> QED
      BY <1>1, <1>3, <1>4, <3>1
  <2> QED
    BY <2>3, <2>4
<1> QED
  BY <1>13, <1>14

\* A list of operands is read back.
LEMMA ManyBack ==
    ASSUME NEW w, w.ok = TRUE, IsWriter(w), NEW args \in Seq(BytecodeOperand), NEW constants,
           NEW item \in Items, item.item = "many", NEW e, IsDecodable(e),
           NEW v, v = WriteItem(w, args, constants, item, e.tags), v.ok = TRUE
    PROVE  ItemBack(w, v, item, args, constants, e.tags)
<1>0. PICK next \in Nat \ {0} : next = w.next
  BY DEF IsWriter
<1>1. ~(next > Len(args))
  <2>1. ASSUME next > Len(args) PROVE FALSE
    <3>1. v = [w EXCEPT !.ok = FALSE]
      BY <1>0, <2>1 DEF WriteItem
    <3> QED
      BY <3>1 DEF IsWriter
  <2> QED
    BY <2>1
<1>2. PICK here \in BytecodeOperand : here = args[next]
  BY <1>1
<1>3. PICK number \in Nat : number = Number(here) /\ U32(number)
  BY DEF BytecodeOperand, U32
<1>4. PICK kinds \in KindLists \ {<<>>} : kinds = item.kinds
  BY DEF Items
<1>5. PICK rest \in KindLists, all \in KindLists, m \in Nat :
                /\ rest = Repeated(kinds, number) /\ all = <<"count">> \o rest
                /\ BehindCount(all, rest, m) /\ m >= number
  BY CountedKinds
<1>6. v = WriteOperands(w, args, all, e.tags)
  <2>1. v = WriteOperands(w, args, <<"count">> \o Repeated(item.kinds, Number(args[w.next])), e.tags)
    BY <1>0, <1>1 DEF WriteItem
  <2> QED
    BY <1>0, <1>2, <1>3, <1>4, <1>5, <2>1, Zenon
<1>7. PICK n \in Nat : n = m + 1 /\ n = Len(all)
  BY <1>5 DEF BehindCount
<1>8. PICK pieces : /\ OperandPieces(pieces, args, w.next, all, n, e.tags)
                    /\ v.bytes = w.bytes \o FlattenSeq(pieces) /\ v.next = w.next + n
  <2>1. IsTagTable(e.tags)
    BY DEF IsDecodable, IsEncoding
  <2>2. OperandsAre(v, w, args, all, n, e.tags)
    BY <1>6, <1>7, <2>1, OperandsWrite
  <2> QED
    BY <2>2 DEF OperandsAre
<1>9. PICK b \in Seq(Byte) : b = FlattenSeq(pieces)
  BY <1>8, Flatten DEF OperandPieces
<1>10. PICK values : ReadAs(values, args, w.next, all, n)
  <2>1. PICK values : values = [k \in 1..n |-> AsRead(args[w.next + k - 1], all[k])]
    OBVIOUS
  <2>2. ReadAs(values, args, w.next, all, n)
    BY <2>1 DEF ReadAs
  <2> QED
    BY <2>2
<1>11. SameAs(values, n, args, w.next, constants)
  BY <1>8, <1>10, PiecesSame
<1>12. ReadsAs(item, e.tags, constants, b, n, values)
  <2>1. ASSUME NEW bytes, NEW r, CanRead(r, bytes, constants), Holds(bytes, r.at, b)
        PROVE  HasRead(ReadItem(r, bytes, item, e.tags), r, bytes, Len(b), n, values)
    <3>1. OperandPieces(pieces, args, next, all, m + 1, e.tags) /\ ReadAs(values, args, next, all, m + 1)
      BY <1>0, <1>7, <1>8, <1>10
    <3>2. Holds(bytes, r.at, FlattenSeq(pieces)) /\ Number(args[next]) = number /\ next \in Nat
      BY <1>2, <1>3, <1>9, <2>1
    <3>3. rest = Repeated(item.kinds, number)
      BY <1>4, <1>5
    <3>3a. BehindCount(all, rest, m) /\ m >= number /\ U32(number)
      BY <1>3, <1>5
    <3>4. HasRead(ReadItem(r, bytes, item, e.tags), r, bytes, Len(FlattenSeq(pieces)), m + 1, values)
      BY <2>1, <3>1, <3>2, <3>3, <3>3a, ManyReads
    <3> QED
      BY <1>7, <1>9, <3>4
  <2> QED
    BY <2>1 DEF ReadsAs
<1> QED
  BY <1>8, <1>9, <1>11, <1>12 DEF ItemBack

\* One operand more, with some bytes or with none.
LEMMA OneMore ==
    ASSUME NEW r, NEW bytes, NEW constants, CanRead(r, bytes, constants), NEW length \in Nat,
           NEW value \in AnyOperand, NEW values, values[1] = value,
           NEW t, DOMAIN t = DOMAIN r,
           IsWhole(bytes, r.at, length)
                => /\ t.at = r.at + length /\ t.args = Append(r.args, value)
                   /\ t.constants = r.constants,
           ~IsWhole(bytes, r.at, length) => t.at = 0
    PROVE  HasRead(t, r, bytes, length, 1, values)
<1>1. CASE ~IsWhole(bytes, r.at, length)
  BY <1>1 DEF HasRead
<1>2. CASE IsWhole(bytes, r.at, length)
  <2>1. PICK u \in Seq(AnyOperand) : u = r.args
    BY DEF CanRead
  <2>2. PICK m \in Nat : m = Len(u)
    OBVIOUS
  <2>3. t.args = Append(u, value) /\ t.at = r.at + length /\ t.constants = r.constants
    BY <1>2, <2>1
  <2>4. /\ Append(u, value) \in Seq(AnyOperand) /\ Len(Append(u, value)) = m + 1
        /\ \A j \in 1..m : Append(u, value)[j] = u[j]
        /\ Append(u, value)[m + 1] = value
    BY <2>2
  <2>5. \A j \in 1..1 : Append(u, value)[m + j] = values[j]
    <3> TAKE j \in 1..1
    <3>1. j = 1
      OBVIOUS
    <3> QED
      BY <2>4, <3>1
  <2>6. \A f \in DOMAIN r : f \notin {"at", "args"} => t[f] = r[f]
    BY <2>3 DEF CanRead
  <2> QED
    BY <1>2, <2>1, <2>2, <2>3, <2>4, <2>5, <2>6, Zenon DEF HasRead
<1> QED
  BY <1>1, <1>2

\* Two operands in one byte.
LEMMA TwoMore ==
    ASSUME NEW r, NEW bytes, NEW constants, CanRead(r, bytes, constants), NEW length \in Nat,
           NEW a \in AnyOperand, NEW b \in AnyOperand, NEW values, values[1] = a, values[2] = b,
           NEW t, DOMAIN t = DOMAIN r,
           IsWhole(bytes, r.at, length)
                => /\ t.at = r.at + length /\ t.args = r.args \o <<a, b>>
                   /\ t.constants = r.constants,
           ~IsWhole(bytes, r.at, length) => t.at = 0
    PROVE  HasRead(t, r, bytes, length, 2, values)
<1>1. CASE ~IsWhole(bytes, r.at, length)
  BY <1>1 DEF HasRead
<1>2. CASE IsWhole(bytes, r.at, length)
  <2>1. PICK u \in Seq(AnyOperand) : u = r.args
    BY DEF CanRead
  <2>2. PICK m \in Nat : m = Len(u)
    OBVIOUS
  <2> DEFINE ab == u \o <<a, b>>
  <2>3. t.args = ab /\ t.at = r.at + length /\ t.constants = r.constants
    BY <1>2, <2>1
  <2>4. /\ ab \in Seq(AnyOperand) /\ Len(ab) = m + 2
        /\ \A j \in 1..m : ab[j] = u[j]
        /\ ab[m + 1] = a /\ ab[m + 2] = b
    BY <2>2
  <2> HIDE DEF ab
  <2>5. \A j \in 1..2 : ab[m + j] = values[j]
    <3> TAKE j \in 1..2
    <3>1. j = 1 \/ j = 2
      OBVIOUS
    <3> QED
      BY <2>4, <3>1
  <2>6. \A f \in DOMAIN r : f \notin {"at", "args"} => t[f] = r[f]
    BY <2>3 DEF CanRead
  <2> QED
    BY <1>2, <2>1, <2>2, <2>3, <2>4, <2>5, <2>6, Zenon DEF HasRead
<1> QED
  BY <1>1, <1>2

\* Two numbers below 16 fit in a byte and come apart again.
LEMMA HalvesApart ==
    ASSUME NEW x \in Nat, NEW y \in Nat, x < 16, y < 16
    PROVE  16 * x + y \in Byte /\ (16 * x + y) \div 16 = x /\ (16 * x + y) % 16 = y
<1>1. 16 * x + y \in Byte
  BY DEF Byte
<1>2. (16 * x + y) \div 16 = x
  OBVIOUS
<1>3. (16 * x + y) % 16 = y
  OBVIOUS
<1> QED
  BY <1>1, <1>2, <1>3

\* Two operands in one byte are read back.
LEMMA PairBack ==
    ASSUME NEW w, w.ok = TRUE, IsWriter(w), NEW args \in Seq(BytecodeOperand), NEW constants,
           NEW item \in Items, item.item = "pair", NEW e, IsDecodable(e),
           NEW v, v = WriteItem(w, args, constants, item, e.tags), v.ok = TRUE
    PROVE  ItemBack(w, v, item, args, constants, e.tags)
<1>0. PICK next \in Nat \ {0} : next = w.next
  BY DEF IsWriter
<1>1. v = WritePair(w, args, item.kinds)
  BY DEF WriteItem
<1>2. /\ next + 1 <= Len(args) /\ Fits4(Number(args[next])) /\ Fits4(Number(args[next + 1]))
      /\ <<args[next][1], args[next + 1][1]>> = item.kinds
      /\ v = [w EXCEPT !.bytes = Append(@, 16 * Number(args[next]) + Number(args[next + 1])),
                       !.sizes = Append(@, 1), !.next = @ + 2]
  <2>1. v # [w EXCEPT !.ok = FALSE]
    <3>1. ASSUME v = [w EXCEPT !.ok = FALSE] PROVE FALSE
      BY <3>1 DEF IsWriter
    <3> QED
      BY <3>1
  <2> QED
    BY <1>0, <1>1, <2>1, Zenon DEF WritePair
<1>3. PICK first \in BytecodeOperand, second \in BytecodeOperand : first = args[next] /\ second = args[next + 1]
  BY <1>2
<1>4. PICK x \in Nat, y \in Nat : /\ x = Number(first) /\ y = Number(second) /\ x < 16 /\ y < 16
                                  /\ first = Operand(first[1], x) /\ second = Operand(second[1], y)
                                  /\ first[1] \in OperandKinds /\ second[1] \in OperandKinds
  BY <1>2, <1>3, OperandParts DEF BytecodeOperand, Fits4
<1>5. PICK byte \in Byte : byte = 16 * x + y /\ byte \div 16 = x /\ byte % 16 = y
  <2>1. 16 * x + y \in Byte /\ (16 * x + y) \div 16 = x /\ (16 * x + y) % 16 = y
    BY <1>4, HalvesApart
  <2> QED
    BY <2>1
<1>6. item.kinds[1] = first[1] /\ item.kinds[2] = second[1]
  BY <1>2, <1>3
<1>7. PICK b \in Seq(Byte) : b = <<byte>> /\ Len(b) = 1
  BY OneByte
<1>8. v.bytes = w.bytes \o b /\ v.next = w.next + 2
  <2>0. PICK ws : ws = w.sizes
    OBVIOUS
  <2>1. PICK wb \in Seq(Byte) : wb = w.bytes
    BY DEF IsWriter
  <2>2. v = [w EXCEPT !.bytes = Append(wb, byte), !.sizes = Append(ws, 1), !.next = next + 2]
    BY <1>0, <1>2, <1>3, <1>4, <1>5, <2>0, <2>1, Zenon
  <2>3. Append(wb, byte) = wb \o b
    BY <1>7
  <2> QED
    BY <1>0, <2>0, <2>1, <2>2, <2>3 DEF IsWriter
<1>9. PICK values : values[1] = first /\ values[2] = second
  <2>1. PICK values : values = [k \in 1..2 |-> IF k = 1 THEN first ELSE second]
    OBVIOUS
  <2> QED
    BY <2>1
<1>9a. first \in AnyOperand /\ second \in AnyOperand
  BY DEF BytecodeOperand, AnyOperand
<1>10. SameAs(values, 2, args, w.next, constants)
  <2>1. ASSUME NEW j \in 1..2
        PROVE  values[j] \in AnyOperand /\ Same(values[j], constants) = Same(args[next + j - 1], constants)
    <3>1. CASE j = 1
      <4>1. args[next + j - 1] = first
        BY <1>3, <3>1
      <4> QED
        BY <1>9, <1>9a, <3>1, <4>1
    <3>2. CASE j = 2
      <4>1. args[next + j - 1] = second
        BY <1>3, <3>2
      <4> QED
        BY <1>9, <1>9a, <3>2, <4>1
    <3> QED
      BY <3>1, <3>2
  <2> QED
    BY <1>0, <2>1 DEF SameAs
<1>11. ReadsAs(item, e.tags, constants, b, 2, values)
  <2>1. ASSUME NEW bytes, NEW r, CanRead(r, bytes, constants), Holds(bytes, r.at, b)
        PROVE  HasRead(ReadItem(r, bytes, item, e.tags), r, bytes, Len(b), 2, values)
    <3>1. PICK t : t = ReadItem(r, bytes, item, e.tags)
      OBVIOUS
    <3>2. PICK got : got = ReadByte(bytes, r.at)
      OBVIOUS
    <3>3. t = [r EXCEPT !.at = got.at,
                        !.args = r.args \o <<Operand(item.kinds[1], got.v \div 16),
                                             Operand(item.kinds[2], got.v % 16)>>]
      BY <3>1, <3>2 DEF ReadItem
    <3>4. ReadsBack(got, bytes, r.at, 1, byte)
      BY <1>7, <2>1, <3>2, ByteReads
    <3>5. bytes \in Seq(Byte) /\ r.at \in Nat \ {0} /\ DOMAIN r = {"at", "args", "constants"}
      BY <2>1 DEF CanRead
    <3>6. DOMAIN t = DOMAIN r /\ t.at = got.at /\ t.constants = r.constants
      BY <3>3, <3>5
    <3>7. ~IsWhole(bytes, r.at, 1) => t.at = 0
      BY <3>4, <3>5, <3>6, ReadsApart
    <3>8. ASSUME IsWhole(bytes, r.at, 1)
          PROVE  t.at = r.at + 1 /\ t.args = r.args \o <<first, second>> /\ t.constants = r.constants
      <4>1. got.at = r.at + 1 /\ got.v = byte
        BY <3>4, <3>5, <3>8, ReadsApart
      <4>2. Operand(item.kinds[1], got.v \div 16) = first /\ Operand(item.kinds[2], got.v % 16) = second
        BY <1>4, <1>5, <1>6, <4>1
      <4>3. t.args = r.args \o <<Operand(item.kinds[1], got.v \div 16), Operand(item.kinds[2], got.v % 16)>>
        BY <3>3, <3>5
      <4> QED
        BY <3>6, <4>1, <4>2, <4>3
    <3>9. HasRead(t, r, bytes, 1, 2, values)
      BY <1>9, <1>9a, <2>1, <3>6, <3>7, <3>8, TwoMore
    <3> QED
      BY <1>7, <3>1, <3>9
  <2> QED
    BY <2>1 DEF ReadsAs
<1>12. 2 \in Nat
  OBVIOUS
<1> QED
  BY <1>7, <1>8, <1>10, <1>11, <1>12 DEF ItemBack

\* One operand that is not written, or not as an operand.
ReadsValue(item, tags, constants, b, value) ==
    \A bytes, r : CanRead(r, bytes, constants) /\ Holds(bytes, r.at, b)
        => /\ DOMAIN ReadItem(r, bytes, item, tags) = DOMAIN r
           /\ IsWhole(bytes, r.at, Len(b))
                => /\ ReadItem(r, bytes, item, tags).at = r.at + Len(b)
                   /\ ReadItem(r, bytes, item, tags).args = Append(r.args, value)
                   /\ ReadItem(r, bytes, item, tags).constants = r.constants
           /\ ~IsWhole(bytes, r.at, Len(b)) => ReadItem(r, bytes, item, tags).at = 0

\* An operand that is read without a piece of its own is read back.
LEMMA ValueBack ==
    ASSUME NEW w, NEW v, NEW item, NEW args, NEW constants, NEW tags, NEW next \in Nat \ {0},
           next = w.next, NEW b \in Seq(Byte), v.bytes = w.bytes \o b, v.next = w.next + 1,
           NEW value \in AnyOperand, Same(value, constants) = Same(args[next], constants),
           ReadsValue(item, tags, constants, b, value)
    PROVE  ItemBack(w, v, item, args, constants, tags)
<1>1. PICK values : values[1] = value
  <2>1. PICK values : values = [k \in 1..1 |-> value]
    OBVIOUS
  <2> QED
    BY <2>1
<1>2. SameAs(values, 1, args, w.next, constants)
  <2>1. ASSUME NEW j \in 1..1
        PROVE  values[j] \in AnyOperand /\ Same(values[j], constants) = Same(args[next + j - 1], constants)
    <3>1. j = 1 /\ next + j - 1 = next
      OBVIOUS
    <3> QED
      BY <1>1, <3>1
  <2> QED
    BY <2>1 DEF SameAs
<1>3. ReadsAs(item, tags, constants, b, 1, values)
  <2>1. ASSUME NEW bytes, NEW r, CanRead(r, bytes, constants), Holds(bytes, r.at, b)
        PROVE  HasRead(ReadItem(r, bytes, item, tags), r, bytes, Len(b), 1, values)
    <3>1. PICK t : t = ReadItem(r, bytes, item, tags)
      OBVIOUS
    <3>2. PICK l \in Nat : l = Len(b)
      OBVIOUS
    <3>3. /\ DOMAIN t = DOMAIN r
          /\ IsWhole(bytes, r.at, l)
                => /\ t.at = r.at + l /\ t.args = Append(r.args, value) /\ t.constants = r.constants
          /\ ~IsWhole(bytes, r.at, l) => t.at = 0
      BY <2>1, <3>1, <3>2, Zenon DEF ReadsValue
    <3>4. HasRead(t, r, bytes, l, 1, values)
      BY <1>1, <2>1, <3>3, OneMore
    <3> QED
      BY <3>1, <3>2, <3>4
  <2> QED
    BY <2>1 DEF ReadsAs
<1>4. 1 \in Nat
  OBVIOUS
<1> QED
  BY <1>2, <1>3, <1>4 DEF ItemBack

\* An operand that the operation implies is read back.
LEMMA ImpliedBack ==
    ASSUME NEW w, w.ok = TRUE, IsWriter(w), NEW args \in Seq(BytecodeOperand), NEW constants,
           NEW item \in Items, item.item = "implied", NEW e, IsDecodable(e),
           NEW v, v = WriteItem(w, args, constants, item, e.tags), v.ok = TRUE
    PROVE  ItemBack(w, v, item, args, constants, e.tags)
<1>0. PICK next \in Nat \ {0} : next = w.next
  BY DEF IsWriter
<1>1. ~(next > Len(args))
  <2>1. ASSUME next > Len(args) PROVE FALSE
    <3>1. v = [w EXCEPT !.ok = FALSE]
      BY <1>0, <2>1 DEF WriteItem
    <3> QED
      BY <3>1 DEF IsWriter
  <2> QED
    BY <2>1
<1>2. v = [w EXCEPT !.next = @ + 1, !.ok = @ /\ args[next] = Operand("count", item.n)]
  BY <1>0, <1>1 DEF WriteItem
<1>3. v.bytes = w.bytes /\ v.next = w.next + 1 /\ args[next] = Operand("count", item.n)
  <2>1. PICK good \in BOOLEAN : good = (w.ok /\ args[next] = Operand("count", item.n))
    OBVIOUS
  <2>2. v = [w EXCEPT !.next = @ + 1, !.ok = good]
    BY <1>2, <2>1, Zenon
  <2>3. good = TRUE
    BY <2>2 DEF IsWriter
  <2> QED
    BY <2>1, <2>2, <2>3 DEF IsWriter
<1>4. PICK b \in Seq(Byte) : b = <<>> /\ Len(b) = 0
  <2>1. <<>> \in Seq(Byte) /\ Len(<<>>) = 0
    OBVIOUS
  <2> QED
    BY <2>1, Zenon
<1>5. v.bytes = w.bytes \o b
  <2>1. w.bytes \in Seq(Byte)
    BY DEF IsWriter
  <2> QED
    BY <1>3, <1>4, <2>1, ConcatEmptySeq
<1>6. PICK value \in AnyOperand : value = Operand("count", item.n)
  <2>1. args[next] \in BytecodeOperand
    BY <1>1
  <2> QED
    BY <1>3, <2>1 DEF BytecodeOperand, AnyOperand
<1>7. ASSUME NEW bytes, NEW r, CanRead(r, bytes, constants), Holds(bytes, r.at, b)
      PROVE  /\ DOMAIN ReadItem(r, bytes, item, e.tags) = DOMAIN r
             /\ IsWhole(bytes, r.at, Len(b))
                => /\ ReadItem(r, bytes, item, e.tags).at = r.at + Len(b)
                   /\ ReadItem(r, bytes, item, e.tags).args = Append(r.args, value)
                   /\ ReadItem(r, bytes, item, e.tags).constants = r.constants
             /\ ~IsWhole(bytes, r.at, Len(b)) => ReadItem(r, bytes, item, e.tags).at = 0
  <2>1. ReadItem(r, bytes, item, e.tags) = [r EXCEPT !.args = Append(r.args, value)]
    BY <1>6 DEF ReadItem
  <2>2. r.at \in Nat /\ IsPlace(bytes, r.at) /\ DOMAIN r = {"at", "args", "constants"}
    BY <1>7 DEF CanRead
  <2>3. IsWhole(bytes, r.at, Len(b)) /\ r.at + Len(b) = r.at
    BY <1>4, <2>2 DEF IsWhole, IsPlace
  <2>4. PICK t : t = [r EXCEPT !.args = Append(r.args, value)]
    OBVIOUS
  <2>5. DOMAIN t = DOMAIN r /\ t.at = r.at /\ t.args = Append(r.args, value) /\ t.constants = r.constants
    BY <2>2, <2>4
  <2> QED
    BY <2>1, <2>3, <2>4, <2>5, Zenon
<1>8. Same(value, constants) = Same(args[next], constants)
  BY <1>3, <1>6
<1>11. ReadsValue(item, e.tags, constants, b, value)
  BY <1>7 DEF ReadsValue
<1> QED
  BY <1>0, <1>3, <1>5, <1>8, <1>11, ValueBack

\* A constant that is equal to one that there is has a place, and it is not added again.
LEMMA IndexBack ==
    ASSUME NEW constants \in Seq(BytecodeConstant), NEW here \in BytecodeOperand, here[1] = "const",
           HasConstant(constants, Number(here)), NEW c, Equals(ConstantAt(constants, Number(here)), c)
    PROVE  /\ WithConstant(constants, c) = constants
           /\ Operand("const", IndexOf(constants, c)) \in AnyOperand
           /\ Same(Operand("const", IndexOf(constants, c)), constants) = Same(here, constants)
<1>1. PICK p \in DOMAIN constants : constants[p] = ConstantAt(constants, Number(here))
  BY DEF HasConstant, ConstantAt
<1>2. PICK u : u = Unsigned(c) /\ Unsigned(ConstantAt(constants, Number(here))) = u
  BY DEF Equals
<1>3. PICK places : places = Places(constants, c) /\ places = {i \in DOMAIN constants : Unsigned(constants[i]) = u}
  BY <1>2 DEF Places, Equals
<1>4. places \subseteq Nat /\ places # {}
  BY <1>1, <1>2, <1>3
<1>5. PICK q : q = Min(places) /\ q \in places
  BY <1>4, MinOf
<1>6. q \in DOMAIN constants /\ Unsigned(constants[q]) = u /\ q \in Nat \ {0}
  BY <1>3, <1>5
<1>7. PICK i \in Nat : i = IndexOf(constants, c) /\ i + 1 = q
  <2>1. IndexOf(constants, c) = q - 1
    BY <1>3, <1>5 DEF IndexOf
  <2>2. q - 1 \in Nat /\ (q - 1) + 1 = q
    BY <1>6
  <2> QED
    BY <2>1, <2>2
<1>8. PICK o : o = Operand("const", i) /\ o[1] = "const" /\ Number(o) = i /\ o \in AnyOperand
  <2>1. Operand("const", i) \in AnyOperand
    BY DEF Operand, AnyOperand, OperandKinds
  <2>2. Operand("const", i)[1] = "const" /\ Number(Operand("const", i)) = i
    BY DEF Operand, Number
  <2> QED
    BY <2>1, <2>2
<1>9. HasConstant(constants, i) /\ Unsigned(ConstantAt(constants, i)) = u
  BY <1>6, <1>7 DEF HasConstant, ConstantAt
<1>10. Same(o, constants) = <<"const", u>> /\ Same(here, constants) = <<"const", u>>
  BY <1>2, <1>8, <1>9 DEF Same
<1> QED
  BY <1>3, <1>4, <1>7, <1>8, <1>10 DEF WithConstant

\* A constant that the operation implies is found in the table again.
LEMMA ConstBack ==
    ASSUME NEW w, w.ok = TRUE, IsWriter(w), NEW args \in Seq(BytecodeOperand),
           NEW constants \in Seq(BytecodeConstant),
           NEW item \in Items, item.item = "const", NEW e, IsDecodable(e),
           NEW v, v = WriteItem(w, args, constants, item, e.tags), v.ok = TRUE
    PROVE  ItemBack(w, v, item, args, constants, e.tags)
<1>0. PICK next \in Nat \ {0} : next = w.next
  BY DEF IsWriter
<1>1. ~(next > Len(args))
  <2>1. ASSUME next > Len(args) PROVE FALSE
    <3>1. v = [w EXCEPT !.ok = FALSE]
      BY <1>0, <2>1 DEF WriteItem
    <3> QED
      BY <3>1 DEF IsWriter
  <2> QED
    BY <2>1
<1>2. PICK here \in BytecodeOperand : here = args[next]
  BY <1>1
<1>3. v = [w EXCEPT !.next = @ + 1,
                    !.ok = @ /\ here[1] = "const" /\ HasConstant(constants, Number(here))
                             /\ ConstantAt(constants, Number(here)) = item.c]
  BY <1>0, <1>1, <1>2 DEF WriteItem
<1>4. /\ v.bytes = w.bytes /\ v.next = w.next + 1 /\ here[1] = "const"
      /\ HasConstant(constants, Number(here)) /\ ConstantAt(constants, Number(here)) = item.c
  <2>1. PICK good \in BOOLEAN : good = (w.ok /\ here[1] = "const" /\ HasConstant(constants, Number(here))
                                        /\ ConstantAt(constants, Number(here)) = item.c)
    OBVIOUS
  <2>2. v = [w EXCEPT !.next = @ + 1, !.ok = good]
    BY <1>3, <2>1, Zenon
  <2>3. good = TRUE
    BY <2>2 DEF IsWriter
  <2> QED
    BY <2>1, <2>2, <2>3 DEF IsWriter
<1>5. PICK b \in Seq(Byte) : b = <<>> /\ Len(b) = 0
  <2>1. <<>> \in Seq(Byte) /\ Len(<<>>) = 0
    OBVIOUS
  <2> QED
    BY <2>1, Zenon
<1>6. v.bytes = w.bytes \o b
  <2>1. w.bytes \in Seq(Byte)
    BY DEF IsWriter
  <2> QED
    BY <1>4, <1>5, <2>1, ConcatEmptySeq
<1>7. PICK c : c = item.c /\ Equals(ConstantAt(constants, Number(here)), c)
  BY <1>4 DEF Equals
<1>8. PICK value \in AnyOperand : /\ value = Operand("const", IndexOf(constants, c))
                                  /\ WithConstant(constants, c) = constants
                                  /\ Same(value, constants) = Same(here, constants)
  BY <1>4, <1>7, IndexBack
<1>9. ASSUME NEW bytes, NEW r, CanRead(r, bytes, constants), Holds(bytes, r.at, b)
      PROVE  /\ DOMAIN ReadItem(r, bytes, item, e.tags) = DOMAIN r
             /\ IsWhole(bytes, r.at, Len(b))
                => /\ ReadItem(r, bytes, item, e.tags).at = r.at + Len(b)
                   /\ ReadItem(r, bytes, item, e.tags).args = Append(r.args, value)
                   /\ ReadItem(r, bytes, item, e.tags).constants = r.constants
             /\ ~IsWhole(bytes, r.at, Len(b)) => ReadItem(r, bytes, item, e.tags).at = 0
  <2>1. r.at \in Nat /\ IsPlace(bytes, r.at) /\ DOMAIN r = {"at", "args", "constants"} /\ r.constants = constants
    BY <1>9 DEF CanRead
  <2>2. ReadItem(r, bytes, item, e.tags)
            = [r EXCEPT !.at = r.at, !.constants = constants, !.args = Append(r.args, value)]
    BY <1>7, <1>8, <2>1 DEF ReadItem
  <2>3. IsWhole(bytes, r.at, Len(b)) /\ r.at + Len(b) = r.at
    BY <1>5, <2>1 DEF IsWhole, IsPlace
  <2>4. PICK t : t = [r EXCEPT !.at = r.at, !.constants = constants, !.args = Append(r.args, value)]
    OBVIOUS
  <2>5. DOMAIN t = DOMAIN r /\ t.at = r.at /\ t.args = Append(r.args, value) /\ t.constants = r.constants
    BY <2>1, <2>4
  <2> QED
    BY <2>2, <2>3, <2>4, <2>5, Zenon
<1>10. Same(value, constants) = Same(args[next], constants)
  BY <1>2, <1>8
<1>11. ReadsValue(item, e.tags, constants, b, value)
  BY <1>9 DEF ReadsValue
<1> QED
  BY <1>0, <1>4, <1>6, <1>10, <1>11, ValueBack

\* A small integer is restored from its zigzag.
LEMMA SmallConstant ==
    ASSUME NEW c \in BytecodeConstant, c.type = "integer"
    PROVE  /\ U32(Zigzag(c.v[1])) /\ Zigzag(c.v[1]) \in Nat
           /\ IntegerOf(Unzigzag(Zigzag(c.v[1]))) = c
<1>1. U32(Zigzag(c.v[1])) /\ Len(c.v) = 1 /\ c.v \in Seq(Int)
  BY DEF BytecodeConstant
<1>2. PICK n \in Int : n = c.v[1]
  BY <1>1
<1>3. c.v = <<n>>
  BY <1>1, <1>2
<1>4. c = [type |-> "integer", v |-> <<n>>]
  <2>1. c \in [type : ConstantTypes, v : Seq(Int)]
    BY DEF BytecodeConstant
  <2>2. c = [type |-> c.type, v |-> c.v]
    BY <2>1
  <2> QED
    BY <1>3, <2>2, Zenon
<1>5. IntegerOf(n) = c
  BY <1>4, Zenon DEF IntegerOf, Const
<1>6. Unzigzag(Zigzag(n)) = n /\ Zigzag(n) \in Nat
  BY ZigzagRestores
<1> QED
  BY <1>1, <1>2, <1>5, <1>6

\* An integer in the instruction is read back and found in the table.
LEMMA SmallBack ==
    ASSUME NEW w, w.ok = TRUE, IsWriter(w), NEW args \in Seq(BytecodeOperand),
           NEW constants \in Seq(BytecodeConstant),
           NEW item \in Items, item.item = "small", NEW e, IsDecodable(e),
           NEW v, v = WriteItem(w, args, constants, item, e.tags), v.ok = TRUE
    PROVE  ItemBack(w, v, item, args, constants, e.tags)
<1>0. PICK next \in Nat \ {0} : next = w.next
  BY DEF IsWriter
<1>1. v # [w EXCEPT !.ok = FALSE]
  <2>1. ASSUME v = [w EXCEPT !.ok = FALSE] PROVE FALSE
    BY <2>1 DEF IsWriter
  <2> QED
    BY <2>1
<1>2. ~(next > Len(args))
  BY <1>0, <1>1 DEF WriteItem
<1>3. PICK here \in BytecodeOperand : here = args[next]
  BY <1>2
<1>4. PICK c : c = Unsigned(ConstantAt(constants, Number(here)))
  OBVIOUS
<1>5. /\ here[1] = "const" /\ HasConstant(constants, Number(here)) /\ IsSmall(c)
      /\ v = [w EXCEPT !.next = @ + 1, !.bytes = @ \o Varint[Zigzag(c.v[1])],
                       !.sizes = Append(@, VarintLength[Zigzag(c.v[1])])]
  BY <1>0, <1>1, <1>2, <1>3, <1>4 DEF WriteItem
<1>6. c \in BytecodeConstant /\ Equals(ConstantAt(constants, Number(here)), c)
  <2>1. ConstantAt(constants, Number(here)) \in BytecodeConstant
    BY <1>5 DEF HasConstant, ConstantAt
  <2> QED
    BY <1>4, <2>1, UnsignedKeeps, Zenon DEF Equals
<1>7. PICK z \in Nat : z = Zigzag(c.v[1]) /\ U32(z) /\ IntegerOf(Unzigzag(z)) = c
  <2>1. c.type = "integer"
    BY <1>5 DEF IsSmall
  <2> QED
    BY <1>6, <2>1, SmallConstant
<1>8. PICK b \in Seq(Byte) : b = Varint[z] /\ Len(b) = VarintLength[z]
  BY VarintType
<1>9. v.bytes = w.bytes \o b /\ v.next = w.next + 1
  <2>1. PICK size : size = VarintLength[Zigzag(c.v[1])]
    OBVIOUS
  <2>2. v = [w EXCEPT !.next = @ + 1, !.bytes = @ \o b, !.sizes = Append(@, size)]
    BY <1>5, <1>7, <1>8, <2>1, Zenon
  <2> QED
    BY <2>2 DEF IsWriter
<1>10. PICK value \in AnyOperand : /\ value = Operand("const", IndexOf(constants, c))
                                   /\ WithConstant(constants, c) = constants
                                   /\ Same(value, constants) = Same(here, constants)
  BY <1>5, <1>6, IndexBack
<1>11. ASSUME NEW bytes, NEW r, CanRead(r, bytes, constants), Holds(bytes, r.at, b)
       PROVE  /\ DOMAIN ReadItem(r, bytes, item, e.tags) = DOMAIN r
              /\ IsWhole(bytes, r.at, Len(b))
                 => /\ ReadItem(r, bytes, item, e.tags).at = r.at + Len(b)
                    /\ ReadItem(r, bytes, item, e.tags).args = Append(r.args, value)
                    /\ ReadItem(r, bytes, item, e.tags).constants = r.constants
              /\ ~IsWhole(bytes, r.at, Len(b)) => ReadItem(r, bytes, item, e.tags).at = 0
  <2>1. /\ bytes \in Seq(Byte) /\ r.at \in Nat \ {0} /\ DOMAIN r = {"at", "args", "constants"}
        /\ r.constants = constants
    BY <1>11 DEF CanRead
  <2>2. PICK number : number = ReadVarint(bytes, r.at)
    OBVIOUS
  <2>3. ReadsBack(number, bytes, r.at, VarintLength[z], z)
    BY <1>7, <1>8, <1>11, <2>2, VarintReads
  <2>4. PICK l \in Nat : l = Len(b) /\ ReadsBack(number, bytes, r.at, l, z)
    BY <1>8, <2>3
  <2>5. CASE number.at = 0
    <3>1. ~IsWhole(bytes, r.at, l)
      BY <2>1, <2>4, <2>5, ReadsApart
    <3>2. ReadItem(r, bytes, item, e.tags) = [r EXCEPT !.at = 0]
      BY <2>2, <2>5 DEF ReadItem, At0
    <3>3. PICK t : t = [r EXCEPT !.at = 0]
      OBVIOUS
    <3>4. DOMAIN t = DOMAIN r /\ t.at = 0
      BY <2>1, <3>3
    <3> QED
      BY <2>4, <3>1, <3>2, <3>3, <3>4, Zenon
  <2>6. CASE number.at # 0
    <3>1. IsWhole(bytes, r.at, l) /\ number.at = r.at + l /\ number.v = z
      BY <2>1, <2>4, <2>6, ReadsApart
    <3>2. ReadItem(r, bytes, item, e.tags)
            = [r EXCEPT !.at = number.at, !.constants = WithConstant(@, IntegerOf(Unzigzag(number.v))),
                        !.args = Append(@, Operand("const",
                            IndexOf(WithConstant(r.constants, IntegerOf(Unzigzag(number.v))),
                                    IntegerOf(Unzigzag(number.v)))))]
      BY <2>2, <2>6 DEF ReadItem, At0
    <3>3. IntegerOf(Unzigzag(number.v)) = c
      BY <1>7, <3>1
    <3>4. PICK t : t = [r EXCEPT !.at = r.at + l, !.constants = constants, !.args = Append(r.args, value)]
      OBVIOUS
    <3>5. ReadItem(r, bytes, item, e.tags) = t
      BY <1>10, <2>1, <3>1, <3>2, <3>3, <3>4
    <3>6. DOMAIN t = DOMAIN r /\ t.at = r.at + l /\ t.args = Append(r.args, value) /\ t.constants = r.constants
      BY <2>1, <3>4
    <3> QED
      BY <2>4, <3>1, <3>5, <3>6, Zenon
  <2> QED
    BY <2>5, <2>6
<1>12. ReadsValue(item, e.tags, constants, b, value)
  BY <1>11 DEF ReadsValue
<1>13. Same(value, constants) = Same(args[next], constants)
  BY <1>3, <1>10
<1> QED
  BY <1>0, <1>9, <1>12, <1>13, ValueBack

\* Every item is read back.
LEMMA EveryItemBack ==
    ASSUME NEW w, w.ok = TRUE, IsWriter(w), NEW args \in Seq(BytecodeOperand),
           NEW constants \in Seq(BytecodeConstant), NEW item \in Items, NEW e, IsDecodable(e),
           NEW v, v = WriteItem(w, args, constants, item, e.tags), v.ok = TRUE
    PROVE  ItemBack(w, v, item, args, constants, e.tags)
<1>1. item.item \in {"one", "many", "pair", "implied", "const", "small"}
  BY DEF Items
<1>2. CASE item.item = "one"
  BY <1>2, OneBack
<1>3. CASE item.item = "many"
  BY <1>3, ManyBack
<1>4. CASE item.item = "pair"
  BY <1>4, PairBack
<1>5. CASE item.item = "implied"
  BY <1>5, ImpliedBack
<1>6. CASE item.item = "const"
  BY <1>6, ConstBack
<1>7. CASE item.item = "small"
  BY <1>7, SmallBack
<1> QED
  BY <1>1, <1>2, <1>3, <1>4, <1>5, <1>6, <1>7

\* Behind what could not be read nothing can be.
LEMMA OperandsStay ==
    ASSUME NEW bytes \in Seq(Byte), NEW r, r.at = 0, "at" \in DOMAIN r, NEW kinds \in KindLists, NEW tags
    PROVE  /\ ReadOperands(r, bytes, kinds, tags).at = 0
           /\ DOMAIN ReadOperands(r, bytes, kinds, tags) = DOMAIN r
<1>1. PICK n \in Nat : n = Len(kinds)
  BY DEF KindLists
<1>2. PICK f : IsReading(f, r, bytes, kinds, tags, n)
  BY <1>1, OperandsReadAs
<1>3. /\ f[0] = r /\ f[n] = ReadOperands(r, bytes, kinds, tags)
      /\ \A k \in 1..n : f[k] = ReadOne(f[k - 1], bytes, kinds[k], tags)
  BY <1>2 DEF IsReading
<1> DEFINE S == {k \in 0..n : f[k].at = 0 /\ DOMAIN f[k] = DOMAIN r}
<1>4. 0 \in S
  BY <1>3
<1>5. ASSUME NEW k \in 0..(n - 1), k \in S PROVE k + 1 \in S
  <2>1. k + 1 \in 1..n /\ (k + 1) - 1 = k /\ k + 1 \in 0..n
    OBVIOUS
  <2>2. f[k + 1] = ReadOne(f[k], bytes, kinds[k + 1], tags)
    BY <1>3, <2>1
  <2>3. PICK s : s = f[k] /\ s.at = 0 /\ DOMAIN s = DOMAIN r
    BY <1>5
  <2>4. PICK o : o = ReadOperand(bytes, s.at, kinds[k + 1], tags) /\ o.at = 0
    BY <2>3, NoOperand
  <2>5. \E more : ReadOne(s, bytes, kinds[k + 1], tags) = [s EXCEPT !.at = o.at, !.args = more]
    BY <2>4 DEF ReadOne
  <2>6. ReadOne(s, bytes, kinds[k + 1], tags).at = 0 /\ DOMAIN ReadOne(s, bytes, kinds[k + 1], tags) = DOMAIN r
    BY <2>3, <2>4, <2>5
  <2> QED
    BY <2>1, <2>2, <2>3, <2>6
<1> HIDE DEF S
<1>6. n \in S
  <2>1. 0..n \subseteq S
    BY <1>4, <1>5, UptoSet
  <2> QED
    BY <2>1
<1> QED
  BY <1>3, <1>6 DEF S

\* Behind what could not be read there is no item.
LEMMA ItemStays ==
    ASSUME NEW bytes \in Seq(Byte), NEW r, r.at = 0, DOMAIN r = {"at", "args", "constants"},
           NEW item \in Items, NEW tags
    PROVE  /\ ReadItem(r, bytes, item, tags).at = 0
           /\ DOMAIN ReadItem(r, bytes, item, tags) = {"at", "args", "constants"}
<1>1. ReadByte(bytes, 0) = Failed /\ ReadVarint(bytes, 0) = Failed /\ Failed.at = 0
  BY NothingReads
<1>2. PICK t : t = ReadItem(r, bytes, item, tags)
  OBVIOUS
<1>3. item.item \in {"one", "many", "pair", "implied", "const", "small"}
  BY DEF Items
<1>4. CASE item.item = "one"
  <2>1. t = ReadOperands(r, bytes, item.kinds, tags)
    BY <1>2, <1>4 DEF ReadItem
  <2>2. item.kinds \in KindLists
    BY <1>4 DEF Items
  <2> QED
    BY <1>2, <2>1, <2>2, OperandsStay
<1>5. CASE item.item = "many"
  <2>1. t = [r EXCEPT !.at = 0]
    BY <1>1, <1>2, <1>5 DEF ReadItem, At0
  <2> QED
    BY <1>2, <2>1
<1>6. CASE item.item = "pair"
  <2>1. \E more : t = [r EXCEPT !.at = 0, !.args = more]
    BY <1>1, <1>2, <1>6 DEF ReadItem, At0
  <2> QED
    BY <1>2, <2>1
<1>7. CASE item.item = "implied"
  <2>1. \E more : t = [r EXCEPT !.args = more]
    BY <1>2, <1>7 DEF ReadItem
  <2> QED
    BY <1>2, <2>1
<1>8. CASE item.item = "const"
  <2>1. \E more, others : t = [r EXCEPT !.at = 0, !.constants = others, !.args = more]
    BY <1>2, <1>8 DEF ReadItem
  <2> QED
    BY <1>2, <2>1
<1>9. CASE item.item = "small"
  <2>1. t = [r EXCEPT !.at = 0]
    BY <1>1, <1>2, <1>9 DEF ReadItem, At0
  <2> QED
    BY <1>2, <2>1
<1> QED
  BY <1>3, <1>4, <1>5, <1>6, <1>7, <1>8, <1>9

-----------------------------------------------------------------------------
(* The layout of an operation.                                             *)

\* What was read is what was written so far.
Matches(r, w, bytes, start, args, constants) ==
    /\ DOMAIN r = {"at", "args", "constants"}
    /\ IF IsWhole(bytes, start, Len(w.bytes))
       THEN /\ r.at = start + Len(w.bytes) /\ r.constants = constants
            /\ r.args \in Seq(AnyOperand) /\ Len(r.args) + 1 = w.next
            /\ \A j \in 1..Len(r.args) : Same(r.args[j], constants) = Same(args[j], constants)
       ELSE r.at = 0

\* One more item of a layout is read back.
LEMMA MatchesMore ==
    ASSUME NEW w, IsWriter(w), w.ok = TRUE, NEW v, NEW item \in Items, NEW args, NEW constants, NEW tags,
           ItemBack(w, v, item, args, constants, tags), NEW bytes, NEW start, Holds(bytes, start, v.bytes),
           NEW r, Matches(r, w, bytes, start, args, constants)
    PROVE  Matches(ReadItem(r, bytes, item, tags), v, bytes, start, args, constants)
<1>0. PICK b \in Seq(Byte), n \in Nat :
        \E values : /\ v.bytes = w.bytes \o b /\ v.next = w.next + n
                    /\ SameAs(values, n, args, w.next, constants)
                    /\ ReadsAs(item, tags, constants, b, n, values)
  BY DEF ItemBack
<1>1. PICK values :
        /\ v.bytes = w.bytes \o b /\ v.next = w.next + n
        /\ SameAs(values, n, args, w.next, constants)
        /\ ReadsAs(item, tags, constants, b, n, values)
  BY <1>0
<1>2. PICK wb \in Seq(Byte) : wb = w.bytes
  BY DEF IsWriter
<1>3. bytes \in Seq(Byte) /\ start \in Nat \ {0}
  BY DEF Holds
<1>4. Holds(bytes, start, wb) /\ Holds(bytes, start + Len(wb), b) /\ Len(v.bytes) = Len(wb) + Len(b)
  BY <1>1, <1>2, HoldsBoth
<1>5. PICK l \in Nat, k \in Nat : l = Len(wb) /\ k = Len(b)
  OBVIOUS
<1>6. PICK t : t = ReadItem(r, bytes, item, tags)
  OBVIOUS
<1>7. CASE ~IsWhole(bytes, start, l)
  <2>1. r.at = 0 /\ DOMAIN r = {"at", "args", "constants"}
    BY <1>2, <1>5, <1>7 DEF Matches
  <2>2. t.at = 0 /\ DOMAIN t = {"at", "args", "constants"}
    BY <1>3, <1>6, <2>1, ItemStays
  <2>3. ~IsWhole(bytes, start, l + k)
    BY <1>3, <1>7, WholePart
  <2> QED
    BY <1>4, <1>5, <1>6, <2>2, <2>3 DEF Matches
<1>8. CASE IsWhole(bytes, start, l)
  <2>1. /\ DOMAIN r = {"at", "args", "constants"}
        /\ r.at = start + l /\ r.constants = constants
        /\ r.args \in Seq(AnyOperand) /\ Len(r.args) + 1 = w.next
        /\ \A j \in 1..Len(r.args) : Same(r.args[j], constants) = Same(args[j], constants)
    BY <1>2, <1>5, <1>8 DEF Matches
  <2>2. r.at \in Nat \ {0} /\ IsPlace(bytes, r.at)
    BY <1>3, <1>8, <2>1 DEF IsWhole, IsPlace
  <2>3. CanRead(r, bytes, constants)
    BY <1>3, <2>1, <2>2 DEF CanRead
  <2>4. HasRead(t, r, bytes, k, n, values)
    <3>1. Holds(bytes, r.at, b)
      BY <1>4, <1>5, <2>1
    <3>2. HasRead(t, r, bytes, Len(b), n, values)
      BY <1>1, <1>6, <2>3, <3>1 DEF ReadsAs
    <3> QED
      BY <1>5, <3>2
  <2>5. IsWhole(bytes, r.at, k) <=> IsWhole(bytes, start, l + k)
    BY <1>3, <2>1 DEF IsWhole
  <2>6. DOMAIN t = {"at", "args", "constants"}
    BY <2>1, <2>4 DEF HasRead
  <2>7. CASE ~IsWhole(bytes, r.at, k)
    <3>1. t.at = 0
      BY <2>4, <2>7 DEF HasRead
    <3> QED
      BY <1>4, <1>5, <1>6, <2>5, <2>6, <2>7, <3>1 DEF Matches
  <2>8. CASE IsWhole(bytes, r.at, k)
    <3>1. PICK m \in Nat : m = Len(r.args)
      BY <2>1
    <3>2. /\ t.at = r.at + k
          /\ t.args \in Seq(AnyOperand) /\ Len(t.args) = m + n
          /\ \A j \in 1..m : t.args[j] = r.args[j]
          /\ \A j \in 1..n : t.args[m + j] = values[j]
          /\ t.constants = r.constants
      <4>1. "constants" \in DOMAIN r /\ "constants" \notin {"at", "args"}
        BY <2>1
      <4> QED
        BY <2>4, <2>8, <3>1, <4>1 DEF HasRead
    <3>3. \A j \in 1..(m + n) : Same(t.args[j], constants) = Same(args[j], constants)
      <4> TAKE j \in 1..(m + n)
      <4>1. CASE j \in 1..m
        BY <2>1, <3>1, <3>2, <4>1
      <4>2. CASE j \notin 1..m
        <5>1. PICK i \in 1..n : j = m + i
          <6>1. j - m \in 1..n /\ j = m + (j - m)
            BY <4>2
          <6> QED
            BY <6>1
        <5>2. t.args[j] = values[i]
          BY <3>2, <5>1
        <5>3. w.next + i - 1 = j
          BY <2>1, <3>1, <5>1
        <5>4. Same(values[i], constants) = Same(args[w.next + i - 1], constants)
          BY <1>1, <5>1 DEF SameAs
        <5> QED
          BY <5>2, <5>3, <5>4
      <4> QED
        BY <4>1, <4>2
    <3>4. t.at = start + (l + k) /\ Len(t.args) + 1 = v.next /\ t.constants = constants
      <4>1. r.at + k = start + (l + k)
        BY <1>3, <1>5, <2>1
      <4>2. v.next = (m + 1) + n
        BY <1>1, <2>1, <3>1
      <4>3. (m + n) + 1 = (m + 1) + n
        OBVIOUS
      <4> QED
        BY <2>1, <3>2, <4>1, <4>2, <4>3
    <3>5. IsWhole(bytes, start, l + k) /\ Len(v.bytes) = l + k
      BY <1>4, <1>5, <2>5, <2>8
    <3> QED
      BY <1>6, <2>6, <3>2, <3>3, <3>4, <3>5, Zenon DEF Matches
  <2> QED
    BY <2>7, <2>8
<1> QED
  BY <1>7, <1>8

\* The steps of the writing.
IsWriting(f, layout, args, constants, tags, n) ==
    /\ f[0] = NothingWritten
    /\ \A k \in 1..n : f[k] = WriteNext(f[k - 1], args, constants, layout[k], tags)
    /\ Written(layout, args, constants, tags) = [f[n] EXCEPT !.ok = @ /\ f[n].next = Len(args) + 1]

\* The items of a layout are written one after the other.
LEMMA WritingSteps ==
    ASSUME NEW layout, NEW n \in Nat, n = Len(layout), NEW args, NEW constants, NEW tags
    PROVE  \E f : IsWriting(f, layout, args, constants, tags, n)
<1>1. PICK f : f = WrittenUpto(layout, args, constants, tags)
  OBVIOUS
<1>2. f[0] = NothingWritten
  BY <1>1, WrittenStep
<1>3. \A k \in 1..n : f[k] = WriteNext(f[k - 1], args, constants, layout[k], tags)
  BY <1>1, WrittenStep
<1>4. Written(layout, args, constants, tags) = [f[n] EXCEPT !.ok = @ /\ f[n].next = Len(args) + 1]
  BY <1>1, Zenon DEF Written
<1> QED
  BY <1>2, <1>3, <1>4 DEF IsWriting

\* Every step of what can be written can be.
IsFine(f, w, layout, args, constants, tags, n) ==
    /\ f[n].ok = TRUE /\ f[n].next = Len(args) + 1 /\ w.bytes = f[n].bytes
    /\ \A k \in 0..n : IsWriter(f[k]) /\ f[k].ok = TRUE
    /\ \A k \in 1..n : ItemBack(f[k - 1], f[k], layout[k], args, constants, tags)

\* If the whole was written every item was.
LEMMA WritingIsFine ==
    ASSUME NEW layout \in Seq(Items), NEW n \in Nat, n = Len(layout), NEW args \in Seq(BytecodeOperand),
           NEW constants \in Seq(BytecodeConstant), NEW e, IsDecodable(e),
           NEW f, IsWriting(f, layout, args, constants, e.tags, n),
           Written(layout, args, constants, e.tags).ok = TRUE
    PROVE  IsFine(f, Written(layout, args, constants, e.tags), layout, args, constants, e.tags, n)
<1>1. /\ f[0] = NothingWritten
      /\ \A k \in 1..n : f[k] = WriteNext(f[k - 1], args, constants, layout[k], e.tags)
      /\ Written(layout, args, constants, e.tags) = [f[n] EXCEPT !.ok = @ /\ f[n].next = Len(args) + 1]
  BY DEF IsWriting
<1>2. IsTagTable(e.tags)
  BY DEF IsDecodable, IsEncoding
<1> DEFINE S == {k \in 0..n : IsWriter(f[k])}
<1>3. 0 \in S
  BY <1>1, WriterStarts
<1>4. ASSUME NEW k \in 0..(n - 1), k \in S PROVE k + 1 \in S
  <2>1. k + 1 \in 1..n /\ (k + 1) - 1 = k /\ k + 1 \in 0..n
    OBVIOUS
  <2>2. f[k + 1] = WriteNext(f[k], args, constants, layout[k + 1], e.tags)
    BY <1>1, <2>1
  <2>3. layout[k + 1] \in Items
    BY <2>1
  <2>4. PICK w : w = f[k] /\ IsWriter(w)
    BY <1>4
  <2>5. CASE w.ok = TRUE
    <3>1. f[k + 1] = WriteItem(w, args, constants, layout[k + 1], e.tags)
      BY <2>2, <2>4, <2>5 DEF WriteNext
    <3> QED
      BY <1>2, <2>1, <2>3, <2>4, <2>5, <3>1, ItemWritten
  <2>6. CASE w.ok = FALSE
    BY <2>1, <2>2, <2>4, <2>6 DEF WriteNext
  <2>7. w.ok \in BOOLEAN
    BY <2>4 DEF IsWriter
  <2> QED
    BY <2>5, <2>6, <2>7
<1> HIDE DEF S
<1>5. \A k \in 0..n : IsWriter(f[k])
  <2>1. 0..n \subseteq S
    BY <1>3, <1>4, UptoSet
  <2> QED
    BY <2>1 DEF S
<1>6. PICK w : w = f[n] /\ IsWriter(w)
  BY <1>5
<1>7. w.ok = TRUE /\ w.next = Len(args) + 1 /\ Written(layout, args, constants, e.tags).bytes = w.bytes
  <2>1. PICK good \in BOOLEAN : good = (w.ok /\ w.next = Len(args) + 1)
    OBVIOUS
  <2>2. Written(layout, args, constants, e.tags) = [w EXCEPT !.ok = good]
    BY <1>1, <1>6, <2>1, Zenon
  <2>3. good = TRUE
    BY <1>6, <2>2 DEF IsWriter
  <2> QED
    BY <1>6, <2>1, <2>2, <2>3 DEF IsWriter
<1> DEFINE T == {k \in 0..n : f[n - k].ok = TRUE}
<1>8. 0 \in T
  BY <1>6, <1>7
<1>9. ASSUME NEW k \in 0..(n - 1), k \in T PROVE k + 1 \in T
  <2>1. n - k \in 1..n /\ (n - k) - 1 = n - (k + 1) /\ n - (k + 1) \in 0..n /\ k + 1 \in 0..n
    OBVIOUS
  <2>2. PICK v : v = f[n - (k + 1)] /\ IsWriter(v)
    BY <1>5, <2>1
  <2>3. f[n - k] = WriteNext(v, args, constants, layout[n - k], e.tags)
    BY <1>1, <2>1, <2>2
  <2>4. v.ok \in BOOLEAN
    BY <2>2 DEF IsWriter
  <2>5. ASSUME v.ok = FALSE PROVE FALSE
    <3>1. f[n - k] = v
      BY <2>3, <2>5 DEF WriteNext
    <3>2. f[n - k].ok = TRUE
      BY <1>9
    <3> QED
      BY <2>5, <3>1, <3>2
  <2> QED
    BY <2>1, <2>2, <2>4, <2>5
<1> HIDE DEF T
<1>10. \A k \in 0..n : f[k].ok = TRUE
  <2>1. 0..n \subseteq T
    BY <1>8, <1>9, UptoSet
  <2> TAKE k \in 0..n
  <2>2. n - k \in 0..n /\ n - (n - k) = k
    OBVIOUS
  <2> QED
    BY <2>1, <2>2 DEF T
<1>11. ASSUME NEW k \in 1..n
       PROVE  ItemBack(f[k - 1], f[k], layout[k], args, constants, e.tags)
  <2>1. k - 1 \in 0..n /\ k \in 0..n
    OBVIOUS
  <2>2. PICK u, v : u = f[k - 1] /\ v = f[k] /\ u.ok = TRUE /\ v.ok = TRUE /\ IsWriter(u)
    BY <1>5, <1>10, <2>1
  <2>3. v = WriteItem(u, args, constants, layout[k], e.tags)
    BY <1>1, <2>2 DEF WriteNext
  <2>4. layout[k] \in Items
    BY <2>1
  <2> QED
    BY <2>2, <2>3, <2>4, EveryItemBack
<1> QED
  BY <1>5, <1>6, <1>7, <1>10, <1>11 DEF IsFine

\* The operands of an instruction are read back.
SaysArgs(t, bytes, at, length, args, constants) ==
    IF IsWhole(bytes, at, length)
    THEN /\ t.at = at + length /\ t.constants = constants
         /\ t.args \in Seq(AnyOperand) /\ Len(t.args) = Len(args)
         /\ \A j \in 1..Len(args) : Same(t.args[j], constants) = Same(args[j], constants)
    ELSE t.at = 0

\* What was written of a layout is read back, operand by operand.
LEMMA LayoutBack ==
    ASSUME NEW layout \in Seq(Items), NEW args \in Seq(BytecodeOperand),
           NEW constants \in Seq(BytecodeConstant), NEW e, IsDecodable(e),
           NEW w, w = Written(layout, args, constants, e.tags), w.ok = TRUE,
           NEW bytes, NEW start, Holds(bytes, start, w.bytes), IsPlace(bytes, start),
           NEW r, r = [at |-> start, args |-> <<>>, constants |-> constants],
           NEW t, t = ItemsReadUpto(r, bytes, layout, e.tags)[Len(layout)]
    PROVE  SaysArgs(t, bytes, start, Len(w.bytes), args, constants)
<1>1. PICK n \in Nat : n = Len(layout)
  OBVIOUS
<1>2. PICK f : IsWriting(f, layout, args, constants, e.tags, n)
  BY <1>1, WritingSteps
<1>3. /\ f[n].ok = TRUE /\ f[n].next = Len(args) + 1 /\ w.bytes = f[n].bytes
      /\ \A k \in 0..n : IsWriter(f[k]) /\ f[k].ok = TRUE
      /\ \A k \in 1..n : ItemBack(f[k - 1], f[k], layout[k], args, constants, e.tags)
  <2>1. IsFine(f, Written(layout, args, constants, e.tags), layout, args, constants, e.tags, n)
    <3>1. Written(layout, args, constants, e.tags).ok = TRUE
      OBVIOUS
    <3> QED
      BY <1>1, <1>2, <3>1, WritingIsFine
  <2> QED
    BY <2>1 DEF IsFine
<1>4. bytes \in Seq(Byte) /\ start \in Nat \ {0}
  BY DEF Holds
<1> DEFINE S == {k \in 0..n : Holds(bytes, start, f[n - k].bytes)}
<1>5. 0 \in S
  BY <1>3
<1>6. ASSUME NEW k \in 0..(n - 1), k \in S PROVE k + 1 \in S
  <2>1. n - k \in 1..n /\ (n - k) - 1 = n - (k + 1) /\ n - (k + 1) \in 0..n /\ k + 1 \in 0..n
    OBVIOUS
  <2>2. ItemBack(f[n - (k + 1)], f[n - k], layout[n - k], args, constants, e.tags)
    BY <1>3, <2>1
  <2>3. PICK b \in Seq(Byte) : f[n - k].bytes = f[n - (k + 1)].bytes \o b
    BY <2>2 DEF ItemBack
  <2>4. PICK u \in Seq(Byte) : u = f[n - (k + 1)].bytes
    BY <1>3, <2>1 DEF IsWriter
  <2>5. Holds(bytes, start, u \o b)
    BY <1>6, <2>3, <2>4
  <2>6. Holds(bytes, start, u)
    BY <2>5, HoldsBoth
  <2> QED
    BY <2>1, <2>4, <2>6
<1> HIDE DEF S
<1>7. \A k \in 0..n : Holds(bytes, start, f[k].bytes)
  <2>1. 0..n \subseteq S
    BY <1>5, <1>6, UptoSet
  <2> TAKE k \in 0..n
  <2>2. n - k \in 0..n /\ n - (n - k) = k
    OBVIOUS
  <2> QED
    BY <2>1, <2>2 DEF S
<1>8. PICK g : g[0] = r /\ g[n] = t /\ \A k \in 1..n : g[k] = ReadItem(g[k - 1], bytes, layout[k], e.tags)
  <2>1. PICK g : g = ItemsReadUpto(r, bytes, layout, e.tags)
    OBVIOUS
  <2>2. g[0] = r
    BY <1>1, <2>1, ItemsReadStep
  <2>3. \A k \in 1..n : g[k] = ReadItem(g[k - 1], bytes, layout[k], e.tags)
    BY <1>1, <2>1, ItemsReadStep
  <2>4. g[n] = t
    BY <1>1, <2>1
  <2> QED
    BY <2>2, <2>3, <2>4
<1> DEFINE T == {k \in 0..n : Matches(g[k], f[k], bytes, start, args, constants)}
<1>9. 0 \in T
  <2>1. f[0] = NothingWritten
    BY <1>2 DEF IsWriting
  <2>2. f[0].bytes = <<>> /\ f[0].next = 1 /\ Len(f[0].bytes) = 0
    BY <2>1 DEF NothingWritten
  <2>3. IsWhole(bytes, start, 0) /\ start + 0 = start
    BY <1>4 DEF IsWhole, IsPlace
  <2>4. DOMAIN r = {"at", "args", "constants"} /\ r.at = start /\ r.args = <<>> /\ r.constants = constants
    OBVIOUS
  <2>5. <<>> \in Seq(AnyOperand) /\ Len(<<>>) = 0 /\ 1..0 = {} /\ 0 + 1 = 1
    OBVIOUS
  <2>6. Matches(r, f[0], bytes, start, args, constants)
    BY <2>2, <2>3, <2>4, <2>5 DEF Matches
  <2> QED
    BY <1>8, <2>6
<1>10. ASSUME NEW k \in 0..(n - 1), k \in T PROVE k + 1 \in T
  <2>1. k + 1 \in 1..n /\ (k + 1) - 1 = k /\ k + 1 \in 0..n /\ k \in 0..n
    OBVIOUS
  <2>2. PICK u, v : u = f[k] /\ v = f[k + 1]
    OBVIOUS
  <2>3. /\ IsWriter(u) /\ u.ok = TRUE /\ Holds(bytes, start, v.bytes)
        /\ ItemBack(u, v, layout[k + 1], args, constants, e.tags)
    BY <1>3, <1>7, <2>1, <2>2
  <2>4. layout[k + 1] \in Items
    BY <1>1, <2>1
  <2>5. Matches(g[k], u, bytes, start, args, constants)
    BY <1>10, <2>2
  <2>6. Matches(ReadItem(g[k], bytes, layout[k + 1], e.tags), v, bytes, start, args, constants)
    BY <2>3, <2>4, <2>5, MatchesMore
  <2>7. g[k + 1] = ReadItem(g[k], bytes, layout[k + 1], e.tags)
    BY <1>8, <2>1
  <2> QED
    BY <2>1, <2>2, <2>6, <2>7
<1> HIDE DEF T
<1>11. Matches(t, f[n], bytes, start, args, constants)
  <2>1. 0..n \subseteq T
    BY <1>9, <1>10, UptoSet
  <2>2. n \in T
    BY <2>1
  <2> QED
    BY <1>8, <2>2 DEF T
<1>12. w.bytes \in Seq(Byte)
  <2>1. n \in 0..n
    OBVIOUS
  <2>2. IsWriter(f[n])
    BY <1>3, <2>1
  <2> QED
    BY <1>3, <2>2 DEF IsWriter
<1>13. CASE ~IsWhole(bytes, start, Len(w.bytes))
  BY <1>3, <1>11, <1>12, <1>13 DEF Matches, SaysArgs
<1>14. CASE IsWhole(bytes, start, Len(w.bytes))
  <2>1. /\ t.at = start + Len(w.bytes) /\ t.constants = constants
        /\ t.args \in Seq(AnyOperand) /\ Len(t.args) + 1 = Len(args) + 1
        /\ \A j \in 1..Len(t.args) : Same(t.args[j], constants) = Same(args[j], constants)
    BY <1>3, <1>11, <1>14, Zenon DEF Matches
  <2>2. Len(t.args) = Len(args)
    <3>1. PICK k \in Nat, l \in Nat : k = Len(t.args) /\ l = Len(args)
      BY <2>1
    <3>2. k + 1 = l + 1
      BY <2>1, <3>1, Zenon
    <3> QED
      BY <3>1, <3>2
  <2> QED
    BY <1>12, <1>14, <2>1, <2>2 DEF SaysArgs
<1> QED
  BY <1>13, <1>14
=============================================================================
