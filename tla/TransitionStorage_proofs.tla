----------------------- MODULE TransitionStorage_proofs -----------------------
(***************************************************************************)
(* Proofs about TransitionStorage, for records of any size, any page size, *)
(* any number of reapers, refreshes, crashes and failed calls.             *)
(*                                                                         *)
(* First what FlattenSeq, Chunks and Sorted compute; then the invariant    *)
(* Inv, about who may write, delete and replace what, with the theorems    *)
(* Gone and EtcdFirstWins; then the invariant DataInv, about what is       *)
(* written, with the theorems FullSet and Located.                         *)
(***************************************************************************)
EXTENDS TransitionStorage, FiniteSetTheorems, TLAPS

-----------------------------------------------------------------------------
(***************************************************************************)
(* Sequences that are cut and joined                                       *)
(***************************************************************************)

\* Induction over Nat for a set: of a finite set of counterexamples, taking
\* each one to its predecessor would make an injection into a smaller set.
LEMMA SetInduction ==
  ASSUME NEW S, 0 \in S, \A k \in Nat : k \in S => k + 1 \in S
  PROVE  \A k \in Nat : k \in S
<1> SUFFICES ASSUME NEW m \in Nat, m \notin S PROVE FALSE OBVIOUS
<1> DEFINE T == {k \in 0 .. m : k \notin S}
           f == [k \in T |-> k - 1]
<1>1. IsFiniteSet(0 .. m) BY FS_Interval
<1>2. IsFiniteSet(T) BY <1>1, FS_Subset
<1>3. /\ IsFiniteSet(T \ {m}) /\ Cardinality(T \ {m}) = Cardinality(T) - 1
  BY <1>2, FS_RemoveElement
<1>4. Cardinality(T) \in Nat BY <1>2, FS_CardinalityType
<1>5. f \in [T -> T \ {m}]
  <2> SUFFICES ASSUME NEW k \in T PROVE k - 1 \in T \ {m} OBVIOUS
  <2>1. k \in Nat /\ k <= m /\ k # 0 /\ k \notin S OBVIOUS
  <2>2. k - 1 \in Nat /\ (k - 1) + 1 = k BY <2>1
  <2>3. k - 1 \notin S BY <2>1, <2>2
  <2> QED BY <2>1, <2>2, <2>3
<1>6. \E x, y \in T : x # y /\ f[x] = f[y]
  <2>1. Cardinality(T \ {m}) < Cardinality(T) BY <1>3, <1>4
  <2> HIDE DEF T, f
  <2> QED BY <1>2, <1>3, <1>5, <2>1, FS_PigeonHole
<1> QED BY <1>6

LEMMA MulMono == ASSUME NEW a \in Nat, NEW b \in Nat, NEW p \in Nat, a <= b
  PROVE a * p <= b * p
OBVIOUS

LEMMA DivFacts == ASSUME NEW a \in Nat, NEW p \in Nat \ {0}
  PROVE a \div p \in Nat /\ (a \div p) * p <= a /\ a < (a \div p) * p + p
OBVIOUS

\* f is made of the first pieces of ss, one more at a time.
Grows(f, ss, m) ==
  f = [i \in 1 .. m |-> IF i = 1 THEN ss[i] ELSE f[i - 1] \o ss[i]]

LEMMA GrowsNext ==
  ASSUME NEW f, NEW ss, NEW m \in Nat, Grows(f, ss, m), NEW k \in Nat,
         k + 2 \in 1 .. m
  PROVE  f[k + 2] = f[k + 1] \o ss[k + 2]
<1>1. PICK i \in 1 .. m : i = k + 2 OBVIOUS
<1>2. i # 1 /\ i - 1 = k + 1 BY <1>1
<1>3. f[i] = f[i - 1] \o ss[i] BY <1>2 DEF Grows
<1> QED BY <1>1, <1>2, <1>3

LEMMA GrowsExists ==
  ASSUME NEW ss PROVE \A m \in Nat : \E f : Grows(f, ss, m)
<1> DEFINE S == {m \in Nat : \E f : Grows(f, ss, m)}
<1>1. 0 \in S
  <2>1. Grows(<<>>, ss, 0) BY DEF Grows
  <2> QED BY <2>1
<1>2. ASSUME NEW k \in Nat, k \in S PROVE k + 1 \in S
  <2>1. PICK f : Grows(f, ss, k) BY <1>2
  <2> DEFINE new == IF k = 0 THEN ss[1] ELSE f[k] \o ss[k + 1]
             g == [i \in 1 .. k + 1 |-> IF i = k + 1 THEN new ELSE f[i]]
  <2>2. Grows(g, ss, k + 1)
    <3> SUFFICES ASSUME NEW i \in 1 .. k + 1
                 PROVE  g[i] = IF i = 1 THEN ss[i] ELSE g[i - 1] \o ss[i]
      BY DEF Grows
    <3>1. CASE i = k + 1 BY <3>1
    <3>2. CASE i # k + 1
      <4>1. i \in 1 .. k BY <3>2
      <4>2. f[i] = IF i = 1 THEN ss[i] ELSE f[i - 1] \o ss[i]
        BY <2>1, <4>1 DEF Grows
      <4>3. g[i] = f[i] /\ (i # 1 => g[i - 1] = f[i - 1]) BY <4>1
      <4> QED BY <4>2, <4>3
    <3> QED BY <3>1, <3>2
  <2> QED BY <2>2
<1> HIDE DEF S
<1>3. \A m \in Nat : m \in S BY <1>1, <1>2, SetInduction
<1> QED BY <1>3 DEF S

LEMMA FlattenFacts ==
  ASSUME NEW m \in Nat \ {0}, NEW ss, ss = [k \in 1 .. m |-> ss[k]]
  PROVE  \E f : Grows(f, ss, m) /\ FlattenSeq(ss) = f[m]
<1>1. Len(ss) = m OBVIOUS
<1> DEFINE g == CHOOSE f : Grows(f, ss, m)
<1>2. Grows(g, ss, m) BY GrowsExists
<1>3. FlattenSeq(ss) = g[m] BY <1>1 DEF FlattenSeq, Grows
<1> QED BY <1>2, <1>3

LEMMA FlattenType ==
  ASSUME NEW m \in Nat \ {0}, NEW A, NEW ss \in [1 .. m -> Seq(A)]
  PROVE  FlattenSeq(ss) \in Seq(A)
<1>1. PICK f : Grows(f, ss, m) /\ FlattenSeq(ss) = f[m] BY FlattenFacts
<1> DEFINE S == {k \in Nat : k + 1 \in 1 .. m => f[k + 1] \in Seq(A)}
<1>2. 0 \in S BY <1>1 DEF Grows
<1>3. ASSUME NEW k \in Nat, k \in S PROVE k + 1 \in S
  <2> SUFFICES ASSUME k + 2 \in 1 .. m PROVE f[k + 2] \in Seq(A) OBVIOUS
  <2>1. f[k + 1] \in Seq(A) /\ ss[k + 2] \in Seq(A) BY <1>3
  <2>2. f[k + 2] = f[k + 1] \o ss[k + 2] BY <1>1, GrowsNext
  <2> QED BY <2>1, <2>2
<1> HIDE DEF S
<1>4. \A k \in Nat : k \in S BY <1>2, <1>3, SetInduction
<1>5. m - 1 \in S BY <1>4
<1> QED BY <1>1, <1>5 DEF S

\* What the pieces amount to, when g says what the first ones amount to.
LEMMA FlattenIs ==
  ASSUME NEW m \in Nat \ {0}, NEW ss, ss = [k \in 1 .. m |-> ss[k]], NEW g,
         g[1] = ss[1],
         \A k \in 1 .. m - 1 : g[k] \o ss[k + 1] = g[k + 1]
  PROVE  FlattenSeq(ss) = g[m]
<1>1. PICK f : Grows(f, ss, m) /\ FlattenSeq(ss) = f[m] BY FlattenFacts
<1> DEFINE S == {k \in Nat : k + 1 \in 1 .. m => f[k + 1] = g[k + 1]}
<1>2. 0 \in S BY <1>1 DEF Grows
<1>3. ASSUME NEW k \in Nat, k \in S PROVE k + 1 \in S
  <2> SUFFICES ASSUME k + 2 \in 1 .. m PROVE f[k + 2] = g[k + 2] OBVIOUS
  <2>1. f[k + 1] = g[k + 1] BY <1>3
  <2>2. f[k + 2] = f[k + 1] \o ss[k + 2]
    <3>1. m \in Nat OBVIOUS
    <3>2. Grows(f, ss, m) BY <1>1
    <3> QED
      BY ONLY <3>1, <3>2, k \in Nat, k + 2 \in 1 .. m, GrowsNext, ZenonT(60)
  <2>3. k + 1 \in 1 .. m - 1 /\ (k + 1) + 1 = k + 2 OBVIOUS
  <2>4. g[k + 1] \o ss[k + 2] = g[k + 2] BY <2>3
  <2> QED BY <2>1, <2>2, <2>4
<1> HIDE DEF S
<1>4. \A k \in Nat : k \in S BY <1>2, <1>3, SetInduction
<1>5. m - 1 \in S BY <1>4
<1> QED BY <1>1, <1>5 DEF S

LEMMA FlattenNothing ==
  ASSUME NEW m \in Nat \ {0}, NEW ss, ss = [k \in 1 .. m |-> ss[k]],
         \A k \in 1 .. m : ss[k] = <<>>
  PROVE  FlattenSeq(ss) = <<>>
<1>1. \A k \in 1 .. m - 1 : ss[k] \o ss[k + 1] = ss[k + 1]
  <2>1. \A k \in 1 .. m - 1 : k \in 1 .. m /\ k + 1 \in 1 .. m OBVIOUS
  <2>2. <<>> \o <<>> = <<>> OBVIOUS
  <2> QED BY <2>1, <2>2, Zenon
<1>2. FlattenSeq(ss) = ss[m] BY <1>1, FlattenIs, Zenon
<1> QED BY <1>2

LEMMA SortedFacts ==
  ASSUME world \in World
  PROVE  /\ Sorted(1 .. world.n) = Comps /\ Sorted({}) = <<>>
         /\ \A S : Sorted(S) \in Seq(1 .. world.n)
<1>1. world.n \in Nat \ {0} BY DEF World
<1>2. PICK n \in Nat \ {0} : n = world.n BY <1>1
<1>3. Sorted(1 .. n) = Comps
  <2> DEFINE ss == [c \in 1 .. n |-> IF c \in 1 .. n THEN <<c>> ELSE <<>>]
             g == [k \in 1 .. n |-> [c \in 1 .. k |-> c]]
  <2>1. g[1] = ss[1]
    <3>1. ss[1] = <<1>> /\ g[1] = [c \in 1 .. 1 |-> c] OBVIOUS
    <3> QED BY <3>1
  <2>2. ASSUME NEW k \in 1 .. n - 1 PROVE g[k] \o ss[k + 1] = g[k + 1]
    <3>1. g[k] = [c \in 1 .. k |-> c] /\ g[k + 1] = [c \in 1 .. k + 1 |-> c]
      OBVIOUS
    <3>2. ss[k + 1] = <<k + 1>> OBVIOUS
    <3>3. [c \in 1 .. k |-> c] \o <<k + 1>> = [c \in 1 .. k + 1 |-> c]
      OBVIOUS
    <3> QED BY <3>1, <3>2, <3>3
  <2>3. g[n] = Comps BY <1>2 DEF Comps
  <2>4. ss = [k \in 1 .. n |-> ss[k]] OBVIOUS
  <2>5. Sorted(1 .. n) = FlattenSeq(ss) BY <1>2 DEF Sorted
  <2> HIDE DEF ss, g
  <2> QED BY <2>1, <2>2, <2>3, <2>4, <2>5, FlattenIs
<1>4. Sorted({}) = <<>>
  <2> DEFINE ss == [c \in 1 .. n |-> IF c \in {} THEN <<c>> ELSE <<>>]
  <2>1. ss = [k \in 1 .. n |-> ss[k]] /\ \A k \in 1 .. n : ss[k] = <<>>
    OBVIOUS
  <2>2. Sorted({}) = FlattenSeq(ss) BY <1>2 DEF Sorted
  <2> HIDE DEF ss
  <2> QED BY <2>1, <2>2, FlattenNothing
<1>5. ASSUME NEW S PROVE Sorted(S) \in Seq(1 .. n)
  <2> DEFINE ss == [c \in 1 .. n |-> IF c \in S THEN <<c>> ELSE <<>>]
  <2>1. \A c \in 1 .. n : <<c>> \in Seq(1 .. n) /\ <<>> \in Seq(1 .. n)
    OBVIOUS
  <2>2. ss \in [1 .. n -> Seq(1 .. n)] BY <2>1
  <2>3. Sorted(S) = FlattenSeq(ss) BY <1>2 DEF Sorted
  <2> HIDE DEF ss
  <2> QED BY <2>2, <2>3, FlattenType
<1> QED BY <1>2, <1>3, <1>4, <1>5

-----------------------------------------------------------------------------
(***************************************************************************)
(* Cutting                                                                 *)
(***************************************************************************)

\* How many pieces there are, and where they begin.
LEMMA Pieces ==
  ASSUME NEW l \in Nat \ {0}, NEW p \in Nat \ {0}, NEW m,
         m = (l + p - 1) \div p
  PROVE  /\ m \in Nat \ {0}
         /\ \A k \in 1 .. m : (k - 1) * p \in Nat /\ (k - 1) * p < l
         /\ \A k \in Nat : k > m => (k - 1) * p >= l
         /\ l <= p => m = 1
         /\ l > p => m >= 2
<1>1. m \in Nat /\ m * p <= l + p - 1 /\ l + p - 1 < m * p + p BY DivFacts
<1>2. m # 0 BY <1>1
<1>3. ASSUME NEW k \in 1 .. m
      PROVE  (k - 1) * p \in Nat /\ (k - 1) * p < l
  <2>1. (k - 1) * p <= (m - 1) * p BY <1>1, <1>2, MulMono
  <2>2. (m - 1) * p = m * p - p BY <1>1
  <2>3. (k - 1) * p \in Nat BY <1>1
  <2>4. m * p \in Nat BY <1>1
  <2> QED BY <1>1, <2>1, <2>2, <2>3, <2>4
<1>4. ASSUME NEW k \in Nat, k > m PROVE (k - 1) * p >= l
  <2>1. m <= k - 1 /\ k - 1 \in Nat BY <1>1, <1>4
  <2>2. m * p <= (k - 1) * p BY <1>1, <2>1, MulMono
  <2>3. m * p \in Nat /\ (k - 1) * p \in Nat BY <1>1, <2>1
  <2> QED BY <1>1, <2>2, <2>3
<1>5. l <= p => m = 1
  <2> SUFFICES ASSUME l <= p, m # 1 PROVE FALSE OBVIOUS
  <2>1. (2 - 1) * p < l BY <1>1, <1>2, <1>3
  <2> QED BY <2>1
<1>6. l > p => m >= 2
  <2> SUFFICES ASSUME l > p, m = 1 PROVE FALSE BY <1>1, <1>2
  <2>1. (2 - 1) * p >= l BY <1>4
  <2> QED BY <2>1
<1> QED BY <1>1, <1>2, <1>3, <1>4, <1>5, <1>6

LEMMA Slice ==
  ASSUME NEW A, NEW s \in Seq(A), NEW a \in Nat \ {0}, NEW b \in Nat,
         b <= Len(s)
  PROVE  /\ SubSeq(s, a, b) \in Seq(A)
         /\ a <= b + 1 => Len(SubSeq(s, a, b)) = b + 1 - a
         /\ \A i \in 1 .. b + 1 - a : SubSeq(s, a, b)[i] = s[a + i - 1]
OBVIOUS

LEMMA ChunksFacts ==
  ASSUME NEW A, NEW s \in Seq(A), NEW size \in Nat \ {0},
         NEW step \in Nat \ {0}, NEW c, c = Chunks(s, size, step)
  PROVE  /\ Len(c) \in Nat \ {0} /\ c \in [1 .. Len(c) -> Seq(A)]
         /\ Len(c[1]) <= size
         /\ Len(s) <= size \/ Len(s) <= step <=> Len(c) = 1
<1>1. CASE Len(s) <= size
  <2>1. c = <<s>> BY <1>1 DEF Chunks
  <2> QED BY <1>1, <2>1
<1>2. CASE ~(Len(s) <= size)
  <2>1. PICK l \in Nat \ {0} : l = Len(s) /\ l > size BY <1>2
  <2>2. PICK m : m = (l + step - 1) \div step OBVIOUS
  <2>3. c = [k \in 1 .. m |-> SubSeq(s, (k - 1) * step + 1,
                                     Least((k - 1) * step + size, l))]
    BY <1>2, <2>1, <2>2 DEF Chunks
  <2>4. /\ m \in Nat \ {0}
        /\ \A k \in 1 .. m : (k - 1) * step \in Nat /\ (k - 1) * step < l
        /\ l <= step => m = 1
        /\ l > step => m >= 2
    BY <2>2, Pieces, ZenonT(60)
  <2>5. Len(c) = m BY <2>3, <2>4
  <2>6. ASSUME NEW k \in 1 .. m PROVE c[k] \in Seq(A)
    <3>1. PICK q \in Nat : q = (k - 1) * step BY <2>4
    <3>2. Least(q + size, l) \in Nat /\ Least(q + size, l) <= l
      BY <2>1, <3>1 DEF Least
    <3>3. c[k] = SubSeq(s, q + 1, Least(q + size, l)) BY <2>3, <3>1
    <3> QED BY <2>1, <3>2, <3>3, Slice
  <2>7. Len(c[1]) <= size
    <3>1. (1 - 1) * step = 0 OBVIOUS
    <3>2. Least(0 + size, l) = size BY <2>1 DEF Least
    <3>3. c[1] = SubSeq(s, 0 + 1, size) BY <2>3, <2>4, <3>1, <3>2
    <3>4. c[1] = SubSeq(s, 1, size) BY <3>3
    <3> QED BY <2>1, <3>4, Slice
  <2>8. Len(s) <= size \/ Len(s) <= step <=> m = 1
    BY <2>1, <2>4
  <2>9. c \in [1 .. m -> Seq(A)] BY <2>3, <2>6
  <2> QED BY <2>4, <2>5, <2>7, <2>8, <2>9
<1> QED BY <1>1, <1>2

LEMMA SameSeq ==
  ASSUME NEW A, NEW s \in Seq(A), NEW u \in Seq(A), Len(s) = Len(u),
         \A i \in 1 .. Len(s) : s[i] = u[i]
  PROVE  s = u
<1>1. s = [i \in 1 .. Len(s) |-> s[i]] OBVIOUS
<1>2. u = [i \in 1 .. Len(s) |-> u[i]] OBVIOUS
<1> QED BY <1>1, <1>2, Zenon

LEMMA Concat ==
  ASSUME NEW A, NEW s \in Seq(A), NEW u \in Seq(A)
  PROVE  /\ s \o u \in Seq(A) /\ Len(s \o u) = Len(s) + Len(u)
         /\ Len(s) \in Nat /\ Len(u) \in Nat
         /\ \A i \in 1 .. Len(s) : (s \o u)[i] = s[i]
         /\ \A i \in 1 .. Len(u) : (s \o u)[Len(s) + i] = u[i]
OBVIOUS

\* The numbers from a + 1 to b.
Span(a, b) == [i \in 1 .. b - a |-> a + i]

LEMMA SpanFacts ==
  ASSUME NEW a \in Nat, NEW b \in Nat, NEW d \in Nat, a <= b, b <= d
  PROVE  Span(a, b) \o Span(b, d) = Span(a, d)
<1>1. Span(a, b) \in Seq(Nat) /\ Len(Span(a, b)) = b - a BY DEF Span
<1>2. Span(b, d) \in Seq(Nat) /\ Len(Span(b, d)) = d - b BY DEF Span
<1>3. Span(a, d) \in Seq(Nat) /\ Len(Span(a, d)) = d - a BY DEF Span
<1>4. PICK x : x = Span(a, b) \o Span(b, d) OBVIOUS
<1>5. x \in Seq(Nat) /\ Len(x) = d - a
  <2>1. (b - a) + (d - b) = d - a OBVIOUS
  <2> QED BY <1>1, <1>2, <1>4, <2>1, Concat
<1>6. ASSUME NEW i \in 1 .. d - a PROVE x[i] = Span(a, d)[i]
  <2>1. Span(a, d)[i] = a + i BY DEF Span
  <2>2. CASE i <= b - a
    <3>1. x[i] = Span(a, b)[i] BY <1>1, <1>2, <1>4, <2>2, Concat
    <3> QED BY <2>1, <2>2, <3>1 DEF Span
  <2>3. CASE i > b - a
    <3>1. PICK j \in 1 .. d - b : i = (b - a) + j BY <2>3
    <3>2. x[i] = Span(b, d)[j] BY <1>1, <1>2, <1>4, <3>1, Concat, SMTT(30)
    <3>3. Span(b, d)[j] = b + j BY DEF Span
    <3> QED BY <2>1, <3>1, <3>2, <3>3
  <2> QED BY <2>2, <2>3
<1>7. x = Span(a, d) BY <1>3, <1>5, <1>6, SameSeq
<1> QED BY <1>4, <1>7

\* The k-th further page of all components.
LEMMA CutChunk ==
  ASSUME world \in World, NEW p \in Nat \ {0}, world.n > p,
         NEW c, c = Chunks(Comps, p, p), NEW k \in Nat
  PROVE  /\ k * p \in Nat
         /\ Chunk(c, k + 1) = Span(Least(k * p, world.n),
                                   Least(k * p + p, world.n))
<1>1. PICK n \in Nat \ {0} : n = world.n BY DEF World
<1>2. Comps \in Seq(Nat) /\ Len(Comps) = n /\ \A i \in 1 .. n : Comps[i] = i
  BY <1>1 DEF Comps
<1>3. PICK m : m = (n + p - 1) \div p OBVIOUS
<1>4. c = [j \in 1 .. m |-> SubSeq(Comps, (j - 1) * p + 1,
                                   Least((j - 1) * p + p, n))]
  BY <1>1, <1>2, <1>3 DEF Chunks
<1>5. /\ m \in Nat \ {0}
      /\ \A j \in 1 .. m : (j - 1) * p \in Nat /\ (j - 1) * p < n
      /\ \A j \in Nat : j > m => (j - 1) * p >= n
      /\ n <= p => m = 1
      /\ n > p => m >= 2
  BY ONLY n \in Nat \ {0}, p \in Nat \ {0}, <1>3, Pieces, ZenonT(60)
<1>6. PICK q \in Nat : q = k * p OBVIOUS
<1>7. ((k + 1) - 1) * p = q BY <1>6
<1>8. DOMAIN c = 1 .. m BY <1>4
<1>9. Chunk(c, k + 1) = Span(Least(q, n), Least(q + p, n))
  <2>1. CASE k + 1 <= m
    <3>1. q < n BY <1>5, <1>7, <2>1
    <3>2. PICK b \in Nat : b = Least(q + p, n) BY DEF Least
    <3>3. b <= n /\ q <= b /\ Least(q, n) = q BY <3>1, <3>2 DEF Least
    <3>4. Chunk(c, k + 1) = SubSeq(Comps, q + 1, b)
      <4>1. k + 1 \in 1 .. m BY <1>5, <2>1
      <4>2. c[k + 1] = SubSeq(Comps, ((k + 1) - 1) * p + 1,
                              Least(((k + 1) - 1) * p + p, n))
        BY <1>4, <4>1
      <4> QED BY <1>7, <1>8, <3>2, <4>1, <4>2 DEF Chunk
    <3>5. SubSeq(Comps, q + 1, b) \in Seq(Nat)
          /\ Len(SubSeq(Comps, q + 1, b)) = b - q
      BY <1>2, <3>3, Slice
    <3>6. \A i \in 1 .. b - q : SubSeq(Comps, q + 1, b)[i] = q + i
      <4>1. \A i \in 1 .. b + 1 - (q + 1) :
              SubSeq(Comps, q + 1, b)[i] = Comps[(q + 1) + i - 1]
        BY <1>2, <3>3, Slice
      <4>2. \A i \in 1 .. b - q : (q + 1) + i - 1 = q + i /\ q + i \in 1 .. n
        BY <3>3
      <4>3. 1 .. b + 1 - (q + 1) = 1 .. b - q OBVIOUS
      <4> QED BY <1>2, <4>1, <4>2, <4>3
    <3>7. Span(q, b) \in Seq(Nat) /\ Len(Span(q, b)) = b - q
          /\ \A i \in 1 .. b - q : Span(q, b)[i] = q + i
      BY <3>3 DEF Span
    <3>8. SubSeq(Comps, q + 1, b) = Span(q, b)
      BY <3>5, <3>6, <3>7, SameSeq
    <3> QED BY <3>2, <3>3, <3>4, <3>8
  <2>2. CASE ~(k + 1 <= m)
    <3>1. q >= n
      <4>1. k + 1 \in Nat /\ k + 1 > m BY <1>5, <2>2
      <4> QED BY <1>5, <1>7, <4>1
    <3>2. Least(q, n) = n /\ Least(q + p, n) = n BY <3>1 DEF Least
    <3>3. Chunk(c, k + 1) = <<>> BY <1>5, <1>8, <2>2 DEF Chunk
    <3>4. Span(n, n) = <<>> BY DEF Span
    <3> QED BY <3>2, <3>3, <3>4
  <2> QED BY <2>1, <2>2
<1> QED BY <1>1, <1>6, <1>9

\* Nothing is lost between the pages, and nothing comes twice.
LEMMA CutJoins ==
  ASSUME world \in World, NEW p \in Nat \ {0}, NEW c,
         c = Chunks(Comps, p, p), NEW ss,
         ss = [k \in 1 .. MaxPage |-> Chunk(c, k + 1)]
  PROVE  c[1] \o FlattenSeq(ss) = Comps
<1>1. PICK n \in Nat \ {0} : n = world.n BY DEF World
<1>2. Comps \in Seq(Nat) /\ Len(Comps) = n BY <1>1 DEF Comps
<1>3. PICK m \in Nat \ {0} : m = MaxPage /\ m = 2 * n BY <1>1 DEF MaxPage
<1>4. ss = [k \in 1 .. m |-> ss[k]] BY <1>3
<1>5. \A k \in 1 .. m : ss[k] = Chunk(c, k + 1) BY <1>3
<1>6. CASE n <= p
  <2>1. c = <<Comps>> BY <1>2, <1>6 DEF Chunks
  <2>2. \A k \in 1 .. m : ss[k] = <<>> BY <1>5, <2>1 DEF Chunk
  <2>3. FlattenSeq(ss) = <<>> BY <1>4, <2>2, FlattenNothing, Zenon
  <2>4. c[1] = Comps /\ Comps \o <<>> = Comps BY <1>2, <2>1
  <2> QED BY <2>3, <2>4
<1>7. CASE n > p
  <2> DEFINE End(k) == Least(k * p + p, n)
             g == [k \in 1 .. m |-> Span(p, End(k))]
  <2>1. \A k \in Nat : /\ k * p \in Nat
                       /\ Chunk(c, k + 1) = Span(Least(k * p, n), End(k))
    BY <1>1, <1>7, CutChunk
  <2>2. ASSUME NEW k \in 1 .. m - 1 PROVE g[k] \o ss[k + 1] = g[k + 1]
    <3>1. PICK q \in Nat : q = k * p BY <2>1
    <3>2. (k + 1) * p = q + p BY <3>1
    <3>3. ss[k + 1] = Span(Least(q + p, n), Least(q + p + p, n))
      <4>1. k + 1 \in 1 .. m /\ k + 1 \in Nat OBVIOUS
      <4>2. ss[k + 1] = Chunk(c, (k + 1) + 1) BY <1>5, <4>1
      <4> QED BY <2>1, <3>2, <4>1, <4>2
    <3>4. g[k] = Span(p, Least(q + p, n)) BY <3>1
    <3>5. g[k + 1] = Span(p, Least(q + p + p, n)) BY <3>2
    <3>6. PICK a \in Nat : a = Least(q + p, n) BY DEF Least
    <3>7. PICK b \in Nat : b = Least(q + p + p, n) BY DEF Least
    <3>8. p <= a /\ a <= b BY <1>7, <3>6, <3>7 DEF Least
    <3>9. Span(p, a) \o Span(a, b) = Span(p, b) BY <3>8, SpanFacts
    <3> QED BY <3>3, <3>4, <3>5, <3>6, <3>7, <3>9
  <2>3. g[1] = ss[1]
    <3>1. 1 * p = p /\ 1 \in 1 .. m OBVIOUS
    <3>2. Least(p, n) = p BY <1>7 DEF Least
    <3>3. ss[1] = Span(Least(1 * p, n), End(1)) BY <1>5, <2>1, <3>1
    <3>4. g[1] = Span(p, End(1)) BY <3>1
    <3> QED BY <3>1, <3>2, <3>3, <3>4
  <2>4. g[m] = Span(p, n)
    <3>1. m * p >= n
      <4>1. m * 1 <= m * p BY MulMono
      <4> QED BY <1>3, <4>1
    <3>2. End(m) = n BY <2>1, <3>1 DEF Least
    <3> QED BY <3>2
  <2>5. c[1] = Span(0, p)
    <3>1. 0 * p = 0 /\ 0 + p = p OBVIOUS
    <3>2. Least(0, n) = 0 /\ Least(p, n) = p BY <1>7 DEF Least
    <3>3. Chunk(c, 0 + 1) = Span(Least(0 * p, n), Least(0 * p + p, n))
      BY <2>1
    <3>4. Chunk(c, 1) = Span(0, p) BY <3>1, <3>2, <3>3
    <3>5. Len(c) \in Nat \ {0} /\ DOMAIN c = 1 .. Len(c)
      BY <1>2, ChunksFacts
    <3> QED BY <3>4, <3>5 DEF Chunk
  <2> HIDE DEF g
  <2>6. FlattenSeq(ss) = g[m]
    BY ONLY m \in Nat \ {0}, <1>4, <2>2, <2>3, FlattenIs
  <2>7. Span(0, p) \o Span(p, n) = Span(0, n)
    <3>1. 0 \in Nat /\ p \in Nat /\ n \in Nat /\ 0 <= p /\ p <= n BY <1>7
    <3> QED BY ONLY <3>1, SpanFacts
  <2>8. Span(0, n) = Comps
    <3>1. n - 0 = n /\ \A i \in 1 .. n : 0 + i = i OBVIOUS
    <3> QED BY <1>1, <3>1 DEF Span, Comps
  <2> QED BY <2>4, <2>5, <2>6, <2>7, <2>8
<1> QED BY <1>6, <1>7

-----------------------------------------------------------------------------
(***************************************************************************)
(* Records and their pages                                                 *)
(***************************************************************************)
List == Seq(1 .. world.n)
Record == [ver : Nat, stage : 0 .. 3, loc : List, ids : List, tasks : List,
           long : BOOLEAN]
Page == [index : Nat, loc : List, ids : List, tasks : List]

LocCut(v, p) == Chunks(v.loc, p, p)
IdCut(v, p) == Chunks(v.ids, p, p)
TaskCut(v, p) == Chunks(v.tasks, p, world.pageSize)

LEMMA Sizes ==
  ASSUME world \in World
  PROVE  /\ world.n \in Nat \ {0} /\ world.pageSize \in Nat \ {0}
         /\ world.maxSize \in Nat /\ world.sizeChecks \in BOOLEAN
         /\ world.long \in BOOLEAN /\ HalfPage \in Nat \ {0}
         /\ HalfPage <= world.pageSize \/ HalfPage = 1
         /\ MaxPage = 2 * world.n /\ MaxPage \in Nat \ {0}
         /\ <<>> \in List /\ Comps \in List /\ Len(Comps) = world.n
         /\ Len(<<>>) = 0
<1>1. /\ world.n \in Nat \ {0} /\ world.pageSize \in Nat \ {0}
      /\ world.maxSize \in Nat /\ world.sizeChecks \in BOOLEAN
      /\ world.long \in BOOLEAN
  BY DEF World
<1>2. HalfPage \in Nat \ {0} /\ (HalfPage <= world.pageSize \/ HalfPage = 1)
  BY <1>1 DEF HalfPage
<1>3. Comps \in List /\ Len(Comps) = world.n BY <1>1 DEF Comps, List
<1> QED BY <1>1, <1>2, <1>3 DEF MaxPage, List

LEMMA ChunkType ==
  ASSUME NEW A, NEW c, Len(c) \in Nat, c \in [1 .. Len(c) -> Seq(A)],
         NEW k \in Nat \ {0}
  PROVE  Chunk(c, k) \in Seq(A) /\ (k > Len(c) => Chunk(c, k) = <<>>)
<1>1. DOMAIN c = 1 .. Len(c) OBVIOUS
<1>2. CASE k \in 1 .. Len(c) BY <1>1, <1>2 DEF Chunk
<1>3. CASE k \notin 1 .. Len(c)
  <2>1. <<>> \in Seq(A) OBVIOUS
  <2> QED BY <1>1, <1>3, <2>1 DEF Chunk
<1> QED BY <1>2, <1>3

LEMMA PagedFacts ==
  ASSUME world \in World, NEW v \in Record, NEW p \in Nat \ {0},
         NEW q, q = Paged(v, p)
  PROVE  /\ q.first.loc = LocCut(v, p)[1] /\ q.first.ids = IdCut(v, p)[1]
         /\ q.first.tasks = TaskCut(v, p)[1]
         /\ q.first.stage = v.stage /\ q.first.long = v.long
         /\ q.first \in Record
         /\ Len(q.first.ids) <= p /\ Len(q.first.tasks) <= p
         /\ Len(q.more) \in Nat /\ q.more \in [1 .. Len(q.more) -> Page]
         /\ \A k \in 1 .. Len(q.more) :
              /\ q.more[k].loc = Chunk(LocCut(v, p), k + 1)
              /\ q.more[k].ids = Chunk(IdCut(v, p), k + 1)
              /\ q.more[k].tasks = Chunk(TaskCut(v, p), k + 1)
         /\ \A k \in Nat : k > Len(q.more) =>
              /\ Chunk(LocCut(v, p), k + 1) = <<>>
              /\ Chunk(TaskCut(v, p), k + 1) = <<>>
         /\ q.more = <<>> <=> /\ Len(v.loc) <= p /\ Len(v.ids) <= p
                              /\ \/ Len(v.tasks) <= p
                                 \/ Len(v.tasks) <= world.pageSize
<1> v.loc \in List /\ v.ids \in List /\ v.tasks \in List BY DEF Record
<1> world.pageSize \in Nat \ {0} BY Sizes
<1>1. PICK locs : locs = LocCut(v, p) OBVIOUS
<1>2. PICK ids : ids = IdCut(v, p) OBVIOUS
<1>3. PICK tasks : tasks = TaskCut(v, p) OBVIOUS
<1>4. /\ Len(locs) \in Nat \ {0} /\ locs \in [1 .. Len(locs) -> List]
      /\ Len(v.loc) <= p <=> Len(locs) = 1
  BY <1>1, ChunksFacts DEF LocCut, List
<1>5. /\ Len(ids) \in Nat \ {0} /\ ids \in [1 .. Len(ids) -> List]
      /\ Len(ids[1]) <= p /\ (Len(v.ids) <= p <=> Len(ids) = 1)
  BY <1>2, ChunksFacts DEF IdCut, List
<1>6. /\ Len(tasks) \in Nat \ {0} /\ tasks \in [1 .. Len(tasks) -> List]
      /\ Len(tasks[1]) <= p
      /\ Len(v.tasks) <= p \/ Len(v.tasks) <= world.pageSize
           <=> Len(tasks) = 1
  BY <1>3, ChunksFacts DEF TaskCut, List
<1> DEFINE Lens == {Len(locs), Len(ids), Len(tasks)}
           most == CHOOSE k \in Lens : \A l \in Lens : l <= k
<1>7. \E k \in Lens : \A l \in Lens : l <= k BY <1>4, <1>5, <1>6
<1>8. most \in Lens /\ \A l \in Lens : l <= most
  <2> HIDE DEF Lens
  <2> QED BY <1>7
<1>9. PICK m \in Nat : m = most - 1
  <2> HIDE DEF most
  <2> QED BY <1>4, <1>5, <1>6, <1>8
<1>10. /\ Len(locs) <= m + 1 /\ Len(ids) <= m + 1 /\ Len(tasks) <= m + 1
       /\ m = 0 <=> Len(locs) = 1 /\ Len(ids) = 1 /\ Len(tasks) = 1
  <2> HIDE DEF most
  <2>1. most = m + 1 BY <1>4, <1>5, <1>6, <1>8, <1>9, SMTT(30)
  <2>2. PICK a, b, d \in Nat \ {0} :
          a = Len(locs) /\ b = Len(ids) /\ d = Len(tasks)
    BY <1>4, <1>5, <1>6
  <2>3. m + 1 \in {a, b, d} /\ a <= m + 1 /\ b <= m + 1 /\ d <= m + 1
    BY <1>8, <2>1, <2>2
  <2>4. m = 0 <=> a = 1 /\ b = 1 /\ d = 1 BY ONLY <2>3, m \in Nat,
     a \in Nat \ {0}, b \in Nat \ {0}, d \in Nat \ {0}
  <2> QED BY <2>2, <2>3, <2>4
<1> DEFINE more == [k \in 1 .. m |-> [index |-> k, loc |-> Chunk(locs, k + 1),
                      ids |-> Chunk(ids, k + 1), tasks |-> Chunk(tasks, k + 1)]]
           first == [v EXCEPT !.loc = locs[1], !.ids = ids[1],
                              !.tasks = tasks[1]]
<1>11. q = [first |-> first, more |-> more]
  BY <1>1, <1>2, <1>3, <1>9 DEF Paged, LocCut, IdCut, TaskCut
<1>12. first \in Record /\ first.ids = ids[1] /\ first.tasks = tasks[1]
  <2>1. locs[1] \in List /\ ids[1] \in List /\ tasks[1] \in List
    BY <1>4, <1>5, <1>6
  <2> QED BY <2>1 DEF Record
<1>13. \A k \in 1 .. m : /\ more[k] \in Page
                         /\ more[k].loc = Chunk(locs, k + 1)
                         /\ more[k].ids = Chunk(ids, k + 1)
                         /\ more[k].tasks = Chunk(tasks, k + 1)
  <2> SUFFICES ASSUME NEW k \in 1 .. m
               PROVE  /\ Chunk(locs, k + 1) \in List
                      /\ Chunk(ids, k + 1) \in List
                      /\ Chunk(tasks, k + 1) \in List
    BY DEF Page
  <2>1. k + 1 \in Nat \ {0} OBVIOUS
  <2> QED BY <1>4, <1>5, <1>6, <2>1, ChunkType DEF List
<1>14. \A k \in Nat : k > m => /\ Chunk(locs, k + 1) = <<>>
                               /\ Chunk(tasks, k + 1) = <<>>
  <2> SUFFICES ASSUME NEW k \in Nat, k > m
               PROVE  Chunk(locs, k + 1) = <<>> /\ Chunk(tasks, k + 1) = <<>>
    OBVIOUS
  <2>1. k + 1 \in Nat \ {0} /\ k + 1 > Len(locs) /\ k + 1 > Len(tasks)
    BY <1>4, <1>6, <1>10
  <2> QED BY <1>4, <1>6, <2>1, ChunkType DEF List
<1>15. Len(more) = m /\ (more = <<>> <=> m = 0) OBVIOUS
<1>16. q.first = first /\ q.more = more BY <1>11
<1>17. more \in [1 .. m -> Page] BY <1>13
<1> HIDE DEF more, first
<1>18. q.more = <<>> <=> /\ Len(v.loc) <= p /\ Len(v.ids) <= p
                         /\ \/ Len(v.tasks) <= p
                            \/ Len(v.tasks) <= world.pageSize
  BY <1>4, <1>5, <1>6, <1>10, <1>15, <1>16
<1>19. /\ q.first.loc = locs[1] /\ q.first.ids = ids[1]
       /\ q.first.tasks = tasks[1] /\ q.first.stage = v.stage
       /\ q.first.long = v.long
  BY <1>16 DEF first, Record
<1> QED BY <1>1, <1>2, <1>3, <1>5, <1>6, <1>12, <1>13, <1>14, <1>15, <1>16,
           <1>17, <1>18, <1>19

-----------------------------------------------------------------------------
(***************************************************************************)
(* Types                                                                   *)
(***************************************************************************)
Place == {"idle", "put", "tas", "upsert", "putpages", "ret", "get", "getpages",
          "got", "regets", "delete", "list", "delpages"}

HasShape(v) == DOMAIN v = {"ver", "stage", "loc", "ids", "tasks", "long"}
IsRecord(v) == /\ HasShape(v) /\ v.ver \in Nat /\ v.ver <= clock
               /\ v.stage \in 0 .. 3

ThreadShape(w) == DOMAIN w = {"pc", "job", "val", "test", "i", "left", "ok",
                              "err", "tries"}
IsThread(w) == /\ ThreadShape(w) /\ IsRecord(w.val) /\ IsRecord(w.test)
               /\ w.pc \in Place /\ w.err \in BOOLEAN

\* Pages are used at all.
Paging == Etcd /\ world.sizeChecks

TypeInv ==
  /\ world \in Worlds /\ clock \in Nat /\ clobbered \in BOOLEAN
  /\ removal \in {"no", "begun", "done"} /\ (removal # "no" => clock > 0)
  /\ IsRecord(main) /\ (main # None => main.ver >= 1 /\ main.stage >= 1)
  /\ th = [t \in Thread |-> th[t]]
  /\ pages = [k \in DOMAIN pages |-> pages[k]]
  /\ ~Paging => Stored = {}

-----------------------------------------------------------------------------
(***************************************************************************)
(* The inductive invariant                                                 *)
(***************************************************************************)

\* Nobody has written over a newer version of the first page, or the row.
Sound == Etcd \/ ~clobbered

\* The final version has been stored, and may be deleted.
Ended == main.stage = 3 \/ removal # "no"

\* What a thread holds depends on where it is: what a test-and-set is about to
\* write has not ended.
LocalOK(t, w) ==
  /\ w.pc \in {"put", "tas", "upsert", "putpages"} =>
       w.val.stage >= 1 /\ w.val.ver >= 1
  /\ w.pc \in {"tas", "upsert"} =>
       w.val.stage < 3 /\ w.test.ver >= 1
  /\ w.pc \in {"getpages", "got"} =>
       /\ w.val.stage = w.test.stage /\ w.val.ver = w.test.ver
       /\ w.test.stage >= 1 /\ w.test.ver >= 1
  /\ w.pc = "put" => t = "worker"
  /\ w.pc = "putpages" => Paging
  /\ w.pc = "upsert" => ~Etcd
  /\ t = "worker" /\ (w.pc = "regets" \/ w.job = "store") => w.val.stage = 2
  /\ w.pc \in {"get", "getpages", "got"} => w.job # "store"
  /\ w.pc \in {"delete", "list", "delpages"} => w.job = "delete"
  /\ w.job = "delete" => /\ t # "worker" /\ removal # "no"
                         /\ w.pc \in {"delete", "list", "delpages", "ret"}

\* Nobody writes the record after its final version, or looks for that.
EndedOK(t, w) ==
  /\ w.pc \in {"tas", "upsert"} => w.test.stage \in {1, 2}
  /\ main.stage = 3 /\ w.test.stage < 3 => w.test.ver # main.ver
  /\ Ended /\ t = "worker" =>
       \/ w.pc \in {"idle", "get"}
       \/ w.pc \in {"getpages", "got", "putpages", "ret"} /\ w.val.stage = 3

\* A reaper whose calls all succeeded has a list of all the pages there are.
DeletingOK(w) ==
  w.job = "delete" /\ ~w.err /\ w.pc \in {"list", "delpages", "ret"} =>
    /\ main = None
    /\ w.pc = "delpages" => Stored \subseteq w.left
    /\ w.pc = "ret" => Stored = {}

ThreadOK(t, w) ==
  /\ IsThread(w) /\ LocalOK(t, w)
  /\ Sound => EndedOK(t, w)
  /\ ~clobbered => DeletingOK(w)

RecordOK ==
  /\ Sound /\ Ended => main = None \/ main.stage = 3
  /\ ~clobbered /\ removal = "done" => main = None /\ Stored = {}

\* A version that is about to be written is nobody else's.
Pending(w) == w.pc \in {"put", "tas", "upsert"}
UniqueOK ==
  \A t \in Thread : Pending(th[t]) =>
    /\ main.ver # th[t].val.ver /\ th[t].val.ver \notin won
    /\ \A u \in Thread :
         /\ th[u].test.ver # th[t].val.ver
         /\ u # t /\ Pending(th[u]) => th[u].val.ver # th[t].val.ver

\* In etcd nobody ever finds a version again that somebody replaced.
WonOK == /\ Etcd => ~twice /\ main.ver \notin won
         /\ \A v \in won : v \in Nat /\ 0 < v /\ v <= clock

Inv == /\ TypeInv /\ RecordOK /\ UniqueOK /\ WonOK
       /\ \A t \in Thread : ThreadOK(t, th[t])

-----------------------------------------------------------------------------
(***************************************************************************)
(* Records                                                                 *)
(***************************************************************************)
LEMMA SplitFacts ==
  ASSUME NEW v, HasShape(v)
  PROVE  LET f == Split(v).first
         IN  HasShape(f) /\ f.ver = v.ver /\ f.stage = v.stage
<1> DEFINE SameAs(f) == HasShape(f) /\ f.ver = v.ver /\ f.stage = v.stage
<1>1. SameAs(v) OBVIOUS
<1>2. SameAs(Truncated(v)) BY DEF Truncated, HasShape
<1>3. ASSUME NEW u, SameAs(u), NEW n PROVE SameAs(Paged(u, n).first)
  <2>1. \A a, b, c : SameAs([u EXCEPT !.loc = a, !.ids = b, !.tasks = c])
    BY <1>3 DEF HasShape
  <2> HIDE DEF SameAs
  <2> QED BY <2>1 DEF Paged
<1> HIDE DEF SameAs
<1>4. SameAs(Split(v).first) BY <1>1, <1>2, <1>3 DEF Split
<1> QED BY <1>4 DEF SameAs

LEMMA NoMore ==
  ASSUME NEW v, ~world.sizeChecks PROVE Split(v).more = <<>>
BY DEF Split

LEMMA JoinedFacts ==
  ASSUME NEW v, NEW ps, HasShape(v)
  PROVE  LET f == Joined(v, ps)
         IN  HasShape(f) /\ f.ver = v.ver /\ f.stage = v.stage
<1>1. PICK a, b, c :
        Joined(v, ps) = [v EXCEPT !.loc = a, !.ids = b, !.tasks = c]
  BY Zenon DEF Joined
<1> QED BY <1>1 DEF HasShape

LEMMA RowFacts ==
  ASSUME NEW v, HasShape(v)
  PROVE  HasShape(Row(v)) /\ Row(v).ver = v.ver /\ Row(v).stage = v.stage
BY DEF HasShape, Row

LEMMA IdleFacts ==
         /\ ThreadShape(Idle) /\ HasShape(None) /\ None.ver = 0
         /\ None.stage = 0 /\ Idle.val = None /\ Idle.test = None
         /\ Idle.pc = "idle" /\ Idle.job = "none" /\ Idle.err = FALSE
         /\ ~Pending(Idle)
BY DEF ThreadShape, HasShape, Idle, None, Pending

LEMMA IdleOK ==
  ASSUME NEW t, TypeInv PROVE ThreadOK(t, Idle)
<1> clock \in Nat BY DEF TypeInv
<1>1. IsRecord(None) BY IdleFacts DEF IsRecord
<1>2. IsThread(Idle)
  BY <1>1, IdleFacts DEF IsThread, Place
<1>3. LocalOK(t, Idle) BY IdleFacts DEF LocalOK
<1>4. main.stage = 3 => main.ver # 0
  <2>1. main # None => main.ver >= 1 BY DEF TypeInv
  <2> QED BY <2>1, IdleFacts
<1>5. EndedOK(t, Idle) BY <1>4, IdleFacts DEF EndedOK
<1>6. DeletingOK(Idle) BY IdleFacts DEF DeletingOK
<1> QED BY <1>2, <1>3, <1>5, <1>6 DEF ThreadOK

-----------------------------------------------------------------------------
(***************************************************************************)
(* What a step leaves alone                                                *)
(***************************************************************************)

\* How the stored record may change for thread u, which holds w: not at all,
\* to a version that goes on, to the final version, or to nothing.
Keeps(u, w) ==
  /\ Sound' => \/ main' = main /\ (Ended' => Ended)
               \/ removal = "no" /\ removal' = "no" /\ main'.stage \in {1, 2}
               \/ /\ removal = "no" /\ removal' = "no" /\ u # "worker"
                  /\ w.test.ver # main'.ver
               \/ Ended /\ main' = None
  /\ ~clobbered' => \/ main' = main /\ (Stored' \subseteq Stored \/ main # None)
                    \/ removal = "no" /\ removal' = "no"
                    \/ main' = None /\ Stored' \subseteq Stored

LEMMA OthersKept ==
  ASSUME NEW u, NEW w, ThreadOK(u, w), clock \in Nat, clock' \in Nat,
         clock' >= clock, world' = world, clobbered => clobbered',
         removal # "no" => removal' # "no", Keeps(u, w)
  PROVE  ThreadOK(u, w)'
<1>1. IsThread(w)'
  BY DEF ThreadOK, IsThread, IsRecord, ThreadShape, HasShape
<1>2. LocalOK(u, w)'
  BY DEF ThreadOK, LocalOK, Paging, Etcd
<1>3. ASSUME Sound' PROVE EndedOK(u, w)'
  <2>1. EndedOK(u, w) BY <1>3 DEF ThreadOK, Sound, Etcd
  <2> QED BY <1>3, <2>1, IdleFacts DEF EndedOK, Keeps, Ended
<1>4. ASSUME ~clobbered' PROVE DeletingOK(w)'
  <2>1. DeletingOK(w) /\ LocalOK(u, w) BY <1>4 DEF ThreadOK
  <2> QED BY <1>4, <2>1, IdleFacts DEF DeletingOK, Keeps, LocalOK
<1> QED BY <1>1, <1>2, <1>3, <1>4 DEF ThreadOK

\* Which versions are pending after a step of thread t, which then holds w.
LEMMA UniqueKept ==
  ASSUME Inv, NEW t \in Thread, NEW w, th' = [th EXCEPT ![t] = w],
         \/ main'.ver = main.ver
         \/ main'.ver = 0
         \/ main'.ver = th[t].val.ver /\ Pending(th[t]) /\ ~Pending(w),
         won' = won \/ won' = won \cup {th[t].test.ver},
         w.test.ver \in {0, th[t].test.ver, main.ver},
         Pending(w) => \/ w.val.ver = clock + 1
                       \/ w.val.ver = th[t].val.ver /\ Pending(th[t])
  PROVE  UniqueOK'
<1> DEFINE Free(v) == /\ main.ver # v /\ v \notin won /\ v # 0
                      /\ \A u \in Thread : th[u].test.ver # v
<1>1. clock \in Nat /\ main.ver \in Nat /\ main.ver <= clock
      /\ th = [u \in Thread |-> th[u]]
  BY DEF Inv, TypeInv, IsRecord
<1>2. \A u \in Thread : /\ th[u].test.ver \in Nat /\ th[u].test.ver <= clock
                        /\ th[u].val.ver \in Nat /\ th[u].val.ver <= clock
  BY DEF Inv, ThreadOK, IsThread, IsRecord
<1>3. \A v \in won : v \in Nat /\ v <= clock BY DEF Inv, WonOK
<1>4. ASSUME NEW u \in Thread, Pending(th[u]) PROVE Free(th[u].val.ver)
  <2>1. th[u].val.ver # 0 BY <1>4, <1>2 DEF Inv, ThreadOK, LocalOK, Pending
  <2> QED BY <2>1, <1>4 DEF Inv, UniqueOK
<1>5. \A u, x \in Thread : u # x /\ Pending(th[u]) /\ Pending(th[x])
                             => th[u].val.ver # th[x].val.ver
  BY DEF Inv, UniqueOK
<1>6. Free(clock + 1) BY <1>1, <1>2, <1>3
<1>7. \A u \in Thread : th'[u] = IF u = t THEN w ELSE th[u] BY <1>1
<1>8. Pending(w) => Free(w.val.ver)
  BY <1>4, <1>6
<1>9. \A u \in Thread : Pending(th'[u]) => Free(th'[u].val.ver)
  BY <1>4, <1>7, <1>8
<1>10. \A u, x \in Thread : u # x /\ Pending(th'[u]) /\ Pending(th'[x])
                              => th'[u].val.ver # th'[x].val.ver
  BY <1>1, <1>2, <1>5, <1>7
<1>11. ASSUME NEW u \in Thread, Pending(th'[u])
       PROVE  main'.ver # th'[u].val.ver
  BY <1>5, <1>7, <1>9, <1>11
<1>12. ASSUME NEW u \in Thread, Pending(th'[u])
       PROVE  /\ th'[u].val.ver \notin won'
              /\ \A x \in Thread : th'[x].test.ver # th'[u].val.ver
  BY <1>7, <1>9, <1>12
<1> HIDE DEF Free
<1> QED BY <1>10, <1>11, <1>12 DEF UniqueOK, Pending

\* A step of thread t, which then holds w, in terms of what the other threads
\* can see of it.
LEMMA StepInv ==
  ASSUME Inv, NEW t \in Thread, NEW w, th' = [th EXCEPT ![t] = w],
         TypeInv', RecordOK', WonOK', UniqueOK', ThreadOK(t, w)',
         clock' >= clock, world' = world, clobbered => clobbered',
         removal # "no" => removal' # "no",
         \A u \in Thread \ {t} : Keeps(u, th[u])
  PROVE  Inv'
<1>1. th = [u \in Thread |-> th[u]] /\ clock \in Nat /\ clock' \in Nat
  BY DEF Inv, TypeInv
<1>2. ASSUME NEW u \in Thread PROVE ThreadOK(u, th[u])'
  <2>1. PICK x : x = th'[u] OBVIOUS
  <2>2. ThreadOK(u, x)'
    <3>1. CASE u = t
      <4>1. x = w BY <1>1, <2>1, <3>1
      <4> QED BY <4>1, <3>1
    <3>2. CASE u # t
      <4>1. x = th[u] BY <1>1, <2>1, <3>2
      <4>2. ThreadOK(u, x) BY <4>1 DEF Inv
      <4>3. Keeps(u, x) BY <4>1, <3>2
      <4> QED BY <4>2, <4>3, <1>1, OthersKept
    <3> QED BY <3>1, <3>2
  <2> QED BY <2>1, <2>2
<1> QED BY <1>2 DEF Inv

\* A step that changes nothing in the storage, at the same time, after which
\* every thread holds what it might hold before.
Okay(u, w) ==
  \/ w = th[u]
  \/ /\ ThreadOK(u, w) /\ w.test.ver \in {0, th[u].test.ver, main.ver}
     /\ Pending(w) => Pending(th[u]) /\ w.val.ver = th[u].val.ver

LEMMA QuietStep ==
  ASSUME Inv, NEW t \in Thread, NEW w, th' = [th EXCEPT ![t] = w],
         UNCHANGED <<world, main, pages, won, twice, clobbered, removal,
                     clock>>,
         Okay(t, w)
  PROVE  Inv'
<1>1. TypeInv'
  BY DEF Inv, TypeInv, IsRecord, HasShape, Paging, Etcd, Stored
<1>2. RecordOK' /\ WonOK'
  BY DEF Inv, RecordOK, WonOK, Ended, Stored, Etcd, Sound
<1>3. UniqueOK'
  <2>1. Pending(w) => Pending(th[t]) /\ w.val.ver = th[t].val.ver
    BY DEF Okay
  <2>2. w.test.ver \in {0, th[t].test.ver, main.ver} BY DEF Okay
  <2> QED BY <2>1, <2>2, UniqueKept
<1>4. \A u, x : Keeps(u, x) BY DEF Keeps, Ended, Stored
<1>5. ThreadOK(t, w) BY DEF Okay, Inv
<1>6. clock \in Nat BY DEF Inv, TypeInv
<1>7. ThreadOK(t, w)' BY <1>4, <1>5, <1>6, OthersKept
<1>8. clock' >= clock BY <1>6
<1>9. \A u \in Thread \ {t} : Keeps(u, th[u]) BY <1>4
<1> QED BY <1>1, <1>2, <1>3, <1>7, <1>8, <1>9, StepInv, Zenon

\* Call: a thread goes on with a version of its own.
LEMMA CallStep ==
  ASSUME Inv, NEW t \in Thread, NEW w, th' = [th EXCEPT ![t] = w],
         UNCHANGED <<world, main, pages, won, twice, clobbered, removal>>,
         clock' = clock + 1, ThreadShape(w), w.pc \in {"put", "tas"},
         w.err \in BOOLEAN, HasShape(w.val), w.val.ver = clock + 1,
         w.val.stage \in 1 .. 3, IsRecord(w.test), w.job # "delete",
         w.test.ver \in {0, th[t].test.ver, main.ver}, LocalOK(t, w),
         Sound => EndedOK(t, w)
  PROVE  Inv'
<1>1. clock \in Nat BY DEF Inv, TypeInv
<1>2. TypeInv'
  BY <1>1 DEF Inv, TypeInv, IsRecord, HasShape, Paging, Etcd, Stored
<1>3. RecordOK' /\ WonOK'
  BY <1>1 DEF Inv, RecordOK, WonOK, Ended, Stored, Etcd, Sound
<1>4. UniqueOK' BY UniqueKept
<1>5. \A u, x : Keeps(u, x) BY DEF Keeps, Ended, Stored
<1>6. ThreadOK(t, w)'
  <2>1. IsThread(w)'
    BY <1>1 DEF IsThread, IsRecord, Place, ThreadShape, HasShape
  <2>2. LocalOK(t, w)' BY DEF LocalOK, Paging, Etcd
  <2>3. Sound' => EndedOK(t, w)' BY DEF EndedOK, Ended, Sound, Etcd
  <2>4. DeletingOK(w)' BY DEF DeletingOK
  <2> QED BY <2>1, <2>2, <2>3, <2>4 DEF ThreadOK
<1>7. clock' >= clock BY <1>1
<1>8. \A u \in Thread \ {t} : Keeps(u, th[u]) BY <1>5
<1> QED BY <1>2, <1>3, <1>4, <1>6, <1>7, <1>8, StepInv, Zenon

-----------------------------------------------------------------------------
(***************************************************************************)
(* Calls that fail or read                                                 *)
(***************************************************************************)
LEMMA Types ==
  ASSUME Inv
  PROVE  /\ th = [u \in Thread |-> th[u]] /\ clock \in Nat
         /\ IsRecord(main) /\ (main # None => main.ver >= 1 /\ main.stage >= 1)
         /\ \A t \in Thread : ThreadOK(t, th[t]) /\ ThreadShape(th[t])
BY DEF Inv, TypeInv, ThreadOK, IsThread

\* A thread that goes on to another place with the same records in its hands.
Moved(x, w) == /\ ThreadShape(w) /\ w.val = x.val /\ w.test = x.test
               /\ w.job = x.job

LEMMA MovedOkay ==
  ASSUME Inv, NEW t \in Thread, NEW w, Moved(th[t], w), ThreadOK(t, w),
         Pending(w) => Pending(th[t])
  PROVE  Okay(t, w)
BY DEF Okay, Moved

LEMMA AfterMainFacts ==
  ASSUME NEW t
  PROVE  /\ AfterMain(t) \in {"putpages", "ret"}
         /\ AfterMain(t) = "putpages" => Paging
BY NoMore DEF AfterMain, Paging

LEMMA MainFails ==
  ASSUME Inv, NEW t \in Thread, PutMainFails(t) \/ TASFails(t) PROVE Inv'
<1> th = [u \in Thread |-> th[u]] /\ ThreadOK(t, th[t]) /\ ThreadShape(th[t])
  BY Types
<1>1. PICK w : w = th'[t] OBVIOUS
<1>2. /\ th' = [th EXCEPT ![t] = w] /\ Moved(th[t], w)
      /\ w.pc \in {"putpages", "ret"} /\ (w.pc = "putpages" => Paging)
      /\ w.err = TRUE
  <2>1. CASE PutMainFails(t)
    <3>1. PICK p : p = AfterMain(t) OBVIOUS
    <3>2. th' = [th EXCEPT ![t].pc = p, ![t].ok = TRUE, ![t].err = TRUE]
      BY <2>1, <3>1 DEF PutMainFails
    <3> QED BY <1>1, <3>1, <3>2, AfterMainFacts DEF Moved, ThreadShape
  <2>2. CASE TASFails(t)
    BY <1>1, <2>2 DEF Moved, ThreadShape, TASFails
  <2> QED BY <2>1, <2>2
<1>3. th[t].pc \in {"put", "tas"} BY DEF PutMainFails, TASFails
<1>4. ThreadOK(t, w)
  BY <1>2, <1>3
  DEF ThreadOK, Moved, IsThread, Place, LocalOK, EndedOK, DeletingOK
<1>5. Okay(t, w) BY <1>2, <1>4, MovedOkay DEF Pending
<1>6. UNCHANGED <<world, main, pages, won, twice, clobbered, removal, clock>>
  BY DEF PutMainFails, TASFails, history
<1> QED BY <1>2, <1>5, <1>6, QuietStep

LEMMA SelectStep ==
  ASSUME Inv, NEW t \in Thread, TASSelect(t) PROVE Inv'
<1> th = [u \in Thread |-> th[u]] /\ ThreadOK(t, th[t]) /\ ThreadShape(th[t])
  BY Types
<1>1. PICK w : w = th'[t] OBVIOUS
<1>2. PICK p \in {"upsert", "ret"} : th' = [th EXCEPT ![t].pc = p]
  BY DEF TASSelect
<1>3. /\ th' = [th EXCEPT ![t] = w] /\ Moved(th[t], w) /\ w.pc = p
      /\ w.err = th[t].err
  BY <1>1, <1>2 DEF Moved, ThreadShape
<1>4. th[t].pc = "tas" /\ ~Etcd BY DEF TASSelect
<1>5. IsThread(w) BY <1>3 DEF ThreadOK, Moved, IsThread, Place
<1>6. LocalOK(t, w) BY <1>2, <1>3, <1>4 DEF ThreadOK, Moved, LocalOK
<1>7. (Sound => EndedOK(t, w)) /\ (~clobbered => DeletingOK(w))
  BY <1>2, <1>3, <1>4 DEF ThreadOK, Moved, LocalOK, EndedOK, DeletingOK
<1>8. ThreadOK(t, w) BY <1>5, <1>6, <1>7 DEF ThreadOK
<1>9. Okay(t, w) BY <1>3, <1>4, <1>8, MovedOkay DEF Pending
<1>10. UNCHANGED <<world, main, pages, won, twice, clobbered, removal, clock>>
  BY DEF TASSelect, history
<1> QED BY <1>3, <1>9, <1>10, QuietStep

LEMMA PageFails ==
  ASSUME Inv, NEW t \in Thread, PutPageFails(t) PROVE Inv'
<1> th = [u \in Thread |-> th[u]] /\ ThreadOK(t, th[t]) /\ ThreadShape(th[t])
  BY Types
<1>1. PICK w : w = th'[t] OBVIOUS
<1>2. PICK p \in {"putpages", "ret"} :
        th' = [th EXCEPT ![t].i = @ + 1, ![t].err = @ \/ TRUE, ![t].pc = p]
  BY DEF PutPageFails, PageDone
<1>3. /\ th' = [th EXCEPT ![t] = w] /\ Moved(th[t], w) /\ w.pc = p
      /\ w.err \in BOOLEAN
  BY <1>1, <1>2 DEF Moved, ThreadShape
<1>4. th[t].pc = "putpages" BY DEF PutPageFails
<1>5. IsThread(w) BY <1>3 DEF ThreadOK, Moved, IsThread, Place
<1>6. LocalOK(t, w) BY <1>2, <1>3, <1>4 DEF ThreadOK, Moved, LocalOK
<1>7. (Sound => EndedOK(t, w)) /\ (~clobbered => DeletingOK(w))
  BY <1>2, <1>3, <1>4 DEF ThreadOK, Moved, LocalOK, EndedOK, DeletingOK
<1>8. ThreadOK(t, w) BY <1>5, <1>6, <1>7 DEF ThreadOK
<1>9. Okay(t, w) BY <1>3, <1>8, MovedOkay DEF Pending
<1>10. UNCHANGED <<world, main, pages, won, twice, clobbered, removal, clock>>
  BY DEF PutPageFails, history
<1> QED BY <1>3, <1>9, <1>10, QuietStep

\* A thread that is done.
LEMMA ExitStep ==
  ASSUME Inv, NEW t \in Thread, Exit(t),
         UNCHANGED <<world, main, pages, won, twice, clobbered, removal, clock>>
  PROVE  Inv'
<1>1. ThreadOK(t, Idle) BY IdleOK DEF Inv
<1>2. Okay(t, Idle) BY <1>1, IdleFacts DEF Okay
<1>3. th' = [th EXCEPT ![t] = Idle] BY DEF Exit
<1> QED BY <1>2, <1>3, QuietStep

LEMMA GetStep ==
  ASSUME Inv, NEW t \in Thread, GetMain(t) PROVE Inv'
<1> th = [u \in Thread |-> th[u]] /\ ThreadOK(t, th[t]) /\ ThreadShape(th[t])
  BY Types
<1>1. UNCHANGED <<world, main, pages, won, twice, clobbered, removal, clock>>
  BY DEF GetMain, history
<1>2. CASE main = None
  BY <1>1, <1>2, ExitStep DEF GetMain
<1>3. CASE main # None
  <2>1. PICK w : w = th'[t] OBVIOUS
  <2>2. PICK p \in {"getpages", "got"} :
          th' = [th EXCEPT ![t].val = main, ![t].test = main, ![t].pc = p]
    BY <1>3 DEF GetMain
  <2>3. /\ th' = [th EXCEPT ![t] = w] /\ ThreadShape(w) /\ w.val = main
        /\ w.test = main /\ w.pc = p /\ w.job = th[t].job /\ w.err = th[t].err
    BY <2>1, <2>2 DEF ThreadShape
  <2>4. th[t].pc = "get" BY DEF GetMain
  <2>5. IsThread(w) BY <2>3, Types DEF ThreadOK, IsThread, Place
  <2>6. main.stage >= 1 /\ main.ver >= 1 BY <1>3, Types
  <2>7. LocalOK(t, w) BY <2>2, <2>3, <2>4, <2>6 DEF ThreadOK, LocalOK
  <2>8. Sound /\ Ended => main.stage = 3
    BY <1>3 DEF Inv, RecordOK
  <2>9. (Sound => EndedOK(t, w)) /\ (~clobbered => DeletingOK(w))
    BY <2>2, <2>3, <2>4, <2>8 DEF ThreadOK, LocalOK, EndedOK, DeletingOK
  <2>10. ThreadOK(t, w) BY <2>5, <2>7, <2>9 DEF ThreadOK
  <2>11. Okay(t, w) BY <2>2, <2>3, <2>10 DEF Okay, Pending
  <2> QED BY <1>1, <2>3, <2>11, QuietStep
<1> QED BY <1>2, <1>3

LEMMA GetPagesStep ==
  ASSUME Inv, NEW t \in Thread, GetTransitionPages(t) PROVE Inv'
<1> th = [u \in Thread |-> th[u]] /\ ThreadOK(t, th[t]) /\ ThreadShape(th[t])
  BY Types
<1>1. PICK w : w = th'[t] OBVIOUS
<1>2. PICK v : v = Joined(th[t].val, pages) OBVIOUS
<1>3. th' = [th EXCEPT ![t].val = v, ![t].pc = "got"]
  BY <1>2 DEF GetTransitionPages
<1>4. /\ th' = [th EXCEPT ![t] = w] /\ ThreadShape(w) /\ w.val = v
      /\ w.test = th[t].test /\ w.pc = "got" /\ w.job = th[t].job
      /\ w.err = th[t].err
  BY <1>1, <1>3 DEF ThreadShape
<1>5. th[t].pc = "getpages" BY DEF GetTransitionPages
<1>6. HasShape(v) /\ v.ver = th[t].val.ver /\ v.stage = th[t].val.stage
  BY <1>2, JoinedFacts DEF ThreadOK, IsThread, IsRecord
<1>7. IsThread(w) BY <1>4, <1>6 DEF ThreadOK, IsThread, IsRecord, Place
<1>8. LocalOK(t, w) BY <1>4, <1>5, <1>6 DEF ThreadOK, LocalOK
<1>9. (Sound => EndedOK(t, w)) /\ (~clobbered => DeletingOK(w))
  BY <1>4, <1>5, <1>6 DEF ThreadOK, LocalOK, EndedOK, DeletingOK
<1>10. ThreadOK(t, w) BY <1>7, <1>8, <1>9 DEF ThreadOK
<1>11. Okay(t, w) BY <1>4, <1>10 DEF Okay, Pending
<1>12. UNCHANGED <<world, main, pages, won, twice, clobbered, removal, clock>>
  BY DEF GetTransitionPages, history
<1> QED BY <1>4, <1>11, <1>12, QuietStep

LEMMA ExitSteps ==
  ASSUME Inv, NEW t \in Thread, GetFails(t) \/ Crash(t) PROVE Inv'
<1>1. Exit(t) BY DEF GetFails, Crash
<1>2. UNCHANGED <<world, main, pages, won, twice, clobbered, removal, clock>>
  BY DEF GetFails, Crash, history
<1> QED BY <1>1, <1>2, ExitStep

\* A reaper that has failed promises nothing any more.
LEMMA FailedDelete ==
  ASSUME Inv, NEW t \in Thread, NEW w, th' = [th EXCEPT ![t] = w],
         Moved(th[t], w), w.pc \in {"list", "delpages", "ret"}, w.err = TRUE,
         th[t].pc \in {"delete", "list", "delpages"},
         UNCHANGED <<world, main, pages, won, twice, clobbered, removal, clock>>
  PROVE  Inv'
<1> ThreadOK(t, th[t]) BY Types
<1>1. IsThread(w) BY DEF ThreadOK, Moved, IsThread, Place
<1>2. LocalOK(t, w) BY DEF ThreadOK, Moved, LocalOK
<1>3. (Sound => EndedOK(t, w)) /\ (~clobbered => DeletingOK(w))
  BY DEF ThreadOK, Moved, LocalOK, EndedOK, DeletingOK
<1>4. ThreadOK(t, w) BY <1>1, <1>2, <1>3 DEF ThreadOK
<1>5. Okay(t, w) BY <1>4, MovedOkay DEF Pending
<1> QED BY <1>5, QuietStep

LEMMA DeleteFails ==
  ASSUME Inv, NEW t \in Thread,
         DeleteMainFails(t) \/ ListPagesFails(t) \/ DeletePageFails(t)
  PROVE  Inv'
<1> th = [u \in Thread |-> th[u]] /\ ThreadOK(t, th[t]) /\ ThreadShape(th[t])
  BY Types
<1>1. PICK w : w = th'[t] OBVIOUS
<1>2. /\ th' = [th EXCEPT ![t] = w] /\ Moved(th[t], w)
      /\ w.pc \in {"list", "delpages", "ret"} /\ w.err = TRUE
  <2>1. CASE DeleteMainFails(t)
    <3>1. PICK p \in {"list", "ret"} :
            th' = [th EXCEPT ![t].err = TRUE, ![t].pc = p]
      BY <2>1 DEF DeleteMainFails
    <3> QED BY <1>1, <3>1 DEF Moved, ThreadShape
  <2>2. CASE ListPagesFails(t)
    BY <1>1, <2>2 DEF Moved, ThreadShape, ListPagesFails
  <2>3. CASE DeletePageFails(t)
    <3>1. PICK k : PageGone(t, k, TRUE) BY <2>3 DEF DeletePageFails
    <3>2. PICK p \in {"delpages", "ret"} :
            th' = [th EXCEPT ![t].left = @ \ {k}, ![t].err = @ \/ TRUE,
                             ![t].pc = p]
      BY <3>1 DEF PageGone
    <3>3. w.err = TRUE BY <1>1, <3>2 DEF ThreadShape
    <3> QED BY <1>1, <3>2, <3>3 DEF Moved, ThreadShape
  <2> QED BY <2>1, <2>2, <2>3
<1>3. th[t].pc \in {"delete", "list", "delpages"}
  BY DEF DeleteMainFails, ListPagesFails, DeletePageFails
<1>4. UNCHANGED <<world, main, pages, won, twice, clobbered, removal, clock>>
  BY DEF DeleteMainFails, ListPagesFails, DeletePageFails, history
<1> QED BY <1>2, <1>3, <1>4, FailedDelete

LEMMA ListStep ==
  ASSUME Inv, NEW t \in Thread, ListPages(t) PROVE Inv'
<1> th = [u \in Thread |-> th[u]] /\ ThreadOK(t, th[t]) /\ ThreadShape(th[t])
  BY Types
<1>1. PICK w : w = th'[t] OBVIOUS
<1>2. PICK p \in {"delpages", "ret"} :
        /\ th' = [th EXCEPT ![t].left = Stored, ![t].pc = p]
        /\ p = "ret" => Stored = {}
  BY DEF ListPages
<1>3. /\ th' = [th EXCEPT ![t] = w] /\ Moved(th[t], w) /\ w.left = Stored
      /\ w.pc = p /\ w.err = th[t].err
  BY <1>1, <1>2 DEF Moved, ThreadShape
<1>4. th[t].pc = "list" BY DEF ListPages
<1>5. IsThread(w) BY <1>3 DEF ThreadOK, Moved, IsThread, Place
<1>6. LocalOK(t, w) BY <1>3, <1>4 DEF ThreadOK, Moved, LocalOK
<1>7. (Sound => EndedOK(t, w)) /\ (~clobbered => DeletingOK(w))
  BY <1>2, <1>3, <1>4 DEF ThreadOK, Moved, LocalOK, EndedOK, DeletingOK
<1>8. ThreadOK(t, w) BY <1>5, <1>6, <1>7 DEF ThreadOK
<1>9. Okay(t, w) BY <1>3, <1>8, MovedOkay DEF Pending
<1>10. UNCHANGED <<world, main, pages, won, twice, clobbered, removal, clock>>
  BY DEF ListPages, history
<1> QED BY <1>3, <1>9, <1>10, QuietStep

-----------------------------------------------------------------------------
(***************************************************************************)
(* Calls that write                                                        *)
(***************************************************************************)

\* Thread t writes the version in its hands, and goes on with w.
LEMMA WriteFacts ==
  ASSUME Inv, NEW t \in Thread, NEW w, th' = [th EXCEPT ![t] = w],
         Moved(th[t], w), Pending(th[t]), ~Pending(w),
         HasShape(main'), main'.ver = th[t].val.ver,
         main'.stage = th[t].val.stage,
         won' = won \/ won' = won \cup {th[t].test.ver},
         UNCHANGED <<world, pages, clock, removal>>, clobbered' \in BOOLEAN
  PROVE  /\ TypeInv' /\ UniqueOK'
         /\ \A u \in Thread : th[u].test.ver # main'.ver
         /\ main'.ver \notin won /\ main'.ver # main.ver
<1> ThreadOK(t, th[t]) /\ clock \in Nat BY Types
<1>1. /\ main'.ver \in Nat /\ main'.ver <= clock /\ main'.ver >= 1
      /\ main'.stage \in 1 .. 3
  BY DEF ThreadOK, IsThread, IsRecord, LocalOK, Pending
<1>2. IsRecord(main)' BY <1>1 DEF IsRecord, HasShape
<1>3. TypeInv'
  BY <1>1, <1>2 DEF Inv, TypeInv, Paging, Etcd, Stored
<1>4. UniqueOK' BY UniqueKept DEF Moved
<1>5. /\ \A u \in Thread : th[u].test.ver # main'.ver
      /\ main'.ver \notin won /\ main'.ver # main.ver
  BY DEF Inv, UniqueOK
<1> QED BY <1>3, <1>4, <1>5

LEMMA PutStep ==
  ASSUME Inv, NEW t \in Thread, PutMain(t) PROVE Inv'
<1> /\ th = [u \in Thread |-> th[u]] /\ ThreadOK(t, th[t])
    /\ ThreadShape(th[t]) /\ clock \in Nat
  BY Types
<1>1. PICK w : w = th'[t] OBVIOUS
<1>2. PICK p : p = AfterMain(t) OBVIOUS
<1>3. th' = [th EXCEPT ![t].pc = p, ![t].ok = TRUE]
  BY <1>2 DEF PutMain
<1>4. /\ th' = [th EXCEPT ![t] = w] /\ Moved(th[t], w) /\ w.pc = p
      /\ w.err = th[t].err
  BY <1>1, <1>3 DEF Moved, ThreadShape
<1>5. p \in {"putpages", "ret"} /\ (p = "putpages" => Paging)
  BY <1>2, AfterMainFacts
<1>6. th[t].pc = "put" /\ t = "worker"
  BY DEF PutMain, ThreadOK, LocalOK
<1>7. UNCHANGED <<world, pages, clock, removal, won, twice, clobbered>>
  BY DEF PutMain, history
<1>8. HasShape(th[t].val) BY DEF ThreadOK, IsThread, IsRecord
<1>9. /\ HasShape(main') /\ main'.ver = th[t].val.ver
      /\ main'.stage = th[t].val.stage
  <2>1. CASE Etcd BY <1>8, <2>1, SplitFacts DEF PutMain
  <2>2. CASE ~Etcd BY <1>8, <2>2, RowFacts DEF PutMain
  <2> QED BY <2>1, <2>2
<1>10. clobbered' \in BOOLEAN BY <1>7 DEF Inv, TypeInv
<1>11. /\ TypeInv' /\ UniqueOK'
       /\ \A u \in Thread : th[u].test.ver # main'.ver
       /\ main'.ver \notin won
  <2>1. Pending(th[t]) /\ ~Pending(w) BY <1>4, <1>5, <1>6 DEF Pending
  <2> QED BY <1>4, <1>7, <1>9, <1>10, <2>1, WriteFacts
<1>12. Sound => ~Ended BY <1>6 DEF ThreadOK, EndedOK
<1>13. RecordOK' BY <1>7, <1>12 DEF RecordOK, Ended, Sound, Etcd
<1>14. WonOK' BY <1>7, <1>11 DEF Inv, WonOK, Etcd
<1>15. IsThread(w)'
  BY <1>4, <1>5, <1>7 DEF ThreadOK, Moved, IsThread, Place, IsRecord,
     ThreadShape, HasShape
<1>16. LocalOK(t, w)'
  BY <1>4, <1>5, <1>6, <1>7 DEF ThreadOK, Moved, LocalOK, Paging, Etcd
<1>17. (Sound' => EndedOK(t, w)') /\ (~clobbered' => DeletingOK(w)')
  BY <1>4, <1>5, <1>6, <1>7, <1>9, <1>11, <1>12
  DEF ThreadOK, Moved, LocalOK, EndedOK, DeletingOK, Ended, Sound, Etcd
<1>18. ThreadOK(t, w)' BY <1>15, <1>16, <1>17 DEF ThreadOK
<1>19. \A u \in Thread \ {t} : Keeps(u, th[u])
  BY <1>6, <1>7, <1>11, <1>12 DEF Keeps, Ended, Sound, Etcd
<1>20. clock' >= clock BY <1>7
<1> QED BY <1>4, <1>7, <1>11, <1>13, <1>14, <1>18, <1>19, <1>20, StepInv, Zenon

\* A test-and-set that succeeds stores a version that has not ended.
LEMMA Replaces ==
  ASSUME Inv, NEW t \in Thread, NEW w, th' = [th EXCEPT ![t] = w],
         Moved(th[t], w), th[t].pc \in {"tas", "upsert"},
         w.pc \in {"putpages", "ret"}, w.pc = "putpages" => Paging,
         w.err = th[t].err, HasShape(main'), main'.ver = th[t].val.ver,
         main'.stage = th[t].val.stage, won' = won \cup {th[t].test.ver},
         UNCHANGED <<world, pages, clock, removal>>, clobbered' \in BOOLEAN,
         clobbered => clobbered', Sound' => ~Ended, Etcd => ~twice',
         Etcd => main'.ver # th[t].test.ver
  PROVE  Inv'
<1> ThreadOK(t, th[t]) /\ clock \in Nat BY Types
<1>1. /\ TypeInv' /\ UniqueOK' /\ main'.ver \notin won
  <2>1. Pending(th[t]) /\ ~Pending(w) BY DEF Pending
  <2> QED BY <2>1, WriteFacts
<1>2. th[t].val.stage \in {1, 2} /\ th[t].test.ver >= 1
  BY DEF ThreadOK, LocalOK, IsThread, IsRecord
<1>3. RecordOK' BY <1>2 DEF RecordOK, Ended, Sound, Etcd
<1>4. WonOK'
  <2>1. th[t].test.ver \in Nat /\ th[t].test.ver <= clock
    BY DEF ThreadOK, IsThread, IsRecord
  <2> QED BY <1>1, <1>2, <2>1 DEF Inv, WonOK, Etcd
<1>5. IsThread(w)'
  BY DEF ThreadOK, Moved, IsThread, Place, IsRecord, ThreadShape, HasShape
<1>6. LocalOK(t, w)' BY DEF ThreadOK, Moved, LocalOK, Paging, Etcd
<1>7. (Sound' => EndedOK(t, w)') /\ (~clobbered' => DeletingOK(w)')
  BY <1>2 DEF ThreadOK, Moved, LocalOK, EndedOK, DeletingOK, Ended
<1>8. ThreadOK(t, w)' BY <1>5, <1>6, <1>7 DEF ThreadOK
<1>9. \A u \in Thread \ {t} : Keeps(u, th[u])
  BY <1>2 DEF Keeps, Ended, Sound, Etcd
<1>10. clock' >= clock OBVIOUS
<1> QED BY <1>1, <1>3, <1>4, <1>8, <1>9, <1>10, StepInv, Zenon

LEMMA TASStep ==
  ASSUME Inv, NEW t \in Thread, TAS(t) PROVE Inv'
<1> /\ th = [u \in Thread |-> th[u]] /\ ThreadOK(t, th[t])
    /\ ThreadShape(th[t]) /\ clock \in Nat
  BY Types
<1>1. PICK w : w = th'[t] OBVIOUS
<1>2. PICK p : p = AfterMain(t) OBVIOUS
<1>3. PICK o : th' = [th EXCEPT ![t].pc = p, ![t].ok = o]
  BY <1>2 DEF TAS
<1>4. /\ th' = [th EXCEPT ![t] = w] /\ Moved(th[t], w) /\ w.pc = p
      /\ w.err = th[t].err
  BY <1>1, <1>3 DEF Moved, ThreadShape
<1>5. p \in {"putpages", "ret"} /\ (p = "putpages" => Paging)
  BY <1>2, AfterMainFacts
<1>6. /\ th[t].pc = "tas" /\ Etcd
      /\ Sound => th[t].test.stage \in {1, 2}
  BY DEF TAS, ThreadOK, EndedOK
<1>7. UNCHANGED <<world, pages, clock, removal, clobbered>> BY DEF TAS
<1>8. CASE main = th[t].test
  <2>1. HasShape(th[t].val) BY DEF ThreadOK, IsThread, IsRecord
  <2>2. /\ HasShape(main') /\ main'.ver = th[t].val.ver
        /\ main'.stage = th[t].val.stage
    BY <1>8, <2>1, SplitFacts DEF TAS
  <2>3. won' = won \cup {th[t].test.ver}
        /\ twice' = (twice \/ th[t].test.ver \in won)
    BY <1>8 DEF TAS, Wins
  <2>4. ~twice' BY <1>6, <1>8, <2>3 DEF Inv, WonOK
  <2>5. main'.ver # th[t].test.ver BY <1>6, <2>2 DEF Inv, UniqueOK, Pending
  <2>6. Sound' => ~Ended
    BY <1>6, <1>7, <1>8, IdleFacts DEF Inv, RecordOK, Sound, Etcd
  <2>7. clobbered' \in BOOLEAN BY <1>7 DEF Inv, TypeInv
  <2> QED BY <1>4, <1>5, <1>6, <1>7, <2>2, <2>3, <2>4, <2>5, <2>6, <2>7,
             Replaces
<1>9. CASE main # th[t].test
  <2>1. main' = main /\ won' = won /\ twice' = twice BY <1>9 DEF TAS
  <2>2. IsThread(w) BY <1>4, <1>5 DEF ThreadOK, Moved, IsThread, Place
  <2>3. LocalOK(t, w) BY <1>4, <1>5, <1>6 DEF ThreadOK, Moved, LocalOK
  <2>4. (Sound => EndedOK(t, w)) /\ (~clobbered => DeletingOK(w))
    BY <1>4, <1>5, <1>6 DEF ThreadOK, Moved, LocalOK, EndedOK, DeletingOK
  <2>5. ThreadOK(t, w) BY <2>2, <2>3, <2>4 DEF ThreadOK
  <2>6. Okay(t, w) BY <1>4, <1>5, <2>5, MovedOkay DEF Pending
  <2> QED BY <1>4, <1>7, <2>1, <2>6, QuietStep
<1> QED BY <1>8, <1>9

LEMMA UpsertStep ==
  ASSUME Inv, NEW t \in Thread, TASUpsert(t) PROVE Inv'
<1> /\ th = [u \in Thread |-> th[u]] /\ ThreadOK(t, th[t])
    /\ ThreadShape(th[t]) /\ clock \in Nat
  BY Types
<1>1. PICK w : w = th'[t] OBVIOUS
<1>2. /\ th' = [th EXCEPT ![t] = w] /\ Moved(th[t], w) /\ w.pc = "ret"
      /\ w.err = th[t].err
  <2>1. th' = [th EXCEPT ![t].pc = "ret", ![t].ok = TRUE] BY DEF TASUpsert
  <2> QED BY <1>1, <2>1 DEF Moved, ThreadShape
<1>3. /\ th[t].pc = "upsert" /\ ~Etcd /\ th[t].test.ver >= 1
      /\ Sound => th[t].test.stage \in {1, 2}
  BY DEF TASUpsert, ThreadOK, LocalOK, EndedOK
<1>4. HasShape(th[t].val) BY DEF ThreadOK, IsThread, IsRecord
<1>5. /\ HasShape(main') /\ main'.ver = th[t].val.ver
      /\ main'.stage = th[t].val.stage
  BY <1>4, RowFacts DEF TASUpsert
<1>6. UNCHANGED <<world, pages, clock, removal>> BY DEF TASUpsert
<1>7. won' = won \cup {th[t].test.ver} BY DEF TASUpsert, Wins
<1>8. clobbered' = (clobbered \/ main.ver # th[t].test.ver) BY DEF TASUpsert
<1>9. clobbered' \in BOOLEAN /\ (clobbered => clobbered')
  BY <1>8, Zenon DEF Inv, TypeInv
<1>10. ASSUME Sound' PROVE ~Ended
  <2>1. ~clobbered /\ main.ver = th[t].test.ver
    BY <1>3, <1>6, <1>8, <1>10 DEF Sound, Etcd
  <2>2. main # None /\ main.stage # 3
    BY <1>3, <2>1, IdleFacts DEF ThreadOK, EndedOK, Sound
  <2> QED BY <2>1, <2>2 DEF Inv, RecordOK, Sound, Ended
<1> QED BY <1>2, <1>3, <1>5, <1>6, <1>7, <1>9, <1>10, Replaces

LEMMA PutPageStep ==
  ASSUME Inv, NEW t \in Thread, PutPage(t) PROVE Inv'
<1> /\ th = [u \in Thread |-> th[u]] /\ ThreadOK(t, th[t])
    /\ ThreadShape(th[t]) /\ clock \in Nat
  BY Types
<1>1. PICK w : w = th'[t] OBVIOUS
<1>2. PICK p \in {"putpages", "ret"} :
        th' = [th EXCEPT ![t].i = @ + 1, ![t].err = @ \/ FALSE, ![t].pc = p]
  BY DEF PutPage, PageDone
<1>3. /\ th' = [th EXCEPT ![t] = w] /\ Moved(th[t], w) /\ w.pc = p
      /\ w.err \in BOOLEAN
  BY <1>1, <1>2 DEF Moved, ThreadShape
<1>4. th[t].pc = "putpages" /\ Paging /\ th[t].val.ver >= 1
  BY DEF PutPage, ThreadOK, LocalOK
<1>5. UNCHANGED <<world, main, clock, removal, won, twice>> BY DEF PutPage
<1>6. clobbered' = (clobbered \/ main.ver # th[t].val.ver) BY DEF PutPage
<1>7. clobbered' \in BOOLEAN /\ (clobbered => clobbered')
  BY <1>6, Zenon DEF Inv, TypeInv
<1>8. ASSUME ~clobbered' PROVE main # None
  <2>1. main.ver = th[t].val.ver BY <1>6, <1>8
  <2> QED BY <1>4, <2>1, IdleFacts
<1>9. TypeInv'
  <2>1. PICK i, x : pages' = [pages EXCEPT ![i] = x] BY DEF PutPage
  <2>2. pages' = [k \in DOMAIN pages' |-> pages'[k]] BY <2>1
  <2>3. IsRecord(main)' BY <1>5, Types DEF IsRecord, HasShape
  <2>4. th' = [u \in Thread |-> th'[u]] BY <1>3
  <2>5. Paging' BY <1>4, <1>5 DEF Paging, Etcd
  <2> QED BY <1>5, <1>7, <2>2, <2>3, <2>4, <2>5 DEF Inv, TypeInv
<1>10. RecordOK' BY <1>5, <1>7, <1>8 DEF Inv, RecordOK, Ended, Sound, Etcd
<1>11. WonOK' BY <1>5 DEF Inv, WonOK, Etcd
<1>12. UniqueOK'
  <2>1. ~Pending(w) BY <1>2, <1>3 DEF Pending
  <2> QED BY <1>3, <1>5, <2>1, UniqueKept DEF Moved
<1>13. \A u \in Thread : Keeps(u, th[u])
  BY <1>5, <1>8 DEF Keeps, Ended
<1>14. ThreadOK(t, w)'
  <2>1. IsThread(w) BY <1>3 DEF ThreadOK, Moved, IsThread, Place
  <2>2. LocalOK(t, w) BY <1>2, <1>3, <1>4 DEF ThreadOK, Moved, LocalOK
  <2>3. (Sound => EndedOK(t, w)) /\ (~clobbered => DeletingOK(w))
    BY <1>2, <1>3, <1>4 DEF ThreadOK, Moved, LocalOK, EndedOK, DeletingOK
  <2>4. ThreadOK(t, w) BY <2>1, <2>2, <2>3 DEF ThreadOK
  <2>5. Keeps(t, w) BY <1>5, <1>8 DEF Keeps, Ended
  <2> QED BY <1>5, <1>7, <2>4, <2>5, OthersKept
<1>15. clock' >= clock BY <1>5
<1> QED BY <1>3, <1>5, <1>7, <1>9, <1>10, <1>11, <1>12, <1>13, <1>14, <1>15,
           StepInv, Zenon

LEMMA DeleteMainStep ==
  ASSUME Inv, NEW t \in Thread, DeleteMain(t) PROVE Inv'
<1> /\ th = [u \in Thread |-> th[u]] /\ ThreadOK(t, th[t])
    /\ ThreadShape(th[t]) /\ clock \in Nat
  BY Types
<1>1. PICK w : w = th'[t] OBVIOUS
<1>2. PICK p \in {"list", "ret"} :
        th' = [th EXCEPT ![t].pc = p] /\ (p = "ret" => ~Paging)
  BY DEF DeleteMain, Paging
<1>3. /\ th' = [th EXCEPT ![t] = w] /\ Moved(th[t], w) /\ w.pc = p
      /\ w.err = th[t].err
  BY <1>1, <1>2 DEF Moved, ThreadShape
<1>4. th[t].pc = "delete" /\ th[t].job = "delete" /\ t # "worker"
      /\ removal # "no"
  BY DEF DeleteMain, ThreadOK, LocalOK
<1>5. UNCHANGED <<world, pages, clock, removal, won, twice, clobbered>>
  BY DEF DeleteMain, history
<1>6. main' = None BY DEF DeleteMain
<1>7. Stored' = Stored BY <1>5 DEF Stored
<1>8. TypeInv'
  <2>1. IsRecord(None)' BY <1>5, IdleFacts DEF IsRecord, HasShape
  <2>2. IsRecord(main)' BY <1>6, <2>1 DEF IsRecord, HasShape, None
  <2>3. (main # None)' <=> main' # None BY DEF None
  <2>4. th' = [u \in Thread |-> th'[u]] BY <1>3
  <2>5. (~Paging => Stored = {})' BY <1>5, <1>7 DEF Inv, TypeInv, Paging, Etcd
  <2> QED BY <1>5, <1>6, <2>2, <2>3, <2>4, <2>5 DEF Inv, TypeInv
<1>9. (main = None)' BY <1>6 DEF None
<1>10. RecordOK' BY <1>5, <1>7, <1>9 DEF Inv, RecordOK, Ended
<1>11. WonOK'
  BY <1>5, <1>6, IdleFacts DEF Inv, WonOK, Etcd
<1>12. UniqueOK'
  <2>1. ~Pending(w) BY <1>2, <1>3 DEF Pending
  <2> QED BY <1>3, <1>5, <1>6, <2>1, IdleFacts, UniqueKept DEF Moved
<1>13. \A u, x : Keeps(u, x)
  BY <1>4, <1>6, <1>7 DEF Keeps, Ended
<1>14. IsThread(w)'
  BY <1>3, <1>5 DEF ThreadOK, Moved, IsThread, Place, IsRecord, ThreadShape,
     HasShape
<1>15. LocalOK(t, w)'
  BY <1>2, <1>3, <1>4, <1>5 DEF ThreadOK, Moved, LocalOK
<1>16. EndedOK(t, w)' BY <1>2, <1>3, <1>4, <1>6, IdleFacts DEF EndedOK
<1>17. DeletingOK(w)'
  BY <1>2, <1>3, <1>7, <1>9 DEF Inv, TypeInv, DeletingOK
<1>18. ThreadOK(t, w)' BY <1>14, <1>15, <1>16, <1>17 DEF ThreadOK
<1>19. clock' >= clock BY <1>5
<1> QED BY <1>3, <1>5, <1>8, <1>10, <1>11, <1>12, <1>13, <1>18, <1>19,
           StepInv, Zenon

LEMMA DeletePageStep ==
  ASSUME Inv, NEW t \in Thread, DeletePage(t) PROVE Inv'
<1> /\ th = [u \in Thread |-> th[u]] /\ ThreadOK(t, th[t])
    /\ ThreadShape(th[t]) /\ clock \in Nat
  BY Types
<1>1. PICK w : w = th'[t] OBVIOUS
<1>2. PICK k : pages' = [pages EXCEPT ![k] = NoPage] /\ PageGone(t, k, FALSE)
  BY DEF DeletePage
<1>3. PICK p \in {"delpages", "ret"} :
        /\ th' = [th EXCEPT ![t].left = @ \ {k}, ![t].err = @ \/ FALSE,
                            ![t].pc = p]
        /\ p = "ret" => th[t].left = {k}
  BY <1>2 DEF PageGone
<1>4. /\ th' = [th EXCEPT ![t] = w] /\ Moved(th[t], w) /\ w.pc = p
      /\ w.left = th[t].left \ {k} /\ (w.err <=> th[t].err)
      /\ w.err \in BOOLEAN
  BY <1>1, <1>3 DEF Moved, ThreadShape
<1>5. th[t].pc = "delpages" /\ th[t].job = "delete"
  BY DEF DeletePage, ThreadOK, LocalOK
<1>6. UNCHANGED <<world, main, clock, removal, won, twice, clobbered>>
  BY DEF DeletePage, history
<1>7. Stored' = Stored \ {k}
  <2>1. pages = [l \in DOMAIN pages |-> pages[l]] BY DEF Inv, TypeInv
  <2> QED BY <1>2, <2>1 DEF Stored, NoPage
<1>8. TypeInv'
  <2>1. IsRecord(main)' BY <1>6, Types DEF IsRecord, HasShape
  <2>2. th' = [u \in Thread |-> th'[u]] BY <1>4
  <2>3. (~Paging => Stored = {})' BY <1>6, <1>7 DEF Inv, TypeInv, Paging, Etcd
  <2>4. pages' = [l \in DOMAIN pages' |-> pages'[l]] BY <1>2
  <2> QED BY <1>6, <2>1, <2>2, <2>3, <2>4 DEF Inv, TypeInv
<1>9. RecordOK' BY <1>6, <1>7 DEF Inv, RecordOK, Ended, Sound, Etcd
<1>10. WonOK' BY <1>6 DEF Inv, WonOK, Etcd
<1>11. UniqueOK'
  <2>1. ~Pending(w) BY <1>3, <1>4 DEF Pending
  <2> QED BY <1>4, <1>6, <2>1, UniqueKept DEF Moved
<1>12. \A u, x : Keeps(u, x) BY <1>6, <1>7 DEF Keeps, Ended
<1>13. IsThread(w)'
  BY <1>4, <1>6 DEF ThreadOK, Moved, IsThread, Place, IsRecord, ThreadShape,
     HasShape
<1>14. LocalOK(t, w)'
  BY <1>3, <1>4, <1>5, <1>6 DEF ThreadOK, Moved, LocalOK
<1>15. Sound' => EndedOK(t, w)'
  BY <1>3, <1>4, <1>5, <1>6 DEF ThreadOK, Moved, LocalOK, EndedOK, Ended,
     Sound, Etcd
<1>16. ~clobbered' => DeletingOK(w)'
  BY <1>3, <1>4, <1>5, <1>6, <1>7 DEF ThreadOK, Moved, DeletingOK
<1>17. ThreadOK(t, w)' BY <1>13, <1>14, <1>15, <1>16 DEF ThreadOK
<1>18. clock' >= clock BY <1>6
<1> QED BY <1>4, <1>6, <1>8, <1>9, <1>10, <1>11, <1>12, <1>17, <1>18,
           StepInv, Zenon

-----------------------------------------------------------------------------
(***************************************************************************)
(* The callers                                                             *)
(***************************************************************************)
LEMMA Threads ==
  /\ "worker" \in Thread /\ "touch" \in Thread
  /\ \A r \in Reapers : r \in Thread /\ r # "worker" /\ r # "touch"
BY ReaperAssumption DEF Thread

\* What a thread holds when it calls.
Calling(job, pc, val, test, tries) ==
  [pc |-> pc, job |-> job, val |-> [val EXCEPT !.ver = clock + 1],
   test |-> test, i |-> 1, left |-> {}, ok |-> FALSE, err |-> FALSE,
   tries |-> tries]

LEMMA CallFacts ==
  ASSUME NEW job, NEW pc, NEW val, NEW test, NEW tries, HasShape(val),
         NEW w, w = Calling(job, pc, val, test, tries)
  PROVE  /\ ThreadShape(w) /\ w.pc = pc /\ w.job = job /\ w.test = test
         /\ HasShape(w.val) /\ w.val.ver = clock + 1
         /\ w.val.stage = val.stage /\ w.err \in BOOLEAN
<1>1. PICK x : x = [val EXCEPT !.ver = clock + 1] OBVIOUS
<1>2. HasShape(x) /\ x.ver = clock + 1 /\ x.stage = val.stage
  BY <1>1 DEF HasShape
<1>3. ThreadShape(w) /\ w.pc = pc /\ w.job = job /\ w.test = test
      /\ w.val = x /\ w.err \in BOOLEAN
  BY <1>1 DEF Calling, ThreadShape
<1> QED BY <1>2, <1>3

\* Call, in one piece.
LEMMA Calls ==
  ASSUME Inv, NEW t \in Thread, NEW job, NEW pc \in {"put", "tas"}, NEW val,
         NEW test, NEW tries, Call(t, job, pc, val, test, tries),
         UNCHANGED <<world, main, pages, won, twice, clobbered, removal>>,
         HasShape(val), IsRecord(test),
         test.ver \in {0, th[t].test.ver, main.ver},
         job \notin {"delete", "store"} \/ (val.stage = 2 /\ job = "store"),
         val.stage \in 1 .. 3, pc = "put" => t = "worker",
         pc = "tas" => val.stage < 3 /\ test.ver >= 1,
         Sound =>
           /\ pc = "tas" => test.stage \in {1, 2}
           /\ main.stage = 3 /\ test.stage < 3 => test.ver # main.ver
           /\ ~(Ended /\ t = "worker")
  PROVE  Inv'
<1>1. PICK w : w = Calling(job, pc, val, test, tries) OBVIOUS
<1>2. th' = [th EXCEPT ![t] = w] /\ clock' = clock + 1
  BY <1>1 DEF Call, Calling
<1>3. /\ ThreadShape(w) /\ w.pc = pc /\ w.job = job /\ w.test = test
      /\ HasShape(w.val) /\ w.val.ver = clock + 1
      /\ w.val.stage = val.stage /\ w.err \in BOOLEAN
  BY <1>1, CallFacts
<1>4. clock \in Nat BY Types
<1>5. LocalOK(t, w) BY <1>3, <1>4 DEF LocalOK
<1>6. Sound => EndedOK(t, w) BY <1>3 DEF EndedOK
<1> QED BY <1>2, <1>3, <1>5, <1>6, CallStep

LEMMA TriggerStep == ASSUME Inv, Trigger PROVE Inv'
<1>1. clock = 0 /\ Call("worker", "create", "put", New, None, 0)
  BY DEF Trigger
<1>2. UNCHANGED <<world, main, pages, won, twice, clobbered, removal>>
  BY DEF Trigger, history
<1>3. HasShape(New) /\ New.stage = 1 BY DEF New, HasShape
<1>4. IsRecord(None) BY IdleFacts, Types DEF IsRecord
<1>5. ~Ended
  <2>1. main.ver <= 0 /\ main.ver \in Nat BY <1>1, Types DEF IsRecord
  <2>2. main = None BY <2>1, Types
  <2> QED BY <1>1, <2>2, IdleFacts DEF Inv, TypeInv, Ended
<1>6. main.stage # 3 BY <1>5 DEF Ended
<1> QED BY <1>1, <1>2, <1>3, <1>4, <1>5, <1>6, IdleFacts, Threads, Calls

\* A thread that begins to read.
Reading(job) == [Idle EXCEPT !.pc = "get", !.job = job]

LEMMA ReadingOkay ==
  ASSUME Inv, NEW t, NEW job \in {"run", "touch"}
  PROVE  Okay(t, Reading(job)) /\ ThreadOK(t, Reading(job))
<1>1. PICK w : w = Reading(job) OBVIOUS
<1>2. /\ ThreadShape(w) /\ w.pc = "get" /\ w.job = job /\ w.val = None
      /\ w.test = None /\ w.err = FALSE
  BY <1>1, IdleFacts DEF Reading, ThreadShape
<1>3. ThreadOK(t, Idle) BY IdleOK DEF Inv
<1>4. IsThread(w) BY <1>2, <1>3, IdleFacts DEF ThreadOK, IsThread, Place
<1>5. LocalOK(t, w) BY <1>2 DEF LocalOK
<1>6. (Sound => EndedOK(t, w)) /\ (~clobbered => DeletingOK(w))
  BY <1>2, <1>3, IdleFacts DEF ThreadOK, EndedOK, DeletingOK
<1>7. ThreadOK(t, w) BY <1>4, <1>5, <1>6 DEF ThreadOK
<1>8. Okay(t, w) BY <1>2, <1>7, IdleFacts DEF Okay, Pending
<1> QED BY <1>1, <1>7, <1>8

LEMMA TriggerDoneStep == ASSUME Inv, TriggerDone PROVE Inv'
<1>1. UNCHANGED <<world, main, pages, won, twice, clobbered, removal, clock>>
  BY DEF TriggerDone
<1>2. CASE th["worker"].err
  <2>1. Exit("worker") BY <1>2 DEF TriggerDone, Exit
  <2> QED BY <1>1, <2>1, Threads, ExitStep
<1>3. CASE ~th["worker"].err
  <2>1. th' = [th EXCEPT !["worker"] = Reading("run")]
    BY <1>3 DEF TriggerDone, Reading
  <2>2. Okay("worker", Reading("run")) BY ReadingOkay
  <2> QED BY <1>1, <2>1, <2>2, Threads, QuietStep
<1> QED BY <1>2, <1>3

LEMMA TouchStartStep == ASSUME Inv, TouchStart PROVE Inv'
<1>1. UNCHANGED <<world, main, pages, won, twice, clobbered, removal, clock>>
  BY DEF TouchStart, history
<1>2. th' = [th EXCEPT !["touch"] = Reading("touch")]
  BY DEF TouchStart, Reading
<1>3. Okay("touch", Reading("touch")) BY ReadingOkay
<1> QED BY <1>1, <1>2, <1>3, Threads, QuietStep

LEMMA SimpleExits == ASSUME Inv, FinalDone \/ TouchDone PROVE Inv'
<1>1. UNCHANGED <<world, main, pages, won, twice, clobbered, removal, clock>>
  BY DEF FinalDone, TouchDone, history
<1>2. Exit("worker") \/ Exit("touch") BY DEF FinalDone, TouchDone
<1> QED BY <1>1, <1>2, Threads, ExitStep

LEMMA SetupStep == ASSUME Inv, Setup PROVE Inv'
<1> DEFINE t == "worker"
<1> /\ th = [u \in Thread |-> th[u]] /\ t \in Thread /\ ThreadOK(t, th[t])
    /\ ThreadShape(th[t])
  BY Types, Threads
<1>1. UNCHANGED <<world, main, pages, won, twice, clobbered, removal, clock>>
  BY DEF Setup, history
<1>2. CASE th[t].val.stage = 3
  BY <1>1, <1>2, ExitStep DEF Setup
<1>3. CASE th[t].val.stage # 3
  <2>1. PICK ids : th' = [th EXCEPT ![t].pc = "regets", ![t].val.stage = 2,
                                    ![t].val.ids = ids]
    BY <1>3, Zenon DEF Setup
  <2>2. PICK w : w = th'[t] OBVIOUS
  <2>3. PICK v : v = [th[t].val EXCEPT !.stage = 2, !.ids = ids] OBVIOUS
  <2>4. HasShape(th[t].val) BY DEF ThreadOK, IsThread, IsRecord
  <2>5. HasShape(v) /\ v.ver = th[t].val.ver /\ v.stage = 2
    BY <2>3, <2>4 DEF HasShape
  <2>6. th' = [th EXCEPT ![t] = [th[t] EXCEPT !.pc = "regets", !.val = v]]
    BY <2>1, <2>3, <2>4 DEF HasShape, ThreadShape
  <2>7. /\ th' = [th EXCEPT ![t] = w] /\ ThreadShape(w) /\ w.val = v
        /\ w.test = th[t].test /\ w.pc = "regets" /\ w.job = th[t].job
        /\ w.err = th[t].err
    BY <2>2, <2>6 DEF ThreadShape
  <2>8. th[t].pc = "got" BY DEF Setup
  <2>9. IsThread(w) BY <2>5, <2>7 DEF ThreadOK, IsThread, IsRecord, Place
  <2>10. LocalOK(t, w) BY <2>5, <2>7, <2>8 DEF ThreadOK, LocalOK
  <2>11. (Sound => EndedOK(t, w)) /\ (~clobbered => DeletingOK(w))
    BY <1>3, <2>7, <2>8 DEF ThreadOK, EndedOK, DeletingOK
  <2>12. ThreadOK(t, w) BY <2>9, <2>10, <2>11 DEF ThreadOK
  <2>13. Okay(t, w) BY <2>7, <2>12 DEF Okay, Pending
  <2> QED BY <1>1, <2>7, <2>13, QuietStep
<1> QED BY <1>2, <1>3

LEMMA ReGetStep == ASSUME Inv, ReGet PROVE Inv'
<1> DEFINE t == "worker"
<1> /\ t \in Thread /\ ThreadOK(t, th[t]) /\ IsRecord(main)
  BY Types, Threads
<1>1. UNCHANGED <<world, main, pages, won, twice, clobbered, removal>>
  BY DEF ReGet, history
<1>2. PICK pc \in {"put", "tas"} :
        /\ Call(t, "store", pc, th[t].val, main, th[t].tries + 1)
        /\ pc = "tas" => main # None
  BY DEF ReGet
<1>3. th[t].pc = "regets" /\ th[t].val.stage = 2
  BY DEF ReGet, ThreadOK, LocalOK
<1>4. HasShape(th[t].val) BY DEF ThreadOK, IsThread, IsRecord
<1>5. Sound => ~Ended BY <1>3 DEF ThreadOK, EndedOK
<1>6. Sound /\ main # None => main.stage \in {1, 2}
  BY <1>5, Types DEF Ended, IsRecord
<1>7. main # None => main.ver >= 1 BY Types
<1> QED BY <1>1, <1>2, <1>3, <1>4, <1>5, <1>6, <1>7, Calls

LEMMA StoreDoneStep == ASSUME Inv, StoreDone PROVE Inv'
<1> DEFINE t == "worker"
<1> /\ th = [u \in Thread |-> th[u]] /\ t \in Thread /\ ThreadOK(t, th[t])
    /\ ThreadShape(th[t]) /\ clock \in Nat
  BY Types, Threads
<1>1. UNCHANGED <<world, main, pages, won, twice, clobbered, removal>>
  BY DEF StoreDone, history
<1>2. th[t].pc = "ret" /\ th[t].job = "store" /\ th[t].val.stage = 2
  BY DEF StoreDone, ThreadOK, LocalOK
<1>3. Sound => ~Ended BY <1>2 DEF ThreadOK, EndedOK
<1>4. CASE ~th[t].ok /\ th[t].tries < 3
  <2>1. th' = [th EXCEPT ![t].pc = "regets"] /\ clock' = clock
    BY <1>4 DEF StoreDone
  <2>2. PICK w : w = th'[t] OBVIOUS
  <2>3. /\ th' = [th EXCEPT ![t] = w] /\ Moved(th[t], w) /\ w.pc = "regets"
        /\ w.err = th[t].err
    BY <2>1, <2>2 DEF Moved, ThreadShape
  <2>4. IsThread(w) BY <2>3 DEF ThreadOK, Moved, IsThread, Place
  <2>5. LocalOK(t, w) BY <1>2, <2>3 DEF ThreadOK, Moved, LocalOK
  <2>6. (Sound => EndedOK(t, w)) /\ (~clobbered => DeletingOK(w))
    BY <1>3, <2>3 DEF ThreadOK, Moved, EndedOK, DeletingOK
  <2>7. ThreadOK(t, w) BY <2>4, <2>5, <2>6 DEF ThreadOK
  <2>8. Okay(t, w) BY <2>3, <2>7, MovedOkay DEF Pending
  <2> QED BY <1>1, <2>1, <2>3, <2>8, QuietStep
<1>5. CASE ~(~th[t].ok /\ th[t].tries < 3)
  <2>1. PICK tasks : Call(t, "final", "put",
          [th[t].val EXCEPT !.stage = 3, !.tasks = tasks,
                            !.long = world.long], None, 0)
    BY <1>5, Zenon DEF StoreDone
  <2>2. PICK v : v = [th[t].val EXCEPT !.stage = 3, !.tasks = tasks,
                                       !.long = world.long]
    OBVIOUS
  <2>3. HasShape(th[t].val) BY DEF ThreadOK, IsThread, IsRecord
  <2>4. HasShape(v) /\ v.stage = 3 BY <2>2, <2>3 DEF HasShape
  <2>5. IsRecord(None) BY IdleFacts DEF IsRecord
  <2>6. Call(t, "final", "put", v, None, 0) BY <2>1, <2>2
  <2>7. Sound => ~Ended /\ main.stage # 3 BY <1>3 DEF Ended
  <2> QED BY <1>1, <2>4, <2>5, <2>6, <2>7, IdleFacts, Calls
<1> QED BY <1>4, <1>5

LEMMA TouchTASStep == ASSUME Inv, TouchTAS PROVE Inv'
<1> DEFINE t == "touch"
<1> t \in Thread /\ ThreadOK(t, th[t]) /\ t # "worker"
  BY Types, Threads
<1>1. UNCHANGED <<world, main, pages, won, twice, clobbered, removal>>
  BY DEF TouchTAS, history
<1>2. /\ th[t].val.stage = th[t].test.stage
      /\ th[t].test.stage >= 1 /\ th[t].test.ver >= 1
  BY DEF TouchTAS, ThreadOK, LocalOK
<1>3. CASE th[t].val.stage = 3
  BY <1>1, <1>3, ExitStep DEF TouchTAS
<1>4. CASE th[t].val.stage # 3
  <2>1. Call(t, t, "tas", th[t].val, th[t].test, 0)
    BY <1>4 DEF TouchTAS
  <2>2. HasShape(th[t].val) /\ IsRecord(th[t].test)
        /\ th[t].test.stage \in {1, 2}
    BY <1>2, <1>4 DEF ThreadOK, IsThread, IsRecord
  <2>3. Sound /\ main.stage = 3 => th[t].test.ver # main.ver
    BY <2>2 DEF ThreadOK, EndedOK
  <2>4. th[t].val.stage \in 1 .. 3 /\ th[t].val.stage < 3
    BY <1>2, <2>2
  <2> HIDE DEF t
  <2>5. t \notin {"delete", "store"} BY DEF t
  <2> QED BY <1>1, <1>2, <2>1, <2>2, <2>3, <2>4, <2>5, Calls
<1> QED BY <1>3, <1>4

LEMMA ReapStep == ASSUME Inv, NEW r \in Reapers, Reap(r) PROVE Inv'
<1> /\ r \in Thread /\ ThreadOK(r, th[r]) /\ r # "worker" /\ clock \in Nat
    /\ th = [u \in Thread |-> th[u]] /\ IsRecord(main)
  BY Types, Threads
<1>1. UNCHANGED <<world, main, pages, won, twice, clobbered>> BY DEF Reap
<1>2. main # None /\ main.ver >= 1 /\ main.stage >= 1 BY Types DEF Reap
<1>3. CASE main.stage # 3
  <2>1. Call(r, "pickup", "tas", main, main, 0) /\ removal' = removal
    BY <1>3 DEF Reap
  <2>2. HasShape(main) /\ main.stage \in {1, 2} BY <1>2, <1>3 DEF IsRecord
  <2>3. main.stage \in 1 .. 3 /\ main.stage < 3 BY <2>2
  <2> QED BY <1>1, <1>2, <2>1, <2>2, <2>3, Calls
<1>4. CASE main.stage = 3
  <2>1. PICK w : w = [Idle EXCEPT !.pc = "delete", !.job = "delete"] OBVIOUS
  <2>2. th' = [th EXCEPT ![r] = w] /\ clock' = clock
        /\ removal' = IF removal = "no" THEN "begun" ELSE removal
    BY <1>4, <2>1 DEF Reap
  <2>3. /\ ThreadShape(w) /\ w.pc = "delete" /\ w.job = "delete"
        /\ w.val = None /\ w.test = None /\ w.err = FALSE
    BY <2>1, IdleFacts DEF ThreadShape
  <2>4. removal' # "no" /\ clock > 0 /\ removal' \in {"begun", "done"}
    BY <1>2, <2>2 DEF IsRecord, Inv, TypeInv
  <2>5. TypeInv'
    BY <1>1, <2>2, <2>4
    DEF Inv, TypeInv, IsRecord, HasShape, Paging, Etcd, Stored
  <2>6. RecordOK'
    BY <1>1, <1>2, <1>4, <2>2 DEF Inv, RecordOK, Ended, Stored
  <2>7. WonOK' BY <1>1, <2>2 DEF Inv, WonOK, Etcd
  <2>8. UniqueOK'
    BY <1>1, <2>2, <2>3, IdleFacts, UniqueKept DEF Pending
  <2>9. \A u, x : Keeps(u, x) BY <1>1, <1>4 DEF Keeps, Ended, Stored
  <2>10. ThreadOK(r, w)'
    <3>1. IsThread(w)'
      <4>1. IsRecord(None)' BY <2>2, IdleFacts DEF IsRecord, HasShape
      <4> QED BY <2>3, <4>1 DEF IsThread, Place, ThreadShape, IsRecord, HasShape
    <3>2. LocalOK(r, w)' BY <2>3, <2>4 DEF LocalOK
    <3>3. EndedOK(r, w)' BY <1>1, <1>2, <2>3, IdleFacts DEF EndedOK
    <3>4. DeletingOK(w)' BY <2>3 DEF DeletingOK
    <3> QED BY <3>1, <3>2, <3>3, <3>4 DEF ThreadOK
  <2>11. clock' >= clock /\ (removal # "no" => removal' # "no")
    BY <2>2, <2>4
  <2> QED BY <1>1, <2>2, <2>5, <2>6, <2>7, <2>8, <2>9, <2>10, <2>11, StepInv,
             Zenon
<1> QED BY <1>3, <1>4

\* A reaper whose calls all succeeded has deleted everything.
LEMMA DeleteDoneStep == ASSUME Inv, NEW r \in Reapers, DeleteDone(r) PROVE Inv'
<1> /\ r \in Thread /\ ThreadOK(r, th[r]) /\ r # "worker" /\ clock \in Nat
    /\ th = [u \in Thread |-> th[u]] /\ IsRecord(main)
  BY Types, Threads
<1>1. UNCHANGED <<world, main, pages, clock, won, twice, clobbered>>
  BY DEF DeleteDone
<1>2. th' = [th EXCEPT ![r] = Idle] BY DEF DeleteDone, Exit
<1>3. th[r].pc = "ret" /\ th[r].job = "delete" /\ removal # "no"
      /\ removal' = IF th[r].err THEN removal ELSE "done"
  BY DEF DeleteDone, ThreadOK, LocalOK
<1>4. removal' \in {"begun", "done"} /\ clock > 0
  BY <1>3 DEF Inv, TypeInv
<1>5. TypeInv'
  BY <1>1, <1>2, <1>4
  DEF Inv, TypeInv, IsRecord, HasShape, Paging, Etcd, Stored
<1>6. RecordOK'
  <2>1. ~clobbered /\ ~th[r].err => main = None /\ Stored = {}
    BY <1>3 DEF ThreadOK, DeletingOK
  <2>2. (main = None)' <=> main = None BY <1>1 DEF None
  <2> QED BY <1>1, <1>3, <2>1, <2>2
          DEF Inv, RecordOK, Ended, Stored, Sound, Etcd
<1>7. WonOK' BY <1>1 DEF Inv, WonOK, Etcd
<1>8. UniqueOK' BY <1>1, <1>2, IdleFacts, UniqueKept
<1>9. \A u, x : Keeps(u, x) BY <1>1, <1>3 DEF Keeps, Ended, Stored
<1>10. removal # "no" => removal' # "no" BY <1>4
<1>11. clock' >= clock BY <1>1
<1>12. ThreadOK(r, Idle)'
  <2>1. PICK w : w = Idle OBVIOUS
  <2>2. ThreadOK(r, w) BY <2>1, IdleOK DEF Inv
  <2>3. ThreadOK(r, w)' BY <1>1, <1>9, <1>10, <1>11, <2>2, OthersKept
  <2> QED BY <2>1, <2>3 DEF Idle, None
<1> QED BY <1>1, <1>2, <1>5, <1>6, <1>7, <1>8, <1>9, <1>10, <1>11, <1>12,
           StepInv, Zenon

LEMMA PickupStep == ASSUME Inv, NEW r \in Reapers, Pickup(r) PROVE Inv'
<1> DEFINE t == "worker"
<1> /\ r \in Thread /\ t \in Thread /\ r # t
    /\ th = [u \in Thread |-> th[u]] /\ clock \in Nat
  BY Types, Threads
<1>1. UNCHANGED <<world, main, pages, won, twice, clobbered, removal, clock>>
  BY DEF Pickup, history
<1>2. CASE th[r].ok /\ ~th[r].err /\ th[t].pc = "idle"
  <2>1. th' = [th EXCEPT ![r] = Idle, ![t] = Reading("run")]
    BY <1>2 DEF Pickup, Reading
  <2>2. \A u \in Thread : th'[u] = IF u = r THEN Idle
                                   ELSE IF u = t THEN Reading("run") ELSE th[u]
    BY <2>1
  <2>3. ~Pending(Reading("run")) /\ Reading("run").test.ver = 0
    BY IdleFacts DEF Reading, Idle, Pending
  <2>4. TypeInv'
    BY <1>1, <2>1 DEF Inv, TypeInv, IsRecord, HasShape, Paging, Etcd, Stored
  <2>5. RecordOK' /\ WonOK'
    BY <1>1 DEF Inv, RecordOK, WonOK, Ended, Stored, Etcd, Sound
  <2>6. UniqueOK'
    <3>1. \A u \in Thread : Pending(th'[u]) => th'[u] = th[u]
      BY <2>2, <2>3, IdleFacts
    <3>2. \A u \in Thread : th'[u] = th[u] \/ th'[u].test.ver = 0
      BY <2>2, <2>3, IdleFacts
    <3>3. \A u \in Thread : Pending(th[u]) => th[u].val.ver # 0
      BY DEF Inv, ThreadOK, LocalOK, Pending, IsThread, IsRecord
    <3> QED BY <1>1, <3>1, <3>2, <3>3 DEF Inv, UniqueOK, Pending
  <2>7. ASSUME NEW u \in Thread PROVE ThreadOK(u, th[u])'
    <3>1. PICK x : x = th'[u] OBVIOUS
    <3>2. ThreadOK(u, Idle) /\ ThreadOK(u, Reading("run"))
      BY IdleOK, ReadingOkay DEF Inv
    <3>3. ThreadOK(u, th[u]) BY DEF Inv
    <3>4. ThreadOK(u, x) BY <2>2, <3>1, <3>2, <3>3
    <3>5. Keeps(u, x) BY <1>1 DEF Keeps, Ended, Stored
    <3>6. ThreadOK(u, x)' BY <1>1, <3>4, <3>5, OthersKept
    <3> QED BY <3>1, <3>6
  <2> QED BY <2>4, <2>5, <2>6, <2>7 DEF Inv
<1>3. CASE ~(th[r].ok /\ ~th[r].err /\ th[t].pc = "idle")
  <2>1. th' = [th EXCEPT ![r] = Idle, ![t] = th[t]] BY <1>3 DEF Pickup
  <2>2. th' = [th EXCEPT ![r] = Idle] BY <2>1
  <2> QED BY <1>1, <2>2, ExitStep DEF Exit
<1> QED BY <1>2, <1>3

-----------------------------------------------------------------------------
(***************************************************************************)
(* The theorems                                                            *)
(***************************************************************************)
LEMMA InitInv == Init => Inv
<1> SUFFICES ASSUME Init PROVE Inv OBVIOUS
<1>1. /\ world \in Worlds /\ main = None /\ clock = 0 /\ removal = "no"
      /\ won = {} /\ twice = FALSE /\ clobbered = FALSE
      /\ th = [t \in Thread |-> Idle]
      /\ pages = [k \in 1 .. MaxPage |-> NoPage]
  BY DEF Init
<1>2. Stored = {} BY <1>1 DEF Stored, NoPage
<1>3. IsRecord(main) BY <1>1, IdleFacts DEF IsRecord
<1>4. TypeInv
  <2>1. th = [t \in Thread |-> th[t]] BY <1>1
  <2>2. pages = [k \in DOMAIN pages |-> pages[k]] BY <1>1
  <2> QED BY <1>1, <1>2, <1>3, <2>1, <2>2 DEF TypeInv
<1>5. RecordOK BY <1>1, IdleFacts DEF RecordOK
<1>6. UniqueOK BY <1>1, IdleFacts DEF UniqueOK
<1>7. WonOK BY <1>1 DEF WonOK
<1>8. \A t \in Thread : ThreadOK(t, th[t]) BY <1>1, <1>4, IdleOK
<1> QED BY <1>4, <1>5, <1>6, <1>7, <1>8 DEF Inv

LEMMA StutterInv == ASSUME Inv, UNCHANGED vars PROVE Inv'
<1> "worker" \in Thread /\ th = [u \in Thread |-> th[u]] BY Types, Threads
<1>1. UNCHANGED <<world, main, pages, won, twice, clobbered, removal, clock>>
      /\ th' = th
  BY DEF vars, history
<1>2. PICK w : w = th["worker"] OBVIOUS
<1>3. th' = [th EXCEPT !["worker"] = w] BY <1>1, <1>2
<1>4. Okay("worker", w) BY <1>2 DEF Okay
<1> QED BY <1>1, <1>3, <1>4, QuietStep

LEMMA NextInv == ASSUME Inv, [Next]_vars PROVE Inv'
<1>1. CASE UNCHANGED vars BY <1>1, StutterInv
<1>2. ASSUME NEW t \in Thread, StorageStep(t) PROVE Inv'
  BY <1>2, PutStep, MainFails, PutPageStep, PageFails, TASStep, SelectStep,
     UpsertStep, GetStep, GetPagesStep, ExitSteps, DeleteMainStep,
     DeleteFails, ListStep, DeletePageStep
  DEF StorageStep
<1>3. ASSUME NEW t \in Thread, Crash(t) PROVE Inv' BY <1>3, ExitSteps
<1>4. CASE Trigger BY <1>4, TriggerStep
<1>5. CASE TriggerDone BY <1>5, TriggerDoneStep
<1>6. CASE Setup BY <1>6, SetupStep
<1>7. CASE ReGet BY <1>7, ReGetStep
<1>8. CASE StoreDone BY <1>8, StoreDoneStep
<1>9. CASE FinalDone \/ TouchDone BY <1>9, SimpleExits
<1>10. CASE TouchStart BY <1>10, TouchStartStep
<1>11. CASE TouchTAS BY <1>11, TouchTASStep
<1>12. ASSUME NEW r \in Reapers, Reap(r) \/ Pickup(r) \/ DeleteDone(r)
       PROVE  Inv'
  BY <1>12, ReapStep, PickupStep, DeleteDoneStep
<1> QED BY <1>1, <1>2, <1>3, <1>4, <1>5, <1>6, <1>7, <1>8, <1>9, <1>10, <1>11,
           <1>12 DEF Next

LEMMA AlwaysInv == Spec => []Inv
BY InitInv, NextInv, PTL DEF Spec

\* A transition that a reaper has deleted without an error is gone with all
\* its pages and stays gone (DeleteTransition against StoreTransition and
\* TASTransition of everybody else), unless part of a record was stored over
\* another version.
THEOREM Gone == Spec => []NoPagesLeft
<1>1. Inv => NoPagesLeft BY DEF Inv, RecordOK, NoPagesLeft
<1> QED BY <1>1, AlwaysInv, PTL

\* In etcd, where kvTAS compares and stores in one step, of all the
\* test-and-sets that found the same version one succeeds at most, through
\* any crashes and failed calls: what fails for PostgreSQL (the run
\* storage_postgres) holds here.
THEOREM EtcdFirstWins == Spec => [](Etcd => FirstWins)
<1>1. Inv => (Etcd => FirstWins) BY DEF Inv, WonOK, FirstWins
<1> QED BY <1>1, AlwaysInv, PTL

-----------------------------------------------------------------------------
(***************************************************************************)
(* Cutting a record into pages                                             *)
(***************************************************************************)

\* A version is too large for one entry, even without its long messages.
Apart(v) == /\ world.sizeChecks /\ Size(v) >= world.maxSize
            /\ Size(Truncated(v)) >= world.maxSize

\* The page size that is used for it, and when it is one page all the same.
PageBy(v) ==
  IF Len(v.tasks) < world.pageSize /\ Len(v.loc) < world.pageSize
    THEN HalfPage ELSE world.pageSize
Fits(v) == /\ Len(v.loc) <= PageBy(v) /\ Len(v.ids) <= PageBy(v)
           /\ Len(v.tasks) <= PageBy(v) \/ Len(v.tasks) <= world.pageSize

LEMMA TruncatedFacts ==
  ASSUME NEW v \in Record
  PROVE  LET t == Truncated(v)
         IN  /\ t \in Record /\ t.loc = v.loc /\ t.ids = v.ids
             /\ t.tasks = v.tasks /\ t.stage = v.stage
             /\ t.long => v.long
BY DEF Truncated, Record

LEMMA SplitIs ==
  ASSUME world \in World, NEW v \in Record
  PROVE  /\ ~Apart(v) => /\ Split(v).more = <<>>
                         /\ Split(v).first \in {v, Truncated(v)}
         /\ Apart(v) => Split(v) = Paged(Truncated(v), PageBy(v))
<1>1. PICK t : t = Truncated(v) OBVIOUS
<1>2. t.tasks = v.tasks /\ t.loc = v.loc BY <1>1, TruncatedFacts
<1>3. PICK small \in BOOLEAN :
        small = (Len(t.tasks) < world.pageSize /\ Len(t.loc) < world.pageSize)
  OBVIOUS
<1>4. PICK p : p = IF small THEN HalfPage ELSE world.pageSize OBVIOUS
<1>5. p = PageBy(v) BY <1>2, <1>3, <1>4 DEF PageBy
<1>6. Size(v) \in Nat /\ Size(t) \in Nat /\ world.maxSize \in Nat
  <2>1. t \in Record BY <1>1, TruncatedFacts
  <2>2. ASSUME NEW u \in Record PROVE Size(u) \in Nat
    <3>1. Len(u.loc) \in Nat /\ Len(u.ids) \in Nat /\ Len(u.tasks) \in Nat
      BY DEF Record, List
    <3>2. PICK a, b, c \in Nat :
            a = Len(u.loc) /\ b = Len(u.ids) /\ c = Len(u.tasks)
      BY <3>1
    <3>3. PICK d \in {2, 4} : d = IF u.long THEN 4 ELSE 2 OBVIOUS
    <3>4. Size(u) = a + b + c * d BY <3>2, <3>3 DEF Size
    <3> QED BY <3>4
  <2> QED BY <2>1, <2>2, Sizes
<1>7. Split(v) = CASE ~world.sizeChecks \/ Size(v) < world.maxSize ->
                        [first |-> v, more |-> <<>>]
                   [] world.sizeChecks /\ Size(v) >= world.maxSize
                        /\ Size(t) < world.maxSize ->
                        [first |-> t, more |-> <<>>]
                   [] OTHER -> Paged(t, p)
  BY <1>1, <1>3, <1>4 DEF Split
<1> HIDE DEF Paged, Size
<1>8. CASE ~world.sizeChecks \/ Size(v) < world.maxSize
  <2>1. Split(v) = [first |-> v, more |-> <<>>] BY <1>6, <1>7, <1>8
  <2> QED BY <1>6, <1>8, <2>1 DEF Apart
<1>9. CASE world.sizeChecks /\ Size(v) >= world.maxSize
             /\ Size(t) < world.maxSize
  <2>1. Split(v) = [first |-> t, more |-> <<>>] BY <1>6, <1>7, <1>9
  <2> QED BY <1>1, <1>6, <1>9, <2>1 DEF Apart
<1>10. CASE world.sizeChecks /\ Size(v) >= world.maxSize
              /\ Size(t) >= world.maxSize
  <2>1. Split(v) = Paged(t, p) BY <1>6, <1>7, <1>10
  <2> QED BY <1>1, <1>5, <1>10, <2>1 DEF Apart
<1> QED BY <1>6, <1>8, <1>9, <1>10

LEMMA PageByFacts ==
  ASSUME world \in World, NEW v
  PROVE  PageBy(v) \in Nat \ {0}
BY Sizes DEF PageBy

\* How a version is cut: its first entry and its pages.
LEMMA SplitTyped ==
  ASSUME world \in World, NEW v \in Record
  PROVE  LET q == Split(v)
         IN  /\ q.first \in Record /\ q.first.stage = v.stage
             /\ q.first.long => v.long
             /\ Len(q.more) \in Nat /\ q.more \in [1 .. Len(q.more) -> Page]
             /\ q.more = <<>> <=> ~Apart(v) \/ Fits(v)
<1>1. PICK q : q = Split(v) OBVIOUS
<1>2. PICK t \in Record : /\ t = Truncated(v) /\ t.loc = v.loc
                          /\ t.ids = v.ids /\ t.tasks = v.tasks
                          /\ t.stage = v.stage /\ (t.long => v.long)
  BY TruncatedFacts
<1>3. CASE ~Apart(v)
  <2>1. q.more = <<>> /\ q.first \in {v, t} BY <1>1, <1>2, <1>3, SplitIs
  <2> QED BY <1>1, <1>2, <1>3, <2>1
<1>4. CASE Apart(v)
  <2>1. PICK p \in Nat \ {0} : p = PageBy(v) BY PageByFacts
  <2>2. q = Paged(t, p) BY <1>1, <1>2, <1>4, <2>1, SplitIs
  <2>3. q.first.stage = t.stage /\ q.first.long = t.long
        /\ q.first \in Record
    BY ONLY world \in World, t \in Record, p \in Nat \ {0}, <2>2,
            PagedFacts
  <2>4. Len(q.more) \in Nat /\ q.more \in [1 .. Len(q.more) -> Page]
    BY <2>2, PagedFacts, Zenon
  <2>5. q.more = <<>> <=> /\ Len(t.loc) <= p /\ Len(t.ids) <= p
                          /\ \/ Len(t.tasks) <= p
                             \/ Len(t.tasks) <= world.pageSize
    BY ONLY world \in World, t \in Record, p \in Nat \ {0}, <2>2,
            PagedFacts
  <2> QED BY <1>1, <1>2, <1>4, <2>1, <2>3, <2>4, <2>5 DEF Fits
<1> QED BY <1>3, <1>4

\* A list that fits on a page is all on the first one.
LEMMA OnePiece ==
  ASSUME NEW s, NEW size, NEW step, Len(s) <= size
  PROVE  /\ Chunks(s, size, step)[1] = s
         /\ \A k \in Nat \ {0} : Chunk(Chunks(s, size, step), k + 1) = <<>>
<1>1. Chunks(s, size, step) = <<s>> BY DEF Chunks
<1>2. \A k \in Nat \ {0} : k + 1 \notin DOMAIN <<s>> OBVIOUS
<1> QED BY <1>1, <1>2 DEF Chunk

LEMMA PlainFirst ==
  ASSUME world \in World, NEW v \in Record, Split(v).more = <<>>
  PROVE  /\ Split(v).first.loc = v.loc /\ Split(v).first.ids = v.ids
         /\ ~Apart(v) \/ Len(v.tasks) <= PageBy(v) =>
              Split(v).first.tasks = v.tasks
<1>1. PICK q : q = Split(v) OBVIOUS
<1>2. PICK t \in Record : /\ t = Truncated(v) /\ t.loc = v.loc
                          /\ t.ids = v.ids /\ t.tasks = v.tasks
  BY TruncatedFacts
<1>3. CASE ~Apart(v) BY <1>2, <1>3, SplitIs
<1>4. CASE Apart(v)
  <2>1. PICK p \in Nat \ {0} : p = PageBy(v) BY PageByFacts
  <2>2. q = Paged(t, p) BY <1>1, <1>2, <1>4, <2>1, SplitIs
  <2>3. /\ q.first.loc = LocCut(t, p)[1] /\ q.first.ids = IdCut(t, p)[1]
        /\ q.first.tasks = TaskCut(t, p)[1]
    BY ONLY world \in World, t \in Record, p \in Nat \ {0}, <2>2, PagedFacts
  <2>4. Len(v.loc) <= p /\ Len(v.ids) <= p
    BY <1>4, <2>1, SplitTyped DEF Fits
  <2>5. /\ LocCut(t, p)[1] = t.loc /\ IdCut(t, p)[1] = t.ids
        /\ Len(v.tasks) <= p => TaskCut(t, p)[1] = t.tasks
    BY <1>2, <2>4, OnePiece DEF LocCut, IdCut, TaskCut
  <2> QED BY <1>1, <1>2, <1>4, <2>1, <2>3, <2>5
<1> QED BY <1>3, <1>4

LEMMA ApartFacts ==
  ASSUME world \in World, NEW v \in Record, Apart(v), NEW p, p = PageBy(v),
         NEW q, q = Split(v)
  PROVE  /\ q.first.loc = Chunks(v.loc, p, p)[1]
         /\ q.first.tasks = Chunks(v.tasks, p, world.pageSize)[1]
         /\ Len(q.first.ids) <= p /\ Len(q.first.tasks) <= p
         /\ \A k \in 1 .. Len(q.more) :
              /\ q.more[k].loc = Chunk(Chunks(v.loc, p, p), k + 1)
              /\ q.more[k].tasks
                   = Chunk(Chunks(v.tasks, p, world.pageSize), k + 1)
         /\ \A k \in Nat : k > Len(q.more) =>
              /\ Chunk(Chunks(v.loc, p, p), k + 1) = <<>>
              /\ Chunk(Chunks(v.tasks, p, world.pageSize), k + 1) = <<>>
<1>1. PICK t \in Record : /\ t = Truncated(v) /\ t.loc = v.loc
                          /\ t.ids = v.ids /\ t.tasks = v.tasks
  BY TruncatedFacts
<1>2. p \in Nat \ {0} BY PageByFacts
<1>3. q = Paged(t, p) BY <1>1, SplitIs
<1>4. LocCut(t, p) = Chunks(v.loc, p, p)
      /\ TaskCut(t, p) = Chunks(v.tasks, p, world.pageSize)
  BY <1>1 DEF LocCut, TaskCut
<1>5. /\ q.first.loc = LocCut(t, p)[1]
      /\ q.first.tasks = TaskCut(t, p)[1]
      /\ Len(q.first.ids) <= p /\ Len(q.first.tasks) <= p
  BY ONLY world \in World, t \in Record, <1>2, <1>3, PagedFacts
<1>6. /\ \A k \in 1 .. Len(q.more) :
           /\ q.more[k].loc = Chunk(LocCut(t, p), k + 1)
           /\ q.more[k].tasks = Chunk(TaskCut(t, p), k + 1)
      /\ \A k \in Nat : k > Len(q.more) =>
           /\ Chunk(LocCut(t, p), k + 1) = <<>>
           /\ Chunk(TaskCut(t, p), k + 1) = <<>>
  BY ONLY world \in World, t \in Record, <1>2, <1>3, PagedFacts
<1> QED BY <1>4, <1>5, <1>6

\* How long a piece of Location is on a page, and whether the version that
\* TriggerTransition stores has pages.
PageLen == IF world.n < world.pageSize THEN HalfPage ELSE world.pageSize
Wide == /\ Etcd /\ world.sizeChecks
        /\ world.n >= world.maxSize /\ world.n > PageLen

Cut == Chunks(Comps, PageLen, PageLen)
FirstLoc == IF Wide THEN Cut[1] ELSE Comps
PageLoc(k) == IF Wide THEN Chunk(Cut, k + 1) ELSE <<>>

\* What a version holds besides Location.  Where the new record has no pages,
\* that depends on the stage; the half pages must not cut the tasks.
Standard(v) ==
  /\ v.ids = IF v.stage = 1 THEN <<>> ELSE Comps
  /\ v.tasks = IF v.stage = 3 THEN Comps ELSE <<>>
  /\ v.long <=> v.stage = 3 /\ world.long
Common(v) ==
  IF Wide THEN world.n < world.pageSize =>
                 /\ Len(v.tasks) < world.pageSize
                 /\ v.stage < 3 => v.tasks = <<>>
          ELSE Standard(v)

\* A transition with all its components, and its first page.
Regular(v) == v.loc = Comps /\ Common(v)
First(v) == /\ v.loc = FirstLoc /\ Common(v)
            /\ Wide => Len(v.ids) <= PageLen /\ Len(v.tasks) <= PageLen

LEMMA SizeIs ==
  ASSUME NEW v \in Record
  PROVE  /\ Len(v.loc) \in Nat /\ Len(v.ids) \in Nat /\ Len(v.tasks) \in Nat
         /\ Size(v) \in Nat /\ Size(v) >= Len(v.loc)
         /\ v.long => Size(v) = Len(v.loc) + Len(v.ids) + Len(v.tasks) * 4
         /\ ~v.long => Size(v) = Len(v.loc) + Len(v.ids) + Len(v.tasks) * 2
<1>1. Len(v.loc) \in Nat /\ Len(v.ids) \in Nat /\ Len(v.tasks) \in Nat
  BY DEF Record, List
<1>2. PICK a, b, c \in Nat :
        a = Len(v.loc) /\ b = Len(v.ids) /\ c = Len(v.tasks)
  BY <1>1
<1>3. PICK d \in {2, 4} : d = IF v.long THEN 4 ELSE 2 OBVIOUS
<1>4. Size(v) = a + b + c * d BY <1>2, <1>3 DEF Size
<1>5. Size(v) \in Nat /\ Size(v) >= a
  <2>1. PICK e \in Nat : e = c * d OBVIOUS
  <2> QED BY <1>4, <2>1
<1>6. ASSUME v.long PROVE Size(v) = a + b + c * 4
  <2>1. d = 4 BY <1>3, <1>6
  <2> QED BY <1>4, <2>1
<1>7. ASSUME ~v.long PROVE Size(v) = a + b + c * 2
  <2>1. d = 2 BY <1>3, <1>7
  <2> QED BY <1>4, <2>1
<1> QED BY <1>1, <1>2, <1>5, <1>6, <1>7, Zenon

\* Whether a version has pages depends on its lists only.
LEMMA SameLists ==
  ASSUME world \in World, NEW u \in Record, NEW v \in Record,
         u.loc = v.loc, u.ids = v.ids, u.tasks = v.tasks, u.long <=> v.long
  PROVE  PagedAt(u) <=> PagedAt(v)
<1>1. Size(u) = Size(v) BY DEF Size
<1>2. Size(Truncated(u)) = Size(Truncated(v))
  BY <1>1 DEF Size, Truncated, Record
<1>3. Apart(u) <=> Apart(v) BY <1>1, <1>2 DEF Apart
<1>4. PageBy(u) = PageBy(v) BY DEF PageBy
<1>5. Fits(u) <=> Fits(v) BY <1>4 DEF Fits
<1> QED BY <1>3, <1>5, SplitTyped DEF PagedAt

LEMMA PageLenFacts ==
  ASSUME world \in World
  PROVE  /\ PageLen \in Nat \ {0}
         /\ Wide => /\ FirstLoc = Cut[1] /\ Len(FirstLoc) = PageLen
                    /\ FirstLoc \in List
<1>1. PICK p \in Nat \ {0} : p = PageLen BY Sizes DEF PageLen
<1>2. PICK n \in Nat \ {0} : n = world.n BY Sizes
<1>3. ASSUME Wide
      PROVE  FirstLoc = Cut[1] /\ Len(FirstLoc) = p /\ FirstLoc \in List
  <2>1. n > p BY <1>1, <1>2, <1>3 DEF Wide
  <2>2. PICK c : c = Cut OBVIOUS
  <2>3. c = Chunks(Comps, p, p) BY <1>1, <2>2 DEF Cut
  <2>4. /\ Len(c) \in Nat \ {0} /\ c \in [1 .. Len(c) -> List]
    BY <2>3, Sizes, ChunksFacts DEF List
  <2>5. 0 * p = 0 /\ 0 + p = p /\ 0 + 1 = 1 OBVIOUS
  <2>6. Chunk(c, 0 + 1) = Span(Least(0 * p, n), Least(0 * p + p, n))
    BY <1>2, <2>1, <2>3, CutChunk
  <2>7. Least(0, n) = 0 /\ Least(p, n) = p BY <2>1 DEF Least
  <2>8. c[1] = Span(0, p) BY <2>4, <2>5, <2>6, <2>7 DEF Chunk
  <2>9. Len(Span(0, p)) = p BY DEF Span
  <2> QED BY <1>3, <2>2, <2>4, <2>8, <2>9 DEF FirstLoc
<1> QED BY <1>1, <1>3

LEMMA VersionTypes ==
  ASSUME world \in World
  PROVE  /\ New \in Record /\ Final \in Record
         /\ [New EXCEPT !.ids = Comps] \in Record
         /\ New.loc = Comps /\ New.ids = <<>> /\ New.tasks = <<>>
         /\ ~New.long /\ New.stage = 1
         /\ Final.loc = Comps /\ Final.ids = Comps /\ Final.tasks = Comps
         /\ Final.long = world.long
<1>1. Comps \in List /\ <<>> \in List /\ world.long \in BOOLEAN BY Sizes
<1>2. New \in Record BY <1>1 DEF New, Record
<1>3. [New EXCEPT !.ids = Comps] \in Record BY <1>1, <1>2 DEF Record
<1>4. Final \in Record BY <1>1, <1>2 DEF Final, Record
<1>5. /\ New.loc = Comps /\ New.ids = <<>> /\ New.tasks = <<>>
      /\ ~New.long /\ New.stage = 1
  BY DEF New
<1>6. /\ Final.loc = Comps /\ Final.ids = Comps /\ Final.tasks = Comps
      /\ Final.long = world.long
  BY DEF Final, New
<1> QED BY <1>2, <1>3, <1>4, <1>5, <1>6

\* A version with all locations is too large for one entry where the new
\* record is.
LEMMA WideApart ==
  ASSUME world \in World, NEW v \in Record, v.loc = Comps, world.sizeChecks,
         world.n >= world.maxSize
  PROVE  Apart(v)
<1>1. PICK t \in Record : t = Truncated(v) /\ t.loc = v.loc
  BY TruncatedFacts
<1>2. Size(v) \in Nat /\ Size(v) >= Len(Comps) BY SizeIs
<1>3. Size(t) \in Nat /\ Size(t) >= Len(Comps) BY <1>1, SizeIs
<1>4. Len(Comps) = world.n /\ world.maxSize \in Nat /\ world.n \in Nat
  BY Sizes
<1> QED BY <1>1, <1>2, <1>3, <1>4 DEF Apart

LEMMA CutFacts ==
  ASSUME world \in World, Etcd
  PROVE  /\ PagedAt(New) <=> Wide
         /\ Wide => PagedAt(Final)
         /\ PageBy(New) = PageLen /\ PageBy(Final) = PageLen
<1> DEFINE n == world.n
<1>1. /\ n \in Nat \ {0} /\ world.pageSize \in Nat \ {0}
      /\ world.maxSize \in Nat /\ Len(Comps) = n /\ Len(<<>>) = 0
  BY Sizes
<1>2. PageBy(New) = PageLen BY <1>1, VersionTypes DEF PageBy, PageLen
<1>3. PageBy(Final) = PageLen BY <1>1, VersionTypes DEF PageBy, PageLen
<1>4. PageLen \in Nat \ {0} BY PageLenFacts
<1>5. Size(New) = n
  <2>1. New \in Record /\ ~New.long BY VersionTypes
  <2>2. Size(New) = Len(New.loc) + Len(New.ids) + Len(New.tasks) * 2
    BY <2>1, SizeIs
  <2>3. Size(New) = n + 0 + 0 * 2 BY <1>1, <2>2, VersionTypes
  <2> QED BY <1>1, <2>3
<1>6. Fits(New) <=> n <= PageLen
  BY <1>1, <1>2, <1>4, VersionTypes DEF Fits
<1>7. Apart(New) <=> world.sizeChecks /\ n >= world.maxSize
  <2>1. Apart(New) => world.sizeChecks /\ n >= world.maxSize
    BY <1>5 DEF Apart
  <2>2. world.sizeChecks /\ n >= world.maxSize => Apart(New)
    BY VersionTypes, WideApart
  <2> QED BY <2>1, <2>2
<1>8. PagedAt(New) <=> Wide
  <2>1. PagedAt(New) <=> Apart(New) /\ ~Fits(New)
    BY VersionTypes, SplitTyped DEF PagedAt
  <2> QED BY <1>1, <1>4, <1>6, <1>7, <2>1 DEF Wide
<1>9. ASSUME Wide PROVE PagedAt(Final)
  <2>1. Apart(Final) BY <1>9, VersionTypes, WideApart DEF Wide
  <2>2. ~Fits(Final)
    BY <1>1, <1>3, <1>4, <1>9, VersionTypes DEF Fits, Wide
  <2> QED BY <2>1, <2>2, VersionTypes, SplitTyped DEF PagedAt
<1> QED BY <1>2, <1>3, <1>8, <1>9

\* Where the new record has no pages, the later versions have none either
\* before the cut changes.
LEMMA NarrowPlain ==
  ASSUME world \in World, Etcd, ~Wide, NEW v \in Record, Regular(v),
         \/ v.stage = 1
         \/ v.stage = 2 /\ SameCutBefore
         \/ v.stage \in {2, 3} /\ SameCut
  PROVE  ~PagedAt(v)
<1> DEFINE n == world.n
           W == [New EXCEPT !.ids = Comps]
<1>1. /\ n \in Nat \ {0} /\ world.pageSize \in Nat \ {0}
      /\ world.maxSize \in Nat /\ Len(Comps) = n /\ Len(<<>>) = 0
  BY Sizes
<1>2. v.loc = Comps /\ Standard(v) BY DEF Regular, Common
<1>3. ~PagedAt(New) BY CutFacts
<1>4. CASE v.stage = 1
  <2>1. v.ids = <<>> /\ v.tasks = <<>> /\ ~v.long
    BY <1>2, <1>4 DEF Standard
  <2> QED BY <1>2, <1>3, <2>1, VersionTypes, SameLists
<1>5. CASE v.stage = 2 /\ SameCutBefore
  <2>1. v.ids = Comps /\ v.tasks = <<>> /\ ~v.long
    BY <1>2, <1>5 DEF Standard
  <2>2. W.loc = Comps /\ W.ids = Comps /\ W.tasks = <<>> /\ ~W.long
    BY DEF New
  <2>3. ~PagedAt(W) BY <1>3, <1>5 DEF SameCutBefore
  <2>4. W \in Record BY VersionTypes
  <2> HIDE DEF W
  <2> QED BY <1>2, <2>1, <2>2, <2>3, <2>4, SameLists
<1>6. CASE v.stage = 3 /\ SameCut
  <2>1. v.ids = Comps /\ v.tasks = Comps /\ (v.long <=> world.long)
    BY <1>2, <1>6 DEF Standard
  <2>2. ~PagedAt(Final) BY <1>3, <1>6 DEF SameCut
  <2> QED BY <1>2, <2>1, <2>2, VersionTypes, SameLists
<1>7. CASE v.stage = 2 /\ SameCut
  <2>1. v.ids = Comps /\ v.tasks = <<>> /\ ~v.long
    BY <1>2, <1>7 DEF Standard
  <2>2. ~Apart(Final) \/ Fits(Final)
    <3>1. ~PagedAt(Final) BY <1>3, <1>7 DEF SameCut
    <3> QED BY <3>1, VersionTypes, SplitTyped DEF PagedAt
  <2>3. CASE Fits(Final)
    <3>1. n <= PageLen BY <1>1, <2>3, CutFacts, VersionTypes DEF Fits
    <3>2. PageBy(v) = PageLen BY <1>1, <1>2, <2>1 DEF PageBy, PageLen
    <3>3. PageLen \in Nat BY PageLenFacts
    <3>4. Fits(v) BY <1>1, <1>2, <2>1, <3>1, <3>2, <3>3 DEF Fits
    <3> QED BY <3>4, SplitTyped DEF PagedAt
  <2>4. CASE ~Apart(Final)
    <3>1. PICK t \in Record : t = Truncated(Final) /\ t.loc = Comps
                              /\ t.ids = Comps /\ t.tasks = Comps
      BY VersionTypes, TruncatedFacts
    <3>2. ASSUME NEW u \in Record, u.loc = Comps, u.ids = Comps,
                 u.tasks = Comps
          PROVE  Size(u) \in Nat /\ Size(u) >= n + n
      <4>1. /\ u.long => Size(u) = n + n + n * 4
            /\ ~u.long => Size(u) = n + n + n * 2
        BY <1>1, <3>2, SizeIs
      <4>2. Size(u) = n + n + n * 4 \/ Size(u) = n + n + n * 2 BY <4>1
      <4> QED BY <1>1, <4>2
    <3>3. /\ Size(t) \in Nat /\ Size(t) >= n + n
          /\ Size(Final) \in Nat /\ Size(Final) >= n + n
      BY <3>1, <3>2, VersionTypes
    <3>4. Size(v) = n + n
      <4>1. Size(v) = n + n + 0 * 2 BY <1>1, <1>2, <2>1, SizeIs
      <4> QED BY <1>1, <4>1
    <3>5. ~Apart(v) BY <1>1, <2>4, <3>1, <3>3, <3>4 DEF Apart
    <3> QED BY <3>5, SplitTyped DEF PagedAt
  <2> QED BY <2>2, <2>3, <2>4
<1> QED BY <1>4, <1>5, <1>6, <1>7

\* A first page is written again as it is, by somebody who has read no more.
LEMMA FirstPlain ==
  ASSUME world \in World, Etcd, NEW v \in Record, First(v),
         v.stage \in {1, 2}, v.stage = 1 \/ SameCut \/ SameCutBefore
  PROVE  Split(v).more = <<>> /\ First(Split(v).first)
<1> DEFINE n == world.n
<1>1. /\ n \in Nat \ {0} /\ world.pageSize \in Nat \ {0}
      /\ Len(Comps) = n /\ Len(<<>>) = 0
  BY Sizes
<1>2. PageLen \in Nat \ {0} BY PageLenFacts
<1>3. Len(v.loc) \in Nat /\ Len(v.ids) \in Nat /\ Len(v.tasks) \in Nat
  BY SizeIs
<1>4. PICK f : f = Split(v).first OBVIOUS
<1>5. CASE Wide
  <2>1. /\ Len(v.loc) = PageLen /\ Len(v.ids) <= PageLen
        /\ Len(v.tasks) <= PageLen
    BY <1>5, PageLenFacts DEF First
  <2>2. PageBy(v) = PageLen
    <3>1. CASE n < world.pageSize
      <4>1. v.tasks = <<>> BY <1>5, <3>1 DEF First, Common
      <4>2. PageLen < n BY <1>5 DEF Wide
      <4> QED BY <1>1, <1>2, <2>1, <3>1, <4>1, <4>2 DEF PageBy, PageLen
    <3>2. CASE ~(n < world.pageSize)
      BY <1>1, <2>1, <3>2 DEF PageBy, PageLen
    <3> QED BY <3>1, <3>2
  <2>3. Split(v).more = <<>>
    <3>1. Fits(v) BY <1>2, <2>1, <2>2 DEF Fits
    <3> QED BY <3>1, SplitTyped
  <2>4. /\ f.loc = v.loc /\ f.ids = v.ids /\ f.tasks = v.tasks
        /\ f.stage = v.stage
    BY <1>4, <2>1, <2>2, <2>3, PlainFirst, SplitTyped
  <2>5. First(f) BY <1>5, <2>4 DEF First, Common
  <2> QED BY <1>4, <2>3, <2>5
<1>6. CASE ~Wide
  <2>1. v.loc = Comps /\ Standard(v) /\ Regular(v)
    BY <1>6 DEF First, FirstLoc, Regular, Common
  <2>2. Split(v).more = <<>> BY <1>6, <2>1, NarrowPlain DEF PagedAt
  <2>3. v.tasks = <<>> /\ ~v.long BY <2>1 DEF Standard
  <2>4. PageBy(v) \in Nat BY PageByFacts
  <2>5. /\ f.loc = v.loc /\ f.ids = v.ids /\ f.tasks = v.tasks
        /\ f.stage = v.stage /\ ~f.long
    BY <1>1, <1>4, <2>2, <2>3, <2>4, PlainFirst, SplitTyped
  <2>6. Standard(f) BY <2>1, <2>3, <2>5 DEF Standard
  <2>7. First(f) BY <1>6, <2>1, <2>5, <2>6 DEF First, FirstLoc, Common
  <2> QED BY <1>4, <2>2, <2>7
<1> QED BY <1>5, <1>6

\* A record with all its components is cut at the same places at any time.
LEMMA RegularSplit ==
  ASSUME world \in World, Etcd, NEW v \in Record, Regular(v),
         \/ v.stage = 1
         \/ v.stage = 2 /\ SameCutBefore
         \/ v.stage \in {2, 3} /\ SameCut,
         NEW q, q = Split(v)
  PROVE  /\ v.stage < 3 => First(q.first)
         /\ ~Wide => q.more = <<>>
         /\ \A k \in 1 .. Len(q.more) :
              /\ q.more[k].loc = PageLoc(k)
              /\ world.n < world.pageSize => q.more[k].tasks = <<>>
         /\ \A k \in Nat : k > Len(q.more) => PageLoc(k) = <<>>
<1> DEFINE n == world.n
<1>1. /\ n \in Nat \ {0} /\ world.pageSize \in Nat \ {0}
      /\ Len(Comps) = n /\ Len(<<>>) = 0 /\ world.maxSize \in Nat
  BY Sizes
<1>2. PageLen \in Nat \ {0} BY PageLenFacts
<1>3. Len(v.loc) \in Nat /\ Len(v.ids) \in Nat /\ Len(v.tasks) \in Nat
  BY SizeIs
<1>4. q.first \in Record /\ q.first.stage = v.stage
  BY SplitTyped
<1>5. CASE Wide
  <2>1. v.loc = Comps /\ (n < world.pageSize => Len(v.tasks) < world.pageSize)
    BY <1>5 DEF Regular, Common
  <2>2. PICK p \in Nat \ {0} : p = PageLen BY <1>2
  <2>3. p = PageBy(v)
    BY <1>1, <1>3, <2>1, <2>2 DEF PageBy, PageLen
  <2>4. Apart(v) BY <1>5, <2>1, WideApart DEF Wide
  <2>5. /\ q.first.loc = Chunks(v.loc, p, p)[1]
        /\ q.first.tasks = Chunks(v.tasks, p, world.pageSize)[1]
        /\ Len(q.first.ids) <= p /\ Len(q.first.tasks) <= p
    BY <2>3, <2>4, ApartFacts
  <2>6. /\ \A k \in 1 .. Len(q.more) :
             /\ q.more[k].loc = Chunk(Chunks(v.loc, p, p), k + 1)
             /\ q.more[k].tasks
                  = Chunk(Chunks(v.tasks, p, world.pageSize), k + 1)
        /\ \A k \in Nat : k > Len(q.more) =>
             Chunk(Chunks(v.loc, p, p), k + 1) = <<>>
    BY <2>3, <2>4, ApartFacts
  <2>7. Cut = Chunks(v.loc, p, p) BY <2>1, <2>2 DEF Cut
  <2>8. \A k : PageLoc(k) = Chunk(Chunks(v.loc, p, p), k + 1)
    BY <1>5, <2>7 DEF PageLoc
  <2>9. ASSUME n < world.pageSize, NEW k \in 1 .. Len(q.more)
        PROVE  q.more[k].tasks = <<>>
    <3>1. Len(v.tasks) <= world.pageSize BY <1>1, <1>3, <2>1, <2>9
    <3>2. PICK c : c = Chunks(v.tasks, p, world.pageSize) OBVIOUS
    <3>3. v.tasks \in Seq(1 .. n) BY DEF Record, List
    <3>4. /\ Len(c) \in Nat \ {0} /\ c \in [1 .. Len(c) -> Seq(1 .. n)]
          /\ Len(v.tasks) <= p \/ Len(v.tasks) <= world.pageSize
               <=> Len(c) = 1
      BY ONLY <3>2, <3>3, p \in Nat \ {0}, <1>1, ChunksFacts
    <3>5. Len(q.more) \in Nat BY SplitTyped
    <3>6. k + 1 \in Nat \ {0} /\ k + 1 > Len(c) BY <3>1, <3>4, <3>5
    <3>7. Chunk(c, k + 1) = <<>> BY <3>4, <3>6, ChunkType
    <3> QED BY <2>6, <3>2, <3>7
  <2>10. ASSUME v.stage < 3 PROVE First(q.first)
    <3>1. q.first.loc = FirstLoc BY <1>5, <2>5, <2>7, PageLenFacts
    <3>2. ASSUME n < world.pageSize
          PROVE  /\ Len(q.first.tasks) < world.pageSize
                 /\ q.first.tasks = <<>>
      <4>1. v.tasks = <<>> BY <1>5, <2>10, <3>2 DEF Regular, Common
      <4>2. q.first.tasks = <<>> BY <1>1, <2>5, <4>1, OnePiece
      <4> QED BY <1>1, <4>2
    <3> QED BY <1>5, <2>2, <2>5, <3>1, <3>2 DEF First, Common
  <2> QED BY <1>5, <2>6, <2>8, <2>9, <2>10
<1>6. CASE ~Wide
  <2>1. q.more = <<>> BY <1>6, NarrowPlain DEF PagedAt
  <2>2. \A k : PageLoc(k) = <<>> BY <1>6 DEF PageLoc
  <2>3. First(v) BY <1>6 DEF First, FirstLoc, Regular
  <2>4. v.stage < 3 => First(q.first) BY <2>3, FirstPlain
  <2> QED BY <1>6, <2>1, <2>2, <2>4
<1> QED BY <1>5, <1>6

\* The k-th page of ps is as it was laid out for Location.
LaidOut(page, k) ==
  /\ page.loc = PageLoc(k)
  /\ ~Wide => page = NoPage
  /\ world.n < world.pageSize => page.tasks = <<>>

LEMMA JoinedIs ==
  ASSUME world \in World, NEW v \in Record, NEW ps \in [1 .. MaxPage -> Page]
  PROVE  LET f == Joined(v, ps)
             All(list) == FlattenSeq([k \in 1 .. MaxPage |-> ps[k][list]])
         IN  /\ f \in Record /\ f.stage = v.stage /\ f.long = v.long
             /\ f.loc = v.loc \o All("loc")
             /\ f.ids = v.ids \o All("ids")
             /\ f.tasks = v.tasks \o All("tasks")
<1> DEFINE All(list) == FlattenSeq([k \in 1 .. MaxPage |-> ps[k][list]])
<1>1. MaxPage \in Nat \ {0} BY Sizes
<1>2. ASSUME NEW list \in {"loc", "ids", "tasks"} PROVE All(list) \in List
  <2>1. [k \in 1 .. MaxPage |-> ps[k][list]] \in [1 .. MaxPage -> List]
    BY <1>2 DEF Page
  <2> QED BY <1>1, <2>1, FlattenType DEF List
<1>3. PICK a, b, c \in List : a = All("loc") /\ b = All("ids")
                              /\ c = All("tasks")
  BY <1>2
<1>4. Joined(v, ps) = [v EXCEPT !.loc = @ \o a, !.ids = @ \o b,
                                !.tasks = @ \o c]
  BY <1>3 DEF Joined
<1>5. \A s, u \in List : s \o u \in List BY DEF List
<1>6. v.loc \in List /\ v.ids \in List /\ v.tasks \in List BY DEF Record
<1>7. v.loc \o a \in List /\ v.ids \o b \in List /\ v.tasks \o c \in List
  BY <1>5, <1>6
<1>8. /\ Joined(v, ps) \in Record /\ Joined(v, ps).stage = v.stage
      /\ Joined(v, ps).long = v.long
      /\ Joined(v, ps).loc = v.loc \o a /\ Joined(v, ps).ids = v.ids \o b
      /\ Joined(v, ps).tasks = v.tasks \o c
  BY <1>4, <1>7 DEF Record
<1> QED BY <1>3, <1>8

LEMMA NothingMore ==
  ASSUME world \in World, NEW v \in Record, NEW ps \in [1 .. MaxPage -> Page],
         NEW list \in {"loc", "ids", "tasks"},
         \A k \in 1 .. MaxPage : ps[k][list] = <<>>
  PROVE  v[list] \o FlattenSeq([k \in 1 .. MaxPage |-> ps[k][list]]) = v[list]
<1>1. MaxPage \in Nat \ {0} BY Sizes
<1>2. PICK ss : ss = [k \in 1 .. MaxPage |-> ps[k][list]] OBVIOUS
<1>3. ss = [k \in 1 .. MaxPage |-> ss[k]]
      /\ \A k \in 1 .. MaxPage : ss[k] = <<>>
  BY <1>2
<1>4. FlattenSeq(ss) = <<>> BY <1>1, <1>3, FlattenNothing
<1>5. v[list] \in Seq(1 .. world.n) BY DEF Record, List
<1>6. v[list] \o <<>> = v[list] BY <1>5
<1> QED BY <1>2, <1>4, <1>6, Zenon

\* Reading a first page and then the pages gives all components.
LEMMA JoinedRegular ==
  ASSUME world \in World, NEW v \in Record, First(v),
         NEW ps \in [1 .. MaxPage -> Page],
         \A k \in 1 .. MaxPage : LaidOut(ps[k], k)
  PROVE  Regular(Joined(v, ps))
<1>1. PICK f \in Record :
        /\ f = Joined(v, ps) /\ f.stage = v.stage /\ f.long = v.long
        /\ f.loc = v.loc \o FlattenSeq([k \in 1 .. MaxPage |-> ps[k]["loc"]])
        /\ f.ids = v.ids \o FlattenSeq([k \in 1 .. MaxPage |-> ps[k]["ids"]])
        /\ f.tasks
             = v.tasks \o FlattenSeq([k \in 1 .. MaxPage |-> ps[k]["tasks"]])
  BY JoinedIs
<1>2. /\ NoPage.loc = <<>> /\ NoPage.ids = <<>> /\ NoPage.tasks = <<>>
  BY DEF NoPage
<1>3. CASE Wide
  <2>1. f.loc = Comps
    <3>1. PICK ss : ss = [k \in 1 .. MaxPage |-> ps[k]["loc"]] OBVIOUS
    <3>2. PICK c : c = Cut OBVIOUS
    <3>3. ss = [k \in 1 .. MaxPage |-> Chunk(c, k + 1)]
      BY <1>3, <3>1, <3>2 DEF LaidOut, PageLoc
    <3>4. PICK p \in Nat \ {0} : p = PageLen BY PageLenFacts
    <3>5. c = Chunks(Comps, p, p) BY <3>2, <3>4 DEF Cut
    <3>6. c[1] \o FlattenSeq(ss) = Comps BY <3>3, <3>5, CutJoins
    <3>7. v.loc = c[1] BY <1>3, <3>2, PageLenFacts DEF First
    <3> QED BY <1>1, <3>1, <3>6, <3>7
  <2>2. ASSUME world.n < world.pageSize PROVE f.tasks = v.tasks
    <3>1. \A k \in 1 .. MaxPage : ps[k]["tasks"] = <<>>
      BY <2>2 DEF LaidOut
    <3>2. v["tasks"] \o FlattenSeq([k \in 1 .. MaxPage |-> ps[k]["tasks"]])
            = v["tasks"]
      BY <3>1, NothingMore
    <3> QED BY <1>1, <3>2
  <2>3. Common(f) BY <1>1, <1>3, <2>2 DEF First, Common
  <2> QED BY <1>1, <2>1, <2>3 DEF Regular
<1>4. CASE ~Wide
  <2>1. \A k \in 1 .. MaxPage : ps[k] = NoPage BY <1>4 DEF LaidOut
  <2>2. ASSUME NEW list \in {"loc", "ids", "tasks"}
        PROVE  v[list] \o FlattenSeq([k \in 1 .. MaxPage |-> ps[k][list]])
                 = v[list]
    <3>1. \A k \in 1 .. MaxPage : ps[k][list] = <<>> BY <1>2, <2>1
    <3> QED BY <3>1, NothingMore
  <2>3. f.loc = v.loc /\ f.ids = v.ids /\ f.tasks = v.tasks
    BY <1>1, <2>2
  <2>4. Standard(f) BY <1>1, <1>4, <2>3 DEF First, Common, Standard
  <2> QED BY <1>1, <1>4, <2>3, <2>4 DEF First, FirstLoc, Regular, Common
<1> QED BY <1>3, <1>4

FirstTasks(v) == IF Etcd THEN Split(v).first.tasks ELSE v.tasks
TaskPage(v, k) ==
  IF Etcd /\ k <= Len(Split(v).more) THEN Split(v).more[k].tasks ELSE <<>>
Complete(v) ==
  FirstTasks(v) \o FlattenSeq([k \in 1 .. MaxPage |-> TaskPage(v, k)]) = Comps

\* The final version with the results of all components, cut and joined again,
\* has them all.
LEMMA FinalComplete ==
  ASSUME world \in World, Etcd, ~HalfPages, NEW v \in Record,
         v.tasks = Comps, v.stage = 3, SameCut => Regular(v)
  PROVE  Complete(v)
<1> DEFINE n == world.n
<1>1. /\ n \in Nat \ {0} /\ world.pageSize \in Nat \ {0}
      /\ Len(Comps) = n /\ MaxPage \in Nat \ {0} /\ Comps \in List
  BY Sizes
<1>2. PICK q : q = Split(v) OBVIOUS
<1>3. Len(q.more) \in Nat BY <1>2, SplitTyped
<1>4. PICK ss : ss = [k \in 1 .. MaxPage |-> TaskPage(v, k)] OBVIOUS
<1>5. ss = [k \in 1 .. MaxPage |-> ss[k]]
      /\ \A k \in 1 .. MaxPage :
           ss[k] = IF k <= Len(q.more) THEN q.more[k].tasks ELSE <<>>
  BY <1>2, <1>4 DEF TaskPage
<1>6. ASSUME q.more = <<>>, ~Apart(v) \/ n <= PageBy(v) PROVE Complete(v)
  <2>1. q.first.tasks = Comps BY <1>1, <1>2, <1>6, PlainFirst
  <2>2. Len(q.more) = 0 BY <1>6
  <2>3. \A k \in 1 .. MaxPage : ss[k] = <<>> BY <1>1, <1>5, <2>2
  <2>4. FlattenSeq(ss) = <<>> BY <1>1, <1>5, <2>3, FlattenNothing
  <2>5. Comps \o <<>> = Comps BY <1>1 DEF List
  <2> QED BY <1>2, <1>4, <2>1, <2>4, <2>5 DEF Complete, FirstTasks
<1>7. CASE n >= world.pageSize
  <2>1. PageBy(v) = world.pageSize BY <1>1, <1>7 DEF PageBy
  <2>2. CASE ~Apart(v) BY <1>2, <1>6, <2>2, SplitTyped
  <2>3. CASE Apart(v)
    <3>1. PICK p \in Nat \ {0} : p = world.pageSize BY <1>1
    <3>2. PICK c : c = Chunks(Comps, p, p) OBVIOUS
    <3>3. /\ q.first.tasks = c[1]
          /\ \A k \in 1 .. Len(q.more) : q.more[k].tasks = Chunk(c, k + 1)
          /\ \A k \in Nat : k > Len(q.more) => Chunk(c, k + 1) = <<>>
      BY <1>2, <2>1, <2>3, <3>1, <3>2, ApartFacts
    <3>4. \A k \in 1 .. MaxPage : ss[k] = Chunk(c, k + 1)
      BY <1>1, <1>3, <1>5, <3>3
    <3>5. ss = [k \in 1 .. MaxPage |-> Chunk(c, k + 1)] BY <1>5, <3>4
    <3>6. c[1] \o FlattenSeq(ss) = Comps BY <3>2, <3>5, CutJoins
    <3> QED BY <1>2, <1>4, <3>3, <3>6 DEF Complete, FirstTasks
  <2> QED BY <2>2, <2>3
<1>8. CASE n < world.pageSize
  <2>1. ~PagedAt(Final) BY <1>8 DEF HalfPages
  <2>2. ~Wide /\ SameCut BY <2>1, CutFacts DEF SameCut
  <2>3. v.loc = Comps /\ Regular(v) BY <2>2 DEF Regular
  <2>4. q.more = <<>> BY <1>2, <2>2, <2>3, NarrowPlain DEF PagedAt
  <2>5. ~Apart(v) \/ n <= PageBy(v)
    BY <1>1, <1>2, <2>3, <2>4, SplitTyped DEF Fits
  <2> QED BY <1>6, <2>4, <2>5
<1> QED BY <1>1, <1>7, <1>8

-----------------------------------------------------------------------------
(***************************************************************************)
(* What depends on the configuration only                                  *)
(***************************************************************************)
LEMMA SameWorld ==
  ASSUME world' = world
  PROVE  /\ Etcd' <=> Etcd
         /\ Wide' <=> Wide
         /\ SameCut' <=> SameCut
         /\ SameCutBefore' <=> SameCutBefore
         /\ HalfPages' <=> HalfPages
         /\ MaxPage' = MaxPage /\ Comps' = Comps /\ Record' = Record
         /\ Page' = Page /\ FirstLoc' = FirstLoc
<1>1. (Etcd' <=> Etcd) /\ MaxPage' = MaxPage /\ Comps' = Comps
  BY DEF Etcd, MaxPage, Comps
<1>2. List' = List BY DEF List
<1>3. Record' = Record /\ Page' = Page BY <1>2 DEF Record, Page
<1>4. PageLen' = PageLen BY DEF PageLen, HalfPage
<1>5. Wide' <=> Wide BY <1>1, <1>4 DEF Wide
<1>6. Cut' = Cut BY <1>1, <1>4 DEF Cut, Chunks, Least
<1>7. FirstLoc' = FirstLoc BY <1>1, <1>5, <1>6 DEF FirstLoc
<1>8. ASSUME NEW v PROVE Split(v)' = Split(v)
  BY DEF Split, Truncated, Size, Paged, Chunks, Chunk, HalfPage, Least
<1>9. New' = New /\ Final' = Final BY <1>1 DEF New, Final
<1>10. /\ PagedAt(New)' <=> PagedAt(New)
       /\ PagedAt(Final)' <=> PagedAt(Final)
       /\ PagedAt([New EXCEPT !.ids = Comps])'
            <=> PagedAt([New EXCEPT !.ids = Comps])
  <2>1. PICK a, b, c : a = New /\ b = Final
                       /\ c = [New EXCEPT !.ids = Comps]
    OBVIOUS
  <2>2. a = New' /\ b = Final' /\ c = [New' EXCEPT !.ids = Comps']
    BY <1>1, <1>9, <2>1
  <2>3. Split(a)' = Split(a) /\ Split(b)' = Split(b) /\ Split(c)' = Split(c)
    BY <1>8
  <2> QED BY <2>1, <2>2, <2>3 DEF PagedAt
<1>11. (SameCut' <=> SameCut) /\ (SameCutBefore' <=> SameCutBefore)
       /\ (HalfPages' <=> HalfPages)
  BY <1>1, <1>10 DEF SameCut, SameCutBefore, HalfPages
<1> QED BY <1>1, <1>3, <1>5, <1>7, <1>11

LEMMA SameVersion ==
  ASSUME world' = world, NEW v, NEW k
  PROVE  /\ Split(v)' = Split(v)
         /\ First(v)' <=> First(v)
         /\ Regular(v)' <=> Regular(v)
         /\ PageLoc(k)' = PageLoc(k)
         /\ FirstTasks(v)' = FirstTasks(v) /\ TaskPage(v, k)' = TaskPage(v, k)
<1>1. Split(v)' = Split(v)
  BY DEF Split, Truncated, Size, Paged, Chunks, Chunk, HalfPage, Least
<1>2. PageLen' = PageLen BY DEF PageLen, HalfPage
<1>3. Common(v)' <=> Common(v) BY SameWorld DEF Common, Standard
<1>4. First(v)' <=> First(v) BY <1>2, <1>3, SameWorld DEF First
<1>5. Regular(v)' <=> Regular(v) BY <1>3, SameWorld DEF Regular
<1>6. Cut' = Cut BY <1>2, SameWorld DEF Cut, Chunks, Least
<1>7. PageLoc(k)' = PageLoc(k) BY <1>6, SameWorld DEF PageLoc, Chunk
<1>8. FirstTasks(v)' = FirstTasks(v) /\ TaskPage(v, k)' = TaskPage(v, k)
  BY <1>1, SameWorld DEF FirstTasks, TaskPage
<1> QED BY <1>1, <1>4, <1>5, <1>7, <1>8

LEMMA SameComplete ==
  ASSUME world' = world, NEW v PROVE Complete(v)' <=> Complete(v)
<1>1. FirstTasks(v)' = FirstTasks(v) /\ \A k : TaskPage(v, k)' = TaskPage(v, k)
  BY SameVersion
<1>2. [k \in 1 .. MaxPage |-> TaskPage(v, k)]'
        = [k \in 1 .. MaxPage |-> TaskPage(v, k)]
  BY <1>1, SameWorld
<1> QED BY <1>1, <1>2, SameWorld DEF Complete

-----------------------------------------------------------------------------
(***************************************************************************)
(* The inductive invariant about what is stored                            *)
(***************************************************************************)

worker == th["worker"]

\* The request was accepted, or may still be.
Live == acked \/ (worker.job = "create" /\ ~worker.err)

\* The components are safe: nobody stored what he had read of a record that
\* was not complete, or pages over a record that has none.
Kept == Live /\ ~early /\ (SameCut \/ ~clobbered)
Cond == /\ Etcd /\ Kept /\ ~Ended
        /\ SameCut \/ SameCutBefore \/ rows = {}

\* Page k is still to be stored for the first time.
Upcoming(k) == /\ worker.job = "create"
               /\ \/ worker.pc = "put"
                  \/ worker.pc = "putpages" /\ k >= worker.i

PageOK(k) ==
  IF Upcoming(k) THEN pages[k] = NoPage ELSE LaidOut(pages[k], k)

\* The first page and the others are those of one record.
Laid == /\ main # None \/ (worker.job = "create" /\ worker.pc = "put")
        /\ main # None => First(main)
        /\ \A k \in 1 .. MaxPage : PageOK(k)

\* Nobody who writes all of a record has less than all components in his hands.
ValOK(t, w) ==
  /\ w.pc = "getpages" => First(w.val)
  /\ t \in {"worker", "touch"}
     /\ \/ w.pc \in {"put", "tas", "putpages", "got", "regets"}
        \/ t = "worker" /\ w.pc = "ret" /\ w.job = "store"
     => Regular(w.val)
  /\ t \in Reapers => w.pc # "putpages" /\ (w.pc = "tas" => First(w.val))

\* The tasks are not set up before there are rows.
NewOK == rows = {} => /\ main.stage <= 1
                      /\ \A t \in Thread : th[t].val.stage <= 1

CondOK == Cond => Laid /\ NewOK /\ \A t \in Thread : ValOK(t, th[t])

RowsOK == Kept => /\ rows \in {{}, 1 .. world.n}
                  /\ worker.pc = "regets" \/ worker.job \in {"store", "final"}
                       => rows = 1 .. world.n

FinalOK == /\ Etcd /\ worker.job = "final" /\ worker.pc \in {"putpages", "ret"}
           /\ ~worker.err
           => Ended

Local(t, w) ==
  /\ w.val \in Record /\ w.i \in Nat /\ (Pending(w) => w.i = 1)
  /\ w.pc = "idle" => w.job = "none"
  /\ w.job = "create" => /\ t = "worker" /\ w.val.stage = 1
                         /\ w.pc \in {"put", "putpages", "ret"}
  /\ w.job = "final" => /\ t = "worker" /\ w.val.stage = 3
                        /\ w.pc \in {"put", "putpages", "ret"}
  /\ w.job = "store" =>
       w.pc \in {"put", "tas", "upsert", "putpages", "ret", "regets"}
  /\ t = "worker" /\ w.pc \in {"put", "tas", "upsert", "putpages", "ret"} =>
       w.job \in {"create", "store", "final"}
  /\ w.pc = "putpages" => /\ w.i \in 1 .. Len(Split(w.val).more)
                          /\ t # "worker" => w.val.stage < 3

Pristine == \A k \in 1 .. MaxPage : pages[k] = NoPage
StartOK ==
  /\ clock = 0 => /\ Pristine /\ rows = {} /\ ~acked /\ ~settled
                  /\ \A t \in Thread : th[t] = Idle
  /\ worker.job = "create" => ~acked /\ ~settled /\ rows = {}
  /\ worker.job = "create" /\ worker.pc = "put" =>
       /\ main = None /\ Pristine
       /\ \A t \in Thread \ {"worker"} : th[t].pc = "idle"
  /\ ~early /\ ~acked => th["touch"].pc = "idle"

VerOK ==
  \A t \in Thread : th[t].pc = "putpages" =>
    /\ th[t].val.ver = main.ver => th[t].val.stage = main.stage
    /\ \A u \in Thread : Pending(th[u]) => th[u].val.ver # th[t].val.ver

\* PostgreSQL has one row, with all of Location.
RowLoc(v) == ~Etcd /\ v.stage >= 1 => v.loc = Comps
RowLocOK == RowLoc(main) /\ \A t \in Thread : RowLoc(th[t].val)

SharedOK == /\ main \in Record /\ pages \in [1 .. MaxPage -> Page]
            /\ rows \subseteq 1 .. world.n /\ settled \in BOOLEAN

Clean == Live /\ ~early /\ ~clobbered
Ending == Clean /\ ~HalfPages /\ removal = "no"

NoTasksOK == Clean /\ ~Ended =>
  /\ main.tasks = <<>>
  /\ \A k \in 1 .. MaxPage : pages[k].tasks = <<>>
  /\ \A t \in Thread : th[t].val.stage < 3 => th[t].val.tasks = <<>>

AllTasksOK == Clean /\ worker.job = "final" => worker.val.tasks = Comps

StoringOK ==
  /\ Ending /\ worker.job = "final" /\ worker.pc \in {"putpages", "ret"}
  /\ ~worker.err
  => /\ main.stage = 3 /\ main.tasks = FirstTasks(worker.val)
     /\ Complete(worker.val)
     /\ \A k \in 1 .. MaxPage :
          pages[k].tasks = IF worker.pc = "putpages" /\ k >= worker.i
                             THEN <<>> ELSE TaskPage(worker.val, k)

SettledOK ==
  Ending /\ settled => /\ main.stage = 3 /\ Whole
                       /\ worker.pc \in {"idle", "get", "getpages", "got"}

DataInv == /\ SharedOK /\ StartOK /\ RowsOK /\ FinalOK /\ VerOK /\ RowLocOK
           /\ CondOK /\ NoTasksOK /\ AllTasksOK /\ StoringOK /\ SettledOK
           /\ \A t \in Thread : Local(t, th[t])

-----------------------------------------------------------------------------
(***************************************************************************)
(* Steps that leave the stored record alone                                *)
(***************************************************************************)

\* What thread u may hold after such a step.
Resting(w) == w.pc \in {"idle", "get", "getpages", "got"}
Begun == main # None \/ \E r \in Thread \ {"worker"} : th[r].pc # "idle"
Still(u, w) ==
  /\ th[u].pc # "idle" \/ Begun
  /\ Local(u, w)
  /\ w.job = "create" => w.pc # "put"
  /\ u = "worker" /\ (w.pc = "regets" \/ w.job \in {"store", "final"}) =>
       th[u].pc = "regets" \/ th[u].job \in {"store", "final"}
  /\ w.job = "final" => w.err \/ w.pc = "put"
  /\ Clean /\ w.job = "final" => w.val.tasks = Comps
  /\ u = "worker" /\ Resting(th[u]) => Resting(w)
  /\ w.pc = "putpages" =>
       w.val = th[u].val /\ (th[u].pc = "putpages" \/ Pending(th[u]))
  /\ Pending(w) => \/ w.val.ver = clock + 1
                   \/ Pending(th[u]) /\ w.val.ver = th[u].val.ver
  /\ RowLoc(w.val)
  /\ Cond => ValOK(u, w) /\ (rows = {} => w.val.stage <= 1)
  /\ Clean /\ ~Ended /\ w.val.stage < 3 => w.val.tasks = <<>>

StillNext ==
  /\ UNCHANGED <<world, main, pages, rows, settled, clobbered>>
  /\ clock' \in {clock, clock + 1}
  /\ clock' = 0 => th' = th /\ acked' = acked
  /\ early => early'
  /\ removal # "no" => removal' # "no"
  /\ Live' => Live
  /\ Live' => \/ worker' = worker
              \/ /\ worker.job = "create" => worker.pc = "ret"
                 /\ worker'.job # "create"
  /\ worker'.job = "create" => worker.job = "create" /\ ~acked'
  /\ ~early' /\ ~acked' => th'["touch"].pc = "idle"
  /\ \A u \in Thread : th'[u] = th[u] \/ Still(u, th'[u])

LEMMA StillStart ==
  ASSUME Inv, DataInv, StillNext PROVE StartOK'
<1>1. clock \in Nat /\ "worker" \in Thread BY DEF Inv, TypeInv, Thread
<1>2. /\ UNCHANGED <<world, main, pages, rows, settled>> /\ StartOK
      /\ clock' \in {clock, clock + 1}
      /\ clock' = 0 => th' = th /\ acked' = acked
  BY DEF StillNext, DataInv
<1>3. Pristine' <=> Pristine BY <1>2, SameWorld DEF Pristine, NoPage
<1>4. ASSUME clock' = 0
      PROVE  /\ Pristine' /\ rows' = {} /\ ~acked' /\ ~settled'
             /\ \A t \in Thread : th'[t] = Idle
  BY <1>1, <1>2, <1>3, <1>4 DEF StartOK
<1>5. worker'.job = "create" => ~acked' /\ ~settled' /\ rows' = {}
  BY <1>2 DEF StillNext, StartOK
<1>6. ASSUME worker'.job = "create", worker'.pc = "put"
      PROVE  /\ main' = None /\ Pristine'
             /\ \A t \in Thread \ {"worker"} : th'[t].pc = "idle"
  <2>1. worker' = worker
    BY <1>1, <1>6 DEF StillNext, Still, worker
  <2>2. /\ main = None /\ Pristine
        /\ \A t \in Thread \ {"worker"} : th[t].pc = "idle"
    BY <1>2, <1>6, <2>1 DEF StartOK
  <2>3. \A t \in Thread \ {"worker"} : th'[t] = th[t]
    BY <2>2 DEF StillNext, Still, Begun
  <2> QED BY <1>2, <1>3, <2>2, <2>3
<1>7. ~early' /\ ~acked' => th'["touch"].pc = "idle" BY DEF StillNext
<1>8. Idle' = Idle /\ None' = None BY DEF Idle, None
<1> QED BY <1>4, <1>5, <1>6, <1>7, <1>8 DEF StartOK

LEMMA SameThread ==
  ASSUME world' = world, NEW t, NEW w
  PROVE  /\ Local(t, w)' <=> Local(t, w)
         /\ ValOK(t, w)' <=> ValOK(t, w)
         /\ RowLoc(w.val)' <=> RowLoc(w.val)
<1>1. PICK v : v = w.val OBVIOUS
<1>2. /\ Split(v)' = Split(v) /\ (First(v)' <=> First(v))
      /\ Regular(v)' <=> Regular(v)
  BY SameVersion
<1>3. Local(t, w)' <=> Local(t, w) BY <1>1, <1>2, SameWorld DEF Local
<1>4. ValOK(t, w)' <=> ValOK(t, w) BY <1>1, <1>2 DEF ValOK
<1>5. RowLoc(w.val)' <=> RowLoc(w.val) BY SameWorld DEF RowLoc
<1> QED BY <1>3, <1>4, <1>5

LEMMA SamePage ==
  ASSUME world' = world, NEW page, NEW k
  PROVE  LaidOut(page, k)' <=> LaidOut(page, k)
<1>1. PageLoc(k)' = PageLoc(k) BY SameVersion
<1> QED BY <1>1, SameWorld DEF LaidOut, NoPage

\* The conditions only get narrower.
LEMMA StillConds ==
  ASSUME StillNext
  PROVE  /\ Kept' => Kept
         /\ Clean' => Clean
         /\ Ending' => Ending
         /\ Ended <=> (main.stage = 3 \/ removal # "no")
         /\ Ended => Ended'
         /\ Cond' => Cond
<1>1. /\ world' = world /\ main' = main /\ rows' = rows
      /\ clobbered' = clobbered /\ (early => early') /\ (Live' => Live)
      /\ (removal # "no" => removal' # "no")
  BY DEF StillNext
<1>2. Kept' => Kept BY <1>1, SameWorld DEF Kept
<1>3. Clean' => Clean BY <1>1 DEF Clean
<1>4. Ending' => Ending BY <1>1, <1>3, SameWorld DEF Ending
<1>5. Ended => Ended' BY <1>1 DEF Ended
<1>6. Cond' => Cond BY <1>1, <1>2, <1>5, SameWorld DEF Cond
<1> QED BY <1>2, <1>3, <1>4, <1>5, <1>6 DEF Ended

LEMMA StillRows ==
  ASSUME Inv, DataInv, StillNext
  PROVE  /\ SharedOK' /\ RowsOK' /\ FinalOK' /\ RowLocOK'
         /\ \A t \in Thread : Local(t, th[t])'
<1>1. /\ world' = world /\ main' = main /\ rows' = rows /\ pages' = pages
      /\ settled' = settled
      /\ \A u \in Thread : th'[u] = th[u] \/ Still(u, th'[u])
  BY DEF StillNext
<1>2. "worker" \in Thread BY DEF Thread
<1>3. SharedOK' BY <1>1, SameWorld DEF DataInv, SharedOK
<1>4. RowsOK'
  <2> SUFFICES ASSUME Kept'
               PROVE  /\ rows' \in {{}, 1 .. world'.n}
                      /\ worker'.pc = "regets"
                           \/ worker'.job \in {"store", "final"}
                         => rows' = 1 .. world'.n
    BY DEF RowsOK
  <2>1. Kept BY StillConds
  <2>2. /\ rows \in {{}, 1 .. world.n}
        /\ worker.pc = "regets" \/ worker.job \in {"store", "final"}
             => rows = 1 .. world.n
    BY <2>1 DEF DataInv, RowsOK
  <2>3. worker' = worker \/ Still("worker", worker')
    BY <1>1, <1>2 DEF worker
  <2> QED BY <1>1, <2>2, <2>3 DEF Still, worker
<1>5. FinalOK'
  <2> SUFFICES ASSUME Etcd', worker'.job = "final", ~worker'.err,
                      worker'.pc \in {"putpages", "ret"}
               PROVE  Ended'
    BY DEF FinalOK
  <2>1. worker' = worker BY <1>1, <1>2 DEF Still, worker
  <2>2. Ended BY <1>1, <2>1, SameWorld DEF DataInv, FinalOK
  <2> QED BY <2>2, StillConds
<1>6. ASSUME NEW t \in Thread PROVE Local(t, th[t])' /\ RowLoc(th[t].val)'
  <2>1. PICK w : w = th'[t] OBVIOUS
  <2>2. w = th[t] \/ Still(t, w) BY <1>1, <2>1
  <2>3. Local(t, w) /\ RowLoc(w.val)
    BY <2>2 DEF Still, DataInv, RowLocOK
  <2>4. Local(t, w)' /\ RowLoc(w.val)' BY <1>1, <2>3, SameThread
  <2> QED BY <2>1, <2>4
<1>7. RowLoc(main)' BY <1>1, SameWorld DEF DataInv, RowLocOK, RowLoc
<1> QED BY <1>3, <1>4, <1>5, <1>6, <1>7 DEF RowLocOK

LEMMA StillVer ==
  ASSUME Inv, DataInv, StillNext PROVE VerOK'
<1>1. /\ main' = main /\ clock \in Nat
      /\ \A u \in Thread : th'[u] = th[u] \/ Still(u, th'[u])
  BY DEF StillNext, Inv, TypeInv
<1>2. \A u \in Thread : th[u].val.ver \in Nat /\ th[u].val.ver <= clock
  BY DEF Inv, ThreadOK, IsThread, IsRecord
<1>3. ASSUME NEW t \in Thread, th'[t].pc = "putpages"
      PROVE  /\ th'[t].val = th[t].val
             /\ th[t].pc = "putpages" \/ Pending(th[t])
  BY <1>1, <1>3 DEF Still
<1>4. ASSUME NEW u \in Thread, Pending(th'[u])
      PROVE  \/ th'[u].val.ver = clock + 1
             \/ Pending(th[u]) /\ th'[u].val.ver = th[u].val.ver
  BY <1>1, <1>4 DEF Still
<1>5. ASSUME NEW t \in Thread, th'[t].pc = "putpages",
             th'[t].val.ver = main'.ver
      PROVE  th'[t].val.stage = main'.stage
  <2>1. ~Pending(th[t]) BY <1>1, <1>3, <1>5 DEF Inv, UniqueOK
  <2> QED BY <1>1, <1>3, <1>5, <2>1 DEF DataInv, VerOK
<1>6. ASSUME NEW t \in Thread, th'[t].pc = "putpages",
             NEW u \in Thread, Pending(th'[u])
      PROVE  th'[u].val.ver # th'[t].val.ver
  <2>1. th'[t].val = th[t].val /\ (th[t].pc = "putpages" \/ Pending(th[t]))
    BY <1>3, <1>6
  <2>2. CASE th'[u].val.ver = clock + 1
    BY <1>1, <1>2, <2>1, <2>2
  <2>3. CASE Pending(th[u]) /\ th'[u].val.ver = th[u].val.ver
    <3>1. t # u BY <1>6 DEF Pending
    <3>2. CASE th[t].pc = "putpages"
      BY <2>1, <2>3, <3>2 DEF DataInv, VerOK
    <3>3. CASE Pending(th[t])
      BY <2>1, <2>3, <3>1, <3>3 DEF Inv, UniqueOK
    <3> QED BY <2>1, <3>2, <3>3
  <2> QED BY <1>4, <1>6, <2>2, <2>3
<1> QED BY <1>5, <1>6 DEF VerOK, Pending

LEMMA StillCond ==
  ASSUME Inv, DataInv, StillNext PROVE CondOK'
<1> SUFFICES ASSUME Cond'
             PROVE  Laid' /\ NewOK' /\ \A t \in Thread : ValOK(t, th[t])'
  BY DEF CondOK
<1>1. /\ world' = world /\ main' = main /\ rows' = rows /\ pages' = pages
      /\ \A u \in Thread : th'[u] = th[u] \/ Still(u, th'[u])
  BY DEF StillNext
<1>2. Cond BY StillConds
<1>3. Laid /\ NewOK /\ \A t \in Thread : ValOK(t, th[t])
  BY <1>2 DEF DataInv, CondOK
<1>4. ASSUME NEW t \in Thread PROVE ValOK(t, th[t])'
  <2>1. PICK w : w = th'[t] OBVIOUS
  <2>2. ValOK(t, w) BY <1>1, <1>2, <1>3, <2>1 DEF Still
  <2>3. ValOK(t, w)' BY <1>1, <2>2, SameThread
  <2> QED BY <2>1, <2>3
<1>5. NewOK'
  <2> SUFFICES ASSUME rows' = {}
               PROVE  /\ main'.stage <= 1
                      /\ \A t \in Thread : th'[t].val.stage <= 1
    BY DEF NewOK
  <2> QED BY <1>1, <1>2, <1>3 DEF NewOK, Still
<1>6. Live' BY DEF Cond, Kept
<1>7. \/ worker' = worker
      \/ /\ worker.job = "create" => worker.pc = "ret"
         /\ worker'.job # "create"
  BY <1>6 DEF StillNext
<1>8. \A k : Upcoming(k)' <=> Upcoming(k) BY <1>7 DEF Upcoming
<1>9. Laid'
  <2>1. main' # None'
        \/ (worker'.job = "create" /\ worker'.pc = "put")
    BY <1>1, <1>3, <1>7 DEF Laid, None
  <2>2. main' # None' => First(main)'
    <3>1. PICK v : v = main OBVIOUS
    <3>2. First(v)' <=> First(v) BY <1>1, SameVersion
    <3> QED BY <1>1, <1>3, <3>1, <3>2 DEF Laid, None
  <2>3. ASSUME NEW k \in 1 .. MaxPage' PROVE PageOK(k)'
    <3>1. PICK page : page = pages[k] OBVIOUS
    <3>2. LaidOut(page, k)' <=> LaidOut(page, k) BY <1>1, SamePage
    <3>3. PageOK(k) BY <1>1, <1>3, SameWorld DEF Laid
    <3> QED BY <1>1, <1>8, <3>1, <3>2, <3>3 DEF PageOK, NoPage
  <2> QED BY <2>1, <2>2, <2>3 DEF Laid
<1> QED BY <1>4, <1>5, <1>9

LEMMA StillTasks ==
  ASSUME Inv, DataInv, StillNext
  PROVE  NoTasksOK' /\ AllTasksOK' /\ StoringOK' /\ SettledOK'
<1>1. /\ world' = world /\ main' = main /\ pages' = pages
      /\ settled' = settled
      /\ \A u \in Thread : th'[u] = th[u] \/ Still(u, th'[u])
  BY DEF StillNext
<1>2. "worker" \in Thread BY DEF Thread
<1>3. worker' = worker \/ Still("worker", worker') BY <1>1, <1>2 DEF worker
<1>4. NoTasksOK'
  <2> SUFFICES ASSUME Clean', ~Ended'
               PROVE  /\ main'.tasks = <<>>
                      /\ \A k \in 1 .. MaxPage' : pages'[k].tasks = <<>>
                      /\ \A t \in Thread :
                           th'[t].val.stage < 3 => th'[t].val.tasks = <<>>
    BY DEF NoTasksOK
  <2>1. Clean /\ ~Ended BY StillConds
  <2> QED BY <1>1, <2>1, SameWorld DEF DataInv, NoTasksOK, Still
<1>5. AllTasksOK'
  <2> SUFFICES ASSUME Clean', worker'.job = "final"
               PROVE  worker'.val.tasks = Comps'
    BY DEF AllTasksOK
  <2>1. Clean BY StillConds
  <2> QED BY <1>1, <1>3, <2>1, SameWorld DEF DataInv, AllTasksOK, Still
<1>6. StoringOK'
  <2> SUFFICES
        ASSUME Ending', worker'.job = "final", ~worker'.err,
               worker'.pc \in {"putpages", "ret"}
        PROVE  /\ main'.stage = 3 /\ main'.tasks = FirstTasks(worker.val)'
               /\ Complete(worker.val)'
               /\ \A k \in 1 .. MaxPage' :
                    pages'[k].tasks = IF worker'.pc = "putpages"
                                         /\ k >= worker'.i
                                        THEN <<>> ELSE TaskPage(worker.val, k)'
    BY DEF StoringOK
  <2>1. Ending BY StillConds
  <2>2. worker' = worker BY <1>3 DEF Still
  <2>3. PICK v : v = worker.val OBVIOUS
  <2>4. FirstTasks(v)' = FirstTasks(v) /\ (Complete(v)' <=> Complete(v))
        /\ \A k : TaskPage(v, k)' = TaskPage(v, k)
    BY <1>1, SameVersion, SameComplete
  <2>5. /\ main.stage = 3 /\ main.tasks = FirstTasks(v) /\ Complete(v)
        /\ \A k \in 1 .. MaxPage :
             pages[k].tasks = IF worker.pc = "putpages" /\ k >= worker.i
                                THEN <<>> ELSE TaskPage(v, k)
    BY <2>1, <2>2, <2>3 DEF DataInv, StoringOK
  <2>6. FirstTasks(worker.val)' = FirstTasks(v)
        /\ (Complete(worker.val)' <=> Complete(v))
        /\ \A k : TaskPage(worker.val, k)' = TaskPage(v, k)
    BY <2>2, <2>3, <2>4
  <2> QED BY <1>1, <2>2, <2>5, <2>6, SameWorld
<1>7. SettledOK'
  <2> SUFFICES ASSUME Ending', settled'
               PROVE  main'.stage = 3 /\ Whole' /\ Resting(worker')
    BY DEF SettledOK, Resting
  <2>1. Ending /\ settled BY <1>1, StillConds
  <2>2. main.stage = 3 /\ Whole /\ Resting(worker)
    BY <2>1 DEF DataInv, SettledOK, Resting
  <2>3. Whole' BY <1>1, <2>2, SameWorld DEF Whole, Joined
  <2> QED BY <1>1, <1>3, <2>2, <2>3 DEF Still, worker
<1> QED BY <1>4, <1>5, <1>6, <1>7

LEMMA StillInv ==
  ASSUME Inv, DataInv, StillNext PROVE DataInv'
BY StillStart, StillRows, StillVer, StillCond, StillTasks DEF DataInv

\* A step of one thread that only that thread notices.
LEMMA QuietData ==
  ASSUME Inv, DataInv, NEW t \in Thread, NEW w, th' = [th EXCEPT ![t] = w],
         UNCHANGED <<world, main, pages, rows, settled, clobbered, early,
                     acked, removal>>,
         clock' \in {clock, clock + 1}, Still(t, w),
         t = "worker" /\ th[t].job = "create" => w.job # "create" \/ w.err,
         w.job = "create" => th[t].job = "create" /\ w.err,
         t = "touch" => th[t].pc # "idle"
  PROVE  DataInv'
<1>1. th = [u \in Thread |-> th[u]] /\ clock \in Nat BY Types
<1>2. "worker" \in Thread /\ "touch" \in Thread BY DEF Thread
<1>3. \A u \in Thread : th'[u] = IF u = t THEN w ELSE th[u] BY <1>1
<1>4. clock # 0
  <2>1. main # None => main.ver >= 1 /\ main.ver <= clock /\ main.ver \in Nat
    BY DEF Inv, TypeInv, IsRecord
  <2>2. clock = 0 => \A u \in Thread : th[u].pc = "idle"
    BY IdleFacts DEF DataInv, StartOK
  <2> QED BY <1>1, <2>1, <2>2 DEF Still, Begun
<1>5. StartOK BY DEF DataInv
<1>6. CASE t = "worker"
  <2>1. worker' = w /\ worker = th[t] BY <1>2, <1>3, <1>6 DEF worker
  <2>2. Live' => Live /\ worker.job # "create" /\ worker'.job # "create"
    BY <1>5, <1>6, <2>1 DEF Live, StartOK
  <2>3. th'["touch"] = th["touch"] BY <1>2, <1>3, <1>6
  <2>4. worker'.job = "create" => worker.job = "create" /\ ~acked'
    BY <1>5, <2>1 DEF StartOK
  <2>5. StillNext
    BY <1>1, <1>3, <1>4, <1>5, <2>2, <2>3, <2>4 DEF StillNext, StartOK
  <2> QED BY <2>5, StillInv
<1>7. CASE t # "worker"
  <2>1. worker' = worker BY <1>2, <1>3, <1>7 DEF worker
  <2>2. Live' <=> Live BY <2>1 DEF Live
  <2>3. ~early' /\ ~acked' => th'["touch"].pc = "idle"
    BY <1>2, <1>3, <1>5 DEF StartOK
  <2>4. worker'.job = "create" => worker.job = "create" /\ ~acked'
    BY <1>5, <2>1 DEF StartOK
  <2>5. StillNext
    BY <1>1, <1>3, <1>4, <2>1, <2>2, <2>3, <2>4 DEF StillNext
  <2> QED BY <2>5, StillInv
<1> QED BY <1>6, <1>7

\* Under Cond the versions before the final one are cut as the new one is.
LEMMA CondStage ==
  ASSUME Inv, DataInv, Cond, NEW t \in Thread
  PROVE  /\ Etcd /\ world \in World
         /\ th[t].val.stage <= 1 \/ SameCut \/ SameCutBefore
         /\ main.stage <= 1 \/ SameCut \/ SameCutBefore
<1>1. Etcd /\ (SameCut \/ SameCutBefore \/ rows = {}) BY DEF Cond
<1>2. NewOK BY DEF DataInv, CondOK
<1>3. world \in World BY WorldAssumption DEF Inv, TypeInv
<1> QED BY <1>1, <1>2, <1>3 DEF NewOK

\* A thread that goes on to its pages, or to its answer.
LEMMA Advances ==
  ASSUME Inv, DataInv, NEW t \in Thread, NEW w, Moved(th[t], w),
         th[t].pc \in {"put", "tas", "putpages"},
         w.pc \in {"putpages", "ret"}, w.i \in Nat,
         w.pc = "putpages" => /\ w.i \in 1 .. Len(Split(th[t].val).more)
                              /\ Cond => t \notin Reapers
  PROVE  Local(t, w) /\ (Cond => ValOK(t, w))
<1>1. Local(t, th[t]) /\ LocalOK(t, th[t]) BY DEF DataInv, Inv, ThreadOK
<1>2. Local(t, w)
  BY <1>1 DEF Local, LocalOK, Moved, Pending
<1>3. ASSUME Cond PROVE ValOK(t, w)
  <2>1. ValOK(t, th[t]) BY <1>3 DEF DataInv, CondOK
  <2> QED BY <1>3, <2>1 DEF ValOK, Moved
<1> QED BY <1>2, <1>3

LEMMA AfterMainNext ==
  ASSUME Inv, DataInv, NEW t \in Thread, th[t].pc \in {"put", "tas"},
         AfterMain(t) = "putpages"
  PROVE  /\ th[t].i \in 1 .. Len(Split(th[t].val).more)
         /\ Cond => t \notin Reapers
<1>1. PICK v : v = th[t].val OBVIOUS
<1>2. v \in Record /\ th[t].i = 1 BY <1>1 DEF DataInv, Local, Pending
<1>3. Split(v).more # <<>> BY <1>1 DEF AfterMain
<1>4. world \in World BY WorldAssumption DEF Inv, TypeInv
<1>5. Len(Split(v).more) \in Nat
      /\ Split(v).more \in [1 .. Len(Split(v).more) -> Page]
  BY <1>2, <1>4, SplitTyped
<1>6. Len(Split(v).more) # 0 BY <1>3, <1>5
<1>7. ASSUME Cond, t \in Reapers PROVE FALSE
  <2>1. t # "worker" BY <1>7, ReaperAssumption
  <2>2. th[t].pc = "tas" /\ v.stage \in {1, 2}
    BY <1>1, <2>1 DEF Inv, ThreadOK, LocalOK, IsThread, IsRecord
  <2>3. First(v) BY <1>1, <1>7, <2>2 DEF DataInv, CondOK, ValOK
  <2>4. Etcd /\ (v.stage <= 1 \/ SameCut \/ SameCutBefore)
    BY <1>1, <1>7, CondStage
  <2>5. v.stage = 1 \/ SameCut \/ SameCutBefore BY <2>2, <2>4
  <2> QED BY <1>2, <1>3, <1>4, <2>2, <2>3, <2>4, <2>5, FirstPlain
<1> QED BY <1>1, <1>2, <1>5, <1>6, <1>7

LEMMA PageDoneNext ==
  ASSUME Inv, DataInv, NEW t \in Thread, th[t].pc = "putpages"
  PROVE  /\ th[t].i \in 1 .. Len(Split(th[t].val).more)
         /\ Len(Split(th[t].val).more) \in Nat
         /\ Split(th[t].val).more
              \in [1 .. Len(Split(th[t].val).more) -> Page]
         /\ Cond => t \notin Reapers
<1>1. PICK v : v = th[t].val OBVIOUS
<1>2. v \in Record /\ th[t].i \in 1 .. Len(Split(v).more)
  BY <1>1 DEF DataInv, Local
<1>3. world \in World BY WorldAssumption DEF Inv, TypeInv
<1>4. Len(Split(v).more) \in Nat
      /\ Split(v).more \in [1 .. Len(Split(v).more) -> Page]
  BY <1>2, <1>3, SplitTyped
<1>5. Cond => t \notin Reapers BY DEF DataInv, CondOK, ValOK
<1> QED BY <1>1, <1>2, <1>4, <1>5

LEMMA MovedStill ==
  ASSUME Inv, DataInv, NEW t \in Thread, NEW w, Moved(th[t], w),
         ~Resting(th[t]), Local(t, w), Cond => ValOK(t, w),
         w.job = "create" => w.pc # "put",
         w.job = "final" => w.err \/ w.pc = "put",
         w.pc = "regets" => th[t].pc = "regets" \/ th[t].job = "store",
         w.pc = "putpages" => th[t].pc = "putpages" \/ Pending(th[t]),
         Pending(w) => Pending(th[t])
  PROVE  Still(t, w)
<1>1. w.val = th[t].val /\ w.job = th[t].job BY DEF Moved
<1>2. Clean /\ w.job = "final" => w.val.tasks = Comps
  BY <1>1 DEF DataInv, AllTasksOK, Local, worker
<1>3. RowLoc(w.val) BY <1>1 DEF DataInv, RowLocOK
<1>4. Cond => (rows = {} => w.val.stage <= 1)
  BY <1>1 DEF DataInv, CondOK, NewOK
<1>5. Clean /\ ~Ended /\ w.val.stage < 3 => w.val.tasks = <<>>
  BY <1>1 DEF DataInv, NoTasksOK
<1>6. th[t].pc # "idle" BY DEF Resting
<1> QED BY <1>1, <1>2, <1>3, <1>4, <1>5, <1>6 DEF Still

LEMMA MainFailsData ==
  ASSUME Inv, DataInv, NEW t \in Thread, PutMainFails(t) \/ TASFails(t)
  PROVE  DataInv'
<1> th = [u \in Thread |-> th[u]] /\ ThreadShape(th[t]) BY Types
<1>1. PICK w : w = th'[t] OBVIOUS
<1>2. th[t].pc \in {"put", "tas"} BY DEF PutMainFails, TASFails
<1>3. /\ th' = [th EXCEPT ![t] = w] /\ Moved(th[t], w)
      /\ w.pc \in {AfterMain(t), "ret"} /\ w.err = TRUE /\ w.i = th[t].i
  <2>1. CASE PutMainFails(t)
    <3>1. PICK p : p = AfterMain(t) OBVIOUS
    <3>2. th' = [th EXCEPT ![t].pc = p, ![t].ok = TRUE, ![t].err = TRUE]
      BY <2>1, <3>1 DEF PutMainFails
    <3> QED BY <1>1, <3>1, <3>2 DEF Moved, ThreadShape
  <2>2. CASE TASFails(t)
    BY <1>1, <2>2 DEF Moved, ThreadShape, TASFails
  <2> QED BY <2>1, <2>2
<1>4. w.pc \in {"putpages", "ret"} BY <1>3, AfterMainFacts
<1>5. w.pc = "putpages" => /\ w.i \in 1 .. Len(Split(th[t].val).more)
                           /\ Cond => t \notin Reapers
  BY <1>2, <1>3, AfterMainNext
<1>6. w.i \in Nat BY <1>3 DEF DataInv, Local
<1>7. Local(t, w) /\ (Cond => ValOK(t, w))
  BY <1>2, <1>3, <1>4, <1>5, <1>6, Advances
<1>8. Pending(th[t]) /\ ~Resting(th[t]) /\ ~Pending(w)
  BY <1>2, <1>4 DEF Pending, Resting
<1>9. Still(t, w)
  BY <1>3, <1>4, <1>7, <1>8, MovedStill
<1>10. UNCHANGED <<world, main, pages, rows, settled, clobbered, early, acked,
                   removal, clock>>
  BY DEF PutMainFails, TASFails, history
<1>11. w.job = th[t].job BY <1>3 DEF Moved
<1>12. th[t].pc # "idle" /\ clock' \in {clock, clock + 1}
  BY <1>2, <1>10
<1> QED BY <1>3, <1>9, <1>10, <1>11, <1>12, QuietData

LEMMA SelectData ==
  ASSUME Inv, DataInv, NEW t \in Thread, TASSelect(t) PROVE DataInv'
<1> th = [u \in Thread |-> th[u]] /\ ThreadShape(th[t]) BY Types
<1>1. PICK w : w = th'[t] OBVIOUS
<1>2. PICK p \in {"upsert", "ret"} : th' = [th EXCEPT ![t].pc = p]
  BY DEF TASSelect
<1>3. /\ th' = [th EXCEPT ![t] = w] /\ Moved(th[t], w) /\ w.pc = p
      /\ w.i = th[t].i
  BY <1>1, <1>2 DEF Moved, ThreadShape
<1>4. th[t].pc = "tas" /\ ~Etcd BY DEF TASSelect
<1>5. Local(t, th[t]) BY DEF DataInv
<1>6. /\ Local(t, w) /\ w.job = th[t].job /\ w.job \notin {"create", "final"}
  BY <1>2, <1>3, <1>4, <1>5 DEF Local, Moved, Pending
<1>7. ~Cond BY <1>4 DEF Cond
<1>8. Pending(th[t]) /\ ~Resting(th[t]) BY <1>4 DEF Pending, Resting
<1>9. Still(t, w) BY <1>2, <1>3, <1>6, <1>7, <1>8, MovedStill
<1>10. UNCHANGED <<world, main, pages, rows, settled, clobbered, early, acked,
                   removal, clock>>
  BY DEF TASSelect, history
<1>11. th[t].pc # "idle" /\ clock' \in {clock, clock + 1}
  BY <1>4, <1>10
<1> QED BY <1>3, <1>6, <1>9, <1>10, <1>11, QuietData

LEMMA PageFailsData ==
  ASSUME Inv, DataInv, NEW t \in Thread, PutPageFails(t) PROVE DataInv'
<1> th = [u \in Thread |-> th[u]] /\ ThreadShape(th[t]) BY Types
<1>1. PICK w : w = th'[t] OBVIOUS
<1>2. PICK n : n = Len(Split(th[t].val).more) OBVIOUS
<1>3. PICK p : /\ p = IF th[t].i = n THEN "ret" ELSE "putpages"
               /\ th' = [th EXCEPT ![t].i = @ + 1, ![t].err = @ \/ TRUE,
                                   ![t].pc = p]
  BY <1>2 DEF PutPageFails, PageDone
<1>4. /\ th' = [th EXCEPT ![t] = w] /\ Moved(th[t], w) /\ w.pc = p
      /\ w.i = th[t].i + 1
  BY <1>1, <1>3 DEF Moved, ThreadShape
<1>5. w.err = TRUE BY <1>1, <1>3 DEF ThreadShape
<1>6. th[t].pc = "putpages" BY DEF PutPageFails
<1>7. th[t].i \in 1 .. n /\ n \in Nat /\ (Cond => t \notin Reapers)
  BY <1>2, <1>6, PageDoneNext
<1>8. /\ w.i \in Nat /\ w.pc \in {"putpages", "ret"}
      /\ w.pc = "putpages" => w.i \in 1 .. n
  BY <1>3, <1>4, <1>7
<1>9. Local(t, w) /\ (Cond => ValOK(t, w))
  BY <1>2, <1>4, <1>6, <1>7, <1>8, Advances
<1>10. ~Resting(th[t]) /\ ~Pending(w) BY <1>6, <1>8 DEF Pending, Resting
<1>11. Still(t, w)
  BY <1>4, <1>5, <1>6, <1>8, <1>9, <1>10, MovedStill
<1>12. UNCHANGED <<world, main, pages, rows, settled, clobbered, early, acked,
                   removal, clock>>
  BY DEF PutPageFails, history
<1>13. w.job = th[t].job BY <1>4 DEF Moved
<1>14. th[t].pc # "idle" /\ clock' \in {clock, clock + 1}
  BY <1>6, <1>12
<1> QED BY <1>4, <1>5, <1>11, <1>12, <1>13, <1>14, QuietData

-----------------------------------------------------------------------------
(***************************************************************************)
(* Steps of one thread, and the callers                                    *)
(***************************************************************************)

LEMMA RestFacts ==
  ASSUME Inv, NEW t \in Thread, NEW w, NEW job \in {"none", "run", "touch"},
         \/ w = Idle /\ job = "none"
         \/ w = Reading(job) /\ job # "none"
  PROVE  /\ w.pc \in {"idle", "get"} /\ w.job = job /\ w.val = None /\ w.i = 0
         /\ Local(t, w) /\ ValOK(t, w) /\ RowLoc(w.val)
         /\ ~Pending(w) /\ Resting(w) /\ w.val.stage = 0
         /\ w.val.tasks = <<>> /\ ~w.err
<1>1. world \in World BY WorldAssumption DEF Inv, TypeInv
<1>2. None \in Record BY <1>1, Sizes DEF None, Record
<1>3. /\ w.pc \in {"idle", "get"} /\ (w.pc = "idle" => w.job = "none")
      /\ w.job = job /\ w.val = None /\ w.i = 0 /\ ~w.err
  <2>1. Idle.i = 0 /\ ~Idle.err BY DEF Idle
  <2>2. CASE w = Idle /\ job = "none" BY <2>1, <2>2, IdleFacts
  <2>3. CASE w = Reading(job)
    BY <2>1, <2>3, IdleFacts DEF Reading, ThreadShape
  <2> QED BY <2>2, <2>3
<1>4. Local(t, w) BY <1>2, <1>3 DEF Local, Pending
<1>5. ValOK(t, w) BY <1>3 DEF ValOK
<1>6. None.stage = 0 /\ None.tasks = <<>> BY DEF None
<1>7. RowLoc(w.val) BY <1>3, <1>6 DEF RowLoc
<1> QED BY <1>3, <1>4, <1>5, <1>6, <1>7 DEF Pending, Resting

LEMMA RestStill ==
  ASSUME Inv, DataInv, NEW t \in Thread, NEW w,
         NEW job \in {"none", "run", "touch"}, th[t].pc # "idle" \/ Begun,
         \/ w = Idle /\ job = "none"
         \/ w = Reading(job) /\ job # "none"
  PROVE  Still(t, w) /\ w.job # "create"
<1>1. /\ w.pc \in {"idle", "get"} /\ w.job = job /\ w.val = None /\ w.i = 0
      /\ Local(t, w) /\ ValOK(t, w) /\ RowLoc(w.val)
      /\ ~Pending(w) /\ Resting(w) /\ w.val.stage = 0
      /\ w.val.tasks = <<>> /\ ~w.err
  BY RestFacts
<1> QED BY <1>1 DEF Still

LEMMA ExitData ==
  ASSUME Inv, DataInv, NEW t \in Thread, Exit(t), th[t].pc # "idle",
         UNCHANGED <<world, main, pages, rows, settled, clobbered, early,
                     acked, removal, clock>>
  PROVE  DataInv'
<1>1. Still(t, Idle) /\ Idle.job # "create" BY RestStill
<1>2. th' = [th EXCEPT ![t] = Idle] BY DEF Exit
<1>3. clock' \in {clock, clock + 1} OBVIOUS
<1> QED BY <1>1, <1>2, <1>3, QuietData

LEMMA ExitsData ==
  ASSUME Inv, DataInv, NEW t \in Thread, GetFails(t) \/ Crash(t)
  PROVE  DataInv'
<1>1. Exit(t) /\ th[t].pc # "idle" BY DEF GetFails, Crash
<1>2. UNCHANGED <<world, main, pages, rows, settled, clobbered, early,
                  acked, removal, clock>>
  BY DEF GetFails, Crash, history
<1> QED BY <1>1, <1>2, ExitData

LEMMA TouchDoneData == ASSUME Inv, DataInv, TouchDone PROVE DataInv'
<1>1. Exit("touch") /\ th["touch"].pc # "idle" BY DEF TouchDone
<1>2. UNCHANGED <<world, main, pages, rows, settled, clobbered, early,
                  acked, removal, clock>>
  BY DEF TouchDone, history
<1> QED BY <1>1, <1>2, ExitData, Threads

LEMMA TASMissData ==
  ASSUME Inv, DataInv, NEW t \in Thread, TAS(t), main # th[t].test
  PROVE  DataInv'
<1> th = [u \in Thread |-> th[u]] /\ ThreadShape(th[t]) BY Types
<1>1. PICK w : w = th'[t] OBVIOUS
<1>2. PICK p : p = AfterMain(t) OBVIOUS
<1>3. PICK o : th' = [th EXCEPT ![t].pc = p, ![t].ok = o]
  BY <1>2 DEF TAS
<1>4. /\ th' = [th EXCEPT ![t] = w] /\ Moved(th[t], w) /\ w.pc = p
      /\ w.i = th[t].i
  BY <1>1, <1>3 DEF Moved, ThreadShape
<1>5. th[t].pc = "tas" BY DEF TAS
<1>6. w.pc \in {"putpages", "ret"} BY <1>2, <1>4, AfterMainFacts
<1>7. w.pc = "putpages" => /\ w.i \in 1 .. Len(Split(th[t].val).more)
                           /\ Cond => t \notin Reapers
  BY <1>2, <1>4, <1>5, AfterMainNext
<1>8. w.i \in Nat /\ Local(t, th[t]) BY <1>4 DEF DataInv, Local
<1>9. Local(t, w) /\ (Cond => ValOK(t, w))
  BY <1>4, <1>5, <1>6, <1>7, <1>8, Advances
<1>10. Pending(th[t]) /\ ~Resting(th[t]) /\ ~Pending(w)
  BY <1>5, <1>6 DEF Pending, Resting
<1>11. w.job = th[t].job /\ w.job \notin {"create", "final"}
  BY <1>4, <1>5, <1>8 DEF Moved, Local
<1>12. Still(t, w)
  BY <1>4, <1>6, <1>9, <1>10, <1>11, MovedStill
<1>13. UNCHANGED <<world, main, pages, rows, settled, clobbered, early, acked,
                   removal, clock>>
  BY DEF TAS, history
<1>14. th[t].pc # "idle" /\ clock' \in {clock, clock + 1}
  BY <1>5, <1>13
<1> QED BY <1>4, <1>11, <1>12, <1>13, <1>14, QuietData

\* A reaper that goes on with a deletion.
LEMMA DeletingData ==
  ASSUME Inv, DataInv, NEW t \in Thread, NEW w, th' = [th EXCEPT ![t] = w],
         Moved(th[t], w), w.pc \in {"list", "delpages", "ret"},
         th[t].pc \in {"delete", "list", "delpages"}, w.i = th[t].i,
         UNCHANGED <<world, main, pages, rows, settled, clobbered, early,
                     acked, removal, clock>>
  PROVE  DataInv'
<1>1. LocalOK(t, th[t]) /\ Local(t, th[t]) BY DEF DataInv, Inv, ThreadOK
<1>2. w.job = "delete" /\ th[t].job = "delete" /\ t # "worker"
  BY <1>1 DEF LocalOK, Moved
<1>3. Local(t, w) BY <1>1, <1>2 DEF Local, Moved, Pending
<1>4. ValOK(t, w) BY <1>2 DEF ValOK
<1>5. ~Resting(th[t]) /\ ~Pending(w) BY DEF Resting, Pending
<1>6. Still(t, w) BY <1>2, <1>3, <1>4, <1>5, MovedStill
<1>7. th[t].pc # "idle" /\ clock' \in {clock, clock + 1} OBVIOUS
<1> QED BY <1>2, <1>6, <1>7, QuietData

LEMMA DeleteFailsData ==
  ASSUME Inv, DataInv, NEW t \in Thread,
         \/ DeleteMainFails(t) \/ ListPagesFails(t) \/ DeletePageFails(t)
         \/ ListPages(t)
  PROVE  DataInv'
<1> th = [u \in Thread |-> th[u]] /\ ThreadShape(th[t]) BY Types
<1>1. PICK w : w = th'[t] OBVIOUS
<1>2. /\ th' = [th EXCEPT ![t] = w] /\ Moved(th[t], w) /\ w.i = th[t].i
      /\ w.pc \in {"list", "delpages", "ret"}
  <2>1. CASE DeleteMainFails(t)
    <3>1. PICK p \in {"list", "ret"} :
            th' = [th EXCEPT ![t].err = TRUE, ![t].pc = p]
      BY <2>1 DEF DeleteMainFails
    <3> QED BY <1>1, <3>1 DEF Moved, ThreadShape
  <2>2. CASE ListPagesFails(t)
    BY <1>1, <2>2 DEF Moved, ThreadShape, ListPagesFails
  <2>3. CASE DeletePageFails(t)
    <3>1. PICK k : PageGone(t, k, TRUE) BY <2>3 DEF DeletePageFails
    <3>2. PICK p \in {"delpages", "ret"} :
            th' = [th EXCEPT ![t].left = @ \ {k}, ![t].err = @ \/ TRUE,
                             ![t].pc = p]
      BY <3>1 DEF PageGone
    <3> QED BY <1>1, <3>2 DEF Moved, ThreadShape
  <2>4. CASE ListPages(t)
    <3>1. PICK p \in {"delpages", "ret"} :
            th' = [th EXCEPT ![t].left = Stored, ![t].pc = p]
      BY <2>4 DEF ListPages
    <3> QED BY <1>1, <3>1 DEF Moved, ThreadShape
  <2> QED BY <2>1, <2>2, <2>3, <2>4
<1>3. th[t].pc \in {"delete", "list", "delpages"}
  BY DEF DeleteMainFails, ListPagesFails, DeletePageFails, ListPages
<1>4. UNCHANGED <<world, main, pages, rows, settled, clobbered, early, acked,
                  removal, clock>>
  BY DEF DeleteMainFails, ListPagesFails, DeletePageFails, ListPages, history
<1> QED BY <1>2, <1>3, <1>4, DeletingData

\* storeTransition tries again.
LEMMA RetryData ==
  ASSUME Inv, DataInv, StoreDone, ~worker.ok /\ worker.tries < 3
  PROVE  DataInv'
<1> DEFINE t == "worker"
<1> /\ th = [u \in Thread |-> th[u]] /\ t \in Thread /\ ThreadShape(th[t])
  BY Types, Threads
<1>1. th' = [th EXCEPT ![t].pc = "regets"] /\ clock' = clock
  BY DEF StoreDone, worker
<1>2. PICK w : w = th'[t] OBVIOUS
<1>3. /\ th' = [th EXCEPT ![t] = w] /\ Moved(th[t], w) /\ w.pc = "regets"
      /\ w.i = th[t].i
  BY <1>1, <1>2 DEF Moved, ThreadShape
<1>4. th[t].pc = "ret" /\ th[t].job = "store" BY DEF StoreDone
<1>5. Local(t, w)
  <2>1. Local(t, th[t]) BY DEF DataInv
  <2> QED BY <1>3, <1>4, <2>1 DEF Local, Moved, Pending
<1>6. ASSUME Cond PROVE ValOK(t, w)
  <2>1. ValOK(t, th[t]) BY <1>6 DEF DataInv, CondOK
  <2>2. Regular(th[t].val) BY <1>4, <2>1 DEF ValOK
  <2> QED BY <1>3, <2>2, Threads DEF ValOK, Moved
<1>7. ~Resting(th[t]) /\ ~Pending(w) BY <1>3, <1>4 DEF Resting, Pending
<1>8. w.job = "store" BY <1>3, <1>4 DEF Moved
<1>9. Still(t, w) BY <1>3, <1>4, <1>5, <1>6, <1>7, <1>8, MovedStill
<1>10. UNCHANGED <<world, main, pages, rows, settled, clobbered, early, acked,
                   removal>>
  BY DEF StoreDone, history
<1>11. clock' \in {clock, clock + 1} BY <1>1
<1>12. t = "touch" => th[t].pc # "idle" BY <1>4
<1> HIDE DEF t
<1> QED BY <1>3, <1>8, <1>9, <1>10, <1>11, <1>12, QuietData

-----------------------------------------------------------------------------
(***************************************************************************)
(* Reading                                                                 *)
(***************************************************************************)
LEMMA InWorld == ASSUME Inv PROVE world \in World
BY WorldAssumption DEF Inv, TypeInv

LEMMA GetData ==
  ASSUME Inv, DataInv, NEW t \in Thread, GetMain(t) PROVE DataInv'
<1> th = [u \in Thread |-> th[u]] /\ ThreadShape(th[t]) BY Types
<1>1. UNCHANGED <<world, main, pages, rows, settled, clobbered, early, acked,
                  removal, clock>>
  BY DEF GetMain, history
<1>2. th[t].pc = "get" BY DEF GetMain
<1>3. CASE main = None
  BY <1>1, <1>2, <1>3, ExitData DEF GetMain
<1>4. CASE main # None
  <2>1. PICK w : w = th'[t] OBVIOUS
  <2>2. PICK p \in {"getpages", "got"} :
          /\ th' = [th EXCEPT ![t].val = main, ![t].test = main, ![t].pc = p]
          /\ p = "got" => ~(Etcd /\ world.sizeChecks)
    BY <1>4 DEF GetMain
  <2>3. /\ th' = [th EXCEPT ![t] = w] /\ w.val = main
        /\ w.pc = p /\ w.job = th[t].job /\ w.i = th[t].i
    BY <2>1, <2>2 DEF ThreadShape
  <2>4. Local(t, th[t]) /\ LocalOK(t, th[t]) /\ main \in Record
    BY DEF DataInv, SharedOK, Inv, ThreadOK
  <2>5. /\ Local(t, w) /\ w.job \notin {"create", "final", "store"}
    BY <1>2, <2>2, <2>3, <2>4 DEF Local, LocalOK, Pending
  <2>6. ASSUME Cond PROVE ValOK(t, w) /\ (rows = {} => w.val.stage <= 1)
    <3>1. First(main) /\ NewOK /\ Etcd
      BY <1>4, <2>6 DEF DataInv, CondOK, Laid, Cond
    <3>2. p = "got" => Regular(main)
      <4>1. p = "got" => ~Wide BY <2>2, <3>1 DEF Wide
      <4> QED BY <3>1, <4>1 DEF First, FirstLoc, Regular
    <3>3. ValOK(t, w) BY <2>2, <2>3, <3>1, <3>2 DEF ValOK
    <3> QED BY <2>3, <3>1, <3>3 DEF NewOK
  <2>7. RowLoc(w.val) BY <2>3 DEF DataInv, RowLocOK
  <2>8. Clean /\ ~Ended /\ w.val.stage < 3 => w.val.tasks = <<>>
    BY <2>3 DEF DataInv, NoTasksOK
  <2>9. ~Pending(w) /\ Resting(w) /\ w.pc \notin {"regets", "putpages"}
    BY <2>2, <2>3 DEF Pending, Resting
  <2>10. Still(t, w)
    BY <1>2, <2>5, <2>6, <2>7, <2>8, <2>9 DEF Still
  <2>11. clock' \in {clock, clock + 1} BY <1>1
  <2> QED BY <1>1, <1>2, <2>3, <2>5, <2>10, <2>11, QuietData
<1> QED BY <1>3, <1>4

LEMMA GetPagesData ==
  ASSUME Inv, DataInv, NEW t \in Thread, GetTransitionPages(t) PROVE DataInv'
<1> th = [u \in Thread |-> th[u]] /\ ThreadShape(th[t]) /\ world \in World
  BY Types, InWorld
<1>1. PICK w : w = th'[t] OBVIOUS
<1>2. PICK u : u = th[t].val OBVIOUS
<1>3. PICK v : v = Joined(u, pages) OBVIOUS
<1>4. th' = [th EXCEPT ![t].val = v, ![t].pc = "got"]
  BY <1>2, <1>3 DEF GetTransitionPages
<1>5. /\ th' = [th EXCEPT ![t] = w] /\ w.val = v
      /\ w.pc = "got" /\ w.job = th[t].job /\ w.i = th[t].i
  BY <1>1, <1>4 DEF ThreadShape
<1>6. th[t].pc = "getpages" BY DEF GetTransitionPages
<1>7. Local(t, th[t]) /\ LocalOK(t, th[t]) /\ u \in Record
  BY <1>2 DEF DataInv, Local, Inv, ThreadOK
<1>8. pages \in [1 .. MaxPage -> Page] BY DEF DataInv, SharedOK
<1>9. /\ v \in Record /\ v.stage = u.stage
      /\ v.loc = u.loc \o FlattenSeq([k \in 1 .. MaxPage |-> pages[k]["loc"]])
      /\ v.tasks
           = u.tasks \o FlattenSeq([k \in 1 .. MaxPage |-> pages[k]["tasks"]])
  BY <1>3, <1>7, <1>8, JoinedIs
<1>10. Local(t, w) /\ w.job \notin {"create", "final", "store"}
  BY <1>5, <1>6, <1>7, <1>9 DEF Local, LocalOK, Pending
<1>11. ASSUME Cond PROVE ValOK(t, w) /\ (rows = {} => w.val.stage <= 1)
  <2>1. Laid /\ NewOK /\ ValOK(t, th[t]) BY <1>11 DEF DataInv, CondOK
  <2>2. First(u) BY <1>2, <1>6, <2>1 DEF ValOK
  <2>3. ASSUME t \in {"worker", "touch"} PROVE Regular(v)
    <3>1. worker.job # "create"
      <4>1. ~early BY <1>11 DEF Cond, Kept
      <4>2. t = "touch" => acked BY <1>6, <4>1 DEF DataInv, StartOK
      <4>3. worker.job = "create" => ~acked BY DEF DataInv, StartOK
      <4>4. t = "worker" => worker.job # "create"
        BY <1>5, <1>10 DEF worker
      <4> QED BY <2>3, <4>2, <4>3, <4>4
    <3>2. \A k \in 1 .. MaxPage : LaidOut(pages[k], k)
      BY <2>1, <3>1 DEF Laid, PageOK, Upcoming
    <3> QED BY <1>3, <1>7, <1>8, <2>2, <3>2, JoinedRegular
  <2>4. ValOK(t, w) BY <1>5, <2>3 DEF ValOK
  <2> QED BY <1>2, <1>5, <1>9, <2>1, <2>4 DEF NewOK
<1>12. RowLoc(w.val)
  <2> SUFFICES ASSUME ~Etcd, v.stage >= 1 PROVE v.loc = Comps
    BY <1>5 DEF RowLoc
  <2>1. Stored = {} BY DEF Inv, TypeInv, Paging
  <2>2. NoPage["loc"] = <<>> BY DEF NoPage
  <2>3. \A k \in 1 .. MaxPage : pages[k]["loc"] = <<>>
    BY <1>8, <2>1, <2>2 DEF Stored
  <2>4. u["loc"] \o FlattenSeq([k \in 1 .. MaxPage |-> pages[k]["loc"]])
          = u["loc"]
    BY <1>7, <1>8, <2>3, NothingMore
  <2>5. RowLoc(u) BY <1>2 DEF DataInv, RowLocOK
  <2> QED BY <1>9, <2>4, <2>5 DEF RowLoc
<1>13. ASSUME Clean, ~Ended, w.val.stage < 3 PROVE w.val.tasks = <<>>
  <2>1. /\ u.tasks = <<>>
        /\ \A k \in 1 .. MaxPage : pages[k].tasks = <<>>
    BY <1>2, <1>5, <1>9, <1>13 DEF DataInv, NoTasksOK
  <2>2. u["tasks"] \o FlattenSeq([k \in 1 .. MaxPage |-> pages[k]["tasks"]])
          = u["tasks"]
    BY <1>7, <1>8, <2>1, NothingMore
  <2> QED BY <1>5, <1>9, <2>1, <2>2
<1>14. ~Pending(w) /\ Resting(w) BY <1>5 DEF Pending, Resting
<1>15. Still(t, w)
  BY <1>5, <1>6, <1>10, <1>11, <1>12, <1>13, <1>14 DEF Still
<1>16. UNCHANGED <<world, main, pages, rows, settled, clobbered, early, acked,
                   removal, clock>>
  BY DEF GetTransitionPages, history
<1>17. clock' \in {clock, clock + 1} BY <1>16
<1> QED BY <1>5, <1>6, <1>10, <1>15, <1>16, <1>17, QuietData

-----------------------------------------------------------------------------
(***************************************************************************)
(* Calling                                                                 *)
(***************************************************************************)
LEMMA CallingIs ==
  ASSUME NEW job, NEW pc, NEW val \in Record, NEW test, NEW tries,
         clock \in Nat, NEW w, w = Calling(job, pc, val, test, tries)
  PROVE  /\ w.pc = pc /\ w.job = job /\ w.i = 1 /\ ~w.err
         /\ w.val \in Record /\ w.val.ver = clock + 1
         /\ w.val.stage = val.stage /\ w.val.loc = val.loc
         /\ w.val.ids = val.ids /\ w.val.tasks = val.tasks
         /\ w.val.long <=> val.long
<1>1. PICK x : x = [val EXCEPT !.ver = clock + 1] OBVIOUS
<1>2. /\ x \in Record /\ x.ver = clock + 1 /\ x.stage = val.stage
      /\ x.loc = val.loc /\ x.ids = val.ids /\ x.tasks = val.tasks
      /\ x.long <=> val.long
  BY <1>1 DEF Record
<1>3. /\ w.pc = pc /\ w.job = job /\ w.i = 1 /\ ~w.err /\ w.val = x
  BY <1>1 DEF Calling
<1> QED BY <1>2, <1>3

LEMMA SameData ==
  ASSUME NEW u, NEW v, u.stage = v.stage, u.loc = v.loc, u.ids = v.ids,
         u.tasks = v.tasks, u.long <=> v.long
  PROVE  /\ Regular(u) <=> Regular(v)
         /\ First(u) <=> First(v)
         /\ RowLoc(u) <=> RowLoc(v)
<1>1. Common(u) <=> Common(v) BY DEF Common, Standard
<1> QED BY <1>1 DEF Regular, First, RowLoc

LEMMA CallData ==
  ASSUME Inv, DataInv, NEW t \in Thread, NEW pc \in {"put", "tas"},
         NEW job \in {"store", "final", "touch", "pickup"},
         NEW val \in Record, NEW test, NEW tries,
         Call(t, job, pc, val, test, tries),
         UNCHANGED <<world, main, pages, rows, settled, clobbered, early,
                     acked, removal>>,
         th[t].pc # "idle" \/ main # None, t = "touch" => th[t].pc # "idle",
         t = "worker" => /\ th[t].pc = "regets"
                            \/ (th[t].pc = "ret" /\ th[t].job = "store")
                         /\ job \in {"store", "final"},
         job = "final" => t = "worker" /\ pc = "put" /\ val.stage = 3,
         Clean /\ job = "final" => val.tasks = Comps,
         RowLoc(val),
         Cond => /\ t \in {"worker", "touch"} => Regular(val)
                 /\ t \in Reapers => First(val)
                 /\ rows = {} => val.stage <= 1,
         Clean /\ ~Ended /\ val.stage < 3 => val.tasks = <<>>
  PROVE  DataInv'
<1>1. PICK w : w = Calling(job, pc, val, test, tries) OBVIOUS
<1>2. th' = [th EXCEPT ![t] = w] /\ clock' = clock + 1
  BY <1>1 DEF Call, Calling
<1>3. clock \in Nat BY Types
<1>4. /\ w.pc = pc /\ w.job = job /\ w.i = 1 /\ ~w.err
      /\ w.val \in Record /\ w.val.ver = clock + 1
      /\ w.val.stage = val.stage /\ w.val.loc = val.loc
      /\ w.val.ids = val.ids /\ w.val.tasks = val.tasks
      /\ w.val.long <=> val.long
  BY <1>1, <1>3, CallingIs
<1>5. Local(t, w) BY <1>4 DEF Local, Pending
<1>6. RowLoc(w.val) /\ (Cond => ValOK(t, w))
  <2>1. PICK v : v = w.val OBVIOUS
  <2>2. /\ Regular(v) <=> Regular(val)
        /\ First(v) <=> First(val)
        /\ RowLoc(v) <=> RowLoc(val)
    BY <1>4, <2>1, SameData
  <2>3. Cond => ValOK(t, w) BY <1>4, <2>1, <2>2 DEF ValOK
  <2> QED BY <2>1, <2>2, <2>3
<1>7. t = "worker" => ~Resting(th[t]) BY DEF Resting
<1>8. th[t].pc # "idle" \/ Begun BY DEF Begun
<1>9. Still(t, w) BY <1>4, <1>5, <1>6, <1>7, <1>8 DEF Still
<1>10. t = "worker" => th[t].job # "create"
  <2>1. Local(t, th[t]) BY DEF DataInv
  <2> QED BY <2>1 DEF Local
<1>11. clock' \in {clock, clock + 1} BY <1>2
<1> QED BY <1>2, <1>4, <1>9, <1>10, <1>11, QuietData

LEMMA ReGetData == ASSUME Inv, DataInv, ReGet PROVE DataInv'
<1> DEFINE t == "worker"
<1> /\ t \in Thread /\ ThreadOK(t, th[t]) /\ Local(t, th[t])
  BY Types, Threads DEF DataInv
<1>1. UNCHANGED <<world, main, pages, rows, settled, clobbered, early, acked,
                  removal>>
  BY DEF ReGet, history
<1>2. PICK pc \in {"put", "tas"} :
        Call(t, "store", pc, th[t].val, main, th[t].tries + 1)
  BY DEF ReGet
<1>3. th[t].pc = "regets" BY DEF ReGet
<1>4. PICK v \in Record : v = th[t].val BY DEF Local
<1>5. RowLoc(v) BY <1>4 DEF DataInv, RowLocOK
<1>6. Cond => Regular(v) /\ (rows = {} => v.stage <= 1)
  BY <1>3, <1>4 DEF DataInv, CondOK, ValOK, NewOK
<1>7. Clean /\ ~Ended /\ v.stage < 3 => v.tasks = <<>>
  BY <1>4 DEF DataInv, NoTasksOK
<1>8. t \notin Reapers /\ t # "touch" BY Threads
<1> HIDE DEF t
<1>9. t = "worker" BY DEF t
<1>10. Call(t, "store", pc, v, main, th[t].tries + 1) BY <1>2, <1>4
<1> QED BY <1>1, <1>3, <1>5, <1>6, <1>7, <1>8, <1>9, <1>10, CallData

LEMMA TouchTASData == ASSUME Inv, DataInv, TouchTAS PROVE DataInv'
<1> DEFINE t == "touch"
<1> /\ t \in Thread /\ ThreadOK(t, th[t]) /\ Local(t, th[t])
  BY Types, Threads DEF DataInv
<1>1. UNCHANGED <<world, main, pages, rows, settled, clobbered, early, acked,
                  removal>>
  BY DEF TouchTAS, history
<1>2. th[t].pc = "got" BY DEF TouchTAS
<1>3. CASE th[t].val.stage = 3
  BY <1>1, <1>2, <1>3, ExitData DEF TouchTAS
<1>4. CASE th[t].val.stage # 3
  <2>1. Call(t, "touch", "tas", th[t].val, th[t].test, 0)
    BY <1>4 DEF TouchTAS
  <2>2. PICK v \in Record : v = th[t].val BY DEF Local
  <2>3. RowLoc(v) BY <2>2 DEF DataInv, RowLocOK
  <2>4. Cond => Regular(v) /\ (rows = {} => v.stage <= 1)
    BY <1>2, <2>2 DEF DataInv, CondOK, ValOK, NewOK
  <2>5. Clean /\ ~Ended /\ v.stage < 3 => v.tasks = <<>>
    BY <2>2 DEF DataInv, NoTasksOK
  <2>6. t \notin Reapers /\ t # "worker" BY Threads
  <2> HIDE DEF t
  <2>7. PICK x : x = th[t].test OBVIOUS
  <2>8. Call(t, "touch", "tas", v, x, 0) BY <2>1, <2>2, <2>7
  <2> QED BY <1>1, <1>2, <2>3, <2>4, <2>5, <2>6, <2>8, CallData
<1> QED BY <1>3, <1>4

LEMMA ReapCallData ==
  ASSUME Inv, DataInv, NEW r \in Reapers, Reap(r), main.stage # 3
  PROVE  DataInv'
<1> r \in Thread /\ r # "worker" /\ r # "touch" BY Threads
<1>1. UNCHANGED <<world, main, pages, rows, settled, clobbered, early, acked,
                  removal>>
  BY DEF Reap
<1>2. main # None /\ Call(r, "pickup", "tas", main, main, 0) BY DEF Reap
<1>3. PICK v \in Record : v = main BY DEF DataInv, SharedOK
<1>4. RowLoc(v) BY <1>3 DEF DataInv, RowLocOK
<1>5. Cond => First(v) /\ (rows = {} => v.stage <= 1)
  BY <1>2, <1>3 DEF DataInv, CondOK, Laid, NewOK
<1>6. Clean /\ ~Ended /\ v.stage < 3 => v.tasks = <<>>
  BY <1>3 DEF DataInv, NoTasksOK
<1>7. Call(r, "pickup", "tas", v, v, 0) BY <1>2, <1>3
<1> QED BY <1>1, <1>2, <1>4, <1>5, <1>6, <1>7, CallData

\* compressAndCompleteTransition: the final version has all results.
LEMMA FinalData ==
  ASSUME Inv, DataInv, StoreDone, ~(~worker.ok /\ worker.tries < 3)
  PROVE  DataInv'
<1> DEFINE t == "worker"
<1> /\ t \in Thread /\ ThreadOK(t, th[t]) /\ Local(t, th[t]) /\ world \in World
  BY Types, Threads, InWorld DEF DataInv
<1>1. UNCHANGED <<world, main, pages, rows, settled, clobbered, early, acked,
                  removal>>
  BY DEF StoreDone, history
<1>2. PICK u \in Record : u = th[t].val BY DEF Local
<1>3. th[t].pc = "ret" /\ th[t].job = "store" /\ u.stage = 2
  BY <1>2 DEF StoreDone, ThreadOK, LocalOK
<1>4. PICK s : s = Sorted(rows) OBVIOUS
<1>5. PICK v : v = [u EXCEPT !.stage = 3, !.tasks = s, !.long = world.long]
  OBVIOUS
<1>6. Call(t, "final", "put", v, None, 0)
  BY <1>2, <1>4, <1>5 DEF StoreDone, worker
<1>7. /\ world.n \in Nat \ {0} /\ world.long \in BOOLEAN
      /\ s \in List /\ Len(Comps) = world.n
  BY <1>4, Sizes, SortedFacts DEF List
<1>8. /\ v \in Record /\ v.stage = 3 /\ v.tasks = s /\ v.loc = u.loc
      /\ v.ids = u.ids /\ (v.long <=> world.long)
  <2>1. DOMAIN u = {"ver", "stage", "loc", "ids", "tasks", "long"}
    BY DEF Record
  <2>2. v.stage = 3 /\ v.tasks = s /\ v.loc = u.loc /\ v.ids = u.ids
    BY <1>5, <2>1
  <2>3. v.long = world.long BY <1>5, <2>1
  <2>4. v \in Record
    <3>1. PICK x : x = [u EXCEPT !.stage = 3, !.tasks = s] OBVIOUS
    <3>2. x \in Record
      <4>1. 3 \in 0 .. 3 /\ s \in List BY <1>7
      <4> QED BY ONLY <3>1, <4>1, u \in Record DEF Record
    <3>3. v = [x EXCEPT !.long = world.long] BY <1>5, <2>1, <3>1
    <3> QED BY ONLY <1>7, <3>2, <3>3 DEF Record
  <2> QED BY <2>2, <2>3, <2>4
<1>9. Kept => rows = 1 .. world.n /\ s = Comps /\ rows # {}
  <2>1. Kept => rows = 1 .. world.n
    BY <1>3 DEF DataInv, RowsOK, worker
  <2>2. Sorted(1 .. world.n) = Comps BY SortedFacts
  <2>3. 1 \in 1 .. world.n BY <1>7
  <2> QED BY <1>4, <2>1, <2>2, <2>3
<1>10. Clean => v.tasks = Comps
  <2>1. Clean => Kept BY DEF Clean, Kept
  <2> QED BY <1>8, <1>9, <2>1
<1>11. RowLoc(v)
  <2>1. RowLoc(u) BY <1>2 DEF DataInv, RowLocOK
  <2> QED BY <1>3, <1>8, <2>1 DEF RowLoc
<1>12. ASSUME Cond PROVE Regular(v) /\ rows # {}
  <2>1. s = Comps /\ rows # {} BY <1>9, <1>12 DEF Cond
  <2>2. Regular(u) BY <1>2, <1>3, <1>12 DEF DataInv, CondOK, ValOK
  <2>3. CASE Wide
    BY <1>7, <1>8, <2>1, <2>2, <2>3 DEF Regular, Common
  <2>4. CASE ~Wide
    BY <1>3, <1>8, <2>1, <2>2, <2>4 DEF Regular, Common, Standard
  <2> QED BY <2>1, <2>3, <2>4
<1>13. t \notin Reapers /\ t # "touch" BY Threads
<1>14. Clean /\ ~Ended /\ v.stage < 3 => v.tasks = <<>> BY <1>8
<1> HIDE DEF t
<1>15. t = "worker" BY DEF t
<1> QED BY <1>1, <1>3, <1>6, <1>8, <1>10, <1>11, <1>12, <1>13, <1>14, <1>15,
           CallData

LEMMA StoreDoneData == ASSUME Inv, DataInv, StoreDone PROVE DataInv'
BY RetryData, FinalData

-----------------------------------------------------------------------------
(***************************************************************************)
(* Steps that change the history                                           *)
(***************************************************************************)

\* What the threads hold when thread t goes on with w.
LEMMA OneThread ==
  ASSUME Inv, NEW t \in Thread, NEW w, th' = [th EXCEPT ![t] = w]
  PROVE  /\ \A u \in Thread : th'[u] = IF u = t THEN w ELSE th[u]
         /\ th'[t] = w /\ (t # "worker" => worker' = worker)
         /\ t = "worker" => worker' = w
<1> th = [u \in Thread |-> th[u]] /\ "worker" \in Thread BY Types, Threads
<1> QED BY DEF worker

LEMMA BegunClock ==
  ASSUME Inv, DataInv, \/ main # None \/ \E t \in Thread : th[t].pc # "idle"
  PROVE  clock # 0
<1>1. main # None => main.ver >= 1 /\ main.ver <= clock /\ main.ver \in Nat
  BY DEF Inv, TypeInv, IsRecord
<1>2. clock = 0 => \A u \in Thread : th[u].pc = "idle"
  BY IdleFacts DEF DataInv, StartOK
<1> QED BY <1>1, <1>2, Types

LEMMA TriggerDoneData == ASSUME Inv, DataInv, TriggerDone PROVE DataInv'
<1> DEFINE t == "worker"
<1> t \in Thread /\ Local(t, th[t]) /\ StartOK BY Threads DEF DataInv
<1>1. UNCHANGED <<world, main, pages, rows, clock, settled, removal,
                  clobbered, early>>
  BY DEF TriggerDone
<1>2. /\ worker.pc = "ret" /\ worker.job = "create"
      /\ acked' <=> ~worker.err
  BY DEF TriggerDone, worker
<1>3. \E job \in {"none", "run"}, w \in {Idle, Reading("run")} :
        /\ th' = [th EXCEPT ![t] = w]
        /\ \/ w = Idle /\ job = "none"
           \/ w = Reading(job) /\ job # "none"
  <2>1. CASE worker.err BY <2>1 DEF TriggerDone, worker
  <2>2. CASE ~worker.err BY <2>2 DEF TriggerDone, worker, Reading
  <2> QED BY <2>1, <2>2
<1>4. PICK job \in {"none", "run"}, w \in {Idle, Reading("run")} :
        /\ th' = [th EXCEPT ![t] = w]
        /\ \/ w = Idle /\ job = "none"
           \/ w = Reading(job) /\ job # "none"
  BY <1>3
<1>5. Still(t, w) /\ w.job # "create"
  <2>1. th[t].pc # "idle" BY <1>2 DEF worker
  <2> QED BY <1>4, <2>1, RestStill
<1>6. \A u \in Thread : th'[u] = IF u = t THEN w ELSE th[u] BY <1>4, OneThread
<1>7. worker' = w BY <1>4, OneThread
<1>8. Live' => Live BY <1>2, <1>5, <1>7 DEF Live
<1>9. clock # 0 BY <1>2, BegunClock, Threads DEF worker
<1>10. ~acked BY <1>2 DEF StartOK
<1>11. ~early' /\ ~acked' => th'["touch"].pc = "idle"
  BY <1>1, <1>6, <1>10, Threads DEF StartOK
<1>12. StillNext
  BY <1>1, <1>2, <1>5, <1>6, <1>7, <1>8, <1>9, <1>11 DEF StillNext
<1> QED BY <1>12, StillInv

LEMMA TouchStartData == ASSUME Inv, DataInv, TouchStart PROVE DataInv'
<1> DEFINE t == "touch"
<1> t \in Thread /\ StartOK BY Threads DEF DataInv
<1>1. UNCHANGED <<world, main, pages, rows, clock, acked, settled, removal,
                  clobbered>>
  BY DEF TouchStart
<1>2. main # None /\ (early' <=> early \/ ~acked) BY DEF TouchStart
<1>3. PICK w : w = Reading("touch") OBVIOUS
<1>4. th' = [th EXCEPT ![t] = w] BY <1>3 DEF TouchStart, Reading
<1>5. Still(t, w) BY <1>2, <1>3, RestStill DEF Begun
<1>6. \A u \in Thread : th'[u] = IF u = t THEN w ELSE th[u] BY <1>4, OneThread
<1>7. worker' = worker BY <1>4, OneThread
<1>8. Live' <=> Live BY <1>1, <1>7 DEF Live
<1>9. clock # 0 BY <1>2, BegunClock
<1>10. worker'.job = "create" => worker.job = "create" /\ ~acked'
  BY <1>1, <1>7 DEF StartOK
<1>11. StillNext
  BY <1>1, <1>2, <1>5, <1>6, <1>7, <1>8, <1>9, <1>10 DEF StillNext
<1> QED BY <1>11, StillInv

LEMMA PickupData == ASSUME Inv, DataInv, NEW r \in Reapers, Pickup(r)
                    PROVE  DataInv'
<1> DEFINE t == "worker"
<1> /\ r \in Thread /\ t \in Thread /\ r # t /\ r # "touch" /\ StartOK
    /\ th = [u \in Thread |-> th[u]] /\ Local(t, th[t])
  BY Types, Threads DEF DataInv
<1>1. UNCHANGED <<world, main, pages, rows, clock, acked, settled, removal,
                  clobbered, early>>
  BY DEF Pickup, history
<1>2. th[r].pc = "ret" BY DEF Pickup
<1>3. CASE th[r].ok /\ ~th[r].err /\ th[t].pc = "idle"
  <2>1. PICK w : w = Reading("run") OBVIOUS
  <2>2. th' = [th EXCEPT ![r] = Idle, ![t] = w]
    BY <1>3, <2>1 DEF Pickup, Reading
  <2>3. \A u \in Thread : th'[u] = IF u = r THEN Idle
                                   ELSE IF u = t THEN w ELSE th[u]
    BY <2>2
  <2>4. Still(r, Idle) BY <1>2, RestStill
  <2>5. Begun BY <1>2 DEF Begun
  <2>6. Still(t, w) /\ w.job # "create" BY <2>1, <2>5, RestStill
  <2>7. worker' = w /\ worker = th[t] /\ worker.job = "none"
    BY <1>3, <2>3 DEF worker, Local
  <2>8. Live' => Live BY <1>1, <2>6, <2>7 DEF Live
  <2>9. clock # 0 BY <1>2, BegunClock
  <2>10. ~early' /\ ~acked' => th'["touch"].pc = "idle"
    BY <1>1, <2>3, Threads DEF StartOK
  <2>11. StillNext
    BY <1>1, <2>3, <2>4, <2>6, <2>7, <2>8, <2>9, <2>10 DEF StillNext
  <2> QED BY <2>11, StillInv
<1>4. CASE ~(th[r].ok /\ ~th[r].err /\ th[t].pc = "idle")
  <2>1. th' = [th EXCEPT ![r] = Idle, ![t] = th[t]] BY <1>4 DEF Pickup
  <2>2. th' = [th EXCEPT ![r] = Idle] BY <2>1
  <2> QED BY <1>1, <1>2, <2>2, ExitData DEF Exit
<1> QED BY <1>3, <1>4

\* A reaper changes the history of the deletion.
LEMMA RemovalData ==
  ASSUME Inv, DataInv, NEW r \in Reapers, NEW w, th' = [th EXCEPT ![r] = w],
         UNCHANGED <<world, main, pages, rows, clock, acked, settled,
                     clobbered, early>>,
         removal # "no" => removal' # "no", Still(r, w),
         main # None \/ th[r].pc # "idle"
  PROVE  DataInv'
<1> /\ r \in Thread /\ r # "worker" /\ r # "touch" /\ StartOK
  BY Threads DEF DataInv
<1>1. \A u \in Thread : th'[u] = IF u = r THEN w ELSE th[u] BY OneThread
<1>2. worker' = worker BY OneThread
<1>3. Live' <=> Live BY <1>2 DEF Live
<1>4. clock # 0 BY BegunClock
<1>5. ~early' /\ ~acked' => th'["touch"].pc = "idle"
  BY <1>1, Threads DEF StartOK
<1>6. worker'.job = "create" => worker.job = "create" /\ ~acked'
  BY <1>2 DEF StartOK
<1>7. StillNext
  BY <1>1, <1>2, <1>3, <1>4, <1>5, <1>6 DEF StillNext
<1> QED BY <1>7, StillInv

LEMMA ReapData == ASSUME Inv, DataInv, NEW r \in Reapers, Reap(r)
                  PROVE  DataInv'
<1> /\ r \in Thread /\ r # "worker" /\ r # "touch" /\ world \in World
  BY Threads, InWorld
<1>1. CASE main.stage # 3 BY <1>1, ReapCallData
<1>2. CASE main.stage = 3
  <2>1. PICK w : w = [Idle EXCEPT !.pc = "delete", !.job = "delete"] OBVIOUS
  <2>2. /\ th' = [th EXCEPT ![r] = w] /\ main # None
        /\ removal' = IF removal = "no" THEN "begun" ELSE removal
        /\ UNCHANGED <<world, main, pages, rows, clock, acked, settled,
                       clobbered, early>>
    BY <1>2, <2>1 DEF Reap
  <2>3. Idle.i = 0 BY DEF Idle
  <2>4. /\ w.pc = "delete" /\ w.job = "delete" /\ w.val = None /\ w.i = 0
    BY <2>1, <2>3, IdleFacts DEF ThreadShape
  <2>5. None \in Record /\ None.stage = 0 /\ None.tasks = <<>>
    BY Sizes DEF None, Record
  <2>6. Local(r, w) BY <2>4, <2>5 DEF Local, Pending
  <2>7. ValOK(r, w) BY <2>4 DEF ValOK
  <2>8. RowLoc(w.val) BY <2>4, <2>5 DEF RowLoc
  <2>9. Still(r, w)
    BY <2>2, <2>4, <2>5, <2>6, <2>7, <2>8 DEF Still, Begun, Pending
  <2> QED BY <2>2, <2>9, RemovalData
<1> QED BY <1>1, <1>2

LEMMA DeleteDoneData == ASSUME Inv, DataInv, NEW r \in Reapers, DeleteDone(r)
                        PROVE  DataInv'
<1> r \in Thread BY Threads
<1>1. th[r].pc = "ret" /\ (removal # "no" => removal' # "no")
  BY DEF DeleteDone
<1>2. Still(r, Idle) BY <1>1, RestStill
<1>3. th' = [th EXCEPT ![r] = Idle]
      /\ UNCHANGED <<world, main, pages, rows, clock, acked, settled,
                     clobbered, early>>
  BY DEF DeleteDone, Exit
<1> QED BY <1>1, <1>2, <1>3, RemovalData

LEMMA StutterData == ASSUME Inv, DataInv, UNCHANGED vars PROVE DataInv'
<1>1. /\ UNCHANGED <<world, main, pages, rows, clock, acked, settled,
                     clobbered, early, removal>>
      /\ th' = th /\ worker' = worker
  BY DEF vars, history, worker
<1>2. Live' <=> Live BY <1>1 DEF Live
<1>3. ~early' /\ ~acked' => th'["touch"].pc = "idle"
  BY <1>1 DEF DataInv, StartOK
<1>4. worker'.job = "create" => worker.job = "create" /\ ~acked'
  BY <1>1 DEF DataInv, StartOK
<1>5. StillNext BY <1>1, <1>2, <1>3, <1>4 DEF StillNext
<1> QED BY <1>5, StillInv

-----------------------------------------------------------------------------
(***************************************************************************)
(* Writing the first page, or the row                                      *)
(***************************************************************************)

\* Thread t writes v, and goes on with w.
Writes(t, w, v) ==
  /\ v = th[t].val /\ Pending(th[t])
  /\ th' = [th EXCEPT ![t] = w] /\ Moved(th[t], w)
  /\ (w.err <=> th[t].err) /\ w.i = th[t].i /\ w.pc = AfterMain(t)
  /\ main' = IF Etcd THEN Split(v).first ELSE Row(v)
  /\ UNCHANGED <<world, pages, rows, clock, acked, settled, removal, early>>
  /\ clobbered => clobbered'
  /\ Sound' => ~Ended

LEMMA NoTasksSplit ==
  ASSUME world \in World, NEW v \in Record, v.tasks = <<>>
  PROVE  /\ Split(v).first.tasks = <<>>
         /\ \A k \in 1 .. Len(Split(v).more) : Split(v).more[k].tasks = <<>>
<1>1. PICK q : q = Split(v) OBVIOUS
<1>2. CASE ~Apart(v)
  <2>1. q.more = <<>> /\ q.first \in {v, Truncated(v)}
    BY <1>1, <1>2, SplitIs
  <2>2. Truncated(v).tasks = v.tasks BY TruncatedFacts
  <2>3. Len(q.more) = 0 BY <2>1
  <2> QED BY <1>1, <2>1, <2>2, <2>3
<1>3. CASE Apart(v)
  <2>1. PICK p \in Nat \ {0} : p = PageBy(v) BY PageByFacts
  <2>2. /\ q.first.tasks = Chunks(v.tasks, p, world.pageSize)[1]
        /\ \A k \in 1 .. Len(q.more) :
             q.more[k].tasks = Chunk(Chunks(v.tasks, p, world.pageSize), k + 1)
    BY <1>1, <1>3, <2>1, ApartFacts
  <2>3. Len(v.tasks) <= p /\ Len(q.more) \in Nat
    BY <1>1, Sizes, SplitTyped
  <2>4. /\ Chunks(v.tasks, p, world.pageSize)[1] = <<>>
        /\ \A k \in Nat \ {0} :
             Chunk(Chunks(v.tasks, p, world.pageSize), k + 1) = <<>>
    BY <2>3, OnePiece
  <2>5. \A k \in 1 .. Len(q.more) : k \in Nat \ {0} BY <2>3
  <2> QED BY <1>1, <2>2, <2>4, <2>5
<1> QED BY <1>2, <1>3

LEMMA RowIs ==
  ASSUME Inv, DataInv, NEW v \in Record, RowLoc(v), v.stage >= 1
  PROVE  /\ Row(v) \in Record /\ Row(v).ver = v.ver /\ Row(v).stage = v.stage
         /\ Row(v).tasks = v.tasks /\ RowLoc(Row(v))
<1>1. world \in World BY InWorld
<1>2. main \in Record /\ RowLoc(main) /\ <<>> \in List
  BY <1>1, Sizes DEF DataInv, SharedOK, RowLocOK
<1>3. main # None => main.stage >= 1 BY Types
<1>4. PICK l \in List : /\ l = IF main = None THEN v.loc ELSE main.loc
                        /\ ~Etcd => l = Comps
  BY <1>2, <1>3 DEF Record, RowLoc
<1>5. Row(v) = [v EXCEPT !.ids = <<>>, !.loc = l] BY <1>4 DEF Row
<1>6. PICK x : x = [v EXCEPT !.ids = <<>>, !.loc = l] OBVIOUS
<1>7. /\ x \in Record /\ x.ver = v.ver /\ x.stage = v.stage
      /\ x.tasks = v.tasks /\ x.loc = l
  BY <1>2, <1>6 DEF Record
<1> QED BY <1>4, <1>5, <1>6, <1>7 DEF RowLoc

LEMMA WritesFacts ==
  ASSUME Inv, DataInv, NEW t \in Thread, NEW w, NEW v, Writes(t, w, v)
  PROVE  /\ v \in Record /\ v.stage \in 1 .. 3 /\ world \in World
         /\ main' \in Record /\ main'.ver = v.ver /\ main'.stage = v.stage
         /\ main' # None /\ RowLoc(main') /\ w.val = v /\ w.job = th[t].job
         /\ w.pc \in {"putpages", "ret"} /\ ~Pending(w)
         /\ w.pc = "ret" /\ Etcd => Split(v).more = <<>>
         /\ v.tasks = <<>> => main'.tasks = <<>>
<1> Local(t, th[t]) /\ ThreadOK(t, th[t]) /\ world \in World
  BY InWorld DEF DataInv, Inv
<1>1. v \in Record /\ v.stage \in 1 .. 3 /\ v.stage >= 1
  BY DEF Writes, Local, ThreadOK, IsThread, IsRecord, LocalOK, Pending
<1>2. RowLoc(v) BY DEF Writes, DataInv, RowLocOK
<1>3. PICK m : m = main' OBVIOUS
<1>4. /\ m \in Record /\ m.ver = v.ver /\ m.stage = v.stage /\ RowLoc(m)
      /\ v.tasks = <<>> => m.tasks = <<>>
  <2>1. CASE Etcd
    <3>1. m = Split(v).first BY <1>3, <2>1 DEF Writes
    <3>2. HasShape(v) BY <1>1 DEF Record, HasShape
    <3> QED BY <1>1, <2>1, <3>1, <3>2, SplitTyped, SplitFacts, NoTasksSplit
            DEF RowLoc
  <2>2. CASE ~Etcd
    <3>1. m = Row(v) BY <1>3, <2>2 DEF Writes
    <3> QED BY <1>1, <1>2, <3>1, RowIs
  <2> QED BY <2>1, <2>2
<1>5. m # None BY <1>1, <1>4, IdleFacts
<1>6. w.val = v /\ w.job = th[t].job BY DEF Writes, Moved
<1>7. w.pc \in {"putpages", "ret"} /\ w.pc = AfterMain(t)
  BY AfterMainFacts DEF Writes
<1>8. w.pc = "ret" /\ Etcd => Split(v).more = <<>>
  BY <1>7 DEF AfterMain, Writes
<1> QED BY <1>1, <1>3, <1>4, <1>5, <1>6, <1>7, <1>8 DEF Pending

LEMMA WritesLocal ==
  ASSUME Inv, DataInv, NEW t \in Thread, NEW w, NEW v, Writes(t, w, v)
  PROVE  /\ Local(t, w) /\ (Cond => ValOK(t, w))
         /\ w.pc = "putpages" => w.i = 1 /\ (Cond => t \notin Reapers)
<1> Local(t, th[t]) /\ LocalOK(t, th[t]) BY DEF DataInv, Inv, ThreadOK
<1>1. w.pc = AfterMain(t) /\ w.pc \in {"putpages", "ret"} /\ Moved(th[t], w)
  BY WritesFacts DEF Writes
<1>2. w.i = 1 BY DEF Local, Writes
<1>3. CASE th[t].pc \in {"put", "tas"}
  <2>1. w.pc = "putpages" => /\ w.i \in 1 .. Len(Split(th[t].val).more)
                             /\ Cond => t \notin Reapers
    BY <1>1, <1>3, AfterMainNext DEF Writes
  <2>2. w.i \in Nat BY <1>2
  <2>3. Local(t, w) /\ (Cond => ValOK(t, w))
    BY <1>1, <1>3, <2>1, <2>2, Advances
  <2> QED BY <1>2, <2>1, <2>3
<1>4. CASE th[t].pc = "upsert"
  <2>1. ~Etcd /\ ~Cond /\ w.pc = "ret"
    BY <1>1, <1>4 DEF LocalOK, Cond, AfterMain
  <2>2. Local(t, w) BY <1>1, <1>2, <1>4, <2>1 DEF Local, Moved, Pending
  <2> QED BY <2>1, <2>2
<1> QED BY <1>3, <1>4 DEF Writes, Pending

\* What becomes of the conditions.
LEMMA WritesConds ==
  ASSUME Inv, DataInv, NEW t \in Thread, NEW w, NEW v, Writes(t, w, v)
  PROVE  /\ Live' <=> Live
         /\ Kept' => Kept
         /\ Clean' => Clean /\ ~Ended
         /\ Ending' => Ending /\ ~Ended
         /\ Cond' => Cond /\ v.stage < 3
         /\ Etcd => ~Ended
         /\ ~Ended' => v.stage < 3
<1>1. /\ UNCHANGED <<world, pages, rows, clock, acked, settled, removal,
                     early>>
      /\ (clobbered => clobbered') /\ (Sound' => ~Ended)
      /\ th' = [th EXCEPT ![t] = w] /\ (w.err <=> th[t].err)
  BY DEF Writes
<1>2. /\ main'.stage = v.stage /\ v.stage \in 1 .. 3 /\ w.job = th[t].job
  BY WritesFacts
<1>3. worker'.job = worker.job /\ (worker'.err <=> worker.err)
  <2>1. CASE t = "worker" BY <1>1, <1>2, <2>1, OneThread DEF worker
  <2>2. CASE t # "worker" BY <1>1, <2>2, OneThread
  <2> QED BY <2>1, <2>2
<1>4. Live' <=> Live BY <1>1, <1>3 DEF Live
<1>5. Kept' => Kept BY <1>1, <1>4, SameWorld DEF Kept
<1>6. Clean' => Clean /\ ~Ended BY <1>1, <1>4 DEF Clean, Sound
<1>7. Ending' => Ending /\ ~Ended
  BY <1>1, <1>6, SameWorld DEF Ending
<1>8. Etcd => ~Ended BY <1>1, SameWorld DEF Sound
<1>9. ~Ended' => v.stage < 3 BY <1>2 DEF Ended
<1>10. Cond' => Cond /\ v.stage < 3
  BY <1>1, <1>5, <1>8, <1>9, SameWorld DEF Cond
<1> QED BY <1>4, <1>5, <1>6, <1>7, <1>8, <1>9, <1>10

\* A version that is being written is not the one that any thread stores
\* pages of, except its writer.
LEMMA WritesVer ==
  ASSUME Inv, DataInv, NEW t \in Thread, NEW w, NEW v, Writes(t, w, v)
  PROVE  VerOK'
<1>1. /\ th' = [th EXCEPT ![t] = w] /\ Pending(th[t]) /\ v = th[t].val
  BY DEF Writes
<1>2. /\ main'.ver = v.ver /\ main'.stage = v.stage /\ w.val = v
      /\ ~Pending(w)
  BY WritesFacts
<1>3. \A u \in Thread : th'[u] = IF u = t THEN w ELSE th[u]
  BY <1>1, OneThread
<1>4. ASSUME NEW u \in Thread, th'[u].pc = "putpages",
             th'[u].val.ver = main'.ver
      PROVE  th'[u].val.stage = main'.stage
  <2>1. CASE u = t BY <1>2, <1>3, <2>1
  <2>2. CASE u # t
    <3>1. th[t].val.ver # th[u].val.ver
      BY <1>1, <1>3, <1>4, <2>2 DEF DataInv, VerOK
    <3> QED BY <1>1, <1>2, <1>3, <1>4, <2>2, <3>1
  <2> QED BY <2>1, <2>2
<1>5. ASSUME NEW u \in Thread, th'[u].pc = "putpages",
             NEW x \in Thread, Pending(th'[x])
      PROVE  th'[x].val.ver # th'[u].val.ver
  <2>1. x # t /\ th'[x] = th[x] BY <1>2, <1>3, <1>5
  <2>2. CASE u = t
    BY <1>1, <1>2, <1>3, <1>5, <2>1, <2>2 DEF Inv, UniqueOK
  <2>3. CASE u # t
    BY <1>3, <1>5, <2>1, <2>3 DEF DataInv, VerOK
  <2> QED BY <2>2, <2>3
<1> QED BY <1>4, <1>5 DEF VerOK, Pending

\* What every step of a thread does to the local parts.
LEMMA LocalNext ==
  ASSUME Inv, DataInv, world' = world, NEW t \in Thread, NEW w,
         th' = [th EXCEPT ![t] = w], Local(t, w), RowLoc(w.val), RowLoc(main')
  PROVE  RowLocOK' /\ \A u \in Thread : Local(u, th[u])'
<1>1. \A u \in Thread : th'[u] = IF u = t THEN w ELSE th[u] BY OneThread
<1>2. ASSUME NEW u \in Thread PROVE Local(u, th[u])' /\ RowLoc(th[u].val)'
  <2>1. PICK x : x = th'[u] OBVIOUS
  <2>2. Local(u, x) /\ RowLoc(x.val)
    BY <1>1, <2>1 DEF DataInv, RowLocOK
  <2>3. Local(u, x)' /\ RowLoc(x.val)' BY <2>2, SameThread
  <2> QED BY <2>1, <2>3
<1>3. RowLoc(main)' BY SameWorld DEF RowLoc
<1> QED BY <1>2, <1>3 DEF RowLocOK

LEMMA WritesStart ==
  ASSUME Inv, DataInv, NEW t \in Thread, NEW w, NEW v, Writes(t, w, v)
  PROVE  /\ StartOK' /\ SharedOK' /\ RowsOK' /\ FinalOK' /\ AllTasksOK'
         /\ RowLocOK' /\ \A u \in Thread : Local(u, th[u])'
<1>1. /\ UNCHANGED <<world, pages, rows, clock, acked, settled, removal,
                     early>>
      /\ th' = [th EXCEPT ![t] = w] /\ v = th[t].val /\ Pending(th[t])
  BY DEF Writes
<1>2. /\ main' \in Record /\ main'.stage = v.stage /\ w.val = v
      /\ RowLoc(main') /\ w.job = th[t].job /\ w.pc \in {"putpages", "ret"}
  BY WritesFacts
<1>3. StartOK /\ "touch" \in Thread /\ "worker" \in Thread
  BY Threads DEF DataInv
<1>4. \A u \in Thread : th'[u] = IF u = t THEN w ELSE th[u]
  BY <1>1, OneThread
<1>5. th[t].pc # "idle" BY <1>1 DEF Pending
<1>6. clock # 0 BY <1>5, BegunClock
<1>7. worker'.job = worker.job /\ worker'.val = worker.val
      /\ \/ worker' = worker /\ t # "worker"
         \/ worker' = w /\ t = "worker"
  <2>1. CASE t = "worker"
    BY <1>1, <1>2, <2>1, OneThread DEF worker
  <2>2. CASE t # "worker" BY <1>1, <2>2, OneThread
  <2> QED BY <2>1, <2>2
<1>8. StartOK'
  <2>1. ~(worker'.job = "create" /\ worker'.pc = "put")
    BY <1>2, <1>3, <1>5, <1>7 DEF StartOK
  <2>2. ~early' /\ ~acked' => th'["touch"].pc = "idle"
    BY <1>1, <1>3, <1>4, <1>5 DEF StartOK
  <2>3. worker'.job = "create" => ~acked' /\ ~settled' /\ rows' = {}
    BY <1>1, <1>3, <1>7 DEF StartOK
  <2> QED BY <1>1, <1>6, <2>1, <2>2, <2>3 DEF StartOK
<1>9. SharedOK' BY <1>1, <1>2, SameWorld DEF DataInv, SharedOK
<1>10. RowsOK'
  <2>1. Kept' => Kept BY WritesConds
  <2>2. worker'.pc # "regets" \/ worker' = worker BY <1>2, <1>7
  <2> QED BY <1>1, <1>7, <2>1, <2>2 DEF DataInv, RowsOK
<1>11. FinalOK'
  <2> SUFFICES ASSUME Etcd', worker'.job = "final", ~worker'.err,
                      worker'.pc \in {"putpages", "ret"}
               PROVE  Ended'
    BY DEF FinalOK
  <2>1. ~Ended /\ Etcd BY <1>1, SameWorld, WritesConds
  <2>2. CASE worker' = worker BY <2>1, <2>2 DEF DataInv, FinalOK
  <2>3. CASE worker' = w /\ t = "worker"
    <3>1. Local(t, th[t]) BY DEF DataInv
    <3> QED BY <1>1, <1>2, <2>3, <3>1 DEF Local, Ended
  <2> QED BY <1>7, <2>2, <2>3
<1>12. AllTasksOK'
  <2>1. Clean' => Clean BY WritesConds
  <2> QED BY <1>1, <1>7, <2>1, SameWorld DEF DataInv, AllTasksOK
<1>13. RowLoc(w.val) BY <1>1, <1>2 DEF DataInv, RowLocOK
<1>14. RowLocOK' /\ \A u \in Thread : Local(u, th[u])'
  BY <1>1, <1>2, <1>13, WritesLocal, LocalNext
<1> QED BY <1>8, <1>9, <1>10, <1>11, <1>12, <1>14

\* The first page and the pages stay those of one record.
LEMMA WritesLaid ==
  ASSUME Inv, DataInv, NEW t \in Thread, NEW w, NEW v, Writes(t, w, v),
         Cond, v.stage < 3
  PROVE  First(main') /\ \A k \in 1 .. MaxPage : PageOK(k)'
<1>1. /\ UNCHANGED <<world, pages>> /\ th' = [th EXCEPT ![t] = w]
      /\ v = th[t].val /\ Pending(th[t])
  BY DEF Writes
<1>2. /\ v \in Record /\ v.stage \in {1, 2} /\ world \in World /\ Etcd
      /\ w.pc \in {"putpages", "ret"} /\ w.job = th[t].job
      /\ w.pc = "ret" => Split(v).more = <<>>
  BY WritesFacts DEF Cond
<1>3. main' = Split(v).first BY <1>2 DEF Writes
<1>4. v.stage = 1 \/ SameCut \/ SameCutBefore
  BY <1>1, <1>2, CondStage
<1>5. ValOK(t, th[t]) /\ Laid BY DEF DataInv, CondOK
<1>6. th[t].pc \in {"put", "tas"} /\ LocalOK(t, th[t])
  BY <1>1, <1>2 DEF Pending, Inv, ThreadOK, LocalOK
<1>7. CASE t \in Reapers
  <2>1. t # "worker" /\ th[t].pc = "tas"
    BY <1>6, <1>7, Threads DEF LocalOK
  <2>2. First(v) BY <1>1, <1>5, <1>7, <2>1 DEF ValOK
  <2>3. First(main') BY <1>2, <1>3, <1>4, <2>2, FirstPlain
  <2>4. worker' = worker BY <1>1, <2>1, OneThread
  <2>5. ASSUME NEW k \in 1 .. MaxPage PROVE PageOK(k)'
    <3>1. PICK page : page = pages[k] OBVIOUS
    <3>2. LaidOut(page, k)' <=> LaidOut(page, k) BY <1>1, SamePage
    <3>3. PageOK(k) BY <1>5 DEF Laid
    <3> QED BY <1>1, <2>4, <3>1, <3>2, <3>3 DEF PageOK, Upcoming, NoPage
  <2> QED BY <2>3, <2>5
<1>8. CASE t \in {"worker", "touch"}
  <2>1. Regular(v) BY <1>1, <1>5, <1>6, <1>8 DEF ValOK
  <2>2. PICK q : q = Split(v) OBVIOUS
  <2>3. First(q.first)
        /\ \A k \in Nat : k > Len(q.more) => PageLoc(k) = <<>>
    BY <1>2, <1>4, <2>1, <2>2, RegularSplit
  <2>4. ASSUME NEW k \in 1 .. MaxPage PROVE PageOK(k)'
    <3>1. PICK page : page = pages[k] OBVIOUS
    <3>2. LaidOut(page, k)' <=> LaidOut(page, k) BY <1>1, SamePage
    <3>3. PageOK(k) /\ k \in Nat \ {0} BY <1>2, <1>5, Sizes DEF Laid
    <3>4. CASE t = "worker" /\ th[t].job = "create"
      <4>1. worker' = w /\ worker = th[t] BY <1>1, <3>4, OneThread DEF worker
      <4>2. th[t].pc = "put"
        BY <1>6, <3>4 DEF DataInv, Local
      <4>3. page = NoPage
        BY <3>1, <3>4, <4>1, <4>2 DEF DataInv, StartOK, Pristine
      <4>4. CASE w.pc = "putpages"
        <5>1. w.i = 1 BY <4>4, WritesLocal
        <5>2. Upcoming(k)' BY <1>2, <3>3, <3>4, <4>1, <4>4, <5>1 DEF Upcoming
        <5> QED BY <1>1, <3>1, <4>3, <5>2 DEF PageOK, NoPage
      <4>5. CASE w.pc = "ret"
        <5>1. q.more = <<>> BY <1>2, <2>2, <4>5
        <5>2. Len(q.more) = 0 BY <5>1
        <5>3. PageLoc(k) = <<>> BY <2>3, <3>3, <5>2
        <5>4. LaidOut(page, k) BY <4>3, <5>3 DEF LaidOut, NoPage
        <5>5. ~Upcoming(k)' BY <4>1, <4>5 DEF Upcoming
        <5> QED BY <1>1, <3>1, <3>2, <5>4, <5>5 DEF PageOK
      <4> QED BY <1>2, <4>4, <4>5
    <3>5. CASE ~(t = "worker" /\ th[t].job = "create")
      <4>1. Upcoming(k)' <=> Upcoming(k)
        <5>1. CASE t = "worker"
          <6>1. worker' = w /\ worker = th[t] BY <1>1, <5>1, OneThread
                DEF worker
          <6> QED BY <1>2, <3>5, <5>1, <6>1 DEF Upcoming
        <5>2. CASE t # "worker"
          <6>1. worker' = worker BY <1>1, <5>2, OneThread
          <6> QED BY <6>1 DEF Upcoming
        <5> QED BY <5>1, <5>2
      <4> QED BY <1>1, <3>1, <3>2, <3>3, <4>1 DEF PageOK, NoPage
    <3> QED BY <3>4, <3>5
  <2> QED BY <1>3, <2>2, <2>3, <2>4
<1> QED BY <1>7, <1>8 DEF Thread

LEMMA WritesCond ==
  ASSUME Inv, DataInv, NEW t \in Thread, NEW w, NEW v, Writes(t, w, v)
  PROVE  CondOK'
<1> SUFFICES ASSUME Cond'
             PROVE  Laid' /\ NewOK' /\ \A u \in Thread : ValOK(u, th[u])'
  BY DEF CondOK
<1>1. Cond /\ v.stage < 3 BY WritesConds
<1>2. /\ UNCHANGED <<world, pages, rows>> /\ th' = [th EXCEPT ![t] = w]
      /\ v = th[t].val
  BY DEF Writes
<1>3. main' # None /\ main'.stage = v.stage /\ w.val = v BY WritesFacts
<1>4. \A u \in Thread : th'[u] = IF u = t THEN w ELSE th[u]
  BY <1>2, OneThread
<1>5. NewOK /\ \A u \in Thread : ValOK(u, th[u])
  BY <1>1 DEF DataInv, CondOK
<1>6. Laid'
  <2>1. First(main') /\ \A k \in 1 .. MaxPage : PageOK(k)'
    BY <1>1, WritesLaid
  <2>2. First(main)'
    <3>1. PICK m : m = main' OBVIOUS
    <3>2. First(m)' <=> First(m) BY <1>2, SameVersion
    <3> QED BY <2>1, <3>1, <3>2
  <2>3. (main # None)' BY <1>3 DEF None
  <2> QED BY <1>2, <2>1, <2>2, <2>3, SameWorld DEF Laid
<1>7. NewOK' BY <1>2, <1>3, <1>4, <1>5 DEF NewOK
<1>8. ASSUME NEW u \in Thread PROVE ValOK(u, th[u])'
  <2>1. PICK x : x = th'[u] OBVIOUS
  <2>2. ValOK(t, w) BY <1>1, WritesLocal
  <2>3. ValOK(u, x) BY <1>4, <1>5, <2>1, <2>2
  <2>4. ValOK(u, x)' BY <1>2, <2>3, SameThread
  <2> QED BY <2>1, <2>4
<1> QED BY <1>6, <1>7, <1>8

\* The final version that the worker has in its hands can be read again.
LEMMA StoredComplete ==
  ASSUME Inv, DataInv, Ending, ~Ended, worker.job = "final", worker.pc = "put"
  PROVE  Complete(worker.val) /\ worker.val.tasks = Comps
<1> DEFINE t == "worker"
<1> /\ t \in Thread /\ Local(t, th[t]) /\ world \in World
  BY Threads, InWorld DEF DataInv
<1>1. PICK v \in Record : v = worker.val BY DEF Local, worker
<1>2. v.stage = 3 BY <1>1 DEF Local, worker
<1>3. Clean /\ ~HalfPages BY DEF Ending
<1>4. v.tasks = Comps BY <1>1, <1>3 DEF DataInv, AllTasksOK
<1>5. CASE Etcd
  <2>1. ASSUME SameCut PROVE Regular(v)
    <3>1. Cond BY <1>3, <1>5, <2>1 DEF Cond, Kept, Clean
    <3>2. ValOK(t, th[t]) BY <3>1 DEF DataInv, CondOK
    <3> QED BY <1>1, <3>2 DEF ValOK, worker
  <2>2. Complete(v) BY <1>2, <1>3, <1>4, <1>5, <2>1, FinalComplete
  <2> QED BY <1>1, <1>4, <2>2
<1>6. CASE ~Etcd
  <2>1. MaxPage \in Nat \ {0} /\ Comps \in List BY Sizes
  <2>2. PICK ss : ss = [k \in 1 .. MaxPage |-> TaskPage(v, k)] OBVIOUS
  <2>3. ss = [k \in 1 .. MaxPage |-> ss[k]]
        /\ \A k \in 1 .. MaxPage : ss[k] = <<>>
    BY <1>6, <2>2 DEF TaskPage
  <2>4. FlattenSeq(ss) = <<>> BY <2>1, <2>3, FlattenNothing
  <2>5. Comps \o <<>> = Comps BY <2>1 DEF List
  <2>6. Complete(v) BY <1>4, <1>6, <2>2, <2>4, <2>5 DEF Complete, FirstTasks
  <2> QED BY <1>1, <1>4, <2>6
<1> QED BY <1>5, <1>6

LEMMA WritesTasks ==
  ASSUME Inv, DataInv, NEW t \in Thread, NEW w, NEW v, Writes(t, w, v)
  PROVE  NoTasksOK' /\ StoringOK' /\ SettledOK'
<1>1. /\ UNCHANGED <<world, pages, rows, clock, acked, settled, removal,
                     early>>
      /\ th' = [th EXCEPT ![t] = w] /\ v = th[t].val /\ Pending(th[t])
      /\ main' = IF Etcd THEN Split(v).first ELSE Row(v)
  BY DEF Writes
<1>2. /\ v \in Record /\ main'.stage = v.stage /\ w.val = v
      /\ world \in World /\ w.job = th[t].job /\ w.pc \in {"putpages", "ret"}
      /\ w.pc = "ret" /\ Etcd => Split(v).more = <<>>
      /\ v.tasks = <<>> => main'.tasks = <<>>
  BY WritesFacts
<1>3. \A u \in Thread : th'[u] = IF u = t THEN w ELSE th[u]
  BY <1>1, OneThread
<1>4. NoTasksOK'
  <2> SUFFICES ASSUME Clean', ~Ended'
               PROVE  /\ main'.tasks = <<>>
                      /\ \A k \in 1 .. MaxPage' : pages'[k].tasks = <<>>
                      /\ \A u \in Thread :
                           th'[u].val.stage < 3 => th'[u].val.tasks = <<>>
    BY DEF NoTasksOK
  <2>1. Clean /\ ~Ended /\ v.stage < 3 BY WritesConds
  <2>2. /\ \A k \in 1 .. MaxPage : pages[k].tasks = <<>>
        /\ \A u \in Thread : th[u].val.stage < 3 => th[u].val.tasks = <<>>
    BY <2>1 DEF DataInv, NoTasksOK
  <2>3. v.tasks = <<>> BY <1>1, <2>1, <2>2
  <2> QED BY <1>1, <1>2, <1>3, <2>2, <2>3, SameWorld
<1>5. StoringOK'
  <2> SUFFICES
        ASSUME Ending', worker'.job = "final", ~worker'.err,
               worker'.pc \in {"putpages", "ret"}
        PROVE  /\ main'.stage = 3 /\ main'.tasks = FirstTasks(worker.val)'
               /\ Complete(worker.val)'
               /\ \A k \in 1 .. MaxPage' :
                    pages'[k].tasks = IF worker'.pc = "putpages"
                                         /\ k >= worker'.i
                                        THEN <<>> ELSE TaskPage(worker.val, k)'
    BY DEF StoringOK
  <2>1. Ending /\ ~Ended BY WritesConds
  <2>2. ASSUME t # "worker" PROVE FALSE
    <3>1. worker' = worker BY <1>1, <2>2, OneThread
    <3>2. main.stage = 3 BY <2>1, <3>1 DEF DataInv, StoringOK
    <3> QED BY <2>1, <3>2 DEF Ended
  <2>3. worker' = w /\ worker = th[t] BY <1>1, <2>2, OneThread DEF worker
  <2>4. worker.job = "final" /\ worker.pc = "put" /\ v.stage = 3
    <3>1. Local(t, th[t]) BY DEF DataInv
    <3> QED BY <1>1, <1>2, <2>3, <3>1 DEF Local, Pending
  <2>5. Complete(v) /\ v.tasks = Comps
    BY <1>1, <2>1, <2>3, <2>4, StoredComplete
  <2>6. \A k \in 1 .. MaxPage : pages[k].tasks = <<>>
    BY <2>1 DEF DataInv, NoTasksOK, Ending
  <2>7. /\ FirstTasks(v)' = FirstTasks(v) /\ (Complete(v)' <=> Complete(v))
        /\ \A k : TaskPage(v, k)' = TaskPage(v, k)
    BY <1>1, SameVersion, SameComplete
  <2>8. /\ FirstTasks(worker.val)' = FirstTasks(v)
        /\ (Complete(worker.val)' <=> Complete(v))
        /\ \A k : TaskPage(worker.val, k)' = TaskPage(v, k)
    BY <1>2, <2>3, <2>7
  <2>9. main'.tasks = FirstTasks(v)
    <3>1. CASE Etcd BY <1>1, <3>1 DEF FirstTasks
    <3>2. CASE ~Etcd
      <4>1. RowLoc(v) BY <1>1 DEF DataInv, RowLocOK
      <4>2. Row(v).tasks = v.tasks BY <1>2, <2>4, <4>1, RowIs
      <4> QED BY <1>1, <3>2, <4>2 DEF FirstTasks
    <3> QED BY <3>1, <3>2
  <2>10. w.pc = "putpages" => w.i = 1 BY WritesLocal
  <2>11. ASSUME w.pc = "ret", NEW k \in 1 .. MaxPage
         PROVE  TaskPage(v, k) = <<>>
    <3>1. Etcd => Len(Split(v).more) = 0 BY <1>2, <2>11
    <3>2. k \in Nat \ {0} BY <1>2, Sizes
    <3> QED BY <3>1, <3>2 DEF TaskPage
  <2>12. \A k \in 1 .. MaxPage : k >= 1 BY <1>2, Sizes
  <2>13. \A k \in 1 .. MaxPage :
           pages[k].tasks = IF w.pc = "putpages" /\ k >= w.i
                              THEN <<>> ELSE TaskPage(v, k)
    BY <1>2, <2>6, <2>10, <2>11, <2>12
  <2> QED BY <1>1, <1>2, <2>3, <2>4, <2>5, <2>8, <2>9, <2>13, SameWorld
<1>6. SettledOK'
  <2>1. Ending' => Ending /\ ~Ended BY WritesConds
  <2>2. Ending /\ settled => Ended BY DEF DataInv, SettledOK, Ended
  <2> QED BY <1>1, <2>1, <2>2 DEF SettledOK
<1> QED BY <1>4, <1>5, <1>6

LEMMA WritesData ==
  ASSUME Inv, DataInv, NEW t \in Thread, NEW w, NEW v, Writes(t, w, v)
  PROVE  DataInv'
BY WritesStart, WritesVer, WritesCond, WritesTasks DEF DataInv

LEMMA PutData ==
  ASSUME Inv, DataInv, NEW t \in Thread, PutMain(t) PROVE DataInv'
<1> /\ th = [u \in Thread |-> th[u]] /\ ThreadOK(t, th[t])
    /\ ThreadShape(th[t])
  BY Types
<1>1. PICK w, v, p : w = th'[t] /\ v = th[t].val /\ p = AfterMain(t) OBVIOUS
<1>2. th' = [th EXCEPT ![t].pc = p, ![t].ok = TRUE]
  BY <1>1 DEF PutMain
<1>3. /\ th' = [th EXCEPT ![t] = w] /\ Moved(th[t], w) /\ w.pc = p
      /\ (w.err <=> th[t].err) /\ w.i = th[t].i
  BY <1>1, <1>2 DEF Moved, ThreadShape
<1>4. th[t].pc = "put" /\ t = "worker" BY DEF PutMain, ThreadOK, LocalOK
<1>5. UNCHANGED <<world, pages, rows, clock, acked, settled, removal, early,
                  clobbered>>
  BY DEF PutMain, history
<1>6. main' = IF Etcd THEN Split(v).first ELSE Row(v)
  BY <1>1 DEF PutMain
<1>7. Sound' => ~Ended
  BY <1>4, <1>5, SameWorld DEF ThreadOK, EndedOK, Sound
<1>8. Writes(t, w, v)
  BY <1>1, <1>3, <1>4, <1>5, <1>6, <1>7 DEF Writes, Pending
<1> QED BY <1>8, WritesData

LEMMA TASData ==
  ASSUME Inv, DataInv, NEW t \in Thread, TAS(t) PROVE DataInv'
<1> /\ th = [u \in Thread |-> th[u]] /\ ThreadOK(t, th[t])
    /\ ThreadShape(th[t])
  BY Types
<1>1. CASE main # th[t].test BY <1>1, TASMissData
<1>2. CASE main = th[t].test
  <2>1. PICK w, v, p : w = th'[t] /\ v = th[t].val /\ p = AfterMain(t) OBVIOUS
  <2>2. PICK o : th' = [th EXCEPT ![t].pc = p, ![t].ok = o]
    BY <2>1 DEF TAS
  <2>3. /\ th' = [th EXCEPT ![t] = w] /\ Moved(th[t], w) /\ w.pc = p
        /\ (w.err <=> th[t].err) /\ w.i = th[t].i
    BY <2>1, <2>2 DEF Moved, ThreadShape
  <2>4. /\ th[t].pc = "tas" /\ Etcd
        /\ Sound => th[t].test.stage \in {1, 2}
    BY DEF TAS, ThreadOK, EndedOK
  <2>5. UNCHANGED <<world, pages, rows, clock, acked, settled, removal, early,
                    clobbered>>
    BY DEF TAS
  <2>6. main' = IF Etcd THEN Split(v).first ELSE Row(v)
    BY <1>2, <2>1, <2>4 DEF TAS
  <2>7. Sound' => ~Ended
    BY <1>2, <2>4, <2>5, IdleFacts DEF Inv, RecordOK, Sound
  <2>8. Writes(t, w, v)
    BY <2>1, <2>3, <2>4, <2>5, <2>6, <2>7 DEF Writes, Pending
  <2> QED BY <2>8, WritesData
<1> QED BY <1>1, <1>2

LEMMA UpsertData ==
  ASSUME Inv, DataInv, NEW t \in Thread, TASUpsert(t) PROVE DataInv'
<1> /\ th = [u \in Thread |-> th[u]] /\ ThreadOK(t, th[t])
    /\ ThreadShape(th[t])
  BY Types
<1>1. PICK w, v : w = th'[t] /\ v = th[t].val OBVIOUS
<1>2. th' = [th EXCEPT ![t].pc = "ret", ![t].ok = TRUE] BY DEF TASUpsert
<1>3. /\ th' = [th EXCEPT ![t] = w] /\ Moved(th[t], w) /\ w.pc = "ret"
      /\ (w.err <=> th[t].err) /\ w.i = th[t].i
  BY <1>1, <1>2 DEF Moved, ThreadShape
<1>4. /\ th[t].pc = "upsert" /\ ~Etcd /\ th[t].test.ver >= 1
      /\ Sound => th[t].test.stage \in {1, 2}
  BY DEF TASUpsert, ThreadOK, LocalOK, EndedOK
<1>5. UNCHANGED <<world, pages, rows, clock, acked, settled, removal, early>>
  BY DEF TASUpsert
<1>6. main' = IF Etcd THEN Split(v).first ELSE Row(v)
  BY <1>1, <1>4 DEF TASUpsert
<1>7. clobbered' = (clobbered \/ main.ver # th[t].test.ver) BY DEF TASUpsert
<1>8. clobbered => clobbered' BY <1>7
<1>9. ASSUME Sound' PROVE ~Ended
  <2>1. ~clobbered /\ main.ver = th[t].test.ver
    BY <1>4, <1>5, <1>7, <1>9, SameWorld DEF Sound
  <2>2. main # None /\ main.stage # 3
    BY <1>4, <2>1, IdleFacts DEF ThreadOK, EndedOK, Sound
  <2> QED BY <2>1, <2>2 DEF Inv, RecordOK, Sound, Ended
<1>10. w.pc = AfterMain(t) BY <1>3, <1>4 DEF AfterMain
<1>11. Writes(t, w, v)
  BY <1>1, <1>3, <1>4, <1>5, <1>6, <1>8, <1>9, <1>10 DEF Writes, Pending
<1> QED BY <1>11, WritesData

-----------------------------------------------------------------------------
(***************************************************************************)
(* Deleting                                                                *)
(***************************************************************************)
LEMMA RemovingData ==
  ASSUME Inv, DataInv, NEW t \in Thread, NEW w, th' = [th EXCEPT ![t] = w],
         Moved(th[t], w), w.pc \in {"list", "delpages", "ret"},
         th[t].pc \in {"delete", "delpages"}, w.i = th[t].i,
         main' \in {main, None}, pages' \in [1 .. MaxPage -> Page],
         UNCHANGED <<world, rows, clock, acked, settled, removal, early,
                     clobbered>>
  PROVE  DataInv'
<1>1. LocalOK(t, th[t]) /\ Local(t, th[t]) /\ world \in World
  BY InWorld DEF DataInv, Inv, ThreadOK
<1>2. /\ w.job = "delete" /\ t # "worker" /\ removal' # "no"
      /\ w.val = th[t].val
  BY <1>1 DEF LocalOK, Moved
<1>3. worker' = worker BY <1>2, OneThread
<1>4. \A u \in Thread : th'[u] = IF u = t THEN w ELSE th[u] BY OneThread
<1>5. Ended' /\ ~Cond' /\ ~Ending' BY <1>2 DEF Ended, Cond, Ending
<1>6. Live' <=> Live BY <1>3 DEF Live
<1>7. SharedOK'
  <2>1. None \in Record BY <1>1, Sizes DEF None, Record
  <2> QED BY <2>1, SameWorld DEF DataInv, SharedOK
<1>8. StartOK'
  <2>1. clock # 0 BY BegunClock
  <2>2. ~(worker.job = "create" /\ worker.pc = "put")
    BY <1>2 DEF DataInv, StartOK
  <2>3. ~early' /\ ~acked' => th'["touch"].pc = "idle"
    BY <1>4, Threads DEF DataInv, StartOK
  <2> QED BY <1>3, <2>1, <2>2, <2>3 DEF DataInv, StartOK
<1>9. RowsOK'
  <2>1. Kept' => Kept BY <1>6, SameWorld DEF Kept
  <2> QED BY <1>3, <2>1 DEF DataInv, RowsOK
<1>10. VerOK'
  <2>1. ASSUME NEW u \in Thread, th'[u].pc = "putpages"
        PROVE  /\ th'[u].val.ver = main'.ver => th'[u].val.stage = main'.stage
               /\ \A x \in Thread : Pending(th'[x]) =>
                    th'[x].val.ver # th'[u].val.ver
    <3>1. u # t /\ th'[u] = th[u] BY <1>4, <2>1
    <3>2. th[u].val.ver >= 1 BY <2>1, <3>1 DEF Inv, ThreadOK, LocalOK
    <3>3. main' = main \/ main'.ver = 0 BY IdleFacts
    <3>4. \A x \in Thread : Pending(th'[x]) => th'[x] = th[x]
      BY <1>4 DEF Pending
    <3> QED BY <2>1, <3>1, <3>2, <3>3, <3>4 DEF DataInv, VerOK
  <2> QED BY <2>1 DEF VerOK, Pending
<1>11. Local(t, w) BY <1>1, <1>2 DEF Local, Moved, Pending
<1>12. RowLoc(main') /\ RowLoc(w.val)
  <2>1. RowLoc(None) BY IdleFacts DEF RowLoc
  <2> QED BY <1>2, <2>1 DEF DataInv, RowLocOK
<1>13. RowLocOK' /\ \A u \in Thread : Local(u, th[u])'
  BY <1>11, <1>12, LocalNext
<1>14. AllTasksOK'
  <2>1. Clean' => Clean BY <1>6 DEF Clean
  <2> QED BY <1>3, <2>1, SameWorld DEF DataInv, AllTasksOK
<1>15. FinalOK' /\ CondOK' /\ NoTasksOK' /\ StoringOK' /\ SettledOK'
  BY <1>5 DEF FinalOK, CondOK, NoTasksOK, StoringOK, SettledOK
<1> QED BY <1>7, <1>8, <1>9, <1>10, <1>13, <1>14, <1>15 DEF DataInv

LEMMA DeleteData ==
  ASSUME Inv, DataInv, NEW t \in Thread, DeleteMain(t) \/ DeletePage(t)
  PROVE  DataInv'
<1> /\ th = [u \in Thread |-> th[u]] /\ ThreadShape(th[t]) /\ world \in World
    /\ pages \in [1 .. MaxPage -> Page]
  BY Types, InWorld DEF DataInv, SharedOK
<1>1. PICK w : w = th'[t] OBVIOUS
<1>2. CASE DeleteMain(t)
  <2>1. PICK p \in {"list", "ret"} : th' = [th EXCEPT ![t].pc = p]
    BY <1>2 DEF DeleteMain
  <2>2. /\ th' = [th EXCEPT ![t] = w] /\ Moved(th[t], w) /\ w.pc = p
        /\ w.i = th[t].i
    BY <1>1, <2>1 DEF Moved, ThreadShape
  <2>3. /\ th[t].pc = "delete" /\ main' = None
        /\ UNCHANGED <<world, pages, rows, clock, acked, settled, removal,
                       early, clobbered>>
    BY <1>2 DEF DeleteMain, history
  <2> QED BY <2>1, <2>2, <2>3, RemovingData
<1>3. CASE DeletePage(t)
  <2>1. PICK k : pages' = [pages EXCEPT ![k] = NoPage] /\ PageGone(t, k, FALSE)
    BY <1>3 DEF DeletePage
  <2>2. PICK p \in {"delpages", "ret"} :
          th' = [th EXCEPT ![t].left = @ \ {k}, ![t].err = @ \/ FALSE,
                           ![t].pc = p]
    BY <2>1 DEF PageGone
  <2>3. /\ th' = [th EXCEPT ![t] = w] /\ Moved(th[t], w) /\ w.pc = p
        /\ w.i = th[t].i
    BY <1>1, <2>2 DEF Moved, ThreadShape
  <2>4. /\ th[t].pc = "delpages"
        /\ UNCHANGED <<world, main, rows, clock, acked, settled, removal,
                       early, clobbered>>
    BY <1>3 DEF DeletePage, history
  <2>5. NoPage \in Page BY Sizes DEF NoPage, Page
  <2>6. pages' \in [1 .. MaxPage -> Page] BY <2>1, <2>5
  <2> QED BY <2>2, <2>3, <2>4, <2>6, RemovingData
<1> QED BY <1>2, <1>3

-----------------------------------------------------------------------------
(***************************************************************************)
(* Writing a page                                                          *)
(***************************************************************************)

\* Thread t writes page i of v, and goes on with w.
Adds(t, w, v, i, page) ==
  /\ th[t].pc = "putpages" /\ v = th[t].val /\ i = th[t].i
  /\ page = Split(v).more[i]
  /\ th' = [th EXCEPT ![t] = w] /\ Moved(th[t], w)
  /\ (w.err <=> th[t].err) /\ w.i = i + 1
  /\ w.pc = IF i = Len(Split(v).more) THEN "ret" ELSE "putpages"
  /\ pages' = [pages EXCEPT ![i] = page]
  /\ clobbered' <=> clobbered \/ main.ver # v.ver
  /\ UNCHANGED <<world, main, rows, clock, acked, settled, removal, early>>

LEMMA AddsFacts ==
  ASSUME Inv, DataInv, NEW t \in Thread, NEW w, NEW v, NEW i, NEW page,
         Adds(t, w, v, i, page)
  PROVE  /\ v \in Record /\ v.stage \in 1 .. 3 /\ Etcd /\ world \in World
         /\ Len(Split(v).more) \in Nat /\ i \in 1 .. Len(Split(v).more)
         /\ page \in Page /\ w.val = v /\ w.job = th[t].job
         /\ w.pc \in {"putpages", "ret"} /\ ~Pending(w)
         /\ Local(t, w) /\ (Cond => ValOK(t, w) /\ t \notin Reapers)
         /\ pages' \in [1 .. MaxPage -> Page]
         /\ \A k \in 1 .. MaxPage :
              pages'[k] = IF k = i THEN page ELSE pages[k]
<1> Local(t, th[t]) /\ ThreadOK(t, th[t]) /\ world \in World
  BY InWorld DEF DataInv, Inv
<1>1. th[t].pc = "putpages" /\ v = th[t].val /\ i = th[t].i BY DEF Adds
<1>2. v \in Record /\ v.stage \in 1 .. 3 /\ Etcd
  BY <1>1 DEF Local, ThreadOK, IsThread, IsRecord, LocalOK, Paging
<1>3. /\ i \in 1 .. Len(Split(v).more) /\ Len(Split(v).more) \in Nat
      /\ Split(v).more \in [1 .. Len(Split(v).more) -> Page]
      /\ Cond => t \notin Reapers
  BY <1>1, PageDoneNext
<1>4. page \in Page BY <1>3 DEF Adds
<1>5. w.val = v /\ w.job = th[t].job /\ w.pc \in {"putpages", "ret"}
  BY DEF Adds, Moved
<1>6. PICK n \in Nat : n = Len(Split(v).more) BY <1>3
<1>7. i \in 1 .. n /\ w.i = i + 1
      /\ w.pc = IF i = n THEN "ret" ELSE "putpages"
  BY <1>3, <1>6 DEF Adds
<1>8. w.i \in Nat /\ (w.pc = "putpages" => w.i \in 1 .. n) BY <1>7
<1>9. Moved(th[t], w) BY DEF Adds
<1>10. Local(t, w) /\ (Cond => ValOK(t, w))
  BY <1>1, <1>3, <1>5, <1>6, <1>8, <1>9, Advances
<1>11. pages \in [1 .. MaxPage -> Page] BY DEF DataInv, SharedOK
<1>12. pages' = [pages EXCEPT ![i] = page] BY DEF Adds
<1>13. /\ pages' \in [1 .. MaxPage -> Page]
       /\ \A k \in 1 .. MaxPage :
            pages'[k] = IF k = i THEN page ELSE pages[k]
  BY <1>4, <1>11, <1>12
<1> QED BY <1>2, <1>3, <1>4, <1>5, <1>10, <1>13 DEF Pending

LEMMA AddsConds ==
  ASSUME Inv, DataInv, NEW t \in Thread, NEW w, NEW v, NEW i, NEW page,
         Adds(t, w, v, i, page)
  PROVE  /\ worker'.job = worker.job /\ worker'.val = worker.val
         /\ \/ worker' = worker /\ t # "worker"
            \/ worker' = w /\ worker = th[t] /\ t = "worker"
         /\ Kept' => Kept
         /\ Clean' => Clean /\ main.stage = v.stage
         /\ Ending' => Ending
         /\ Ended' <=> Ended
         /\ Cond' => Cond
<1>1. /\ UNCHANGED <<world, main, rows, clock, acked, settled, removal, early>>
      /\ (clobbered' <=> clobbered \/ main.ver # v.ver)
      /\ th' = [th EXCEPT ![t] = w] /\ (w.err <=> th[t].err)
      /\ th[t].pc = "putpages" /\ v = th[t].val
  BY DEF Adds
<1>2. w.job = th[t].job /\ w.val = v BY AddsFacts
<1>3. /\ worker'.job = worker.job /\ (worker'.err <=> worker.err)
      /\ worker'.val = worker.val
      /\ \/ worker' = worker /\ t # "worker"
         \/ worker' = w /\ worker = th[t] /\ t = "worker"
  <2>1. CASE t = "worker" BY <1>1, <1>2, <2>1, OneThread, ZenonT(60)
        DEF worker
  <2>2. CASE t # "worker" BY <1>1, <2>2, OneThread
  <2> QED BY <2>1, <2>2
<1>4. Live' <=> Live BY <1>1, <1>3 DEF Live
<1>5. Kept' => Kept BY <1>1, <1>4, SameWorld DEF Kept
<1>6. Clean' => Clean /\ main.stage = v.stage
  BY <1>1, <1>4 DEF Clean, DataInv, VerOK
<1>7. Ending' => Ending BY <1>1, <1>6, SameWorld DEF Ending
<1>8. Ended' <=> Ended BY <1>1 DEF Ended
<1>9. Cond' => Cond BY <1>1, <1>5, <1>8, SameWorld DEF Cond
<1> QED BY <1>3, <1>5, <1>6, <1>7, <1>8, <1>9

LEMMA AddsStart ==
  ASSUME Inv, DataInv, NEW t \in Thread, NEW w, NEW v, NEW i, NEW page,
         Adds(t, w, v, i, page)
  PROVE  /\ StartOK' /\ SharedOK' /\ RowsOK' /\ FinalOK' /\ AllTasksOK'
         /\ VerOK' /\ RowLocOK' /\ \A u \in Thread : Local(u, th[u])'
<1>1. /\ UNCHANGED <<world, main, rows, clock, acked, settled, removal, early>>
      /\ th' = [th EXCEPT ![t] = w] /\ th[t].pc = "putpages"
      /\ v = th[t].val /\ (w.err <=> th[t].err)
  BY DEF Adds
<1>2. /\ w.val = v /\ w.job = th[t].job /\ w.pc \in {"putpages", "ret"}
      /\ ~Pending(w) /\ Local(t, w) /\ pages' \in [1 .. MaxPage -> Page]
  BY AddsFacts
<1>3. /\ worker'.job = worker.job /\ worker'.val = worker.val
      /\ \/ worker' = worker /\ t # "worker"
         \/ worker' = w /\ worker = th[t] /\ t = "worker"
  BY AddsConds
<1>4. StartOK /\ "touch" \in Thread /\ "worker" \in Thread
  BY Threads DEF DataInv
<1>5. \A u \in Thread : th'[u] = IF u = t THEN w ELSE th[u]
  BY <1>1, OneThread
<1>6. clock # 0 BY <1>1, BegunClock
<1>7. StartOK'
  <2>1. ~(worker'.job = "create" /\ worker'.pc = "put")
    BY <1>1, <1>2, <1>3, <1>4 DEF StartOK
  <2>2. ~early' /\ ~acked' => th'["touch"].pc = "idle"
    BY <1>1, <1>4, <1>5 DEF StartOK
  <2>3. worker'.job = "create" => ~acked' /\ ~settled' /\ rows' = {}
    BY <1>1, <1>3, <1>4 DEF StartOK
  <2> QED BY <1>1, <1>6, <2>1, <2>2, <2>3 DEF StartOK
<1>8. SharedOK' BY <1>1, <1>2, SameWorld DEF DataInv, SharedOK
<1>9. RowsOK'
  <2>1. Kept' => Kept BY AddsConds
  <2>2. worker'.pc # "regets" \/ worker' = worker BY <1>2, <1>3
  <2> QED BY <1>1, <1>3, <2>1, <2>2 DEF DataInv, RowsOK
<1>10. FinalOK'
  <2>1. Ended' <=> Ended BY AddsConds
  <2> QED BY <1>1, <1>3, <2>1, SameWorld DEF DataInv, FinalOK
<1>11. AllTasksOK'
  <2>1. Clean' => Clean BY AddsConds
  <2> QED BY <1>1, <1>3, <2>1, SameWorld DEF DataInv, AllTasksOK
<1>12. VerOK'
  <2>1. \A u \in Thread : /\ th'[u].val = th[u].val
                          /\ th'[u].pc = "putpages" => th[u].pc = "putpages"
                          /\ Pending(th'[u]) => Pending(th[u])
    BY <1>1, <1>2, <1>5
  <2> QED BY <1>1, <2>1 DEF DataInv, VerOK, Pending
<1>13. RowLoc(w.val) /\ RowLoc(main')
  BY <1>1, <1>2 DEF DataInv, RowLocOK
<1>14. RowLocOK' /\ \A u \in Thread : Local(u, th[u])'
  BY <1>1, <1>2, <1>13, LocalNext
<1> QED BY <1>7, <1>8, <1>9, <1>10, <1>11, <1>12, <1>14

LEMMA AddsRegular ==
  ASSUME Inv, DataInv, NEW t \in Thread, NEW w, NEW v, NEW i, NEW page,
         Adds(t, w, v, i, page), Cond'
  PROVE  /\ LaidOut(page, i)
         /\ \A k \in Nat : k > Len(Split(v).more) => PageLoc(k) = <<>>
         /\ t \in {"worker", "touch"}
<1>1. Cond BY AddsConds
<1>2. /\ v \in Record /\ v.stage \in 1 .. 3 /\ Etcd /\ world \in World
      /\ i \in 1 .. Len(Split(v).more) /\ Len(Split(v).more) \in Nat
  BY AddsFacts
<1>3. t \in {"worker", "touch"} BY <1>1, AddsFacts DEF Thread
<1>4. /\ v = th[t].val /\ th[t].pc = "putpages" /\ world' = world
      /\ (clobbered' <=> clobbered \/ main.ver # v.ver)
      /\ page = Split(v).more[i]
  BY DEF Adds
<1>5. Regular(v) BY <1>1, <1>3, <1>4 DEF DataInv, CondOK, ValOK
<1>6. v.stage <= 1 \/ SameCut \/ SameCutBefore BY <1>1, <1>4, CondStage
<1>7. v.stage = 3 => SameCut
  <2>1. ASSUME v.stage = 3 PROVE main.ver # v.ver
    BY <1>1, <1>4, <2>1 DEF Cond, Ended, DataInv, VerOK
  <2> QED BY <1>4, <2>1, SameWorld DEF Cond, Kept
<1>8. PICK q : q = Split(v) OBVIOUS
<1>9. /\ ~Wide => q.more = <<>>
      /\ \A k \in 1 .. Len(q.more) :
           /\ q.more[k].loc = PageLoc(k)
           /\ world.n < world.pageSize => q.more[k].tasks = <<>>
      /\ \A k \in Nat : k > Len(q.more) => PageLoc(k) = <<>>
  BY <1>2, <1>5, <1>6, <1>7, <1>8, RegularSplit
<1>10. Wide
  <2>1. q.more = <<>> => Len(q.more) = 0 OBVIOUS
  <2> QED BY <1>2, <1>8, <1>9, <2>1
<1> QED BY <1>2, <1>3, <1>4, <1>8, <1>9, <1>10 DEF LaidOut

LEMMA AddsLaid ==
  ASSUME Inv, DataInv, NEW t \in Thread, NEW w, NEW v, NEW i, NEW page,
         Adds(t, w, v, i, page), Cond'
  PROVE  Laid'
<1>1. Cond BY AddsConds
<1>2. /\ world' = world /\ main' = main /\ th[t].pc = "putpages"
      /\ i = th[t].i /\ w.i = i + 1
      /\ w.pc = IF i = Len(Split(v).more) THEN "ret" ELSE "putpages"
  BY DEF Adds
<1>3. /\ world \in World /\ pages' \in [1 .. MaxPage -> Page]
      /\ \A k \in 1 .. MaxPage : pages'[k] = IF k = i THEN page ELSE pages[k]
      /\ i \in 1 .. Len(Split(v).more) /\ Len(Split(v).more) \in Nat
      /\ w.pc \in {"putpages", "ret"}
  BY AddsFacts
<1>4. /\ LaidOut(page, i) /\ t \in {"worker", "touch"}
      /\ \A k \in Nat : k > Len(Split(v).more) => PageLoc(k) = <<>>
  BY AddsRegular
<1>5. /\ worker'.job = worker.job
      /\ \/ worker' = worker /\ t # "worker"
         \/ worker' = w /\ worker = th[t] /\ t = "worker"
  BY AddsConds
<1>6. Laid /\ StartOK BY <1>1 DEF DataInv, CondOK
<1>7. ~(worker.job = "create" /\ worker.pc = "put")
  BY <1>2, <1>5, <1>6 DEF StartOK
<1>8. main # None /\ First(main) BY <1>6, <1>7 DEF Laid
<1>9. (main # None)' BY <1>2, <1>8 DEF None
<1>10. First(main)'
  <2>1. PICK m : m = main OBVIOUS
  <2>2. First(m)' <=> First(m) BY <1>2, SameVersion
  <2> QED BY <1>2, <1>8, <2>1, <2>2
<1>11. t = "touch" => worker.job # "create"
  BY <1>1, <1>2, <1>6 DEF StartOK, Cond, Kept
<1>12. ASSUME NEW k \in 1 .. MaxPage PROVE PageOK(k)'
  <2>1. PICK x : x = pages'[k] OBVIOUS
  <2>2. LaidOut(x, k)' <=> LaidOut(x, k) BY <1>2, SamePage
  <2>3. PageOK(k) /\ k \in Nat \ {0} BY <1>3, <1>6, Sizes DEF Laid
  <2>4. PICK n \in Nat : n = Len(Split(v).more) BY <1>3
  <2>5. CASE worker.job = "create"
    <3>1. worker' = w /\ worker = th[t] /\ t = "worker"
      BY <1>4, <1>5, <1>11, <2>5
    <3>2. Upcoming(k) <=> k >= i BY <1>2, <2>5, <3>1 DEF Upcoming
    <3>3. Upcoming(k)' <=> i # n /\ k >= i + 1
      BY <1>2, <1>5, <2>4, <2>5, <3>1 DEF Upcoming
    <3>4. i \in 1 .. n BY <1>3, <2>4
    <3>5. CASE k = i
      <4>1. ~Upcoming(k)' /\ LaidOut(x, k)
        BY <1>3, <1>4, <2>1, <3>3, <3>4, <3>5
      <4> QED BY <2>1, <2>2, <4>1 DEF PageOK
    <3>6. CASE k < i
      <4>1. ~Upcoming(k)' /\ ~Upcoming(k) /\ x = pages[k]
        BY <1>3, <2>1, <2>3, <3>2, <3>3, <3>4, <3>6
      <4> QED BY <2>1, <2>2, <2>3, <4>1 DEF PageOK
    <3>7. CASE k > i
      <4>1. x = pages[k] /\ x = NoPage
        BY <1>3, <2>1, <2>3, <3>2, <3>4, <3>7 DEF PageOK
      <4>2. CASE i # n
        <5>1. Upcoming(k)' BY <2>3, <3>3, <3>4, <3>7, <4>2
        <5> QED BY <2>1, <4>1, <5>1 DEF PageOK, NoPage
      <4>3. CASE i = n
        <5>1. PageLoc(k) = <<>> BY <1>4, <2>3, <2>4, <3>7, <4>3
        <5>2. LaidOut(x, k) BY <4>1, <5>1 DEF LaidOut, NoPage
        <5>3. ~Upcoming(k)' BY <3>3, <4>3
        <5> QED BY <2>1, <2>2, <5>2, <5>3 DEF PageOK
      <4> QED BY <4>2, <4>3
    <3> QED BY <2>3, <3>4, <3>5, <3>6, <3>7
  <2>6. CASE worker.job # "create"
    <3>1. ~Upcoming(k) /\ ~Upcoming(k)' BY <1>5, <2>6 DEF Upcoming
    <3>2. LaidOut(x, k) BY <1>3, <1>4, <2>1, <2>3, <3>1 DEF PageOK
    <3> QED BY <2>1, <2>2, <3>1, <3>2 DEF PageOK
  <2> QED BY <2>5, <2>6
<1> QED BY <1>2, <1>9, <1>10, <1>12, SameWorld DEF Laid

LEMMA AddsCond ==
  ASSUME Inv, DataInv, NEW t \in Thread, NEW w, NEW v, NEW i, NEW page,
         Adds(t, w, v, i, page)
  PROVE  CondOK'
<1> SUFFICES ASSUME Cond'
             PROVE  Laid' /\ NewOK' /\ \A u \in Thread : ValOK(u, th[u])'
  BY DEF CondOK
<1>1. Cond BY AddsConds
<1>2. /\ UNCHANGED <<world, main, rows>> /\ th' = [th EXCEPT ![t] = w]
      /\ v = th[t].val
  BY DEF Adds
<1>3. w.val = v /\ ValOK(t, w) BY <1>1, AddsFacts
<1>4. \A u \in Thread : th'[u] = IF u = t THEN w ELSE th[u]
  BY <1>2, OneThread
<1>5. NewOK /\ \A u \in Thread : ValOK(u, th[u])
  BY <1>1 DEF DataInv, CondOK
<1>6. Laid' BY AddsLaid
<1>7. NewOK' BY <1>2, <1>3, <1>4, <1>5 DEF NewOK
<1>8. ASSUME NEW u \in Thread PROVE ValOK(u, th[u])'
  <2>1. PICK x : x = th'[u] OBVIOUS
  <2>2. ValOK(u, x) BY <1>3, <1>4, <1>5, <2>1
  <2>3. ValOK(u, x)' BY <1>2, <2>2, SameThread
  <2> QED BY <2>1, <2>3
<1> QED BY <1>6, <1>7, <1>8

LEMMA AddsTasks ==
  ASSUME Inv, DataInv, NEW t \in Thread, NEW w, NEW v, NEW i, NEW page,
         Adds(t, w, v, i, page)
  PROVE  NoTasksOK' /\ StoringOK' /\ SettledOK'
<1>1. /\ UNCHANGED <<world, main, rows, clock, acked, settled, removal, early>>
      /\ th' = [th EXCEPT ![t] = w] /\ th[t].pc = "putpages"
      /\ v = th[t].val /\ i = th[t].i /\ w.i = i + 1
      /\ page = Split(v).more[i] /\ (w.err <=> th[t].err)
      /\ w.pc = IF i = Len(Split(v).more) THEN "ret" ELSE "putpages"
  BY DEF Adds
<1>2. /\ v \in Record /\ v.stage \in 1 .. 3 /\ Etcd /\ world \in World
      /\ Len(Split(v).more) \in Nat /\ i \in 1 .. Len(Split(v).more)
      /\ w.val = v /\ w.pc \in {"putpages", "ret"}
      /\ \A k \in 1 .. MaxPage : pages'[k] = IF k = i THEN page ELSE pages[k]
  BY AddsFacts
<1>3. \A u \in Thread : th'[u].val = th[u].val
  BY <1>1, <1>2, OneThread
<1>4. /\ worker'.job = worker.job /\ worker'.val = worker.val
      /\ \/ worker' = worker /\ t # "worker"
         \/ worker' = w /\ worker = th[t] /\ t = "worker"
      /\ Clean' => Clean /\ main.stage = v.stage
      /\ Ending' => Ending
      /\ Ended' <=> Ended
  BY AddsConds
<1>5. t # "worker" => v.stage < 3 BY <1>1 DEF DataInv, Local
<1>6. NoTasksOK'
  <2> SUFFICES ASSUME Clean', ~Ended'
               PROVE  /\ main'.tasks = <<>>
                      /\ \A k \in 1 .. MaxPage' : pages'[k].tasks = <<>>
                      /\ \A u \in Thread :
                           th'[u].val.stage < 3 => th'[u].val.tasks = <<>>
    BY DEF NoTasksOK
  <2>1. /\ main.tasks = <<>>
        /\ \A k \in 1 .. MaxPage : pages[k].tasks = <<>>
        /\ \A u \in Thread : th[u].val.stage < 3 => th[u].val.tasks = <<>>
    BY <1>4 DEF DataInv, NoTasksOK
  <2>2. v.stage < 3 BY <1>2, <1>4 DEF Ended
  <2>3. v.tasks = <<>> BY <1>1, <2>1, <2>2
  <2>4. page.tasks = <<>> BY <1>1, <1>2, <2>3, NoTasksSplit
  <2> QED BY <1>1, <1>2, <1>3, <2>1, <2>4, SameWorld
<1>7. StoringOK'
  <2> SUFFICES
        ASSUME Ending', worker'.job = "final", ~worker'.err,
               worker'.pc \in {"putpages", "ret"}
        PROVE  /\ main'.stage = 3 /\ main'.tasks = FirstTasks(worker.val)'
               /\ Complete(worker.val)'
               /\ \A k \in 1 .. MaxPage' :
                    pages'[k].tasks = IF worker'.pc = "putpages"
                                         /\ k >= worker'.i
                                        THEN <<>> ELSE TaskPage(worker.val, k)'
    BY DEF StoringOK
  <2>1. Ending /\ main.stage = v.stage BY <1>4 DEF Ending
  <2>2. PICK x : x = worker.val OBVIOUS
  <2>3. /\ main.stage = 3 /\ main.tasks = FirstTasks(x) /\ Complete(x)
        /\ \A k \in 1 .. MaxPage :
             pages[k].tasks = IF worker.pc = "putpages" /\ k >= worker.i
                                THEN <<>> ELSE TaskPage(x, k)
    BY <1>1, <1>4, <2>1, <2>2 DEF DataInv, StoringOK
  <2>4. worker' = w /\ worker = th[t] /\ x = v
    BY <1>1, <1>4, <1>5, <2>1, <2>2, <2>3
  <2>5. /\ FirstTasks(v)' = FirstTasks(v) /\ (Complete(v)' <=> Complete(v))
        /\ \A k : TaskPage(v, k)' = TaskPage(v, k)
    BY <1>1, SameVersion, SameComplete
  <2>6. /\ FirstTasks(worker.val)' = FirstTasks(v)
        /\ (Complete(worker.val)' <=> Complete(v))
        /\ \A k : TaskPage(worker.val, k)' = TaskPage(v, k)
    BY <1>2, <2>4, <2>5
  <2>7. PICK n \in Nat : n = Len(Split(v).more) /\ i \in 1 .. n BY <1>2
  <2>8. ASSUME NEW k \in 1 .. MaxPage
        PROVE  pages'[k].tasks = IF w.pc = "putpages" /\ k >= w.i
                                   THEN <<>> ELSE TaskPage(v, k)
    <3>1. k \in Nat \ {0} BY <1>2, Sizes
    <3>2. pages[k].tasks = IF k >= i THEN <<>> ELSE TaskPage(v, k)
      BY <1>1, <2>3, <2>4
    <3>3. CASE k = i
      <4>1. TaskPage(v, k) = page.tasks
        BY <1>1, <1>2, <2>7, <3>3 DEF TaskPage
      <4> QED BY <1>1, <1>2, <2>7, <3>3, <4>1
    <3>4. CASE k < i BY <1>1, <1>2, <2>7, <3>1, <3>2, <3>4
    <3>5. CASE k > i
      <4>1. pages'[k].tasks = <<>> BY <1>2, <2>7, <3>1, <3>2, <3>5
      <4>2. i = n => TaskPage(v, k) = <<>>
        BY <2>7, <3>1, <3>5 DEF TaskPage
      <4> QED BY <1>1, <2>7, <3>1, <3>5, <4>1, <4>2
    <3> QED BY <2>7, <3>1, <3>3, <3>4, <3>5
  <2> QED BY <1>1, <2>3, <2>4, <2>6, <2>8, SameWorld
<1>8. SettledOK'
  <2> SUFFICES ASSUME Ending', settled' PROVE FALSE BY DEF SettledOK
  <2>1. Ending /\ settled /\ main.stage = v.stage BY <1>1, <1>4 DEF Ending
  <2>2. main.stage = 3 /\ worker.pc # "putpages"
    BY <2>1 DEF DataInv, SettledOK
  <2> QED BY <1>1, <1>4, <1>5, <2>1, <2>2
<1> QED BY <1>6, <1>7, <1>8

LEMMA PutPageData ==
  ASSUME Inv, DataInv, NEW t \in Thread, PutPage(t) PROVE DataInv'
<1> th = [u \in Thread |-> th[u]] /\ ThreadShape(th[t]) BY Types
<1>1. PICK w, v, i, q, page :
        /\ w = th'[t] /\ v = th[t].val /\ i = th[t].i /\ q = Split(v)
        /\ page = q.more[i]
  OBVIOUS
<1>2. PICK p : /\ p = IF i = Len(q.more) THEN "ret" ELSE "putpages"
               /\ th' = [th EXCEPT ![t].i = @ + 1, ![t].err = @ \/ FALSE,
                                   ![t].pc = p]
  BY <1>1 DEF PutPage, PageDone
<1>3. /\ th' = [th EXCEPT ![t] = w] /\ Moved(th[t], w) /\ w.pc = p
      /\ w.i = i + 1
  BY <1>1, <1>2 DEF Moved, ThreadShape
<1>4. w.err <=> th[t].err BY <1>1, <1>2 DEF ThreadShape
<1>5. Adds(t, w, v, i, page)
  BY <1>1, <1>2, <1>3, <1>4 DEF PutPage, Adds
<1> QED BY <1>5, AddsStart, AddsCond, AddsTasks DEF DataInv

-----------------------------------------------------------------------------
(***************************************************************************)
(* The tasks of the worker                                                 *)
(***************************************************************************)

\* The worker has read u, adds rows up to `all', and goes on with v.
SetsUp(w, u, v, all) ==
  /\ worker.pc = "got" /\ u = worker.val /\ u.stage < 3
  /\ all = rows \cup ToSet(u.loc)
  /\ v.ids = u.ids \o Sorted(all \ ToSet(u.ids)) /\ v \in Record
  /\ v.stage = 2 /\ v.loc = u.loc /\ v.tasks = u.tasks
  /\ v.long <=> u.long
  /\ th' = [th EXCEPT !["worker"] = w]
  /\ w.pc = "regets" /\ w.val = v /\ w.job = worker.job /\ w.i = worker.i
  /\ w.err <=> worker.err
  /\ rows' = all
  /\ UNCHANGED <<world, main, pages, clock, acked, settled, removal, early,
                 clobbered>>

LEMMA AllComps ==
  ASSUME world \in World
  PROVE  ToSet(Comps) = 1 .. world.n /\ 1 .. world.n # {} /\ ToSet(<<>>) = {}
<1>1. PICK n \in Nat \ {0} : n = world.n BY Sizes
<1>2. ToSet(Comps) = 1 .. n BY <1>1 DEF ToSet, Comps
<1>3. 1 \in 1 .. n BY <1>1
<1>4. ToSet(<<>>) = {} BY DEF ToSet
<1> QED BY <1>1, <1>2, <1>3, <1>4

LEMMA SetsUpFacts ==
  ASSUME Inv, DataInv, NEW w, NEW u, NEW v, NEW all, SetsUp(w, u, v, all)
  PROVE  /\ u \in Record /\ u.stage \in {1, 2} /\ world \in World
         /\ worker.job \notin {"create", "store", "final"}
         /\ Sound => ~Ended
         /\ all \subseteq 1 .. world.n
         /\ Kept => all = 1 .. world.n
         /\ Cond => Regular(u)
         /\ Local("worker", w)
<1> DEFINE t == "worker"
<1> /\ t \in Thread /\ ThreadOK(t, th[t]) /\ Local(t, th[t])
    /\ world \in World /\ worker = th[t]
  BY Types, Threads, InWorld DEF DataInv, worker
<1>1. worker.pc = "got" /\ u = worker.val /\ u.stage < 3
      /\ all = rows \cup ToSet(u.loc)
  BY DEF SetsUp
<1>2. /\ u \in Record /\ u.stage \in {1, 2}
      /\ worker.job \notin {"create", "store", "final"}
  BY <1>1 DEF Local, ThreadOK, IsThread, IsRecord, LocalOK
<1>3. Sound => ~Ended BY <1>1 DEF ThreadOK, EndedOK
<1>4. rows \subseteq 1 .. world.n BY DEF DataInv, SharedOK
<1>5. ToSet(u.loc) \subseteq 1 .. world.n
  <2>1. PICK S : S = 1 .. world.n OBVIOUS
  <2>2. PICK s \in Seq(S) : s = u.loc BY <1>2, <2>1 DEF Record, List
  <2>3. \A i \in DOMAIN s : s[i] \in S BY ONLY s \in Seq(S)
  <2> QED BY <2>1, <2>2, <2>3 DEF ToSet
<1>6. Cond => Regular(u) BY <1>1 DEF DataInv, CondOK, ValOK
<1>7. ASSUME Kept PROVE all = 1 .. world.n
  <2>1. rows \in {{}, 1 .. world.n} BY <1>7 DEF DataInv, RowsOK
  <2>2. CASE rows = 1 .. world.n BY <1>1, <1>5, <2>2
  <2>3. CASE rows = {}
    <3>1. u.loc = Comps
      <4>1. CASE Etcd
        <5>1. Cond BY <1>3, <1>7, <2>3, <4>1 DEF Cond, Sound
        <5> QED BY <1>6, <5>1 DEF Regular
      <4>2. CASE ~Etcd
        BY <1>1, <1>2, <4>2 DEF DataInv, RowLocOK, RowLoc
      <4> QED BY <4>1, <4>2
    <3> QED BY <1>1, <2>3, <3>1, AllComps
  <2> QED BY <2>1, <2>2, <2>3
<1>8. Local(t, w) BY <1>2 DEF Local, SetsUp, Pending
<1> QED BY <1>1, <1>2, <1>3, <1>4, <1>5, <1>6, <1>7, <1>8

LEMMA SetsUpConds ==
  ASSUME Inv, DataInv, NEW w, NEW u, NEW v, NEW all, SetsUp(w, u, v, all)
  PROVE  /\ worker' = w /\ w.job = worker.job
         /\ \A x \in Thread : th'[x] = IF x = "worker" THEN w ELSE th[x]
         /\ Kept' => Kept
         /\ Clean' => Clean /\ ~Ended
         /\ Ended' <=> Ended
         /\ Cond' => Cond /\ rows' # {} /\ all = 1 .. world.n
<1>1. /\ UNCHANGED <<world, main, pages, clock, acked, settled, removal,
                     early, clobbered>>
      /\ rows' = all /\ th' = [th EXCEPT !["worker"] = w]
      /\ w.job = worker.job /\ (w.err <=> worker.err)
  BY DEF SetsUp
<1>2. worker' = w
      /\ \A x \in Thread : th'[x] = IF x = "worker" THEN w ELSE th[x]
  BY <1>1, Threads, OneThread, ZenonT(60) DEF worker
<1>3. Live' <=> Live BY <1>1, <1>2 DEF Live
<1>4. Kept' => Kept BY <1>1, <1>3, SameWorld DEF Kept
<1>5. Clean' => Clean /\ ~Ended
  BY <1>1, <1>3, SetsUpFacts DEF Clean, Sound
<1>6. Ended' <=> Ended BY <1>1 DEF Ended
<1>7. Cond' => Cond /\ rows' # {} /\ all = 1 .. world.n
  <2>1. Kept => rows' = 1 .. world.n /\ rows' # {}
    BY <1>1, SetsUpFacts, AllComps
  <2> QED BY <1>1, <1>4, <1>6, <2>1, SameWorld DEF Cond
<1> QED BY <1>1, <1>2, <1>4, <1>5, <1>6, <1>7

LEMMA SetsUpCond ==
  ASSUME Inv, DataInv, NEW w, NEW u, NEW v, NEW all, SetsUp(w, u, v, all)
  PROVE  CondOK'
<1> SUFFICES ASSUME Cond'
             PROVE  Laid' /\ NewOK' /\ \A x \in Thread : ValOK(x, th[x])'
  BY DEF CondOK
<1>1. /\ Cond /\ rows' # {} /\ all = 1 .. world.n
      /\ worker' = w /\ w.job = worker.job
      /\ \A x \in Thread : th'[x] = IF x = "worker" THEN w ELSE th[x]
  BY SetsUpConds
<1>2. /\ UNCHANGED <<world, main, pages>> /\ w.pc = "regets" /\ w.val = v
      /\ v.ids = u.ids \o Sorted(all \ ToSet(u.ids))
      /\ v.stage = 2 /\ v.loc = u.loc /\ v.tasks = u.tasks
      /\ v.long <=> u.long
  BY DEF SetsUp
<1>3. /\ u \in Record /\ u.stage \in {1, 2} /\ world \in World
      /\ worker.job # "create" /\ Regular(u)
  BY <1>1, SetsUpFacts
<1>4. Laid /\ \A x \in Thread : ValOK(x, th[x])
  BY <1>1 DEF DataInv, CondOK
<1>5. Regular(v)
  <2>1. CASE Wide BY <1>2, <1>3, <2>1 DEF Regular, Common
  <2>2. CASE ~Wide
    <3>1. Standard(u) BY <1>3, <2>2 DEF Regular, Common
    <3>2. v.ids = Comps
      <4>1. Sorted(1 .. world.n) = Comps /\ Sorted({}) = <<>>
        BY <1>3, SortedFacts
      <4>2. ToSet(Comps) = 1 .. world.n /\ ToSet(<<>>) = {}
        BY <1>3, AllComps
      <4>3. Comps \in List BY <1>3, Sizes
      <4>4. <<>> \o Comps = Comps /\ Comps \o <<>> = Comps
        BY <4>3 DEF List
      <4>5. CASE u.stage = 1
        <5>1. u.ids = <<>> BY <3>1, <4>5 DEF Standard
        <5>2. all \ ToSet(u.ids) = 1 .. world.n BY <1>1, <4>2, <5>1
        <5> QED BY <1>2, <4>1, <4>4, <5>1, <5>2
      <4>6. CASE u.stage = 2
        <5>1. u.ids = Comps BY <3>1, <4>6 DEF Standard
        <5>2. all \ ToSet(u.ids) = {} BY <1>1, <4>2, <5>1
        <5> QED BY <1>2, <4>1, <4>4, <5>1, <5>2
      <4> QED BY <1>3, <4>5, <4>6
    <3>3. u.stage < 3 /\ u.stage # 3 BY <1>3
    <3>4. v.tasks = <<>> /\ ~v.long BY <1>2, <3>1, <3>3 DEF Standard
    <3>5. v.stage = 2 BY <1>2
    <3>6. Standard(v) BY ONLY <3>2, <3>4, <3>5 DEF Standard
    <3>7. v.loc = Comps BY <1>2, <1>3 DEF Regular
    <3> QED BY <2>2, <3>6, <3>7 DEF Regular, Common
  <2> QED BY <2>1, <2>2
<1>6. ASSUME NEW x \in Thread PROVE ValOK(x, th[x])'
  <2>1. PICK y : y = th'[x] OBVIOUS
  <2>2. ValOK(x, y)
    BY <1>1, <1>2, <1>4, <1>5, <2>1, Threads DEF ValOK
  <2>3. ValOK(x, y)' BY <1>2, <2>2, SameThread
  <2> QED BY <2>1, <2>3
<1>7. NewOK' BY <1>1 DEF NewOK
<1>8. \A k : ~Upcoming(k)' /\ ~Upcoming(k) BY <1>1, <1>3 DEF Upcoming
<1>9. Laid'
  <2>1. main # None /\ First(main) BY <1>3, <1>4 DEF Laid
  <2>2. PICK m : m = main OBVIOUS
  <2>3. First(m)' <=> First(m) BY <1>2, SameVersion
  <2>4. (main # None)' /\ First(main)' BY <1>2, <2>1, <2>2, <2>3 DEF None
  <2>5. ASSUME NEW k \in 1 .. MaxPage' PROVE PageOK(k)'
    <3>1. PICK page : page = pages[k] OBVIOUS
    <3>2. LaidOut(page, k)' <=> LaidOut(page, k) BY <1>2, SamePage
    <3>3. PageOK(k) BY <1>2, <1>4, SameWorld DEF Laid
    <3> QED BY <1>2, <1>8, <3>1, <3>2, <3>3 DEF PageOK
  <2> QED BY <2>4, <2>5 DEF Laid
<1> QED BY <1>6, <1>7, <1>9

LEMMA SetsUpData ==
  ASSUME Inv, DataInv, NEW w, NEW u, NEW v, NEW all, SetsUp(w, u, v, all)
  PROVE  DataInv'
<1>1. /\ UNCHANGED <<world, main, pages, clock, acked, settled, removal,
                     early, clobbered>>
      /\ rows' = all /\ th' = [th EXCEPT !["worker"] = w]
      /\ w.pc = "regets" /\ w.val = v /\ worker.pc = "got"
      /\ u = worker.val /\ v.loc = u.loc /\ v.tasks = u.tasks /\ v.stage = 2
  BY DEF SetsUp
<1>2. /\ u \in Record /\ u.stage \in {1, 2} /\ all \subseteq 1 .. world.n
      /\ worker.job \notin {"create", "store", "final"}
      /\ (Kept => all = 1 .. world.n) /\ Local("worker", w)
  BY SetsUpFacts
<1>3. /\ worker' = w /\ w.job = worker.job
      /\ \A x \in Thread : th'[x] = IF x = "worker" THEN w ELSE th[x]
      /\ Kept' => Kept
      /\ Clean' => Clean /\ ~Ended
      /\ Ended' <=> Ended
  BY SetsUpConds
<1>4. StartOK /\ "worker" \in Thread /\ "touch" \in Thread
      /\ worker = th["worker"]
  BY Threads DEF DataInv, worker
<1>5. StartOK'
  <2>1. clock # 0 BY <1>1, <1>4, BegunClock
  <2>2. ~early' /\ ~acked' => th'["touch"].pc = "idle"
    BY <1>1, <1>3, <1>4 DEF StartOK
  <2> QED BY <1>1, <1>2, <1>3, <2>1, <2>2 DEF StartOK
<1>6. SharedOK' BY <1>1, <1>2, SameWorld DEF DataInv, SharedOK
<1>7. RowsOK' BY <1>1, <1>2, <1>3 DEF RowsOK
<1>8. FinalOK' /\ AllTasksOK' /\ StoringOK'
  BY <1>2, <1>3 DEF FinalOK, AllTasksOK, StoringOK
<1>9. VerOK'
  <2>1. \A x \in Thread :
          th'[x].pc = "putpages" \/ Pending(th'[x]) => th'[x] = th[x]
    BY <1>1, <1>3 DEF Pending
  <2> QED BY <1>1, <2>1 DEF DataInv, VerOK, Pending
<1>10. RowLoc(w.val) /\ RowLoc(main')
  BY <1>1, <1>2, <1>4 DEF DataInv, RowLocOK, RowLoc
<1>11. RowLocOK' /\ \A x \in Thread : Local(x, th[x])'
  BY <1>1, <1>2, <1>4, <1>10, LocalNext
<1>12. NoTasksOK'
  <2> SUFFICES ASSUME Clean', ~Ended'
               PROVE  /\ main'.tasks = <<>>
                      /\ \A k \in 1 .. MaxPage' : pages'[k].tasks = <<>>
                      /\ \A x \in Thread :
                           th'[x].val.stage < 3 => th'[x].val.tasks = <<>>
    BY DEF NoTasksOK
  <2>1. /\ main.tasks = <<>>
        /\ \A k \in 1 .. MaxPage : pages[k].tasks = <<>>
        /\ \A x \in Thread : th[x].val.stage < 3 => th[x].val.tasks = <<>>
    BY <1>3 DEF DataInv, NoTasksOK
  <2>2. v.tasks = <<>> BY <1>1, <1>2, <1>4, <2>1
  <2> QED BY <1>1, <1>3, <2>1, <2>2, SameWorld
<1>13. SettledOK'
  <2> SUFFICES ASSUME Ending', settled' PROVE FALSE BY DEF SettledOK
  <2>1. Clean /\ ~Ended /\ Ending
    BY <1>1, <1>3, SameWorld DEF Ending
  <2> QED BY <1>1, <2>1 DEF DataInv, SettledOK, Ended
<1>14. CondOK' BY SetsUpCond
<1> QED BY <1>5, <1>6, <1>7, <1>8, <1>9, <1>11, <1>12, <1>13, <1>14
        DEF DataInv

LEMMA SetupData == ASSUME Inv, DataInv, Setup PROVE DataInv'
<1> DEFINE t == "worker"
<1> /\ th = [x \in Thread |-> th[x]] /\ t \in Thread /\ ThreadShape(th[t])
    /\ Local(t, th[t]) /\ world \in World
  BY Types, Threads, InWorld DEF DataInv
<1>1. UNCHANGED <<world, main, pages, settled, clobbered, early, acked,
                  removal, clock>>
  BY DEF Setup, history
<1>2. th[t].pc = "got" BY DEF Setup
<1>3. CASE th[t].val.stage = 3
  <2>1. Exit(t) /\ rows' = rows BY <1>3 DEF Setup
  <2>2. th[t].pc # "idle" BY <1>2
  <2> QED BY <1>1, <2>1, <2>2, ExitData
<1>4. CASE th[t].val.stage # 3
  <2>1. PICK u \in Record : u = th[t].val BY DEF Local
  <2>2. PICK all, ids : /\ all = rows \cup ToSet(u.loc)
                        /\ ids = u.ids \o Sorted(all \ ToSet(u.ids))
    OBVIOUS
  <2>3. /\ th' = [th EXCEPT ![t].pc = "regets", ![t].val.stage = 2,
                            ![t].val.ids = ids]
        /\ rows' = all
    BY <1>4, <2>1, <2>2, Zenon DEF Setup
  <2>4. DOMAIN u = {"ver", "stage", "loc", "ids", "tasks", "long"}
    BY DEF Record
  <2>5. PICK v : v = [u EXCEPT !.stage = 2, !.ids = ids] OBVIOUS
  <2>6. /\ v.stage = 2 /\ v.ids = ids /\ v.loc = u.loc /\ v.tasks = u.tasks
        /\ v.long = u.long
    BY <2>4, <2>5
  <2>7. v \in Record
    <3>1. Sorted(all \ ToSet(u.ids)) \in Seq(1 .. world.n)
      BY SortedFacts
    <3>2. u.ids \in Seq(1 .. world.n) BY DEF Record, List
    <3>3. ids \in List BY <2>2, <3>1, <3>2 DEF List
    <3>4. 2 \in 0 .. 3 OBVIOUS
    <3> QED BY ONLY <2>5, <3>3, <3>4, u \in Record DEF Record
  <2>8. th' = [th EXCEPT ![t] = [th[t] EXCEPT !.pc = "regets", !.val = v]]
    BY <2>1, <2>3, <2>4, <2>5 DEF ThreadShape
  <2>9. PICK w : w = [th[t] EXCEPT !.pc = "regets", !.val = v] OBVIOUS
  <2>10. /\ th' = [th EXCEPT ![t] = w] /\ w.pc = "regets" /\ w.val = v
         /\ w.job = th[t].job /\ w.i = th[t].i /\ w.err = th[t].err
    BY <2>8, <2>9 DEF ThreadShape
  <2>11. u.stage < 3 BY <1>4, <2>1 DEF Record
  <2>12. SetsUp(w, u, v, all)
    BY <1>1, <1>2, <2>1, <2>2, <2>3, <2>6, <2>7, <2>10, <2>11
    DEF SetsUp, worker
  <2> QED BY <2>12, SetsUpData
<1> QED BY <1>3, <1>4

\* The tasks are deleted when all that reading the record needs is stored.
LEMMA StoredWhole ==
  ASSUME Inv, DataInv, Ending, worker.job = "final", worker.pc = "ret",
         ~worker.err
  PROVE  main.stage = 3 /\ Whole
<1> world \in World BY InWorld
<1>1. PICK v : v = worker.val OBVIOUS
<1>2. /\ main.stage = 3 /\ main.tasks = FirstTasks(v) /\ Complete(v)
      /\ \A k \in 1 .. MaxPage : pages[k].tasks = TaskPage(v, k)
  BY <1>1 DEF DataInv, StoringOK
<1>3. [k \in 1 .. MaxPage |-> pages[k]["tasks"]]
        = [k \in 1 .. MaxPage |-> TaskPage(v, k)]
  BY <1>2
<1>4. main \in Record /\ pages \in [1 .. MaxPage -> Page]
  BY DEF DataInv, SharedOK
<1>5. Joined(main, pages).tasks
        = main.tasks \o FlattenSeq([k \in 1 .. MaxPage |-> pages[k]["tasks"]])
  BY <1>4, JoinedIs
<1> QED BY <1>2, <1>3, <1>5 DEF Whole, Complete

LEMMA FinalDoneData == ASSUME Inv, DataInv, FinalDone PROVE DataInv'
<1> DEFINE t == "worker"
<1> /\ t \in Thread /\ "touch" \in Thread /\ worker = th[t] /\ DataInv
    /\ world \in World
  BY Threads, InWorld DEF worker
<1>1. /\ UNCHANGED <<world, main, pages, clobbered, early, acked, removal,
                     clock>>
      /\ Exit(t) /\ worker.pc = "ret" /\ worker.job = "final"
      /\ settled' = (settled \/ ~worker.err)
      /\ rows' = IF worker.err THEN rows ELSE {}
  BY DEF FinalDone
<1>2. CASE worker.err
  <2>1. settled' = settled BY <1>1, <1>2 DEF DataInv, SharedOK
  <2>2. th[t].pc # "idle" /\ rows' = rows BY <1>1, <1>2
  <2> QED BY <1>1, <2>1, <2>2, ExitData
<1>3. CASE ~worker.err
  <2>1. settled' = TRUE /\ rows' = {} BY <1>1, <1>3
  <2>2. PICK w : w = Idle OBVIOUS
  <2>3. th' = [th EXCEPT ![t] = w] BY <1>1, <2>2 DEF Exit
  <2>4. /\ w.pc = "idle" /\ w.job = "none" /\ Local(t, w) /\ RowLoc(w.val)
        /\ w.val.tasks = <<>> /\ ~Pending(w)
    <3>1. "none" \in {"none", "run", "touch"} OBVIOUS
    <3> QED BY <2>2, <3>1, RestFacts, IdleFacts
  <2>5. worker' = w /\ \A u \in Thread : th'[u] = IF u = t THEN w ELSE th[u]
    BY <2>3, OneThread
  <2>6. Live' => Live BY <1>1, <2>4, <2>5 DEF Live
  <2>7. /\ Clean' => Clean
        /\ Ending' => Ending
        /\ Ended' <=> Ended
    BY <1>1, <2>6, SameWorld DEF Clean, Ending, Ended
  <2>8. StartOK'
    <3>1. clock # 0 BY <1>1, BegunClock
    <3>2. ~early' /\ ~acked' => th'["touch"].pc = "idle"
      BY <1>1, <2>5 DEF DataInv, StartOK
    <3> QED BY <1>1, <2>4, <2>5, <3>1, <3>2 DEF StartOK
  <2>9. SharedOK' BY <1>1, <2>1, SameWorld DEF DataInv, SharedOK
  <2>10. RowsOK' BY <2>1, <2>4, <2>5 DEF RowsOK
  <2>11. FinalOK' /\ AllTasksOK' /\ StoringOK'
    BY <2>4, <2>5 DEF FinalOK, AllTasksOK, StoringOK
  <2>12. VerOK'
    <3>1. \A u \in Thread :
            th'[u].pc = "putpages" \/ Pending(th'[u]) => th'[u] = th[u]
      BY <2>4, <2>5
    <3> QED BY <1>1, <3>1 DEF DataInv, VerOK, Pending
  <2>13. RowLoc(main') BY <1>1 DEF DataInv, RowLocOK
  <2>14. RowLocOK' /\ \A u \in Thread : Local(u, th[u])'
    BY <1>1, <2>3, <2>4, <2>13, LocalNext
  <2>15. CondOK'
    <3>1. Etcd => Ended BY <1>1, <1>3 DEF DataInv, FinalOK
    <3> QED BY <1>1, <2>7, <3>1, SameWorld DEF CondOK, Cond
  <2>16. NoTasksOK'
    <3> SUFFICES ASSUME Clean', ~Ended'
                 PROVE  /\ main'.tasks = <<>>
                        /\ \A k \in 1 .. MaxPage' : pages'[k].tasks = <<>>
                        /\ \A u \in Thread :
                             th'[u].val.stage < 3 => th'[u].val.tasks = <<>>
      BY DEF NoTasksOK
    <3>1. /\ main.tasks = <<>>
          /\ \A k \in 1 .. MaxPage : pages[k].tasks = <<>>
          /\ \A u \in Thread : th[u].val.stage < 3 => th[u].val.tasks = <<>>
      BY <2>7 DEF DataInv, NoTasksOK
    <3> QED BY <1>1, <2>4, <2>5, <3>1, SameWorld
  <2>17. SettledOK'
    <3> SUFFICES ASSUME Ending' PROVE main'.stage = 3 /\ Whole'
      BY <2>4, <2>5 DEF SettledOK
    <3>1. main.stage = 3 /\ Whole BY <1>1, <1>3, <2>7, StoredWhole
    <3> QED BY <1>1, <3>1, SameWorld DEF Whole, Joined
  <2> QED BY <2>8, <2>9, <2>10, <2>11, <2>12, <2>14, <2>15, <2>16, <2>17
          DEF DataInv
<1> QED BY <1>2, <1>3

LEMMA TriggerData == ASSUME Inv, DataInv, Trigger PROVE DataInv'
<1> DEFINE t == "worker"
<1> /\ t \in Thread /\ "touch" \in Thread /\ clock = 0 /\ world \in World
  BY Threads, InWorld DEF Trigger
<1>1. UNCHANGED <<world, main, pages, rows, settled, clobbered, early, acked,
                  removal>>
  BY DEF Trigger, history
<1>2. PICK w : w = Calling("create", "put", New, None, 0) OBVIOUS
<1>3. th' = [th EXCEPT ![t] = w] /\ clock' = 1
  BY <1>2 DEF Trigger, Call, Calling
<1>4. /\ New \in Record /\ New.loc = Comps /\ New.ids = <<>>
      /\ New.tasks = <<>> /\ ~New.long /\ New.stage = 1
  BY VersionTypes
<1>5. /\ w.pc = "put" /\ w.job = "create" /\ w.i = 1 /\ ~w.err
      /\ w.val \in Record /\ w.val.stage = 1 /\ w.val.loc = Comps
      /\ w.val.ids = <<>> /\ w.val.tasks = <<>> /\ ~w.val.long
  <2>1. clock \in Nat OBVIOUS
  <2>2. PICK n : n = New OBVIOUS
  <2>3. w = Calling("create", "put", n, None, 0) /\ n \in Record
    BY <1>2, <1>4, <2>2
  <2> QED BY <1>4, <2>1, <2>2, <2>3, CallingIs
<1>6. /\ Pristine /\ rows = {} /\ ~acked /\ ~settled
      /\ \A u \in Thread : th[u] = Idle
  BY DEF DataInv, StartOK
<1>7. main = None BY Types DEF IsRecord
<1>8. /\ worker' = w
      /\ \A u \in Thread : th'[u] = IF u = t THEN w ELSE Idle
  <2>1. worker' = w /\ \A u \in Thread : th'[u] = IF u = t THEN w ELSE th[u]
    BY <1>3, OneThread
  <2> QED BY <1>6, <2>1
<1>9. \A u \in Thread : /\ Local(u, Idle) /\ ValOK(u, Idle)
                        /\ Idle.val.stage = 0 /\ Idle.val.tasks = <<>>
                        /\ Idle.pc = "idle"
  <2>1. PICK x : x = Idle OBVIOUS
  <2>2. "none" \in {"none", "run", "touch"} OBVIOUS
  <2> QED BY <2>1, <2>2, RestFacts, IdleFacts
<1>10. Pristine' BY <1>1, <1>6, SameWorld DEF Pristine, NoPage
<1>11. (main = None)' BY <1>1, <1>7 DEF None
<1>12. StartOK'
  <2>1. \A u \in Thread \ {"worker"} : th'[u].pc = "idle" BY <1>8, <1>9
  <2> QED BY <1>1, <1>3, <1>6, <1>8, <1>10, <1>11, <2>1, Threads DEF StartOK
<1>13. SharedOK' BY <1>1, SameWorld DEF DataInv, SharedOK
<1>14. RowsOK' /\ FinalOK' /\ AllTasksOK' /\ StoringOK' /\ SettledOK'
  BY <1>1, <1>5, <1>6, <1>8
  DEF RowsOK, FinalOK, AllTasksOK, StoringOK, SettledOK
<1>15. VerOK' BY <1>5, <1>8, <1>9 DEF VerOK
<1>16. Local(t, w) BY <1>5 DEF Local, Pending
<1>17. RowLoc(w.val) /\ RowLoc(main')
  BY <1>1, <1>5 DEF DataInv, RowLocOK, RowLoc
<1>18. RowLocOK' /\ \A u \in Thread : Local(u, th[u])'
  BY <1>1, <1>3, <1>16, <1>17, LocalNext
<1>19. Regular(w.val)
  <2>1. world.pageSize \in Nat \ {0} /\ Len(<<>>) = 0 BY Sizes
  <2>2. PICK v : v = w.val OBVIOUS
  <2>3. /\ v.stage = 1 /\ v.loc = Comps /\ v.ids = <<>> /\ v.tasks = <<>>
        /\ ~v.long
    BY <1>5, <2>2
  <2>4. Standard(v) BY ONLY <2>3 DEF Standard
  <2>5. Common(v) BY <2>1, <2>3, <2>4 DEF Common
  <2> QED BY <2>2, <2>3, <2>5 DEF Regular
<1>20. CondOK'
  <2>1. ASSUME NEW u \in Thread PROVE ValOK(u, th[u])'
    <3>1. PICK x : x = th'[u] OBVIOUS
    <3>2. ValOK(t, w) BY <1>5, <1>19, Threads DEF ValOK
    <3>3. ValOK(u, x) BY <1>8, <1>9, <3>1, <3>2
    <3>4. ValOK(u, x)' BY <1>1, <3>3, SameThread
    <3> QED BY <3>1, <3>4
  <2>2. NewOK' BY <1>1, <1>5, <1>7, <1>8, <1>9, IdleFacts DEF NewOK
  <2>3. \A k : Upcoming(k)' BY <1>5, <1>8 DEF Upcoming
  <2>4. Laid' BY <1>5, <1>8, <1>10, <1>11, <2>3 DEF Laid, PageOK, Pristine
  <2> QED BY <2>1, <2>2, <2>4 DEF CondOK
<1>21. NoTasksOK'
  <2>1. main'.tasks = <<>> BY <1>11 DEF None
  <2>2. \A k \in 1 .. MaxPage' : pages'[k].tasks = <<>>
    BY <1>10 DEF Pristine, NoPage
  <2> QED BY <1>5, <1>8, <1>9, <2>1, <2>2 DEF NoTasksOK
<1> QED BY <1>12, <1>13, <1>14, <1>15, <1>18, <1>20, <1>21 DEF DataInv

-----------------------------------------------------------------------------
(***************************************************************************)
(* The theorems about what is read again                                   *)
(***************************************************************************)
LEMMA InitData == Init => DataInv
<1> SUFFICES ASSUME Init PROVE DataInv OBVIOUS
<1>1. /\ main = None /\ clock = 0 /\ rows = {} /\ acked = FALSE
      /\ settled = FALSE /\ th = [t \in Thread |-> Idle]
      /\ pages = [k \in 1 .. MaxPage |-> NoPage]
  BY DEF Init
<1>2. Inv /\ world \in World BY InitInv, InWorld
<1>3. \A t \in Thread : th[t] = Idle BY <1>1
<1>4. worker = Idle BY <1>3, Threads DEF worker
<1>5. \A t \in Thread : /\ Local(t, th[t]) /\ RowLoc(th[t].val)
                        /\ th[t].pc = "idle"
  <2>1. PICK x : x = Idle OBVIOUS
  <2>2. "none" \in {"none", "run", "touch"} OBVIOUS
  <2> QED BY <1>2, <1>3, <2>1, <2>2, RestFacts, IdleFacts
<1>6. worker.job = "none" /\ worker.pc = "idle" BY <1>4, IdleFacts
<1>7. ~Live BY <1>1, <1>6 DEF Live
<1>8. Pristine BY <1>1 DEF Pristine
<1>9. StartOK BY <1>1, <1>3, <1>5, <1>6, <1>8, Threads DEF StartOK
<1>10. SharedOK
  <2>1. None \in Record BY <1>2, Sizes DEF None, Record
  <2>2. NoPage \in Page BY <1>2, Sizes DEF NoPage, Page
  <2> QED BY <1>1, <2>1, <2>2 DEF SharedOK
<1>11. VerOK BY <1>5 DEF VerOK
<1>12. RowLocOK
  <2>1. RowLoc(main) BY <1>1, IdleFacts DEF RowLoc
  <2> QED BY <1>5, <2>1 DEF RowLocOK
<1>13. /\ RowsOK /\ FinalOK /\ CondOK /\ NoTasksOK /\ AllTasksOK /\ StoringOK
       /\ SettledOK
  BY <1>6, <1>7 DEF RowsOK, FinalOK, CondOK, NoTasksOK, AllTasksOK, StoringOK,
                    SettledOK, Kept, Cond, Clean, Ending
<1> QED BY <1>5, <1>9, <1>10, <1>11, <1>12, <1>13 DEF DataInv

LEMMA NextData == ASSUME Inv, DataInv, [Next]_vars PROVE DataInv'
<1>1. CASE UNCHANGED vars BY <1>1, StutterData
<1>2. ASSUME NEW t \in Thread, StorageStep(t) PROVE DataInv'
  BY <1>2, PutData, MainFailsData, PutPageData, PageFailsData, TASData,
     SelectData, UpsertData, GetData, GetPagesData, ExitsData, DeleteData,
     DeleteFailsData
  DEF StorageStep
<1>3. ASSUME NEW t \in Thread, Crash(t) PROVE DataInv' BY <1>3, ExitsData
<1>4. CASE Trigger BY <1>4, TriggerData
<1>5. CASE TriggerDone BY <1>5, TriggerDoneData
<1>6. CASE Setup BY <1>6, SetupData
<1>7. CASE ReGet BY <1>7, ReGetData
<1>8. CASE StoreDone BY <1>8, StoreDoneData
<1>9. CASE FinalDone BY <1>9, FinalDoneData
<1>10. CASE TouchStart BY <1>10, TouchStartData
<1>11. CASE TouchTAS BY <1>11, TouchTASData
<1>12. CASE TouchDone BY <1>12, TouchDoneData
<1>13. ASSUME NEW r \in Reapers, Reap(r) \/ Pickup(r) \/ DeleteDone(r)
       PROVE  DataInv'
  BY <1>13, ReapData, PickupData, DeleteDoneData
<1> QED BY <1>1, <1>2, <1>3, <1>4, <1>5, <1>6, <1>7, <1>8, <1>9, <1>10, <1>11,
           <1>12, <1>13 DEF Next

LEMMA AlwaysData == Spec => [](Inv /\ DataInv)
<1>1. Init => Inv /\ DataInv BY InitInv, InitData
<1>2. Inv /\ DataInv /\ [Next]_vars => (Inv /\ DataInv)'
  BY NextInv, NextData
<1> QED BY <1>1, <1>2, PTL DEF Spec

\* For any number of components, page size and size limit, with any number of
\* reapers, crashes and failed calls: once compressAndCompleteTransition has
\* stored the final version of an accepted transition and deleted its tasks,
\* cutting it with breakIntoPagesIfNeeded and joining it in GetTransition
\* gives the result of every component, unless a page or a row went over
\* a newer version, an abort had read the record while it was being created,
\* or the half pages of pageTasks are used.
THEOREM FullSet == Spec => []FullUnlessClobbered
<1>1. ASSUME Inv, DataInv PROVE FullUnlessClobbered
  <2> SUFFICES ASSUME ~clobbered, ~early, ~HalfPages, acked, settled,
                      removal = "no"
               PROVE  Whole
    BY DEF FullUnlessClobbered, FullTaskSet
  <2>1. Ending BY DEF Ending, Clean, Live
  <2> QED BY <1>1, <2>1 DEF DataInv, SettledOK
<1>2. Inv /\ DataInv => FullUnlessClobbered BY <1>1
<1> QED BY <1>2, AlwaysData, PTL

\* For any number of components, page size and size limit: the worker that
\* starts an accepted transition, and one that continues it after a crash,
\* reads all of its Location (setupTransitionTasks leaves no component out),
\* whatever crashes, failed calls, refreshes and reapers did to the record in
\* between, if its versions are cut into pages alike.
THEOREM Located == Spec => []LocationsKept
<1>1. ASSUME Inv, DataInv PROVE LocationsKept
  <2> SUFFICES ASSUME worker.pc = "got", worker.val.stage < 3, acked, ~early,
                      SameCut \/ (SameCutBefore /\ ~clobbered)
               PROVE  ToSet(worker.val.loc) = 1 .. world.n
    BY DEF LocationsKept, worker
  <2> /\ "worker" \in Thread /\ world \in World
      /\ ThreadOK("worker", worker) /\ worker = th["worker"]
    BY <1>1, Threads, InWorld, Types DEF worker
  <2>1. worker.val.loc = Comps
    <3>1. CASE Etcd
      <4>1. ~Ended BY <3>1 DEF ThreadOK, EndedOK, Sound
      <4>2. Cond BY <3>1, <4>1 DEF Cond, Kept, Live
      <4>3. ValOK("worker", th["worker"])
        BY <1>1, <4>2 DEF DataInv, CondOK
      <4> QED BY <4>3 DEF ValOK, Regular
    <3>2. CASE ~Etcd
      <4>1. worker.val.stage >= 1 BY DEF ThreadOK, LocalOK
      <4> QED BY <1>1, <3>2, <4>1 DEF DataInv, RowLocOK, RowLoc
    <3> QED BY <3>1, <3>2
  <2> QED BY <2>1, AllComps
<1>2. Inv /\ DataInv => LocationsKept BY <1>1
<1> QED BY <1>2, AlwaysData, PTL
===============================================================================
