--------------------------- MODULE ScopeCodegenProofs ---------------------------
(***************************************************************************)
(* Theorems about ScopeCodegen, for functions of any size: the stacks of   *)
(* CodegenContext are those of the statements being visited, and the       *)
(* clean-up code that is emitted does what semantics.md promises.          *)
(***************************************************************************)
EXTENDS ScopeCodegen, FiniteSetTheorems, SequenceTheorems, WellFoundedInduction, TLAPS

-------------------------------------------------------------------------------
(* Positions and sequences.                                                *)

\* A set of positions that is not empty has a first one.
LEMMA FirstExists ==
    ASSUME NEW S \in SUBSET Nat, S # {}
    PROVE  \E i \in S : \A j \in S : i <= j
<1> DEFINE Below == {p \in Nat \X Nat : p[1] < p[2]}
<1>1. IsWellFoundedOn(Below, Nat)
  <2>1. Below = OpToRel(<, Nat)
    BY Zenon DEF OpToRel
  <2>2. QED
    BY <2>1, NatLessThanWellFounded
<1>2. PICK i \in S : \A j \in S : <<j, i>> \notin Below
  <2> HIDE DEF Below
  <2>1. QED
    BY <1>1, WFMin
<1>3. ASSUME NEW j \in S
      PROVE  i <= j
  <2>1. <<j, i>> \in Nat \X Nat /\ <<j, i>> \notin Below
    BY <1>2
  <2>2. ~(j < i)
    BY <2>1
  <2>3. QED
    BY <2>2
<1>4. QED
  BY <1>3

\* A set of positions in 1..n that is not empty has a last one.
LEMMA LastExists ==
    ASSUME NEW n \in Nat, NEW S \in SUBSET (1..n), S # {}
    PROVE  \E i \in S : \A j \in S : j <= i
<1> DEFINE T == {m \in Nat : m <= n /\ n - m \in S}
<1>1. T \in SUBSET Nat
  OBVIOUS
<1>2. T # {}
  <2>1. PICK i \in S : TRUE
    OBVIOUS
  <2>2. i \in 1..n
    BY <2>1
  <2>3. n - i \in Nat /\ n - i <= n /\ n - (n - i) = i
    BY <2>2
  <2>4. n - i \in T
    BY <2>1, <2>3
  <2>5. QED
    BY <2>4
<1>3. PICK m \in T : \A l \in T : m <= l
  <2> HIDE DEF T
  <2>1. QED
    BY <1>1, <1>2, FirstExists
<1>4. ASSUME NEW j \in S
      PROVE  j <= n - m
  <2>1. j \in 1..n
    OBVIOUS
  <2>2. n - j \in Nat /\ n - j <= n /\ n - (n - j) = j
    BY <2>1
  <2>3. n - j \in T
    BY <2>2
  <2>4. m <= n - j
    BY <1>3, <2>3
  <2>5. QED
    BY <2>1, <2>4, <1>1
<1>5. QED
  BY <1>3, <1>4

\* A sequence without its last element.
LEMMA FrontFacts ==
    ASSUME NEW S, NEW s \in Seq(S), Len(s) \in Nat \ {0},
           NEW t, t = Front(s)
    PROVE  /\ t \in Seq(S) /\ Len(t) = Len(s) - 1
           /\ \A i \in 1..(Len(s) - 1) : t[i] = s[i]
<1>1. PICK n \in Nat : n = Len(s) - 1
  OBVIOUS
<1>2. \A i \in 1..n : s[i] \in S
  BY <1>1, ElementOfSeq
<1>3. /\ t \in Seq(S) /\ Len(t) = IF 1 <= n THEN n - 1 + 1 ELSE 0
      /\ \A i \in 1..(n - 1 + 1) : t[i] = s[1 + i - 1]
  <2>1. t = SubSeq(s, 1, n)
    BY <1>1 DEF Front
  <2>2. QED
    BY <1>2, <2>1, SubSeqProperties
<1>4. Len(t) = n
  BY <1>3
<1>5. ASSUME NEW i \in 1..n
      PROVE  t[i] = s[i]
  <2>1. i \in 1..(n - 1 + 1) /\ 1 + i - 1 = i
    OBVIOUS
  <2>2. t[i] = s[1 + i - 1]
    BY <1>3, <2>1
  <2>3. QED
    BY <2>1, <2>2
<1>6. QED
  BY <1>1, <1>3, <1>4, <1>5

Flattens(s, g) ==
    g = [i \in 1..Len(s) |-> IF i = 1 THEN s[i] ELSE g[i - 1] \o s[i]]

LEMMA FlatteningExists ==
    ASSUME NEW S, NEW s \in Seq(S)
    PROVE  \E g : Flattens(s, g)
<1> DEFINE Done(g, m) == /\ g = [i \in 1..Len(s) |-> g[i]]
                         /\ \A i \in 1..m : g[i] = IF i = 1 THEN s[i] ELSE g[i - 1] \o s[i]
           Bad == {m \in 0..Len(s) : ~(\E g : Done(g, m))}
<1>1. PICK n \in Nat : n = Len(s)
  OBVIOUS
<1>2. Bad = {}
  <2>1. SUFFICES ASSUME Bad # {} PROVE FALSE
    OBVIOUS
  <2>2. Bad \in SUBSET Nat
    BY <1>1
  <2>3. PICK m \in Bad : \A j \in Bad : m <= j
    <3> HIDE DEF Bad
    <3>1. QED
      BY <2>1, <2>2, FirstExists
  <2>4. m \in 0..n /\ m \in Nat
    BY <1>1
  <2>5. CASE m = 0
    <3>1. PICK g : g = [i \in 1..n |-> s[i]]
      OBVIOUS
    <3>2. g = [i \in 1..n |-> g[i]]
      BY <3>1
    <3>3. \A i \in 1..m : g[i] = IF i = 1 THEN s[i] ELSE g[i - 1] \o s[i]
      BY <2>5
    <3>4. Done(g, m)
      BY <1>1, <3>2, <3>3
    <3>5. QED
      BY <3>4
  <2>6. CASE m > 0
    <3>1. m - 1 \in 0..n /\ m - 1 \notin Bad
      BY <1>1, <2>3, <2>4, <2>6
    <3>2. PICK g : Done(g, m - 1)
      BY <1>1, <3>1
    <3>3. PICK w : w = IF m = 1 THEN s[m] ELSE g[m - 1] \o s[m]
      OBVIOUS
    <3>4. PICK h : h = [i \in 1..n |-> IF i = m THEN w ELSE g[i]]
      OBVIOUS
    <3>5. h = [i \in 1..n |-> h[i]] /\ h[m] = w
      BY <2>4, <2>6, <3>4
    <3>6. \A i \in 1..(m - 1) : h[i] = g[i]
      BY <2>4, <3>4
    <3>7. ASSUME NEW i \in 1..m
          PROVE  h[i] = IF i = 1 THEN s[i] ELSE h[i - 1] \o s[i]
      <4>1. CASE i = m
        <5>1. m # 1 => m - 1 \in 1..(m - 1)
          BY <2>4, <2>6
        <5>2. m # 1 => h[m - 1] = g[m - 1]
          BY <3>6, <5>1
        <5>3. QED
          BY <3>3, <3>5, <4>1, <5>2
      <4>2. CASE i # m
        <5>1. i \in 1..(m - 1) /\ (i # 1 => i - 1 \in 1..(m - 1))
          BY <2>4, <4>2
        <5>2. g[i] = IF i = 1 THEN s[i] ELSE g[i - 1] \o s[i]
          BY <3>2, <5>1
        <5>3. h[i] = g[i] /\ (i # 1 => h[i - 1] = g[i - 1])
          BY <3>6, <5>1
        <5>4. QED
          BY <5>2, <5>3
      <4>3. QED
        BY <4>1, <4>2
    <3>8. Done(h, m)
      BY <1>1, <3>5, <3>7
    <3>9. QED
      BY <3>8
  <2>7. QED
    BY <2>4, <2>5, <2>6
<1>3. PICK g : Done(g, n)
  BY <1>1, <1>2
<1>4. /\ g = [i \in 1..n |-> g[i]]
      /\ \A i \in 1..n : g[i] = IF i = 1 THEN s[i] ELSE g[i - 1] \o s[i]
  BY <1>1, <1>3
<1>5. g = [i \in 1..n |-> IF i = 1 THEN s[i] ELSE g[i - 1] \o s[i]]
  BY <1>4
<1>6. QED
  BY <1>1, <1>5 DEF Flattens

\* FlattenSeq takes the last value of such a function.
LEMMA FlattenSeqIs ==
    ASSUME NEW S, NEW s \in Seq(S), Len(s) # 0
    PROVE  \E g : Flattens(s, g) /\ FlattenSeq(s) = g[Len(s)]
<1>1. PICK g : g = CHOOSE h : Flattens(s, h)
  OBVIOUS
<1>2. Flattens(s, g)
  BY <1>1, FlatteningExists
<1>3. FlattenSeq(s) = g[Len(s)]
  BY <1>1 DEF FlattenSeq, Flattens
<1>4. QED
  BY <1>2, <1>3

\* Two such functions agree as far as the sequences do.
AgreeUpTo(s, t, n) == n <= Len(s) /\ n <= Len(t) /\ \A i \in 1..n : s[i] = t[i]

LEMMA FlatteningsAgree ==
    ASSUME NEW S, NEW s \in Seq(S), NEW t \in Seq(S), NEW n \in Nat,
           AgreeUpTo(s, t, n),
           NEW g, Flattens(s, g), NEW h, Flattens(t, h)
    PROVE  \A i \in 1..n : g[i] = h[i]
<1> DEFINE Bad == {i \in 1..n : g[i] # h[i]}
<1>0. Len(s) \in Nat /\ Len(t) \in Nat /\ n <= Len(s) /\ n <= Len(t)
      /\ \A i \in 1..n : s[i] = t[i]
  BY DEF AgreeUpTo
<1>1. /\ \A i \in 1..n : g[i] = IF i = 1 THEN s[i] ELSE g[i - 1] \o s[i]
      /\ \A i \in 1..n : h[i] = IF i = 1 THEN t[i] ELSE h[i - 1] \o t[i]
  <2>1. \A i \in 1..n : i \in 1..Len(s) /\ i \in 1..Len(t)
    BY <1>0
  <2>2. QED
    BY <2>1 DEF Flattens
<1>2. Bad = {}
  <2>1. SUFFICES ASSUME Bad # {} PROVE FALSE
    OBVIOUS
  <2>2. Bad \in SUBSET Nat
    OBVIOUS
  <2>3. PICK m \in Bad : \A j \in Bad : m <= j
    <3> HIDE DEF Bad
    <3>1. QED
      BY <2>1, <2>2, FirstExists
  <2>4. m \in 1..n /\ g[m] # h[m]
    OBVIOUS
  <2>5. CASE m = 1
    BY <1>0, <1>1, <2>4, <2>5
  <2>6. CASE m # 1
    <3>1. m - 1 \in 1..n /\ m - 1 \notin Bad
      BY <2>3, <2>4, <2>6
    <3>2. g[m - 1] = h[m - 1] /\ s[m] = t[m]
      BY <1>0, <2>4, <3>1
    <3>3. g[m] = g[m - 1] \o s[m] /\ h[m] = h[m - 1] \o t[m]
      BY <1>1, <2>4, <2>6
    <3>4. QED
      BY <2>4, <3>2, <3>3
  <2>7. QED
    BY <2>5, <2>6
<1>3. QED
  BY <1>2

LEMMA FlattenNone ==
    ASSUME NEW T, NEW s \in Seq(Seq(T)), Len(s) = 0
    PROVE  FlattenSeq(s) = <<>>
BY EmptySeq DEF FlattenSeq

\* What the last sequence adds.
LEMMA FlattenLast ==
    ASSUME NEW T, NEW s \in Seq(Seq(T)), NEW t \in Seq(Seq(T)),
           Len(s) = Len(t) + 1, \A i \in 1..Len(t) : t[i] = s[i],
           FlattenSeq(t) \in Seq(T)
    PROVE  FlattenSeq(s) = FlattenSeq(t) \o s[Len(s)] /\ FlattenSeq(s) \in Seq(T)
<1>1. PICK n \in Nat : n = Len(t) /\ Len(s) = n + 1
  OBVIOUS
<1>2. s[n + 1] \in Seq(T)
  BY <1>1, ElementOfSeq
<1>3. PICK g : Flattens(s, g) /\ FlattenSeq(s) = g[n + 1]
  <2>1. Len(s) # 0
    BY <1>1
  <2>2. QED
    BY <1>1, <2>1, FlattenSeqIs
<1>4. g[n + 1] = IF n + 1 = 1 THEN s[n + 1] ELSE g[n + 1 - 1] \o s[n + 1]
  <2>1. PICK m \in 1..Len(s) : m = n + 1
    BY <1>1
  <2>2. g[m] = IF m = 1 THEN s[m] ELSE g[m - 1] \o s[m]
    BY <1>3 DEF Flattens
  <2>3. QED
    BY <2>1, <2>2
<1>5. CASE n = 0
  <2>1. FlattenSeq(t) = <<>>
    BY <1>1, <1>5, FlattenNone
  <2>2. FlattenSeq(s) = s[n + 1]
    BY <1>3, <1>4, <1>5
  <2>3. <<>> \o s[n + 1] = s[n + 1]
    BY <1>2, ConcatEmptySeq
  <2>4. QED
    BY <1>1, <1>2, <2>1, <2>2, <2>3
<1>6. CASE n # 0
  <2>1. PICK h : Flattens(t, h) /\ FlattenSeq(t) = h[n]
    BY <1>1, <1>6, FlattenSeqIs
  <2>2. \A i \in 1..n : g[i] = h[i]
    <3>1. \A i \in 1..n : s[i] = t[i]
      BY <1>1
    <3>2. n <= Len(s) /\ n <= Len(t)
      BY <1>1
    <3>3. PICK S : S = Seq(T)
      OBVIOUS
    <3>4. s \in Seq(S) /\ t \in Seq(S)
      BY <3>3
    <3>5. Flattens(s, g) /\ Flattens(t, h)
      BY <1>3, <2>1
    <3>6. AgreeUpTo(s, t, n)
      BY <3>1, <3>2 DEF AgreeUpTo
    <3>7. QED
      BY <3>4, <3>5, <3>6, FlatteningsAgree
  <2>3. g[n] = h[n] /\ n + 1 # 1 /\ n + 1 - 1 = n
    BY <1>6, <2>2
  <2>4. FlattenSeq(s) = FlattenSeq(t) \o s[n + 1]
    BY <1>3, <1>4, <2>1, <2>3
  <2>5. FlattenSeq(t) \o s[n + 1] \in Seq(T)
    BY <1>2, ConcatProperties
  <2>6. QED
    BY <1>1, <2>4, <2>5
<1>7. QED
  BY <1>5, <1>6

LEMMA FunctionIsSeq ==
    ASSUME NEW S, NEW n \in Nat, NEW s \in [1..n -> S]
    PROVE  s \in Seq(S) /\ Len(s) = n
<1>1. s \in Seq(S)
  BY SeqDef
<1>2. DOMAIN s = 1..n /\ DOMAIN s = 1..Len(s) /\ Len(s) \in Nat
  BY <1>1
<1>3. QED
  BY <1>1, <1>2

LEMMA ListedFacts ==
    ASSUME NEW S, NEW n \in Nat, NEW s, s = [i \in 1..n |-> s[i]],
           \A i \in 1..n : s[i] \in S
    PROVE  s \in Seq(S) /\ Len(s) = n
<1>1. s \in [1..n -> S]
  OBVIOUS
<1>2. QED
  BY <1>1, FunctionIsSeq

LEMMA ReverseFacts ==
    ASSUME NEW S, NEW s \in Seq(S), NEW r, r = Reverse(s)
    PROVE  /\ r \in Seq(S) /\ Len(r) = Len(s)
           /\ \A i \in 1..Len(s) : r[i] = s[Len(s) - i + 1]
<1>1. PICK n \in Nat : n = Len(s)
  OBVIOUS
<1>2. r = [i \in 1..n |-> s[(n - i) + 1]]
  BY <1>1 DEF Reverse
<1>3. ASSUME NEW i \in 1..n
      PROVE  r[i] = s[n - i + 1] /\ r[i] \in S
  <2>1. n - i + 1 \in 1..n
    OBVIOUS
  <2>2. s[n - i + 1] \in S
    BY <1>1, <2>1, ElementOfSeq
  <2>3. QED
    BY <1>2, <2>2
<1>4. r = [i \in 1..n |-> r[i]]
  BY <1>2
<1>5. r \in Seq(S) /\ Len(r) = n
  <2>1. \A i \in 1..n : r[i] \in S
    BY <1>3
  <2>2. QED
    BY <1>4, <2>1, ListedFacts
<1>6. QED
  BY <1>1, <1>3, <1>5

LEMMA ConcatFacts ==
    ASSUME NEW S, NEW s \in Seq(S), NEW t \in Seq(S), NEW u, u = s \o t
    PROVE  /\ u \in Seq(S) /\ Len(u) = Len(s) + Len(t)
           /\ \A i \in 1..Len(s) : u[i] = s[i]
           /\ \A i \in 1..Len(t) : u[Len(s) + i] = t[i]
<1>1. PICK n \in Nat : n = Len(s)
  OBVIOUS
<1>2. PICK m \in Nat : m = Len(t)
  OBVIOUS
<1>3. /\ u \in Seq(S) /\ Len(u) = n + m
      /\ \A i \in 1..(n + m) : u[i] = IF i <= n THEN s[i] ELSE t[i - n]
  BY <1>1, <1>2, ConcatProperties
<1>4. \A i \in 1..n : u[i] = s[i]
  BY <1>3
<1>5. ASSUME NEW i \in 1..m
      PROVE  u[n + i] = t[i]
  <2>1. n + i \in 1..(n + m) /\ ~(n + i <= n) /\ n + i - n = i
    OBVIOUS
  <2>2. PICK j : j = n + i
    OBVIOUS
  <2>3. j \in 1..(n + m) /\ ~(j <= n) /\ j - n = i
    BY <2>1, <2>2
  <2>4. u[j] = IF j <= n THEN s[j] ELSE t[j - n]
    BY <1>3, <2>3
  <2>5. QED
    BY <2>2, <2>3, <2>4
<1>6. QED
  BY <1>1, <1>2, <1>3, <1>4, <1>5

\* The first m of the elements of s.
FirstOf(s, m) == [i \in 1..m |-> s[i]]

\* A sequence of sequences, flattened up to each of its elements.
LEMMA FlattenPrefixes ==
    ASSUME NEW T, NEW s \in Seq(Seq(T))
    PROVE  /\ FlattenSeq(FirstOf(s, 0)) = <<>>
           /\ \A m \in 0..Len(s) : FlattenSeq(FirstOf(s, m)) \in Seq(T)
           /\ \A m \in 1..Len(s) :
                 FlattenSeq(FirstOf(s, m)) = FlattenSeq(FirstOf(s, m - 1)) \o s[m]
           /\ FirstOf(s, Len(s)) = s
<1>1. PICK n \in Nat : n = Len(s)
  OBVIOUS
<1>2. \A i \in 1..n : s[i] \in Seq(T)
  BY <1>1, ElementOfSeq
<1>3. ASSUME NEW m \in 0..n
      PROVE  /\ FirstOf(s, m) \in Seq(Seq(T)) /\ Len(FirstOf(s, m)) = m
             /\ \A i \in 1..m : FirstOf(s, m)[i] = s[i]
  <2>1. PICK t : t = FirstOf(s, m)
    OBVIOUS
  <2>2. m \in Nat /\ t = [i \in 1..m |-> s[i]]
    BY <2>1 DEF FirstOf
  <2>3. \A i \in 1..m : t[i] = s[i] /\ i \in 1..n
    BY <2>2
  <2>4. t = [i \in 1..m |-> t[i]] /\ \A i \in 1..m : t[i] \in Seq(T)
    BY <1>2, <2>2, <2>3
  <2>5. PICK S : S = Seq(T)
    OBVIOUS
  <2>6. t \in Seq(S) /\ Len(t) = m
    <3>1. m \in Nat /\ t \in [1..m -> S]
      BY <2>2, <2>4, <2>5
    <3>2. QED
      BY <3>1, FunctionIsSeq
  <2>7. QED
    BY <2>1, <2>3, <2>5, <2>6
<1>4. FlattenSeq(FirstOf(s, 0)) = <<>>
  <2>1. FirstOf(s, 0) \in Seq(Seq(T)) /\ Len(FirstOf(s, 0)) = 0
    BY <1>3
  <2>2. QED
    BY <2>1, FlattenNone
<1>5. ASSUME NEW m \in 1..n, FlattenSeq(FirstOf(s, m - 1)) \in Seq(T)
      PROVE  /\ FlattenSeq(FirstOf(s, m)) = FlattenSeq(FirstOf(s, m - 1)) \o s[m]
             /\ FlattenSeq(FirstOf(s, m)) \in Seq(T)
  <2>1. m \in 0..n /\ m - 1 \in 0..n /\ m \in 1..m /\ \A i \in 1..(m - 1) : i \in 1..m
    OBVIOUS
  <2>2. PICK u \in Seq(Seq(T)) : u = FirstOf(s, m) /\ Len(u) = m /\ \A i \in 1..m : u[i] = s[i]
    BY <1>3, <2>1
  <2>3. PICK t \in Seq(Seq(T)) :
            t = FirstOf(s, m - 1) /\ Len(t) = m - 1 /\ \A i \in 1..(m - 1) : t[i] = s[i]
    BY <1>3, <2>1
  <2>4. \A i \in 1..Len(t) : t[i] = u[i]
    BY <2>1, <2>2, <2>3
  <2>5. Len(u) = Len(t) + 1 /\ FlattenSeq(t) \in Seq(T)
    BY <1>5, <2>2, <2>3
  <2>6. FlattenSeq(u) = FlattenSeq(t) \o u[Len(u)] /\ FlattenSeq(u) \in Seq(T)
    BY <2>4, <2>5, FlattenLast
  <2>7. u[m] = s[m]
    BY <2>1, <2>2
  <2>8. QED
    BY <2>2, <2>3, <2>6, <2>7
<1>6. \A m \in 0..n : FlattenSeq(FirstOf(s, m)) \in Seq(T)
  <2> DEFINE Bad == {m \in 0..n : FlattenSeq(FirstOf(s, m)) \notin Seq(T)}
  <2>1. SUFFICES ASSUME Bad # {} PROVE FALSE
    OBVIOUS
  <2>2. Bad \in SUBSET Nat
    OBVIOUS
  <2>3. PICK m \in Bad : \A j \in Bad : m <= j
    <3> HIDE DEF Bad
    <3>1. QED
      BY <2>1, <2>2, FirstExists
  <2>4. m \in 0..n /\ FlattenSeq(FirstOf(s, m)) \notin Seq(T)
    OBVIOUS
  <2>5. m # 0
    BY <1>4, <2>4, EmptySeq
  <2>6. m - 1 \in 0..n /\ m - 1 \notin Bad /\ m \in 1..n
    BY <2>3, <2>4, <2>5
  <2>7. FlattenSeq(FirstOf(s, m - 1)) \in Seq(T)
    BY <2>6
  <2>8. QED
    BY <1>5, <2>4, <2>6, <2>7
<1>7. ASSUME NEW m \in 1..n
      PROVE  FlattenSeq(FirstOf(s, m)) = FlattenSeq(FirstOf(s, m - 1)) \o s[m]
  <2>1. m - 1 \in 0..n
    OBVIOUS
  <2>2. FlattenSeq(FirstOf(s, m - 1)) \in Seq(T)
    BY <1>6, <2>1
  <2>3. QED
    BY <1>5, <2>2
<1>8. FirstOf(s, n) = s
  <2>1. s = [i \in 1..n |-> s[i]]
    BY <1>1
  <2>2. QED
    BY <2>1 DEF FirstOf
<1>9. QED
  BY <1>1, <1>4, <1>6, <1>7, <1>8

\* What is flattened has the elements of what it is made of.
LEMMA FlattenType ==
    ASSUME NEW T, NEW s \in Seq(Seq(T))
    PROVE  FlattenSeq(s) \in Seq(T)
<1>1. PICK n \in Nat : n = Len(s)
  OBVIOUS
<1>2. n \in 0..Len(s)
  BY <1>1
<1>3. FlattenSeq(FirstOf(s, n)) \in Seq(T) /\ FirstOf(s, Len(s)) = s
  BY <1>2, FlattenPrefixes
<1>4. QED
  BY <1>1, <1>3

-------------------------------------------------------------------------------
(* The statements being visited and the stacks beside them.                 *)

Statement == [k : Kinds, id : 0..MaxStmts, alt : BOOLEAN, pend : BOOLEAN,
              phase : {"init", "cond", "body", "after"}]

\* The recursions codegen() can have: a function with its block, and inside the
\* block statements of which only the innermost is not at its body.
Nested(c) ==
    /\ c \in Seq(Statement)
    /\ \A i \in 1..Len(c) : c[i].k = "fn" <=> i = 1
    /\ Len(c) > 1 => c[2].k = "compound"
    /\ \A i \in 1..Len(c) :
          (i < Len(c) \/ c[i].k \in {"compound", "switch"}) => c[i].phase = "body"

\* How many of the n outermost statements are of one of the kinds K: each block has
\* an entry on the defer stack, each statement of Scoped a Scope.
CountIn(c, n, K) == Cardinality({i \in 1..n : c[i].k \in K})
Blocks    == {"compound"}
Scoped    == {"fn", "compound", "for", "lambda"}
Breakable == {"loop", "for", "switch"}
Loops     == {"loop", "for"}

\* The targets in b are the statements of c of the kinds K, in their order.
Targets(c, b, K) ==
    /\ b \in Seq([frame : Nat, boundary : Nat])
    /\ \A i \in 1..Len(b) :
          /\ b[i].frame \in 1..Len(c) /\ c[b[i].frame].k \in K
          /\ b[i].boundary = CountIn(c, b[i].frame, Blocks)
    /\ \A i, j \in 1..Len(b) : i < j => b[i].frame < b[j].frame
    /\ \A n \in 1..Len(c) : c[n].k \in K => \E i \in 1..Len(b) : b[i].frame = n

LEMMA CountType ==
    ASSUME NEW c, NEW n \in Nat, NEW K
    PROVE  CountIn(c, n, K) \in Nat /\ IsFiniteSet({i \in 1..n : c[i].k \in K})
<1>1. IsFiniteSet(1..n)
  BY FS_Interval
<1>2. PICK S : S = {i \in 1..n : c[i].k \in K}
  OBVIOUS
<1>3. S \subseteq 1..n
  BY <1>2
<1>4. IsFiniteSet(S) /\ Cardinality(S) \in Nat
  BY <1>1, <1>3, FS_Subset, FS_CardinalityType
<1>5. CountIn(c, n, K) = Cardinality(S)
  BY <1>2 DEF CountIn
<1>6. IsFiniteSet({i \in 1..n : c[i].k \in K})
  BY <1>2, <1>4
<1>7. QED
  BY <1>4, <1>5, <1>6

LEMMA CountNext ==
    ASSUME NEW c, NEW n \in Nat, NEW K
    PROVE  CountIn(c, n + 1, K) = IF c[n + 1].k \in K THEN CountIn(c, n, K) + 1
                                  ELSE CountIn(c, n, K)
<1>1. PICK S : S = {i \in 1..n : c[i].k \in K}
  OBVIOUS
<1>2. IsFiniteSet(S) /\ n + 1 \notin S
  <2>1. IsFiniteSet(S)
    BY <1>1, CountType
  <2>2. QED
    BY <1>1, <2>1
<1>3. CASE c[n + 1].k \in K
  <2>1. {i \in 1..(n + 1) : c[i].k \in K} = S \cup {n + 1}
    BY <1>1, <1>3
  <2>2. Cardinality(S \cup {n + 1}) = Cardinality(S) + 1
    BY <1>2, FS_AddElement
  <2>3. QED
    BY <1>1, <1>3, <2>1, <2>2 DEF CountIn
<1>4. CASE ~(c[n + 1].k \in K)
  <2>1. {i \in 1..(n + 1) : c[i].k \in K} = S
    BY <1>1, <1>4
  <2>2. QED
    BY <1>1, <1>4, <2>1 DEF CountIn
<1>5. QED
  BY <1>3, <1>4

\* Only the kinds count.
LEMMA CountSame ==
    ASSUME NEW c, NEW d, NEW n \in Nat, NEW K,
           \A i \in 1..n : c[i].k \in K <=> d[i].k \in K
    PROVE  CountIn(c, n, K) = CountIn(d, n, K)
<1>1. {i \in 1..n : c[i].k \in K} = {i \in 1..n : d[i].k \in K}
  OBVIOUS
<1>2. QED
  BY <1>1 DEF CountIn

LEMMA CountGrows ==
    ASSUME NEW c, NEW n \in Nat, NEW m \in Nat, n <= m, NEW K
    PROVE  /\ CountIn(c, n, K) <= CountIn(c, m, K)
           /\ \A i \in (n + 1)..m : c[i].k \in K => CountIn(c, n, K) < CountIn(c, m, K)
<1>1. PICK S : S = {i \in 1..n : c[i].k \in K}
  OBVIOUS
<1>2. PICK T : T = {i \in 1..m : c[i].k \in K}
  OBVIOUS
<1>3. S \subseteq T /\ IsFiniteSet(T) /\ IsFiniteSet(S)
  <2>1. S \subseteq T
    BY <1>1, <1>2
  <2>2. IsFiniteSet(T)
    BY <1>2, CountType
  <2>3. QED
    BY <2>1, <2>2, FS_Subset
<1>4. /\ Cardinality(S) = CountIn(c, n, K) /\ Cardinality(T) = CountIn(c, m, K)
      /\ Cardinality(S) \in Nat /\ Cardinality(T) \in Nat
  BY <1>1, <1>2, CountType DEF CountIn
<1>5. Cardinality(S) <= Cardinality(T)
  BY <1>3, FS_Subset
<1>6. ASSUME NEW i \in (n + 1)..m, c[i].k \in K
      PROVE  Cardinality(S) < Cardinality(T)
  <2>1. i \in T /\ i \notin S
    BY <1>1, <1>2, <1>6
  <2>2. S # T
    BY <2>1
  <2>3. QED
    BY <1>3, <1>4, <2>2, FS_Subset
<1>7. QED
  BY <1>4, <1>5, <1>6

LEMMA CountNone ==
    ASSUME NEW c, NEW K
    PROVE  CountIn(c, 0, K) = 0
<1>1. {i \in 1..0 : c[i].k \in K} = {}
  OBVIOUS
<1>2. QED
  BY <1>1, FS_EmptySet DEF CountIn

\* The counts of the model are these.
LEMMA OpenBlocksFacts ==
    ASSUME NEW c \in Seq(Statement), NEW n \in 0..Len(c)
    PROVE  OpenBlocks(SubSeq(c, 1, n)) = CountIn(c, n, Blocks)
<1>1. PICK s : s = SubSeq(c, 1, n)
  OBVIOUS
<1>2. n \in Nat /\ \A i \in 1..n : c[i] \in Statement
  BY ElementOfSeq
<1>3. s \in Seq(Statement) /\ Len(s) = n /\ \A i \in 1..n : s[i] = c[i]
  <2>1. /\ s \in Seq(Statement) /\ Len(s) = IF 1 <= n THEN n - 1 + 1 ELSE 0
        /\ \A i \in 1..(n - 1 + 1) : s[i] = c[1 + i - 1]
    BY <1>1, <1>2, SubSeqProperties
  <2>2. QED
    BY <1>2, <2>1
<1>4. DOMAIN s = 1..n
  BY <1>3
<1>5. {i \in DOMAIN s : s[i].k = "compound"} = {i \in 1..n : c[i].k \in Blocks}
  BY <1>3, <1>4 DEF Blocks
<1>6. QED
  BY <1>1, <1>5 DEF OpenBlocks, CountIn

LEMMA AllOpenBlocks ==
    ASSUME NEW c \in Seq(Statement)
    PROVE  OpenBlocks(c) = CountIn(c, Len(c), Blocks)
<1>1. DOMAIN c = 1..Len(c)
  OBVIOUS
<1>2. {i \in DOMAIN c : c[i].k = "compound"} = {i \in 1..Len(c) : c[i].k \in Blocks}
  BY <1>1 DEF Blocks
<1>3. QED
  BY <1>2 DEF OpenBlocks, CountIn

-------------------------------------------------------------------------------
(* What a visit does to the stack of statements.                            *)

Counted == {Blocks, Scoped, Breakable, Loops}

\* The same statements, but that an if may have come to its else-block.
SameKinds(c, d) ==
    /\ Len(d) = Len(c)
    /\ \A i \in 1..Len(c) : d[i].k = c[i].k \/ (c[i].k = "if" /\ d[i].k = "else")

LEMMA KeptCounts ==
    ASSUME NEW c, Nested(c), NEW d, SameKinds(c, d), NEW K \in Counted
    PROVE  /\ \A i \in 1..Len(c) : d[i].k \in K <=> c[i].k \in K
           /\ \A n \in 0..Len(c) : CountIn(d, n, K) = CountIn(c, n, K)
<1>1. Len(c) \in Nat
  BY DEF Nested
<1>2. \A i \in 1..Len(c) : d[i].k \in K <=> c[i].k \in K
  BY DEF SameKinds, Counted, Blocks, Scoped, Breakable, Loops
<1>3. ASSUME NEW n \in 0..Len(c)
      PROVE  CountIn(d, n, K) = CountIn(c, n, K)
  <2>1. n \in Nat /\ \A i \in 1..n : d[i].k \in K <=> c[i].k \in K
    BY <1>1, <1>2
  <2>2. QED
    BY <2>1, CountSame
<1>4. QED
  BY <1>2, <1>3

LEMMA KeptTargets ==
    ASSUME NEW c, Nested(c), NEW d, SameKinds(c, d), NEW K \in Counted,
           NEW b, Targets(c, b, K)
    PROVE  Targets(d, b, K)
<1>1. PICK n \in Nat : n = Len(c) /\ Len(d) = n
  BY DEF Nested, SameKinds
<1>2. PICK m \in Nat : m = Len(b) /\ b \in Seq([frame : Nat, boundary : Nat])
  BY DEF Targets
<1>3. \A i \in 1..n : d[i].k \in K <=> c[i].k \in K
  BY <1>1, KeptCounts
<1>4. Blocks \in Counted
  BY DEF Counted
<1>5. \A l \in 0..n : CountIn(d, l, Blocks) = CountIn(c, l, Blocks)
  BY <1>1, <1>4, KeptCounts
<1>6. ASSUME NEW i \in 1..m
      PROVE  /\ b[i].frame \in 1..n /\ d[b[i].frame].k \in K
             /\ b[i].boundary = CountIn(d, b[i].frame, Blocks)
  <2>1. PICK l \in 1..n : l = b[i].frame
    BY <1>1, <1>2 DEF Targets
  <2>2. c[l].k \in K /\ b[i].boundary = CountIn(c, l, Blocks)
    BY <1>2, <2>1 DEF Targets
  <2>3. d[l].k \in K
    BY <1>3, <2>2
  <2>4. CountIn(d, l, Blocks) = CountIn(c, l, Blocks)
    BY <1>5
  <2>5. QED
    BY <2>1, <2>2, <2>3, <2>4
<1>7. ASSUME NEW l \in 1..n, d[l].k \in K
      PROVE  \E i \in 1..m : b[i].frame = l
  <2>1. c[l].k \in K
    BY <1>3, <1>7
  <2>2. QED
    BY <1>1, <1>2, <2>1 DEF Targets
<1>8. \A i, j \in 1..m : i < j => b[i].frame < b[j].frame
  BY <1>2 DEF Targets
<1>9. QED
  BY <1>1, <1>2, <1>6, <1>7, <1>8 DEF Targets

\* One statement more.
Extended(c, f, d) ==
    /\ d \in Seq(Statement) /\ Len(d) = Len(c) + 1 /\ d[Len(c) + 1] = f
    /\ \A i \in 1..Len(c) : d[i] = c[i]

LEMMA AppendExtends ==
    ASSUME NEW c \in Seq(Statement), NEW f \in Statement
    PROVE  Extended(c, f, Append(c, f))
BY AppendProperties DEF Extended

LEMMA PushedCounts ==
    ASSUME NEW c, Nested(c), NEW f \in Statement, NEW d, Extended(c, f, d), NEW K
    PROVE  /\ \A n \in 0..Len(c) : CountIn(d, n, K) = CountIn(c, n, K)
           /\ CountIn(d, Len(d), K) = IF f.k \in K THEN CountIn(c, Len(c), K) + 1
                                      ELSE CountIn(c, Len(c), K)
<1>1. PICK l \in Nat : l = Len(c) /\ c \in Seq(Statement)
  BY DEF Nested
<1>2. /\ d \in Seq(Statement) /\ Len(d) = l + 1 /\ d[l + 1] = f
      /\ \A i \in 1..l : d[i] = c[i]
  BY <1>1 DEF Extended
<1>3. ASSUME NEW n \in 0..l
      PROVE  CountIn(d, n, K) = CountIn(c, n, K)
  <2>1. n \in Nat /\ \A i \in 1..n : d[i].k \in K <=> c[i].k \in K
    BY <1>2
  <2>2. QED
    BY <2>1, CountSame
<1>4. CountIn(d, l, K) = CountIn(c, l, K)
  BY <1>3
<1>5. CountIn(d, l + 1, K) = IF d[l + 1].k \in K THEN CountIn(d, l, K) + 1
                             ELSE CountIn(d, l, K)
  BY CountNext
<1>6. QED
  BY <1>1, <1>2, <1>3, <1>4, <1>5

LEMMA PushedTargets ==
    ASSUME NEW c, Nested(c), NEW f \in Statement, NEW d, Extended(c, f, d), NEW K,
           NEW b, Targets(c, b, K)
    PROVE  /\ f.k \notin K => Targets(d, b, K)
           /\ \A t, e : f.k \in K /\ f.k \notin Blocks /\ t = Append(b, e)
                  /\ e = [frame |-> Len(c) + 1, boundary |-> CountIn(c, Len(c), Blocks)]
                  => Targets(d, t, K)
<1>1. PICK n \in Nat : n = Len(c) /\ c \in Seq(Statement)
  BY DEF Nested
<1>2. PICK m \in Nat : m = Len(b) /\ b \in Seq([frame : Nat, boundary : Nat])
  BY DEF Targets
<1>3. /\ Len(d) = n + 1 /\ d[n + 1] = f
      /\ \A i \in 1..n : d[i] = c[i]
      /\ \A l \in 0..n : CountIn(d, l, Blocks) = CountIn(c, l, Blocks)
      /\ CountIn(d, n + 1, Blocks) = IF f.k \in Blocks THEN CountIn(c, n, Blocks) + 1
                                     ELSE CountIn(c, n, Blocks)
  BY <1>1, PushedCounts DEF Extended
<1>4. ASSUME NEW i \in 1..m
      PROVE  /\ b[i].frame \in 1..n /\ d[b[i].frame].k \in K
             /\ b[i].boundary = CountIn(d, b[i].frame, Blocks)
  <2>1. PICK l \in 1..n : l = b[i].frame
    BY <1>1, <1>2 DEF Targets
  <2>2. c[l].k \in K /\ b[i].boundary = CountIn(c, l, Blocks)
    BY <1>2, <2>1 DEF Targets
  <2>3. d[l].k \in K /\ CountIn(d, l, Blocks) = CountIn(c, l, Blocks)
    BY <1>3, <2>2
  <2>4. QED
    BY <2>1, <2>2, <2>3
<1>5. \A i, j \in 1..m : i < j => b[i].frame < b[j].frame
  BY <1>2 DEF Targets
<1>6. ASSUME NEW l \in 1..n, d[l].k \in K
      PROVE  \E i \in 1..m : b[i].frame = l
  <2>1. c[l].k \in K
    BY <1>3, <1>6
  <2>2. QED
    BY <1>1, <1>2, <2>1 DEF Targets
<1>7. ASSUME f.k \notin K
      PROVE  Targets(d, b, K)
  <2>1. ASSUME NEW l \in 1..(n + 1), d[l].k \in K
        PROVE  \E i \in 1..m : b[i].frame = l
    <3>1. l # n + 1
      BY <1>3, <1>7, <2>1
    <3>2. l \in 1..n
      BY <3>1
    <3>3. QED
      BY <1>6, <2>1, <3>2
  <2>2. \A i \in 1..m : b[i].frame \in 1..(n + 1)
    BY <1>4
  <2>3. QED
    BY <1>2, <1>3, <1>4, <1>5, <2>1, <2>2 DEF Targets
<1>8. ASSUME NEW t, NEW e, f.k \in K, f.k \notin Blocks, t = Append(b, e),
             e = [frame |-> Len(c) + 1, boundary |-> CountIn(c, Len(c), Blocks)]
      PROVE  Targets(d, t, K)
  <2>1. /\ e.frame = n + 1 /\ e.boundary = CountIn(c, n, Blocks)
        /\ e \in [frame : Nat, boundary : Nat]
    <3>1. CountIn(c, n, Blocks) \in Nat
      BY CountType
    <3>2. QED
      BY <1>1, <1>8, <3>1
  <2>2. /\ t \in Seq([frame : Nat, boundary : Nat]) /\ Len(t) = m + 1
        /\ t[m + 1] = e /\ \A i \in 1..m : t[i] = b[i]
    BY <1>2, <1>8, <2>1, AppendProperties
  <2>3. CountIn(d, n + 1, Blocks) = CountIn(c, n, Blocks)
    BY <1>3, <1>8
  <2>4. ASSUME NEW i \in 1..(m + 1)
        PROVE  /\ t[i].frame \in 1..(n + 1) /\ d[t[i].frame].k \in K
               /\ t[i].boundary = CountIn(d, t[i].frame, Blocks)
    <3>1. CASE i = m + 1
      BY <1>3, <1>8, <2>1, <2>2, <2>3, <3>1
    <3>2. CASE i # m + 1
      <4>1. i \in 1..m
        BY <3>2
      <4>2. QED
        BY <1>4, <2>2, <4>1, SMTT(30)
    <3>3. QED
      BY <3>1, <3>2
  <2>5. ASSUME NEW i \in 1..(m + 1), NEW j \in 1..(m + 1), i < j
        PROVE  t[i].frame < t[j].frame
    <3>1. i \in 1..m /\ t[i] = b[i] /\ b[i].frame \in 1..n
      BY <1>4, <2>2, <2>5
    <3>2. CASE j = m + 1
      BY <2>1, <2>2, <3>1, <3>2
    <3>3. CASE j # m + 1
      <4>1. j \in 1..m /\ t[j] = b[j]
        BY <2>2, <3>3
      <4>2. QED
        BY <1>5, <2>5, <3>1, <4>1
    <3>4. QED
      BY <3>2, <3>3
  <2>6. ASSUME NEW l \in 1..(n + 1), d[l].k \in K
        PROVE  \E i \in 1..(m + 1) : t[i].frame = l
    <3>1. CASE l = n + 1
      <4>1. m + 1 \in 1..(m + 1) /\ t[m + 1].frame = l
        BY <2>1, <2>2, <3>1
      <4>2. QED
        BY <4>1
    <3>2. CASE l # n + 1
      <4>1. l \in 1..n
        BY <3>2
      <4>2. PICK i \in 1..m : b[i].frame = l
        BY <1>6, <2>6, <4>1
      <4>3. i \in 1..(m + 1) /\ t[i].frame = l
        BY <2>2, <4>2
      <4>4. QED
        BY <4>3
    <3>3. QED
      BY <3>1, <3>2
  <2>7. QED
    BY <1>3, <2>2, <2>4, <2>5, <2>6 DEF Targets
<1>9. QED
  BY <1>7, <1>8

\* One statement less.
LEMMA FrontShrinks ==
    ASSUME NEW c, Nested(c), Len(c) > 1
    PROVE  /\ Extended(Front(c), c[Len(c)], c) /\ c[Len(c)] \in Statement
           /\ Nested(Front(c)) /\ Len(Front(c)) \in Nat \ {0}
           /\ c[Len(c)].k # "fn" /\ Front(c)[Len(c) - 1].phase = "body"
<1>1. PICK n \in Nat : n = Len(c) /\ c \in Seq(Statement) /\ n > 1
  BY DEF Nested
<1>2. PICK d : d = Front(c)
  OBVIOUS
<1>3. /\ d \in Seq(Statement) /\ Len(d) = n - 1
      /\ \A i \in 1..(n - 1) : d[i] = c[i]
  BY <1>1, <1>2, FrontFacts
<1>4. c[n] \in Statement /\ n \in 1..n
  BY <1>1, ElementOfSeq
<1>5. Extended(d, c[n], c)
  BY <1>1, <1>3 DEF Extended
<1>6. /\ \A i \in 1..n : c[i].k = "fn" <=> i = 1
      /\ c[2].k = "compound"
      /\ \A i \in 1..(n - 1) : c[i].phase = "body"
  BY <1>1 DEF Nested
<1>7. Nested(d)
  <2>1. \A i \in 1..(n - 1) : (d[i].k = "fn" <=> i = 1) /\ d[i].phase = "body"
    BY <1>1, <1>3, <1>6
  <2>2. n - 1 > 1 => d[2].k = "compound"
    BY <1>1, <1>3, <1>6
  <2>3. QED
    BY <1>1, <1>3, <2>1, <2>2 DEF Nested
<1>8. d[n - 1].phase = "body" /\ c[n].k # "fn"
  <2>1. n - 1 \in 1..(n - 1) /\ n # 1
    BY <1>1
  <2>2. QED
    BY <1>3, <1>4, <1>6, <2>1
<1>9. QED
  BY <1>1, <1>2, <1>3, <1>4, <1>5, <1>7, <1>8

LEMMA PoppedTargets ==
    ASSUME NEW d, Nested(d), NEW f \in Statement, NEW c, Nested(c), Extended(d, f, c),
           NEW K, NEW b, Targets(c, b, K)
    PROVE  /\ f.k \notin K => Targets(d, b, K)
           /\ f.k \in K => /\ Len(b) \in Nat \ {0}
                           /\ \A t : t = Front(b) => Targets(d, t, K)
<1>1. PICK n \in Nat : n = Len(d) /\ d \in Seq(Statement)
  BY DEF Nested
<1>2. PICK m \in Nat : m = Len(b) /\ b \in Seq([frame : Nat, boundary : Nat])
  BY DEF Targets
<1>3. /\ Len(c) = n + 1 /\ c[n + 1] = f
      /\ \A i \in 1..n : c[i] = d[i]
      /\ \A l \in 0..n : CountIn(c, l, Blocks) = CountIn(d, l, Blocks)
  <2>1. \A l \in 0..Len(d) : CountIn(c, l, Blocks) = CountIn(d, l, Blocks)
    <3>1. PICK B : B = Blocks
      OBVIOUS
    <3>2. \A l \in 0..Len(d) : CountIn(c, l, B) = CountIn(d, l, B)
      BY PushedCounts
    <3>3. QED
      BY <3>1, <3>2
  <2>2. QED
    BY <1>1, <2>1 DEF Extended
<1>4. /\ \A i \in 1..m : /\ b[i].frame \in 1..(n + 1) /\ c[b[i].frame].k \in K
                         /\ b[i].boundary = CountIn(c, b[i].frame, Blocks)
      /\ \A i, j \in 1..m : i < j => b[i].frame < b[j].frame
      /\ \A l \in 1..(n + 1) : c[l].k \in K => \E i \in 1..m : b[i].frame = l
  BY <1>2, <1>3 DEF Targets
<1>5. ASSUME NEW i \in 1..m, b[i].frame # n + 1
      PROVE  /\ b[i].frame \in 1..n /\ d[b[i].frame].k \in K
             /\ b[i].boundary = CountIn(d, b[i].frame, Blocks)
  <2>1. PICK l \in 1..n : l = b[i].frame
    BY <1>4, <1>5
  <2>2. c[l].k \in K /\ b[i].boundary = CountIn(c, l, Blocks)
    BY <1>4, <2>1
  <2>3. QED
    BY <1>3, <2>1, <2>2
<1>6. ASSUME f.k \notin K
      PROVE  Targets(d, b, K)
  <2>1. ASSUME NEW i \in 1..m
        PROVE  b[i].frame # n + 1
    BY <1>3, <1>4, <1>6
  <2>2. \A i \in 1..m : /\ b[i].frame \in 1..n /\ d[b[i].frame].k \in K
                        /\ b[i].boundary = CountIn(d, b[i].frame, Blocks)
    BY <1>5, <2>1
  <2>3. \A l \in 1..n : d[l].k \in K => \E i \in 1..m : b[i].frame = l
    BY <1>3, <1>4
  <2>4. QED
    BY <1>1, <1>2, <1>4, <2>2, <2>3 DEF Targets
<1>7. ASSUME f.k \in K
      PROVE  /\ m # 0
             /\ \A t : t = Front(b) => Targets(d, t, K)
  <2>1. PICK top \in 1..m : b[top].frame = n + 1
    BY <1>3, <1>4, <1>7
  <2>2. top = m
    <3>1. CASE top < m
      <4>1. m \in 1..m
        BY <2>1
      <4>2. b[top].frame < b[m].frame /\ b[m].frame \in 1..(n + 1)
        BY <1>4, <3>1, <4>1
      <4>3. QED
        BY <2>1, <4>2
    <3>2. QED
      BY <3>1
  <2>3. ASSUME NEW t, t = Front(b)
        PROVE  Targets(d, t, K)
    <3>1. /\ t \in Seq([frame : Nat, boundary : Nat]) /\ Len(t) = m - 1
          /\ \A i \in 1..(m - 1) : t[i] = b[i]
      <4>1. Len(b) \in Nat \ {0}
        BY <1>2, <2>1
      <4>2. PICK S : S = [frame : Nat, boundary : Nat]
        OBVIOUS
      <4>3. b \in Seq(S)
        BY <1>2, <4>2
      <4>4. t \in Seq(S) /\ Len(t) = Len(b) - 1 /\ \A i \in 1..(Len(b) - 1) : t[i] = b[i]
        BY <2>3, <4>1, <4>3, FrontFacts
      <4>5. QED
        BY <1>2, <4>2, <4>4
    <3>2. ASSUME NEW i \in 1..(m - 1)
          PROVE  /\ t[i].frame \in 1..n /\ d[t[i].frame].k \in K
                 /\ t[i].boundary = CountIn(d, t[i].frame, Blocks)
      <4>1. i \in 1..m /\ m \in 1..m /\ i < m
        OBVIOUS
      <4>2. b[i].frame < b[m].frame /\ b[i].frame \in 1..(n + 1)
        BY <1>4, <4>1
      <4>3. b[i].frame # n + 1
        BY <2>1, <2>2, <4>2
      <4>4. QED
        BY <1>5, <3>1, <4>1, <4>3
    <3>3. ASSUME NEW i \in 1..(m - 1), NEW j \in 1..(m - 1), i < j
          PROVE  t[i].frame < t[j].frame
      <4>1. i \in 1..m /\ j \in 1..m
        OBVIOUS
      <4>2. QED
        BY <1>4, <3>1, <3>3, <4>1
    <3>4. ASSUME NEW l \in 1..n, d[l].k \in K
          PROVE  \E i \in 1..(m - 1) : t[i].frame = l
      <4>1. PICK i \in 1..m : b[i].frame = l
        BY <1>3, <1>4, <3>4
      <4>2. i # m
        BY <2>1, <2>2, <4>1
      <4>3. i \in 1..(m - 1) /\ t[i].frame = l
        BY <3>1, <4>1, <4>2
      <4>4. QED
        BY <4>3
    <3>5. QED
      BY <1>1, <3>1, <3>2, <3>3, <3>4 DEF Targets
  <2>4. QED
    BY <2>1, <2>3
<1>8. QED
  BY <1>2, <1>6, <1>7

\* Complete only moves the innermost statement on.
Moved(c, d) ==
    /\ d \in Seq(Statement) /\ SameKinds(c, d)
    /\ \A i \in 1..(Len(c) - 1) : d[i] = c[i]
    /\ d[Len(c)].k = c[Len(c)].k /\ d[Len(c)].id = c[Len(c)].id
    /\ d[Len(c)].alt = c[Len(c)].alt /\ d[Len(c)].pend = c[Len(c)].pend
    /\ \/ d[Len(c)] = c[Len(c)] /\ c[Len(c)].k \in {"compound", "switch"}
       \/ /\ c[Len(c)].k \notin {"compound", "switch"}
          /\ d[Len(c)].phase = IF c[Len(c)].phase = "init" THEN "cond" ELSE "after"

LEMMA CompleteMoves ==
    ASSUME NEW c, Nested(c), c # <<>>, NEW d, d = Complete(c)
    PROVE  Moved(c, d) /\ Nested(d)
<1>1. PICK n \in Nat \ {0} : n = Len(c) /\ c \in Seq(Statement) /\ n \in 1..n
  <2>1. c \in Seq(Statement) /\ Len(c) \in Nat /\ Len(c) # 0
    BY EmptySeq DEF Nested
  <2>2. QED
    BY <2>1
<1>2. PICK a \in Statement : a = c[n]
  BY <1>1, ElementOfSeq
<1>3. CASE a.k \in {"compound", "switch"}
  <2>1. d = c
    BY <1>1, <1>2, <1>3 DEF Complete
  <2>2. SameKinds(c, d)
    BY <2>1 DEF SameKinds
  <2>3. QED
    BY <1>1, <1>2, <1>3, <2>1, <2>2 DEF Moved
<1>4. CASE ~(a.k \in {"compound", "switch"})
  <2>9. PICK q \in {"init", "cond", "body", "after"} :
            q = IF a.phase = "init" THEN "cond" ELSE "after"
    OBVIOUS
  <2>0. /\ [a EXCEPT !.phase = q] \in Statement
        /\ [a EXCEPT !.phase = q].k = a.k /\ [a EXCEPT !.phase = q].id = a.id
        /\ [a EXCEPT !.phase = q].alt = a.alt /\ [a EXCEPT !.phase = q].pend = a.pend
        /\ [a EXCEPT !.phase = q].phase = q
    BY DEF Statement
  <2>1. PICK w \in Statement : /\ w = [a EXCEPT !.phase = q]
                               /\ w.k = a.k /\ w.id = a.id /\ w.alt = a.alt
                               /\ w.pend = a.pend /\ w.phase = q
    BY <2>0
  <2>2. d = [c EXCEPT ![n] = w]
    BY <1>1, <1>2, <1>4, <2>1, <2>9 DEF Complete
  <2>3. /\ d \in Seq(Statement) /\ Len(d) = n /\ d[n] = w
        /\ \A i \in 1..(n - 1) : d[i] = c[i]
    <3>1. \A i \in 1..(n - 1) : i \in 1..n /\ i # n
      OBVIOUS
    <3>2. QED
      BY <1>1, <2>2, <3>1, ExceptSeq
  <2>4. ASSUME NEW i \in 1..n
        PROVE  d[i].k = c[i].k
    <3>1. CASE i = n
      BY <1>2, <2>1, <2>3, <3>1
    <3>2. CASE i # n
      <4>1. i \in 1..(n - 1)
        BY <3>2
      <4>2. QED
        BY <2>3, <4>1
    <3>3. QED
      BY <3>1, <3>2
  <2>5. SameKinds(c, d)
    BY <1>1, <2>3, <2>4 DEF SameKinds
  <2>6. Moved(c, d)
    BY <1>1, <1>2, <1>4, <2>1, <2>9, <2>3, <2>5 DEF Moved
  <2>7. Nested(d)
    <3>1. n > 1 => d[2].k = "compound"
      BY <1>1, <2>4 DEF Nested
    <3>2. \A i \in 1..n : d[i].k = "fn" <=> i = 1
      BY <1>1, <2>4 DEF Nested
    <3>3. ASSUME NEW i \in 1..n, i < n \/ d[i].k \in {"compound", "switch"}
          PROVE  d[i].phase = "body"
      <4>1. i # n
        BY <1>2, <1>4, <2>4, <3>3
      <4>2. i \in 1..(n - 1) /\ i < Len(c) /\ i \in 1..Len(c)
        BY <1>1, <4>1
      <4>3. c[i].phase = "body"
        BY <4>2 DEF Nested
      <4>4. QED
        BY <2>3, <4>2, <4>3
    <3>4. QED
      BY <2>3, <3>1, <3>2, <3>3 DEF Nested
  <2>8. QED
    BY <2>6, <2>7
<1>5. QED
  BY <1>3, <1>4

-------------------------------------------------------------------------------
(* The clean-up code.                                                       *)

\* The two stacks, as CodegenContext keeps them, of clean-up of the kind T.
Paired(T, ds, cs) ==
    ds \in Seq(Seq(T)) /\ cs \in Seq(Seq(T)) /\ Len(ds) = Len(cs)

\* The clean-up of one block: its defers, the last first, then its strings.
LEMMA ScopeItemsFacts ==
    ASSUME NEW T, Paired(T, deferScopes, cleanupScopes), NEW i \in 1..Len(deferScopes)
    PROVE  /\ deferScopes[i] \in Seq(T) /\ cleanupScopes[i] \in Seq(T)
           /\ ScopeItems(i) \in Seq(T)
           /\ Len(ScopeItems(i)) = Len(deferScopes[i]) + Len(cleanupScopes[i])
           /\ \A p \in 1..Len(deferScopes[i]) :
                 ScopeItems(i)[p] = deferScopes[i][Len(deferScopes[i]) - p + 1]
           /\ \A p \in 1..Len(cleanupScopes[i]) :
                 ScopeItems(i)[Len(deferScopes[i]) + p]
                     = cleanupScopes[i][Len(cleanupScopes[i]) - p + 1]
<1>1. PICK a \in Seq(T) : a = deferScopes[i]
  BY ElementOfSeq DEF Paired
<1>2. PICK b \in Seq(T) : b = cleanupScopes[i]
  BY ElementOfSeq DEF Paired
<1>3. PICK ra : ra = Reverse(a)
  OBVIOUS
<1>4. PICK rb : rb = Reverse(b)
  OBVIOUS
<1>5. /\ ra \in Seq(T) /\ Len(ra) = Len(a)
      /\ \A p \in 1..Len(a) : ra[p] = a[Len(a) - p + 1]
  BY <1>3, ReverseFacts
<1>6. /\ rb \in Seq(T) /\ Len(rb) = Len(b)
      /\ \A p \in 1..Len(b) : rb[p] = b[Len(b) - p + 1]
  BY <1>4, ReverseFacts
<1>7. PICK u : u = ra \o rb
  OBVIOUS
<1>8. /\ u \in Seq(T) /\ Len(u) = Len(ra) + Len(rb)
      /\ \A p \in 1..Len(ra) : u[p] = ra[p]
      /\ \A p \in 1..Len(rb) : u[Len(ra) + p] = rb[p]
  <2>1. ra \in Seq(T) /\ rb \in Seq(T)
    BY <1>5, <1>6
  <2>2. QED
    BY <1>7, <2>1, ConcatFacts
<1>9. ScopeItems(i) = u
  BY <1>1, <1>2, <1>3, <1>4, <1>7 DEF ScopeItems
<1>10. QED
  BY <1>1, <1>2, <1>5, <1>6, <1>8, <1>9, Zenon

\* The block n deep in the nest is the first to be closed.
LEMMA EmitSteps ==
    ASSUME NEW T, Paired(T, deferScopes, cleanupScopes)
    PROVE  /\ EmitDefersFrom(Len(deferScopes)) = <<>>
           /\ \A depth \in 0..Len(deferScopes) : EmitDefersFrom(depth) \in Seq(T)
           /\ \A depth \in 1..Len(deferScopes) :
                 EmitDefersFrom(depth - 1) = EmitDefersFrom(depth) \o ScopeItems(depth)
<1>1. PICK n \in Nat : n = Len(deferScopes)
  BY DEF Paired
<1>2. PICK s : s = [j \in 1..n |-> ScopeItems(n + 1 - j)]
  OBVIOUS
<1>3. ASSUME NEW i \in 1..n
      PROVE  n + 1 - i \in 1..n /\ s[n + 1 - i] = ScopeItems(i) /\ ScopeItems(i) \in Seq(T)
  <2>1. n + 1 - i \in 1..n /\ n + 1 - (n + 1 - i) = i
    OBVIOUS
  <2>2. s[n + 1 - i] = ScopeItems(i)
    BY <1>2, <2>1
  <2>3. ScopeItems(i) \in Seq(T)
    BY <1>1, ScopeItemsFacts
  <2>4. QED
    BY <2>1, <2>2, <2>3
<1>4. s \in Seq(Seq(T)) /\ Len(s) = n
  <2>1. \A j \in 1..n : s[j] \in Seq(T)
    <3>1. ASSUME NEW j \in 1..n
          PROVE  s[j] \in Seq(T)
      <4>1. PICK i \in 1..n : i = n + 1 - j /\ n + 1 - i = j
        <5>1. n + 1 - j \in 1..n /\ n + 1 - (n + 1 - j) = j
          OBVIOUS
        <5>2. QED
          BY <5>1
      <4>2. QED
        BY <1>3, <4>1
    <3>2. QED
      BY <3>1
  <2>2. s = [j \in 1..n |-> s[j]]
    BY <1>2
  <2>3. QED
    BY <2>1, <2>2, ListedFacts
<1>5. ASSUME NEW depth \in 0..n
      PROVE  EmitDefersFrom(depth) = FlattenSeq(FirstOf(s, n - depth)) /\ n - depth \in 0..n
  <2>1. PICK m \in 0..n : m = n - depth
    <3>1. n - depth \in 0..n
      OBVIOUS
    <3>2. QED
      BY <3>1
  <2>2. EmitDefersFrom(depth) = FlattenSeq([j \in 1..m |-> ScopeItems(n + 1 - j)])
    BY <1>1, <2>1 DEF EmitDefersFrom
  <2>3. \A j \in 1..m : s[j] = ScopeItems(n + 1 - j)
    <3>1. \A j \in 1..m : j \in 1..n
      OBVIOUS
    <3>2. QED
      BY <1>2, <3>1
  <2>4. FirstOf(s, m) = [j \in 1..m |-> ScopeItems(n + 1 - j)]
    BY <2>3 DEF FirstOf
  <2>5. QED
    BY <2>1, <2>2, <2>4
<1>6. /\ FlattenSeq(FirstOf(s, 0)) = <<>>
      /\ \A m \in 0..n : FlattenSeq(FirstOf(s, m)) \in Seq(T)
      /\ \A m \in 1..n : FlattenSeq(FirstOf(s, m)) = FlattenSeq(FirstOf(s, m - 1)) \o s[m]
  BY <1>4, FlattenPrefixes
<1>7. EmitDefersFrom(n) = <<>>
  <2>1. n \in 0..n /\ n - n = 0
    OBVIOUS
  <2>2. QED
    BY <1>5, <1>6, <2>1
<1>8. \A depth \in 0..n : EmitDefersFrom(depth) \in Seq(T)
  BY <1>5, <1>6
<1>9. ASSUME NEW depth \in 1..n
      PROVE  EmitDefersFrom(depth - 1) = EmitDefersFrom(depth) \o ScopeItems(depth)
  <2>1. PICK m \in 1..n : /\ m = n + 1 - depth /\ m = n - (depth - 1) /\ m - 1 = n - depth
                          /\ depth - 1 \in 0..n /\ depth \in 0..n
    <3>1. /\ n + 1 - depth \in 1..n /\ n + 1 - depth = n - (depth - 1)
          /\ n + 1 - depth - 1 = n - depth /\ depth - 1 \in 0..n /\ depth \in 0..n
      OBVIOUS
    <3>2. QED
      BY <3>1
  <2>2. /\ EmitDefersFrom(depth - 1) = FlattenSeq(FirstOf(s, m))
        /\ EmitDefersFrom(depth) = FlattenSeq(FirstOf(s, m - 1))
    BY <1>5, <2>1
  <2>3. s[m] = ScopeItems(depth)
    BY <1>3, <2>1
  <2>4. QED
    BY <1>6, <2>2, <2>3
<1>10. QED
  BY <1>1, <1>7, <1>8, <1>9

-------------------------------------------------------------------------------
(* The stacks move together with the statements.                            *)

Levels(c, sc, ds) ==
    /\ Len(ds) = CountIn(c, Len(c), Blocks)
    /\ Len(sc) = CountIn(c, Len(c), Scoped)

Balanced(c, sc, ds, bb, cb) ==
    /\ Nested(c) /\ Levels(c, sc, ds)
    /\ Targets(c, bb, Breakable) /\ Targets(c, cb, Loops)

LEMMA KeptBalanced ==
    ASSUME NEW c, NEW sc, NEW ds, NEW bb, NEW cb, Balanced(c, sc, ds, bb, cb),
           NEW d, Nested(d), SameKinds(c, d)
    PROVE  Balanced(d, sc, ds, bb, cb)
<1>1. Nested(c) /\ Levels(c, sc, ds) /\ Targets(c, bb, Breakable) /\ Targets(c, cb, Loops)
  BY DEF Balanced
<1>2. Blocks \in Counted /\ Scoped \in Counted /\ Breakable \in Counted /\ Loops \in Counted
  BY DEF Counted
<1>3. Targets(d, bb, Breakable)
  BY <1>1, <1>2, KeptTargets
<1>4. Targets(d, cb, Loops)
  BY <1>1, <1>2, KeptTargets
<1>5. Levels(d, sc, ds)
  <2>1. PICK n \in Nat : n = Len(c) /\ Len(d) = n /\ n \in 0..n
    BY <1>1 DEF Nested, SameKinds
  <2>2. CountIn(d, n, Blocks) = CountIn(c, n, Blocks)
    BY <1>1, <1>2, <2>1, KeptCounts
  <2>3. CountIn(d, n, Scoped) = CountIn(c, n, Scoped)
    BY <1>1, <1>2, <2>1, KeptCounts
  <2>4. QED
    BY <1>1, <2>1, <2>2, <2>3 DEF Levels
<1>6. QED
  BY <1>3, <1>4, <1>5 DEF Balanced

\* A target as pushBreakBlock and pushContinueBlock record it.
TargetOf(c, ds) == [frame |-> Len(c) + 1, boundary |-> Len(ds)]

PushedTarget(f, K, c, ds, b) == IF f.k \in K THEN Append(b, TargetOf(c, ds)) ELSE b

LEMMA PushedBalanced ==
    ASSUME NEW c, NEW sc, NEW ds, NEW bb, NEW cb, Balanced(c, sc, ds, bb, cb),
           NEW f \in Statement, NEW d, Nested(d), Extended(c, f, d),
           NEW sc2, Len(sc2) = IF f.k \in Scoped THEN Len(sc) + 1 ELSE Len(sc),
           NEW ds2, Len(ds2) = IF f.k \in Blocks THEN Len(ds) + 1 ELSE Len(ds),
           NEW bb2, bb2 = PushedTarget(f, Breakable, c, ds, bb),
           NEW cb2, cb2 = PushedTarget(f, Loops, c, ds, cb)
    PROVE  Balanced(d, sc2, ds2, bb2, cb2)
<1>1. Nested(c) /\ Levels(c, sc, ds) /\ Targets(c, bb, Breakable) /\ Targets(c, cb, Loops)
  BY DEF Balanced
<1>2. Levels(d, sc2, ds2)
  <2>1. CountIn(d, Len(d), Blocks) = IF f.k \in Blocks THEN CountIn(c, Len(c), Blocks) + 1
                                     ELSE CountIn(c, Len(c), Blocks)
    BY <1>1, PushedCounts
  <2>2. CountIn(d, Len(d), Scoped) = IF f.k \in Scoped THEN CountIn(c, Len(c), Scoped) + 1
                                     ELSE CountIn(c, Len(c), Scoped)
    BY <1>1, PushedCounts
  <2>3. QED
    BY <1>1, <2>1, <2>2 DEF Levels
<1>3. PICK e : e = [frame |-> Len(c) + 1, boundary |-> CountIn(c, Len(c), Blocks)]
  OBVIOUS
<1>4. e = TargetOf(c, ds)
  BY <1>1, <1>3 DEF TargetOf, Levels
<1>5. Targets(d, bb2, Breakable)
  <2>1. CASE f.k \in Breakable
    <3>1. f.k \notin Blocks
      BY <2>1 DEF Breakable, Blocks
    <3>2. bb2 = Append(bb, e)
      BY <1>4, <2>1 DEF PushedTarget
    <3>3. \A t, x : f.k \in Breakable /\ f.k \notin Blocks /\ t = Append(bb, x)
            /\ x = [frame |-> Len(c) + 1, boundary |-> CountIn(c, Len(c), Blocks)]
            => Targets(d, t, Breakable)
      BY <1>1, PushedTargets
    <3>4. QED
      BY <1>3, <2>1, <3>1, <3>2, <3>3
  <2>2. CASE f.k \notin Breakable
    <3>1. Targets(d, bb, Breakable)
      BY <1>1, <2>2, PushedTargets
    <3>2. QED
      BY <2>2, <3>1 DEF PushedTarget
  <2>3. QED
    BY <2>1, <2>2
<1>6. Targets(d, cb2, Loops)
  <2>1. CASE f.k \in Loops
    <3>1. f.k \notin Blocks
      BY <2>1 DEF Loops, Blocks
    <3>2. cb2 = Append(cb, e)
      BY <1>4, <2>1 DEF PushedTarget
    <3>3. \A t, x : f.k \in Loops /\ f.k \notin Blocks /\ t = Append(cb, x)
            /\ x = [frame |-> Len(c) + 1, boundary |-> CountIn(c, Len(c), Blocks)]
            => Targets(d, t, Loops)
      BY <1>1, PushedTargets
    <3>4. QED
      BY <1>3, <2>1, <3>1, <3>2, <3>3
  <2>2. CASE f.k \notin Loops
    <3>1. Targets(d, cb, Loops)
      BY <1>1, <2>2, PushedTargets
    <3>2. QED
      BY <2>2, <3>1 DEF PushedTarget
  <2>3. QED
    BY <2>1, <2>2
<1>7. QED
  BY <1>2, <1>5, <1>6 DEF Balanced

PoppedTarget(f, K, b) == IF f.k \in K THEN Front(b) ELSE b

LEMMA PoppedBalanced ==
    ASSUME NEW d, NEW f \in Statement, NEW c, Nested(d), Extended(d, f, c),
           NEW sc, NEW ds, NEW bb, NEW cb, Balanced(c, sc, ds, bb, cb)
    PROVE  /\ f.k \in Breakable => Len(bb) \in Nat \ {0}
           /\ f.k \in Loops => Len(cb) \in Nat \ {0}
           /\ f.k \in Blocks => Len(ds) = CountIn(d, Len(d), Blocks) + 1
           /\ f.k \in Scoped => Len(sc) = CountIn(d, Len(d), Scoped) + 1
           /\ \A sc2, ds2, bb2, cb2 :
                /\ Len(sc2) = IF f.k \in Scoped THEN Len(sc) - 1 ELSE Len(sc)
                /\ Len(ds2) = IF f.k \in Blocks THEN Len(ds) - 1 ELSE Len(ds)
                /\ bb2 = PoppedTarget(f, Breakable, bb)
                /\ cb2 = PoppedTarget(f, Loops, cb)
                => Balanced(d, sc2, ds2, bb2, cb2)
<1>1. Nested(c) /\ Levels(c, sc, ds) /\ Targets(c, bb, Breakable) /\ Targets(c, cb, Loops)
  BY DEF Balanced
<1>2. CountIn(c, Len(c), Blocks) = IF f.k \in Blocks THEN CountIn(d, Len(d), Blocks) + 1
                                   ELSE CountIn(d, Len(d), Blocks)
  BY PushedCounts
<1>3. CountIn(c, Len(c), Scoped) = IF f.k \in Scoped THEN CountIn(d, Len(d), Scoped) + 1
                                   ELSE CountIn(d, Len(d), Scoped)
  BY PushedCounts
<1>4. CountIn(d, Len(d), Blocks) \in Nat /\ CountIn(d, Len(d), Scoped) \in Nat
  <2>1. Len(d) \in Nat
    BY DEF Nested
  <2>2. QED
    BY <2>1, CountType
<1>5. /\ f.k \notin Breakable => Targets(d, bb, Breakable)
      /\ f.k \in Breakable => /\ Len(bb) \in Nat \ {0}
                              /\ \A t : t = Front(bb) => Targets(d, t, Breakable)
  BY <1>1, PoppedTargets
<1>6. /\ f.k \notin Loops => Targets(d, cb, Loops)
      /\ f.k \in Loops => /\ Len(cb) \in Nat \ {0}
                          /\ \A t : t = Front(cb) => Targets(d, t, Loops)
  BY <1>1, PoppedTargets
<1>7. ASSUME NEW sc2, NEW ds2, NEW bb2, NEW cb2,
             Len(sc2) = IF f.k \in Scoped THEN Len(sc) - 1 ELSE Len(sc),
             Len(ds2) = IF f.k \in Blocks THEN Len(ds) - 1 ELSE Len(ds),
             bb2 = PoppedTarget(f, Breakable, bb), cb2 = PoppedTarget(f, Loops, cb)
      PROVE  Balanced(d, sc2, ds2, bb2, cb2)
  <2>1. Levels(d, sc2, ds2)
    BY <1>1, <1>2, <1>3, <1>4, <1>7 DEF Levels
  <2>2. Targets(d, bb2, Breakable)
    BY <1>5, <1>7 DEF PoppedTarget
  <2>3. Targets(d, cb2, Loops)
    BY <1>6, <1>7 DEF PoppedTarget
  <2>4. QED
    BY <2>1, <2>2, <2>3 DEF Balanced
<1>8. QED
  BY <1>1, <1>2, <1>3, <1>5, <1>6, <1>7 DEF Levels

LEMMA PushedNested ==
    ASSUME NEW c, Nested(c), c # <<>>, c[Len(c)].phase = "body",
           NEW f \in Statement, f.k # "fn", c[Len(c)].k = "fn" => f.k = "compound",
           f.k \in {"compound", "switch"} => f.phase = "body",
           NEW d, d = Append(c, f)
    PROVE  Nested(d) /\ Extended(c, f, d)
<1>1. PICK n \in Nat \ {0} : n = Len(c) /\ c \in Seq(Statement) /\ n \in 1..n
  <2>1. c \in Seq(Statement) /\ Len(c) \in Nat /\ Len(c) # 0
    BY EmptySeq DEF Nested
  <2>2. QED
    BY <2>1
<1>2. Extended(c, f, d)
  BY <1>1, AppendExtends
<1>3. /\ d \in Seq(Statement) /\ Len(d) = n + 1 /\ d[n + 1] = f
      /\ \A i \in 1..n : d[i] = c[i]
  BY <1>1, <1>2 DEF Extended
<1>4. /\ \A i \in 1..n : c[i].k = "fn" <=> i = 1
      /\ n > 1 => c[2].k = "compound"
      /\ \A i \in 1..n : c[i].phase = "body"
  <2>1. \A i \in 1..n : i < n => c[i].phase = "body"
    BY <1>1 DEF Nested
  <2>2. c[n].phase = "body"
    BY <1>1
  <2>3. \A i \in 1..n : i < n \/ i = n
    OBVIOUS
  <2>4. QED
    BY <1>1, <2>1, <2>2, <2>3 DEF Nested
<1>5. ASSUME NEW i \in 1..(n + 1)
      PROVE  d[i].k = "fn" <=> i = 1
  <2>1. CASE i = n + 1
    BY <1>3, <2>1
  <2>2. CASE i # n + 1
    BY <1>3, <1>4, <2>2
  <2>3. QED
    BY <2>1, <2>2
<1>6. d[2].k = "compound"
  <2>1. CASE n = 1
    <3>1. c[n].k = "fn" /\ n + 1 = 2
      BY <1>1, <1>4, <2>1
    <3>2. QED
      BY <1>1, <1>3, <3>1
  <2>2. CASE n # 1
    <3>1. n > 1 /\ 2 \in 1..n
      BY <2>2
    <3>2. QED
      BY <1>3, <1>4, <3>1
  <2>3. QED
    BY <2>1, <2>2
<1>7. ASSUME NEW i \in 1..(n + 1), i < n + 1 \/ d[i].k \in {"compound", "switch"}
      PROVE  d[i].phase = "body"
  <2>1. CASE i = n + 1
    BY <1>3, <1>7, <2>1
  <2>2. CASE i # n + 1
    BY <1>3, <1>4, <2>2
  <2>3. QED
    BY <2>1, <2>2
<1>8. QED
  BY <1>2, <1>3, <1>5, <1>6, <1>7 DEF Nested

\* Statement i is changed, in something that is not its kind.
Changed(c, i, w, d) ==
    /\ i \in 1..Len(c) /\ w \in Statement /\ d = [c EXCEPT ![i] = w]
    /\ w.k = c[i].k \/ (c[i].k = "if" /\ w.k = "else")
    /\ w.phase = c[i].phase \/ (i = Len(c) /\ w.k \notin {"compound", "switch"})

LEMMA ChangedNested ==
    ASSUME NEW c, Nested(c), NEW i, NEW w, NEW d, Changed(c, i, w, d)
    PROVE  /\ Nested(d) /\ SameKinds(c, d) /\ Len(d) = Len(c) /\ d[i] = w
           /\ \A j \in 1..Len(c) : j # i => d[j] = c[j]
<1>0. /\ i \in 1..Len(c) /\ w \in Statement /\ d = [c EXCEPT ![i] = w]
      /\ w.k = c[i].k \/ (c[i].k = "if" /\ w.k = "else")
      /\ w.phase = c[i].phase \/ (i = Len(c) /\ w.k \notin {"compound", "switch"})
  BY DEF Changed
<1>1. PICK n \in Nat : n = Len(c) /\ c \in Seq(Statement) /\ i \in 1..n
  BY <1>0 DEF Nested
<1>2. /\ d \in Seq(Statement) /\ Len(d) = n
      /\ \A j \in 1..n : d[j] = IF j = i THEN w ELSE c[j]
  BY <1>0, <1>1, ExceptSeq
<1>3. SameKinds(c, d)
  BY <1>0, <1>1, <1>2 DEF SameKinds
<1>4. \A j \in 1..n : d[j].k = "fn" <=> j = 1
  <2>1. \A j \in 1..n : c[j].k = "fn" <=> j = 1
    BY <1>1 DEF Nested
  <2>2. \A j \in 1..n : d[j].k = c[j].k \/ (c[j].k = "if" /\ d[j].k = "else")
    BY <1>1, <1>3 DEF SameKinds
  <2>3. QED
    BY <2>1, <2>2
<1>5. n > 1 => d[2].k = "compound"
  <2>1. n > 1 => 2 \in 1..n /\ c[2].k = "compound"
    BY <1>1 DEF Nested
  <2>2. QED
    BY <1>1, <1>3, <2>1 DEF SameKinds
<1>6. ASSUME NEW j \in 1..n, j < n \/ d[j].k \in {"compound", "switch"}
      PROVE  d[j].phase = "body"
  <2>1. d[j].k \in {"compound", "switch"} => c[j].k \in {"compound", "switch"}
    BY <1>1, <1>3 DEF SameKinds
  <2>2. c[j].phase = "body"
    BY <1>1, <1>6, <2>1 DEF Nested
  <2>3. CASE j = i
    BY <1>0, <1>1, <1>2, <1>6, <2>2, <2>3
  <2>4. CASE j # i
    BY <1>2, <2>2, <2>4
  <2>5. QED
    BY <2>3, <2>4
<1>7. Nested(d)
  BY <1>2, <1>4, <1>5, <1>6 DEF Nested
<1>8. QED
  BY <1>1, <1>2, <1>3, <1>7

-------------------------------------------------------------------------------
(* Types.                                                                   *)

\* A string is released as the variable it is.
PendingItem == {it \in Item : it.kind = "string" => it.var = it.id}

Scopes == Seq([Names -> 0..MaxStmts])

GenTypes ==
    /\ scopes \in Scopes
    /\ terminated \in BOOLEAN /\ visited \in 0..MaxStmts /\ strings \subseteq Ids
    /\ emitted \in Seq([item : Item, infn : 0..MaxStmts, resolved : 0..MaxStmts])

RunTypes ==
    /\ live \in BOOLEAN /\ frames \in Seq(Seq(Obligation))
    /\ ran \in Seq(Obligation)
    /\ store \in [Ids -> {"unborn", "owner", "null"}]
    /\ freed \subseteq Ids /\ result \in 0..MaxStmts
    /\ wild \in BOOLEAN /\ skipped \in BOOLEAN

\* The strengthening of StacksBalanced that every step preserves.
StackInv ==
    /\ Balanced(ctl, scopes, deferScopes, breakBlocks, continueBlocks)
    /\ Paired(Item, deferScopes, cleanupScopes)
    /\ Paired(PendingItem, deferScopes, cleanupScopes)
    /\ GenTypes /\ RunTypes

\* A registration is lost only where the exceptions begin.
LostInv ==
    /\ lost \subseteq Obligation /\ returned \in 0..MaxStmts
    /\ lost # {} => skipped

LEMMA StackInvTypes ==
    ASSUME StackInv, LostInv
    PROVE  TypeOK
<1>1. ctl \in Seq([k : Kinds, id : 0..MaxStmts, alt : BOOLEAN, pend : BOOLEAN,
                   phase : {"init", "cond", "body", "after"}])
  BY DEF StackInv, Balanced, Nested, Statement
<1>2. /\ breakBlocks \in Seq([frame : Nat, boundary : Nat])
      /\ continueBlocks \in Seq([frame : Nat, boundary : Nat])
  BY DEF StackInv, Balanced, Targets
<1>3. GenTypes /\ RunTypes /\ Paired(Item, deferScopes, cleanupScopes)
  BY DEF StackInv
<1>4. QED
  BY <1>1, <1>2, <1>3 DEF TypeOK, GenTypes, RunTypes, Paired, Scopes, LostInv

\* The stacks are balanced in the words of the model.
LEMMA StackInvBalanced ==
    ASSUME StackInv, LostInv
    PROVE  StacksBalanced
<1>1. TypeOK
  BY StackInvTypes
<1>2. /\ Nested(ctl) /\ Levels(ctl, scopes, deferScopes)
      /\ Targets(ctl, breakBlocks, Breakable) /\ Targets(ctl, continueBlocks, Loops)
  BY DEF StackInv, Balanced
<1>3. PICK n \in Nat : n = Len(ctl) /\ ctl \in Seq(Statement)
  BY <1>2 DEF Nested
<1>4. Len(deferScopes) = OpenBlocks(ctl)
  BY <1>2, <1>3, AllOpenBlocks DEF Levels
<1>5. ASSUME NEW K, K \in {Breakable, Loops}, NEW s, Targets(ctl, s, K), NEW i \in DOMAIN s
      PROVE  /\ ctl[s[i].frame].k \in {"loop", "for", "switch"}
             /\ K = Loops => ctl[s[i].frame].k # "switch"
             /\ s[i].boundary = OpenBlocks(SubSeq(ctl, 1, s[i].frame))
  <2>1. i \in 1..Len(s)
    BY <1>5 DEF Targets
  <2>2. PICK l \in 1..n : l = s[i].frame
    BY <1>3, <1>5, <2>1 DEF Targets
  <2>3. ctl[l].k \in K /\ s[i].boundary = CountIn(ctl, l, Blocks)
    BY <1>5, <2>1, <2>2 DEF Targets
  <2>4. OpenBlocks(SubSeq(ctl, 1, l)) = CountIn(ctl, l, Blocks)
    BY <1>3, OpenBlocksFacts
  <2>5. K = Breakable \/ K = Loops
    BY <1>5
  <2>6. QED
    BY <2>2, <2>3, <2>4, <2>5 DEF Breakable, Loops
<1>6. \A i \in DOMAIN breakBlocks :
          /\ ctl[breakBlocks[i].frame].k \in {"loop", "for", "switch"}
          /\ breakBlocks[i].boundary = OpenBlocks(SubSeq(ctl, 1, breakBlocks[i].frame))
  BY <1>2, <1>5
<1>7. \A i \in DOMAIN continueBlocks :
          /\ ctl[continueBlocks[i].frame].k \in {"loop", "for", "switch"}
          /\ ctl[continueBlocks[i].frame].k # "switch"
          /\ continueBlocks[i].boundary = OpenBlocks(SubSeq(ctl, 1, continueBlocks[i].frame))
  BY <1>2, <1>5
<1>8. QED
  BY <1>1, <1>4, <1>6, <1>7, Zenon DEF StacksBalanced

\* What a name stands for among the first n scopes of sc.
Binds(sc, x, n, v) ==
    \/ v = 0 /\ \A i \in 1..n : sc[i][x] = 0
    \/ v # 0 /\ \E i \in 1..n : sc[i][x] = v /\ \A j \in (i + 1)..n : sc[j][x] = 0

LEMMA ResolveFacts ==
    ASSUME scopes \in Scopes, NEW x \in Names
    PROVE  Resolve(x) \in 0..MaxStmts /\ Binds(scopes, x, Len(scopes), Resolve(x))
<1>1. PICK n \in Nat : n = Len(scopes) /\ DOMAIN scopes = 1..n
  BY DEF Scopes
<1>2. PICK S : S = {i \in DOMAIN scopes : scopes[i][x] # 0}
  OBVIOUS
<1>3. S \in SUBSET (1..n)
  BY <1>1, <1>2
<1>4. MaxStmts \in Nat
  BY BoundsAssumption
<1>5. CASE S = {}
  <2>1. Resolve(x) = 0
    BY <1>2, <1>5 DEF Resolve
  <2>2. \A i \in 1..n : scopes[i][x] = 0
    BY <1>1, <1>2, <1>5
  <2>3. QED
    BY <1>1, <1>4, <2>1, <2>2 DEF Binds
<1>6. CASE S # {}
  <2>1. PICK i : i = CHOOSE j \in S : \A l \in S : l <= j
    OBVIOUS
  <2>2. \E j \in S : \A l \in S : l <= j
    BY <1>3, <1>6, LastExists
  <2>3. i \in S /\ \A l \in S : l <= i
    BY <2>1, <2>2
  <2>4. Resolve(x) = scopes[i][x]
    BY <1>2, <1>6, <2>1 DEF Resolve
  <2>5. i \in 1..n /\ scopes[i][x] # 0
    BY <1>1, <1>2, <2>3
  <2>6. scopes[i] \in [Names -> 0..MaxStmts]
    BY <1>1, <2>5, ElementOfSeq DEF Scopes
  <2>7. scopes[i][x] \in 0..MaxStmts
    BY <2>6
  <2>8. ASSUME NEW j \in (i + 1)..n
        PROVE  scopes[j][x] = 0
    <3>1. j \in 1..n /\ ~(j <= i)
      BY <2>5
    <3>2. j \notin S
      BY <2>3, <3>1
    <3>3. QED
      BY <1>1, <1>2, <3>1, <3>2
  <2>9. QED
    BY <1>1, <2>4, <2>5, <2>7, <2>8 DEF Binds
<1>7. QED
  BY <1>5, <1>6

LEMMA CurFnType ==
    ASSUME Nested(ctl)
    PROVE  CurFn \in 0..MaxStmts
<1>1. PICK n \in Nat : n = Len(ctl) /\ DOMAIN ctl = 1..n /\ ctl \in Seq(Statement)
  BY DEF Nested
<1>2. PICK L : L = {i \in DOMAIN ctl : ctl[i].k = "lambda"}
  OBVIOUS
<1>3. MaxStmts \in Nat
  BY BoundsAssumption
<1>4. CASE L = {}
  BY <1>2, <1>3, <1>4 DEF CurFn
<1>5. CASE L # {}
  <2>1. PICK i : i = CHOOSE j \in L : \A l \in L : l <= j
    OBVIOUS
  <2>2. L \in SUBSET (1..n)
    BY <1>1, <1>2
  <2>3. \E j \in L : \A l \in L : l <= j
    BY <1>5, <2>2, LastExists
  <2>4. i \in L
    BY <2>1, <2>3
  <2>5. ctl[i] \in Statement
    BY <1>1, <2>2, <2>4, ElementOfSeq
  <2>6. CurFn = ctl[i].id
    BY <1>2, <1>5, <2>1 DEF CurFn
  <2>7. QED
    BY <2>5, <2>6 DEF Statement
<1>6. QED
  BY <1>4, <1>5

LEMMA AddToFacts ==
    ASSUME NEW T, NEW s \in Seq(Seq(T)), NEW it \in T, NEW r, r = AddTo(s, it)
    PROVE  /\ r \in Seq(Seq(T)) /\ Len(r) = Len(s)
           /\ s = <<>> => r = s
           /\ s # <<>> => /\ r[Len(s)] = Append(s[Len(s)], it)
                          /\ \A i \in 1..Len(s) : i # Len(s) => r[i] = s[i]
<1>1. CASE s = <<>>
  BY <1>1 DEF AddTo
<1>2. CASE s # <<>>
  <2>1. PICK n \in Nat \ {0} : n = Len(s) /\ n \in 1..n
    <3>1. Len(s) \in Nat \ {0}
      BY <1>2, EmptySeq
    <3>2. QED
      BY <3>1
  <2>2. PICK w \in Seq(T) : w = Append(s[n], it)
    <3>1. s[n] \in Seq(T)
      BY <2>1, ElementOfSeq
    <3>2. QED
      BY <3>1, AppendProperties
  <2>3. r = [s EXCEPT ![n] = w]
    BY <1>2, <2>1, <2>2 DEF AddTo
  <2>4. /\ r \in Seq(Seq(T)) /\ Len(r) = n
        /\ \A i \in 1..n : r[i] = IF i = n THEN w ELSE s[i]
    BY <2>1, <2>3, ExceptSeq
  <2>5. QED
    BY <1>2, <2>1, <2>2, <2>4
<1>3. QED
  BY <1>1, <1>2

\* The items two statements leave, and what is owed for them.
LEMMA NewItems ==
    ASSUME StackInv, ctl # <<>>, visited' \in Ids, NEW x \in Names
    PROVE  /\ Defer(x) \in Item /\ Defer(x) \in PendingItem
           /\ StringOf(x) \in Item /\ StringOf(x) \in PendingItem
           /\ Owed(Defer(x)) \in Obligation /\ Owed(StringOf(x)) \in Obligation
<1>1. Resolve(x) \in 0..MaxStmts
  BY ResolveFacts DEF StackInv, GenTypes
<1>2. CurFn \in 0..MaxStmts
  BY CurFnType DEF StackInv, Balanced
<1>3. visited' \in 0..MaxStmts
  BY BoundsAssumption DEF Ids
<1>4. PICK b \in BOOLEAN : b = (Top.k # "compound")
  OBVIOUS
<1>5. Defer(x) \in Item
  BY <1>1, <1>2, <1>4 DEF Defer, Item
<1>6. StringOf(x) \in Item
  BY <1>2, <1>3, <1>4 DEF StringOf, Item
<1>7. Defer(x).kind = "defer" /\ StringOf(x).var = StringOf(x).id
  BY DEF Defer, StringOf
<1>8. Owed(Defer(x)) \in Obligation /\ Owed(StringOf(x)) \in Obligation
  BY <1>5, <1>6 DEF Owed, Item, Obligation
<1>9. QED
  BY <1>5, <1>6, <1>7, <1>8 DEF PendingItem

\* What Emit and EmitNothing leave.
EmitTypes ==
    /\ emitted \in Seq([item : Item, infn : 0..MaxStmts, resolved : 0..MaxStmts])
    /\ ran \in Seq(Obligation)
    /\ store \in [Ids -> {"unborn", "owner", "null"}]
    /\ freed \subseteq Ids /\ wild \in BOOLEAN

LEMMA NothingTyped ==
    ASSUME StackInv, EmitNothing
    PROVE  EmitTypes'
<1>1. emitted' \in Seq([item : Item, infn : 0..MaxStmts, resolved : 0..MaxStmts])
  BY EmptySeq DEF EmitNothing
<1>2. QED
  BY <1>1 DEF EmitNothing, StackInv, RunTypes, EmitTypes

LEMMA EmitTyped ==
    ASSUME StackInv, NEW items \in Seq(PendingItem),
           NEW st \in [Ids -> {"unborn", "owner", "null"}], Emit(items, st)
    PROVE  /\ EmitTypes' /\ Len(emitted') = Len(items)
           /\ \A i \in 1..Len(items) : emitted'[i] = InContext(items[i])
           /\ live => /\ Len(ran') = Len(ran) + Len(items)
                      /\ \A i \in 1..Len(ran) : ran'[i] = ran[i]
                      /\ \A i \in 1..Len(items) : ran'[Len(ran) + i] = Owed(items[i])
<1>1. PICK n \in Nat : n = Len(items) /\ DOMAIN items = 1..n
  OBVIOUS
<1>2. \A i \in 1..n : items[i] \in PendingItem /\ items[i] \in Item
  BY <1>1, ElementOfSeq DEF PendingItem
<1>3. PICK R : R = {items[i].var : i \in {j \in DOMAIN items : items[j].kind = "string"}}
  OBVIOUS
<1>4. R \subseteq Ids
  <2>1. ASSUME NEW v \in R
        PROVE  v \in Ids
    <3>1. PICK i \in 1..n : items[i].kind = "string" /\ v = items[i].var
      BY <1>1, <1>3
    <3>2. items[i].var = items[i].id /\ items[i].id \in Ids
      BY <1>2, <3>1 DEF PendingItem, Item
    <3>3. QED
      BY <3>1, <3>2
  <2>2. QED
    BY <2>1
<1>5. CurFn \in 0..MaxStmts
  BY CurFnType DEF StackInv, Balanced
<1>6. ASSUME NEW i \in 1..n
      PROVE  InContext(items[i]) \in [item : Item, infn : 0..MaxStmts, resolved : 0..MaxStmts]
  <2>1. PICK it \in Item : it = items[i]
    BY <1>2
  <2>2. it.name \in Names /\ it.var \in 0..MaxStmts
    BY DEF Item
  <2>3. Resolve(it.name) \in 0..MaxStmts
    BY <2>2, ResolveFacts DEF StackInv, GenTypes
  <2>4. PICK r \in 0..MaxStmts : r = IF it.kind = "defer" THEN Resolve(it.name) ELSE it.var
    BY <2>2, <2>3
  <2>5. InContext(it) = [item |-> it, infn |-> CurFn, resolved |-> r]
    BY <2>4 DEF InContext
  <2>6. QED
    BY <1>5, <2>1, <2>5
<1>7. emitted' = [i \in 1..n |-> InContext(items[i])]
  BY <1>1 DEF Emit
<1>8. /\ emitted' \in Seq([item : Item, infn : 0..MaxStmts, resolved : 0..MaxStmts])
      /\ Len(emitted') = n /\ \A i \in 1..n : emitted'[i] = InContext(items[i])
  <2>1. PICK e : e = emitted'
    OBVIOUS
  <2>2. \A i \in 1..n : e[i] = InContext(items[i])
    BY <1>7, <2>1
  <2>3. e = [i \in 1..n |-> e[i]]
    BY <1>7, <2>1
  <2>4. /\ e \in Seq([item : Item, infn : 0..MaxStmts, resolved : 0..MaxStmts])
        /\ Len(e) = n
    <3>1. PICK S : S = [item : Item, infn : 0..MaxStmts, resolved : 0..MaxStmts]
      OBVIOUS
    <3>2. \A i \in 1..n : e[i] \in S
      BY <1>6, <2>2, <3>1
    <3>3. e \in Seq(S) /\ Len(e) = n
      BY <2>3, <3>2, ListedFacts
    <3>4. QED
      BY <3>1, <3>3
  <2>5. QED
    BY <2>1, <2>2, <2>4
<1>9. /\ ran \in Seq(Obligation) /\ store \in [Ids -> {"unborn", "owner", "null"}]
      /\ freed \subseteq Ids /\ wild \in BOOLEAN
  BY DEF StackInv, RunTypes
<1>10. CASE live
  <2>1. PICK o : o = [i \in DOMAIN items |-> Owed(items[i])]
    OBVIOUS
  <2>2. o = [i \in 1..n |-> o[i]] /\ \A i \in 1..n : o[i] = Owed(items[i])
    BY <1>1, <2>1
  <2>3. \A i \in 1..n : o[i] \in Obligation
    BY <1>2, <2>2 DEF Owed, Item, Obligation
  <2>4. o \in Seq(Obligation) /\ Len(o) = n
    BY <2>2, <2>3, ListedFacts
  <2>5. ran' = ran \o o
    BY <1>10, <2>1 DEF Emit
  <2>6. /\ ran' \in Seq(Obligation) /\ Len(ran') = Len(ran) + n
        /\ \A i \in 1..Len(ran) : ran'[i] = ran[i]
        /\ \A i \in 1..n : ran'[Len(ran) + i] = o[i]
    <3>1. PICK a \in Seq(Obligation) : a = ran
      BY <1>9
    <3>2. PICK u : u = ran' /\ u = a \o o
      BY <2>5, <3>1
    <3>3. o \in Seq(Obligation)
      BY <2>4
    <3>4. /\ u \in Seq(Obligation) /\ Len(u) = Len(a) + Len(o)
          /\ \A i \in 1..Len(a) : u[i] = a[i]
          /\ \A i \in 1..Len(o) : u[Len(a) + i] = o[i]
      BY <3>2, <3>3, ConcatFacts
    <3>5. QED
      BY <2>4, <3>1, <3>2, <3>4
  <2>7. freed' \subseteq Ids
    <3>1. freed' = freed \cup {v \in R : st[v] = "owner"}
      BY <1>3, <1>10 DEF Emit
    <3>2. QED
      BY <1>4, <1>9, <3>1
  <2>8. store' \in [Ids -> {"unborn", "owner", "null"}]
    <3>1. store' = [v \in Ids |-> IF v \in R THEN "null" ELSE st[v]]
      BY <1>3, <1>10 DEF Emit
    <3>2. QED
      BY <3>1
  <2>9. wild' \in BOOLEAN
    BY <1>10 DEF Emit
  <2>10. QED
    BY <1>1, <1>8, <2>2, <2>6, <2>7, <2>8, <2>9 DEF EmitTypes
<1>11. CASE ~live
  <2>1. UNCHANGED <<ran, freed, store, wild>>
    BY <1>11 DEF Emit
  <2>2. QED
    BY <1>1, <1>8, <1>9, <1>11, <2>1 DEF EmitTypes
<1>12. QED
  BY <1>10, <1>11

-------------------------------------------------------------------------------
(* StackInv, one step at a time.                                            *)

LEMMA SameLevels ==
    ASSUME NEW c, NEW sc, NEW ds, NEW bb, NEW cb, Balanced(c, sc, ds, bb, cb),
           NEW sc2, Len(sc2) = Len(sc), NEW ds2, Len(ds2) = Len(ds)
    PROVE  Balanced(c, sc2, ds2, bb, cb)
BY DEF Balanced, Levels

LEMMA CompletedBalanced ==
    ASSUME NEW c, NEW sc, NEW ds, NEW bb, NEW cb, Balanced(c, sc, ds, bb, cb), c # <<>>,
           NEW d, d = Complete(c)
    PROVE  Balanced(d, sc, ds, bb, cb)
<1>1. Nested(c)
  BY DEF Balanced
<1>2. Moved(c, d) /\ Nested(d)
  BY <1>1, CompleteMoves
<1>3. SameKinds(c, d)
  BY <1>2 DEF Moved
<1>4. QED
  BY <1>2, <1>3, KeptBalanced

\* The innermost statement is done: what its frame had on the stacks is popped.
Left(c, d) ==
    /\ Nested(Front(c)) /\ Extended(Front(c), c[Len(c)], c) /\ c[Len(c)] \in Statement
    /\ Moved(Front(c), d) /\ Nested(d)

LEMMA LeftBalanced ==
    ASSUME NEW c, NEW sc, NEW ds, NEW bb, NEW cb, Balanced(c, sc, ds, bb, cb), c # <<>>,
           c[Len(c)].k # "fn", NEW d, d = Complete(Front(c))
    PROVE  /\ Left(c, d)
           /\ c[Len(c)].k \in Breakable => Len(bb) \in Nat \ {0}
           /\ c[Len(c)].k \in Loops => Len(cb) \in Nat \ {0}
           /\ c[Len(c)].k \in Blocks => Len(ds) \in Nat \ {0}
           /\ c[Len(c)].k \in Scoped => Len(sc) \in Nat \ {0}
           /\ \A sc2, ds2, bb2, cb2 :
                /\ Len(sc2) = IF c[Len(c)].k \in Scoped THEN Len(sc) - 1 ELSE Len(sc)
                /\ Len(ds2) = IF c[Len(c)].k \in Blocks THEN Len(ds) - 1 ELSE Len(ds)
                /\ bb2 = PoppedTarget(c[Len(c)], Breakable, bb)
                /\ cb2 = PoppedTarget(c[Len(c)], Loops, cb)
                => Balanced(d, sc2, ds2, bb2, cb2)
<1>1. Nested(c)
  BY DEF Balanced
<1>2. PICK n \in Nat \ {0} : n = Len(c) /\ n \in 1..n
  <2>1. c \in Seq(Statement) /\ Len(c) \in Nat /\ Len(c) # 0
    BY <1>1, EmptySeq DEF Nested
  <2>2. QED
    BY <2>1
<1>3. n > 1
  <2>1. n # 1
    BY <1>1, <1>2 DEF Nested
  <2>2. QED
    BY <2>1
<1>4. PICK g : g = Front(c)
  OBVIOUS
<1>5. PICK f : f = c[Len(c)]
  OBVIOUS
<1>6. Extended(g, f, c) /\ f \in Statement /\ Nested(g) /\ Len(g) \in Nat \ {0}
  BY <1>1, <1>2, <1>3, <1>4, <1>5, FrontShrinks
<1>7. g # <<>>
  BY <1>6, EmptySeq
<1>8. Moved(g, d) /\ Nested(d)
  BY <1>4, <1>6, <1>7, CompleteMoves
<1>9. Left(c, d)
  BY <1>4, <1>5, <1>6, <1>8 DEF Left
<1>10. /\ f.k \in Breakable => Len(bb) \in Nat \ {0}
       /\ f.k \in Loops => Len(cb) \in Nat \ {0}
       /\ f.k \in Blocks => Len(ds) = CountIn(g, Len(g), Blocks) + 1
       /\ f.k \in Scoped => Len(sc) = CountIn(g, Len(g), Scoped) + 1
       /\ \A sc2, ds2, bb2, cb2 :
            /\ Len(sc2) = IF f.k \in Scoped THEN Len(sc) - 1 ELSE Len(sc)
            /\ Len(ds2) = IF f.k \in Blocks THEN Len(ds) - 1 ELSE Len(ds)
            /\ bb2 = PoppedTarget(f, Breakable, bb)
            /\ cb2 = PoppedTarget(f, Loops, cb)
            => Balanced(g, sc2, ds2, bb2, cb2)
  BY <1>6, PoppedBalanced
<1>11. CountIn(g, Len(g), Blocks) \in Nat /\ CountIn(g, Len(g), Scoped) \in Nat
  BY <1>6, CountType
<1>12. SameKinds(g, d)
  BY <1>8 DEF Moved
<1>13. ASSUME NEW sc2, NEW ds2, NEW bb2, NEW cb2,
              Len(sc2) = IF f.k \in Scoped THEN Len(sc) - 1 ELSE Len(sc),
              Len(ds2) = IF f.k \in Blocks THEN Len(ds) - 1 ELSE Len(ds),
              bb2 = PoppedTarget(f, Breakable, bb), cb2 = PoppedTarget(f, Loops, cb)
       PROVE  Balanced(d, sc2, ds2, bb2, cb2)
  <2>1. Balanced(g, sc2, ds2, bb2, cb2)
    BY <1>10, <1>13
  <2>2. QED
    BY <1>8, <1>12, <2>1, KeptBalanced
<1>14. QED
  BY <1>5, <1>9, <1>10, <1>11, <1>13

LEMMA VisitTyped ==
    ASSUME StackInv, visited < MaxStmts, Visit
    PROVE  visited' = visited + 1 /\ visited' \in Ids /\ visited' \in 0..MaxStmts
BY BoundsAssumption DEF StackInv, GenTypes, Visit, Ids

LEMMA UnwoundTyped ==
    ASSUME StackInv, NEW n \in Nat, Unwound(n)
    PROVE  frames' \in Seq(Seq(Obligation))
<1>1. PICK m \in Nat : m = Len(frames) /\ frames \in Seq(Seq(Obligation))
  BY DEF StackInv, RunTypes
<1>2. CASE live
  <2>1. frames' = SubSeq(frames, 1, m - n)
    BY <1>1, <1>2 DEF Unwound
  <2>2. \A i \in 1..(m - n) : frames[i] \in Seq(Obligation)
    <3>1. \A i \in 1..(m - n) : i \in 1..m
      OBVIOUS
    <3>2. QED
      BY <1>1, <3>1, ElementOfSeq
  <2>3. m - n \in Int /\ 1 \in Int
    OBVIOUS
  <2>4. SubSeq(frames, 1, m - n) \in Seq(Seq(Obligation))
    BY <2>2, <2>3, SubSeqProperties
  <2>5. QED
    BY <2>1, <2>4
<1>3. CASE ~live
  BY <1>1, <1>3 DEF Unwound
<1>4. QED
  BY <1>2, <1>3

\* Most steps change neither the clean-up stacks nor what has been run.
LEMMA QuietKeeps ==
    ASSUME StackInv, EmitNothing,
           Balanced(ctl', scopes', deferScopes', breakBlocks', continueBlocks'),
           scopes' \in Scopes, terminated' \in BOOLEAN, visited' \in 0..MaxStmts,
           live' \in BOOLEAN,
           UNCHANGED <<deferScopes, cleanupScopes, strings, frames, result, skipped>>
    PROVE  StackInv'
<1>1. EmitTypes'
  BY NothingTyped
<1>2. /\ Paired(Item, deferScopes, cleanupScopes)
      /\ Paired(PendingItem, deferScopes, cleanupScopes) /\ GenTypes /\ RunTypes
  BY DEF StackInv
<1>3. /\ Paired(Item, deferScopes', cleanupScopes')
      /\ Paired(PendingItem, deferScopes', cleanupScopes')
  BY <1>2
<1>4. GenTypes'
  BY <1>1, <1>2 DEF GenTypes, EmitTypes
<1>5. RunTypes'
  BY <1>1, <1>2 DEF RunTypes, EmitTypes
<1>6. QED
  BY <1>3, <1>4, <1>5 DEF StackInv

LEMMA TopFacts ==
    ASSUME StackInv, ctl # <<>>
    PROVE  /\ Nested(ctl) /\ Len(ctl) \in Nat \ {0} /\ Len(ctl) \in 1..Len(ctl)
           /\ Top = ctl[Len(ctl)] /\ Top \in Statement
           /\ Len(scopes) \in Nat \ {0}
           /\ Len(ctl) > 1 => Len(deferScopes) \in Nat \ {0}
           /\ Top.k = "fn" <=> Len(ctl) = 1
<1>1. Nested(ctl) /\ Levels(ctl, scopes, deferScopes)
  BY DEF StackInv, Balanced
<1>2. PICK n \in Nat \ {0} : n = Len(ctl) /\ n \in 1..n /\ 1 \in 1..n /\ ctl \in Seq(Statement)
  <2>1. ctl \in Seq(Statement) /\ Len(ctl) \in Nat /\ Len(ctl) # 0
    BY <1>1, EmptySeq DEF Nested
  <2>2. QED
    BY <2>1
<1>3. Top = ctl[n] /\ Top \in Statement
  BY <1>2, ElementOfSeq DEF Top
<1>4. CountIn(ctl, 0, Scoped) < CountIn(ctl, n, Scoped)
  <2>1. ctl[1].k \in Scoped
    BY <1>1, <1>2 DEF Nested, Scoped
  <2>2. 0 \in Nat /\ n \in Nat /\ 0 <= n /\ 1 \in (0 + 1)..n
    BY <1>2
  <2>3. QED
    BY <2>1, <2>2, CountGrows
<1>5. Len(scopes) \in Nat \ {0}
  <2>1. CountIn(ctl, 0, Scoped) = 0 /\ CountIn(ctl, n, Scoped) \in Nat
    BY CountNone, CountType
  <2>2. QED
    BY <1>1, <1>2, <1>4, <2>1 DEF Levels
<1>6. ASSUME n > 1
      PROVE  Len(deferScopes) \in Nat \ {0}
  <2>1. ctl[2].k \in Blocks
    BY <1>1, <1>2, <1>6 DEF Nested, Blocks
  <2>2. 0 \in Nat /\ n \in Nat /\ 0 <= n /\ 2 \in (0 + 1)..n
    BY <1>2, <1>6
  <2>3. CountIn(ctl, 0, Blocks) < CountIn(ctl, n, Blocks)
    BY <2>1, <2>2, CountGrows
  <2>4. CountIn(ctl, 0, Blocks) = 0 /\ CountIn(ctl, n, Blocks) \in Nat
    BY CountNone, CountType
  <2>5. QED
    BY <1>1, <1>2, <2>3, <2>4 DEF Levels
<1>7. Top.k = "fn" <=> n = 1
  BY <1>1, <1>2, <1>3 DEF Nested
<1>8. QED
  BY <1>1, <1>2, <1>3, <1>5, <1>6, <1>7

LEMMA DeclareFacts ==
    ASSUME StackInv, ctl # <<>>, visited' \in 0..MaxStmts, NEW x \in Names, Declare(x)
    PROVE  /\ scopes' \in Scopes /\ Len(scopes') = Len(scopes)
           /\ \A i \in 1..Len(scopes) : \A y \in Names :
                 scopes'[i][y] = IF i = Len(scopes) /\ y = x THEN visited' ELSE scopes[i][y]
<1>1. PICK n \in Nat \ {0} : n = Len(scopes) /\ n \in 1..n /\ scopes \in Scopes
  <2>1. Len(scopes) \in Nat \ {0} /\ scopes \in Scopes
    BY TopFacts DEF StackInv, GenTypes
  <2>2. QED
    BY <2>1
<1>2. \A i \in 1..n : scopes[i] \in [Names -> 0..MaxStmts]
  BY <1>1, ElementOfSeq DEF Scopes
<1>3. PICK w \in [Names -> 0..MaxStmts] : w = [scopes[n] EXCEPT ![x] = visited']
  BY <1>1, <1>2
<1>4. \A y \in Names : w[y] = IF y = x THEN visited' ELSE scopes[n][y]
  BY <1>1, <1>2, <1>3
<1>5. scopes' = [scopes EXCEPT ![n] = w]
  BY <1>1, <1>3 DEF Declare
<1>6. /\ [scopes EXCEPT ![n] = w] \in Scopes /\ Len([scopes EXCEPT ![n] = w]) = n
      /\ \A i \in 1..n : [scopes EXCEPT ![n] = w][i] = IF i = n THEN w ELSE scopes[i]
  BY <1>1, ExceptSeq DEF Scopes
<1>7. /\ scopes' \in Scopes /\ Len(scopes') = n
      /\ \A i \in 1..n : scopes'[i] = IF i = n THEN w ELSE scopes[i]
  BY <1>5, <1>6
<1>8. ASSUME NEW i \in 1..n, NEW y \in Names
      PROVE  scopes'[i][y] = IF i = n /\ y = x THEN visited' ELSE scopes[i][y]
  <2>1. CASE i = n
    BY <1>4, <1>7, <2>1
  <2>2. CASE i # n
    BY <1>7, <2>2
  <2>3. QED
    BY <2>1, <2>2
<1>9. QED
  BY <1>1, <1>7, <1>8

\* The statements that are visited in one step.
LEMMA CompletedStep ==
    ASSUME StackInv, ctl # <<>>, ctl' = Complete(ctl), Len(scopes') = Len(scopes),
           Len(deferScopes') = Len(deferScopes), UNCHANGED <<breakBlocks, continueBlocks>>
    PROVE  Balanced(ctl', scopes', deferScopes', breakBlocks', continueBlocks')
<1>1. Balanced(ctl, scopes, deferScopes, breakBlocks, continueBlocks)
  BY DEF StackInv
<1>2. PICK d : d = ctl' /\ d = Complete(ctl)
  OBVIOUS
<1>3. Balanced(d, scopes, deferScopes, breakBlocks, continueBlocks)
  BY <1>1, <1>2, CompletedBalanced
<1>4. Balanced(d, scopes', deferScopes', breakBlocks, continueBlocks)
  BY <1>3, SameLevels
<1>5. QED
  BY <1>2, <1>4

LEMMA DeferStep ==
    ASSUME StackInv, NEW x \in Names, VisitDefer(x)
    PROVE  StackInv'
<1>1. /\ AtStmt /\ Visit /\ deferScopes' = AddTo(deferScopes, Defer(x))
      /\ ctl' = Complete(ctl) /\ EmitNothing /\ Registered
      /\ frames' = IF live THEN AddTo(frames, Owed(Defer(x))) ELSE frames
      /\ UNCHANGED <<scopes, cleanupScopes, breakBlocks, continueBlocks,
                     terminated, strings, live, result>>
  BY DEF VisitDefer
<1>2. ctl # <<>> /\ visited < MaxStmts
  BY <1>1 DEF AtStmt
<1>3. visited' \in Ids /\ visited' \in 0..MaxStmts
  BY <1>1, <1>2, VisitTyped
<1>4. /\ Defer(x) \in Item /\ Defer(x) \in PendingItem /\ Owed(Defer(x)) \in Obligation
  BY <1>2, <1>3, NewItems
<1>5. /\ Paired(Item, deferScopes, cleanupScopes)
      /\ Paired(PendingItem, deferScopes, cleanupScopes) /\ GenTypes /\ RunTypes
  BY DEF StackInv
<1>6. deferScopes' \in Seq(Seq(Item)) /\ Len(deferScopes') = Len(deferScopes)
  BY <1>1, <1>4, <1>5, AddToFacts DEF Paired
<1>7. deferScopes' \in Seq(Seq(PendingItem))
  BY <1>1, <1>4, <1>5, AddToFacts DEF Paired
<1>8. frames' \in Seq(Seq(Obligation))
  <2>1. AddTo(frames, Owed(Defer(x))) \in Seq(Seq(Obligation))
    BY <1>4, <1>5, AddToFacts DEF RunTypes
  <2>2. QED
    BY <1>1, <1>5, <2>1 DEF RunTypes
<1>9. Balanced(ctl', scopes', deferScopes', breakBlocks', continueBlocks')
  BY <1>1, <1>2, <1>6, CompletedStep
<1>10. EmitTypes'
  BY <1>1, NothingTyped
<1>11. GenTypes'
  BY <1>1, <1>3, <1>5, <1>10 DEF GenTypes, EmitTypes
<1>12. skipped' \in BOOLEAN
  BY <1>1 DEF Registered
<1>13. RunTypes'
  BY <1>1, <1>5, <1>8, <1>10, <1>12 DEF RunTypes, EmitTypes
<1>14. QED
  BY <1>1, <1>5, <1>6, <1>7, <1>9, <1>11, <1>13 DEF StackInv, Paired

LEMMA PlainDeclStep ==
    ASSUME StackInv, NEW x \in Names, VisitPlainDecl(x)
    PROVE  StackInv'
<1>1. /\ AtDecl /\ Visit /\ Declare(x) /\ ctl' = Complete(ctl) /\ EmitNothing
      /\ UNCHANGED <<deferScopes, cleanupScopes, breakBlocks, continueBlocks,
                     terminated, strings, live, frames, result, skipped>>
  BY DEF VisitPlainDecl
<1>2. ctl # <<>> /\ visited < MaxStmts
  BY <1>1 DEF AtDecl, AtStmt
<1>3. visited' \in Ids /\ visited' \in 0..MaxStmts
  BY <1>1, <1>2, VisitTyped
<1>4. scopes' \in Scopes /\ Len(scopes') = Len(scopes)
  BY <1>1, <1>2, <1>3, DeclareFacts
<1>5. Balanced(ctl', scopes', deferScopes', breakBlocks', continueBlocks')
  BY <1>1, <1>2, <1>4, CompletedStep
<1>6. terminated' \in BOOLEAN /\ live' \in BOOLEAN
  BY <1>1 DEF StackInv, GenTypes, RunTypes
<1>7. QED
  BY <1>1, <1>3, <1>4, <1>5, <1>6, QuietKeeps

LEMMA StringDeclStep ==
    ASSUME StackInv, NEW x \in Names, VisitStringDecl(x)
    PROVE  StackInv'
<1>1. /\ AtDecl /\ Visit /\ Declare(x) /\ ctl' = Complete(ctl)
      /\ strings' = strings \cup {visited'}
      /\ cleanupScopes' = AddTo(cleanupScopes, StringOf(x))
      /\ frames' = IF live THEN AddTo(frames, Owed(StringOf(x))) ELSE frames
      /\ store' = IF live THEN [store EXCEPT ![visited'] = "owner"] ELSE store
      /\ Registered /\ emitted' = <<>>
      /\ UNCHANGED <<deferScopes, breakBlocks, continueBlocks, terminated, live,
                     ran, freed, result, wild>>
  BY DEF VisitStringDecl
<1>2. ctl # <<>> /\ visited < MaxStmts
  BY <1>1 DEF AtDecl, AtStmt
<1>3. visited' \in Ids /\ visited' \in 0..MaxStmts
  BY <1>1, <1>2, VisitTyped
<1>4. /\ StringOf(x) \in Item /\ StringOf(x) \in PendingItem
      /\ Owed(StringOf(x)) \in Obligation
  BY <1>2, <1>3, NewItems
<1>5. /\ Paired(Item, deferScopes, cleanupScopes)
      /\ Paired(PendingItem, deferScopes, cleanupScopes) /\ GenTypes /\ RunTypes
  BY DEF StackInv
<1>6. cleanupScopes' \in Seq(Seq(Item)) /\ Len(cleanupScopes') = Len(cleanupScopes)
  BY <1>1, <1>4, <1>5, AddToFacts DEF Paired
<1>7. cleanupScopes' \in Seq(Seq(PendingItem))
  BY <1>1, <1>4, <1>5, AddToFacts DEF Paired
<1>8. frames' \in Seq(Seq(Obligation))
  <2>1. AddTo(frames, Owed(StringOf(x))) \in Seq(Seq(Obligation))
    BY <1>4, <1>5, AddToFacts DEF RunTypes
  <2>2. QED
    BY <1>1, <1>5, <2>1 DEF RunTypes
<1>9. scopes' \in Scopes /\ Len(scopes') = Len(scopes)
  BY <1>1, <1>2, <1>3, DeclareFacts
<1>10. Balanced(ctl', scopes', deferScopes', breakBlocks', continueBlocks')
  BY <1>1, <1>2, <1>9, CompletedStep
<1>11. emitted' \in Seq([item : Item, infn : 0..MaxStmts, resolved : 0..MaxStmts])
  BY <1>1, EmptySeq
<1>12. GenTypes'
  BY <1>1, <1>3, <1>5, <1>9, <1>11 DEF GenTypes
<1>13. skipped' \in BOOLEAN
  BY <1>1 DEF Registered
<1>14. store' \in [Ids -> {"unborn", "owner", "null"}]
  BY <1>1, <1>3, <1>5 DEF RunTypes
<1>15. RunTypes'
  BY <1>1, <1>5, <1>8, <1>13, <1>14 DEF RunTypes
<1>16. QED
  BY <1>1, <1>5, <1>6, <1>7, <1>10, <1>12, <1>15 DEF StackInv, Paired

\* The statement f can be the child of the innermost one of c.
ChildOf(c, f) ==
    /\ c # <<>> /\ c[Len(c)].phase = "body"
    /\ f \in Statement /\ f.k # "fn" /\ (c[Len(c)].k = "fn" => f.k = "compound")
    /\ f.k \in {"compound", "switch"} => f.phase = "body"

\* What the stacks grow by when it is begun.
Grown(f, c, sc, ds, bb, cb, sc2, ds2, bb2, cb2) ==
    /\ Len(sc2) = IF f.k \in Scoped THEN Len(sc) + 1 ELSE Len(sc)
    /\ Len(ds2) = IF f.k \in Blocks THEN Len(ds) + 1 ELSE Len(ds)
    /\ bb2 = PushedTarget(f, Breakable, c, ds, bb)
    /\ cb2 = PushedTarget(f, Loops, c, ds, cb)

LEMMA PushedOn ==
    ASSUME NEW c, NEW sc, NEW ds, NEW bb, NEW cb, Balanced(c, sc, ds, bb, cb),
           NEW f, ChildOf(c, f), NEW d, d = Append(c, f),
           NEW sc2, NEW ds2, NEW bb2, NEW cb2,
           Grown(f, c, sc, ds, bb, cb, sc2, ds2, bb2, cb2)
    PROVE  Balanced(d, sc2, ds2, bb2, cb2) /\ Extended(c, f, d) /\ Nested(d)
<1>1. Nested(c)
  BY DEF Balanced
<1>2. /\ c # <<>> /\ c[Len(c)].phase = "body"
      /\ f \in Statement /\ f.k # "fn" /\ (c[Len(c)].k = "fn" => f.k = "compound")
      /\ f.k \in {"compound", "switch"} => f.phase = "body"
  BY DEF ChildOf
<1>3. Nested(d) /\ Extended(c, f, d)
  BY <1>1, <1>2, PushedNested
<1>4. /\ Len(sc2) = IF f.k \in Scoped THEN Len(sc) + 1 ELSE Len(sc)
      /\ Len(ds2) = IF f.k \in Blocks THEN Len(ds) + 1 ELSE Len(ds)
      /\ bb2 = PushedTarget(f, Breakable, c, ds, bb)
      /\ cb2 = PushedTarget(f, Loops, c, ds, cb)
  BY DEF Grown
<1>5. QED
  BY <1>2, <1>3, <1>4, PushedBalanced

\* A statement with a body is begun that leaves the clean-up stacks alone.
LEMMA BodyBegun ==
    ASSUME StackInv, AtStmt, NEW f \in Statement, f.k \notin {"fn", "compound"},
           f.k = "switch" => f.phase = "body", ctl' = Append(ctl, f),
           Len(scopes') = IF f.k \in Scoped THEN Len(scopes) + 1 ELSE Len(scopes),
           breakBlocks' = PushedTarget(f, Breakable, ctl, deferScopes, breakBlocks),
           continueBlocks' = PushedTarget(f, Loops, ctl, deferScopes, continueBlocks),
           UNCHANGED deferScopes
    PROVE  /\ Balanced(ctl', scopes', deferScopes', breakBlocks', continueBlocks')
           /\ Extended(ctl, f, ctl')
<1>1. ctl # <<>> /\ Top.phase = "body" /\ Top.k # "fn"
  BY DEF AtStmt
<1>2. ctl[Len(ctl)].phase = "body" /\ ctl[Len(ctl)].k # "fn"
  BY <1>1, TopFacts
<1>3. Balanced(ctl, scopes, deferScopes, breakBlocks, continueBlocks)
  BY DEF StackInv
<1>4. PICK d, sc2, bb2, cb2 : d = ctl' /\ sc2 = scopes' /\ bb2 = breakBlocks' /\ cb2 = continueBlocks'
  OBVIOUS
<1>5. d = Append(ctl, f)
  BY <1>4
<1>6. Grown(f, ctl, scopes, deferScopes, breakBlocks, continueBlocks,
            sc2, deferScopes, bb2, cb2)
  BY <1>4 DEF Blocks, Grown
<1>7. ChildOf(ctl, f)
  BY <1>1, <1>2 DEF ChildOf
<1>8. Balanced(d, sc2, deferScopes, bb2, cb2) /\ Extended(ctl, f, d)
  BY <1>3, <1>5, <1>6, <1>7, PushedOn
<1>9. QED
  BY <1>4, <1>8

LEMMA IfStep ==
    ASSUME StackInv, NEW taken \in BOOLEAN, BeginIf(taken)
    PROVE  StackInv'
<1>1. PICK f : f = Frame("if", "body", live /\ ~taken, FALSE)
  OBVIOUS
<1>2. /\ AtStmt /\ Visit /\ ctl' = Append(ctl, f) /\ live' = (live /\ taken)
      /\ EmitNothing
      /\ UNCHANGED <<scopes, deferScopes, cleanupScopes, breakBlocks,
                     continueBlocks, terminated, strings, frames, result, skipped>>
  BY <1>1 DEF BeginIf
<1>3. visited' \in 0..MaxStmts
  BY <1>2, VisitTyped DEF AtStmt
<1>4. /\ GenTypes /\ RunTypes
  BY DEF StackInv
<1>5. live \in BOOLEAN /\ live' \in BOOLEAN /\ (live /\ ~taken) \in BOOLEAN
  BY <1>2, <1>4 DEF RunTypes
<1>6. f \in Statement /\ f.k = "if"
  <2>1. PICK a \in BOOLEAN : a = (live /\ ~taken)
    BY <1>3, <1>5
  <2>2. PICK q \in BOOLEAN : q = FALSE
    BY <1>3, <1>5
  <2>3. f = [k |-> "if", id |-> visited', phase |-> "body", alt |-> a, pend |-> q]
    BY <1>1, <2>1, <2>2 DEF Frame
  <2>4. QED
    BY <1>3, <1>5, <2>3 DEF Statement, Kinds
<1>7. Balanced(ctl', scopes', deferScopes', breakBlocks', continueBlocks')
  BY <1>2, <1>6, BodyBegun DEF PushedTarget, Breakable, Loops, Scoped
<1>8. scopes' \in Scopes /\ terminated' \in BOOLEAN
  BY <1>2, <1>4 DEF GenTypes
<1>9. QED
  BY <1>2, <1>3, <1>5, <1>7, <1>8, QuietKeeps

LEMMA LoopStep ==
    ASSUME StackInv, NEW entered \in BOOLEAN, BeginLoop(entered)
    PROVE  StackInv'
<1>1. PICK f : f = Frame("loop", "body", live /\ ~entered, FALSE)
  OBVIOUS
<1>2. /\ AtStmt /\ Visit /\ ctl' = Append(ctl, f) /\ live' = (live /\ entered)
      /\ EmitNothing
      /\ breakBlocks' = Append(breakBlocks, Target)
      /\ continueBlocks' = Append(continueBlocks, Target)
      /\ UNCHANGED <<scopes, deferScopes, cleanupScopes, terminated, strings,
                     frames, result, skipped>>
  BY <1>1 DEF BeginLoop
<1>3. visited' \in 0..MaxStmts
  BY <1>2, VisitTyped DEF AtStmt
<1>4. /\ GenTypes /\ RunTypes
  BY DEF StackInv
<1>5. live \in BOOLEAN /\ live' \in BOOLEAN /\ (live /\ ~entered) \in BOOLEAN
  BY <1>2, <1>4 DEF RunTypes
<1>6. f \in Statement /\ f.k = "loop"
  <2>1. PICK a \in BOOLEAN : a = (live /\ ~entered)
    BY <1>3, <1>5
  <2>2. PICK q \in BOOLEAN : q = FALSE
    BY <1>3, <1>5
  <2>3. f = [k |-> "loop", id |-> visited', phase |-> "body", alt |-> a, pend |-> q]
    BY <1>1, <2>1, <2>2 DEF Frame
  <2>4. QED
    BY <1>3, <1>5, <2>3 DEF Statement, Kinds
<1>7. /\ breakBlocks' = PushedTarget(f, Breakable, ctl, deferScopes, breakBlocks)
      /\ continueBlocks' = PushedTarget(f, Loops, ctl, deferScopes, continueBlocks)
  BY <1>2, <1>6 DEF PushedTarget, Target, TargetOf, Breakable, Loops
<1>8. Balanced(ctl', scopes', deferScopes', breakBlocks', continueBlocks')
  BY <1>2, <1>6, <1>7, BodyBegun DEF Scoped
<1>9. scopes' \in Scopes /\ terminated' \in BOOLEAN
  BY <1>2, <1>4 DEF GenTypes
<1>10. QED
  BY <1>2, <1>3, <1>5, <1>8, <1>9, QuietKeeps

\* A Scope is opened.
LEMMA ScopeOpened ==
    ASSUME scopes \in Scopes, NEW w \in [Names -> 0..MaxStmts], NEW t, t = Append(scopes, w)
    PROVE  /\ t \in Scopes /\ Len(t) = Len(scopes) + 1 /\ t[Len(scopes) + 1] = w
           /\ \A i \in 1..Len(scopes) : t[i] = scopes[i]
<1>1. scopes \in Seq([Names -> 0..MaxStmts])
  BY DEF Scopes
<1>2. QED
  BY <1>1, AppendProperties DEF Scopes

LEMMA UnboundTyped == Unbound \in [Names -> 0..MaxStmts]
BY BoundsAssumption DEF Unbound

LEMMA ForStep ==
    ASSUME StackInv, NEW withInit \in BOOLEAN, BeginFor(withInit)
    PROVE  StackInv'
<1>1. PICK f : f = Frame("for", IF withInit THEN "init" ELSE "cond", FALSE, FALSE)
  OBVIOUS
<1>2. /\ AtStmt /\ Visit /\ ctl' = Append(ctl, f) /\ EmitNothing
      /\ breakBlocks' = Append(breakBlocks, Target)
      /\ continueBlocks' = Append(continueBlocks, Target)
      /\ scopes' = Append(scopes, Unbound)
      /\ UNCHANGED <<deferScopes, cleanupScopes, terminated, strings, live,
                     frames, result, skipped>>
  BY <1>1 DEF BeginFor
<1>3. visited' \in 0..MaxStmts
  BY <1>2, VisitTyped DEF AtStmt
<1>4. /\ GenTypes /\ RunTypes
  BY DEF StackInv
<1>5. f \in Statement /\ f.k = "for"
  <2>1. PICK ph \in {"init", "cond", "body", "after"} : ph = IF withInit THEN "init" ELSE "cond"
    OBVIOUS
  <2>2. f = [k |-> "for", id |-> visited', phase |-> ph, alt |-> FALSE, pend |-> FALSE]
    BY <1>1, <2>1 DEF Frame
  <2>3. QED
    BY <1>3, <2>2 DEF Statement, Kinds
<1>6. scopes' \in Scopes /\ Len(scopes') = Len(scopes) + 1
  BY <1>2, <1>4, UnboundTyped, ScopeOpened DEF GenTypes
<1>7. /\ breakBlocks' = PushedTarget(f, Breakable, ctl, deferScopes, breakBlocks)
      /\ continueBlocks' = PushedTarget(f, Loops, ctl, deferScopes, continueBlocks)
  BY <1>2, <1>5 DEF PushedTarget, Target, TargetOf, Breakable, Loops
<1>8. Balanced(ctl', scopes', deferScopes', breakBlocks', continueBlocks')
  BY <1>2, <1>5, <1>6, <1>7, BodyBegun DEF Scoped
<1>9. live' \in BOOLEAN /\ terminated' \in BOOLEAN
  BY <1>2, <1>4 DEF GenTypes, RunTypes
<1>10. QED
  BY <1>2, <1>3, <1>6, <1>8, <1>9, QuietKeeps

LEMMA SwitchStep ==
    ASSUME StackInv, BeginSwitch
    PROVE  StackInv'
<1>1. PICK f : f = Frame("switch", "body", FALSE, live)
  OBVIOUS
<1>2. /\ AtStmt /\ Visit /\ ctl' = Append(ctl, f) /\ live' = FALSE /\ EmitNothing
      /\ breakBlocks' = Append(breakBlocks, Target)
      /\ UNCHANGED <<scopes, deferScopes, cleanupScopes, continueBlocks,
                     terminated, strings, frames, result, skipped>>
  BY <1>1 DEF BeginSwitch
<1>3. visited' \in 0..MaxStmts
  BY <1>2, VisitTyped DEF AtStmt
<1>4. /\ GenTypes /\ RunTypes
  BY DEF StackInv
<1>5. live \in BOOLEAN /\ live' \in BOOLEAN
  BY <1>2, <1>4 DEF RunTypes
<1>6. f \in Statement /\ f.k = "switch" /\ f.phase = "body"
  <2>1. PICK a \in BOOLEAN : a = FALSE
    BY <1>3, <1>5
  <2>2. PICK q \in BOOLEAN : q = live
    BY <1>3, <1>5
  <2>3. f = [k |-> "switch", id |-> visited', phase |-> "body", alt |-> a, pend |-> q]
    BY <1>1, <2>1, <2>2 DEF Frame
  <2>4. QED
    BY <1>3, <1>5, <2>3 DEF Statement, Kinds
<1>7. /\ breakBlocks' = PushedTarget(f, Breakable, ctl, deferScopes, breakBlocks)
      /\ continueBlocks' = PushedTarget(f, Loops, ctl, deferScopes, continueBlocks)
  BY <1>2, <1>6 DEF PushedTarget, Target, TargetOf, Breakable, Loops
<1>8. Balanced(ctl', scopes', deferScopes', breakBlocks', continueBlocks')
  BY <1>2, <1>6, <1>7, BodyBegun DEF Scoped
<1>9. scopes' \in Scopes /\ terminated' \in BOOLEAN
  BY <1>2, <1>4 DEF GenTypes
<1>10. QED
  BY <1>2, <1>3, <1>5, <1>8, <1>9, QuietKeeps

LEMMA LambdaStep ==
    ASSUME StackInv, NEW captured, BeginLambda(captured)
    PROVE  StackInv'
<1>1. PICK f : f = Frame("lambda", "body", live, FALSE)
  OBVIOUS
<1>2. PICK w : w = [x \in Names |-> IF x \in captured THEN visited' ELSE 0]
  OBVIOUS
<1>3. /\ AtStmt /\ Visit /\ ctl' = Append(ctl, f) /\ live' = FALSE /\ EmitNothing
      /\ scopes' = Append(scopes, w)
      /\ UNCHANGED <<deferScopes, cleanupScopes, breakBlocks, continueBlocks,
                     terminated, strings, frames, result, skipped>>
  BY <1>1, <1>2 DEF BeginLambda
<1>4. visited' \in 0..MaxStmts
  BY <1>3, VisitTyped DEF AtStmt
<1>5. /\ GenTypes /\ RunTypes
  BY DEF StackInv
<1>6. live \in BOOLEAN /\ live' \in BOOLEAN
  BY <1>3, <1>5 DEF RunTypes
<1>7. f \in Statement /\ f.k = "lambda"
  <2>1. PICK a \in BOOLEAN : a = live
    BY <1>4, <1>6
  <2>2. PICK q \in BOOLEAN : q = FALSE
    BY <1>4, <1>6
  <2>3. f = [k |-> "lambda", id |-> visited', phase |-> "body", alt |-> a, pend |-> q]
    BY <1>1, <2>1, <2>2 DEF Frame
  <2>4. QED
    BY <1>4, <1>6, <2>3 DEF Statement, Kinds
<1>8. w \in [Names -> 0..MaxStmts]
  BY <1>2, <1>4, BoundsAssumption
<1>9. scopes' \in Scopes /\ Len(scopes') = Len(scopes) + 1
  BY <1>3, <1>5, <1>8, ScopeOpened, Zenon DEF GenTypes
<1>10. /\ breakBlocks' = PushedTarget(f, Breakable, ctl, deferScopes, breakBlocks)
       /\ continueBlocks' = PushedTarget(f, Loops, ctl, deferScopes, continueBlocks)
  BY <1>3, <1>7 DEF PushedTarget, Breakable, Loops
<1>11. Balanced(ctl', scopes', deferScopes', breakBlocks', continueBlocks')
  BY <1>3, <1>7, <1>9, <1>10, BodyBegun, Zenon DEF Scoped
<1>12. terminated' \in BOOLEAN
  BY <1>3, <1>5 DEF GenTypes
<1>13. QED
  BY <1>3, <1>4, <1>6, <1>9, <1>11, <1>12, QuietKeeps

\* A block is opened on the statements c, which are ctl but for a pend.
LEMMA BlockOpened ==
    ASSUME StackInv, NEW c, Balanced(c, scopes, deferScopes, breakBlocks, continueBlocks),
           c # <<>>, c[Len(c)].phase = "body", visited' \in 0..MaxStmts, OpenBlock(c),
           live' \in BOOLEAN, terminated' \in BOOLEAN, EmitNothing,
           UNCHANGED <<breakBlocks, continueBlocks, strings, result, skipped>>
    PROVE  StackInv'
<1>1. PICK f : f = Frame("compound", "body", FALSE, FALSE)
  OBVIOUS
<1>2. /\ ctl' = Append(c, f) /\ scopes' = Append(scopes, Unbound)
      /\ deferScopes' = Append(deferScopes, <<>>)
      /\ cleanupScopes' = Append(cleanupScopes, <<>>)
      /\ frames' = IF live' THEN Append(frames, <<>>) ELSE frames
  BY <1>1 DEF OpenBlock
<1>3. f \in Statement /\ f.k = "compound" /\ f.phase = "body"
  <2>1. f = [k |-> "compound", id |-> visited', phase |-> "body", alt |-> FALSE, pend |-> FALSE]
    BY <1>1 DEF Frame
  <2>2. QED
    BY <2>1 DEF Statement, Kinds
<1>4. /\ GenTypes /\ RunTypes
      /\ Paired(Item, deferScopes, cleanupScopes)
      /\ Paired(PendingItem, deferScopes, cleanupScopes)
  BY DEF StackInv
<1>5. scopes' \in Scopes /\ Len(scopes') = Len(scopes) + 1
  BY <1>2, <1>4, UnboundTyped, ScopeOpened DEF GenTypes
<1>6. ASSUME NEW T, Paired(T, deferScopes, cleanupScopes)
      PROVE  /\ Paired(T, deferScopes', cleanupScopes')
             /\ Len(deferScopes') = Len(deferScopes) + 1
  <2>1. <<>> \in Seq(T)
    BY EmptySeq
  <2>2. deferScopes' \in Seq(Seq(T)) /\ Len(deferScopes') = Len(deferScopes) + 1
    BY <1>2, <1>6, <2>1, AppendProperties DEF Paired
  <2>3. cleanupScopes' \in Seq(Seq(T)) /\ Len(cleanupScopes') = Len(cleanupScopes) + 1
    BY <1>2, <1>6, <2>1, AppendProperties DEF Paired
  <2>4. QED
    BY <1>6, <2>2, <2>3 DEF Paired
<1>7. ChildOf(c, f)
  BY <1>3 DEF ChildOf
<1>8. PICK d, sc2, ds2, bb2, cb2 : /\ d = ctl' /\ sc2 = scopes' /\ ds2 = deferScopes'
                                   /\ bb2 = breakBlocks' /\ cb2 = continueBlocks'
  OBVIOUS
<1>9. Grown(f, c, scopes, deferScopes, breakBlocks, continueBlocks, sc2, ds2, bb2, cb2)
  <2>1. Len(ds2) = Len(deferScopes) + 1 /\ Len(sc2) = Len(scopes) + 1
    BY <1>4, <1>5, <1>6, <1>8
  <2>2. bb2 = breakBlocks /\ cb2 = continueBlocks
    BY <1>8
  <2>3. QED
    BY <1>3, <2>1, <2>2 DEF Grown, PushedTarget, Blocks, Scoped, Breakable, Loops
<1>10. d = Append(c, f)
  BY <1>2, <1>8
<1>11. Balanced(d, sc2, ds2, bb2, cb2)
  BY <1>7, <1>9, <1>10, PushedOn
<1>12. frames' \in Seq(Seq(Obligation))
  <2>1. <<>> \in Seq(Obligation)
    BY EmptySeq
  <2>2. frames \in Seq(Seq(Obligation))
    BY <1>4 DEF RunTypes
  <2>3. Append(frames, <<>>) \in Seq(Seq(Obligation))
    BY <2>1, <2>2, AppendProperties
  <2>4. QED
    BY <1>2, <2>2, <2>3
<1>13. EmitTypes'
  BY NothingTyped
<1>14. GenTypes'
  BY <1>4, <1>5, <1>13 DEF GenTypes, EmitTypes
<1>15. RunTypes'
  BY <1>4, <1>12, <1>13 DEF RunTypes, EmitTypes
<1>16. QED
  BY <1>4, <1>6, <1>8, <1>11, <1>14, <1>15 DEF StackInv

LEMMA CompoundStep ==
    ASSUME StackInv, BeginCompound
    PROVE  StackInv'
<1>1. /\ ctl # <<>> /\ visited < MaxStmts /\ Top.phase = "body" /\ Visit
      /\ UNCHANGED live /\ OpenBlock(ctl) /\ EmitNothing
      /\ UNCHANGED <<breakBlocks, continueBlocks, terminated, strings, result,
                     skipped>>
  BY DEF BeginCompound
<1>2. visited' \in 0..MaxStmts
  BY <1>1, VisitTyped
<1>3. ctl[Len(ctl)].phase = "body"
  BY <1>1, TopFacts
<1>4. Balanced(ctl, scopes, deferScopes, breakBlocks, continueBlocks)
  BY DEF StackInv
<1>5. live' \in BOOLEAN /\ terminated' \in BOOLEAN
  BY <1>1 DEF StackInv, RunTypes, GenTypes
<1>6. QED
  BY <1>1, <1>2, <1>3, <1>4, <1>5, BlockOpened

\* One statement is changed in a field that is not its kind.
LEMMA ChangedBalanced ==
    ASSUME NEW c, NEW sc, NEW ds, NEW bb, NEW cb, Balanced(c, sc, ds, bb, cb),
           NEW i, NEW w, NEW d, Changed(c, i, w, d)
    PROVE  /\ Balanced(d, sc, ds, bb, cb) /\ Len(d) = Len(c) /\ d[i] = w
           /\ \A j \in 1..Len(c) : j # i => d[j] = c[j]
           /\ SameKinds(c, d)
<1>1. Nested(c)
  BY DEF Balanced
<1>2. /\ Nested(d) /\ SameKinds(c, d) /\ Len(d) = Len(c) /\ d[i] = w
      /\ \A j \in 1..Len(c) : j # i => d[j] = c[j]
  BY <1>1, ChangedNested
<1>3. Balanced(d, sc, ds, bb, cb)
  BY <1>2, KeptBalanced
<1>4. QED
  BY <1>2, <1>3

\* A case is selected, or is not.
CaseChosen(selected) == [ctl EXCEPT ![Len(ctl)].pend = @ /\ ~selected]

LEMMA CaseChosenFacts ==
    ASSUME StackInv, ctl # <<>>, Top.k = "switch", NEW selected \in BOOLEAN,
           NEW c, c = CaseChosen(selected)
    PROVE  /\ Balanced(c, scopes, deferScopes, breakBlocks, continueBlocks)
           /\ Len(c) = Len(ctl) /\ c # <<>> /\ SameKinds(ctl, c)
           /\ c[Len(c)].phase = "body" /\ c[Len(c)].k = "switch"
           /\ c[Len(c)].alt = Top.alt /\ c[Len(c)].pend = (Top.pend /\ ~selected)
           /\ \A j \in 1..Len(ctl) : j # Len(ctl) => c[j] = ctl[j]
<1>1. PICK n \in Nat \ {0} : n = Len(ctl) /\ n \in 1..n /\ ctl[n] = Top
  BY TopFacts
<1>2. PICK a \in Statement : a = ctl[n] /\ a = Top
  BY <1>1, TopFacts
<1>3. PICK q \in BOOLEAN : q = (a.pend /\ ~selected)
  BY <1>2 DEF Statement
<1>4. /\ [a EXCEPT !.pend = q] \in Statement /\ [a EXCEPT !.pend = q].k = a.k
      /\ [a EXCEPT !.pend = q].phase = a.phase /\ [a EXCEPT !.pend = q].alt = a.alt
      /\ [a EXCEPT !.pend = q].pend = q
  BY <1>2 DEF Statement
<1>5. PICK w \in Statement : /\ w = [a EXCEPT !.pend = q] /\ w.k = a.k /\ w.phase = a.phase
                             /\ w.alt = a.alt /\ w.pend = q
  BY <1>4
<1>6. c = [ctl EXCEPT ![n] = w]
  BY <1>1, <1>2, <1>3, <1>5 DEF CaseChosen
<1>7. Balanced(ctl, scopes, deferScopes, breakBlocks, continueBlocks)
  BY DEF StackInv
<1>8. /\ Balanced(c, scopes, deferScopes, breakBlocks, continueBlocks)
      /\ Len(c) = n /\ c[n] = w /\ SameKinds(ctl, c)
      /\ \A j \in 1..n : j # n => c[j] = ctl[j]
  <2>1. Changed(ctl, n, w, c)
    BY <1>1, <1>2, <1>5, <1>6 DEF Changed
  <2>2. QED
    BY <1>1, <1>7, <2>1, ChangedBalanced
<1>9. a.phase = "body"
  BY <1>1, <1>2, TopFacts DEF Nested
<1>10. c # <<>>
  BY <1>8, EmptySeq DEF Balanced, Nested
<1>11. QED
  BY <1>1, <1>2, <1>3, <1>5, <1>8, <1>9, <1>10

LEMMA CaseStep ==
    ASSUME StackInv, NEW selected \in BOOLEAN, BeginCase(selected)
    PROVE  StackInv'
<1>1. /\ ctl # <<>> /\ Top.k = "switch" /\ visited < MaxStmts /\ Visit
      /\ live' = (live \/ (Top.pend /\ selected)) /\ terminated' = FALSE
      /\ OpenBlock(CaseChosen(selected)) /\ EmitNothing
      /\ UNCHANGED <<breakBlocks, continueBlocks, strings, result, skipped>>
  BY DEF BeginCase, CaseChosen
<1>2. visited' \in 0..MaxStmts
  BY <1>1, VisitTyped
<1>3. PICK c : c = CaseChosen(selected)
  OBVIOUS
<1>4. /\ Balanced(c, scopes, deferScopes, breakBlocks, continueBlocks)
      /\ c # <<>> /\ c[Len(c)].phase = "body"
  BY <1>1, <1>3, CaseChosenFacts
<1>5. live' \in BOOLEAN /\ terminated' \in BOOLEAN
  BY <1>1 DEF StackInv, RunTypes
<1>6. OpenBlock(c)
  BY <1>1, <1>3
<1>7. QED
  BY <1>1, <1>2, <1>4, <1>5, <1>6, BlockOpened

\* The innermost statement is done.
LEMMA LeftStep ==
    ASSUME StackInv, ctl # <<>>, Top.k # "fn", ctl' = Complete(Front(ctl)),
           Len(scopes') = IF Top.k \in Scoped THEN Len(scopes) - 1 ELSE Len(scopes),
           Len(deferScopes') = IF Top.k \in Blocks THEN Len(deferScopes) - 1
                               ELSE Len(deferScopes),
           breakBlocks' = PoppedTarget(Top, Breakable, breakBlocks),
           continueBlocks' = PoppedTarget(Top, Loops, continueBlocks)
    PROVE  Balanced(ctl', scopes', deferScopes', breakBlocks', continueBlocks')
<1>1. Top = ctl[Len(ctl)]
  BY TopFacts
<1>2. Balanced(ctl, scopes, deferScopes, breakBlocks, continueBlocks)
  BY DEF StackInv
<1>3. PICK d, sc2, ds2, bb2, cb2 : /\ d = ctl' /\ sc2 = scopes' /\ ds2 = deferScopes'
                                   /\ bb2 = breakBlocks' /\ cb2 = continueBlocks'
  OBVIOUS
<1>4. d = Complete(Front(ctl)) /\ ctl[Len(ctl)].k # "fn"
  BY <1>1, <1>3
<1>5. \A sc3, ds3, bb3, cb3 :
        /\ Len(sc3) = IF ctl[Len(ctl)].k \in Scoped THEN Len(scopes) - 1 ELSE Len(scopes)
        /\ Len(ds3) = IF ctl[Len(ctl)].k \in Blocks THEN Len(deferScopes) - 1
                      ELSE Len(deferScopes)
        /\ bb3 = PoppedTarget(ctl[Len(ctl)], Breakable, breakBlocks)
        /\ cb3 = PoppedTarget(ctl[Len(ctl)], Loops, continueBlocks)
        => Balanced(d, sc3, ds3, bb3, cb3)
  BY <1>2, <1>4, LeftBalanced
<1>6. /\ Len(sc2) = IF ctl[Len(ctl)].k \in Scoped THEN Len(scopes) - 1 ELSE Len(scopes)
      /\ Len(ds2) = IF ctl[Len(ctl)].k \in Blocks THEN Len(deferScopes) - 1
                    ELSE Len(deferScopes)
      /\ bb2 = PoppedTarget(ctl[Len(ctl)], Breakable, breakBlocks)
      /\ cb2 = PoppedTarget(ctl[Len(ctl)], Loops, continueBlocks)
  BY <1>1, <1>3
<1>7. Balanced(d, sc2, ds2, bb2, cb2)
  BY <1>5, <1>6
<1>8. QED
  BY <1>3, <1>7

\* A Scope is closed.
LEMMA ScopeClosed ==
    ASSUME StackInv, ctl # <<>>, NEW t, t = Front(scopes)
    PROVE  /\ t \in Scopes /\ Len(t) = Len(scopes) - 1
           /\ \A i \in 1..(Len(scopes) - 1) : t[i] = scopes[i]
<1>1. PICK S : S = [Names -> 0..MaxStmts]
  OBVIOUS
<1>2. scopes \in Seq(S) /\ Len(scopes) \in Nat \ {0}
  BY <1>1, TopFacts DEF StackInv, GenTypes, Scopes
<1>3. t \in Seq(S) /\ Len(t) = Len(scopes) - 1 /\ \A i \in 1..(Len(scopes) - 1) : t[i] = scopes[i]
  BY <1>2, FrontFacts
<1>4. QED
  BY <1>1, <1>3 DEF Scopes

\* The clean-up that is pending in the block goes.
LEMMA DeferScopeClosed ==
    ASSUME StackInv, Len(deferScopes) \in Nat \ {0}, CloseDeferScope,
           NEW T, Paired(T, deferScopes, cleanupScopes)
    PROVE  /\ Paired(T, deferScopes', cleanupScopes')
           /\ Len(deferScopes') = Len(deferScopes) - 1
           /\ \A i \in 1..(Len(deferScopes) - 1) : /\ deferScopes'[i] = deferScopes[i]
                                                  /\ cleanupScopes'[i] = cleanupScopes[i]
<1>1. PICK S : S = Seq(T)
  OBVIOUS
<1>2. /\ deferScopes \in Seq(S) /\ cleanupScopes \in Seq(S)
      /\ Len(cleanupScopes) = Len(deferScopes)
  BY <1>1 DEF Paired
<1>3. PICK d, c : /\ d = deferScopes' /\ c = cleanupScopes'
                  /\ d = Front(deferScopes) /\ c = Front(cleanupScopes)
  BY DEF CloseDeferScope
<1>4. /\ d \in Seq(S) /\ Len(d) = Len(deferScopes) - 1
      /\ \A i \in 1..(Len(deferScopes) - 1) : d[i] = deferScopes[i]
  BY <1>2, <1>3, FrontFacts
<1>5. /\ c \in Seq(S) /\ Len(c) = Len(cleanupScopes) - 1
      /\ \A i \in 1..(Len(cleanupScopes) - 1) : c[i] = cleanupScopes[i]
  <2>1. Len(cleanupScopes) \in Nat \ {0}
    BY <1>2
  <2>2. QED
    BY <1>2, <1>3, <2>1, FrontFacts
<1>6. QED
  BY <1>1, <1>2, <1>3, <1>4, <1>5 DEF Paired

LEMMA EndCompoundStep ==
    ASSUME StackInv, EndCompound
    PROVE  StackInv'
<1>1. /\ ctl # <<>> /\ Top.k = "compound" /\ CloseDeferScope
      /\ scopes' = Front(scopes) /\ ctl' = Complete(Front(ctl))
      /\ UNCHANGED <<breakBlocks, continueBlocks, terminated, visited, strings,
                     live, result, skipped>>
  BY DEF EndCompound
<1>2. /\ GenTypes /\ RunTypes
      /\ Paired(Item, deferScopes, cleanupScopes)
      /\ Paired(PendingItem, deferScopes, cleanupScopes)
  BY DEF StackInv
<1>3. Len(deferScopes) \in Nat \ {0}
  <2>1. PICK n \in Nat \ {0} : n = Len(ctl) /\ n # 1
    BY <1>1, TopFacts
  <2>2. Len(ctl) > 1
    BY <2>1
  <2>3. QED
    BY <1>1, <2>2, TopFacts
<1>4. scopes' \in Scopes /\ Len(scopes') = Len(scopes) - 1
  BY <1>1, ScopeClosed
<1>5. Paired(Item, deferScopes', cleanupScopes') /\ Len(deferScopes') = Len(deferScopes) - 1
  BY <1>1, <1>2, <1>3, DeferScopeClosed
<1>6. Paired(PendingItem, deferScopes', cleanupScopes')
  BY <1>1, <1>2, <1>3, DeferScopeClosed
<1>7. Balanced(ctl', scopes', deferScopes', breakBlocks', continueBlocks')
  BY <1>1, <1>4, <1>5, LeftStep DEF PoppedTarget, Blocks, Scoped, Breakable, Loops
<1>8. EmitTypes' /\ frames' \in Seq(Seq(Obligation))
  <2>1. CASE terminated
    <3>1. EmitNothing /\ UNCHANGED frames
      BY <2>1 DEF EndCompound
    <3>2. QED
      BY <1>2, <3>1, NothingTyped DEF RunTypes
  <2>2. CASE ~terminated
    <3>1. Emit(EmitDefersFrom(Len(deferScopes) - 1), store) /\ Unwound(1)
      BY <2>2 DEF EndCompound
    <3>2. PICK items \in Seq(PendingItem) : items = EmitDefersFrom(Len(deferScopes) - 1)
      <4>1. Len(deferScopes) - 1 \in 0..Len(deferScopes)
        BY <1>3
      <4>2. QED
        BY <1>2, <4>1, EmitSteps
    <3>3. PICK st \in [Ids -> {"unborn", "owner", "null"}] : st = store
      BY <1>2 DEF RunTypes
    <3>4. Emit(items, st)
      BY <3>1, <3>2, <3>3
    <3>5. EmitTypes'
      BY <3>4, EmitTyped
    <3>6. frames' \in Seq(Seq(Obligation))
      BY <3>1, UnwoundTyped
    <3>7. QED
      BY <3>5, <3>6
  <2>3. QED
    BY <2>1, <2>2
<1>9. GenTypes'
  BY <1>1, <1>2, <1>4, <1>8 DEF GenTypes, EmitTypes
<1>10. RunTypes'
  BY <1>1, <1>2, <1>8 DEF RunTypes, EmitTypes
<1>11. QED
  BY <1>5, <1>6, <1>7, <1>9, <1>10 DEF StackInv

LEMMA EndIfStep ==
    ASSUME StackInv, EndIf
    PROVE  StackInv'
<1>1. /\ ctl # <<>> /\ Top.k \in {"if", "else"} /\ ctl' = Complete(Front(ctl))
      /\ live' = (live \/ (IF Top.k = "if" THEN Top.alt ELSE Top.pend))
      /\ terminated' = FALSE /\ EmitNothing
      /\ UNCHANGED <<scopes, deferScopes, cleanupScopes, breakBlocks, visited,
                     continueBlocks, strings, frames, result, skipped>>
  BY DEF EndIf
<1>2. GenTypes /\ RunTypes /\ Top \in Statement
  BY <1>1, TopFacts DEF StackInv
<1>3. Balanced(ctl', scopes', deferScopes', breakBlocks', continueBlocks')
  BY <1>1, LeftStep DEF PoppedTarget, Blocks, Scoped, Breakable, Loops
<1>4. live' \in BOOLEAN
  BY <1>1, <1>2 DEF RunTypes, Statement
<1>5. scopes' \in Scopes /\ terminated' \in BOOLEAN /\ visited' \in 0..MaxStmts
  BY <1>1, <1>2 DEF GenTypes
<1>6. QED
  BY <1>1, <1>3, <1>4, <1>5, QuietKeeps

LEMMA EndLoopStep ==
    ASSUME StackInv, EndLoop
    PROVE  StackInv'
<1>1. /\ ctl # <<>> /\ Top.k \in {"loop", "for"} /\ ctl' = Complete(Front(ctl))
      /\ breakBlocks' = Front(breakBlocks) /\ continueBlocks' = Front(continueBlocks)
      /\ scopes' = IF Top.k = "for" THEN Front(scopes) ELSE scopes
      /\ live' = (live \/ Top.alt) /\ terminated' = FALSE /\ EmitNothing
      /\ UNCHANGED <<deferScopes, cleanupScopes, visited, strings, frames, result,
                     skipped>>
  BY DEF EndLoop
<1>2. GenTypes /\ RunTypes /\ Top \in Statement
  BY <1>1, TopFacts DEF StackInv
<1>3. /\ scopes' \in Scopes
      /\ Len(scopes') = IF Top.k \in Scoped THEN Len(scopes) - 1 ELSE Len(scopes)
  <2>1. Front(scopes) \in Scopes /\ Len(Front(scopes)) = Len(scopes) - 1
    BY <1>1, ScopeClosed
  <2>2. QED
    BY <1>1, <1>2, <2>1 DEF Scoped, GenTypes
<1>4. Balanced(ctl', scopes', deferScopes', breakBlocks', continueBlocks')
  BY <1>1, <1>3, LeftStep DEF PoppedTarget, Blocks, Breakable, Loops
<1>5. live' \in BOOLEAN
  BY <1>1, <1>2 DEF RunTypes, Statement
<1>6. terminated' \in BOOLEAN /\ visited' \in 0..MaxStmts
  BY <1>1, <1>2 DEF GenTypes
<1>7. QED
  BY <1>1, <1>3, <1>4, <1>5, <1>6, QuietKeeps

LEMMA EndSwitchStep ==
    ASSUME StackInv, EndSwitch
    PROVE  StackInv'
<1>1. /\ ctl # <<>> /\ Top.k = "switch" /\ ctl' = Complete(Front(ctl))
      /\ breakBlocks' = Front(breakBlocks)
      /\ live' = (live \/ Top.alt \/ Top.pend) /\ terminated' = FALSE /\ EmitNothing
      /\ UNCHANGED <<scopes, deferScopes, cleanupScopes, continueBlocks, visited,
                     strings, frames, result, skipped>>
  BY DEF EndSwitch
<1>2. GenTypes /\ RunTypes /\ Top \in Statement
  BY <1>1, TopFacts DEF StackInv
<1>3. Balanced(ctl', scopes', deferScopes', breakBlocks', continueBlocks')
  BY <1>1, LeftStep DEF PoppedTarget, Blocks, Scoped, Breakable, Loops
<1>4. live' \in BOOLEAN
  BY <1>1, <1>2 DEF RunTypes, Statement
<1>5. scopes' \in Scopes /\ terminated' \in BOOLEAN /\ visited' \in 0..MaxStmts
  BY <1>1, <1>2 DEF GenTypes
<1>6. QED
  BY <1>1, <1>3, <1>4, <1>5, QuietKeeps

LEMMA EndLambdaStep ==
    ASSUME StackInv, EndLambda
    PROVE  StackInv'
<1>1. /\ ctl # <<>> /\ Top.k = "lambda" /\ ctl' = Complete(Front(ctl))
      /\ scopes' = Front(scopes) /\ live' = Top.alt /\ terminated' = FALSE /\ EmitNothing
      /\ UNCHANGED <<deferScopes, cleanupScopes, breakBlocks, continueBlocks,
                     visited, strings, frames, result, skipped>>
  BY DEF EndLambda
<1>2. GenTypes /\ RunTypes /\ Top \in Statement
  BY <1>1, TopFacts DEF StackInv
<1>3. scopes' \in Scopes /\ Len(scopes') = Len(scopes) - 1
  BY <1>1, ScopeClosed
<1>4. Balanced(ctl', scopes', deferScopes', breakBlocks', continueBlocks')
  BY <1>1, <1>3, LeftStep DEF PoppedTarget, Blocks, Scoped, Breakable, Loops
<1>5. live' \in BOOLEAN
  BY <1>1, <1>2 DEF Statement
<1>6. terminated' \in BOOLEAN /\ visited' \in 0..MaxStmts
  BY <1>1, <1>2 DEF GenTypes
<1>7. QED
  BY <1>1, <1>3, <1>4, <1>5, <1>6, QuietKeeps

\* The innermost statement is at its next part.
Resumed(c, a) == [c EXCEPT ![Len(c)] = a]

LEMMA ResumedFacts ==
    ASSUME StackInv, ctl # <<>>, NEW w \in Statement, NEW d, d = Resumed(ctl, w),
           w.k = Top.k \/ (Top.k = "if" /\ w.k = "else"),
           Top.k \notin {"compound", "switch"}
    PROVE  /\ Balanced(d, scopes, deferScopes, breakBlocks, continueBlocks)
           /\ Len(d) = Len(ctl) /\ d[Len(ctl)] = w /\ SameKinds(ctl, d)
           /\ \A j \in 1..Len(ctl) : j # Len(ctl) => d[j] = ctl[j]
<1>1. PICK n \in Nat \ {0} : n = Len(ctl) /\ n \in 1..n /\ ctl[n] = Top
  BY TopFacts
<1>2. d = [ctl EXCEPT ![n] = w]
  BY <1>1 DEF Resumed
<1>3. w.k \notin {"compound", "switch"}
  OBVIOUS
<1>4. Changed(ctl, n, w, d)
  BY <1>1, <1>2, <1>3 DEF Changed
<1>5. Balanced(ctl, scopes, deferScopes, breakBlocks, continueBlocks)
  BY DEF StackInv
<1>6. QED
  BY <1>1, <1>4, <1>5, ChangedBalanced

LEMMA BeginElseStep ==
    ASSUME StackInv, BeginElse
    PROVE  StackInv'
<1>1. /\ ctl # <<>> /\ Top.k = "if"
      /\ ctl' = [ctl EXCEPT ![Len(ctl)] =
                   [@ EXCEPT !.k = "else", !.phase = "body", !.pend = live]]
      /\ live' = Top.alt /\ terminated' = FALSE /\ EmitNothing
      /\ UNCHANGED <<scopes, deferScopes, cleanupScopes, breakBlocks, visited,
                     continueBlocks, strings, frames, result, skipped>>
  BY DEF BeginElse
<1>2. GenTypes /\ RunTypes /\ Top \in Statement /\ Top = ctl[Len(ctl)]
  BY <1>1, TopFacts DEF StackInv
<1>3. PICK q \in BOOLEAN : q = live
  BY <1>2 DEF RunTypes
<1>4. /\ [Top EXCEPT !.k = "else", !.phase = "body", !.pend = q] \in Statement
      /\ [Top EXCEPT !.k = "else", !.phase = "body", !.pend = q].k = "else"
  BY <1>2 DEF Statement, Kinds
<1>5. PICK w \in Statement :
          w = [Top EXCEPT !.k = "else", !.phase = "body", !.pend = q] /\ w.k = "else"
  BY <1>4
<1>6. PICK d : d = ctl' /\ d = Resumed(ctl, w)
  BY <1>1, <1>2, <1>3, <1>5 DEF Resumed
<1>7. Balanced(d, scopes, deferScopes, breakBlocks, continueBlocks)
  BY <1>1, <1>5, <1>6, ResumedFacts
<1>8. Balanced(ctl', scopes', deferScopes', breakBlocks', continueBlocks')
  BY <1>1, <1>6, <1>7
<1>9. live' \in BOOLEAN
  BY <1>1, <1>2 DEF Statement
<1>10. scopes' \in Scopes /\ terminated' \in BOOLEAN /\ visited' \in 0..MaxStmts
  BY <1>1, <1>2 DEF GenTypes
<1>11. QED
  BY <1>1, <1>8, <1>9, <1>10, QuietKeeps

LEMMA ForBodyStep ==
    ASSUME StackInv, NEW entered \in BOOLEAN, ForBody(entered)
    PROVE  StackInv'
<1>1. /\ ctl # <<>> /\ Top.k = "for"
      /\ ctl' = [ctl EXCEPT ![Len(ctl)] =
                   [@ EXCEPT !.phase = "body", !.alt = live /\ ~entered, !.id = visited]]
      /\ live' = (live /\ entered) /\ EmitNothing
      /\ UNCHANGED <<scopes, deferScopes, cleanupScopes, breakBlocks, visited,
                     continueBlocks, terminated, strings, frames, result, skipped>>
  BY DEF ForBody
<1>2. GenTypes /\ RunTypes /\ Top \in Statement /\ Top = ctl[Len(ctl)]
  BY <1>1, TopFacts DEF StackInv
<1>3. PICK q \in BOOLEAN : q = (live /\ ~entered)
  BY <1>2 DEF RunTypes
<1>4. /\ [Top EXCEPT !.phase = "body", !.alt = q, !.id = visited] \in Statement
      /\ [Top EXCEPT !.phase = "body", !.alt = q, !.id = visited].k = Top.k
  BY <1>2 DEF Statement, GenTypes
<1>5. PICK w \in Statement :
            /\ w = [Top EXCEPT !.phase = "body", !.alt = q, !.id = visited]
            /\ w.k = Top.k
  BY <1>4
<1>6. PICK d : d = ctl' /\ d = Resumed(ctl, w)
  BY <1>1, <1>2, <1>3, <1>5 DEF Resumed
<1>7. Balanced(d, scopes, deferScopes, breakBlocks, continueBlocks)
  BY <1>1, <1>5, <1>6, ResumedFacts
<1>8. Balanced(ctl', scopes', deferScopes', breakBlocks', continueBlocks')
  BY <1>1, <1>6, <1>7
<1>9. live' \in BOOLEAN
  BY <1>1, <1>2 DEF RunTypes
<1>10. scopes' \in Scopes /\ terminated' \in BOOLEAN /\ visited' \in 0..MaxStmts
  BY <1>1, <1>2 DEF GenTypes
<1>11. QED
  BY <1>1, <1>8, <1>9, <1>10, QuietKeeps

\* Clean-up is emitted from some block on.
LEMMA ClosingTyped ==
    ASSUME StackInv, NEW depth \in 0..Len(deferScopes),
           NEW st \in [Ids -> {"unborn", "owner", "null"}], Emit(EmitDefersFrom(depth), st)
    PROVE  EmitTypes'
<1>1. Paired(PendingItem, deferScopes, cleanupScopes)
  BY DEF StackInv
<1>2. PICK items \in Seq(PendingItem) : items = EmitDefersFrom(depth)
  BY <1>1, EmitSteps
<1>3. Emit(items, st)
  BY <1>2
<1>4. QED
  BY <1>3, EmitTyped

\* The target of a jump is the innermost statement of its kind.
LEMMA TargetFacts ==
    ASSUME StackInv, NEW K, NEW b, Targets(ctl, b, K), b # <<>>, NEW t, t = Last(b)
    PROVE  /\ t.frame \in 1..Len(ctl) /\ ctl[t.frame].k \in K
           /\ t.boundary = CountIn(ctl, t.frame, Blocks)
           /\ t.boundary \in 0..Len(deferScopes)
           /\ \A n \in (t.frame + 1)..Len(ctl) : ctl[n].k \notin K
<1>1. PICK n \in Nat : n = Len(ctl) /\ Len(deferScopes) = CountIn(ctl, n, Blocks)
  BY DEF StackInv, Balanced, Nested, Levels
<1>2. PICK m \in Nat \ {0} : m = Len(b) /\ m \in 1..m
  <2>1. Len(b) \in Nat /\ Len(b) # 0
    BY EmptySeq DEF Targets
  <2>2. QED
    BY <2>1
<1>3. t = b[m]
  BY <1>2 DEF Last
<1>4. PICK l \in 1..n : l = t.frame
  BY <1>1, <1>2, <1>3 DEF Targets
<1>5. ctl[l].k \in K /\ t.boundary = CountIn(ctl, l, Blocks)
  BY <1>2, <1>3, <1>4 DEF Targets
<1>6. t.boundary \in 0..Len(deferScopes)
  <2>1. l \in Nat /\ l <= n
    BY <1>4
  <2>2. CountIn(ctl, l, Blocks) <= CountIn(ctl, n, Blocks)
    BY <1>1, <2>1, CountGrows
  <2>3. CountIn(ctl, l, Blocks) \in Nat /\ CountIn(ctl, n, Blocks) \in Nat
    BY <1>1, <2>1, CountType
  <2>4. QED
    BY <1>1, <1>5, <2>2, <2>3
<1>7. ASSUME NEW i \in (l + 1)..n, ctl[i].k \in K
      PROVE  FALSE
  <2>1. i \in 1..n
    BY <1>4, <1>7
  <2>2. PICK j \in 1..m : b[j].frame = i
    BY <1>1, <1>2, <1>7, <2>1 DEF Targets
  <2>3. j < m => b[j].frame < b[m].frame
    BY <1>2 DEF Targets
  <2>4. CASE j = m
    BY <1>3, <1>4, <1>7, <2>2, <2>4
  <2>5. CASE j # m
    <3>1. j < m
      BY <1>2, <2>5
    <3>2. i < l
      BY <1>3, <1>4, <2>2, <2>3, <3>1
    <3>3. QED
      BY <1>4, <1>7, <3>2
  <2>6. QED
    BY <2>4, <2>5
<1>8. QED
  BY <1>1, <1>4, <1>5, <1>6, <1>7

\* The execution, if it is here, arrives where statement i ends.
Arriving(c, i, d) ==
    /\ Len(d) = Len(c) /\ d # <<>> /\ SameKinds(c, d)
    /\ \A j \in 1..Len(c) : j # i => d[j] = c[j]
    /\ d[i].alt = (c[i].alt \/ live) /\ d[i].pend = c[i].pend /\ d[i].k = c[i].k
    /\ d[i].phase = c[i].phase /\ d[i].id = c[i].id

LEMMA ArrivingFacts ==
    ASSUME StackInv, NEW i \in 1..Len(ctl), NEW d, d = [ctl EXCEPT ![i].alt = @ \/ live]
    PROVE  Balanced(d, scopes, deferScopes, breakBlocks, continueBlocks) /\ Arriving(ctl, i, d)
<1>1. PICK n \in Nat : n = Len(ctl) /\ ctl \in Seq(Statement) /\ i \in 1..n
  BY DEF StackInv, Balanced, Nested
<1>2. PICK a \in Statement : a = ctl[i]
  BY <1>1, ElementOfSeq
<1>3. PICK q \in BOOLEAN : q = (a.alt \/ live)
  BY DEF StackInv, RunTypes, Statement
<1>4. /\ [a EXCEPT !.alt = q] \in Statement /\ [a EXCEPT !.alt = q].k = a.k
      /\ [a EXCEPT !.alt = q].phase = a.phase /\ [a EXCEPT !.alt = q].pend = a.pend
      /\ [a EXCEPT !.alt = q].alt = q /\ [a EXCEPT !.alt = q].id = a.id
  BY <1>2 DEF Statement
<1>5. PICK w \in Statement : /\ w = [a EXCEPT !.alt = q] /\ w.k = a.k /\ w.phase = a.phase
                             /\ w.alt = q /\ w.pend = a.pend /\ w.id = a.id
  BY <1>4
<1>6. d = [ctl EXCEPT ![i] = w]
  BY <1>1, <1>2, <1>3, <1>5
<1>7. Balanced(ctl, scopes, deferScopes, breakBlocks, continueBlocks)
  BY DEF StackInv
<1>8. /\ Balanced(d, scopes, deferScopes, breakBlocks, continueBlocks)
      /\ Len(d) = n /\ d[i] = w /\ SameKinds(ctl, d)
      /\ \A j \in 1..n : j # i => d[j] = ctl[j]
  <2>1. Changed(ctl, i, w, d)
    BY <1>1, <1>2, <1>5, <1>6 DEF Changed
  <2>2. QED
    BY <1>1, <1>7, <2>1, ChangedBalanced
<1>9. d # <<>>
  BY <1>1, <1>8, EmptySeq DEF Balanced, Nested
<1>10. QED
  BY <1>1, <1>2, <1>3, <1>5, <1>8, <1>9 DEF Arriving

\* What follows a terminator has no execution.
LEMMA JumpedTyped ==
    ASSUME StackInv, ctl # <<>>, visited' \in 0..MaxStmts, EmitTypes', Jumped,
           frames' \in Seq(Seq(Obligation)), result' \in 0..MaxStmts,
           UNCHANGED <<scopes, deferScopes, cleanupScopes, strings, skipped>>,
           Balanced(ctl', scopes', deferScopes', breakBlocks', continueBlocks')
    PROVE  StackInv'
<1>1. /\ Paired(Item, deferScopes, cleanupScopes)
      /\ Paired(PendingItem, deferScopes, cleanupScopes) /\ GenTypes /\ RunTypes
  BY DEF StackInv
<1>2. /\ Paired(Item, deferScopes', cleanupScopes')
      /\ Paired(PendingItem, deferScopes', cleanupScopes')
  BY <1>1
<1>3. GenTypes'
  BY <1>1 DEF GenTypes, EmitTypes, Jumped
<1>4. RunTypes'
  BY <1>1 DEF RunTypes, EmitTypes, Jumped
<1>5. QED
  BY <1>2, <1>3, <1>4 DEF StackInv

LEMMA JumpStep ==
    ASSUME StackInv, AtStmt, Visit, NEW t, JumpTo(t),
           t.frame \in 1..Len(ctl), t.boundary \in 0..Len(deferScopes),
           UNCHANGED <<scopes, deferScopes, cleanupScopes, breakBlocks,
                       continueBlocks, strings, result, skipped>>
    PROVE  StackInv'
<1>1. /\ Emit(EmitDefersFrom(t.boundary), store)
      /\ Unwound(Len(deferScopes) - t.boundary) /\ Jumped
  BY DEF JumpTo
<1>2. PICK i \in 1..Len(ctl) : i = t.frame
  OBVIOUS
<1>3. PICK c : c = [ctl EXCEPT ![i].alt = @ \/ live]
  OBVIOUS
<1>4. PICK d : d = ctl' /\ d = Complete(c)
  BY <1>2, <1>3 DEF JumpTo
<1>5. Balanced(c, scopes, deferScopes, breakBlocks, continueBlocks) /\ c # <<>>
  BY <1>3, ArrivingFacts DEF Arriving
<1>6. Balanced(d, scopes, deferScopes, breakBlocks, continueBlocks)
  BY <1>4, <1>5, CompletedBalanced
<1>7. Balanced(ctl', scopes', deferScopes', breakBlocks', continueBlocks')
  BY <1>4, <1>6
<1>8. ctl # <<>> /\ visited' \in 0..MaxStmts
  BY VisitTyped DEF AtStmt
<1>9. PICK st \in [Ids -> {"unborn", "owner", "null"}] : st = store
  BY DEF StackInv, RunTypes
<1>10. EmitTypes'
  BY <1>1, <1>9, ClosingTyped
<1>11. PICK n \in Nat : n = Len(deferScopes) - t.boundary
  <2>1. Len(deferScopes) \in Nat
    BY DEF StackInv, Paired
  <2>2. Len(deferScopes) - t.boundary \in Nat
    BY <2>1
  <2>3. QED
    BY <2>2
<1>12. frames' \in Seq(Seq(Obligation))
  BY <1>1, <1>11, UnwoundTyped
<1>13. result' \in 0..MaxStmts
  BY DEF StackInv, RunTypes
<1>14. QED
  BY <1>1, <1>7, <1>8, <1>10, <1>12, <1>13, JumpedTyped

LEMMA BreakStep ==
    ASSUME StackInv, VisitBreak
    PROVE  StackInv'
<1>1. /\ AtStmt /\ Visit /\ breakBlocks # <<>> /\ JumpTo(Last(breakBlocks))
      /\ UNCHANGED <<scopes, deferScopes, cleanupScopes, breakBlocks,
                     continueBlocks, strings, result, skipped>>
  BY DEF VisitBreak
<1>2. PICK t : t = Last(breakBlocks)
  OBVIOUS
<1>3. t.frame \in 1..Len(ctl) /\ t.boundary \in 0..Len(deferScopes)
  <2>1. Targets(ctl, breakBlocks, Breakable)
    BY DEF StackInv, Balanced
  <2>2. QED
    BY <1>1, <1>2, <2>1, TargetFacts
<1>4. JumpTo(t)
  BY <1>1, <1>2
<1>5. QED
  BY <1>1, <1>3, <1>4, JumpStep

LEMMA ContinueStep ==
    ASSUME StackInv, VisitContinue
    PROVE  StackInv'
<1>1. /\ AtStmt /\ Visit /\ continueBlocks # <<>> /\ JumpTo(Last(continueBlocks))
      /\ UNCHANGED <<scopes, deferScopes, cleanupScopes, breakBlocks,
                     continueBlocks, strings, result, skipped>>
  BY DEF VisitContinue
<1>2. PICK t : t = Last(continueBlocks)
  OBVIOUS
<1>3. t.frame \in 1..Len(ctl) /\ t.boundary \in 0..Len(deferScopes)
  <2>1. Targets(ctl, continueBlocks, Loops)
    BY DEF StackInv, Balanced
  <2>2. QED
    BY <1>1, <1>2, <2>1, TargetFacts
<1>4. JumpTo(t)
  BY <1>1, <1>2
<1>5. QED
  BY <1>1, <1>3, <1>4, JumpStep

LEMMA StrayJumpStep ==
    ASSUME StackInv, VisitStrayJump
    PROVE  StackInv'
<1>1. /\ AtStmt /\ Visit /\ ctl' = Complete(ctl) /\ Jumped /\ EmitNothing
      /\ UNCHANGED <<scopes, deferScopes, cleanupScopes, breakBlocks,
                     continueBlocks, strings, frames, result, skipped>>
  BY DEF VisitStrayJump
<1>2. ctl # <<>> /\ visited' \in 0..MaxStmts
  BY <1>1, VisitTyped DEF AtStmt
<1>3. Balanced(ctl', scopes', deferScopes', breakBlocks', continueBlocks')
  BY <1>1, <1>2, CompletedStep
<1>4. EmitTypes'
  BY <1>1, NothingTyped
<1>5. frames' \in Seq(Seq(Obligation)) /\ result' \in 0..MaxStmts
  BY <1>1 DEF StackInv, RunTypes
<1>6. QED
  BY <1>1, <1>2, <1>3, <1>4, <1>5, JumpedTyped

LEMMA MovedOutFacts ==
    ASSUME StackInv, NEW moved \in 0..MaxStmts
    PROVE  /\ MovedOut(moved) \in [Ids -> {"unborn", "owner", "null"}]
           /\ \A v \in Ids : MovedOut(moved)[v] = IF live /\ v = moved THEN "null" ELSE store[v]
<1>1. PICK st \in [Ids -> {"unborn", "owner", "null"}] : st = store
  BY DEF StackInv, RunTypes
<1>2. \A v \in Ids : v # 0
  BY DEF Ids
<1>3. CASE live /\ moved # 0
  <2>1. MovedOut(moved) = [st EXCEPT ![moved] = "null"]
    BY <1>1, <1>3 DEF MovedOut
  <2>2. QED
    BY <1>1, <1>3, <2>1
<1>4. CASE ~(live /\ moved # 0)
  <2>1. MovedOut(moved) = st
    BY <1>1, <1>4 DEF MovedOut
  <2>2. QED
    BY <1>1, <1>2, <1>4, <2>1
<1>5. QED
  BY <1>3, <1>4

LEMMA ReturnStep ==
    ASSUME StackInv, NEW moved \in 0..MaxStmts, VisitReturn(moved)
    PROVE  StackInv'
<1>1. /\ AtStmt /\ Visit /\ ctl' = Complete(ctl) /\ Jumped
      /\ Emit(EmitDefersFrom(0), MovedOut(moved)) /\ Unwound(Len(frames))
      /\ result' = IF live THEN moved ELSE result
      /\ UNCHANGED <<scopes, deferScopes, cleanupScopes, breakBlocks,
                     continueBlocks, strings, skipped>>
  BY DEF VisitReturn
<1>2. ctl # <<>> /\ visited' \in 0..MaxStmts
  BY <1>1, VisitTyped DEF AtStmt
<1>3. Balanced(ctl', scopes', deferScopes', breakBlocks', continueBlocks')
  BY <1>1, <1>2, CompletedStep
<1>4. PICK st \in [Ids -> {"unborn", "owner", "null"}] : st = MovedOut(moved)
  BY MovedOutFacts
<1>5. 0 \in 0..Len(deferScopes)
  BY DEF StackInv, Paired
<1>6. EmitTypes'
  BY <1>1, <1>4, <1>5, ClosingTyped
<1>7. PICK n \in Nat : n = Len(frames)
  BY DEF StackInv, RunTypes
<1>8. frames' \in Seq(Seq(Obligation))
  BY <1>1, <1>7, UnwoundTyped
<1>9. result' \in 0..MaxStmts
  BY <1>1 DEF StackInv, RunTypes
<1>10. QED
  BY <1>1, <1>2, <1>3, <1>6, <1>8, <1>9, JumpedTyped

\* A function whose body is done has nothing on the stacks but its own Scope.
LEMMA NothingOpen ==
    ASSUME StackInv, ctl # <<>>, Top.k = "fn"
    PROVE  /\ Len(ctl) = 1 /\ Len(scopes) = 1 /\ Len(deferScopes) = 0
           /\ Len(cleanupScopes) = 0 /\ Len(breakBlocks) = 0 /\ Len(continueBlocks) = 0
<1>1. /\ Nested(ctl) /\ Levels(ctl, scopes, deferScopes)
      /\ Targets(ctl, breakBlocks, Breakable) /\ Targets(ctl, continueBlocks, Loops)
      /\ Len(cleanupScopes) = Len(deferScopes)
  BY DEF StackInv, Balanced, Paired
<1>2. Len(ctl) = 1 /\ ctl[1].k = "fn"
  BY TopFacts
<1>3. /\ CountIn(ctl, 1, Blocks) = CountIn(ctl, 0, Blocks)
      /\ CountIn(ctl, 1, Scoped) = CountIn(ctl, 0, Scoped) + 1
  <2>1. 0 \in Nat /\ 0 + 1 = 1
    OBVIOUS
  <2>2. /\ CountIn(ctl, 0 + 1, Blocks) = IF ctl[0 + 1].k \in Blocks
                                         THEN CountIn(ctl, 0, Blocks) + 1
                                         ELSE CountIn(ctl, 0, Blocks)
        /\ CountIn(ctl, 0 + 1, Scoped) = IF ctl[0 + 1].k \in Scoped
                                         THEN CountIn(ctl, 0, Scoped) + 1
                                         ELSE CountIn(ctl, 0, Scoped)
    BY <2>1, CountNext
  <2>3. QED
    BY <1>2, <2>1, <2>2 DEF Blocks, Scoped
<1>4. CountIn(ctl, 0, Blocks) = 0 /\ CountIn(ctl, 0, Scoped) = 0
  BY CountNone
<1>5. Len(scopes) = 1 /\ Len(deferScopes) = 0
  BY <1>1, <1>2, <1>3, <1>4 DEF Levels
<1>6. ASSUME NEW K, K \in {Breakable, Loops}, NEW b, Targets(ctl, b, K)
      PROVE  Len(b) = 0
  <2>1. Len(b) \in Nat
    BY <1>6 DEF Targets
  <2>2. ASSUME Len(b) # 0
        PROVE  FALSE
    <3>1. 1 \in 1..Len(b)
      BY <2>1, <2>2
    <3>2. b[1].frame \in 1..Len(ctl) /\ ctl[b[1].frame].k \in K
      BY <1>6, <3>1 DEF Targets
    <3>3. ctl[1].k \in K
      BY <1>2, <3>2
    <3>4. QED
      BY <1>2, <1>6, <3>3 DEF Breakable, Loops
  <2>3. QED
    BY <2>2
<1>7. QED
  BY <1>1, <1>2, <1>5, <1>6

LEMMA EmptyBalanced ==
    ASSUME NEW sc, Len(sc) = 0, NEW ds, Len(ds) = 0,
           NEW bb \in Seq([frame : Nat, boundary : Nat]), Len(bb) = 0,
           NEW cb \in Seq([frame : Nat, boundary : Nat]), Len(cb) = 0
    PROVE  Balanced(<<>>, sc, ds, bb, cb)
<1>1. <<>> \in Seq(Statement) /\ Len(<<>>) = 0
  BY EmptySeq
<1>2. Nested(<<>>)
  BY <1>1 DEF Nested
<1>3. CountIn(<<>>, 0, Blocks) = 0 /\ CountIn(<<>>, 0, Scoped) = 0
  BY CountNone
<1>4. Levels(<<>>, sc, ds)
  BY <1>1, <1>3 DEF Levels
<1>5. Targets(<<>>, bb, Breakable) /\ Targets(<<>>, cb, Loops)
  BY <1>1 DEF Targets
<1>6. QED
  BY <1>2, <1>4, <1>5 DEF Balanced

LEMMA EndFunctionStep ==
    ASSUME StackInv, EndFunction
    PROVE  StackInv'
<1>1. /\ ctl # <<>> /\ Top.k = "fn" /\ ctl' = <<>> /\ scopes' = Front(scopes)
      /\ Jumped /\ EmitNothing
      /\ UNCHANGED <<deferScopes, cleanupScopes, breakBlocks, continueBlocks,
                     visited, strings, frames, result, skipped>>
  BY DEF EndFunction
<1>2. /\ Len(scopes) = 1 /\ Len(deferScopes) = 0 /\ Len(breakBlocks) = 0
      /\ Len(continueBlocks) = 0
  BY <1>1, NothingOpen
<1>3. GenTypes /\ RunTypes
  BY DEF StackInv
<1>4. scopes' \in Scopes /\ Len(scopes') = 0
  BY <1>1, <1>2, ScopeClosed
<1>5. /\ breakBlocks \in Seq([frame : Nat, boundary : Nat])
      /\ continueBlocks \in Seq([frame : Nat, boundary : Nat])
  BY DEF StackInv, Balanced, Targets
<1>6. PICK sc, ds, bb, cb : /\ sc = scopes' /\ ds = deferScopes
                            /\ bb = breakBlocks /\ cb = continueBlocks
  OBVIOUS
<1>7. Balanced(<<>>, sc, ds, bb, cb)
  BY <1>2, <1>4, <1>5, <1>6, EmptyBalanced
<1>8. Balanced(ctl', scopes', deferScopes', breakBlocks', continueBlocks')
  BY <1>1, <1>6, <1>7
<1>9. EmitTypes'
  BY <1>1, NothingTyped
<1>10. GenTypes'
  BY <1>1, <1>3, <1>4, <1>9 DEF GenTypes, EmitTypes, Jumped
<1>11. RunTypes'
  BY <1>1, <1>3, <1>9 DEF RunTypes, EmitTypes, Jumped
<1>12. /\ Paired(Item, deferScopes', cleanupScopes')
       /\ Paired(PendingItem, deferScopes', cleanupScopes')
  BY <1>1 DEF StackInv
<1>13. QED
  BY <1>8, <1>10, <1>11, <1>12 DEF StackInv

LEMMA InitStack ==
    ASSUME Init
    PROVE  StackInv
<1>1. PICK f : f = [k |-> "fn", id |-> 0, phase |-> "body", alt |-> FALSE, pend |-> FALSE]
  OBVIOUS
<1>2. f \in Statement /\ f.k = "fn" /\ f.phase = "body"
  BY <1>1, BoundsAssumption DEF Statement, Kinds
<1>3. /\ ctl = <<f>> /\ scopes = <<Unbound>> /\ deferScopes = <<>> /\ cleanupScopes = <<>>
      /\ breakBlocks = <<>> /\ continueBlocks = <<>>
      /\ terminated = FALSE /\ visited = 0 /\ strings = {} /\ emitted = <<>>
      /\ live = TRUE /\ frames = <<>> /\ ran = <<>>
      /\ store = [v \in Ids |-> "unborn"]
      /\ freed = {} /\ result = 0 /\ wild = FALSE /\ skipped = FALSE
  BY <1>1 DEF Init
<1>4. ctl \in Seq(Statement) /\ Len(ctl) = 1 /\ ctl[1] = f
  BY <1>2, <1>3
<1>5. Nested(ctl)
  BY <1>2, <1>4 DEF Nested
<1>6. scopes \in Scopes /\ Len(scopes) = 1
  BY <1>3, UnboundTyped DEF Scopes
<1>7. /\ Len(deferScopes) = 0 /\ Len(breakBlocks) = 0 /\ Len(continueBlocks) = 0
      /\ breakBlocks \in Seq([frame : Nat, boundary : Nat])
      /\ continueBlocks \in Seq([frame : Nat, boundary : Nat])
  BY <1>3, EmptySeq
<1>8. CountIn(ctl, 1, Blocks) = 0 /\ CountIn(ctl, 1, Scoped) = 1
  <2>1. 0 \in Nat /\ 0 + 1 = 1
    OBVIOUS
  <2>2. /\ CountIn(ctl, 0 + 1, Blocks) = IF ctl[0 + 1].k \in Blocks
                                         THEN CountIn(ctl, 0, Blocks) + 1
                                         ELSE CountIn(ctl, 0, Blocks)
        /\ CountIn(ctl, 0 + 1, Scoped) = IF ctl[0 + 1].k \in Scoped
                                         THEN CountIn(ctl, 0, Scoped) + 1
                                         ELSE CountIn(ctl, 0, Scoped)
    BY <2>1, CountNext
  <2>3. CountIn(ctl, 0, Blocks) = 0 /\ CountIn(ctl, 0, Scoped) = 0
    BY CountNone
  <2>4. QED
    BY <1>2, <1>4, <2>1, <2>2, <2>3 DEF Blocks, Scoped
<1>9. Levels(ctl, scopes, deferScopes)
  BY <1>4, <1>6, <1>7, <1>8 DEF Levels
<1>10. Targets(ctl, breakBlocks, Breakable) /\ Targets(ctl, continueBlocks, Loops)
  <2>1. ctl[1].k \notin Breakable /\ ctl[1].k \notin Loops
    BY <1>2, <1>4 DEF Breakable, Loops
  <2>2. QED
    BY <1>4, <1>7, <2>1 DEF Targets
<1>11. Balanced(ctl, scopes, deferScopes, breakBlocks, continueBlocks)
  BY <1>5, <1>9, <1>10 DEF Balanced
<1>12. /\ Paired(Item, deferScopes, cleanupScopes)
       /\ Paired(PendingItem, deferScopes, cleanupScopes)
  BY <1>3, EmptySeq DEF Paired
<1>13. GenTypes
  <2>1. emitted \in Seq([item : Item, infn : 0..MaxStmts, resolved : 0..MaxStmts])
    <3>1. PICK S : S = [item : Item, infn : 0..MaxStmts, resolved : 0..MaxStmts]
      OBVIOUS
    <3>2. emitted \in Seq(S)
      BY <1>3, EmptySeq
    <3>3. QED
      BY <3>1, <3>2
  <2>2. MaxStmts \in Nat
    BY BoundsAssumption
  <2>3. visited \in 0..MaxStmts
    BY <1>3, <2>2
  <2>4. strings \subseteq Ids /\ terminated \in BOOLEAN
    BY <1>3
  <2>5. QED
    BY <1>6, <2>1, <2>3, <2>4 DEF GenTypes
<1>14. RunTypes
  <2>1. frames \in Seq(Seq(Obligation)) /\ ran \in Seq(Obligation)
    BY <1>3, EmptySeq
  <2>2. store \in [Ids -> {"unborn", "owner", "null"}]
    BY <1>3
  <2>3. freed \subseteq Ids /\ result \in 0..MaxStmts
    BY <1>3, BoundsAssumption
  <2>4. QED
    BY <1>3, <2>1, <2>2, <2>3 DEF RunTypes
<1>15. QED
  BY <1>11, <1>12, <1>13, <1>14 DEF StackInv

\* What another iteration of a loop reaches is pending in the innermost block.
LEMMA AgainFacts ==
    ASSUME StackInv, deferScopes # <<>>, NEW item \in AgainItems
    PROVE  /\ item \in PendingItem /\ Owed(item) \in Obligation
           /\ Len(deferScopes) \in 1..Len(deferScopes)
           /\ \/ \E k \in 1..Len(deferScopes[Len(deferScopes)]) :
                    item = deferScopes[Len(deferScopes)][k]
              \/ \E k \in 1..Len(cleanupScopes[Len(deferScopes)]) :
                    item = cleanupScopes[Len(deferScopes)][k]
<1>1. PICK n \in Nat \ {0} : n = Len(deferScopes) /\ n = Len(cleanupScopes) /\ n \in 1..n
  <2>1. Len(deferScopes) \in Nat \ {0} /\ Len(cleanupScopes) = Len(deferScopes)
    BY EmptySeq DEF StackInv, Paired
  <2>2. QED
    BY <2>1
<1>2. PICK d \in Seq(PendingItem), c \in Seq(PendingItem) :
          d = deferScopes[n] /\ c = cleanupScopes[n]
  <2>1. deferScopes[n] \in Seq(PendingItem) /\ cleanupScopes[n] \in Seq(PendingItem)
    BY <1>1, ElementOfSeq DEF StackInv, Paired
  <2>2. QED
    BY <2>1
<1>3. item \in ToSet(d) \cup ToSet(c)
  BY <1>1, <1>2 DEF AgainItems, Last
<1>4. (\E k \in 1..Len(d) : item = d[k]) \/ (\E k \in 1..Len(c) : item = c[k])
  BY <1>3 DEF ToSet
<1>5. item \in PendingItem
  BY <1>4, ElementOfSeq
<1>6. Owed(item) \in Obligation
  BY <1>5 DEF Owed, PendingItem, Item, Obligation
<1>7. QED
  BY <1>1, <1>2, <1>4, <1>5, <1>6

LEMMA AgainStep ==
    ASSUME StackInv, IterateAgain
    PROVE  StackInv'
<1>1. deferScopes # <<>>
  BY DEF IterateAgain
<1>2. PICK item \in AgainItems : ReachAgain(item)
  BY DEF IterateAgain
<1>3. item \in PendingItem /\ Owed(item) \in Obligation
  BY <1>1, AgainFacts
<1>4. /\ frames' = IF live THEN AddTo(frames, Owed(item)) ELSE frames
      /\ store' = IF live /\ item.kind = "string"
                  THEN [store EXCEPT ![item.var] = "owner"] ELSE store
      /\ skipped' = TRUE /\ emitted' = <<>>
      /\ UNCHANGED <<ctl, scopes, deferScopes, cleanupScopes, breakBlocks, continueBlocks,
                     terminated, visited, strings, live, ran, freed, result, wild>>
  BY <1>2 DEF ReachAgain
<1>5. GenTypes /\ RunTypes
  BY DEF StackInv
<1>6. frames' \in Seq(Seq(Obligation))
  <2>1. AddTo(frames, Owed(item)) \in Seq(Seq(Obligation))
    BY <1>3, <1>5, AddToFacts DEF RunTypes
  <2>2. QED
    BY <1>4, <1>5, <2>1 DEF RunTypes
<1>7. store' \in [Ids -> {"unborn", "owner", "null"}]
  BY <1>4, <1>5 DEF RunTypes
<1>8. RunTypes'
  BY <1>4, <1>5, <1>6, <1>7 DEF RunTypes
<1>9. GenTypes'
  <2>1. emitted' \in Seq([item : Item, infn : 0..MaxStmts, resolved : 0..MaxStmts])
    BY <1>4, EmptySeq
  <2>2. QED
    BY <1>4, <1>5, <2>1 DEF GenTypes
<1>10. /\ (Balanced(ctl, scopes, deferScopes, breakBlocks, continueBlocks))'
       /\ Paired(Item, deferScopes', cleanupScopes')
       /\ Paired(PendingItem, deferScopes', cleanupScopes')
  BY <1>4 DEF StackInv
<1>11. QED
  BY <1>8, <1>9, <1>10 DEF StackInv

LEMMA StackInvInductive ==
    ASSUME StackInv, [Next]_vars
    PROVE  StackInv'
<1>1. ASSUME NEW x \in Names, VisitDefer(x) \/ VisitPlainDecl(x) \/ VisitStringDecl(x)
      PROVE  StackInv'
  BY <1>1, DeferStep, PlainDeclStep, StringDeclStep
<1>2. CASE BeginCompound \/ EndCompound
  BY <1>2, CompoundStep, EndCompoundStep
<1>3. ASSUME NEW taken \in BOOLEAN, BeginIf(taken)
      PROVE  StackInv'
  BY <1>3, IfStep
<1>4. CASE BeginElse \/ EndIf
  BY <1>4, BeginElseStep, EndIfStep
<1>5. ASSUME NEW entered \in BOOLEAN, BeginLoop(entered) \/ ForBody(entered)
      PROVE  StackInv'
  BY <1>5, LoopStep, ForBodyStep
<1>6. ASSUME NEW withInit \in BOOLEAN, BeginFor(withInit)
      PROVE  StackInv'
  BY <1>6, ForStep
<1>7. CASE EndLoop \/ IterateAgain \/ BeginSwitch \/ EndSwitch
  BY <1>7, EndLoopStep, AgainStep, SwitchStep, EndSwitchStep
<1>8. ASSUME NEW selected \in BOOLEAN, BeginCase(selected)
      PROVE  StackInv'
  BY <1>8, CaseStep
<1>9. CASE VisitBreak \/ VisitContinue \/ VisitStrayJump
  BY <1>9, BreakStep, ContinueStep, StrayJumpStep
<1>10. ASSUME NEW moved \in 0..MaxStmts, VisitReturn(moved)
       PROVE  StackInv'
  BY <1>10, ReturnStep
<1>11. ASSUME NEW captured \in SUBSET Names, BeginLambda(captured)
       PROVE  StackInv'
  BY <1>11, LambdaStep
<1>12. CASE EndLambda \/ EndFunction
  BY <1>12, EndLambdaStep, EndFunctionStep
<1>13. CASE UNCHANGED vars
  <2>1. UNCHANGED <<ctl, scopes, deferScopes, cleanupScopes, breakBlocks, continueBlocks,
                    terminated, visited, strings, emitted, live, frames, ran, store,
                    freed, result, wild, skipped>>
    BY <1>13 DEF vars, genVars, runVars
  <2>2. /\ (Balanced(ctl, scopes, deferScopes, breakBlocks, continueBlocks))'
        /\ Paired(Item, deferScopes', cleanupScopes')
        /\ Paired(PendingItem, deferScopes', cleanupScopes')
    BY <2>1 DEF StackInv
  <2>3. GenTypes' /\ RunTypes'
    BY <2>1 DEF StackInv, GenTypes, RunTypes
  <2>4. QED
    BY <2>2, <2>3 DEF StackInv
<1>14. QED
  BY <1>1, <1>2, <1>3, <1>4, <1>5, <1>6, <1>7, <1>8, <1>9, <1>10, <1>11, <1>12,
     <1>13 DEF Next

LEMMA LostStep ==
    ASSUME StackInv, LostInv, StackInv', [Next]_vars
    PROVE  LostInv'
<1>1. CASE UNCHANGED againVars /\ (skipped => skipped')
  <2>1. UNCHANGED <<lost, returned>>
    BY <1>1 DEF againVars
  <2>2. QED
    BY <1>1, <2>1 DEF LostInv
<1>2. ASSUME NEW x \in Names, VisitDefer(x) \/ VisitPlainDecl(x) \/ VisitStringDecl(x)
      PROVE  UNCHANGED againVars /\ (skipped => skipped')
  <2>1. CASE VisitDefer(x)
    BY <2>1 DEF VisitDefer, Registered
  <2>2. CASE VisitPlainDecl(x)
    BY <2>2 DEF VisitPlainDecl
  <2>3. CASE VisitStringDecl(x)
    BY <2>3 DEF VisitStringDecl, Registered
  <2>4. QED
    BY <1>2, <2>1, <2>2, <2>3
<1>3. CASE BeginCompound \/ EndCompound \/ BeginElse \/ EndIf
  BY <1>1, <1>3 DEF BeginCompound, EndCompound, BeginElse, EndIf
<1>4. ASSUME NEW b \in BOOLEAN,
             BeginIf(b) \/ BeginLoop(b) \/ ForBody(b) \/ BeginFor(b) \/ BeginCase(b)
      PROVE  UNCHANGED againVars /\ (skipped => skipped')
  <2>1. CASE BeginIf(b)
    BY <2>1 DEF BeginIf
  <2>2. CASE BeginLoop(b)
    BY <2>2 DEF BeginLoop
  <2>3. CASE ForBody(b)
    BY <2>3 DEF ForBody
  <2>4. CASE BeginFor(b)
    BY <2>4 DEF BeginFor
  <2>5. CASE BeginCase(b)
    BY <2>5 DEF BeginCase
  <2>6. QED
    BY <1>4, <2>1, <2>2, <2>3, <2>4, <2>5
<1>5. CASE EndLoop \/ BeginSwitch \/ EndSwitch \/ EndLambda \/ EndFunction
  BY <1>1, <1>5 DEF EndLoop, BeginSwitch, EndSwitch, EndLambda, EndFunction
<1>6. CASE VisitBreak \/ VisitContinue \/ VisitStrayJump
  BY <1>1, <1>6 DEF VisitBreak, VisitContinue, VisitStrayJump
<1>7. ASSUME NEW captured \in SUBSET Names, BeginLambda(captured)
      PROVE  UNCHANGED againVars /\ (skipped => skipped')
  BY <1>7 DEF BeginLambda
<1>8. ASSUME NEW moved \in 0..MaxStmts, VisitReturn(moved)
      PROVE  LostInv'
  <2>1. UNCHANGED <<lost, skipped>> /\ returned' \in {visited', returned}
    BY <1>8 DEF VisitReturn
  <2>2. visited' \in 0..MaxStmts
    BY DEF StackInv, GenTypes
  <2>3. QED
    BY <2>1, <2>2 DEF LostInv
<1>9. CASE IterateAgain
  <2>1. deferScopes # <<>>
    BY <1>9 DEF IterateAgain
  <2>2. PICK item \in AgainItems : ReachAgain(item)
    BY <1>9 DEF IterateAgain
  <2>3. PICK o \in Obligation : o = Owed(item)
    BY <2>1, AgainFacts
  <2>4. lost' \subseteq lost \cup {o} /\ returned' = returned /\ skipped' = TRUE
    BY <2>2, <2>3 DEF ReachAgain
  <2>5. QED
    BY <2>3, <2>4 DEF LostInv
<1>10. CASE UNCHANGED vars
  BY <1>1, <1>10 DEF vars, runVars
<1>11. QED
  BY <1>1, <1>2, <1>3, <1>4, <1>5, <1>6, <1>7, <1>8, <1>9, <1>10 DEF Next

LEMMA InitLost ==
    ASSUME Init
    PROVE  LostInv
BY BoundsAssumption DEF Init, LostInv

\* Whatever the function, every stack of CodegenContext has an entry for exactly the
\* open statements of its kind: a jump that leaves blocks discards nothing, and the
\* visits on the way out pop what they pushed.
THEOREM StacksStayBalanced == Spec => []StacksBalanced
<1>1. Init => StackInv /\ LostInv
  BY InitStack, InitLost
<1>2. StackInv /\ LostInv /\ [Next]_vars => StackInv' /\ LostInv'
  <2>1. StackInv /\ [Next]_vars => StackInv'
    BY StackInvInductive
  <2>2. StackInv /\ LostInv /\ StackInv' /\ [Next]_vars => LostInv'
    BY LostStep
  <2>3. QED
    BY <2>1, <2>2
<1>3. StackInv /\ LostInv => StacksBalanced
  BY StackInvBalanced
<1>4. QED
  BY <1>1, <1>2, <1>3, PTL DEF Spec

-------------------------------------------------------------------------------
(* Where the execution is.                                                  *)

\* The execution waits in statement f: it goes on where f resumes, or ends.
Holds(f) == f.pend \/ (f.alt /\ f.k # "else")

\* It does not wait in a function or a block, nor in a loop it has not come to; a
\* switch holds it once.  Only a for begins with a declaration.
Rested(f) ==
    /\ f.pend => f.k \in {"else", "switch"}
    /\ f.k \in {"fn", "compound"} => ~f.alt
    /\ f.k = "for" /\ f.phase \in {"init", "cond"} => ~f.alt
    /\ f.k = "switch" => ~(f.alt /\ f.pend)
    /\ f.phase = "init" => f.k = "for"

\* The execution has n scopes open and is in the p-th of the statements c, where it
\* waits, unless lv says that it is here; p is 0 once it is out of the function, as out
\* says.  It does not enter the body of a lambda.
At(c, lv, n, out, p) ==
    /\ n = CountIn(c, p, Blocks)
    /\ lv => p = Len(c)
    /\ out => ~lv /\ p = 0
    /\ \A i \in 1..Len(c) : Holds(c[i]) <=> (~lv /\ i = p)
    /\ \A i \in 1..Len(c) : c[i].k = "lambda" => ~lv /\ p <= i
Where(c, lv, n, out) == \E p \in 0..Len(c) : At(c, lv, n, out, p)

HoldInv ==
    /\ \A i \in 1..Len(ctl) : Rested(ctl[i])
    /\ Where(ctl, live, Len(frames), result # 0)
    /\ terminated => ~live

SameHolds(c, d) ==
    /\ SameKinds(c, d)
    /\ \A i \in 1..Len(c) : Holds(d[i]) <=> Holds(c[i])

LEMMA WhereKept ==
    ASSUME NEW c, Nested(c), NEW d, SameHolds(c, d), NEW lv \in BOOLEAN, NEW n, NEW out,
           Where(c, lv, n, out)
    PROVE  Where(d, lv, n, out)
<1>1. PICK p \in 0..Len(c) : At(c, lv, n, out, p)
  BY DEF Where
<1>2. Blocks \in Counted
  BY DEF Counted
<1>3. CountIn(d, p, Blocks) = CountIn(c, p, Blocks) /\ Len(d) = Len(c)
  BY <1>2, KeptCounts DEF SameHolds, SameKinds
<1>4. \A i \in 1..Len(c) : d[i].k = "lambda" => c[i].k = "lambda"
  BY DEF SameHolds, SameKinds
<1>5. At(d, lv, n, out, p)
  BY <1>1, <1>3, <1>4 DEF At, SameHolds
<1>6. QED
  BY <1>3, <1>5 DEF Where

\* The innermost statement comes to another of its parts.
LEMMA WhereResumed ==
    ASSUME NEW c, Nested(c), c # <<>>, NEW d, SameKinds(c, d), c[Len(c)].k # "lambda",
           \A i \in 1..Len(c) : i # Len(c) => d[i] = c[i],
           NEW lv \in BOOLEAN, NEW lv2 \in BOOLEAN, NEW n, NEW out, Where(c, lv, n, out),
           (lv2 \/ Holds(d[Len(c)])) <=> (lv \/ Holds(c[Len(c)])),
           ~(lv2 /\ Holds(d[Len(c)]))
    PROVE  Where(d, lv2, n, out)
<1>1. PICK p \in 0..Len(c) : At(c, lv, n, out, p)
  BY DEF Where
<1>2. PICK l \in Nat \ {0} : l = Len(c) /\ l \in 1..l /\ Len(d) = l
  <2>1. Len(c) \in Nat /\ Len(c) # 0
    BY EmptySeq DEF Nested
  <2>2. QED
    BY <2>1 DEF SameKinds
<1>3. Blocks \in Counted
  BY DEF Counted
<1>4. CountIn(d, p, Blocks) = CountIn(c, p, Blocks)
  BY <1>3, KeptCounts
<1>5. (lv \/ Holds(c[l])) <=> p = l
  BY <1>1, <1>2 DEF At
<1>6. \A i \in 1..l : d[i].k = "lambda" => c[i].k = "lambda" /\ i # l
  BY <1>2 DEF SameKinds
<1>7. ASSUME NEW i \in 1..l
      PROVE  Holds(d[i]) <=> (~lv2 /\ i = p)
  <2>1. CASE i = l
    BY <1>2, <1>5, <2>1
  <2>2. CASE i # l
    <3>1. Holds(d[i]) <=> (~lv /\ i = p)
      BY <1>1, <1>2, <2>2 DEF At
    <3>2. i = p => ~lv /\ ~lv2
      BY <1>2, <1>5, <2>2
    <3>3. QED
      BY <3>1, <3>2
  <2>3. QED
    BY <2>1, <2>2
<1>8. ASSUME NEW i \in 1..l, d[i].k = "lambda"
      PROVE  ~lv2 /\ p <= i
  <2>1. p <= i /\ i # l
    BY <1>1, <1>2, <1>6, <1>8 DEF At
  <2>2. p # l
    BY <1>2, <2>1
  <2>3. QED
    BY <1>2, <1>5, <2>1, <2>2
<1>9. lv2 => p = l
  BY <1>2, <1>5
<1>10. At(d, lv2, n, out, p)
  BY <1>1, <1>2, <1>4, <1>7, <1>8, <1>9 DEF At
<1>11. QED
  BY <1>2, <1>10 DEF Where

LEMMA WhereOpened ==
    ASSUME NEW c, Nested(c), NEW f \in Statement, NEW d, Extended(c, f, d), f.k \notin Blocks,
           NEW lv \in BOOLEAN, NEW lv2 \in BOOLEAN, NEW n, NEW out, Where(c, lv, n, out),
           Holds(f) <=> (lv /\ ~lv2), lv2 => lv, f.k = "lambda" => ~lv2
    PROVE  Where(d, lv2, n, out)
<1>1. PICK p \in 0..Len(c) : At(c, lv, n, out, p)
  BY DEF Where
<1>2. PICK l \in Nat : l = Len(c)
  BY DEF Nested
<1>3. /\ Len(d) = l + 1 /\ d[l + 1] = f
      /\ \A i \in 1..l : d[i] = c[i]
  BY <1>2 DEF Extended
<1>4. /\ CountIn(d, p, Blocks) = CountIn(c, p, Blocks)
      /\ CountIn(d, l + 1, Blocks) = CountIn(c, l, Blocks)
  BY <1>2, <1>3, PushedCounts
<1>5. CASE lv
  <2>1. p = l /\ n = CountIn(c, l, Blocks) /\ ~out
    BY <1>1, <1>2, <1>5 DEF At
  <2>2. ASSUME NEW i \in 1..(l + 1)
        PROVE  /\ Holds(d[i]) <=> (~lv2 /\ i = l + 1)
               /\ d[i].k = "lambda" => ~lv2 /\ l + 1 <= i
    <3>1. CASE i = l + 1
      BY <1>3, <1>5, <3>1
    <3>2. CASE i # l + 1
      <4>1. i \in 1..l
        BY <3>2
      <4>2. ~Holds(c[i]) /\ c[i].k # "lambda"
        BY <1>1, <1>2, <1>5, <4>1 DEF At
      <4>3. QED
        BY <1>3, <3>2, <4>1, <4>2
    <3>3. QED
      BY <3>1, <3>2
  <2>3. At(d, lv2, n, out, l + 1)
    BY <1>3, <1>4, <2>1, <2>2 DEF At
  <2>4. QED
    BY <1>3, <2>3 DEF Where
<1>6. CASE ~lv
  <2>1. ~lv2 /\ ~Holds(f) /\ p \in 0..(l + 1)
    BY <1>2, <1>6
  <2>2. ASSUME NEW i \in 1..(l + 1)
        PROVE  /\ Holds(d[i]) <=> (~lv2 /\ i = p)
               /\ d[i].k = "lambda" => ~lv2 /\ p <= i
    <3>1. CASE i = l + 1
      BY <1>2, <1>3, <2>1, <3>1
    <3>2. CASE i # l + 1
      <4>1. i \in 1..l
        BY <3>2
      <4>2. /\ Holds(c[i]) <=> i = p
            /\ c[i].k = "lambda" => p <= i
        BY <1>1, <1>2, <1>6, <4>1 DEF At
      <4>3. QED
        BY <1>3, <2>1, <4>1, <4>2
    <3>3. QED
      BY <3>1, <3>2
  <2>3. At(d, lv2, n, out, p)
    BY <1>1, <1>3, <1>4, <2>1, <2>2 DEF At
  <2>4. QED
    BY <1>3, <2>1, <2>3 DEF Where
<1>7. QED
  BY <1>5, <1>6

LEMMA WhereBlockOpened ==
    ASSUME NEW c, Nested(c), NEW f \in Statement, NEW d, Extended(c, f, d), f.k \in Blocks,
           NEW lv \in BOOLEAN, NEW n, NEW out, Where(c, lv, n, out), ~Holds(f),
           NEW m, m = IF lv THEN n + 1 ELSE n
    PROVE  Where(d, lv, m, out)
<1>1. PICK p \in 0..Len(c) : At(c, lv, n, out, p)
  BY DEF Where
<1>2. PICK l \in Nat : l = Len(c)
  BY DEF Nested
<1>3. /\ Len(d) = l + 1 /\ d[l + 1] = f
      /\ \A i \in 1..l : d[i] = c[i]
  BY <1>2 DEF Extended
<1>4. /\ CountIn(d, p, Blocks) = CountIn(c, p, Blocks)
      /\ CountIn(d, l + 1, Blocks) = CountIn(c, l, Blocks) + 1
  BY <1>2, <1>3, PushedCounts
<1>5. f.k # "lambda"
  BY DEF Blocks
<1>6. PICK q \in 0..(l + 1) : q = IF lv THEN l + 1 ELSE p
  BY <1>2
<1>7. m = CountIn(d, q, Blocks)
  BY <1>1, <1>2, <1>4, <1>6 DEF At
<1>8. ASSUME NEW i \in 1..(l + 1)
      PROVE  /\ Holds(d[i]) <=> (~lv /\ i = q)
             /\ d[i].k = "lambda" => ~lv /\ q <= i
  <2>1. CASE i = l + 1
    BY <1>2, <1>3, <1>5, <1>6, <2>1
  <2>2. CASE i # l + 1
    <3>1. i \in 1..l
      BY <2>2
    <3>2. /\ Holds(c[i]) <=> (~lv /\ i = p)
          /\ c[i].k = "lambda" => ~lv /\ p <= i
      BY <1>1, <1>2, <3>1 DEF At
    <3>3. QED
      BY <1>3, <1>6, <3>1, <3>2
  <2>3. QED
    BY <2>1, <2>2
<1>9. (lv => q = l + 1) /\ (out => ~lv /\ q = 0)
  BY <1>1, <1>2, <1>6 DEF At
<1>10. At(d, lv, m, out, q)
  BY <1>3, <1>7, <1>8, <1>9 DEF At
<1>11. QED
  BY <1>3, <1>10 DEF Where

LEMMA WhereClosed ==
    ASSUME NEW d, Nested(d), NEW f \in Statement, NEW c, Extended(d, f, c), f.k \notin Blocks,
           NEW lv \in BOOLEAN, NEW n, NEW out, Where(c, lv, n, out), NEW lv2, lv2 = (lv \/ Holds(f))
    PROVE  Where(d, lv2, n, out)
<1>1. PICK p \in 0..Len(c) : At(c, lv, n, out, p)
  BY DEF Where
<1>2. PICK l \in Nat : l = Len(d)
  BY DEF Nested
<1>3. /\ Len(c) = l + 1 /\ c[l + 1] = f
      /\ \A i \in 1..l : c[i] = d[i]
  BY <1>2 DEF Extended
<1>4. /\ \A m \in 0..l : CountIn(c, m, Blocks) = CountIn(d, m, Blocks)
      /\ CountIn(c, l + 1, Blocks) = CountIn(d, l, Blocks)
  BY <1>2, <1>3, PushedCounts
<1>5. PICK q \in 0..l : q = IF p = l + 1 THEN l ELSE p
  BY <1>3
<1>6. n = CountIn(d, q, Blocks)
  BY <1>1, <1>3, <1>4, <1>5 DEF At
<1>7. lv2 <=> p = l + 1
  <2>1. l + 1 \in 1..(l + 1)
    OBVIOUS
  <2>2. QED
    BY <1>1, <1>3, <2>1 DEF At
<1>8. ASSUME NEW i \in 1..l
      PROVE  /\ Holds(d[i]) <=> (~lv2 /\ i = q)
             /\ d[i].k = "lambda" => ~lv2 /\ q <= i
  <2>1. i \in 1..(l + 1) /\ c[i] = d[i]
    BY <1>3
  <2>2. /\ Holds(d[i]) <=> (~lv /\ i = p)
        /\ d[i].k = "lambda" => ~lv /\ p <= i
    BY <1>1, <1>3, <2>1 DEF At
  <2>3. CASE p = l + 1
    BY <1>7, <2>2, <2>3
  <2>4. CASE p # l + 1
    <3>1. ~lv /\ ~lv2 /\ q = p
      BY <1>5, <1>7, <2>4
    <3>2. QED
      BY <2>2, <3>1
  <2>5. QED
    BY <2>3, <2>4
<1>9. (lv2 => q = l) /\ (out => ~lv2 /\ q = 0)
  BY <1>1, <1>2, <1>5, <1>7 DEF At
<1>10. At(d, lv2, n, out, q)
  BY <1>2, <1>6, <1>8, <1>9 DEF At
<1>11. QED
  BY <1>2, <1>10 DEF Where

LEMMA WhereBlockClosed ==
    ASSUME NEW d, Nested(d), NEW f \in Statement, NEW c, Extended(d, f, c), f.k \in Blocks,
           NEW lv \in BOOLEAN, NEW n \in Nat, NEW out, Where(c, lv, n, out), ~Holds(f),
           NEW m, m = IF lv THEN n - 1 ELSE n
    PROVE  Where(d, lv, m, out)
<1>1. PICK p \in 0..Len(c) : At(c, lv, n, out, p)
  BY DEF Where
<1>2. PICK l \in Nat : l = Len(d)
  BY DEF Nested
<1>3. /\ Len(c) = l + 1 /\ c[l + 1] = f
      /\ \A i \in 1..l : c[i] = d[i]
  BY <1>2 DEF Extended
<1>4. /\ \A j \in 0..l : CountIn(c, j, Blocks) = CountIn(d, j, Blocks)
      /\ CountIn(c, l + 1, Blocks) = CountIn(d, l, Blocks) + 1
  BY <1>2, <1>3, PushedCounts
<1>5. PICK q \in 0..l : q = IF p = l + 1 THEN l ELSE p
  BY <1>3
<1>6. lv <=> p = l + 1
  <2>1. l + 1 \in 1..(l + 1)
    OBVIOUS
  <2>2. QED
    BY <1>1, <1>3, <2>1 DEF At
<1>7. CountIn(d, l, Blocks) \in Nat
  BY <1>2, CountType
<1>8. m = CountIn(d, q, Blocks)
  <2>1. n = CountIn(c, p, Blocks)
    BY <1>1 DEF At
  <2>2. CASE lv
    BY <1>4, <1>5, <1>6, <1>7, <2>1, <2>2
  <2>3. CASE ~lv
    BY <1>4, <1>5, <1>6, <2>1, <2>3
  <2>4. QED
    BY <2>2, <2>3
<1>9. ASSUME NEW i \in 1..l
      PROVE  /\ Holds(d[i]) <=> (~lv /\ i = q)
             /\ d[i].k = "lambda" => ~lv /\ q <= i
  <2>1. i \in 1..(l + 1) /\ c[i] = d[i]
    BY <1>3
  <2>2. /\ Holds(d[i]) <=> (~lv /\ i = p)
        /\ d[i].k = "lambda" => ~lv /\ p <= i
    BY <1>1, <1>3, <2>1 DEF At
  <2>3. QED
    BY <1>5, <1>6, <2>2
<1>10. (lv => q = l) /\ (out => ~lv /\ q = 0)
  BY <1>1, <1>2, <1>5, <1>6 DEF At
<1>11. At(d, lv, m, out, q)
  BY <1>2, <1>8, <1>9, <1>10 DEF At
<1>12. QED
  BY <1>2, <1>11 DEF Where

\* The execution jumps to where statement i ends; 0 is out of the function.
LEMMA WhereJumped ==
    ASSUME NEW c, Nested(c), NEW n, NEW out, Where(c, TRUE, n, out), NEW d, SameKinds(c, d),
           NEW out2, NEW i \in 0..Len(c), out2 => i = 0,
           \A j \in 1..Len(c) : Holds(d[j]) <=> j = i
    PROVE  Where(d, FALSE, CountIn(c, i, Blocks), out2)
<1>1. PICK p \in 0..Len(c) : At(c, TRUE, n, out, p)
  BY DEF Where
<1>2. Blocks \in Counted
  BY DEF Counted
<1>3. CountIn(d, i, Blocks) = CountIn(c, i, Blocks) /\ Len(d) = Len(c)
  BY <1>2, KeptCounts DEF SameKinds
<1>4. \A j \in 1..Len(c) : d[j].k # "lambda"
  BY <1>1 DEF At, SameKinds
<1>5. At(d, FALSE, CountIn(c, i, Blocks), out2, i)
  BY <1>3, <1>4 DEF At
<1>6. QED
  BY <1>3, <1>5 DEF Where

-------------------------------------------------------------------------------
(* The shapes of the steps.                                                 *)

\* The clean-up that is pending, and what has been run, are as they were.
Quiet == /\ EmitNothing
         /\ UNCHANGED <<deferScopes, cleanupScopes, strings, frames, result, skipped>>

\* An if, a loop, a switch or a lambda is begun as statement f.  A Scope that is
\* opened holds no variable but what a lambda captures.
Opening(f) ==
    /\ AtStmt /\ Visit /\ Quiet /\ UNCHANGED terminated
    /\ f \in Statement /\ f.k \notin {"fn", "compound"} /\ f.id = visited'
    /\ Extended(ctl, f, ctl')
    /\ Rested(f) /\ (Holds(f) <=> (live /\ ~live')) /\ (live' => live)
    /\ f.k = "lambda" => ~live'
    /\ f.k \notin Scoped => scopes' = scopes
    /\ f.k \in Scoped => \E w \in [Names -> {0, visited'}] : scopes' = Append(scopes, w)

\* The innermost statement comes to its else-block or its body.
Resuming ==
    /\ ctl # <<>> /\ Quiet /\ UNCHANGED <<scopes, visited>>
    /\ SameKinds(ctl, ctl') /\ Top.k \in {"if", "for"}
    /\ \A i \in 1..Len(ctl) : i # Len(ctl) => ctl'[i] = ctl[i]
    /\ Rested(ctl'[Len(ctl)]) /\ (terminated' => ~live')
    /\ (live' \/ Holds(ctl'[Len(ctl)])) <=> (live \/ Holds(Top))
    /\ ~(live' /\ Holds(ctl'[Len(ctl)]))

\* It is done, and is not a block.
Closing ==
    /\ ctl # <<>> /\ Quiet /\ UNCHANGED visited
    /\ Top.k \notin {"fn", "compound"} /\ ctl' = Complete(Front(ctl))
    /\ live' = (live \/ Holds(Top)) /\ terminated' = FALSE
    /\ scopes' = IF Top.k \in Scoped THEN Front(scopes) ELSE scopes

\* A block is begun, on the statements c.
BlockOpening(c) ==
    /\ ctl # <<>> /\ visited < MaxStmts /\ Visit /\ EmitNothing /\ OpenBlock(c)
    /\ UNCHANGED <<strings, result, skipped>>
    /\ SameKinds(ctl, c) /\ Nested(c) /\ c # <<>> /\ c[Len(c)].phase = "body"
    /\ Where(c, live', Len(frames), result # 0) /\ \A i \in 1..Len(c) : Rested(c[i])
    /\ terminated' = FALSE

LEMMA TopHolds ==
    ASSUME StackInv, HoldInv, ctl # <<>>
    PROVE  /\ Rested(Top) /\ (live => ~Holds(Top))
           /\ Top.k = "lambda" => ~live
<1>1. Len(ctl) \in 1..Len(ctl) /\ Top = ctl[Len(ctl)]
  BY TopFacts
<1>2. PICK p \in 0..Len(ctl) : At(ctl, live, Len(frames), result # 0, p)
  BY DEF HoldInv, Where
<1>3. QED
  BY <1>1, <1>2 DEF At, HoldInv

LEMMA IfOpens ==
    ASSUME StackInv, HoldInv, NEW taken \in BOOLEAN, BeginIf(taken)
    PROVE  \E f : Opening(f)
<1>1. live \in BOOLEAN /\ ctl \in Seq(Statement)
  BY DEF StackInv, RunTypes, Balanced, Nested
<1>2. PICK a \in BOOLEAN : a = (live /\ ~taken)
  BY <1>1
<1>3. PICK q \in BOOLEAN : q = FALSE
  BY <1>1
<1>4. PICK f : f = [k |-> "if", id |-> visited', phase |-> "body", alt |-> a, pend |-> q]
  OBVIOUS
<1>5. /\ AtStmt /\ Visit /\ ctl' = Append(ctl, f) /\ live' = (live /\ taken) /\ EmitNothing
      /\ UNCHANGED <<scopes, deferScopes, cleanupScopes, terminated, strings, frames,
                     result, skipped>>
  BY <1>2, <1>3, <1>4 DEF BeginIf, Frame
<1>6. visited' \in 0..MaxStmts
  BY <1>5, VisitTyped DEF AtStmt
<1>7. /\ f \in Statement /\ f.k = "if" /\ f.alt = a /\ f.pend = q /\ f.id = visited'
      /\ f.phase = "body"
  BY <1>4, <1>6 DEF Statement, Kinds
<1>8. Extended(ctl, f, ctl')
  BY <1>1, <1>5, <1>7, AppendExtends
<1>9. Rested(f) /\ (Holds(f) <=> (live /\ ~live')) /\ (live' => live)
  BY <1>2, <1>3, <1>5, <1>7 DEF Rested, Holds
<1>10. Opening(f)
  BY <1>5, <1>7, <1>8, <1>9 DEF Opening, Scoped, Quiet
<1>11. QED
  BY <1>10

LEMMA LoopOpens ==
    ASSUME StackInv, HoldInv, NEW entered \in BOOLEAN, BeginLoop(entered)
    PROVE  \E f : Opening(f)
<1>1. live \in BOOLEAN /\ ctl \in Seq(Statement)
  BY DEF StackInv, RunTypes, Balanced, Nested
<1>2. PICK a \in BOOLEAN : a = (live /\ ~entered)
  BY <1>1
<1>3. PICK q \in BOOLEAN : q = FALSE
  BY <1>1
<1>4. PICK f : f = [k |-> "loop", id |-> visited', phase |-> "body", alt |-> a, pend |-> q]
  OBVIOUS
<1>5. /\ AtStmt /\ Visit /\ ctl' = Append(ctl, f) /\ live' = (live /\ entered) /\ EmitNothing
      /\ UNCHANGED <<scopes, deferScopes, cleanupScopes, terminated, strings, frames,
                     result, skipped>>
  BY <1>2, <1>3, <1>4 DEF BeginLoop, Frame
<1>6. visited' \in 0..MaxStmts
  BY <1>5, VisitTyped DEF AtStmt
<1>7. /\ f \in Statement /\ f.k = "loop" /\ f.alt = a /\ f.pend = q /\ f.id = visited'
      /\ f.phase = "body"
  BY <1>4, <1>6 DEF Statement, Kinds
<1>8. Extended(ctl, f, ctl')
  BY <1>1, <1>5, <1>7, AppendExtends
<1>9. Rested(f) /\ (Holds(f) <=> (live /\ ~live')) /\ (live' => live)
  BY <1>2, <1>3, <1>5, <1>7 DEF Rested, Holds
<1>10. Opening(f)
  BY <1>5, <1>7, <1>8, <1>9 DEF Opening, Scoped, Quiet
<1>11. QED
  BY <1>10

LEMMA ForOpens ==
    ASSUME StackInv, HoldInv, NEW withInit \in BOOLEAN, BeginFor(withInit)
    PROVE  \E f : Opening(f)
<1>1. live \in BOOLEAN /\ ctl \in Seq(Statement)
  BY DEF StackInv, RunTypes, Balanced, Nested
<1>2. PICK a \in BOOLEAN : a = FALSE
  BY <1>1
<1>3. PICK q \in BOOLEAN : q = FALSE
  BY <1>1
<1>4. PICK ph \in {"init", "cond", "body", "after"} : ph = IF withInit THEN "init" ELSE "cond"
  OBVIOUS
<1>5. PICK f : f = [k |-> "for", id |-> visited', phase |-> ph, alt |-> a, pend |-> q]
  OBVIOUS
<1>6. PICK w : w = Unbound
  OBVIOUS
<1>7. /\ AtStmt /\ Visit /\ ctl' = Append(ctl, f) /\ live' = live /\ EmitNothing
      /\ scopes' = Append(scopes, w)
      /\ UNCHANGED <<deferScopes, cleanupScopes, terminated, strings, frames,
                     result, skipped>>
  BY <1>2, <1>3, <1>4, <1>5, <1>6 DEF BeginFor, Frame
<1>8. visited' \in 0..MaxStmts
  BY <1>7, VisitTyped DEF AtStmt
<1>9. /\ f \in Statement /\ f.k = "for" /\ f.alt = a /\ f.pend = q /\ f.id = visited'
      /\ f.phase = ph
  BY <1>5, <1>8 DEF Statement, Kinds
<1>10. Extended(ctl, f, ctl')
  BY <1>1, <1>7, <1>9, AppendExtends
<1>11. Rested(f) /\ (Holds(f) <=> (live /\ ~live')) /\ (live' => live)
  BY <1>2, <1>3, <1>7, <1>9 DEF Rested, Holds
<1>12. w \in [Names -> {0, visited'}]
  BY <1>6 DEF Unbound
<1>13. Opening(f)
  BY <1>7, <1>9, <1>10, <1>11, <1>12 DEF Opening, Scoped, Quiet
<1>14. QED
  BY <1>13

LEMMA SwitchOpens ==
    ASSUME StackInv, HoldInv, BeginSwitch
    PROVE  \E f : Opening(f)
<1>1. live \in BOOLEAN /\ ctl \in Seq(Statement)
  BY DEF StackInv, RunTypes, Balanced, Nested
<1>2. PICK a \in BOOLEAN : a = FALSE
  BY <1>1
<1>3. PICK q \in BOOLEAN : q = live
  BY <1>1
<1>4. PICK f : f = [k |-> "switch", id |-> visited', phase |-> "body", alt |-> a, pend |-> q]
  OBVIOUS
<1>5. /\ AtStmt /\ Visit /\ ctl' = Append(ctl, f) /\ live' = FALSE /\ EmitNothing
      /\ UNCHANGED <<scopes, deferScopes, cleanupScopes, terminated, strings, frames,
                     result, skipped>>
  BY <1>2, <1>3, <1>4 DEF BeginSwitch, Frame
<1>6. visited' \in 0..MaxStmts
  BY <1>5, VisitTyped DEF AtStmt
<1>7. /\ f \in Statement /\ f.k = "switch" /\ f.alt = a /\ f.pend = q /\ f.id = visited'
      /\ f.phase = "body"
  BY <1>4, <1>6 DEF Statement, Kinds
<1>8. Extended(ctl, f, ctl')
  BY <1>1, <1>5, <1>7, AppendExtends
<1>9. Rested(f) /\ (Holds(f) <=> (live /\ ~live')) /\ (live' => live)
  BY <1>2, <1>3, <1>5, <1>7 DEF Rested, Holds
<1>10. Opening(f)
  BY <1>5, <1>7, <1>8, <1>9 DEF Opening, Scoped, Quiet
<1>11. QED
  BY <1>10

LEMMA LambdaOpens ==
    ASSUME StackInv, HoldInv, NEW captured, BeginLambda(captured)
    PROVE  \E f : Opening(f)
<1>1. live \in BOOLEAN /\ ctl \in Seq(Statement)
  BY DEF StackInv, RunTypes, Balanced, Nested
<1>2. PICK a \in BOOLEAN : a = live
  BY <1>1
<1>3. PICK q \in BOOLEAN : q = FALSE
  BY <1>1
<1>4. PICK f : f = [k |-> "lambda", id |-> visited', phase |-> "body", alt |-> a, pend |-> q]
  OBVIOUS
<1>5. PICK w : w = [x \in Names |-> IF x \in captured THEN visited' ELSE 0]
  OBVIOUS
<1>6. /\ AtStmt /\ Visit /\ ctl' = Append(ctl, f) /\ live' = FALSE /\ EmitNothing
      /\ scopes' = Append(scopes, w)
      /\ UNCHANGED <<deferScopes, cleanupScopes, terminated, strings, frames,
                     result, skipped>>
  BY <1>2, <1>3, <1>4, <1>5 DEF BeginLambda, Frame
<1>7. visited' \in 0..MaxStmts
  BY <1>6, VisitTyped DEF AtStmt
<1>8. /\ f \in Statement /\ f.k = "lambda" /\ f.alt = a /\ f.pend = q /\ f.id = visited'
      /\ f.phase = "body"
  BY <1>4, <1>7 DEF Statement, Kinds
<1>9. Extended(ctl, f, ctl')
  BY <1>1, <1>6, <1>8, AppendExtends
<1>10. Rested(f) /\ (Holds(f) <=> (live /\ ~live')) /\ (live' => live)
  BY <1>2, <1>3, <1>6, <1>8 DEF Rested, Holds
<1>11. w \in [Names -> {0, visited'}]
  BY <1>5 DEF Unbound
<1>12. Opening(f)
  BY <1>6, <1>8, <1>9, <1>10, <1>11 DEF Opening, Scoped, Quiet
<1>13. QED
  BY <1>12

LEMMA ElseResumes ==
    ASSUME StackInv, HoldInv, BeginElse
    PROVE  Resuming
<1>1. /\ ctl # <<>> /\ Top.k = "if"
      /\ ctl' = [ctl EXCEPT ![Len(ctl)] =
                   [@ EXCEPT !.k = "else", !.phase = "body", !.pend = live]]
      /\ live' = Top.alt /\ terminated' = FALSE /\ EmitNothing
      /\ UNCHANGED <<scopes, deferScopes, cleanupScopes, visited, strings, frames, result,
                     skipped>>
  BY DEF BeginElse
<1>2. Top \in Statement /\ Top = ctl[Len(ctl)]
  BY <1>1, TopFacts
<1>3. PICK q \in BOOLEAN : q = live
  BY DEF StackInv, RunTypes
<1>4. /\ [Top EXCEPT !.k = "else", !.phase = "body", !.pend = q] \in Statement
      /\ [Top EXCEPT !.k = "else", !.phase = "body", !.pend = q].k = "else"
      /\ [Top EXCEPT !.k = "else", !.phase = "body", !.pend = q].pend = q
  BY <1>2 DEF Statement, Kinds
<1>5. PICK w \in Statement : /\ w = [Top EXCEPT !.k = "else", !.phase = "body", !.pend = q]
                             /\ w.k = "else" /\ w.pend = q
  BY <1>4
<1>6. PICK d : d = ctl' /\ d = Resumed(ctl, w)
  BY <1>1, <1>2, <1>3, <1>5 DEF Resumed
<1>7. /\ d[Len(ctl)] = w /\ SameKinds(ctl, d)
      /\ \A j \in 1..Len(ctl) : j # Len(ctl) => d[j] = ctl[j]
  <2>1. /\ w.k = Top.k \/ (Top.k = "if" /\ w.k = "else")
        /\ Top.k \notin {"compound", "switch"}
    BY <1>1, <1>5
  <2>2. d = Resumed(ctl, w)
    BY <1>6
  <2>3. QED
    BY <1>1, <2>1, <2>2, ResumedFacts
<1>8. Rested(w) /\ (Holds(w) <=> live)
  BY <1>3, <1>5 DEF Rested, Holds
<1>9. Rested(Top) /\ (live => ~Holds(Top))
  BY <1>1, TopHolds
<1>10. Holds(Top) <=> Top.alt
  BY <1>1, <1>9 DEF Holds, Rested
<1>11. /\ (live' \/ Holds(w)) <=> (live \/ Holds(Top))
       /\ ~(live' /\ Holds(w))
  BY <1>1, <1>8, <1>9, <1>10
<1>12. Quiet /\ UNCHANGED <<scopes, visited>>
  BY <1>1 DEF Quiet
<1>13. QED
  BY <1>1, <1>6, <1>7, <1>8, <1>11, <1>12 DEF Resuming

LEMMA ForResumes ==
    ASSUME StackInv, HoldInv, NEW entered \in BOOLEAN, ForBody(entered)
    PROVE  Resuming
<1>1. /\ ctl # <<>> /\ Top.k = "for" /\ Top.phase = "cond"
      /\ ctl' = [ctl EXCEPT ![Len(ctl)] =
                   [@ EXCEPT !.phase = "body", !.alt = live /\ ~entered, !.id = visited]]
      /\ live' = (live /\ entered) /\ EmitNothing
      /\ UNCHANGED <<scopes, deferScopes, cleanupScopes, visited, terminated, strings,
                     frames, result, skipped>>
  BY DEF ForBody
<1>2. Top \in Statement /\ Top = ctl[Len(ctl)] /\ visited \in 0..MaxStmts
  BY <1>1, TopFacts DEF StackInv, GenTypes
<1>3. PICK q \in BOOLEAN : q = (live /\ ~entered)
  BY DEF StackInv, RunTypes
<1>4. /\ [Top EXCEPT !.phase = "body", !.alt = q, !.id = visited] \in Statement
      /\ [Top EXCEPT !.phase = "body", !.alt = q, !.id = visited].k = Top.k
      /\ [Top EXCEPT !.phase = "body", !.alt = q, !.id = visited].alt = q
      /\ [Top EXCEPT !.phase = "body", !.alt = q, !.id = visited].phase = "body"
      /\ [Top EXCEPT !.phase = "body", !.alt = q, !.id = visited].pend = Top.pend
  BY <1>2 DEF Statement
<1>5. PICK w \in Statement :
            /\ w = [Top EXCEPT !.phase = "body", !.alt = q, !.id = visited]
            /\ w.k = Top.k
                             /\ w.alt = q /\ w.phase = "body" /\ w.pend = Top.pend
  BY <1>4
<1>6. PICK d : d = ctl' /\ d = Resumed(ctl, w)
  BY <1>1, <1>2, <1>3, <1>5 DEF Resumed
<1>7. /\ d[Len(ctl)] = w /\ SameKinds(ctl, d)
      /\ \A j \in 1..Len(ctl) : j # Len(ctl) => d[j] = ctl[j]
  <2>1. /\ w.k = Top.k \/ (Top.k = "if" /\ w.k = "else")
        /\ Top.k \notin {"compound", "switch"}
    BY <1>1, <1>5
  <2>2. d = Resumed(ctl, w)
    BY <1>6
  <2>3. QED
    BY <1>1, <2>1, <2>2, ResumedFacts
<1>8. Rested(Top)
  BY <1>1, TopHolds
<1>9. ~Holds(Top) /\ ~Top.pend
  BY <1>1, <1>8 DEF Holds, Rested
<1>10. Rested(w) /\ (Holds(w) <=> (live /\ ~entered))
  BY <1>1, <1>3, <1>5, <1>9 DEF Rested, Holds
<1>11. /\ (live' \/ Holds(w)) <=> (live \/ Holds(Top))
       /\ ~(live' /\ Holds(w))
  BY <1>1, <1>9, <1>10
<1>12. Quiet /\ UNCHANGED <<scopes, visited>>
  BY <1>1 DEF Quiet
<1>13. terminated' => ~live'
  BY <1>1 DEF HoldInv
<1>14. QED
  BY <1>1, <1>6, <1>7, <1>10, <1>11, <1>12, <1>13 DEF Resuming

LEMMA EndsClose ==
    ASSUME StackInv, HoldInv, EndIf \/ EndLoop \/ EndSwitch \/ EndLambda
    PROVE  Closing
<1>1. ctl # <<>>
  BY DEF EndIf, EndLoop, EndSwitch, EndLambda
<1>2. Rested(Top) /\ (live => ~Holds(Top)) /\ (Top.k = "lambda" => ~live)
  BY <1>1, TopHolds
<1>3. live \in BOOLEAN /\ Top \in Statement
  BY <1>1, TopFacts DEF StackInv, RunTypes
<1>4. CASE EndIf
  <2>1. /\ Top.k \in {"if", "else"} /\ ctl' = Complete(Front(ctl))
        /\ live' = (live \/ (IF Top.k = "if" THEN Top.alt ELSE Top.pend))
        /\ terminated' = FALSE /\ EmitNothing
        /\ UNCHANGED <<scopes, deferScopes, cleanupScopes, visited, strings, frames, result,
                       skipped>>
    BY <1>4 DEF EndIf
  <2>2. Holds(Top) <=> (IF Top.k = "if" THEN Top.alt ELSE Top.pend)
    BY <1>2, <2>1 DEF Holds, Rested
  <2>3. live' = (live \/ Holds(Top))
    BY <2>1, <2>2
  <2>4. QED
    BY <1>1, <2>1, <2>3 DEF Closing, Quiet, Scoped
<1>5. CASE EndLoop
  <2>1. /\ Top.k \in {"loop", "for"} /\ ctl' = Complete(Front(ctl))
        /\ scopes' = IF Top.k = "for" THEN Front(scopes) ELSE scopes
        /\ live' = (live \/ Top.alt) /\ terminated' = FALSE /\ EmitNothing
        /\ UNCHANGED <<deferScopes, cleanupScopes, visited, strings, frames, result, skipped>>
    BY <1>5 DEF EndLoop
  <2>2. Holds(Top) <=> Top.alt
    BY <1>2, <2>1 DEF Holds, Rested
  <2>3. live' = (live \/ Holds(Top))
    BY <2>1, <2>2
  <2>4. QED
    BY <1>1, <2>1, <2>3 DEF Closing, Quiet, Scoped
<1>6. CASE EndSwitch
  <2>1. /\ Top.k = "switch" /\ ctl' = Complete(Front(ctl))
        /\ live' = (live \/ Top.alt \/ Top.pend) /\ terminated' = FALSE /\ EmitNothing
        /\ UNCHANGED <<scopes, deferScopes, cleanupScopes, visited, strings, frames, result,
                       skipped>>
    BY <1>6 DEF EndSwitch
  <2>2. Holds(Top) <=> (Top.alt \/ Top.pend)
    BY <2>1 DEF Holds
  <2>3. live' = (live \/ Holds(Top))
    BY <2>1, <2>2
  <2>4. QED
    BY <1>1, <2>1, <2>3 DEF Closing, Quiet, Scoped
<1>7. CASE EndLambda
  <2>1. /\ Top.k = "lambda" /\ ctl' = Complete(Front(ctl))
        /\ scopes' = Front(scopes) /\ live' = Top.alt /\ terminated' = FALSE /\ EmitNothing
        /\ UNCHANGED <<deferScopes, cleanupScopes, visited, strings, frames, result, skipped>>
    BY <1>7 DEF EndLambda
  <2>2. Holds(Top) <=> Top.alt
    BY <1>2, <2>1 DEF Holds, Rested
  <2>3. live' = (live \/ Holds(Top))
    BY <1>2, <1>3, <2>1, <2>2 DEF Statement
  <2>4. QED
    BY <1>1, <2>1, <2>3 DEF Closing, Quiet, Scoped
<1>8. QED
  BY <1>4, <1>5, <1>6, <1>7

LEMMA CompoundOpens ==
    ASSUME StackInv, HoldInv, BeginCompound
    PROVE  \E c : BlockOpening(c)
<1>1. /\ ctl # <<>> /\ visited < MaxStmts /\ Top.phase = "body" /\ Visit /\ ~terminated
      /\ UNCHANGED live /\ OpenBlock(ctl) /\ EmitNothing
      /\ UNCHANGED <<terminated, strings, result, skipped>>
  BY DEF BeginCompound
<1>2. ctl[Len(ctl)].phase = "body" /\ Nested(ctl)
  BY <1>1, TopFacts
<1>3. SameKinds(ctl, ctl)
  BY DEF SameKinds
<1>4. terminated' = FALSE
  BY <1>1 DEF StackInv, GenTypes
<1>5. Where(ctl, live', Len(frames), result # 0) /\ \A i \in 1..Len(ctl) : Rested(ctl[i])
  BY <1>1 DEF HoldInv
<1>6. BlockOpening(ctl)
  BY <1>1, <1>2, <1>3, <1>4, <1>5 DEF BlockOpening
<1>7. QED
  BY <1>6

LEMMA CaseOpens ==
    ASSUME StackInv, HoldInv, NEW selected \in BOOLEAN, BeginCase(selected)
    PROVE  \E c : BlockOpening(c)
<1>1. /\ ctl # <<>> /\ Top.k = "switch" /\ visited < MaxStmts /\ Visit
      /\ live' = (live \/ (Top.pend /\ selected)) /\ terminated' = FALSE
      /\ OpenBlock(CaseChosen(selected)) /\ EmitNothing
      /\ UNCHANGED <<strings, result, skipped>>
  BY DEF BeginCase, CaseChosen
<1>2. PICK c : c = CaseChosen(selected)
  OBVIOUS
<1>3. /\ Balanced(c, scopes, deferScopes, breakBlocks, continueBlocks)
      /\ Len(c) = Len(ctl) /\ c # <<>> /\ SameKinds(ctl, c)
      /\ c[Len(c)].phase = "body" /\ c[Len(c)].k = "switch"
      /\ c[Len(c)].alt = Top.alt /\ c[Len(c)].pend = (Top.pend /\ ~selected)
      /\ \A j \in 1..Len(ctl) : j # Len(ctl) => c[j] = ctl[j]
  BY <1>1, <1>2, CaseChosenFacts
<1>4. Rested(Top) /\ (live => ~Holds(Top)) /\ Top = ctl[Len(ctl)] /\ Nested(ctl)
  BY <1>1, TopHolds, TopFacts
<1>5. PICK f : f = c[Len(c)]
  OBVIOUS
<1>6. /\ Rested(f) /\ ~(live' /\ Holds(f))
      /\ (live' \/ Holds(f)) <=> (live \/ Holds(Top))
  BY <1>1, <1>3, <1>4, <1>5 DEF Rested, Holds
<1>7. PICK lv \in BOOLEAN : lv = live
  BY DEF StackInv, RunTypes
<1>8. PICK lv2 \in BOOLEAN : lv2 = live'
  BY <1>1
<1>9. Where(ctl, lv, Len(frames), result # 0) /\ \A i \in 1..Len(ctl) : Rested(ctl[i])
  BY <1>7 DEF HoldInv
<1>10. Where(c, lv2, Len(frames), result # 0)
  <2>1. ctl[Len(ctl)].k # "lambda"
    BY <1>1, <1>4
  <2>2. /\ (lv2 \/ Holds(c[Len(ctl)])) <=> (lv \/ Holds(ctl[Len(ctl)]))
        /\ ~(lv2 /\ Holds(c[Len(ctl)]))
    BY <1>3, <1>4, <1>5, <1>6, <1>7, <1>8
  <2>3. QED
    BY <1>1, <1>3, <1>4, <1>9, <2>1, <2>2, WhereResumed
<1>11. \A i \in 1..Len(c) : Rested(c[i])
  BY <1>3, <1>5, <1>6, <1>9
<1>12. Nested(c) /\ OpenBlock(c)
  BY <1>1, <1>2, <1>3 DEF Balanced
<1>13. BlockOpening(c)
  BY <1>1, <1>3, <1>8, <1>10, <1>11, <1>12 DEF BlockOpening
<1>14. QED
  BY <1>13

LEMMA MovedHolds ==
    ASSUME NEW c, Nested(c), c # <<>>, NEW d, d = Complete(c), \A i \in 1..Len(c) : Rested(c[i])
    PROVE  /\ SameHolds(c, d) /\ SameKinds(c, d) /\ Nested(d) /\ Len(d) = Len(c)
           /\ \A i \in 1..Len(c) : Holds(d[i]) <=> Holds(c[i])
           /\ \A i \in 1..Len(d) : Rested(d[i])
<1>1. Moved(c, d) /\ Nested(d)
  BY CompleteMoves
<1>2. PICK n \in Nat \ {0} : n = Len(c) /\ n \in 1..n
  <2>1. Len(c) \in Nat /\ Len(c) # 0
    BY EmptySeq DEF Nested
  <2>2. QED
    BY <2>1
<1>3. SameKinds(c, d) /\ Len(d) = n
  BY <1>1, <1>2 DEF Moved, SameKinds
<1>4. /\ \A i \in 1..(n - 1) : d[i] = c[i]
      /\ d[n].k = c[n].k /\ d[n].alt = c[n].alt /\ d[n].pend = c[n].pend
      /\ \/ d[n] = c[n]
         \/ d[n].phase = IF c[n].phase = "init" THEN "cond" ELSE "after"
  BY <1>1, <1>2 DEF Moved
<1>5. ASSUME NEW i \in 1..n
      PROVE  (Holds(d[i]) <=> Holds(c[i])) /\ Rested(d[i])
  <2>1. CASE i = n
    <3>1. Holds(d[n]) <=> Holds(c[n])
      BY <1>4 DEF Holds
    <3>2. Rested(c[n])
      BY <1>2
    <3>3. Rested(d[n])
      BY <1>4, <3>2 DEF Rested
    <3>4. QED
      BY <2>1, <3>1, <3>3
  <2>2. CASE i # n
    <3>1. i \in 1..(n - 1)
      BY <2>2
    <3>2. QED
      BY <1>2, <1>4, <3>1
  <2>3. QED
    BY <2>1, <2>2
<1>6. QED
  BY <1>1, <1>2, <1>3, <1>5 DEF SameHolds

\* A jump to where statement i ends; 0 is a return.  st is the storage when it leaves.
Leaving(i, st) ==
    /\ AtStmt /\ Visit /\ Jumped
    /\ i \in 0..Len(ctl) /\ CountIn(ctl, i, Blocks) \in 0..Len(deferScopes)
    /\ st \in [Ids -> {"unborn", "owner", "null"}]
    /\ Emit(EmitDefersFrom(CountIn(ctl, i, Blocks)), st)
    /\ Unwound(Len(deferScopes) - CountIn(ctl, i, Blocks))
    /\ SameKinds(ctl, ctl')
    /\ \A j \in 1..Len(ctl) : /\ Rested(ctl'[j])
                              /\ Holds(ctl'[j]) <=> (Holds(ctl[j]) \/ (live /\ j = i))
    /\ UNCHANGED <<scopes, deferScopes, cleanupScopes, strings, skipped>>
    /\ \/ st = store /\ result' = result
       \/ \E v \in strings : /\ live /\ i = 0 /\ st = MovedOut(v) /\ result' = v
                             /\ \E x \in Names : v = Resolve(x)
       \/ live /\ i = 0 /\ st = store /\ result' = 0

LEMMA JumpLeaves ==
    ASSUME StackInv, HoldInv, AtStmt, Visit, NEW t, JumpTo(t), t.frame \in 1..Len(ctl),
           ctl[t.frame].k \in Breakable, t.boundary = CountIn(ctl, t.frame, Blocks),
           t.boundary \in 0..Len(deferScopes),
           UNCHANGED <<scopes, deferScopes, cleanupScopes, strings, result, skipped>>
    PROVE  \E i, st : Leaving(i, st)
<1>1. /\ Emit(EmitDefersFrom(t.boundary), store)
      /\ Unwound(Len(deferScopes) - t.boundary) /\ Jumped
  BY DEF JumpTo
<1>2. PICK i \in 1..Len(ctl) : i = t.frame
  OBVIOUS
<1>3. PICK c : c = [ctl EXCEPT ![i].alt = @ \/ live]
  OBVIOUS
<1>4. PICK d : d = ctl' /\ d = Complete(c)
  BY <1>2, <1>3 DEF JumpTo
<1>5. /\ Balanced(c, scopes, deferScopes, breakBlocks, continueBlocks)
      /\ Arriving(ctl, i, c)
  BY <1>3, ArrivingFacts
<1>6. /\ Len(c) = Len(ctl) /\ c # <<>> /\ SameKinds(ctl, c) /\ Nested(c)
      /\ \A j \in 1..Len(ctl) : j # i => c[j] = ctl[j]
      /\ c[i].alt = (ctl[i].alt \/ live) /\ c[i].pend = ctl[i].pend /\ c[i].k = ctl[i].k
      /\ c[i].phase = ctl[i].phase
  BY <1>5 DEF Arriving, Balanced
<1>7. /\ ctl # <<>> /\ Top.phase = "body" /\ Nested(ctl) /\ Top = ctl[Len(ctl)]
      /\ Len(ctl) \in Nat \ {0}
  BY TopFacts DEF AtStmt
<1>8. ctl[i].phase = "body"
  BY <1>7 DEF Nested
<1>9. live => ~Holds(ctl[i])
  BY DEF HoldInv, Where, At
<1>10. /\ Rested(c[i])
       /\ Holds(c[i]) <=> (Holds(ctl[i]) \/ live)
  <2>1. Rested(ctl[i])
    BY DEF HoldInv
  <2>2. ctl[i].k \in Breakable
    BY <1>2
  <2>3. QED
    BY <1>6, <1>8, <1>9, <2>1, <2>2 DEF Rested, Holds, Breakable
<1>11. ASSUME NEW j \in 1..Len(ctl)
       PROVE  Rested(c[j]) /\ (Holds(c[j]) <=> (Holds(ctl[j]) \/ (live /\ j = i)))
  <2>1. CASE j = i
    BY <1>10, <2>1
  <2>2. CASE j # i
    BY <1>6, <2>2 DEF HoldInv
  <2>3. QED
    BY <2>1, <2>2
<1>12. /\ SameKinds(c, d) /\ Len(d) = Len(c)
       /\ \A j \in 1..Len(c) : Holds(d[j]) <=> Holds(c[j])
       /\ \A j \in 1..Len(d) : Rested(d[j])
  BY <1>4, <1>6, <1>11, MovedHolds
<1>13. SameKinds(ctl, d)
  BY <1>6, <1>12 DEF SameKinds
<1>14. \A j \in 1..Len(ctl) : /\ Rested(d[j])
                              /\ Holds(d[j]) <=> (Holds(ctl[j]) \/ (live /\ j = i))
  BY <1>6, <1>11, <1>12
<1>15. PICK st \in [Ids -> {"unborn", "owner", "null"}] : st = store
  BY DEF StackInv, RunTypes
<1>16. i \in 0..Len(ctl) /\ t.boundary = CountIn(ctl, i, Blocks)
  BY <1>2, <1>7
<1>17. Leaving(i, st)
  BY <1>1, <1>4, <1>13, <1>14, <1>15, <1>16 DEF Leaving
<1>18. QED
  BY <1>17

LEMMA BreakLeaves ==
    ASSUME StackInv, HoldInv, VisitBreak \/ VisitContinue
    PROVE  \E i, st : Leaving(i, st)
<1>1. /\ AtStmt /\ Visit
      /\ UNCHANGED <<scopes, deferScopes, cleanupScopes, strings, result, skipped>>
  BY DEF VisitBreak, VisitContinue
<1>2. /\ Targets(ctl, breakBlocks, Breakable) /\ Targets(ctl, continueBlocks, Loops)
  BY DEF StackInv, Balanced
<1>3. CASE VisitBreak
  <2>1. PICK t : t = Last(breakBlocks) /\ JumpTo(t) /\ breakBlocks # <<>>
    BY <1>3 DEF VisitBreak
  <2>2. /\ t.frame \in 1..Len(ctl) /\ ctl[t.frame].k \in Breakable
        /\ t.boundary = CountIn(ctl, t.frame, Blocks) /\ t.boundary \in 0..Len(deferScopes)
    BY <1>2, <2>1, TargetFacts
  <2>3. QED
    BY <1>1, <2>1, <2>2, JumpLeaves
<1>4. CASE VisitContinue
  <2>1. PICK t : t = Last(continueBlocks) /\ JumpTo(t) /\ continueBlocks # <<>>
    BY <1>4 DEF VisitContinue
  <2>2. /\ t.frame \in 1..Len(ctl) /\ ctl[t.frame].k \in Loops
        /\ t.boundary = CountIn(ctl, t.frame, Blocks) /\ t.boundary \in 0..Len(deferScopes)
    BY <1>2, <2>1, TargetFacts
  <2>3. ctl[t.frame].k \in Breakable
    BY <2>2 DEF Loops, Breakable
  <2>4. QED
    BY <1>1, <2>1, <2>2, <2>3, JumpLeaves
<1>5. QED
  BY <1>3, <1>4

LEMMA ReturnLeaves ==
    ASSUME StackInv, HoldInv, NEW moved \in 0..MaxStmts, VisitReturn(moved)
    PROVE  \E i, st : Leaving(i, st)
<1>1. /\ AtStmt /\ Visit /\ ctl' = Complete(ctl) /\ Jumped
      /\ Emit(EmitDefersFrom(0), MovedOut(moved)) /\ Unwound(Len(frames))
      /\ result' = IF live THEN moved ELSE result
      /\ moved \in {0} \cup (strings \cap {Resolve(x) : x \in {y \in Names : Visible(y)}})
      /\ UNCHANGED <<scopes, deferScopes, cleanupScopes, strings, skipped>>
  BY DEF VisitReturn
<1>2. ctl # <<>> /\ Nested(ctl)
  BY <1>1, TopFacts DEF AtStmt
<1>3. PICK d : d = ctl' /\ d = Complete(ctl)
  BY <1>1
<1>4. \A j \in 1..Len(ctl) : Rested(ctl[j])
  BY DEF HoldInv
<1>5. /\ SameKinds(ctl, d) /\ Len(d) = Len(ctl)
      /\ \A j \in 1..Len(ctl) : Holds(d[j]) <=> Holds(ctl[j])
      /\ \A j \in 1..Len(d) : Rested(d[j])
  BY <1>2, <1>3, <1>4, MovedHolds
<1>6. PICK i : i = 0
  OBVIOUS
<1>7. i \in 0..Len(ctl) /\ CountIn(ctl, i, Blocks) = 0 /\ Len(deferScopes) \in Nat
  BY <1>2, <1>6, CountNone DEF Nested, StackInv, Paired
<1>8. \A j \in 1..Len(ctl) : /\ Rested(d[j])
                             /\ Holds(d[j]) <=> (Holds(ctl[j]) \/ (live /\ j = i))
  BY <1>5, <1>6
<1>9. Unwound(Len(deferScopes) - CountIn(ctl, i, Blocks))
  <2>1. live => Len(frames) = Len(deferScopes)
    BY DEF HoldInv, Where, At, StackInv, Balanced, Levels
  <2>2. Len(deferScopes) - CountIn(ctl, i, Blocks) = Len(deferScopes)
    BY <1>7
  <2>3. QED
    BY <1>1, <2>1, <2>2 DEF Unwound
<1>10. PICK st \in [Ids -> {"unborn", "owner", "null"}] : st = MovedOut(moved)
  BY MovedOutFacts
<1>11. Emit(EmitDefersFrom(CountIn(ctl, i, Blocks)), st)
  BY <1>1, <1>7, <1>10
<1>12. \/ st = store /\ result' = result
       \/ \E v \in strings : /\ live /\ i = 0 /\ st = MovedOut(v) /\ result' = v
                             /\ \E x \in Names : v = Resolve(x)
       \/ live /\ i = 0 /\ st = store /\ result' = 0
  <2>1. CASE ~live
    BY <1>1, <1>10, <2>1 DEF MovedOut
  <2>2. CASE live /\ moved = 0
    BY <1>1, <1>6, <1>10, <2>2 DEF MovedOut
  <2>3. CASE live /\ moved # 0
    <3>1. moved \in strings /\ \E x \in Names : moved = Resolve(x)
      BY <1>1, <2>3
    <3>2. QED
      BY <1>1, <1>6, <1>10, <2>3, <3>1
  <2>4. QED
    BY <2>1, <2>2, <2>3
<1>13. CountIn(ctl, i, Blocks) \in 0..Len(deferScopes)
  BY <1>7
<1>14. /\ SameKinds(ctl, ctl')
       /\ \A j \in 1..Len(ctl) : /\ Rested(ctl'[j])
                                 /\ Holds(ctl'[j]) <=> (Holds(ctl[j]) \/ (live /\ j = i))
  BY <1>3, <1>5, <1>8
<1>15. Leaving(i, st)
  BY <1>1, <1>7, <1>9, <1>10, <1>11, <1>12, <1>13, <1>14 DEF Leaving
<1>16. QED
  BY <1>15

LEMMA NextShapes ==
    ASSUME StackInv, HoldInv, Next
    PROVE  \/ \E x \in Names : VisitDefer(x) \/ VisitPlainDecl(x) \/ VisitStringDecl(x)
           \/ \E f : Opening(f)
           \/ Resuming \/ Closing \/ EndCompound \/ VisitStrayJump \/ EndFunction
           \/ \E c : BlockOpening(c)
           \/ \E i, st : Leaving(i, st)
           \/ IterateAgain
<1>1. ASSUME NEW taken \in BOOLEAN, BeginIf(taken)
      PROVE  \E f : Opening(f)
  BY <1>1, IfOpens
<1>2. CASE BeginCompound
  BY <1>2, CompoundOpens
<1>3. CASE BeginElse
  BY <1>3, ElseResumes
<1>4. CASE EndIf \/ EndLoop \/ EndSwitch \/ EndLambda
  BY <1>4, EndsClose
<1>5. ASSUME NEW entered \in BOOLEAN, BeginLoop(entered)
      PROVE  \E f : Opening(f)
  BY <1>5, LoopOpens
<1>6. ASSUME NEW entered \in BOOLEAN, ForBody(entered)
      PROVE  Resuming
  BY <1>6, ForResumes
<1>7. ASSUME NEW withInit \in BOOLEAN, BeginFor(withInit)
      PROVE  \E f : Opening(f)
  BY <1>7, ForOpens
<1>8. CASE BeginSwitch
  BY <1>8, SwitchOpens
<1>9. ASSUME NEW selected \in BOOLEAN, BeginCase(selected)
      PROVE  \E c : BlockOpening(c)
  BY <1>9, CaseOpens
<1>10. CASE VisitBreak \/ VisitContinue
  BY <1>10, BreakLeaves
<1>11. ASSUME NEW moved \in 0..MaxStmts, VisitReturn(moved)
       PROVE  \E i, st : Leaving(i, st)
  BY <1>11, ReturnLeaves
<1>12. ASSUME NEW captured \in SUBSET Names, BeginLambda(captured)
       PROVE  \E f : Opening(f)
  BY <1>12, LambdaOpens
<1>13. QED
  BY <1>1, <1>2, <1>3, <1>4, <1>5, <1>6, <1>7, <1>8, <1>9, <1>10, <1>11, <1>12, Zenon
     DEF Next

-------------------------------------------------------------------------------
(* HoldInv, one shape at a time.                                            *)

LEMMA HoldPassed ==
    ASSUME StackInv, HoldInv, ctl # <<>>, ctl' = Complete(ctl), Len(frames') = Len(frames),
           live' = live, result' = result, terminated' => ~live
    PROVE  HoldInv'
<1>1. PICK d : d = ctl' /\ d = Complete(ctl)
  OBVIOUS
<1>2. Nested(ctl) /\ (\A i \in 1..Len(ctl) : Rested(ctl[i])) /\ live \in BOOLEAN
  BY DEF StackInv, Balanced, HoldInv, RunTypes
<1>3. SameHolds(ctl, d) /\ \A i \in 1..Len(d) : Rested(d[i])
  BY <1>1, <1>2, MovedHolds
<1>4. PICK lv \in BOOLEAN : lv = live
  BY <1>2
<1>5. Where(ctl, lv, Len(frames), result # 0)
  BY <1>4 DEF HoldInv
<1>6. Where(d, lv, Len(frames), result # 0)
  BY <1>2, <1>3, <1>5, WhereKept
<1>7. Where(ctl', live', Len(frames'), result' # 0)
  BY <1>1, <1>4, <1>6
<1>8. QED
  BY <1>1, <1>3, <1>7 DEF HoldInv

LEMMA HoldRegistered ==
    ASSUME StackInv, HoldInv, NEW x \in Names,
           VisitDefer(x) \/ VisitPlainDecl(x) \/ VisitStringDecl(x)
    PROVE  HoldInv'
<1>1. ctl # <<>>
  BY DEF VisitDefer, VisitPlainDecl, VisitStringDecl, AtStmt, AtDecl
<1>2. ctl' = Complete(ctl) /\ UNCHANGED <<live, result, terminated>>
  BY DEF VisitDefer, VisitPlainDecl, VisitStringDecl
<1>3. Len(frames') = Len(frames)
  <2>1. frames \in Seq(Seq(Obligation))
    BY DEF StackInv, RunTypes
  <2>2. CASE VisitPlainDecl(x)
    BY <2>2 DEF VisitPlainDecl
  <2>3. CASE VisitDefer(x) \/ VisitStringDecl(x)
    <3>1. visited' \in Ids
      BY <2>3, VisitTyped DEF VisitDefer, VisitStringDecl, AtStmt, AtDecl
    <3>2. Owed(Defer(x)) \in Obligation /\ Owed(StringOf(x)) \in Obligation
      BY <1>1, <3>1, NewItems
    <3>3. /\ Len(AddTo(frames, Owed(Defer(x)))) = Len(frames)
          /\ Len(AddTo(frames, Owed(StringOf(x)))) = Len(frames)
      BY <2>1, <3>2, AddToFacts
    <3>4. QED
      BY <2>3, <3>3 DEF VisitDefer, VisitStringDecl
  <2>4. QED
    BY <2>2, <2>3
<1>4. terminated' => ~live
  BY <1>2 DEF HoldInv
<1>5. QED
  BY <1>1, <1>2, <1>3, <1>4, HoldPassed

LEMMA HoldOpened ==
    ASSUME StackInv, HoldInv, StackInv', NEW f, Opening(f)
    PROVE  HoldInv'
<1>1. /\ f \in Statement /\ f.k \notin {"fn", "compound"} /\ Extended(ctl, f, ctl')
      /\ Rested(f) /\ (Holds(f) <=> (live /\ ~live')) /\ (live' => live)
      /\ f.k = "lambda" => ~live'
      /\ UNCHANGED <<terminated, frames, result>>
  BY DEF Opening, Quiet
<1>2. PICK d : d = ctl'
  OBVIOUS
<1>3. PICK lv \in BOOLEAN : lv = live
  BY DEF StackInv, RunTypes
<1>4. PICK lv2 \in BOOLEAN : lv2 = live'
  BY DEF StackInv, RunTypes
<1>5. PICK n \in Nat : n = Len(ctl) /\ Nested(ctl)
  BY DEF StackInv, Balanced, Nested
<1>6. Where(ctl, lv, Len(frames), result # 0)
  BY <1>3 DEF HoldInv
<1>7. Where(d, lv2, Len(frames), result # 0)
  <2>1. /\ Extended(ctl, f, d) /\ f.k \notin Blocks
        /\ Holds(f) <=> (lv /\ ~lv2)
        /\ lv2 => lv
        /\ f.k = "lambda" => ~lv2
    BY <1>1, <1>2, <1>3, <1>4 DEF Blocks
  <2>2. QED
    BY <1>1, <1>5, <1>6, <2>1, WhereOpened
<1>8. \A i \in 1..Len(d) : Rested(d[i])
  <2>1. Len(d) = n + 1 /\ d[n + 1] = f /\ \A i \in 1..n : d[i] = ctl[i]
    BY <1>1, <1>2, <1>5 DEF Extended
  <2>2. \A i \in 1..n : Rested(d[i])
    BY <1>5, <2>1 DEF HoldInv
  <2>3. \A i \in 1..(n + 1) : i = n + 1 \/ i \in 1..n
    BY <1>5
  <2>4. QED
    BY <1>1, <2>1, <2>2, <2>3
<1>9. terminated' => ~live'
  BY <1>1 DEF HoldInv
<1>10. Where(ctl', live', Len(frames'), result' # 0)
  BY <1>1, <1>2, <1>4, <1>7
<1>11. QED
  BY <1>2, <1>8, <1>9, <1>10 DEF HoldInv

LEMMA HoldResumed ==
    ASSUME StackInv, HoldInv, StackInv', Resuming
    PROVE  HoldInv'
<1>1. /\ ctl # <<>> /\ UNCHANGED <<frames, result>>
      /\ SameKinds(ctl, ctl') /\ Top.k \in {"if", "for"}
      /\ \A i \in 1..Len(ctl) : i # Len(ctl) => ctl'[i] = ctl[i]
      /\ Rested(ctl'[Len(ctl)]) /\ (terminated' => ~live')
      /\ (live' \/ Holds(ctl'[Len(ctl)])) <=> (live \/ Holds(Top))
      /\ ~(live' /\ Holds(ctl'[Len(ctl)]))
  BY DEF Resuming, Quiet
<1>2. Top = ctl[Len(ctl)] /\ Nested(ctl)
  BY <1>1, TopFacts
<1>3. PICK d : d = ctl'
  OBVIOUS
<1>4. PICK lv \in BOOLEAN : lv = live
  BY DEF StackInv, RunTypes
<1>5. PICK lv2 \in BOOLEAN : lv2 = live'
  BY DEF StackInv, RunTypes
<1>6. Where(ctl, lv, Len(frames), result # 0)
  BY <1>4 DEF HoldInv
<1>7. Where(d, lv2, Len(frames), result # 0)
  <2>1. /\ SameKinds(ctl, d) /\ ctl[Len(ctl)].k # "lambda"
        /\ \A i \in 1..Len(ctl) : i # Len(ctl) => d[i] = ctl[i]
        /\ (lv2 \/ Holds(d[Len(ctl)])) <=> (lv \/ Holds(ctl[Len(ctl)]))
        /\ ~(lv2 /\ Holds(d[Len(ctl)]))
    BY <1>1, <1>2, <1>3, <1>4, <1>5
  <2>2. QED
    BY <1>1, <1>2, <1>6, <2>1, WhereResumed
<1>8. \A i \in 1..Len(d) : Rested(d[i])
  <2>1. Len(d) = Len(ctl) /\ \A i \in 1..Len(ctl) : Rested(ctl[i])
    BY <1>1, <1>3 DEF SameKinds, HoldInv
  <2>2. QED
    BY <1>1, <1>3, <2>1
<1>9. Where(ctl', live', Len(frames'), result' # 0)
  BY <1>1, <1>3, <1>5, <1>7
<1>10. QED
  BY <1>1, <1>3, <1>8, <1>9 DEF HoldInv

\* What is under the innermost statement, once that is done.
LEMMA UnderTop ==
    ASSUME StackInv, HoldInv, ctl # <<>>, Top.k # "fn", NEW d, d = Complete(Front(ctl))
    PROVE  /\ Nested(Front(ctl)) /\ Extended(Front(ctl), Top, ctl) /\ Top \in Statement
           /\ SameHolds(Front(ctl), d) /\ \A i \in 1..Len(d) : Rested(d[i])
<1>1. Nested(ctl) /\ Len(ctl) \in Nat \ {0} /\ Len(ctl) # 1 /\ Top = ctl[Len(ctl)]
  BY TopFacts
<1>2. PICK g : g = Front(ctl)
  OBVIOUS
<1>3. Len(ctl) > 1
  BY <1>1
<1>4. /\ Extended(g, ctl[Len(ctl)], ctl) /\ ctl[Len(ctl)] \in Statement
      /\ Nested(g) /\ Len(g) \in Nat \ {0}
  BY <1>1, <1>2, <1>3, FrontShrinks
<1>5. \A i \in 1..Len(g) : Rested(g[i])
  <2>1. Len(ctl) = Len(g) + 1 /\ \A i \in 1..Len(g) : ctl[i] = g[i]
    BY <1>4 DEF Extended
  <2>2. \A i \in 1..Len(g) : i \in 1..Len(ctl)
    BY <1>4, <2>1
  <2>3. QED
    BY <2>1, <2>2 DEF HoldInv
<1>6. g # <<>>
  BY <1>4, EmptySeq
<1>7. SameHolds(g, d) /\ \A i \in 1..Len(d) : Rested(d[i])
  BY <1>2, <1>4, <1>5, <1>6, MovedHolds
<1>8. QED
  BY <1>1, <1>2, <1>4, <1>7

LEMMA HoldClosed ==
    ASSUME StackInv, HoldInv, StackInv', Closing
    PROVE  HoldInv'
<1>1. /\ ctl # <<>> /\ UNCHANGED <<frames, result>>
      /\ Top.k \notin {"fn", "compound"} /\ ctl' = Complete(Front(ctl))
      /\ live' = (live \/ Holds(Top)) /\ terminated' = FALSE
  BY DEF Closing, Quiet
<1>2. PICK d : d = ctl' /\ d = Complete(Front(ctl))
  BY <1>1
<1>3. PICK g : g = Front(ctl)
  OBVIOUS
<1>4. PICK f : f = Top
  OBVIOUS
<1>5. /\ Nested(g) /\ Extended(g, f, ctl) /\ f \in Statement
      /\ SameHolds(g, d) /\ \A i \in 1..Len(d) : Rested(d[i])
  BY <1>1, <1>2, <1>3, <1>4, UnderTop
<1>6. PICK lv \in BOOLEAN : lv = live
  BY DEF StackInv, RunTypes
<1>7. PICK lv2 \in BOOLEAN : lv2 = live'
  BY DEF StackInv, RunTypes
<1>8. Where(ctl, lv, Len(frames), result # 0)
  BY <1>6 DEF HoldInv
<1>9. Where(g, lv2, Len(frames), result # 0)
  <2>1. f.k \notin Blocks /\ lv2 = (lv \/ Holds(f))
    BY <1>1, <1>4, <1>6, <1>7 DEF Blocks
  <2>2. QED
    BY <1>5, <1>8, <2>1, WhereClosed
<1>10. Where(d, lv2, Len(frames), result # 0)
  BY <1>5, <1>9, WhereKept
<1>11. Where(ctl', live', Len(frames'), result' # 0)
  BY <1>1, <1>2, <1>7, <1>10
<1>12. QED
  BY <1>1, <1>2, <1>5, <1>11 DEF HoldInv

LEMMA HoldBlockOpened ==
    ASSUME StackInv, HoldInv, StackInv', NEW c, BlockOpening(c)
    PROVE  HoldInv'
<1>1. /\ visited < MaxStmts /\ Visit /\ UNCHANGED result
      /\ Nested(c) /\ c # <<>> /\ c[Len(c)].phase = "body"
      /\ Where(c, live', Len(frames), result # 0) /\ \A i \in 1..Len(c) : Rested(c[i])
      /\ terminated' = FALSE
  BY DEF BlockOpening
<1>2. PICK f : f = [k |-> "compound", id |-> visited', phase |-> "body", alt |-> FALSE,
                    pend |-> FALSE]
  OBVIOUS
<1>3. ctl' = Append(c, f) /\ frames' = IF live' THEN Append(frames, <<>>) ELSE frames
  BY <1>2 DEF BlockOpening, OpenBlock, Frame
<1>4. visited' \in 0..MaxStmts
  BY <1>1, VisitTyped
<1>5. f \in Statement /\ f.k = "compound" /\ ~f.alt /\ ~f.pend
  BY <1>2, <1>4 DEF Statement, Kinds
<1>6. PICK d : d = ctl' /\ d = Append(c, f)
  BY <1>3
<1>7. PICK n \in Nat : n = Len(c) /\ c \in Seq(Statement)
  BY <1>1 DEF Nested
<1>8. Extended(c, f, d)
  BY <1>5, <1>6, <1>7, AppendExtends
<1>9. PICK lv \in BOOLEAN : lv = live'
  BY DEF StackInv, RunTypes
<1>10. frames \in Seq(Seq(Obligation)) /\ <<>> \in Seq(Obligation)
  BY EmptySeq DEF StackInv, RunTypes
<1>11. PICK m : m = Len(frames') /\ m = IF lv THEN Len(frames) + 1 ELSE Len(frames)
  <2>1. Len(Append(frames, <<>>)) = Len(frames) + 1
    BY <1>10, AppendProperties
  <2>2. QED
    BY <1>3, <1>9, <2>1
<1>12. Where(d, lv, m, result # 0)
  <2>1. f.k \in Blocks /\ ~Holds(f)
    BY <1>5 DEF Blocks, Holds
  <2>2. Where(c, lv, Len(frames), result # 0)
    BY <1>1, <1>9
  <2>3. QED
    BY <1>1, <1>5, <1>8, <1>11, <2>1, <2>2, WhereBlockOpened
<1>13. \A i \in 1..Len(d) : Rested(d[i])
  <2>1. Len(d) = n + 1 /\ d[n + 1] = f /\ \A i \in 1..n : d[i] = c[i]
    BY <1>7, <1>8 DEF Extended
  <2>2. Rested(f)
    BY <1>2, <1>5 DEF Rested
  <2>3. \A i \in 1..(n + 1) : i = n + 1 \/ i \in 1..n
    BY <1>7
  <2>4. QED
    BY <1>1, <1>7, <2>1, <2>2, <2>3
<1>14. Where(ctl', live', Len(frames'), result' # 0)
  BY <1>1, <1>6, <1>9, <1>11, <1>12
<1>15. QED
  BY <1>1, <1>6, <1>13, <1>14 DEF HoldInv

LEMMA HoldBlockClosed ==
    ASSUME StackInv, HoldInv, StackInv', EndCompound
    PROVE  HoldInv'
<1>1. /\ ctl # <<>> /\ Top.k = "compound" /\ ctl' = Complete(Front(ctl))
      /\ UNCHANGED <<terminated, live, result>>
      /\ frames' = IF ~terminated /\ live THEN SubSeq(frames, 1, Len(frames) - 1)
                                          ELSE frames
  BY DEF EndCompound, Unwound
<1>2. PICK d : d = ctl' /\ d = Complete(Front(ctl))
  BY <1>1
<1>3. PICK g : g = Front(ctl)
  OBVIOUS
<1>4. PICK f : f = Top
  OBVIOUS
<1>5. /\ Nested(g) /\ Extended(g, f, ctl) /\ f \in Statement
      /\ SameHolds(g, d) /\ \A i \in 1..Len(d) : Rested(d[i])
  BY <1>1, <1>2, <1>3, <1>4, UnderTop
<1>6. PICK lv \in BOOLEAN : lv = live
  BY DEF StackInv, RunTypes
<1>7. Where(ctl, lv, Len(frames), result # 0) /\ (terminated => ~lv)
  BY <1>6 DEF HoldInv
<1>8. f.k \in Blocks /\ ~Holds(f)
  <2>1. Rested(f)
    BY <1>1, <1>4, TopHolds
  <2>2. QED
    BY <1>1, <1>4, <2>1 DEF Rested, Holds, Blocks
<1>9. lv => Len(frames) \in Nat \ {0}
  <2>1. lv => Len(frames) = Len(deferScopes)
    BY <1>6 DEF HoldInv, Where, At, StackInv, Balanced, Levels
  <2>2. PICK n \in Nat \ {0} : n = Len(ctl) /\ n # 1
    BY <1>1, TopFacts
  <2>3. Len(ctl) > 1
    <3>1. n > 1
      BY <2>2
    <3>2. QED
      BY <2>2, <3>1
  <2>4. Len(deferScopes) \in Nat \ {0}
    BY <1>1, <2>3, TopFacts
  <2>5. QED
    BY <2>1, <2>4
<1>10. PICK fr \in Seq(Seq(Obligation)) : fr = frames
  BY DEF StackInv, RunTypes
<1>11. PICK m : m = Len(frames') /\ m = IF lv THEN Len(fr) - 1 ELSE Len(fr)
  <2>1. CASE lv
    <3>1. frames' = SubSeq(fr, 1, Len(fr) - 1)
      BY <1>1, <1>6, <1>7, <1>10, <2>1
    <3>2. PICK q \in 0..Len(fr) : q = Len(fr) - 1
      <4>1. PICK k \in Nat \ {0} : k = Len(fr)
        BY <1>9, <1>10, <2>1
      <4>2. k - 1 \in 0..k
        BY <4>1
      <4>3. QED
        BY <4>1, <4>2
    <3>3. frames' = SubSeq(fr, 1, q)
      BY <3>1, <3>2
    <3>4. Len(frames') = q
      BY <1>10, <3>2, <3>3
    <3>5. QED
      BY <2>1, <3>2, <3>4
  <2>2. CASE ~lv
    BY <1>1, <1>6, <1>10, <2>2
  <2>3. QED
    BY <2>1, <2>2
<1>12. Where(g, lv, m, result # 0)
  <2>1. PICK k \in Nat : k = Len(fr)
    BY <1>10
  <2>2. Where(ctl, lv, k, result # 0) /\ m = IF lv THEN k - 1 ELSE k
    BY <1>7, <1>10, <1>11, <2>1
  <2>3. QED
    BY <1>5, <1>8, <2>2, WhereBlockClosed
<1>13. Where(d, lv, m, result # 0)
  BY <1>5, <1>12, WhereKept
<1>14. Where(ctl', live', Len(frames'), result' # 0)
  BY <1>1, <1>2, <1>6, <1>11, <1>13
<1>15. terminated' => ~live'
  BY <1>1, <1>6, <1>7
<1>16. QED
  BY <1>2, <1>5, <1>14, <1>15 DEF HoldInv

LEMMA HoldLeft ==
    ASSUME StackInv, HoldInv, StackInv', NEW i, NEW st, Leaving(i, st)
    PROVE  HoldInv'
<1>1. /\ AtStmt /\ Jumped /\ i \in 0..Len(ctl) /\ CountIn(ctl, i, Blocks) \in 0..Len(deferScopes)
      /\ Unwound(Len(deferScopes) - CountIn(ctl, i, Blocks))
      /\ SameKinds(ctl, ctl')
      /\ \A j \in 1..Len(ctl) : /\ Rested(ctl'[j])
                                /\ Holds(ctl'[j]) <=> (Holds(ctl[j]) \/ (live /\ j = i))
      /\ result' = result \/ (live /\ i = 0)
  BY DEF Leaving
<1>2. PICK d : d = ctl'
  OBVIOUS
<1>3. Nested(ctl) /\ Len(deferScopes) = CountIn(ctl, Len(ctl), Blocks) /\ Len(ctl) \in Nat
  BY DEF StackInv, Balanced, Levels, Nested
<1>4. live' = FALSE /\ Len(d) = Len(ctl)
  BY <1>1, <1>2 DEF Jumped, SameKinds
<1>5. PICK fr \in Seq(Seq(Obligation)) : fr = frames
  BY DEF StackInv, RunTypes
<1>6. CASE live
  <2>1. Where(ctl, TRUE, Len(frames), result # 0)
    BY <1>6 DEF HoldInv
  <2>2. PICK p \in 0..Len(ctl) : At(ctl, TRUE, Len(frames), result # 0, p)
    BY <2>1 DEF Where
  <2>3. Len(fr) = Len(deferScopes) /\ result = 0 /\ \A j \in 1..Len(ctl) : ~Holds(ctl[j])
    BY <1>3, <1>5, <2>2 DEF At
  <2>4. PICK m \in 0..Len(fr) : m = CountIn(ctl, i, Blocks)
    BY <1>1, <2>3
  <2>5. frames' = SubSeq(fr, 1, m)
    <3>1. Len(fr) - (Len(deferScopes) - CountIn(ctl, i, Blocks)) = m
      BY <1>5, <2>3, <2>4
    <3>2. QED
      BY <1>1, <1>5, <1>6, <3>1 DEF Unwound
  <2>6. Len(frames') = m
    BY <1>5, <2>4, <2>5
  <2>7. PICK out : out = (result' # 0)
    OBVIOUS
  <2>8. out => i = 0
    BY <1>1, <2>3, <2>7
  <2>9. \A j \in 1..Len(ctl) : Holds(d[j]) <=> j = i
    BY <1>1, <1>2, <1>6, <2>3
  <2>10. Where(d, FALSE, CountIn(ctl, i, Blocks), out)
    BY <1>1, <1>2, <1>3, <2>1, <2>8, <2>9, WhereJumped
  <2>11. Where(ctl', live', Len(frames'), result' # 0)
    BY <1>2, <1>4, <2>4, <2>6, <2>7, <2>10
  <2>12. QED
    BY <1>1, <1>2, <1>4, <2>11 DEF HoldInv
<1>7. CASE ~live
  <2>1. frames' = frames /\ result' = result
    BY <1>1, <1>7 DEF Unwound
  <2>2. Where(ctl, FALSE, Len(frames), result # 0)
    BY <1>7 DEF HoldInv, StackInv, RunTypes
  <2>3. SameHolds(ctl, d)
    BY <1>1, <1>2, <1>7 DEF SameHolds
  <2>4. Where(d, FALSE, Len(frames), result # 0)
    BY <1>3, <2>2, <2>3, WhereKept
  <2>5. Where(ctl', live', Len(frames'), result' # 0)
    BY <1>2, <1>4, <2>1, <2>4
  <2>6. QED
    BY <1>1, <1>2, <1>4, <2>5 DEF HoldInv
<1>8. QED
  BY <1>6, <1>7

LEMMA HoldStray ==
    ASSUME StackInv, HoldInv, VisitStrayJump
    PROVE  HoldInv'
<1>1. /\ ctl # <<>> /\ ctl' = Complete(ctl) /\ Jumped /\ ~live
      /\ UNCHANGED <<frames, result>>
  BY DEF VisitStrayJump, AtStmt
<1>2. live' = live
  BY <1>1 DEF Jumped, StackInv, RunTypes
<1>3. QED
  BY <1>1, <1>2, HoldPassed

LEMMA HoldEnded ==
    ASSUME StackInv, HoldInv, EndFunction
    PROVE  HoldInv'
<1>1. /\ ctl # <<>> /\ Top.k = "fn" /\ ctl' = <<>> /\ Jumped /\ UNCHANGED <<frames, result>>
  BY DEF EndFunction
<1>2. Len(ctl) = 1 /\ Top = ctl[1]
  BY <1>1, TopFacts
<1>3. PICK p \in 0..1 : At(ctl, live, Len(frames), result # 0, p)
  BY <1>2 DEF HoldInv, Where
<1>4. Len(frames) = 0 /\ (p = 1 => live)
  <2>1. CASE p = 0
    BY <1>3, <2>1, CountNone DEF At
  <2>2. CASE p = 1
    <3>1. Rested(Top)
      BY <1>1, TopHolds
    <3>2. ~Holds(ctl[1]) /\ 1 \in 1..Len(ctl)
      BY <1>1, <1>2, <3>1 DEF Rested, Holds
    <3>3. live
      BY <1>3, <2>2, <3>2 DEF At
    <3>4. Len(frames) = Len(deferScopes)
      BY <1>2, <1>3, <2>2 DEF At, StackInv, Balanced, Levels
    <3>5. QED
      BY <1>1, <2>2, <3>3, <3>4, NothingOpen
  <2>3. QED
    BY <2>1, <2>2
<1>5. At(<<>>, FALSE, 0, result # 0, 0)
  <2>1. CountIn(<<>>, 0, Blocks) = 0 /\ Len(<<>>) = 0
    BY CountNone, EmptySeq
  <2>2. QED
    BY <2>1 DEF At
<1>6. Where(<<>>, FALSE, 0, result # 0)
  <2>1. 0 \in 0..Len(<<>>)
    BY EmptySeq
  <2>2. QED
    BY <1>5, <2>1 DEF Where
<1>7. live' = FALSE /\ Len(ctl') = 0
  BY <1>1, EmptySeq DEF Jumped
<1>8. Where(ctl', live', Len(frames'), result' # 0)
  BY <1>1, <1>4, <1>6, <1>7
<1>9. QED
  BY <1>7, <1>8 DEF HoldInv

LEMMA InitHold ==
    ASSUME Init
    PROVE  HoldInv
<1>1. PICK f : f = [k |-> "fn", id |-> 0, phase |-> "body", alt |-> FALSE, pend |-> FALSE]
  OBVIOUS
<1>2. ctl = <<f>> /\ live = TRUE /\ frames = <<>> /\ result = 0 /\ terminated = FALSE
  BY <1>1 DEF Init
<1>3. Rested(f) /\ ~Holds(f) /\ f.k = "fn"
  BY <1>1 DEF Rested, Holds
<1>4. Len(ctl) = 1 /\ ctl[1] = f /\ Len(frames) = 0
  BY <1>2, EmptySeq
<1>5. CountIn(ctl, 1, Blocks) = 0
  <2>1. PICK S : S = {i \in 1..1 : ctl[i].k \in Blocks}
    OBVIOUS
  <2>2. S = {}
    BY <1>3, <1>4, <2>1 DEF Blocks
  <2>3. QED
    BY <2>1, <2>2, FS_EmptySet DEF CountIn
<1>6. At(ctl, live, Len(frames), result # 0, 1)
  BY <1>2, <1>3, <1>4, <1>5 DEF At
<1>7. Where(ctl, live, Len(frames), result # 0)
  <2>1. 1 \in 0..Len(ctl)
    BY <1>4
  <2>2. QED
    BY <1>6, <2>1 DEF Where
<1>8. \A i \in 1..Len(ctl) : Rested(ctl[i])
  <2>1. Len(ctl) = 1 /\ Rested(ctl[1])
    BY <1>3, <1>4
  <2>2. \A i \in 1..1 : i = 1
    OBVIOUS
  <2>3. QED
    BY <2>1, <2>2
<1>9. terminated => ~live
  BY <1>2
<1>10. QED
  BY <1>7, <1>8, <1>9 DEF HoldInv

LEMMA HoldIdle ==
    ASSUME HoldInv, UNCHANGED vars
    PROVE  HoldInv'
BY DEF HoldInv, vars, genVars, runVars

\* Another iteration leaves the execution where it is.
LEMMA HoldAgain ==
    ASSUME StackInv, HoldInv, IterateAgain
    PROVE  /\ HoldInv' /\ Len(frames') = Len(frames)
<1>1. deferScopes # <<>>
  BY DEF IterateAgain
<1>2. PICK item \in AgainItems : ReachAgain(item)
  BY DEF IterateAgain
<1>3. Owed(item) \in Obligation /\ frames \in Seq(Seq(Obligation))
  BY <1>1, AgainFacts DEF StackInv, RunTypes
<1>4. /\ frames' = IF live THEN AddTo(frames, Owed(item)) ELSE frames
      /\ UNCHANGED <<ctl, terminated, live, result>>
  BY <1>2 DEF ReachAgain
<1>5. Len(AddTo(frames, Owed(item))) = Len(frames)
  BY <1>3, AddToFacts
<1>6. Len(frames') = Len(frames)
  BY <1>4, <1>5
<1>7. HoldInv'
  BY <1>4, <1>6 DEF HoldInv
<1>8. QED
  BY <1>6, <1>7

LEMMA HoldStep ==
    ASSUME StackInv, HoldInv, StackInv', Next
    PROVE  HoldInv'
<1>1. CASE \E x \in Names : VisitDefer(x) \/ VisitPlainDecl(x) \/ VisitStringDecl(x)
  BY <1>1, HoldRegistered
<1>2. ASSUME NEW f, Opening(f)
      PROVE  HoldInv'
  BY <1>2, HoldOpened
<1>3. CASE Resuming
  BY <1>3, HoldResumed
<1>4. CASE Closing
  BY <1>4, HoldClosed
<1>5. CASE EndCompound
  BY <1>5, HoldBlockClosed
<1>6. CASE VisitStrayJump
  BY <1>6, HoldStray
<1>7. CASE EndFunction
  BY <1>7, HoldEnded
<1>8. ASSUME NEW c, BlockOpening(c)
      PROVE  HoldInv'
  BY <1>8, HoldBlockOpened
<1>9. ASSUME NEW i, NEW st, Leaving(i, st)
      PROVE  HoldInv'
  BY <1>9, HoldLeft
<1>10. CASE IterateAgain
  BY <1>10, HoldAgain
<1>11. QED
  BY <1>1, <1>2, <1>3, <1>4, <1>5, <1>6, <1>7, <1>8, <1>9, <1>10, NextShapes

\* The statements a program declares something in, or defers in.
LEMMA RegisteredSteps ==
    ASSUME StackInv, HoldInv, Next, skipped' # skipped
    PROVE  IterateAgain \/ \E x \in Names : VisitDefer(x) \/ VisitStringDecl(x)
<1>1. ~EndCompound /\ ~VisitStrayJump /\ ~EndFunction
  BY DEF EndCompound, VisitStrayJump, EndFunction
<1>2. ~Resuming /\ ~Closing
  BY DEF Resuming, Closing, Quiet
<1>3. \A f : ~Opening(f)
  BY DEF Opening, Quiet
<1>4. \A c : ~BlockOpening(c)
  BY DEF BlockOpening
<1>5. \A i, st : ~Leaving(i, st)
  BY DEF Leaving
<1>6. \A x \in Names : ~VisitPlainDecl(x)
  BY DEF VisitPlainDecl
<1>7. QED
  BY <1>1, <1>2, <1>3, <1>4, <1>5, <1>6, NextShapes

\* An execution that is not at the current statement, which is in a block, has fewer
\* scopes open than the code has blocks there.
LEMMA OutOfBlock ==
    ASSUME StackInv, HoldInv, ctl # <<>>, Top.k = "compound", ~live
    PROVE  Len(frames) < Len(deferScopes)
<1>1. PICK n \in Nat : n = Len(ctl) /\ n # 0 /\ n \in 1..n /\ Top = ctl[n]
  BY TopFacts
<1>2. PICK p \in 0..n : At(ctl, live, Len(frames), result # 0, p)
  BY <1>1 DEF HoldInv, Where
<1>3. p # n
  <2>1. Rested(Top)
    BY TopHolds
  <2>2. ~Holds(ctl[n])
    BY <1>1, <2>1 DEF Rested, Holds
  <2>3. QED
    BY <1>1, <1>2, <2>2 DEF At
<1>4. p \in Nat /\ p <= n /\ n \in (p + 1)..n
  BY <1>1, <1>2, <1>3
<1>5. ctl[n].k \in Blocks
  BY <1>1 DEF Blocks
<1>6. CountIn(ctl, p, Blocks) < CountIn(ctl, n, Blocks)
  BY <1>1, <1>4, <1>5, CountGrows
<1>7. Len(frames) = CountIn(ctl, p, Blocks) /\ Len(deferScopes) = CountIn(ctl, n, Blocks)
  BY <1>1, <1>2 DEF At, StackInv, Balanced, Levels
<1>8. QED
  BY <1>6, <1>7

LEMMA SkipsUnbraced ==
    ASSUME StackInv, HoldInv, Next, skipped' # skipped
    PROVE  Top.k # "compound"
<1>1. CASE IterateAgain
  BY <1>1 DEF IterateAgain
<1>2. ASSUME NEW x \in Names, VisitDefer(x) \/ VisitStringDecl(x)
      PROVE  Top.k # "compound"
  <2>1. ctl # <<>> /\ Registered
    BY <1>2 DEF VisitDefer, VisitStringDecl, AtStmt, AtDecl
  <2>2. ~live /\ Len(deferScopes) <= Len(frames)
    BY <2>1 DEF Registered, StackInv, RunTypes
  <2>3. PICK n \in Nat : n = Len(frames)
    BY DEF StackInv, RunTypes
  <2>4. PICK m \in Nat : m = Len(deferScopes)
    BY DEF StackInv, Paired
  <2>5. ASSUME Top.k = "compound"
        PROVE  FALSE
    <3>1. Len(frames) < Len(deferScopes)
      BY <2>1, <2>2, <2>5, OutOfBlock
    <3>2. n < m /\ m <= n
      BY <2>2, <2>3, <2>4, <3>1
    <3>3. QED
      BY <2>3, <2>4, <3>2
  <2>6. QED
    BY <2>5
<1>3. QED
  BY <1>1, <1>2, RegisteredSteps

\* Clean-up that an execution runs without having come to its statement, or once
\* though it has come to it in several iterations of a loop, is always that of a
\* statement which is the body of an if or a loop without braces.
THEOREM SkipsAreUnbraced == Spec => OnlyUnbracedSkips
<1>1. Init => StackInv /\ HoldInv
  BY InitStack, InitHold
<1>2. StackInv /\ HoldInv /\ [Next]_vars => StackInv' /\ HoldInv'
  <2>1. StackInv /\ [Next]_vars => StackInv'
    BY StackInvInductive
  <2>2. StackInv /\ HoldInv /\ StackInv' /\ Next => HoldInv'
    BY HoldStep
  <2>3. HoldInv /\ UNCHANGED vars => HoldInv'
    BY HoldIdle
  <2>4. QED
    BY <2>1, <2>2, <2>3
<1>3. StackInv /\ HoldInv /\ [Next]_vars => [skipped' # skipped => Top.k # "compound"]_vars
  BY SkipsUnbraced
<1>4. QED
  BY <1>1, <1>2, <1>3, PTL DEF Spec, OnlyUnbracedSkips

-------------------------------------------------------------------------------
(* What is pending, and what names mean.                                    *)

\* The clean-up on the stack s is of one kind, and each item is of a statement of
\* its own, among the first n.
Numbered(s, kind, n) ==
    /\ \A j \in 1..Len(s) : \A k \in 1..Len(s[j]) : s[j][k].kind = kind /\ s[j][k].id <= n
    /\ \A j, l \in 1..Len(s) : \A k \in 1..Len(s[j]), m \in 1..Len(s[l]) :
          s[j][k].id = s[l][m].id => j = l /\ k = m

\* The release of string v is pending in one of the n outermost blocks.
PendingIn(cs, v, n) == \E j \in 1..n : \E k \in 1..Len(cs[j]) : cs[j][k].var = v

\* Whatever string a name can mean in or around an open statement, its release is
\* pending in a block around that statement ...
ScopesIn(c, sc, strs, cs) ==
    \A f \in 1..Len(c) : \A i \in 1..CountIn(c, f, Scoped) : \A x \in Names :
        sc[i][x] \in strs => PendingIn(cs, sc[i][x], CountIn(c, f, Blocks))

\* ... and that of a string a deferred expression names, in a block around the defer.
DefersIn(ds, cs, strs) ==
    \A j \in 1..Len(ds) : \A k \in 1..Len(ds[j]) :
        ds[j][k].var \in strs => PendingIn(cs, ds[j][k].var, j)

\* A deferred expression emitted where n scopes are open means what it meant, or what
\* was declared after it.
Means(sc, n, it) == \E v : Binds(sc, it.name, n, v) /\ (v = it.var \/ v > it.id)
NamesIn(c, sc, ds) ==
    \A f \in 1..Len(c) : \A j \in 1..CountIn(c, f, Blocks) : \A k \in 1..Len(ds[j]) :
        \/ ds[j][k].bare
        \/ \A n \in CountIn(c, f, Scoped)..Len(sc) : Means(sc, n, ds[j][k])

\* The declarations in sc are among the first n statements.
Earlier(sc, n) == \A i \in 1..Len(sc) : \A x \in Names : sc[i][x] <= n

\* What the generator knows of the first n statements.
Known(sc, ds, cs, strs, n) ==
    /\ Numbered(ds, "defer", n) /\ Numbered(cs, "string", n)
    /\ strs \subseteq 1..n
    /\ \A j \in 1..Len(cs) : \A k \in 1..Len(cs[j]) : cs[j][k].id \in strs
    /\ Earlier(sc, n)
    /\ \A j \in 1..Len(ds) : \A k \in 1..Len(ds[j]) : ds[j][k].var <= n
PendInv ==
    /\ Known(scopes, deferScopes, cleanupScopes, strings, visited)
    /\ ScopesIn(ctl, scopes, strings, cleanupScopes)
    /\ DefersIn(deferScopes, cleanupScopes, strings)
    /\ NamesIn(ctl, scopes, deferScopes)

\* Further blocks are empty.
Sliced(s, r) == \A j \in 1..Len(r) : r[j] = IF j \in 1..Len(s) THEN s[j] ELSE <<>>

\* One scope more at most, for the variables of statement n.
Rescoped(sc, sc2, n) ==
    /\ Len(sc2) <= Len(sc) + 1
    /\ \A i \in 1..Len(sc2) : IF i \in 1..Len(sc) THEN sc2[i] = sc[i]
                                                ELSE sc2[i] \in [Names -> {0, n}]

\* One open statement more at most.
Near(c, d) ==
    /\ Len(d) <= Len(c) + 1
    /\ \A K \in {Blocks, Scoped} : \A g \in 1..Len(d) :
          g <= Len(c) => (d[g].k \in K <=> c[g].k \in K)

LEMMA NearCounts ==
    ASSUME NEW c, Nested(c), Len(c) # 0, NEW d, Nested(d), Near(c, d), NEW g \in 1..Len(d)
    PROVE  \E h \in 1..Len(c) : \A K \in {Blocks, Scoped} :
              /\ CountIn(c, h, K) <= CountIn(d, g, K)
              /\ h = Len(c) \/ CountIn(c, h, K) = CountIn(d, g, K)
<1>1. PICK n \in Nat \ {0} : n = Len(c)
  BY DEF Nested
<1>2. PICK m \in Nat : m = Len(d) /\ m <= n + 1
  BY <1>1 DEF Nested, Near
<1>3. g \in Nat /\ g \in 1..m /\ g <= n + 1
  BY <1>1, <1>2
<1>4. ASSUME NEW K \in {Blocks, Scoped}, NEW h \in 1..n, h <= g
      PROVE  CountIn(c, h, K) = CountIn(d, h, K) /\ CountIn(c, h, K) <= CountIn(d, g, K)
  <2>1. h \in Nat /\ \A i \in 1..h : i \in 1..m /\ i <= n
    BY <1>1, <1>2, <1>3, <1>4
  <2>2. \A i \in 1..h : c[i].k \in K <=> d[i].k \in K
    BY <1>1, <1>2, <2>1 DEF Near
  <2>3. CountIn(c, h, K) = CountIn(d, h, K)
    BY <2>1, <2>2, CountSame
  <2>4. CountIn(d, h, K) <= CountIn(d, g, K)
    BY <1>3, <1>4, <2>1, CountGrows
  <2>5. QED
    BY <2>3, <2>4
<1>5. CASE g <= n
  <2>1. g \in 1..n /\ g <= g
    BY <1>1, <1>3, <1>5
  <2>2. \A K \in {Blocks, Scoped} :
            CountIn(c, g, K) = CountIn(d, g, K) /\ CountIn(c, g, K) <= CountIn(d, g, K)
    BY <1>4, <2>1
  <2>3. QED
    BY <1>1, <2>1, <2>2
<1>6. CASE g = n + 1
  <2>1. n \in 1..n /\ n <= g
    BY <1>1, <1>6
  <2>2. \A K \in {Blocks, Scoped} : CountIn(c, n, K) <= CountIn(d, g, K)
    BY <1>4, <2>1
  <2>3. QED
    BY <1>1, <2>1, <2>2
<1>7. QED
  BY <1>1, <1>3, <1>5, <1>6

LEMMA NumberedSliced ==
    ASSUME NEW s, NEW r, NEW K, NEW n \in Nat, NEW m \in Nat, n <= m, Numbered(s, K, n),
           Sliced(s, r), Len(s) \in Nat, Len(r) \in Nat, s \in Seq(Seq(PendingItem))
    PROVE  Numbered(r, K, m)
<1>1. ASSUME NEW j \in 1..Len(r), NEW k \in 1..Len(r[j])
      PROVE  j \in 1..Len(s) /\ k \in 1..Len(s[j]) /\ r[j] = s[j]
  <2>1. ASSUME j \notin 1..Len(s)
        PROVE  FALSE
    <3>1. Len(r[j]) = 0
      BY <2>1, EmptySeq DEF Sliced
    <3>2. QED
      BY <3>1
  <2>2. QED
    BY <2>1 DEF Sliced
<1>2. ASSUME NEW j \in 1..Len(r), NEW k \in 1..Len(r[j])
      PROVE  r[j][k].kind = K /\ r[j][k].id <= m
  <2>1. j \in 1..Len(s) /\ k \in 1..Len(s[j]) /\ r[j] = s[j]
    BY <1>1
  <2>2. s[j][k].kind = K /\ s[j][k].id <= n
    BY <2>1 DEF Numbered
  <2>3. s[j][k].id \in Nat
    <3>1. s[j] \in Seq(PendingItem)
      BY <2>1, ElementOfSeq
    <3>2. s[j][k] \in PendingItem
      BY <2>1, <3>1, ElementOfSeq
    <3>3. QED
      BY <3>2, BoundsAssumption, SMTT(30) DEF PendingItem, Item, Ids
  <2>4. PICK a \in Nat : a = s[j][k].id
    BY <2>3
  <2>5. a <= m
    <3>1. a <= n
      BY <2>2, <2>4
    <3>2. QED
      BY <3>1
  <2>6. QED
    BY <2>1, <2>2, <2>4, <2>5
<1>3. ASSUME NEW j \in 1..Len(r), NEW l \in 1..Len(r),
             NEW k \in 1..Len(r[j]), NEW i \in 1..Len(r[l]), r[j][k].id = r[l][i].id
      PROVE  j = l /\ k = i
  <2>1. j \in 1..Len(s) /\ k \in 1..Len(s[j]) /\ r[j] = s[j]
    BY <1>1
  <2>2. l \in 1..Len(s) /\ i \in 1..Len(s[l]) /\ r[l] = s[l]
    BY <1>1
  <2>3. QED
    BY <1>3, <2>1, <2>2 DEF Numbered
<1>4. QED
  BY <1>2, <1>3 DEF Numbered

\* The shape of the stacks, and the state of the generator after a step that leaves
\* nothing pending which was not.
Framed(c, sc, ds, cs) ==
    Nested(c) /\ sc \in Scopes /\ Paired(PendingItem, ds, cs) /\ Levels(c, sc, ds)

LEMMA PendingSliced ==
    ASSUME NEW cs, NEW r, Sliced(cs, r), Len(cs) \in Nat, Len(r) \in Nat, NEW v,
           NEW a \in Nat, a <= Len(cs), NEW b \in Nat, b <= Len(r), a <= b,
           PendingIn(cs, v, a)
    PROVE  PendingIn(r, v, b)
<1>1. PICK j \in 1..a : \E k \in 1..Len(cs[j]) : cs[j][k].var = v
  BY DEF PendingIn
<1>2. j \in 1..Len(cs) /\ j \in 1..Len(r) /\ j \in 1..b
  OBVIOUS
<1>3. r[j] = cs[j]
  BY <1>2 DEF Sliced
<1>4. QED
  BY <1>1, <1>2, <1>3 DEF PendingIn

LEMMA MeansKept ==
    ASSUME NEW sc, NEW sc2, NEW n \in Nat, NEW it,
           \A i \in 1..n : sc2[i][it.name] = sc[i][it.name], Means(sc, n, it)
    PROVE  Means(sc2, n, it)
<1>1. PICK v : Binds(sc, it.name, n, v) /\ (v = it.var \/ v > it.id)
  BY DEF Means
<1>2. Binds(sc2, it.name, n, v)
  <2>1. CASE v = 0
    BY <1>1, <2>1 DEF Binds
  <2>2. CASE v # 0
    <3>1. PICK i \in 1..n : /\ sc[i][it.name] = v
                            /\ \A j \in (i + 1)..n : sc[j][it.name] = 0
      BY <1>1, <2>2 DEF Binds
    <3>2. \A j \in (i + 1)..n : j \in 1..n
      OBVIOUS
    <3>3. QED
      BY <2>2, <3>1, <3>2 DEF Binds
  <2>3. QED
    BY <2>1, <2>2
<1>3. QED
  BY <1>1, <1>2 DEF Means

LEMMA MeansNew ==
    ASSUME NEW sc, NEW n \in Nat, NEW m \in Nat, NEW it \in Item, it.id < m,
           sc[n + 1][it.name] \in {0, m}, Means(sc, n, it)
    PROVE  Means(sc, n + 1, it)
<1>1. PICK v : Binds(sc, it.name, n, v) /\ (v = it.var \/ v > it.id)
  BY DEF Means
<1>2. it.id \in Nat
  BY BoundsAssumption DEF Item, Ids
<1>3. CASE sc[n + 1][it.name] = 0
  <2>1. Binds(sc, it.name, n + 1, v)
    <3>1. CASE v = 0
      <4>1. \A i \in 1..(n + 1) : i = n + 1 \/ i \in 1..n
        OBVIOUS
      <4>2. QED
        BY <1>1, <1>3, <3>1, <4>1 DEF Binds
    <3>2. CASE v # 0
      <4>1. PICK i \in 1..n : /\ sc[i][it.name] = v
                              /\ \A j \in (i + 1)..n : sc[j][it.name] = 0
        BY <1>1, <3>2 DEF Binds
      <4>2. \A j \in (i + 1)..(n + 1) : j = n + 1 \/ j \in (i + 1)..n
        OBVIOUS
      <4>3. \A j \in (i + 1)..(n + 1) : sc[j][it.name] = 0
        BY <1>3, <4>1, <4>2
      <4>4. i \in 1..(n + 1)
        OBVIOUS
      <4>5. QED
        BY <3>2, <4>1, <4>3, <4>4 DEF Binds
    <3>3. QED
      BY <3>1, <3>2
  <2>2. QED
    BY <1>1, <2>1 DEF Means
<1>4. CASE sc[n + 1][it.name] = m
  <2>1. m # 0 /\ n + 1 \in 1..(n + 1) /\ \A j \in ((n + 1) + 1)..(n + 1) : FALSE
    BY <1>2
  <2>2. Binds(sc, it.name, n + 1, m)
    BY <1>4, <2>1 DEF Binds
  <2>3. m > it.id
    BY <1>2
  <2>4. QED
    BY <2>2, <2>3 DEF Means
<1>5. QED
  BY <1>3, <1>4

LEMMA ItemOf ==
    ASSUME NEW T, NEW s \in Seq(Seq(T)), NEW j \in 1..Len(s), NEW k \in 1..Len(s[j])
    PROVE  s[j] \in Seq(T) /\ s[j][k] \in T
<1>1. s[j] \in Seq(T)
  BY ElementOfSeq
<1>2. QED
  BY <1>1, ElementOfSeq

LEMMA FramedFacts ==
    ASSUME NEW c, NEW sc, NEW ds, NEW cs, Framed(c, sc, ds, cs)
    PROVE  /\ Nested(c) /\ Len(c) \in Nat /\ sc \in Scopes /\ Len(sc) \in Nat
           /\ ds \in Seq(Seq(PendingItem)) /\ cs \in Seq(Seq(PendingItem))
           /\ Len(ds) \in Nat /\ Len(cs) = Len(ds)
           /\ Len(sc) = CountIn(c, Len(c), Scoped) /\ Len(ds) = CountIn(c, Len(c), Blocks)
           /\ \A f \in 1..Len(c) : /\ CountIn(c, f, Scoped) \in 0..Len(sc)
                                  /\ CountIn(c, f, Blocks) \in 0..Len(ds)
<1>1. Nested(c) /\ Len(c) \in Nat
  BY DEF Framed, Nested
<1>2. /\ ds \in Seq(Seq(PendingItem)) /\ cs \in Seq(Seq(PendingItem)) /\ Len(ds) \in Nat
      /\ Len(cs) = Len(ds)
  BY DEF Framed, Paired
<1>3. sc \in Scopes /\ Len(sc) \in Nat
  BY DEF Framed, Scopes
<1>4. Len(sc) = CountIn(c, Len(c), Scoped) /\ Len(ds) = CountIn(c, Len(c), Blocks)
  BY DEF Framed, Levels
<1>5. ASSUME NEW f \in 1..Len(c), NEW K
      PROVE  CountIn(c, f, K) \in 0..CountIn(c, Len(c), K)
  <2>1. f \in Nat /\ f <= Len(c)
    BY <1>1
  <2>2. PICK a \in Nat : a = CountIn(c, f, K)
    BY <2>1, CountType
  <2>3. PICK b \in Nat : b = CountIn(c, Len(c), K)
    BY <1>1, CountType
  <2>4. a <= b
    BY <1>1, <2>1, <2>2, <2>3, CountGrows
  <2>5. QED
    BY <2>2, <2>3, <2>4
<1>6. QED
  BY <1>1, <1>2, <1>3, <1>4, <1>5

LEMMA KnownMoved ==
    ASSUME NEW c, NEW sc, NEW ds, NEW cs, Framed(c, sc, ds, cs),
           NEW d, NEW sc2, NEW ds2, NEW cs2, Framed(d, sc2, ds2, cs2),
           NEW n \in Nat, NEW m \in Nat, n <= m,
           Sliced(ds, ds2), Sliced(cs, cs2), Rescoped(sc, sc2, m),
           NEW strs, Known(sc, ds, cs, strs, n)
    PROVE  Known(sc2, ds2, cs2, strs, m)
<1>1. /\ ds \in Seq(Seq(PendingItem)) /\ cs \in Seq(Seq(PendingItem)) /\ sc \in Scopes
      /\ Len(ds2) \in Nat /\ Len(cs2) \in Nat /\ Len(ds) \in Nat /\ Len(cs) \in Nat
  BY DEF Framed, Paired
<1>2. Numbered(ds, "defer", n) /\ Numbered(cs, "string", n)
  BY DEF Known
<1>3. Numbered(ds2, "defer", m) /\ Numbered(cs2, "string", m)
  BY <1>1, <1>2, NumberedSliced
<1>4. strs \subseteq 1..m
  BY DEF Known
<1>5. ASSUME NEW j \in 1..Len(cs2), NEW k \in 1..Len(cs2[j])
      PROVE  cs2[j][k].id \in strs
  <2>1. CASE j \in 1..Len(cs)
    <3>1. cs2[j] = cs[j]
      BY <2>1 DEF Sliced
    <3>2. QED
      BY <2>1, <3>1 DEF Known
  <2>2. CASE j \notin 1..Len(cs)
    <3>1. Len(cs2[j]) = 0
      BY <2>2, EmptySeq DEF Sliced
    <3>2. QED
      BY <3>1
  <2>3. QED
    BY <2>1, <2>2
<1>6. ASSUME NEW i \in 1..Len(sc2), NEW x \in Names
      PROVE  sc2[i][x] <= m
  <2>1. CASE i \in 1..Len(sc)
    <3>1. sc2[i] = sc[i]
      BY <2>1 DEF Rescoped
    <3>2. sc[i][x] <= n
      BY <2>1 DEF Known, Earlier
    <3>3. sc[i] \in [Names -> 0..MaxStmts]
      BY <1>1, <2>1, ElementOfSeq DEF Scopes
    <3>4. sc[i][x] \in Nat
      BY <3>3, BoundsAssumption
    <3>5. QED
      BY <3>1, <3>2, <3>4
  <2>2. CASE i \notin 1..Len(sc)
    <3>1. sc2[i] \in [Names -> {0, m}]
      BY <2>2 DEF Rescoped
    <3>2. sc2[i][x] = 0 \/ sc2[i][x] = m
      BY <3>1
    <3>3. QED
      BY <3>2
  <2>3. QED
    BY <2>1, <2>2
<1>7. ASSUME NEW j \in 1..Len(ds2), NEW k \in 1..Len(ds2[j])
      PROVE  ds2[j][k].var <= m
  <2>1. CASE j \in 1..Len(ds)
    <3>1. ds2[j] = ds[j]
      BY <2>1 DEF Sliced
    <3>2. ds[j][k].var <= n /\ k \in 1..Len(ds[j])
      BY <2>1, <3>1 DEF Known
    <3>3. ds[j][k] \in PendingItem
      BY <1>1, <2>1, <3>2, ItemOf
    <3>4. PICK a \in Nat : a = ds[j][k].var
      BY <3>3, BoundsAssumption DEF PendingItem, Item
    <3>5. a <= m
      <4>1. a <= n
        BY <3>2, <3>4
      <4>2. QED
        BY <4>1
    <3>6. QED
      BY <3>1, <3>4, <3>5
  <2>2. CASE j \notin 1..Len(ds)
    <3>1. Len(ds2[j]) = 0
      BY <2>2, EmptySeq DEF Sliced
    <3>2. QED
      BY <3>1
  <2>3. QED
    BY <2>1, <2>2
<1>8. QED
  BY <1>3, <1>4, <1>5, <1>6, <1>7 DEF Known, Earlier

LEMMA ScopesMoved ==
    ASSUME NEW c, NEW sc, NEW ds, NEW cs, Framed(c, sc, ds, cs), Len(c) # 0,
           NEW d, NEW sc2, NEW ds2, NEW cs2, Framed(d, sc2, ds2, cs2), Near(c, d),
           NEW n \in Nat, NEW m \in Nat, Len(sc2) > Len(sc) => n < m,
           Sliced(cs, cs2), Rescoped(sc, sc2, m),
           NEW strs, strs \subseteq 1..n, ScopesIn(c, sc, strs, cs)
    PROVE  ScopesIn(d, sc2, strs, cs2)
<1>1. SUFFICES ASSUME NEW f \in 1..Len(d), NEW i \in 1..CountIn(d, f, Scoped),
                      NEW x \in Names, sc2[i][x] \in strs
               PROVE  PendingIn(cs2, sc2[i][x], CountIn(d, f, Blocks))
  BY DEF ScopesIn
<1>2. PICK ls \in Nat, lb \in Nat :
          /\ ls = Len(sc) /\ lb = Len(cs) /\ ls = CountIn(c, Len(c), Scoped)
          /\ \A h \in 1..Len(c) : CountIn(c, h, Scoped) \in 0..ls /\ CountIn(c, h, Blocks) \in 0..lb
  BY FramedFacts
<1>3. PICK ls2 \in Nat, lb2 \in Nat :
          /\ ls2 = Len(sc2) /\ lb2 = Len(cs2)
          /\ \A g \in 1..Len(d) :
                CountIn(d, g, Scoped) \in 0..ls2 /\ CountIn(d, g, Blocks) \in 0..lb2
  BY FramedFacts
<1>4. PICK q \in 0..ls2, b \in 0..lb2 : q = CountIn(d, f, Scoped) /\ b = CountIn(d, f, Blocks)
  BY <1>3
<1>5. i \in Nat /\ i \in 1..q /\ i \in 1..ls2
  BY <1>4
<1>6. i \in 1..ls /\ sc2[i] = sc[i]
  <2>1. ASSUME i \notin 1..ls
        PROVE  FALSE
    <3>1. sc2[i] \in [Names -> {0, m}]
      BY <1>2, <1>3, <1>5, <2>1 DEF Rescoped
    <3>2. ls2 > ls
      BY <1>5, <2>1
    <3>3. (sc2[i][x] = 0 \/ sc2[i][x] = m) /\ n < m
      BY <1>2, <1>3, <3>1, <3>2
    <3>4. 0 \notin 1..n /\ m \notin 1..n
      BY <3>3
    <3>5. QED
      BY <1>1, <3>3, <3>4
  <2>2. QED
    BY <1>2, <1>3, <1>5, <2>1 DEF Rescoped
<1>7. PICK h \in 1..Len(c) : \A K \in {Blocks, Scoped} :
          /\ CountIn(c, h, K) <= CountIn(d, f, K)
          /\ h = Len(c) \/ CountIn(c, h, K) = CountIn(d, f, K)
  BY NearCounts, FramedFacts
<1>8. PICK hs \in 0..ls, hb \in 0..lb :
          /\ hs = CountIn(c, h, Scoped) /\ hb = CountIn(c, h, Blocks)
          /\ hb <= b /\ (hs = ls \/ hs = q)
  BY <1>2, <1>4, <1>7
<1>9. i \in 1..hs
  BY <1>5, <1>6, <1>8
<1>10. PendingIn(cs, sc2[i][x], hb)
  BY <1>1, <1>6, <1>8, <1>9 DEF ScopesIn
<1>11. /\ Len(cs) \in Nat /\ Len(cs2) \in Nat /\ hb \in Nat /\ b \in Nat
       /\ hb <= Len(cs) /\ b <= Len(cs2) /\ hb <= b
  BY <1>2, <1>3, <1>4, <1>8
<1>12. PendingIn(cs2, sc2[i][x], b)
  BY <1>10, <1>11, PendingSliced
<1>13. QED
  BY <1>4, <1>12

LEMMA DefersMoved ==
    ASSUME NEW c, NEW sc, NEW ds, NEW cs, Framed(c, sc, ds, cs),
           NEW d, NEW sc2, NEW ds2, NEW cs2, Framed(d, sc2, ds2, cs2),
           Sliced(ds, ds2), Sliced(cs, cs2), NEW strs, DefersIn(ds, cs, strs)
    PROVE  DefersIn(ds2, cs2, strs)
<1>1. SUFFICES ASSUME NEW j \in 1..Len(ds2), NEW k \in 1..Len(ds2[j]),
                      ds2[j][k].var \in strs
               PROVE  PendingIn(cs2, ds2[j][k].var, j)
  BY DEF DefersIn
<1>2. /\ Len(ds) = Len(cs) /\ Len(ds2) = Len(cs2) /\ Len(ds) \in Nat /\ Len(ds2) \in Nat
  BY DEF Framed, Paired
<1>3. j \in 1..Len(ds) /\ ds2[j] = ds[j]
  <2>1. ASSUME j \notin 1..Len(ds)
        PROVE  FALSE
    <3>1. Len(ds2[j]) = 0
      BY <2>1, EmptySeq DEF Sliced
    <3>2. QED
      BY <3>1
  <2>2. QED
    BY <2>1 DEF Sliced
<1>4. PendingIn(cs, ds2[j][k].var, j)
  BY <1>1, <1>3 DEF DefersIn
<1>5. j \in Nat /\ j <= Len(cs) /\ j <= Len(cs2) /\ j <= j
  BY <1>2, <1>3
<1>6. QED
  BY <1>2, <1>4, <1>5, PendingSliced

LEMMA NamesMoved ==
    ASSUME NEW c, NEW sc, NEW ds, NEW cs, Framed(c, sc, ds, cs), Len(c) # 0,
           NEW d, NEW sc2, NEW ds2, NEW cs2, Framed(d, sc2, ds2, cs2), Near(c, d),
           NEW n \in Nat, NEW m \in Nat, Len(sc2) > Len(sc) => n < m,
           Sliced(ds, ds2), Rescoped(sc, sc2, m),
           Numbered(ds, "defer", n), NamesIn(c, sc, ds)
    PROVE  NamesIn(d, sc2, ds2)
<1>1. SUFFICES ASSUME NEW f \in 1..Len(d), NEW j \in 1..CountIn(d, f, Blocks),
                      NEW k \in 1..Len(ds2[j]), ~ds2[j][k].bare,
                      NEW b \in CountIn(d, f, Scoped)..Len(sc2)
               PROVE  Means(sc2, b, ds2[j][k])
  BY DEF NamesIn
<1>2. PICK ls \in Nat, lb \in Nat :
          /\ ls = Len(sc) /\ lb = Len(ds) /\ ds \in Seq(Seq(PendingItem))
          /\ ls = CountIn(c, Len(c), Scoped) /\ lb = CountIn(c, Len(c), Blocks)
          /\ \A h \in 1..Len(c) : CountIn(c, h, Scoped) \in 0..ls /\ CountIn(c, h, Blocks) \in 0..lb
  BY FramedFacts, SMTT(30)
<1>3. PICK ls2 \in Nat, lb2 \in Nat :
          /\ ls2 = Len(sc2) /\ lb2 = Len(ds2)
          /\ \A g \in 1..Len(d) :
                CountIn(d, g, Scoped) \in 0..ls2 /\ CountIn(d, g, Blocks) \in 0..lb2
  BY FramedFacts
<1>4. PICK q \in 0..ls2, p \in 0..lb2 : q = CountIn(d, f, Scoped) /\ p = CountIn(d, f, Blocks)
  BY <1>3
<1>5. j \in Nat /\ j \in 1..p /\ j \in 1..lb2
  BY <1>4
<1>6. j \in 1..lb /\ ds2[j] = ds[j]
  <2>1. ASSUME j \notin 1..lb
        PROVE  FALSE
    <3>1. Len(ds2[j]) = 0
      BY <1>2, <1>3, <1>5, <2>1, EmptySeq DEF Sliced
    <3>2. QED
      BY <3>1
  <2>2. QED
    BY <1>2, <1>3, <1>5, <2>1 DEF Sliced
<1>7. PICK it \in Item : /\ it = ds2[j][k] /\ it = ds[j][k] /\ it.id <= n
                         /\ k \in 1..Len(ds[j]) /\ ~it.bare
  <2>1. ds[j][k] \in Item /\ k \in 1..Len(ds[j])
    BY <1>2, <1>6, ItemOf DEF PendingItem
  <2>2. ds[j][k].id <= n
    BY <1>2, <1>6, <2>1 DEF Numbered
  <2>3. QED
    BY <1>1, <1>6, <2>1, <2>2
<1>8. PICK h \in 1..Len(c) : \A K \in {Blocks, Scoped} :
          /\ CountIn(c, h, K) <= CountIn(d, f, K)
          /\ h = Len(c) \/ CountIn(c, h, K) = CountIn(d, f, K)
  BY NearCounts, FramedFacts
<1>9. PICK a \in 0..ls, hb \in 0..lb :
          /\ a = CountIn(c, h, Scoped) /\ hb = CountIn(c, h, Blocks)
          /\ a <= q /\ (hb = lb \/ hb = p)
  BY <1>2, <1>4, <1>8
<1>10. j \in 1..hb
  BY <1>5, <1>6, <1>9
<1>11. \A e \in a..ls : Means(sc, e, it)
  <2>1. ds[j][k].bare \/ \A e \in CountIn(c, h, Scoped)..Len(sc) : Means(sc, e, ds[j][k])
    BY <1>7, <1>9, <1>10 DEF NamesIn
  <2>2. QED
    BY <1>2, <1>7, <1>9, <2>1
<1>12. b \in q..ls2 /\ b \in Nat /\ a <= b
  <2>1. b \in q..ls2
    BY <1>3, <1>4
  <2>2. a <= q
    BY <1>9
  <2>3. \A e \in q..ls2 : e \in Nat /\ a <= e
    BY <2>2
  <2>4. QED
    BY <2>1, <2>3
<1>13. ASSUME NEW e \in Nat, a <= e, e <= ls, e <= ls2
       PROVE  Means(sc2, e, it)
  <2>1. Means(sc, e, it)
    BY <1>11, <1>13
  <2>2. \A i \in 1..e : i \in 1..ls /\ i \in 1..ls2
    BY <1>13
  <2>3. \A i \in 1..e : sc2[i] = sc[i]
    BY <1>2, <1>3, <2>2 DEF Rescoped
  <2>4. \A i \in 1..e : sc2[i][it.name] = sc[i][it.name]
    BY <2>3
  <2>5. QED
    BY <2>1, <2>4, MeansKept
<1>14. CASE b <= ls
  <2>1. Means(sc2, b, it)
    BY <1>12, <1>13, <1>14
  <2>2. QED
    BY <1>7, <2>1
<1>15. CASE b > ls
  <2>1. ls2 <= ls + 1
    BY <1>2, <1>3 DEF Rescoped
  <2>2. b = ls + 1 /\ ls < ls2 /\ ls + 1 \in 1..ls2 /\ ls + 1 \notin 1..ls /\ a <= ls
    BY <1>9, <1>12, <1>15, <2>1
  <2>3. Means(sc2, ls, it)
    BY <1>13, <2>2
  <2>4. n < m
    BY <1>2, <1>3, <2>2
  <2>5. sc2[ls + 1] \in [Names -> {0, m}]
    BY <1>2, <1>3, <2>2 DEF Rescoped
  <2>6. sc2[ls + 1][it.name] \in {0, m}
    BY <2>5 DEF Item
  <2>7. it.id < m
    BY <1>7, <2>4, BoundsAssumption, SMTT(30) DEF Item, Ids
  <2>8. Means(sc2, ls + 1, it)
    BY <2>3, <2>6, <2>7, MeansNew
  <2>9. QED
    BY <1>7, <2>2, <2>8
<1>16. QED
  BY <1>12, <1>14, <1>15

\* A step that leaves nothing pending which was not.
LEMMA PendMoved ==
    ASSUME StackInv, PendInv, StackInv', ctl # <<>>, Near(ctl, ctl'),
           Sliced(deferScopes, deferScopes'), Sliced(cleanupScopes, cleanupScopes'),
           Rescoped(scopes, scopes', visited'), strings' = strings,
           visited' \in {visited, visited + 1},
           Len(scopes') > Len(scopes) => visited' = visited + 1
    PROVE  PendInv'
<1>1. PICK c, sc, ds, cs : c = ctl /\ sc = scopes /\ ds = deferScopes /\ cs = cleanupScopes
  OBVIOUS
<1>2. PICK d, sc2, ds2, cs2 :
          d = ctl' /\ sc2 = scopes' /\ ds2 = deferScopes' /\ cs2 = cleanupScopes'
  OBVIOUS
<1>3. PICK n \in Nat, m \in Nat : n = visited /\ m = visited'
  BY BoundsAssumption DEF StackInv, GenTypes
<1>4. PICK strs : strs = strings
  OBVIOUS
<1>5. Framed(c, sc, ds, cs) /\ Len(c) # 0
  <2>1. Framed(ctl, scopes, deferScopes, cleanupScopes)
    BY DEF StackInv, Balanced, GenTypes, Framed
  <2>2. Len(ctl) # 0
    BY TopFacts
  <2>3. QED
    BY <1>1, <2>1, <2>2
<1>6. Framed(d, sc2, ds2, cs2)
  BY <1>2 DEF StackInv, Balanced, GenTypes, Framed
<1>7. n <= m /\ (Len(sc2) > Len(sc) => n < m)
  BY <1>1, <1>2, <1>3
<1>8. Near(c, d) /\ Sliced(ds, ds2) /\ Sliced(cs, cs2) /\ Rescoped(sc, sc2, m)
  BY <1>1, <1>2, <1>3
<1>9. /\ Known(sc, ds, cs, strs, n) /\ ScopesIn(c, sc, strs, cs) /\ DefersIn(ds, cs, strs)
      /\ NamesIn(c, sc, ds)
  BY <1>1, <1>3, <1>4 DEF PendInv
<1>10. strs \subseteq 1..n /\ Numbered(ds, "defer", n)
  BY <1>9 DEF Known
<1>11. Known(sc2, ds2, cs2, strs, m)
  BY <1>5, <1>6, <1>7, <1>8, <1>9, KnownMoved
<1>12. ScopesIn(d, sc2, strs, cs2)
  BY <1>5, <1>6, <1>7, <1>8, <1>9, <1>10, ScopesMoved
<1>13. DefersIn(ds2, cs2, strs)
  BY <1>5, <1>6, <1>8, <1>9, DefersMoved
<1>14. NamesIn(d, sc2, ds2)
  BY <1>5, <1>6, <1>7, <1>8, <1>9, <1>10, NamesMoved
<1>15. strs = strings'
  BY <1>4
<1>16. QED
  BY <1>2, <1>3, <1>11, <1>12, <1>13, <1>14, <1>15 DEF PendInv

\* A statement that declares or defers something is in a block.
LEMMA InBlock ==
    ASSUME StackInv, HoldInv, AtDecl
    PROVE  /\ ctl # <<>> /\ Len(ctl) \in Nat \ {0} /\ Nested(ctl)
           /\ Len(deferScopes) \in Nat \ {0} /\ Len(scopes) \in Nat \ {0}
           /\ Len(cleanupScopes) = Len(deferScopes)
           /\ CountIn(ctl, Len(ctl), Blocks) = Len(deferScopes)
           /\ CountIn(ctl, Len(ctl), Scoped) = Len(scopes)
<1>1. ctl # <<>>
  BY DEF AtDecl, AtStmt
<1>2. Rested(Top)
  BY <1>1, TopHolds
<1>3. Top.k # "fn"
  BY <1>2 DEF AtDecl, AtStmt, Rested
<1>4. PICK n \in Nat \ {0} : n = Len(ctl) /\ n # 1 /\ Nested(ctl)
  BY <1>1, <1>3, TopFacts
<1>5. Len(ctl) > 1
  <2>1. n > 1
    BY <1>4
  <2>2. QED
    BY <1>4, <2>1
<1>6. Len(deferScopes) \in Nat \ {0} /\ Len(scopes) \in Nat \ {0}
  BY <1>1, <1>5, TopFacts
<1>7. QED
  BY <1>1, <1>4, <1>6 DEF StackInv, Balanced, Levels, Paired

\* The stack s with one item more in the innermost block.
Added(s, r, it) ==
    /\ Len(r) = Len(s)
    /\ \A j \in 1..Len(s) : j # Len(s) => r[j] = s[j]
    /\ Len(r[Len(s)]) = Len(s[Len(s)]) + 1
    /\ r[Len(s)][Len(s[Len(s)]) + 1] = it
    /\ \A k \in 1..Len(s[Len(s)]) : r[Len(s)][k] = s[Len(s)][k]

LEMMA AddToAdds ==
    ASSUME NEW T, NEW s \in Seq(Seq(T)), Len(s) # 0, NEW it \in T, NEW r, r = AddTo(s, it)
    PROVE  Added(s, r, it)
<1>1. PICK n \in Nat \ {0} : n = Len(s) /\ n \in 1..n
  <2>1. Len(s) \in Nat \ {0}
    OBVIOUS
  <2>2. QED
    BY <2>1
<1>2. PICK w \in Seq(T) : w = s[n]
  BY <1>1, ElementOfSeq
<1>3. PICK u : u = Append(w, it)
  OBVIOUS
<1>4. /\ u \in Seq(T) /\ Len(u) = Len(w) + 1 /\ u[Len(w) + 1] = it
      /\ \A k \in 1..Len(w) : u[k] = w[k]
  BY <1>3, AppendProperties
<1>5. r = [s EXCEPT ![n] = u]
  <2>1. s # <<>>
    BY EmptySeq
  <2>2. QED
    BY <1>1, <1>2, <1>3, <2>1 DEF AddTo
<1>6. Len(r) = n /\ \A i \in 1..n : r[i] = IF i = n THEN u ELSE s[i]
  BY <1>1, <1>4, <1>5, ExceptSeq
<1>7. QED
  BY <1>1, <1>2, <1>4, <1>6 DEF Added

\* Where the items of r are.
LEMMA AddedItems ==
    ASSUME NEW T, NEW s \in Seq(Seq(T)), Len(s) # 0, NEW it, NEW r, Added(s, r, it)
    PROVE  /\ \A j \in 1..Len(s) : \A k \in 1..Len(s[j]) :
                 k \in 1..Len(r[j]) /\ r[j][k] = s[j][k]
           /\ \A j \in 1..Len(s) : \A k \in 1..Len(r[j]) :
                 \/ k \in 1..Len(s[j]) /\ r[j][k] = s[j][k]
                 \/ j = Len(s) /\ k = Len(s[j]) + 1 /\ r[j][k] = it
           /\ \E k \in 1..Len(r[Len(s)]) : r[Len(s)][k] = it
<1>1. PICK n \in Nat \ {0} : n = Len(s) /\ n \in 1..n
  <2>1. Len(s) \in Nat \ {0}
    OBVIOUS
  <2>2. QED
    BY <2>1
<1>2. PICK w \in Seq(T) : w = s[n]
  BY <1>1, ElementOfSeq
<1>3. PICK a \in Nat : a = Len(w)
  OBVIOUS
<1>4. /\ \A j \in 1..n : j # n => r[j] = s[j]
      /\ Len(r[n]) = a + 1 /\ r[n][a + 1] = it /\ \A k \in 1..a : r[n][k] = w[k]
  BY <1>1, <1>2, <1>3 DEF Added
<1>5. ASSUME NEW j \in 1..n, NEW k \in 1..Len(s[j])
      PROVE  k \in 1..Len(r[j]) /\ r[j][k] = s[j][k]
  <2>1. CASE j = n
    <3>1. k \in 1..a /\ k \in 1..(a + 1)
      BY <1>2, <1>3, <2>1
    <3>2. QED
      BY <1>2, <1>4, <2>1, <3>1
  <2>2. CASE j # n
    BY <1>4, <2>2
  <2>3. QED
    BY <2>1, <2>2
<1>6. ASSUME NEW j \in 1..n, NEW k \in 1..Len(r[j])
      PROVE  \/ k \in 1..Len(s[j]) /\ r[j][k] = s[j][k]
             \/ j = n /\ k = Len(s[j]) + 1 /\ r[j][k] = it
  <2>1. CASE j = n
    <3>1. k = a + 1 \/ k \in 1..a
      BY <1>4, <2>1
    <3>2. QED
      BY <1>2, <1>3, <1>4, <2>1, <3>1
  <2>2. CASE j # n
    BY <1>4, <2>2
  <2>3. QED
    BY <2>1, <2>2
<1>7. a + 1 \in 1..(a + 1)
  BY <1>3
<1>8. \E k \in 1..Len(r[n]) : r[n][k] = it
  BY <1>4, <1>7
<1>9. QED
  BY <1>1, <1>5, <1>6, <1>8

LEMMA IdFacts ==
    ASSUME NEW a \in Ids
    PROVE  a \in Nat \ {0}
BY BoundsAssumption DEF Ids

LEMMA NumberedAdded ==
    ASSUME NEW s \in Seq(Seq(PendingItem)), Len(s) # 0, NEW K, NEW n \in Nat,
           Numbered(s, K, n), NEW it, it.kind = K, it.id = n + 1,
           NEW r, Added(s, r, it)
    PROVE  Numbered(r, K, n + 1)
<1>1. /\ Len(r) = Len(s)
      /\ \A j \in 1..Len(s) : \A k \in 1..Len(r[j]) :
            \/ k \in 1..Len(s[j]) /\ r[j][k] = s[j][k]
            \/ j = Len(s) /\ k = Len(s[j]) + 1 /\ r[j][k] = it
  BY AddedItems, SMTT(30) DEF Added
<1>2. ASSUME NEW j \in 1..Len(s), NEW k \in 1..Len(s[j])
      PROVE  s[j][k].kind = K /\ s[j][k].id \in 1..n
  <2>1. s[j][k] \in PendingItem
    BY ItemOf
  <2>2. s[j][k].id \in Nat \ {0}
    <3>1. s[j][k].id \in Ids
      BY <2>1 DEF PendingItem, Item
    <3>2. QED
      BY <3>1, IdFacts
  <2>3. s[j][k].kind = K /\ s[j][k].id <= n
    BY DEF Numbered
  <2>4. PICK a \in Nat \ {0} : a = s[j][k].id
    BY <2>2
  <2>5. a <= n
    BY <2>3, <2>4
  <2>6. a \in 1..n
    BY <2>5
  <2>7. QED
    BY <2>3, <2>4, <2>6
<1>3. \A a \in 1..n : a <= n + 1 /\ a # n + 1
  OBVIOUS
<1>4. n + 1 <= n + 1
  OBVIOUS
<1>5. ASSUME NEW j \in 1..Len(s), NEW k \in 1..Len(r[j])
      PROVE  r[j][k].kind = K /\ r[j][k].id <= n + 1
  BY <1>1, <1>2, <1>3, <1>4
<1>6. ASSUME NEW j \in 1..Len(s), NEW l \in 1..Len(s),
             NEW k \in 1..Len(r[j]), NEW i \in 1..Len(r[l]), r[j][k].id = r[l][i].id
      PROVE  j = l /\ k = i
  <2>1. CASE (k \in 1..Len(s[j]) /\ r[j][k] = s[j][k]) /\ (i \in 1..Len(s[l]) /\ r[l][i] = s[l][i])
    <3>1. s[j][k].id = s[l][i].id
      BY <1>6, <2>1
    <3>2. k \in 1..Len(s[j]) /\ i \in 1..Len(s[l])
      BY <2>1
    <3>3. \A e \in 1..Len(s[j]), g \in 1..Len(s[l]) : s[j][e].id = s[l][g].id => j = l /\ e = g
      BY DEF Numbered
    <3>4. QED
      BY <3>1, <3>2, <3>3
  <2>2. CASE k \in 1..Len(s[j]) /\ r[j][k] = s[j][k] /\ r[l][i] = it
    BY <1>2, <1>3, <1>6, <2>2
  <2>3. CASE i \in 1..Len(s[l]) /\ r[l][i] = s[l][i] /\ r[j][k] = it
    BY <1>2, <1>3, <1>6, <2>3
  <2>4. CASE (j = Len(s) /\ k = Len(s[j]) + 1) /\ (l = Len(s) /\ i = Len(s[l]) + 1)
    BY <2>4
  <2>5. QED
    BY <1>1, <2>1, <2>2, <2>3, <2>4
<1>7. QED
  BY <1>1, <1>5, <1>6 DEF Numbered

LEMMA PendingMore ==
    ASSUME NEW cs \in Seq(Seq(PendingItem)), Len(cs) # 0, NEW it, NEW r, Added(cs, r, it)
    PROVE  /\ \A v : \A a \in Nat : a <= Len(cs) /\ PendingIn(cs, v, a) => PendingIn(r, v, a)
           /\ PendingIn(r, it.var, Len(cs))
<1>1. PICK n \in Nat \ {0} : n = Len(cs) /\ n \in 1..n
  <2>1. Len(cs) \in Nat \ {0}
    OBVIOUS
  <2>2. QED
    BY <2>1
<1>2. /\ \A j \in 1..n : \A k \in 1..Len(cs[j]) : k \in 1..Len(r[j]) /\ r[j][k] = cs[j][k]
      /\ \E k \in 1..Len(r[n]) : r[n][k] = it
  BY <1>1, AddedItems
<1>3. ASSUME NEW v, NEW a \in Nat, a <= n, PendingIn(cs, v, a)
      PROVE  PendingIn(r, v, a)
  <2>1. PICK j \in 1..a : \E k \in 1..Len(cs[j]) : cs[j][k].var = v
    BY <1>3 DEF PendingIn
  <2>2. j \in 1..n
    BY <1>3
  <2>3. QED
    BY <1>2, <2>1, <2>2 DEF PendingIn
<1>4. PendingIn(r, it.var, n)
  BY <1>1, <1>2 DEF PendingIn
<1>5. QED
  BY <1>1, <1>3, <1>4

LEMMA SlicedSelf ==
    ASSUME NEW s, Len(s) \in Nat, NEW m
    PROVE  Sliced(s, s) /\ Rescoped(s, s, m)
BY DEF Sliced, Rescoped

LEMMA KindsNear ==
    ASSUME NEW c, Nested(c), NEW d, SameKinds(c, d)
    PROVE  Near(c, d)
<1>1. PICK n \in Nat : n = Len(c) /\ n = Len(d)
  BY DEF Nested, SameKinds
<1>2. Blocks \in Counted /\ Scoped \in Counted
  BY DEF Counted
<1>3. \A K \in {Blocks, Scoped} : \A i \in 1..n : d[i].k \in K <=> c[i].k \in K
  <2>1. \A i \in 1..Len(c) : d[i].k \in Blocks <=> c[i].k \in Blocks
    BY <1>2, KeptCounts
  <2>2. \A i \in 1..Len(c) : d[i].k \in Scoped <=> c[i].k \in Scoped
    BY <1>2, KeptCounts
  <2>3. QED
    BY <1>1, <2>1, <2>2
<1>4. n <= n + 1
  OBVIOUS
<1>5. QED
  BY <1>1, <1>3, <1>4 DEF Near

\* In an innermost scope there is no further block; around the innermost block there
\* are fewer blocks.
LEMMA InnermostScope ==
    ASSUME NEW c, Nested(c), NEW f \in 1..Len(c)
    PROVE  /\ CountIn(c, f, Scoped) = CountIn(c, Len(c), Scoped)
                => CountIn(c, f, Blocks) = CountIn(c, Len(c), Blocks)
           /\ c[Len(c)].k \in Blocks /\ CountIn(c, f, Blocks) = CountIn(c, Len(c), Blocks)
                => f = Len(c)
<1>1. PICK n \in Nat : n = Len(c)
  BY DEF Nested
<1>2. f \in Nat /\ f \in 1..n /\ f <= n
  BY <1>1
<1>3. PICK a \in Nat, b \in Nat : a = CountIn(c, f, Scoped) /\ b = CountIn(c, n, Scoped)
  BY <1>2, CountType
<1>4. PICK p \in Nat, q \in Nat : p = CountIn(c, f, Blocks) /\ q = CountIn(c, n, Blocks)
  BY <1>2, CountType
<1>5. ASSUME a = b
      PROVE  p = q
  <2>1. \A i \in (f + 1)..n : c[i].k \in Scoped => a < b
    BY <1>2, <1>3, CountGrows
  <2>2. \A i \in (f + 1)..n : c[i].k \notin Blocks
    BY <1>3, <1>5, <2>1 DEF Blocks, Scoped
  <2>3. PICK S : S = {i \in 1..f : c[i].k \in Blocks}
    OBVIOUS
  <2>4. S = {i \in 1..n : c[i].k \in Blocks}
    <3>1. \A i \in 1..n : i \in 1..f \/ i \in (f + 1)..n
      BY <1>2
    <3>2. \A i \in 1..f : i \in 1..n
      BY <1>2
    <3>3. QED
      BY <2>2, <2>3, <3>1, <3>2
  <2>5. QED
    BY <1>4, <2>3, <2>4 DEF CountIn
<1>6. ASSUME c[n].k \in Blocks, p = q
      PROVE  f = n
  <2>1. \A i \in (f + 1)..n : c[i].k \in Blocks => p < q
    BY <1>2, <1>4, CountGrows
  <2>2. ~(p < q)
    BY <1>4, <1>6
  <2>3. n \notin (f + 1)..n
    BY <1>6, <2>1, <2>2
  <2>4. QED
    BY <1>1, <1>2, <2>3
<1>7. QED
  BY <1>1, <1>3, <1>4, <1>5, <1>6

\* A name whose meaning is known at all the open scopes.
LEMMA BindsKnown ==
    ASSUME NEW sc \in Scopes, NEW x \in Names, NEW v, Binds(sc, x, Len(sc), v),
           NEW n \in Nat, Earlier(sc, n)
    PROVE  v \in Nat /\ v <= n /\ (v = 0 \/ \E i \in 1..Len(sc) : sc[i][x] = v)
<1>1. CASE v = 0
  BY <1>1
<1>2. CASE v # 0
  <2>1. PICK i \in 1..Len(sc) : sc[i][x] = v
    BY <1>2 DEF Binds
  <2>2. sc[i] \in [Names -> 0..MaxStmts]
    BY ElementOfSeq DEF Scopes
  <2>3. sc[i][x] \in Nat
    BY <2>2, BoundsAssumption
  <2>4. QED
    BY <2>1, <2>3 DEF Earlier
<1>3. QED
  BY <1>1, <1>2

LEMMA DeferPends ==
    ASSUME NEW c, NEW sc, NEW ds, NEW cs, Framed(c, sc, ds, cs), Len(c) # 0, Len(ds) # 0,
           NEW d, SameKinds(c, d), NEW ds2, Framed(d, sc, ds2, cs),
           NEW n \in Nat, NEW strs, Known(sc, ds, cs, strs, n), ScopesIn(c, sc, strs, cs),
           DefersIn(ds, cs, strs), NamesIn(c, sc, ds),
           NEW it \in PendingItem, Added(ds, ds2, it), it.kind = "defer", it.id = n + 1,
           Binds(sc, it.name, Len(sc), it.var), it.bare \/ c[Len(c)].k \in Blocks
    PROVE  /\ Known(sc, ds2, cs, strs, n + 1) /\ ScopesIn(d, sc, strs, cs)
           /\ DefersIn(ds2, cs, strs) /\ NamesIn(d, sc, ds2)
<1>1. PICK ls \in Nat, lb \in Nat :
          /\ ls = Len(sc) /\ lb = Len(ds) /\ lb = Len(cs) /\ ds \in Seq(Seq(PendingItem))
          /\ cs \in Seq(Seq(PendingItem)) /\ sc \in Scopes /\ Nested(c) /\ Len(c) \in Nat
          /\ ls = CountIn(c, Len(c), Scoped) /\ lb = CountIn(c, Len(c), Blocks)
          /\ \A h \in 1..Len(c) : CountIn(c, h, Scoped) \in 0..ls /\ CountIn(c, h, Blocks) \in 0..lb
  BY FramedFacts
<1>2. n <= n + 1 /\ n + 1 \in Nat /\ Len(c) \in 1..Len(c) /\ lb \in 1..lb
  BY <1>1
<1>3. Sliced(cs, cs) /\ Rescoped(sc, sc, n + 1) /\ Near(c, d) /\ ~(Len(sc) > Len(sc))
  <2>1. Sliced(cs, cs)
    BY <1>1, SlicedSelf
  <2>2. Rescoped(sc, sc, n + 1) /\ ~(Len(sc) > Len(sc))
    <3>1. Len(sc) \in Nat /\ ~(ls > ls)
      BY <1>1
    <3>2. QED
      BY <1>1, <3>1, SlicedSelf
  <2>3. Near(c, d)
    BY <1>1, KindsNear
  <2>4. QED
    BY <2>1, <2>2, <2>3
<1>4. /\ Numbered(ds, "defer", n) /\ Numbered(cs, "string", n) /\ strs \subseteq 1..n
      /\ \A j \in 1..Len(cs) : \A k \in 1..Len(cs[j]) : cs[j][k].id \in strs
      /\ Earlier(sc, n)
      /\ \A j \in 1..Len(ds) : \A k \in 1..Len(ds[j]) : ds[j][k].var <= n
  BY DEF Known
<1>5. /\ Len(ds2) = lb
      /\ \A j \in 1..lb : \A k \in 1..Len(ds2[j]) :
            \/ k \in 1..Len(ds[j]) /\ ds2[j][k] = ds[j][k]
            \/ j = lb /\ k = Len(ds[j]) + 1 /\ ds2[j][k] = it
  <2>1. Len(ds2) = Len(ds)
    BY DEF Added
  <2>2. \A j \in 1..Len(ds) : \A k \in 1..Len(ds2[j]) :
            \/ k \in 1..Len(ds[j]) /\ ds2[j][k] = ds[j][k]
            \/ j = Len(ds) /\ k = Len(ds[j]) + 1 /\ ds2[j][k] = it
    <3>1. ds \in Seq(Seq(PendingItem)) /\ Len(ds) # 0 /\ Added(ds, ds2, it)
      BY <1>1
    <3>2. QED
      BY <3>1, AddedItems, SMTT(30)
  <2>3. QED
    BY <1>1, <2>1, <2>2
<1>6. it.name \in Names
  BY DEF PendingItem, Item
<1>7. it.var \in Nat /\ it.var <= n /\ (it.var = 0 \/ \E i \in 1..ls : sc[i][it.name] = it.var)
  <2>1. PICK x, v : x \in Names /\ x = it.name /\ v = it.var
    BY <1>6
  <2>2. Binds(sc, x, Len(sc), v) /\ sc \in Scopes
    BY <1>1, <2>1
  <2>3. v \in Nat /\ v <= n /\ (v = 0 \/ \E i \in 1..Len(sc) : sc[i][x] = v)
    BY <1>4, <2>1, <2>2, BindsKnown
  <2>4. QED
    BY <1>1, <2>1, <2>3
<1>8. Known(sc, ds2, cs, strs, n + 1)
  <2>1. Numbered(ds2, "defer", n + 1)
    BY <1>1, <1>4, NumberedAdded
  <2>2. Numbered(cs, "string", n + 1)
    BY <1>1, <1>2, <1>3, <1>4, NumberedSliced
  <2>3. strs \subseteq 1..(n + 1)
    BY <1>4
  <2>4. ASSUME NEW i \in 1..Len(sc), NEW x \in Names
        PROVE  sc[i][x] <= n + 1
    <3>1. sc[i] \in [Names -> 0..MaxStmts]
      BY <1>1, ElementOfSeq DEF Scopes
    <3>2. PICK a \in Nat : a = sc[i][x]
      BY <3>1, BoundsAssumption
    <3>3. a <= n
      BY <1>4, <3>2 DEF Earlier
    <3>4. a <= n + 1
      BY <3>3
    <3>5. QED
      BY <3>2, <3>4
  <2>5. ASSUME NEW j \in 1..Len(ds2), NEW k \in 1..Len(ds2[j])
        PROVE  ds2[j][k].var <= n + 1
    <3>1. CASE ds2[j][k] = it
      BY <1>7, <3>1
    <3>2. CASE k \in 1..Len(ds[j]) /\ ds2[j][k] = ds[j][k]
      <4>1. j \in 1..Len(ds)
        BY <1>1, <1>5
      <4>2. ds[j][k] \in PendingItem
        BY <1>1, <3>2, <4>1, ItemOf
      <4>3. PICK a \in Nat : a = ds[j][k].var
        BY <4>2, BoundsAssumption DEF PendingItem, Item
      <4>4. a <= n
        BY <1>4, <3>2, <4>1, <4>3
      <4>5. a <= n + 1
        BY <4>4
      <4>6. QED
        BY <3>2, <4>3, <4>5
    <3>3. QED
      BY <1>5, <3>1, <3>2
  <2>6. QED
    BY <1>4, <2>1, <2>2, <2>3, <2>4, <2>5 DEF Known, Earlier
<1>9. ScopesIn(d, sc, strs, cs)
  BY <1>2, <1>3, <1>4, ScopesMoved
<1>10. ASSUME NEW j \in 1..lb, NEW k \in 1..Len(ds2[j]), ds2[j][k].var \in strs
       PROVE  PendingIn(cs, ds2[j][k].var, j)
  <2>1. CASE k \in 1..Len(ds[j]) /\ ds2[j][k] = ds[j][k]
    BY <1>1, <1>10, <2>1 DEF DefersIn
  <2>2. CASE j = lb /\ ds2[j][k] = it
    <3>1. it.var # 0
      BY <1>4, <1>10, <2>2
    <3>2. PICK i \in 1..ls : sc[i][it.name] = it.var
      BY <1>7, <3>1
    <3>3. PendingIn(cs, sc[i][it.name], lb)
      BY <1>1, <1>2, <1>6, <1>10, <2>2, <3>2 DEF ScopesIn
    <3>4. QED
      BY <2>2, <3>2, <3>3
  <2>3. QED
    BY <1>5, <2>1, <2>2
<1>11. DefersIn(ds2, cs, strs)
  BY <1>5, <1>10 DEF DefersIn
<1>12. \A K \in {Blocks, Scoped} : \A f \in 1..Len(c) : CountIn(d, f, K) = CountIn(c, f, K)
  <2>1. Blocks \in Counted /\ Scoped \in Counted
    BY DEF Counted
  <2>2. \A f \in 1..Len(c) : f \in 0..Len(c)
    BY <1>1
  <2>3. QED
    BY <1>1, <2>1, <2>2, KeptCounts
<1>13. ASSUME NEW f \in 1..Len(c), NEW j \in 1..CountIn(c, f, Blocks),
              NEW k \in 1..Len(ds2[j]), ~ds2[j][k].bare,
              NEW b \in CountIn(c, f, Scoped)..Len(sc)
       PROVE  Means(sc, b, ds2[j][k])
  <2>1. PICK q \in 0..lb : q = CountIn(c, f, Blocks)
    BY <1>1
  <2>2. j \in 1..q /\ j \in 1..lb
    BY <2>1
  <2>3. CASE k \in 1..Len(ds[j]) /\ ds2[j][k] = ds[j][k]
    BY <1>13, <2>3 DEF NamesIn
  <2>4. CASE j = lb /\ ds2[j][k] = it
    <3>1. q = lb
      BY <2>1, <2>2, <2>4
    <3>2. f = Len(c)
      BY <1>1, <1>13, <2>1, <2>4, <3>1, InnermostScope
    <3>3. b = ls
      BY <1>1, <3>2
    <3>4. QED
      BY <1>1, <2>4, <3>3 DEF Means
  <2>5. QED
    BY <1>5, <2>2, <2>3, <2>4
<1>14. NamesIn(d, sc, ds2)
  <2>1. Len(d) = Len(c)
    BY DEF SameKinds
  <2>2. QED
    BY <1>12, <1>13, <2>1 DEF NamesIn
<1>15. QED
  BY <1>8, <1>9, <1>11, <1>14

\* The variable x is declared by statement m in the innermost of the scopes sc.
Declared(sc, sc2, x, m) ==
    /\ Len(sc2) = Len(sc) /\ sc[Len(sc)][x] = 0
    /\ \A i \in 1..Len(sc) : \A y \in Names :
          sc2[i][y] = IF i = Len(sc) /\ y = x THEN m ELSE sc[i][y]

\* What was pending still is; a further string, of statement m, is pending too.
Renewed(cs, strs, cs2, strs2, m) ==
    /\ \A v : \A a \in 0..Len(cs) : PendingIn(cs, v, a) => PendingIn(cs2, v, a)
    /\ \A v \in strs2 : v \in strs \/ (v = m /\ PendingIn(cs2, m, Len(cs)))

LEMMA DeclaredNames ==
    ASSUME NEW c, NEW sc, NEW ds, NEW cs, Framed(c, sc, ds, cs), NEW d, SameKinds(c, d),
           NEW n \in Nat, Numbered(ds, "defer", n), NamesIn(c, sc, ds),
           NEW x \in Names, NEW sc2, Declared(sc, sc2, x, n + 1)
    PROVE  NamesIn(d, sc2, ds)
<1>1. PICK ls \in Nat, lb \in Nat :
          /\ ls = Len(sc) /\ lb = Len(ds) /\ ds \in Seq(Seq(PendingItem))
          /\ Nested(c) /\ Len(c) \in Nat
          /\ \A h \in 1..Len(c) : CountIn(c, h, Scoped) \in 0..ls /\ CountIn(c, h, Blocks) \in 0..lb
  BY FramedFacts
<1>2. \A K \in {Blocks, Scoped} : \A f \in 1..Len(c) : CountIn(d, f, K) = CountIn(c, f, K)
  <2>1. Blocks \in Counted /\ Scoped \in Counted
    BY DEF Counted
  <2>2. \A f \in 1..Len(c) : f \in 0..Len(c)
    BY <1>1
  <2>3. QED
    BY <1>1, <2>1, <2>2, KeptCounts
<1>3. ASSUME NEW f \in 1..Len(c), NEW j \in 1..CountIn(c, f, Blocks),
             NEW k \in 1..Len(ds[j]), ~ds[j][k].bare,
             NEW b \in CountIn(c, f, Scoped)..ls
      PROVE  Means(sc2, b, ds[j][k])
  <2>1. PICK a \in 0..ls, q \in 0..lb : a = CountIn(c, f, Scoped) /\ q = CountIn(c, f, Blocks)
    BY <1>1
  <2>2. j \in 1..lb /\ b \in a..ls /\ b \in 0..ls
    BY <2>1
  <2>3. PICK it \in Item : it = ds[j][k] /\ it.id <= n
    <3>1. ds[j][k] \in Item
      BY <1>1, <2>2, ItemOf DEF PendingItem
    <3>2. QED
      BY <1>1, <2>2, <3>1 DEF Numbered
  <2>4. Means(sc, b, it)
    BY <1>1, <1>3, <2>3 DEF NamesIn
  <2>5. it.name \in Names /\ it.id \in Nat /\ it.id < n + 1
    <3>1. PICK e \in Nat : e = it.id
      BY BoundsAssumption DEF Item, Ids
    <3>2. e <= n
      BY <2>3, <3>1
    <3>3. e < n + 1
      BY <3>2
    <3>4. QED
      BY <3>1, <3>3 DEF Item
  <2>6. CASE b # ls \/ it.name # x
    <3>1. \A i \in 1..b : i \in 1..ls /\ (i = ls => it.name # x)
      BY <2>2, <2>6
    <3>2. \A i \in 1..b : sc2[i][it.name] = sc[i][it.name]
      BY <1>1, <2>5, <3>1 DEF Declared
    <3>3. b \in Nat
      BY <2>2
    <3>4. QED
      BY <2>3, <2>4, <3>2, <3>3, MeansKept
  <2>7. CASE b = ls /\ it.name = x
    <3>1. CASE ls = 0
      <4>1. \A i \in 1..b : sc2[i][it.name] = sc[i][it.name]
        BY <2>7, <3>1
      <4>2. b \in Nat
        BY <2>2
      <4>3. QED
        BY <2>3, <2>4, <4>1, <4>2, MeansKept
    <3>2. CASE ls # 0
      <4>1. ls \in 1..ls /\ (\A i \in (ls + 1)..ls : FALSE) /\ n + 1 # 0
        BY <3>2
      <4>2. sc2[ls][x] = n + 1
        BY <1>1, <4>1 DEF Declared
      <4>3. Binds(sc2, it.name, b, n + 1)
        BY <2>7, <4>1, <4>2 DEF Binds
      <4>4. n + 1 > it.id
        BY <2>5
      <4>5. QED
        BY <2>3, <4>3, <4>4 DEF Means
    <3>3. QED
      BY <3>1, <3>2
  <2>8. QED
    BY <2>6, <2>7
<1>4. Len(d) = Len(c) /\ Len(sc2) = ls
  BY <1>1 DEF SameKinds, Declared
<1>5. QED
  BY <1>2, <1>3, <1>4 DEF NamesIn

LEMMA DeclaredScopes ==
    ASSUME NEW c, NEW sc, NEW ds, NEW cs, Framed(c, sc, ds, cs), NEW d, SameKinds(c, d),
           NEW n \in Nat, NEW strs, NEW cs2, NEW strs2, Earlier(sc, n),
           ScopesIn(c, sc, strs, cs), Renewed(cs, strs, cs2, strs2, n + 1), strs \subseteq 1..n,
           NEW x \in Names, NEW sc2, Declared(sc, sc2, x, n + 1)
    PROVE  ScopesIn(d, sc2, strs2, cs2) /\ Earlier(sc2, n + 1)
<1>1. PICK ls \in Nat, lb \in Nat :
          /\ ls = Len(sc) /\ lb = Len(cs) /\ sc \in Scopes
          /\ Nested(c) /\ Len(c) \in Nat
          /\ ls = CountIn(c, Len(c), Scoped) /\ lb = CountIn(c, Len(c), Blocks)
          /\ \A h \in 1..Len(c) : CountIn(c, h, Scoped) \in 0..ls /\ CountIn(c, h, Blocks) \in 0..lb
  BY FramedFacts
<1>2. \A K \in {Blocks, Scoped} : \A f \in 1..Len(c) : CountIn(d, f, K) = CountIn(c, f, K)
  <2>1. Blocks \in Counted /\ Scoped \in Counted
    BY DEF Counted
  <2>2. \A f \in 1..Len(c) : f \in 0..Len(c)
    BY <1>1
  <2>3. QED
    BY <1>1, <2>1, <2>2, KeptCounts
<1>3. /\ Len(sc2) = ls
      /\ \A i \in 1..ls : \A y \in Names :
            sc2[i][y] = IF i = ls /\ y = x THEN n + 1 ELSE sc[i][y]
  BY <1>1 DEF Declared
<1>4. ASSUME NEW i \in 1..ls, NEW y \in Names
      PROVE  sc[i][y] \in 0..n
  <2>1. sc[i] \in [Names -> 0..MaxStmts]
    BY <1>1, ElementOfSeq DEF Scopes
  <2>2. PICK a \in Nat : a = sc[i][y]
    BY <2>1, BoundsAssumption
  <2>3. a <= n
    BY <1>1, <2>2 DEF Earlier
  <2>4. a \in 0..n
    BY <2>3
  <2>5. QED
    BY <2>2, <2>4
<1>5. n + 1 \notin 0..n /\ n + 1 <= n + 1 /\ \A a \in 0..n : a <= n + 1
  OBVIOUS
<1>6. Earlier(sc2, n + 1)
  BY <1>3, <1>4, <1>5 DEF Earlier
<1>7. ASSUME NEW f \in 1..Len(c), NEW i \in 1..CountIn(c, f, Scoped), NEW y \in Names,
             sc2[i][y] \in strs2
      PROVE  PendingIn(cs2, sc2[i][y], CountIn(c, f, Blocks))
  <2>1. PICK a \in 0..ls, b \in 0..lb : a = CountIn(c, f, Scoped) /\ b = CountIn(c, f, Blocks)
    BY <1>1
  <2>2. i \in 1..a /\ i \in 1..ls
    BY <2>1
  <2>3. CASE i = ls /\ y = x
    <3>1. sc2[i][y] = n + 1
      BY <1>3, <2>2, <2>3
    <3>2. n + 1 \notin strs
      BY <1>5
    <3>3. PendingIn(cs2, n + 1, lb)
      BY <1>1, <1>7, <3>1, <3>2 DEF Renewed
    <3>4. a = ls
      BY <2>2, <2>3
    <3>5. b = lb
      BY <1>1, <2>1, <3>4, InnermostScope
    <3>6. QED
      BY <2>1, <3>1, <3>3, <3>5
  <2>4. CASE ~(i = ls /\ y = x)
    <3>1. sc2[i][y] = sc[i][y] /\ sc[i][y] \in 0..n
      BY <1>3, <1>4, <2>2, <2>4
    <3>2. sc[i][y] \in strs
      BY <1>5, <1>7, <3>1 DEF Renewed
    <3>3. PendingIn(cs, sc[i][y], CountIn(c, f, Blocks))
      BY <3>2 DEF ScopesIn
    <3>4. PendingIn(cs2, sc[i][y], b)
      BY <1>1, <2>1, <3>3 DEF Renewed
    <3>5. QED
      BY <2>1, <3>1, <3>4
  <2>5. QED
    BY <2>3, <2>4
<1>8. Len(d) = Len(c)
  BY DEF SameKinds
<1>9. ScopesIn(d, sc2, strs2, cs2)
  BY <1>2, <1>7, <1>8 DEF ScopesIn
<1>10. QED
  BY <1>6, <1>9

LEMMA RenewedDefers ==
    ASSUME NEW ds \in Seq(Seq(PendingItem)), NEW n \in Nat, NEW strs, NEW cs, NEW cs2, NEW strs2,
           Len(ds) = Len(cs), DefersIn(ds, cs, strs), Renewed(cs, strs, cs2, strs2, n + 1),
           \A j \in 1..Len(ds) : \A k \in 1..Len(ds[j]) : ds[j][k].var <= n
    PROVE  /\ DefersIn(ds, cs2, strs2)
           /\ \A j \in 1..Len(ds) : \A k \in 1..Len(ds[j]) : ds[j][k].var <= n + 1
<1>1. ASSUME NEW j \in 1..Len(ds), NEW k \in 1..Len(ds[j])
      PROVE  /\ ds[j][k].var <= n + 1 /\ ds[j][k].var # n + 1 /\ j \in 0..Len(cs)
  <2>1. ds[j][k] \in PendingItem
    BY ItemOf
  <2>2. PICK a \in Nat : a = ds[j][k].var
    BY <2>1, BoundsAssumption DEF PendingItem, Item
  <2>3. a <= n
    BY <2>2
  <2>4. a <= n + 1 /\ a # n + 1
    BY <2>3
  <2>5. j \in 0..Len(ds)
    OBVIOUS
  <2>6. QED
    BY <2>2, <2>4, <2>5
<1>2. ASSUME NEW j \in 1..Len(ds), NEW k \in 1..Len(ds[j]), ds[j][k].var \in strs2
      PROVE  PendingIn(cs2, ds[j][k].var, j)
  <2>1. ds[j][k].var \in strs
    BY <1>1, <1>2 DEF Renewed
  <2>2. PendingIn(cs, ds[j][k].var, j)
    BY <2>1 DEF DefersIn
  <2>3. QED
    BY <1>1, <2>2 DEF Renewed
<1>3. QED
  BY <1>1, <1>2 DEF DefersIn

\* What each of the three statements does to the stacks, in terms of its frame.
LEMMA PendDefer ==
    ASSUME StackInv, HoldInv, PendInv, StackInv', NEW x \in Names, VisitDefer(x)
    PROVE  PendInv'
<1>1. /\ AtStmt /\ Visit /\ deferScopes' = AddTo(deferScopes, Defer(x))
      /\ ctl' = Complete(ctl) /\ UNCHANGED <<scopes, cleanupScopes, strings>>
  BY DEF VisitDefer
<1>2. AtDecl /\ visited < MaxStmts /\ ctl # <<>>
  BY <1>1 DEF AtDecl, AtStmt
<1>3. visited' = visited + 1 /\ visited' \in Ids
  BY <1>1, <1>2, VisitTyped
<1>4. /\ Len(ctl) # 0 /\ Nested(ctl) /\ Len(deferScopes) # 0 /\ Top = ctl[Len(ctl)]
  BY <1>2, InBlock, TopFacts
<1>5. PICK c, sc, ds, cs, strs :
          c = ctl /\ sc = scopes /\ ds = deferScopes /\ cs = cleanupScopes /\ strs = strings
  OBVIOUS
<1>6. PICK d, ds2 : d = ctl' /\ ds2 = deferScopes'
  OBVIOUS
<1>7. PICK n \in Nat : n = visited /\ n + 1 = visited'
  BY <1>3, BoundsAssumption DEF StackInv, GenTypes
<1>8. Framed(c, sc, ds, cs) /\ Len(c) # 0 /\ Len(ds) # 0
  BY <1>4, <1>5 DEF StackInv, Balanced, GenTypes, Framed
<1>9. Framed(d, sc, ds2, cs)
  <2>1. Framed(ctl', scopes', deferScopes', cleanupScopes')
    BY DEF StackInv, Balanced, GenTypes, Framed
  <2>2. QED
    BY <1>1, <1>5, <1>6, <2>1
<1>10. SameKinds(c, d)
  <2>1. Moved(c, d)
    BY <1>1, <1>2, <1>4, <1>5, <1>6, CompleteMoves
  <2>2. QED
    BY <2>1 DEF Moved
<1>11. /\ Known(sc, ds, cs, strs, n) /\ ScopesIn(c, sc, strs, cs) /\ DefersIn(ds, cs, strs)
       /\ NamesIn(c, sc, ds)
  BY <1>5, <1>7 DEF PendInv
<1>12. PICK it \in PendingItem : it = Defer(x)
  BY <1>2, <1>3, NewItems
<1>13. /\ it.kind = "defer" /\ it.id = n + 1 /\ it.name = x /\ it.var = Resolve(x)
       /\ it.bare \/ c[Len(c)].k \in Blocks
  BY <1>4, <1>5, <1>7, <1>12 DEF Defer, Blocks
<1>14. Binds(sc, it.name, Len(sc), it.var)
  <2>1. scopes \in Scopes
    BY DEF StackInv, GenTypes
  <2>2. Binds(scopes, x, Len(scopes), Resolve(x))
    BY <2>1, ResolveFacts
  <2>3. QED
    BY <1>5, <1>13, <2>2
<1>15. Added(ds, ds2, it)
  <2>1. ds \in Seq(Seq(PendingItem)) /\ ds2 = AddTo(ds, it)
    BY <1>1, <1>5, <1>6, <1>8, <1>12 DEF Framed, Paired
  <2>2. QED
    BY <1>8, <2>1, AddToAdds
<1>16. /\ Known(sc, ds2, cs, strs, n + 1) /\ ScopesIn(d, sc, strs, cs)
       /\ DefersIn(ds2, cs, strs) /\ NamesIn(d, sc, ds2)
  BY <1>8, <1>9, <1>10, <1>11, <1>13, <1>14, <1>15, DeferPends
<1>17. sc = scopes' /\ cs = cleanupScopes' /\ strs = strings'
  BY <1>1, <1>5
<1>18. QED
  BY <1>6, <1>7, <1>16, <1>17 DEF PendInv

\* A declaration, of a string or not.
LEMMA DeclPends ==
    ASSUME NEW c, NEW sc, NEW ds, NEW cs, Framed(c, sc, ds, cs), Len(c) # 0, Len(ds) # 0,
           NEW d, SameKinds(c, d), NEW cs2,
           NEW n \in Nat, NEW strs, Known(sc, ds, cs, strs, n), ScopesIn(c, sc, strs, cs),
           DefersIn(ds, cs, strs), NamesIn(c, sc, ds),
           NEW x \in Names, NEW sc2, Declared(sc, sc2, x, n + 1), NEW strs2,
           \/ strs2 = strs /\ cs2 = cs
           \/ /\ strs2 = strs \cup {n + 1}
              /\ \E it \in PendingItem : /\ Added(cs, cs2, it) /\ it.kind = "string"
                                         /\ it.id = n + 1 /\ it.var = n + 1
    PROVE  /\ Known(sc2, ds, cs2, strs2, n + 1) /\ ScopesIn(d, sc2, strs2, cs2)
           /\ DefersIn(ds, cs2, strs2) /\ NamesIn(d, sc2, ds)
<1>1. PICK lb \in Nat :
          /\ lb = Len(ds) /\ lb = Len(cs) /\ lb # 0 /\ ds \in Seq(Seq(PendingItem))
          /\ cs \in Seq(Seq(PendingItem))
  BY FramedFacts
<1>2. /\ Numbered(ds, "defer", n) /\ Numbered(cs, "string", n) /\ strs \subseteq 1..n
      /\ \A j \in 1..Len(cs) : \A k \in 1..Len(cs[j]) : cs[j][k].id \in strs
      /\ Earlier(sc, n)
      /\ \A j \in 1..Len(ds) : \A k \in 1..Len(ds[j]) : ds[j][k].var <= n
  BY DEF Known
<1>3. n <= n + 1 /\ n + 1 \in Nat /\ lb \in 0..lb
  OBVIOUS
<1>4. /\ Renewed(cs, strs, cs2, strs2, n + 1) /\ Numbered(cs2, "string", n + 1)
      /\ strs2 \subseteq 1..(n + 1)
      /\ \A j \in 1..Len(cs2) : \A k \in 1..Len(cs2[j]) : cs2[j][k].id \in strs2
  <2>1. CASE strs2 = strs /\ cs2 = cs
    <3>1. Numbered(cs, "string", n + 1)
      <4>1. Sliced(cs, cs) /\ Len(cs) \in Nat
        BY <1>1, SlicedSelf
      <4>2. QED
        BY <1>1, <1>2, <1>3, <4>1, NumberedSliced
    <3>2. strs \subseteq 1..(n + 1)
      BY <1>2
    <3>3. Renewed(cs, strs, cs, strs, n + 1)
      <4>1. PICK m : m = n + 1
        OBVIOUS
      <4>2. \A v : \A a \in 0..Len(cs) : PendingIn(cs, v, a) => PendingIn(cs, v, a)
        OBVIOUS
      <4>3. \A v \in strs : v \in strs \/ (v = m /\ PendingIn(cs, m, Len(cs)))
        OBVIOUS
      <4>4. Renewed(cs, strs, cs, strs, m)
        BY <4>2, <4>3, Zenon DEF Renewed
      <4>5. QED
        BY <4>1, <4>4
    <3>4. QED
      BY <1>2, <2>1, <3>1, <3>2, <3>3
  <2>2. ASSUME strs2 = strs \cup {n + 1}, NEW it \in PendingItem, Added(cs, cs2, it),
               it.kind = "string", it.id = n + 1, it.var = n + 1
        PROVE  /\ Renewed(cs, strs, cs2, strs2, n + 1) /\ Numbered(cs2, "string", n + 1)
               /\ strs2 \subseteq 1..(n + 1)
               /\ \A j \in 1..Len(cs2) : \A k \in 1..Len(cs2[j]) : cs2[j][k].id \in strs2
    <3>1. Len(cs) # 0
      BY <1>1
    <3>2. Numbered(cs2, "string", n + 1)
      BY <1>1, <1>2, <2>2, <3>1, NumberedAdded
    <3>3. strs2 \subseteq 1..(n + 1)
      <4>1. n + 1 \in 1..(n + 1) /\ \A v \in 1..n : v \in 1..(n + 1)
        OBVIOUS
      <4>2. QED
        BY <1>2, <2>2, <4>1
    <3>4. /\ \A v : \A a \in Nat : a <= Len(cs) /\ PendingIn(cs, v, a) => PendingIn(cs2, v, a)
          /\ PendingIn(cs2, n + 1, Len(cs))
      BY <1>1, <2>2, <3>1, PendingMore
    <3>5. \A a \in 0..Len(cs) : a \in Nat /\ a <= Len(cs)
      BY <1>1
    <3>6. Renewed(cs, strs, cs2, strs2, n + 1)
      BY <2>2, <3>4, <3>5 DEF Renewed
    <3>7. ASSUME NEW j \in 1..Len(cs2), NEW k \in 1..Len(cs2[j])
          PROVE  cs2[j][k].id \in strs2
      <4>1. Len(cs2) = Len(cs)
        BY <2>2 DEF Added
      <4>2. j \in 1..Len(cs)
        BY <4>1
      <4>3. \/ k \in 1..Len(cs[j]) /\ cs2[j][k] = cs[j][k]
            \/ cs2[j][k] = it
        BY <1>1, <2>2, <3>1, <4>2, AddedItems
      <4>4. QED
        BY <1>2, <2>2, <4>2, <4>3
    <3>8. QED
      BY <3>2, <3>3, <3>6, <3>7
  <2>3. QED
    BY <2>1, <2>2
<1>5. NamesIn(d, sc2, ds)
  BY <1>2, DeclaredNames
<1>6. ScopesIn(d, sc2, strs2, cs2) /\ Earlier(sc2, n + 1)
  BY <1>2, <1>4, DeclaredScopes
<1>7. /\ DefersIn(ds, cs2, strs2)
      /\ \A j \in 1..Len(ds) : \A k \in 1..Len(ds[j]) : ds[j][k].var <= n + 1
  <2>1. Len(ds) = Len(cs)
    BY <1>1
  <2>2. QED
    BY <1>1, <1>2, <1>4, <2>1, RenewedDefers
<1>8. Numbered(ds, "defer", n + 1)
  <2>1. Sliced(ds, ds) /\ Len(ds) \in Nat
    BY <1>1, SlicedSelf
  <2>2. QED
    BY <1>1, <1>2, <1>3, <2>1, NumberedSliced
<1>9. QED
  BY <1>4, <1>5, <1>6, <1>7, <1>8 DEF Known

LEMMA PendDecl ==
    ASSUME StackInv, HoldInv, PendInv, NEW x \in Names, VisitPlainDecl(x) \/ VisitStringDecl(x)
    PROVE  PendInv'
<1>1. /\ AtDecl /\ Visit /\ Declare(x) /\ ctl' = Complete(ctl) /\ deferScopes' = deferScopes
      /\ \/ strings' = strings /\ cleanupScopes' = cleanupScopes
         \/ /\ strings' = strings \cup {visited'}
            /\ cleanupScopes' = AddTo(cleanupScopes, StringOf(x))
  BY DEF VisitPlainDecl, VisitStringDecl
<1>2. visited < MaxStmts /\ ctl # <<>>
  BY <1>1 DEF AtDecl, AtStmt
<1>3. visited' = visited + 1 /\ visited' \in Ids /\ visited' \in 0..MaxStmts
  BY <1>1, <1>2, VisitTyped
<1>4. /\ Len(ctl) # 0 /\ Nested(ctl) /\ Len(deferScopes) # 0
      /\ Len(cleanupScopes) = Len(deferScopes)
  BY <1>1, InBlock
<1>5. PICK c, sc, ds, cs, strs :
          c = ctl /\ sc = scopes /\ ds = deferScopes /\ cs = cleanupScopes /\ strs = strings
  OBVIOUS
<1>6. PICK d, sc2, cs2, strs2 :
          d = ctl' /\ sc2 = scopes' /\ cs2 = cleanupScopes' /\ strs2 = strings'
  OBVIOUS
<1>7. PICK n \in Nat : n = visited /\ n + 1 = visited'
  BY <1>3, BoundsAssumption DEF StackInv, GenTypes
<1>8. Framed(c, sc, ds, cs) /\ Len(c) # 0 /\ Len(ds) # 0 /\ Len(cs) # 0
  BY <1>4, <1>5 DEF StackInv, Balanced, GenTypes, Framed
<1>9. SameKinds(c, d)
  <2>1. Moved(c, d)
    BY <1>1, <1>2, <1>4, <1>5, <1>6, CompleteMoves
  <2>2. QED
    BY <2>1 DEF Moved
<1>10. /\ Known(sc, ds, cs, strs, n) /\ ScopesIn(c, sc, strs, cs) /\ DefersIn(ds, cs, strs)
       /\ NamesIn(c, sc, ds)
  BY <1>5, <1>7 DEF PendInv
<1>11. Declared(sc, sc2, x, n + 1)
  <2>1. /\ Len(scopes') = Len(scopes)
        /\ \A i \in 1..Len(scopes) : \A y \in Names :
              scopes'[i][y] = IF i = Len(scopes) /\ y = x THEN visited' ELSE scopes[i][y]
    BY <1>1, <1>2, <1>3, DeclareFacts
  <2>2. scopes[Len(scopes)][x] = 0
    BY <1>1 DEF Declare
  <2>3. QED
    BY <1>5, <1>6, <1>7, <2>1, <2>2 DEF Declared
<1>12. \/ strs2 = strs /\ cs2 = cs
       \/ /\ strs2 = strs \cup {n + 1}
          /\ \E it \in PendingItem : /\ Added(cs, cs2, it) /\ it.kind = "string"
                                     /\ it.id = n + 1 /\ it.var = n + 1
  <2>1. CASE strings' = strings /\ cleanupScopes' = cleanupScopes
    BY <1>5, <1>6, <2>1
  <2>2. CASE /\ strings' = strings \cup {visited'}
             /\ cleanupScopes' = AddTo(cleanupScopes, StringOf(x))
    <3>1. PICK it \in PendingItem : it = StringOf(x)
      BY <1>2, <1>3, NewItems
    <3>2. it.kind = "string" /\ it.id = n + 1 /\ it.var = n + 1
      BY <1>7, <3>1 DEF StringOf
    <3>3. cs \in Seq(Seq(PendingItem)) /\ cs2 = AddTo(cs, it)
      BY <1>5, <1>6, <1>8, <2>2, <3>1 DEF Framed, Paired
    <3>4. Added(cs, cs2, it)
      BY <1>8, <3>3, AddToAdds
    <3>5. strs2 = strs \cup {n + 1}
      BY <1>5, <1>6, <1>7, <2>2
    <3>6. QED
      BY <3>2, <3>4, <3>5
  <2>3. QED
    BY <1>1, <2>1, <2>2
<1>13. /\ Known(sc2, ds, cs2, strs2, n + 1) /\ ScopesIn(d, sc2, strs2, cs2)
       /\ DefersIn(ds, cs2, strs2) /\ NamesIn(d, sc2, ds)
  BY <1>8, <1>9, <1>10, <1>11, <1>12, DeclPends
<1>14. ds = deferScopes'
  BY <1>1, <1>5
<1>15. QED
  BY <1>6, <1>7, <1>13, <1>14 DEF PendInv

\* Opening and closing a block or a scope.
LEMMA SlicedMore ==
    ASSUME NEW T, NEW s \in Seq(Seq(T)), NEW r, r = Append(s, <<>>)
    PROVE  Sliced(s, r)
<1>1. <<>> \in Seq(T)
  BY EmptySeq
<1>2. Len(s) \in Nat /\ Len(r) = Len(s) + 1 /\ r[Len(s) + 1] = <<>>
      /\ \A j \in 1..Len(s) : r[j] = s[j]
  BY <1>1, AppendProperties
<1>3. PICK n \in Nat : n = Len(s)
  BY <1>2
<1>4. \A j \in 1..(n + 1) : j \in 1..n \/ (j = n + 1 /\ j \notin 1..n)
  OBVIOUS
<1>5. QED
  BY <1>2, <1>3, <1>4 DEF Sliced

LEMMA SlicedLess ==
    ASSUME NEW s, Len(s) \in Nat \ {0}, NEW r, Len(r) = Len(s) - 1,
           \A j \in 1..(Len(s) - 1) : r[j] = s[j]
    PROVE  Sliced(s, r)
<1>1. PICK n \in Nat \ {0} : n = Len(s)
  OBVIOUS
<1>2. \A j \in 1..(n - 1) : j \in 1..n
  OBVIOUS
<1>3. QED
  BY <1>1, <1>2 DEF Sliced

LEMMA RescopedMore ==
    ASSUME NEW sc \in Scopes, NEW n \in Nat, NEW w \in [Names -> {0, n}], NEW sc2,
           sc2 = Append(sc, w)
    PROVE  Rescoped(sc, sc2, n)
<1>1. PICK S : S = {sc[i] : i \in 1..Len(sc)} \cup {w}
  OBVIOUS
<1>2. PICK l \in Nat : l = Len(sc) /\ sc \in Seq([Names -> 0..MaxStmts])
  BY DEF Scopes
<1>3. /\ Len(sc2) = l + 1 /\ sc2[l + 1] = w /\ \A i \in 1..l : sc2[i] = sc[i]
  <2>1. sc \in Seq(S)
    <3>1. \A i \in 1..l : sc[i] \in S
      BY <1>1, <1>2
    <3>2. sc = [i \in 1..l |-> sc[i]]
      BY <1>2
    <3>3. QED
      BY <1>2, <3>1, <3>2, ListedFacts
  <2>2. w \in S
    BY <1>1
  <2>3. QED
    BY <1>2, <2>1, <2>2, AppendProperties
<1>4. \A i \in 1..(l + 1) : i \in 1..l \/ (i = l + 1 /\ i \notin 1..l)
  OBVIOUS
<1>5. Len(sc2) <= l + 1
  BY <1>2, <1>3
<1>6. QED
  BY <1>2, <1>3, <1>4, <1>5 DEF Rescoped

LEMMA RescopedLess ==
    ASSUME NEW sc, Len(sc) \in Nat \ {0}, NEW sc2, Len(sc2) = Len(sc) - 1,
           \A j \in 1..(Len(sc) - 1) : sc2[j] = sc[j], NEW n
    PROVE  Rescoped(sc, sc2, n) /\ ~(Len(sc2) > Len(sc))
<1>1. PICK l \in Nat \ {0} : l = Len(sc)
  OBVIOUS
<1>2. /\ \A j \in 1..(l - 1) : j \in 1..l
      /\ l - 1 <= l + 1 /\ ~(l - 1 > l)
  OBVIOUS
<1>3. QED
  BY <1>1, <1>2 DEF Rescoped

\* Statements that differ by one are near each other.
LEMMA NearMore ==
    ASSUME NEW b, Nested(b), NEW c, SameKinds(b, c), NEW f, NEW d, Extended(c, f, d)
    PROVE  Near(b, d)
<1>1. PICK n \in Nat : n = Len(b) /\ n = Len(c)
  BY DEF Nested, SameKinds
<1>2. Len(d) = n + 1 /\ \A i \in 1..n : d[i] = c[i]
  BY <1>1 DEF Extended
<1>3. Blocks \in Counted /\ Scoped \in Counted
  BY DEF Counted
<1>4. \A K \in {Blocks, Scoped} : \A i \in 1..n : c[i].k \in K <=> b[i].k \in K
  <2>1. \A i \in 1..n : c[i].k \in Blocks <=> b[i].k \in Blocks
    BY <1>1, <1>3, KeptCounts
  <2>2. \A i \in 1..n : c[i].k \in Scoped <=> b[i].k \in Scoped
    BY <1>1, <1>3, KeptCounts
  <2>3. QED
    BY <2>1, <2>2
<1>5. \A g \in 1..(n + 1) : g <= n => g \in 1..n
  OBVIOUS
<1>6. Len(d) <= Len(b) + 1
  BY <1>1, <1>2
<1>7. QED
  BY <1>1, <1>2, <1>4, <1>5, <1>6 DEF Near

LEMMA NearLess ==
    ASSUME NEW b, Nested(b), NEW f, NEW c, Extended(b, f, c), NEW d, SameKinds(b, d)
    PROVE  Near(c, d)
<1>1. PICK n \in Nat : n = Len(b) /\ n = Len(d)
  BY DEF Nested, SameKinds
<1>2. Len(c) = n + 1 /\ \A i \in 1..n : c[i] = b[i]
  BY <1>1 DEF Extended
<1>3. Blocks \in Counted /\ Scoped \in Counted
  BY DEF Counted
<1>4. \A K \in {Blocks, Scoped} : \A i \in 1..n : d[i].k \in K <=> b[i].k \in K
  <2>1. \A i \in 1..n : d[i].k \in Blocks <=> b[i].k \in Blocks
    BY <1>1, <1>3, KeptCounts
  <2>2. \A i \in 1..n : d[i].k \in Scoped <=> b[i].k \in Scoped
    BY <1>1, <1>3, KeptCounts
  <2>3. QED
    BY <2>1, <2>2
<1>5. Len(d) <= Len(c) + 1
  <2>1. n <= n + 1 + 1
    OBVIOUS
  <2>2. QED
    BY <1>1, <1>2, <2>1
<1>6. QED
  BY <1>1, <1>2, <1>4, <1>5 DEF Near

\* The steps that leave the stacks as they are, or open or close one entry.
LEMMA PendKept ==
    ASSUME StackInv, PendInv, StackInv', ctl # <<>>, Near(ctl, ctl'),
           UNCHANGED <<scopes, deferScopes, cleanupScopes, strings>>,
           visited' \in {visited, visited + 1}
    PROVE  PendInv'
<1>1. /\ Len(deferScopes) \in Nat /\ Len(cleanupScopes) \in Nat
      /\ Len(scopes) \in Nat
  BY DEF StackInv, Paired, GenTypes, Scopes
<1>2. /\ Sliced(deferScopes, deferScopes) /\ Sliced(cleanupScopes, cleanupScopes)
      /\ Rescoped(scopes, scopes, visited')
  <2>1. PICK m : m = visited'
    OBVIOUS
  <2>2. Sliced(deferScopes, deferScopes) /\ Sliced(cleanupScopes, cleanupScopes)
    BY <1>1, SlicedSelf
  <2>3. Rescoped(scopes, scopes, m)
    BY <1>1, SlicedSelf
  <2>4. QED
    BY <2>1, <2>2, <2>3
<1>3. /\ Sliced(deferScopes, deferScopes') /\ Sliced(cleanupScopes, cleanupScopes')
      /\ Rescoped(scopes, scopes', visited')
  BY <1>2
<1>4. ~(Len(scopes') > Len(scopes))
  BY <1>1
<1>5. QED
  BY <1>3, <1>4, PendMoved

LEMMA PendOpened ==
    ASSUME StackInv, HoldInv, PendInv, StackInv', NEW f, Opening(f)
    PROVE  PendInv'
<1>1. /\ AtStmt /\ Visit /\ Extended(ctl, f, ctl')
      /\ UNCHANGED <<deferScopes, cleanupScopes, strings>>
      /\ \/ scopes' = scopes
         \/ \E w \in [Names -> {0, visited'}] : scopes' = Append(scopes, w)
  BY DEF Opening, Quiet
<1>2. ctl # <<>> /\ visited' = visited + 1
  BY <1>1, VisitTyped DEF AtStmt
<1>3. Near(ctl, ctl')
  <2>1. PICK d : d = ctl'
    OBVIOUS
  <2>2. Nested(ctl) /\ SameKinds(ctl, ctl)
    BY DEF StackInv, Balanced, SameKinds
  <2>3. Near(ctl, d)
    BY <1>1, <2>1, <2>2, NearMore
  <2>4. QED
    BY <2>1, <2>3
<1>4. CASE scopes' = scopes
  BY <1>1, <1>2, <1>3, <1>4, PendKept
<1>5. ASSUME NEW w \in [Names -> {0, visited'}], scopes' = Append(scopes, w)
      PROVE  PendInv'
  <2>1. PICK m \in Nat : m = visited'
    BY BoundsAssumption DEF StackInv, GenTypes
  <2>2. PICK sc2 : sc2 = scopes' /\ sc2 = Append(scopes, w)
    BY <1>5
  <2>3. scopes \in Scopes /\ w \in [Names -> {0, m}]
    BY <2>1 DEF StackInv, GenTypes
  <2>4. Rescoped(scopes, sc2, m)
    BY <2>2, <2>3, RescopedMore
  <2>5. Rescoped(scopes, scopes', visited')
    BY <2>1, <2>2, <2>4
  <2>6. Len(deferScopes) \in Nat /\ Len(cleanupScopes) \in Nat
    BY DEF StackInv, Paired
  <2>7. Sliced(deferScopes, deferScopes) /\ Sliced(cleanupScopes, cleanupScopes)
    BY <2>6, SlicedSelf
  <2>8. Sliced(deferScopes, deferScopes') /\ Sliced(cleanupScopes, cleanupScopes')
    BY <1>1, <2>7
  <2>9. strings' = strings /\ visited' \in {visited, visited + 1}
    BY <1>1, <1>2
  <2>10. QED
    BY <1>2, <1>3, <2>5, <2>8, <2>9, PendMoved
<1>6. QED
  BY <1>1, <1>4, <1>5

LEMMA PendResumed ==
    ASSUME StackInv, PendInv, StackInv', Resuming
    PROVE  PendInv'
<1>1. /\ ctl # <<>> /\ SameKinds(ctl, ctl')
      /\ UNCHANGED <<scopes, deferScopes, cleanupScopes, strings, visited>>
  BY DEF Resuming, Quiet
<1>2. Near(ctl, ctl')
  <2>1. PICK d : d = ctl'
    OBVIOUS
  <2>2. Nested(ctl) /\ SameKinds(ctl, d)
    BY <1>1, <2>1 DEF StackInv, Balanced
  <2>3. Near(ctl, d)
    BY <2>2, KindsNear
  <2>4. QED
    BY <2>1, <2>3
<1>3. visited' \in {visited, visited + 1}
  BY <1>1
<1>4. QED
  BY <1>1, <1>2, <1>3, PendKept

LEMMA PendJumped ==
    ASSUME StackInv, HoldInv, PendInv, StackInv', VisitStrayJump \/ \E i, st : Leaving(i, st)
    PROVE  PendInv'
<1>1. /\ AtStmt /\ Visit /\ UNCHANGED <<scopes, deferScopes, cleanupScopes, strings>>
      /\ ctl' = Complete(ctl) \/ SameKinds(ctl, ctl')
  BY DEF VisitStrayJump, Leaving
<1>2. ctl # <<>> /\ visited' \in {visited, visited + 1}
  BY <1>1, VisitTyped DEF AtStmt
<1>3. Near(ctl, ctl')
  <2>1. PICK d : d = ctl'
    OBVIOUS
  <2>2. Nested(ctl)
    BY DEF StackInv, Balanced
  <2>3. SameKinds(ctl, d)
    <3>1. CASE ctl' = Complete(ctl)
      <4>1. Moved(ctl, d)
        BY <1>2, <2>1, <2>2, <3>1, CompleteMoves
      <4>2. QED
        BY <4>1 DEF Moved
    <3>2. QED
      BY <1>1, <2>1, <3>1
  <2>4. Near(ctl, d)
    BY <2>2, <2>3, KindsNear
  <2>5. QED
    BY <2>1, <2>4
<1>4. QED
  BY <1>1, <1>2, <1>3, PendKept

\* The innermost statement is done.
LEMMA NearClosed ==
    ASSUME StackInv, HoldInv, ctl # <<>>, Top.k # "fn", ctl' = Complete(Front(ctl))
    PROVE  Near(ctl, ctl')
<1>1. PICK d : d = ctl' /\ d = Complete(Front(ctl))
  OBVIOUS
<1>2. PICK g, f : g = Front(ctl) /\ f = Top
  OBVIOUS
<1>3. Nested(g) /\ Extended(g, f, ctl) /\ SameKinds(g, d)
  BY <1>1, <1>2, UnderTop DEF SameHolds
<1>4. Near(ctl, d)
  BY <1>3, NearLess
<1>5. QED
  BY <1>1, <1>4

LEMMA FrontRescoped ==
    ASSUME StackInv, ctl # <<>>, scopes' = Front(scopes)
    PROVE  Rescoped(scopes, scopes', visited') /\ ~(Len(scopes') > Len(scopes))
<1>1. PICK sc2 : sc2 = scopes' /\ sc2 = Front(scopes)
  OBVIOUS
<1>2. PICK m : m = visited'
  OBVIOUS
<1>3. /\ Len(scopes) \in Nat \ {0} /\ Len(sc2) = Len(scopes) - 1
      /\ \A i \in 1..(Len(scopes) - 1) : sc2[i] = scopes[i]
  BY <1>1, TopFacts, ScopeClosed
<1>4. Rescoped(scopes, sc2, m) /\ ~(Len(sc2) > Len(scopes))
  BY <1>3, RescopedLess
<1>5. QED
  BY <1>1, <1>2, <1>4

LEMMA PendClosed ==
    ASSUME StackInv, HoldInv, PendInv, StackInv', Closing
    PROVE  PendInv'
<1>1. /\ ctl # <<>> /\ Top.k \notin {"fn", "compound"} /\ ctl' = Complete(Front(ctl))
      /\ UNCHANGED <<deferScopes, cleanupScopes, strings, visited>>
      /\ scopes' = scopes \/ scopes' = Front(scopes)
  BY DEF Closing, Quiet
<1>2. Near(ctl, ctl')
  BY <1>1, NearClosed
<1>3. visited' \in {visited, visited + 1}
  BY <1>1
<1>4. CASE scopes' = scopes
  BY <1>1, <1>2, <1>3, <1>4, PendKept
<1>5. CASE scopes' = Front(scopes)
  <2>1. Rescoped(scopes, scopes', visited') /\ ~(Len(scopes') > Len(scopes))
    BY <1>1, <1>5, FrontRescoped
  <2>2. Len(deferScopes) \in Nat /\ Len(cleanupScopes) \in Nat
    BY DEF StackInv, Paired
  <2>3. Sliced(deferScopes, deferScopes) /\ Sliced(cleanupScopes, cleanupScopes)
    BY <2>2, SlicedSelf
  <2>4. Sliced(deferScopes, deferScopes') /\ Sliced(cleanupScopes, cleanupScopes')
    BY <1>1, <2>3
  <2>5. QED
    BY <1>1, <1>2, <1>3, <2>1, <2>4, PendMoved
<1>6. QED
  BY <1>1, <1>4, <1>5

LEMMA PendEnded ==
    ASSUME StackInv, PendInv, StackInv', EndFunction
    PROVE  PendInv'
<1>1. /\ ctl # <<>> /\ ctl' = <<>> /\ scopes' = Front(scopes)
      /\ UNCHANGED <<deferScopes, cleanupScopes, strings, visited>>
  BY DEF EndFunction
<1>2. Near(ctl, ctl')
  <2>1. PICK n \in Nat : n = Len(ctl)
    BY <1>1, TopFacts
  <2>2. PICK d : d = ctl' /\ Len(d) = 0
    BY <1>1
  <2>3. 0 <= n + 1
    OBVIOUS
  <2>4. Near(ctl, d)
    BY <2>1, <2>2, <2>3 DEF Near
  <2>5. QED
    BY <2>2, <2>4
<1>3. Rescoped(scopes, scopes', visited') /\ ~(Len(scopes') > Len(scopes))
  BY <1>1, FrontRescoped
<1>4. Len(deferScopes) \in Nat /\ Len(cleanupScopes) \in Nat
  BY DEF StackInv, Paired
<1>5. Sliced(deferScopes, deferScopes) /\ Sliced(cleanupScopes, cleanupScopes)
  BY <1>4, SlicedSelf
<1>6. Sliced(deferScopes, deferScopes') /\ Sliced(cleanupScopes, cleanupScopes')
  BY <1>1, <1>5
<1>7. QED
  BY <1>1, <1>2, <1>3, <1>6, PendMoved

\* The innermost block is closed.
LEMMA BlockSliced ==
    ASSUME StackInv, EndCompound
    PROVE  /\ Sliced(deferScopes, deferScopes') /\ Sliced(cleanupScopes, cleanupScopes')
           /\ Len(deferScopes) \in Nat \ {0} /\ Len(deferScopes') = Len(deferScopes) - 1
<1>1. ctl # <<>> /\ Top.k = "compound" /\ CloseDeferScope
  BY DEF EndCompound
<1>2. PICK n \in Nat \ {0} : n = Len(ctl) /\ n # 1
  BY <1>1, TopFacts
<1>3. Len(ctl) > 1
  BY <1>2
<1>4. Len(deferScopes) \in Nat \ {0}
  BY <1>1, <1>3, TopFacts
<1>5. Paired(PendingItem, deferScopes, cleanupScopes)
  BY DEF StackInv
<1>6. /\ Paired(PendingItem, deferScopes', cleanupScopes')
      /\ Len(deferScopes') = Len(deferScopes) - 1
      /\ \A i \in 1..(Len(deferScopes) - 1) : /\ deferScopes'[i] = deferScopes[i]
                                             /\ cleanupScopes'[i] = cleanupScopes[i]
  BY <1>1, <1>4, <1>5, DeferScopeClosed
<1>7. PICK ds2, cs2 : ds2 = deferScopes' /\ cs2 = cleanupScopes'
  OBVIOUS
<1>8. /\ Len(ds2) = Len(deferScopes) - 1
      /\ \A i \in 1..(Len(deferScopes) - 1) : ds2[i] = deferScopes[i]
  BY <1>6, <1>7
<1>9. /\ Len(cleanupScopes) \in Nat \ {0} /\ Len(cs2) = Len(cleanupScopes) - 1
      /\ \A i \in 1..(Len(cleanupScopes) - 1) : cs2[i] = cleanupScopes[i]
  BY <1>4, <1>5, <1>6, <1>7 DEF Paired
<1>10. Sliced(deferScopes, ds2)
  BY <1>4, <1>8, SlicedLess
<1>11. Sliced(cleanupScopes, cs2)
  BY <1>9, SlicedLess
<1>12. QED
  BY <1>4, <1>6, <1>7, <1>10, <1>11

LEMMA PendBlockClosed ==
    ASSUME StackInv, HoldInv, PendInv, StackInv', EndCompound
    PROVE  PendInv'
<1>1. /\ ctl # <<>> /\ Top.k = "compound" /\ ctl' = Complete(Front(ctl))
      /\ scopes' = Front(scopes) /\ UNCHANGED <<visited, strings>>
  BY DEF EndCompound
<1>2. Near(ctl, ctl')
  BY <1>1, NearClosed
<1>3. Rescoped(scopes, scopes', visited') /\ ~(Len(scopes') > Len(scopes))
  BY <1>1, FrontRescoped
<1>4. Sliced(deferScopes, deferScopes') /\ Sliced(cleanupScopes, cleanupScopes')
  BY BlockSliced
<1>5. visited' \in {visited, visited + 1}
  BY <1>1
<1>6. QED
  BY <1>1, <1>2, <1>3, <1>4, <1>5, PendMoved

LEMMA PendBlockOpened ==
    ASSUME StackInv, PendInv, StackInv', NEW c, BlockOpening(c)
    PROVE  PendInv'
<1>1. /\ ctl # <<>> /\ visited < MaxStmts /\ Visit /\ strings' = strings
      /\ SameKinds(ctl, c) /\ Nested(c)
      /\ scopes' = Append(scopes, Unbound)
      /\ deferScopes' = Append(deferScopes, <<>>)
      /\ cleanupScopes' = Append(cleanupScopes, <<>>)
  BY DEF BlockOpening, OpenBlock
<1>2. visited' = visited + 1 /\ visited' \in 0..MaxStmts
  BY <1>1, VisitTyped
<1>3. PICK f : f = [k |-> "compound", id |-> visited', phase |-> "body", alt |-> FALSE,
                    pend |-> FALSE]
  OBVIOUS
<1>4. ctl' = Append(c, f) /\ f \in Statement
  BY <1>2, <1>3 DEF BlockOpening, OpenBlock, Frame, Statement, Kinds
<1>5. Near(ctl, ctl')
  <2>1. PICK d : d = ctl' /\ d = Append(c, f)
    BY <1>4
  <2>2. Nested(ctl) /\ c \in Seq(Statement)
    BY <1>1 DEF StackInv, Balanced, Nested
  <2>3. Extended(c, f, d)
    BY <1>4, <2>1, <2>2, AppendExtends
  <2>4. Near(ctl, d)
    BY <1>1, <2>2, <2>3, NearMore
  <2>5. QED
    BY <2>1, <2>4
<1>6. PICK ds2, cs2, sc2 :
          /\ ds2 = deferScopes' /\ cs2 = cleanupScopes' /\ sc2 = scopes'
          /\ ds2 = Append(deferScopes, <<>>) /\ cs2 = Append(cleanupScopes, <<>>)
          /\ sc2 = Append(scopes, Unbound)
  BY <1>1
<1>7. deferScopes \in Seq(Seq(PendingItem)) /\ cleanupScopes \in Seq(Seq(PendingItem))
      /\ scopes \in Scopes
  BY DEF StackInv, Paired, GenTypes
<1>8. Sliced(deferScopes, ds2) /\ Sliced(cleanupScopes, cs2)
  BY <1>6, <1>7, SlicedMore
<1>9. Rescoped(scopes, scopes', visited')
  <2>1. PICK m \in Nat : m = visited'
    BY <1>2, BoundsAssumption
  <2>2. PICK w \in [Names -> {0, m}] : w = Unbound
    BY DEF Unbound
  <2>3. Rescoped(scopes, sc2, m)
    BY <1>6, <1>7, <2>2, RescopedMore
  <2>4. QED
    BY <1>6, <2>1, <2>3
<1>10. Sliced(deferScopes, deferScopes') /\ Sliced(cleanupScopes, cleanupScopes')
  BY <1>6, <1>8
<1>11. visited' \in {visited, visited + 1}
  BY <1>2
<1>12. QED
  BY <1>1, <1>2, <1>5, <1>9, <1>10, <1>11, PendMoved

LEMMA InitPend ==
    ASSUME Init
    PROVE  PendInv
<1>1. /\ Len(ctl) = 1 /\ ctl[1].k = "fn" /\ Len(scopes) = 1 /\ scopes[1] = Unbound
      /\ Len(deferScopes) = 0 /\ Len(cleanupScopes) = 0 /\ visited = 0 /\ strings = {}
  BY DEF Init
<1>2. \A x \in Names : Unbound[x] = 0
  BY DEF Unbound
<1>3. /\ Numbered(deferScopes, "defer", 0) /\ Numbered(cleanupScopes, "string", 0)
  BY <1>1 DEF Numbered
<1>4. Earlier(scopes, 0)
  <2>1. \A i \in 1..1 : i = 1
    OBVIOUS
  <2>2. 0 <= 0
    OBVIOUS
  <2>3. QED
    BY <1>1, <1>2, <2>1, <2>2 DEF Earlier
<1>5. Known(scopes, deferScopes, cleanupScopes, strings, visited)
  BY <1>1, <1>3, <1>4 DEF Known
<1>6. ScopesIn(ctl, scopes, strings, cleanupScopes)
  BY <1>1 DEF ScopesIn
<1>7. DefersIn(deferScopes, cleanupScopes, strings)
  BY <1>1 DEF DefersIn
<1>8. NamesIn(ctl, scopes, deferScopes)
  <2>1. \A f \in 1..Len(ctl) : CountIn(ctl, f, Blocks) = 0
    <3>1. \A i \in 1..1 : ctl[i].k \notin Blocks
      BY <1>1 DEF Blocks
    <3>2. CountIn(ctl, 1, Blocks) = 0
      BY <3>1, FS_EmptySet DEF CountIn
    <3>3. \A f \in 1..1 : f = 1
      OBVIOUS
    <3>4. QED
      BY <1>1, <3>2, <3>3
  <2>2. QED
    BY <2>1 DEF NamesIn
<1>9. QED
  BY <1>5, <1>6, <1>7, <1>8 DEF PendInv

LEMMA PendIdle ==
    ASSUME PendInv, UNCHANGED vars
    PROVE  PendInv'
<1>1. UNCHANGED <<ctl, scopes, deferScopes, cleanupScopes, strings, visited>>
  BY DEF vars, genVars
<1>2. QED
  BY <1>1 DEF PendInv

LEMMA PendAgain ==
    ASSUME PendInv, IterateAgain
    PROVE  PendInv'
<1>1. UNCHANGED <<ctl, scopes, deferScopes, cleanupScopes, strings, visited>>
  BY DEF IterateAgain, ReachAgain
<1>2. QED
  BY <1>1 DEF PendInv

LEMMA PendStep ==
    ASSUME StackInv, HoldInv, PendInv, StackInv', Next
    PROVE  PendInv'
<1>1. ASSUME NEW x \in Names, VisitDefer(x) \/ VisitPlainDecl(x) \/ VisitStringDecl(x)
      PROVE  PendInv'
  BY <1>1, PendDefer, PendDecl
<1>2. ASSUME NEW f, Opening(f)
      PROVE  PendInv'
  BY <1>2, PendOpened
<1>3. CASE Resuming
  BY <1>3, PendResumed
<1>4. CASE Closing
  BY <1>4, PendClosed
<1>5. CASE EndCompound
  BY <1>5, PendBlockClosed
<1>6. CASE VisitStrayJump
  BY <1>6, PendJumped
<1>7. CASE EndFunction
  BY <1>7, PendEnded
<1>8. ASSUME NEW c, BlockOpening(c)
      PROVE  PendInv'
  BY <1>8, PendBlockOpened
<1>9. ASSUME NEW i, NEW st, Leaving(i, st)
      PROVE  PendInv'
  BY <1>9, PendJumped
<1>10. CASE IterateAgain
  BY <1>10, PendAgain
<1>11. QED
  BY <1>1, <1>2, <1>3, <1>4, <1>5, <1>6, <1>7, <1>8, <1>9, <1>10, NextShapes

-------------------------------------------------------------------------------
(* The clean-up code that is emitted, against what is pending.              *)

\* The item is pending in block j.
Held(it, j, ds, cs) ==
    \/ \E k \in 1..Len(ds[j]) : it = ds[j][k]
    \/ \E k \in 1..Len(cs[j]) : it = cs[j][k]

\* items are those pending in the blocks after the a-th, up to the n-th ...
Covers(items, a, n, ds, cs) ==
    /\ \A p \in 1..Len(items) : \E j \in (a + 1)..n : Held(items[p], j, ds, cs)
    /\ \A j \in (a + 1)..n : \A it : Held(it, j, ds, cs) => \E p \in 1..Len(items) : items[p] = it

\* ... each of them once, and a string after the defers that name it.
Distinct(items) ==
    \A p, q \in 1..Len(items) : Owed(items[p]) = Owed(items[q]) => p = q
DefersFirst(items) ==
    \A p, q \in 1..Len(items) :
        /\ items[p].kind = "string" /\ items[q].kind = "defer"
        /\ items[q].var = items[p].id
        => q < p

\* The stacks, as far as the clean-up code depends on them.
Kept(ds, cs, strs, n) ==
    /\ ds \in Seq(Seq(PendingItem)) /\ cs \in Seq(Seq(PendingItem)) /\ Len(cs) = Len(ds)
    /\ Numbered(ds, "defer", n) /\ Numbered(cs, "string", n)
    /\ \A j \in 1..Len(cs) : \A k \in 1..Len(cs[j]) : cs[j][k].id \in strs
    /\ DefersIn(ds, cs, strs)

\* An obligation is pending in one place.
LEMMA HeldOnce ==
    ASSUME NEW ds, NEW cs, NEW strs, NEW n, Kept(ds, cs, strs, n),
           NEW i \in 1..Len(ds), NEW j \in 1..Len(ds), NEW x, NEW y,
           Held(x, i, ds, cs), Held(y, j, ds, cs), Owed(x) = Owed(y)
    PROVE  i = j /\ x = y
<1>1. x.kind = y.kind /\ x.id = y.id
  BY DEF Owed
<1>2. i \in 1..Len(cs) /\ j \in 1..Len(cs)
  BY DEF Kept
<1>3. Numbered(ds, "defer", n) /\ Numbered(cs, "string", n)
  BY DEF Kept
<1>4. /\ \A k \in 1..Len(ds[i]) : ds[i][k].kind = "defer"
      /\ \A k \in 1..Len(ds[j]) : ds[j][k].kind = "defer"
      /\ \A k \in 1..Len(ds[i]), l \in 1..Len(ds[j]) :
            ds[i][k].id = ds[j][l].id => i = j /\ k = l
  BY <1>3 DEF Numbered
<1>5. /\ \A k \in 1..Len(cs[i]) : cs[i][k].kind = "string"
      /\ \A k \in 1..Len(cs[j]) : cs[j][k].kind = "string"
      /\ \A k \in 1..Len(cs[i]), l \in 1..Len(cs[j]) :
            cs[i][k].id = cs[j][l].id => i = j /\ k = l
  BY <1>2, <1>3 DEF Numbered
<1>6. ASSUME NEW k \in 1..Len(ds[i]), x = ds[i][k]
      PROVE  i = j /\ x = y
  <2>1. PICK l \in 1..Len(ds[j]) : y = ds[j][l]
    <3>1. y.kind = "defer" /\ "defer" # "string"
      BY <1>1, <1>4, <1>6
    <3>2. QED
      BY <1>5, <3>1 DEF Held
  <2>2. i = j /\ k = l
    BY <1>1, <1>4, <1>6, <2>1
  <2>3. QED
    BY <1>6, <2>1, <2>2
<1>7. ASSUME NEW k \in 1..Len(cs[i]), x = cs[i][k]
      PROVE  i = j /\ x = y
  <2>1. PICK l \in 1..Len(cs[j]) : y = cs[j][l]
    <3>1. y.kind = "string" /\ "defer" # "string"
      BY <1>1, <1>5, <1>7
    <3>2. QED
      BY <1>4, <3>1 DEF Held
  <2>2. i = j /\ k = l
    BY <1>1, <1>5, <1>7, <2>1
  <2>3. QED
    BY <1>7, <2>1, <2>2
<1>8. QED
  BY <1>6, <1>7 DEF Held

\* The code of one block: its defers and then its strings, from the last.
Turned(items, a, b) ==
    /\ Len(items) = Len(a) + Len(b)
    /\ \A p \in 1..Len(a) : items[p] = a[Len(a) - p + 1]
    /\ \A p \in 1..Len(b) : items[Len(a) + p] = b[Len(b) - p + 1]

LEMMA TurnedItems ==
    ASSUME NEW ds, NEW cs, NEW strs, NEW n, Kept(ds, cs, strs, n), NEW i \in 1..Len(ds),
           NEW items, Turned(items, ds[i], cs[i])
    PROVE  /\ Covers(items, i - 1, i, ds, cs)
           /\ Distinct(items) /\ DefersFirst(items) /\ Len(items) \in Nat
<1>1. PICK a \in Nat, b \in Nat : a = Len(ds[i]) /\ b = Len(cs[i])
  <2>1. i \in 1..Len(cs)
    BY DEF Kept
  <2>2. ds[i] \in Seq(PendingItem) /\ cs[i] \in Seq(PendingItem)
    BY <2>1, ElementOfSeq DEF Kept
  <2>3. QED
    BY <2>2
<1>2. /\ Len(items) = a + b
      /\ \A p \in 1..a : items[p] = ds[i][a - p + 1]
      /\ \A p \in 1..b : items[a + p] = cs[i][b - p + 1]
  BY <1>1 DEF Turned
<1>3. /\ \A k \in 1..a : ds[i][k].kind = "defer"
      /\ \A k \in 1..b : cs[i][k].kind = "string"
      /\ \A k, l \in 1..a : ds[i][k].id = ds[i][l].id => k = l
      /\ \A k, l \in 1..b : cs[i][k].id = cs[i][l].id => k = l
  <2>1. i \in 1..Len(cs) /\ Numbered(ds, "defer", n) /\ Numbered(cs, "string", n)
    BY DEF Kept
  <2>2. /\ \A k \in 1..Len(ds[i]) : ds[i][k].kind = "defer"
        /\ \A k, l \in 1..Len(ds[i]) : ds[i][k].id = ds[i][l].id => k = l
    BY <2>1, SMTT(30) DEF Numbered
  <2>3. /\ \A k \in 1..Len(cs[i]) : cs[i][k].kind = "string"
        /\ \A k, l \in 1..Len(cs[i]) : cs[i][k].id = cs[i][l].id => k = l
    BY <2>1 DEF Numbered
  <2>4. QED
    BY <1>1, <2>2, <2>3
<1>4. ASSUME NEW p \in 1..(a + b)
      PROVE  \/ \E k \in 1..a : k = a - p + 1 /\ p \in 1..a /\ items[p] = ds[i][k]
             \/ \E k \in 1..b : k = b - (p - a) + 1 /\ p > a /\ items[p] = cs[i][k]
  <2>1. CASE p <= a
    <3>1. p \in 1..a /\ a - p + 1 \in 1..a
      BY <2>1
    <3>2. QED
      BY <1>2, <3>1
  <2>2. CASE ~(p <= a)
    <3>1. PICK m \in 1..b : m = p - a /\ a + m = p
      <4>1. p - a \in 1..b /\ a + (p - a) = p
        BY <2>2
      <4>2. QED
        BY <4>1
    <3>2. b - m + 1 \in 1..b /\ p > a
      BY <2>2
    <3>3. QED
      BY <1>2, <3>1, <3>2
  <2>3. QED
    BY <2>1, <2>2
<1>5. \A p \in 1..(a + b) : Held(items[p], i, ds, cs)
  BY <1>1, <1>4 DEF Held
<1>6. ASSUME NEW it, Held(it, i, ds, cs)
      PROVE  \E p \in 1..(a + b) : items[p] = it
  <2>1. ASSUME NEW k \in 1..a, it = ds[i][k]
        PROVE  \E p \in 1..(a + b) : items[p] = it
    <3>1. PICK p \in 1..a : p = a - k + 1 /\ a - p + 1 = k
      <4>1. a - k + 1 \in 1..a /\ a - (a - k + 1) + 1 = k
        OBVIOUS
      <4>2. QED
        BY <4>1
    <3>2. items[p] = it /\ p \in 1..(a + b)
      BY <1>2, <2>1, <3>1
    <3>3. QED
      BY <3>2
  <2>2. ASSUME NEW k \in 1..b, it = cs[i][k]
        PROVE  \E p \in 1..(a + b) : items[p] = it
    <3>1. PICK p \in 1..b : p = b - k + 1 /\ b - p + 1 = k
      <4>1. b - k + 1 \in 1..b /\ b - (b - k + 1) + 1 = k
        OBVIOUS
      <4>2. QED
        BY <4>1
    <3>2. items[a + p] = cs[i][b - p + 1]
      BY <1>2
    <3>3. a + p \in 1..(a + b)
      OBVIOUS
    <3>4. QED
      BY <2>2, <3>1, <3>2, <3>3
  <2>3. QED
    BY <1>1, <1>6, <2>1, <2>2 DEF Held
<1>7. Covers(items, i - 1, i, ds, cs)
  <2>1. \A j \in (i - 1 + 1)..i : j = i
    OBVIOUS
  <2>2. i \in (i - 1 + 1)..i
    OBVIOUS
  <2>3. QED
    BY <1>2, <1>5, <1>6, <2>1, <2>2 DEF Covers
<1>8. ASSUME NEW p \in 1..(a + b), NEW q \in 1..(a + b)
      PROVE  /\ Owed(items[p]) = Owed(items[q]) => p = q
             /\ items[p].kind = "string" /\ items[q].kind = "defer" => q < p
  <2>1. "defer" # "string"
    OBVIOUS
  <2>2. ASSUME NEW k \in 1..a, k = a - p + 1, p \in 1..a, items[p] = ds[i][k]
        PROVE  /\ Owed(items[p]) = Owed(items[q]) => p = q
               /\ items[p].kind # "string"
    <3>1. ASSUME NEW l \in 1..a, l = a - q + 1, items[q] = ds[i][l],
                 Owed(items[p]) = Owed(items[q])
          PROVE  p = q
      <4>1. k = l
        BY <1>3, <2>2, <3>1 DEF Owed
      <4>2. a - p + 1 = a - q + 1
        BY <2>2, <3>1, <4>1
      <4>3. QED
        BY <4>2
    <3>2. ASSUME NEW l \in 1..b, items[q] = cs[i][l]
          PROVE  Owed(items[p]) # Owed(items[q])
      BY <1>3, <2>1, <2>2, <3>2 DEF Owed
    <3>3. items[p].kind # "string"
      BY <1>3, <2>1, <2>2
    <3>4. QED
      BY <1>4, <3>1, <3>2, <3>3
  <2>3. ASSUME NEW k \in 1..b, k = b - (p - a) + 1, p > a, items[p] = cs[i][k]
        PROVE  /\ Owed(items[p]) = Owed(items[q]) => p = q
               /\ items[q].kind = "defer" => q < p
    <3>1. ASSUME NEW l \in 1..b, l = b - (q - a) + 1, items[q] = cs[i][l],
                 Owed(items[p]) = Owed(items[q])
          PROVE  p = q
      <4>1. k = l
        BY <1>3, <2>3, <3>1 DEF Owed
      <4>2. b - (p - a) + 1 = b - (q - a) + 1
        BY <2>3, <3>1, <4>1
      <4>3. QED
        BY <4>2
    <3>2. ASSUME NEW l \in 1..a, q \in 1..a, items[q] = ds[i][l]
          PROVE  Owed(items[p]) # Owed(items[q]) /\ q < p
      <4>1. Owed(items[p]) # Owed(items[q])
        BY <1>3, <2>1, <2>3, <3>2 DEF Owed
      <4>2. q < p
        BY <2>3, <3>2
      <4>3. QED
        BY <4>1, <4>2
    <3>3. ASSUME NEW l \in 1..b, items[q] = cs[i][l]
          PROVE  items[q].kind # "defer"
      BY <1>3, <2>1, <3>3
    <3>4. QED
      BY <1>4, <3>1, <3>2, <3>3
  <2>4. QED
    BY <1>4, <2>2, <2>3
<1>9. Distinct(items) /\ DefersFirst(items)
  BY <1>2, <1>8 DEF Distinct, DefersFirst
<1>10. Len(items) \in Nat
  BY <1>2
<1>11. QED
  BY <1>7, <1>9, <1>10

\* One block more, around those whose code is already there.
LEMMA JoinedItems ==
    ASSUME NEW ds, NEW cs, NEW strs, NEW m, Kept(ds, cs, strs, m), NEW n \in Nat, n = Len(ds),
           NEW i \in 1..n, NEW u \in Seq(PendingItem), NEW w \in Seq(PendingItem),
           NEW items, items = u \o w,
           Covers(u, i, n, ds, cs), Distinct(u), DefersFirst(u),
           Covers(w, i - 1, i, ds, cs), Distinct(w), DefersFirst(w)
    PROVE  Covers(items, i - 1, n, ds, cs) /\ Distinct(items) /\ DefersFirst(items)
<1>1. PICK a \in Nat, b \in Nat : a = Len(u) /\ b = Len(w)
  OBVIOUS
<1>2. /\ Len(items) = a + b
      /\ \A p \in 1..a : items[p] = u[p]
      /\ \A p \in 1..b : items[a + p] = w[p]
  BY <1>1, ConcatFacts
<1>3. \A p \in 1..(a + b) : p \in 1..a \/ \E q \in 1..b : p = a + q
  <2>1. ASSUME NEW p \in 1..(a + b), ~(p <= a)
        PROVE  \E q \in 1..b : p = a + q
    <3>1. p - a \in 1..b /\ p = a + (p - a)
      BY <2>1
    <3>2. QED
      BY <3>1
  <2>2. QED
    BY <2>1
<1>4. (i - 1) + 1 = i /\ i \in 1..n /\ i - 1 \in Nat
  OBVIOUS
<1>5. \A p \in 1..a : \E j \in (i + 1)..n : Held(u[p], j, ds, cs)
  BY <1>1 DEF Covers
<1>6. \A p \in 1..b : Held(w[p], i, ds, cs)
  <2>1. \A j \in (i - 1 + 1)..i : j = i
    OBVIOUS
  <2>2. QED
    BY <1>1, <2>1 DEF Covers
<1>7. /\ \A j \in (i + 1)..n : j \in i..n /\ j \in 1..n /\ j # i
      /\ i \in i..n
      /\ \A j \in i..n : j = i \/ j \in (i + 1)..n
  OBVIOUS
<1>8. ASSUME NEW p \in 1..(a + b)
      PROVE  \E j \in i..n : Held(items[p], j, ds, cs)
  BY <1>2, <1>3, <1>5, <1>6, <1>7
<1>9. ASSUME NEW j \in i..n, NEW it, Held(it, j, ds, cs)
      PROVE  \E p \in 1..(a + b) : items[p] = it
  <2>1. CASE j = i
    <3>1. i \in (i - 1 + 1)..i
      OBVIOUS
    <3>2. PICK q \in 1..b : w[q] = it
      BY <1>1, <1>9, <2>1, <3>1 DEF Covers
    <3>3. a + q \in 1..(a + b)
      OBVIOUS
    <3>4. items[a + q] = it
      BY <1>2, <3>2
    <3>5. QED
      BY <3>3, <3>4
  <2>2. CASE j \in (i + 1)..n
    <3>1. PICK q \in 1..a : u[q] = it
      BY <1>1, <1>9, <2>2 DEF Covers
    <3>2. q \in 1..(a + b)
      OBVIOUS
    <3>3. items[q] = it
      BY <1>2, <3>1
    <3>4. QED
      BY <3>2, <3>3
  <2>3. QED
    BY <1>7, <2>1, <2>2
<1>10. Covers(items, i - 1, n, ds, cs)
  <2>1. Len(items) = a + b
    BY <1>2
  <2>2. \A p \in 1..Len(items) : \E j \in ((i - 1) + 1)..n : Held(items[p], j, ds, cs)
    BY <1>4, <1>8, <2>1
  <2>3. \A j \in ((i - 1) + 1)..n : \A it :
           Held(it, j, ds, cs) => \E p \in 1..Len(items) : items[p] = it
    BY <1>4, <1>9, <2>1
  <2>4. QED
    BY <2>2, <2>3 DEF Covers
<1>11. ASSUME NEW p \in 1..a, NEW q \in 1..b
       PROVE  Owed(u[p]) # Owed(w[q])
  <2>1. PICK j \in (i + 1)..n : Held(u[p], j, ds, cs)
    BY <1>5
  <2>2. j \in 1..Len(ds) /\ i \in 1..Len(ds) /\ j # i
    BY <1>7
  <2>3. QED
    BY <1>6, <2>1, <2>2, HeldOnce
<1>12. Distinct(items)
  <2>1. ASSUME NEW p \in 1..(a + b), NEW q \in 1..(a + b), Owed(items[p]) = Owed(items[q])
        PROVE  p = q
    <3>1. CASE p \in 1..a /\ q \in 1..a
      BY <1>1, <1>2, <2>1, <3>1 DEF Distinct
    <3>2. ASSUME NEW k \in 1..b, p = a + k, NEW l \in 1..b, q = a + l
          PROVE  p = q
      BY <1>1, <1>2, <2>1, <3>2 DEF Distinct
    <3>3. ASSUME p \in 1..a, NEW l \in 1..b, q = a + l
          PROVE  FALSE
      BY <1>2, <1>11, <2>1, <3>3
    <3>4. ASSUME q \in 1..a, NEW l \in 1..b, p = a + l
          PROVE  FALSE
      BY <1>2, <1>11, <2>1, <3>4
    <3>5. QED
      BY <1>3, <3>1, <3>2, <3>3, <3>4
  <2>2. QED
    BY <1>2, <2>1 DEF Distinct
\* A defer of this block that names a string names one of a block around it.
<1>13. ASSUME NEW p \in 1..a, NEW q \in 1..b, u[p].kind = "string", w[q].kind = "defer",
              w[q].var = u[p].id
       PROVE  FALSE
  <2>1. PICK j \in (i + 1)..n : Held(u[p], j, ds, cs)
    BY <1>5
  <2>2. j \in 1..Len(ds) /\ j \in 1..Len(cs) /\ i \in 1..Len(ds) /\ i \in 1..Len(cs) /\ i < j
    BY <1>7 DEF Kept
  <2>3. "defer" # "string"
    OBVIOUS
  <2>4. PICK k \in 1..Len(cs[j]) : u[p] = cs[j][k]
    BY <1>13, <2>1, <2>2, <2>3, ZenonT(30) DEF Held, Kept, Numbered
  <2>5. PICK l \in 1..Len(ds[i]) : w[q] = ds[i][l]
    <3>1. Held(w[q], i, ds, cs)
      BY <1>6
    <3>2. \A l \in 1..Len(cs[i]) : cs[i][l].kind = "string"
      BY <2>2 DEF Kept, Numbered
    <3>3. QED
      BY <1>13, <2>3, <3>1, <3>2 DEF Held
  <2>6. ds[i][l].var \in strs
    BY <1>13, <2>2, <2>4, <2>5 DEF Kept
  <2>7. PendingIn(cs, ds[i][l].var, i)
    BY <2>2, <2>6 DEF Kept, DefersIn
  <2>8. PICK g, h : g \in 1..i /\ h \in 1..Len(cs[g]) /\ cs[g][h].var = ds[i][l].var
    BY <2>7 DEF PendingIn
  <2>9. g \in 1..Len(cs) /\ g # j
    <3>1. Len(cs) = n /\ i \in 1..n /\ g \in 1..i
      BY <2>8 DEF Kept
    <3>2. g \in 1..n
      BY <3>1
    <3>3. g # j
      BY <2>2, <3>1
    <3>4. QED
      BY <3>1, <3>2, <3>3
  <2>10. cs[g][h] \in PendingItem /\ cs[g][h].kind = "string"
    <3>1. cs \in Seq(Seq(PendingItem))
      BY DEF Kept
    <3>2. cs[g][h] \in PendingItem
      BY <2>8, <2>9, <3>1, ItemOf
    <3>3. QED
      BY <2>8, <2>9, <3>2 DEF Kept, Numbered
  <2>11. cs[g][h].id = cs[j][k].id
    BY <1>13, <2>4, <2>5, <2>8, <2>10 DEF PendingItem
  <2>12. QED
    <3>1. Numbered(cs, "string", m)
      BY DEF Kept
    <3>2. QED
      BY <2>2, <2>4, <2>8, <2>9, <2>11, <3>1 DEF Numbered
<1>14. DefersFirst(items)
  <2>1. ASSUME NEW p \in 1..(a + b), NEW q \in 1..(a + b), items[p].kind = "string",
               items[q].kind = "defer", items[q].var = items[p].id
        PROVE  q < p
    <3>1. CASE p \in 1..a /\ q \in 1..a
      BY <1>1, <1>2, <2>1, <3>1 DEF DefersFirst
    <3>2. ASSUME NEW k \in 1..b, p = a + k, NEW l \in 1..b, q = a + l
          PROVE  q < p
      <4>1. l < k
        BY <1>1, <1>2, <2>1, <3>2 DEF DefersFirst
      <4>2. QED
        BY <3>2, <4>1
    <3>3. ASSUME p \in 1..a, NEW l \in 1..b, q = a + l
          PROVE  FALSE
      BY <1>2, <1>13, <2>1, <3>3
    <3>4. ASSUME q \in 1..a, NEW l \in 1..b, p = a + l
          PROVE  q < p
      BY <3>4
    <3>5. QED
      BY <1>3, <3>1, <3>2, <3>3, <3>4
  <2>2. QED
    BY <1>2, <2>1 DEF DefersFirst
<1>15. QED
  BY <1>10, <1>12, <1>14

\* Wherever the clean-up code is cut off, it is that of the blocks that are left.
LEMMA EmissionFacts ==
    ASSUME StackInv, PendInv, NEW depth \in 0..Len(deferScopes)
    PROVE  /\ EmitDefersFrom(depth) \in Seq(PendingItem)
           /\ Covers(EmitDefersFrom(depth), depth, Len(deferScopes), deferScopes, cleanupScopes)
           /\ Distinct(EmitDefersFrom(depth)) /\ DefersFirst(EmitDefersFrom(depth))
<1>1. PICK n, ds, cs : n \in Nat /\ n = Len(ds) /\ ds = deferScopes /\ cs = cleanupScopes
  BY DEF StackInv, Paired
<1>2. Paired(PendingItem, deferScopes, cleanupScopes)
  BY DEF StackInv
<1>3. Kept(ds, cs, strings, visited)
  BY <1>1, <1>2 DEF Kept, Paired, PendInv, Known
<1>4. PICK E : E = [d \in 0..n |-> EmitDefersFrom(d)]
  OBVIOUS
<1>5. /\ \A d \in 0..n : E[d] = EmitDefersFrom(d)
      /\ \A d \in 0..n : E[d] \in Seq(PendingItem)
      /\ E[n] = <<>>
  <2>1. n \in 0..n /\ n = Len(deferScopes)
    BY <1>1
  <2>2. QED
    BY <1>2, <1>4, <2>1, EmitSteps
<1>6. PICK S : S = [d \in 1..n |-> ScopeItems(d)]
  OBVIOUS
<1>7. ASSUME NEW d \in 1..n
      PROVE  /\ S[d] \in Seq(PendingItem) /\ Turned(S[d], ds[d], cs[d])
             /\ E[d - 1] = E[d] \o S[d]
  <2>1. d - 1 \in 0..n /\ d \in 0..n /\ d \in 1..Len(deferScopes)
    BY <1>1
  <2>2. S[d] = ScopeItems(d)
    BY <1>6
  <2>3. EmitDefersFrom(d - 1) = EmitDefersFrom(d) \o ScopeItems(d)
    BY <1>2, <2>1, EmitSteps
  <2>4. E[d - 1] = E[d] \o S[d]
    BY <1>5, <2>1, <2>2, <2>3
  <2>5. S[d] \in Seq(PendingItem) /\ Turned(S[d], ds[d], cs[d])
    BY <1>1, <1>2, <2>1, <2>2, ScopeItemsFacts, ZenonT(30) DEF Turned
  <2>6. QED
    BY <2>4, <2>5
<1> DEFINE Good(d) == Covers(E[d], d, n, ds, cs) /\ Distinct(E[d]) /\ DefersFirst(E[d])
<1>8. Good(n)
  <2>1. Len(E[n]) = 0
    BY <1>5
  <2>2. \A j \in (n + 1)..n : FALSE
    BY <1>1
  <2>3. QED
    BY <2>1, <2>2 DEF Covers, Distinct, DefersFirst
<1>9. ASSUME NEW d \in 1..n, Good(d)
      PROVE  Good(d - 1)
  <2>1. PICK u \in Seq(PendingItem), w \in Seq(PendingItem) : u = E[d] /\ w = S[d]
    <3>1. d \in 0..n
      OBVIOUS
    <3>2. QED
      BY <1>5, <1>7, <3>1
  <2>2. PICK items : items = E[d - 1] /\ items = u \o w
    BY <1>7, <2>1
  <2>3. Covers(u, d, n, ds, cs) /\ Distinct(u) /\ DefersFirst(u)
    BY <1>9, <2>1
  <2>4. Covers(w, d - 1, d, ds, cs) /\ Distinct(w) /\ DefersFirst(w)
    <3>1. d \in 1..Len(ds) /\ Turned(w, ds[d], cs[d])
      BY <1>1, <1>7, <2>1
    <3>2. QED
      BY <1>3, <3>1, TurnedItems
  <2>5. Covers(items, d - 1, n, ds, cs) /\ Distinct(items) /\ DefersFirst(items)
    BY <1>1, <1>3, <2>2, <2>3, <2>4, JoinedItems
  <2>6. QED
    BY <2>2, <2>5
<1>10. \A d \in 0..n : Good(d)
  <2> DEFINE Bad == {m \in Nat : m <= n /\ ~Good(n - m)}
  <2>1. SUFFICES ASSUME Bad # {} PROVE FALSE
    <3>1. ASSUME NEW d \in 0..n, ~Good(d)
          PROVE  Bad # {}
      <4>1. PICK m \in Nat : m <= n /\ n - m = d
        <5>1. n - d \in Nat /\ n - d <= n /\ n - (n - d) = d
          BY <1>1
        <5>2. QED
          BY <5>1
      <4>2. m \in Bad
        BY <3>1, <4>1
      <4>3. QED
        BY <4>2
    <3>2. QED
      BY <3>1
  <2>2. Bad \in SUBSET Nat
    OBVIOUS
  <2>3. PICK m \in Bad : \A j \in Bad : m <= j
    <3> HIDE DEF Bad
    <3>1. QED
      BY <2>1, <2>2, FirstExists
  <2>4. m \in Nat /\ m <= n /\ ~Good(n - m)
    OBVIOUS
  <2>5. m # 0
    <3>1. n - 0 = n
      BY <1>1
    <3>2. QED
      BY <1>8, <2>4, <3>1
  <2>6. PICK l \in Nat, d \in 1..n : l <= n /\ ~(m <= l) /\ n - l = d /\ n - m = d - 1
    <3>1. /\ m - 1 \in Nat /\ m - 1 <= n /\ ~(m <= m - 1) /\ n - m + 1 \in 1..n
          /\ n - (m - 1) = n - m + 1 /\ n - m = n - m + 1 - 1
      BY <1>1, <2>4, <2>5
    <3>2. PICK l \in Nat : l = m - 1
      BY <3>1
    <3>3. PICK d \in 1..n : d = n - m + 1
      BY <3>1
    <3>4. l <= n /\ ~(m <= l) /\ n - l = d /\ n - m = d - 1
      BY <1>1, <2>4, <3>2, <3>3
    <3>5. QED
      BY <3>4
  <2>7. l \notin Bad
    BY <2>3, <2>6
  <2>8. Good(d)
    <3>1. Good(n - l)
      BY <2>6, <2>7
    <3>2. QED
      BY <2>6, <3>1
  <2>9. Good(d - 1)
    BY <1>9, <2>8
  <2>10. QED
    BY <2>4, <2>6, <2>9
<1>11. depth \in 0..n
  BY <1>1
<1>12. Good(depth)
  BY <1>10, <1>11
<1>13. QED
  BY <1>1, <1>5, <1>11, <1>12

-------------------------------------------------------------------------------
(* What the execution still has to run, and what it has.                    *)

\* What is owed in the m outermost blocks.
DueIn(ds, cs, m) ==
    {o \in Obligation : \E j \in 1..m : \E it : Held(it, j, ds, cs) /\ o = Owed(it)}
Release(v) == [kind |-> "string", id |-> v]

\* Where due is owed and rn has been run, of the first n statements: nothing runs
\* again; a string owns a buffer only as long as its release is owed, and until then
\* it has a buffer that is its own, or its declaration was skipped.
Sound(due, rn, sto, fre, res, wl, sk, n) ==
    /\ \A p, q \in 1..Len(rn) : rn[p] = rn[q] => p = q
    /\ \A p \in 1..Len(rn) : rn[p] \notin due /\ rn[p].id <= n
    /\ \A v \in Ids : Release(v) \in due => v \notin fre /\ (sto[v] = "unborn" => sk)
    /\ \A v \in Ids : sto[v] = "owner" => Release(v) \in due
    /\ wl => sk
    /\ fre \subseteq 1..n
    /\ res \notin fre
RunInv ==
    Sound(DueIn(deferScopes, cleanupScopes, Len(frames)), ran, store, freed, result, wild,
          skipped, visited)

LEMMA Depth ==
    ASSUME NEW c, Nested(c), NEW lv, NEW m, NEW out, Where(c, lv, m, out)
    PROVE  /\ m \in 0..CountIn(c, Len(c), Blocks)
           /\ lv => m = CountIn(c, Len(c), Blocks) /\ ~out
<1>1. PICK p \in 0..Len(c) : At(c, lv, m, out, p)
  BY DEF Where
<1>2. PICK n \in Nat : n = Len(c)
  BY DEF Nested
<1>3. PICK a \in Nat : a = CountIn(c, p, Blocks) /\ p \in Nat /\ p <= n
  <2>1. p \in Nat /\ p <= n
    BY <1>2
  <2>2. CountIn(c, p, Blocks) \in Nat
    BY <2>1, CountType
  <2>3. QED
    BY <2>1, <2>2
<1>4. PICK b \in Nat : b = CountIn(c, n, Blocks)
  BY CountType
<1>5. a <= b
  BY <1>2, <1>3, <1>4, CountGrows
<1>6. m = a
  BY <1>1, <1>3 DEF At
<1>7. a \in 0..b
  BY <1>5
<1>8. QED
  BY <1>1, <1>2, <1>4, <1>6, <1>7 DEF At

LEMMA DepthHere ==
    ASSUME StackInv, HoldInv
    PROVE  /\ Len(frames) \in 0..Len(deferScopes) /\ Len(deferScopes) \in Nat
           /\ live => Len(frames) = Len(deferScopes) /\ result = 0
<1>1. Nested(ctl) /\ Len(deferScopes) = CountIn(ctl, Len(ctl), Blocks)
  BY DEF StackInv, Balanced, Levels
<1>2. PICK m, lv, out : m = Len(frames) /\ lv = live /\ out = (result # 0)
  OBVIOUS
<1>3. Where(ctl, lv, m, out)
  BY <1>2 DEF HoldInv
<1>4. /\ m \in 0..CountIn(ctl, Len(ctl), Blocks)
      /\ lv => m = CountIn(ctl, Len(ctl), Blocks) /\ ~out
  BY <1>1, <1>3, Depth
<1>5. Len(deferScopes) \in Nat
  BY DEF StackInv, Paired
<1>6. QED
  BY <1>1, <1>2, <1>4, <1>5

\* Blocks that are opened, or closed where the execution is not, owe nothing to it.
LEMMA DueSliced ==
    ASSUME NEW ds, NEW cs, NEW n \in Nat, Len(ds) = n, Len(cs) = n,
           NEW ds2, NEW cs2, NEW n2 \in Nat, Len(ds2) = n2, Len(cs2) = n2,
           Sliced(ds, ds2), Sliced(cs, cs2), NEW m \in 0..n, NEW m2 \in 0..n2,
           m2 = m \/ (m2 = m + 1 /\ m = n)
    PROVE  DueIn(ds2, cs2, m2) = DueIn(ds, cs, m)
<1>1. /\ \A j \in 1..m2 : j \in 1..n2 /\ (j \in 1..m \/ j \notin 1..n)
      /\ \A j \in 1..m : j \in 1..m2 /\ j \in 1..n
  OBVIOUS
<1>2. ASSUME NEW j \in 1..m
      PROVE  ds2[j] = ds[j] /\ cs2[j] = cs[j]
  <2>1. j \in 1..n2 /\ j \in 1..n
    BY <1>1
  <2>2. QED
    BY <2>1 DEF Sliced
<1>3. \A j \in 1..m : \A it : Held(it, j, ds2, cs2) <=> Held(it, j, ds, cs)
  BY <1>2 DEF Held
<1>4. ASSUME NEW j \in 1..m2, j \notin 1..n, NEW it
      PROVE  ~Held(it, j, ds2, cs2)
  <2>1. ds2[j] = <<>> /\ cs2[j] = <<>>
    BY <1>1, <1>4 DEF Sliced
  <2>2. Len(ds2[j]) = 0 /\ Len(cs2[j]) = 0
    BY <2>1
  <2>3. QED
    BY <2>2 DEF Held
<1>5. \A o : (\E j \in 1..m2 : \E it : Held(it, j, ds2, cs2) /\ o = Owed(it))
               <=> (\E j \in 1..m : \E it : Held(it, j, ds, cs) /\ o = Owed(it))
  BY <1>1, <1>3, <1>4
<1>6. QED
  BY <1>5 DEF DueIn

LEMMA DueSwapped ==
    ASSUME NEW ds, NEW cs, NEW m
    PROVE  DueIn(ds, cs, m) = DueIn(cs, ds, m)
<1>1. \A it, j : Held(it, j, ds, cs) <=> Held(it, j, cs, ds)
  BY DEF Held
<1>2. QED
  BY <1>1 DEF DueIn

\* A further item is owed by an execution that comes through its block.
LEMMA DueAdded ==
    ASSUME NEW ds \in Seq(Seq(PendingItem)), NEW n \in Nat, n = Len(ds), n # 0,
           NEW it \in PendingItem, NEW ds2, Added(ds, ds2, it), NEW cs, NEW m \in 0..n
    PROVE  DueIn(ds2, cs, m) = DueIn(ds, cs, m) \cup (IF m = n THEN {Owed(it)} ELSE {})
<1>1. /\ \A j \in 1..n : \A k \in 1..Len(ds[j]) : k \in 1..Len(ds2[j]) /\ ds2[j][k] = ds[j][k]
      /\ \A j \in 1..n : \A k \in 1..Len(ds2[j]) :
            \/ k \in 1..Len(ds[j]) /\ ds2[j][k] = ds[j][k]
            \/ j = n /\ k = Len(ds[j]) + 1 /\ ds2[j][k] = it
      /\ \E k \in 1..Len(ds2[n]) : ds2[n][k] = it
  <2>1. Len(ds) # 0
    OBVIOUS
  <2>2. QED
    BY <2>1, AddedItems
<1>2. Owed(it) \in Obligation
  BY DEF Owed, PendingItem, Item, Obligation
<1>3. \A j \in 1..m : j \in 1..n /\ (j = n => m = n)
  OBVIOUS
<1>4. ASSUME NEW j \in 1..m, NEW x
      PROVE  Held(x, j, ds2, cs) <=> (Held(x, j, ds, cs) \/ (j = n /\ x = it))
  <2>1. j \in 1..n
    BY <1>3
  <2>2. ASSUME Held(x, j, ds2, cs)
        PROVE  Held(x, j, ds, cs) \/ (j = n /\ x = it)
    BY <1>1, <2>1, <2>2, ZenonT(30) DEF Held
  <2>3. ASSUME Held(x, j, ds, cs)
        PROVE  Held(x, j, ds2, cs)
    BY <1>1, <2>1, <2>3 DEF Held
  <2>4. ASSUME j = n, x = it
        PROVE  Held(x, j, ds2, cs)
    BY <1>1, <2>4 DEF Held
  <2>5. QED
    BY <2>2, <2>3, <2>4
<1>5. ASSUME NEW o
      PROVE  o \in DueIn(ds2, cs, m) <=> (o \in DueIn(ds, cs, m) \/ (m = n /\ o = Owed(it)))
  <2>1. CASE m = n
    <3>1. n \in 1..m
      BY <2>1
    <3>2. QED
      BY <1>2, <1>4, <2>1, <3>1 DEF DueIn
  <2>2. CASE m # n
    BY <1>3, <1>4, <2>2 DEF DueIn
  <2>3. QED
    BY <2>1, <2>2
<1>6. QED
  BY <1>5

\* What running the clean-up code discharges.
Owing(items) == {Owed(items[p]) : p \in 1..Len(items)}

\* An execution that leaves blocks runs what is owed there, and owes the rest.
LEMMA DueLeft ==
    ASSUME NEW ds, NEW cs, NEW strs, NEW l, Kept(ds, cs, strs, l), NEW n \in Nat, n = Len(ds),
           NEW a \in 0..n, NEW items \in Seq(PendingItem), Covers(items, a, n, ds, cs)
    PROVE  /\ Owing(items) \subseteq DueIn(ds, cs, n)
           /\ DueIn(ds, cs, a) = DueIn(ds, cs, n) \ Owing(items)
<1>0. PICK O : O = {Owed(items[p]) : p \in 1..Len(items)} /\ O = Owing(items)
  BY DEF Owing
<1>1. /\ \A j \in (a + 1)..n : j \in 1..n /\ j \notin 1..a
      /\ \A j \in 1..n : j \in 1..a \/ j \in (a + 1)..n
      /\ \A j \in 1..a : j \in 1..n
  OBVIOUS
<1>2. ASSUME NEW p \in 1..Len(items)
      PROVE  Owed(items[p]) \in DueIn(ds, cs, n)
  <2>1. items[p] \in PendingItem
    BY ElementOfSeq
  <2>2. Owed(items[p]) \in Obligation
    BY <2>1 DEF Owed, PendingItem, Item, Obligation
  <2>3. PICK j \in (a + 1)..n : Held(items[p], j, ds, cs)
    BY DEF Covers
  <2>4. QED
    BY <1>1, <2>2, <2>3 DEF DueIn
<1>3. O \subseteq DueIn(ds, cs, n)
  BY <1>0, <1>2
<1>4. ASSUME NEW o \in DueIn(ds, cs, a)
      PROVE  o \in DueIn(ds, cs, n) /\ o \notin O
  <2>1. o \in Obligation
    BY DEF DueIn
  <2>2. PICK j, it : j \in 1..a /\ Held(it, j, ds, cs) /\ o = Owed(it)
    BY DEF DueIn
  <2>3. o \in DueIn(ds, cs, n)
    BY <1>1, <2>1, <2>2 DEF DueIn
  <2>4. ASSUME NEW p \in 1..Len(items), o = Owed(items[p])
        PROVE  FALSE
    <3>1. PICK i \in (a + 1)..n : Held(items[p], i, ds, cs)
      BY DEF Covers
    <3>2. PICK x : x = items[p] /\ Held(x, i, ds, cs) /\ Owed(x) = Owed(it)
      BY <2>2, <2>4, <3>1
    <3>3. i \in 1..Len(ds) /\ j \in 1..Len(ds) /\ i # j
      BY <1>1, <2>2, <3>1
    <3>4. QED
      BY <2>2, <3>2, <3>3, HeldOnce
  <2>5. QED
    BY <1>0, <2>3, <2>4
<1>5. ASSUME NEW o \in DueIn(ds, cs, n), o \notin O
      PROVE  o \in DueIn(ds, cs, a)
  <2>1. o \in Obligation
    BY DEF DueIn
  <2>2. PICK j, it : j \in 1..n /\ Held(it, j, ds, cs) /\ o = Owed(it)
    BY DEF DueIn
  <2>3. j \notin (a + 1)..n
    BY <1>0, <1>5, <2>2 DEF Covers
  <2>4. QED
    BY <1>1, <2>1, <2>2, <2>3 DEF DueIn
<1>6. QED
  BY <1>0, <1>3, <1>4, <1>5

LEMMA DueEarlier ==
    ASSUME NEW ds, NEW cs, NEW strs, NEW l, Kept(ds, cs, strs, l), NEW n \in Nat, n = Len(ds),
           NEW m \in 0..n, NEW o \in DueIn(ds, cs, m)
    PROVE  o \in Obligation /\ o.id <= l
<1>1. PICK j, it : j \in 1..m /\ Held(it, j, ds, cs) /\ o = Owed(it)
  BY DEF DueIn
<1>2. j \in 1..Len(ds) /\ j \in 1..Len(cs)
  BY <1>1 DEF Kept
<1>3. it.id <= l
  BY <1>1, <1>2 DEF Held, Kept, Numbered
<1>4. QED
  BY <1>1, <1>3 DEF DueIn, Owed

LEMMA SoundKept ==
    ASSUME NEW due, NEW rn, NEW sto, NEW fre, NEW res, NEW wl, NEW sk, NEW n \in Nat,
           Sound(due, rn, sto, fre, res, wl, sk, n), rn \in Seq(Obligation),
           NEW m \in Nat, n <= m
    PROVE  Sound(due, rn, sto, fre, res, wl, sk, m)
<1>1. ASSUME NEW p \in 1..Len(rn)
      PROVE  rn[p].id <= m
  <2>1. rn[p] \in Obligation
    BY ElementOfSeq
  <2>2. PICK a \in Nat : a = rn[p].id
    BY <2>1 DEF Obligation, Ids
  <2>3. a <= n
    BY <2>2 DEF Sound
  <2>4. a <= m
    BY <2>3
  <2>5. QED
    BY <2>2, <2>4
<1>2. fre \subseteq 1..m
  <2>1. \A v \in 1..n : v \in 1..m
    OBVIOUS
  <2>2. QED
    BY <2>1 DEF Sound
<1>3. QED
  BY <1>1, <1>2 DEF Sound

\* Statement m registers the obligation o; a string has its buffer where the
\* execution is at the statement.
Registers(o, m, due, due2, sto, sto2, sk, sk2) ==
    /\ o.id = m /\ (due2 = due \/ due2 = due \cup {o}) /\ (sk => sk2)
    /\ \/ o.kind # "string" /\ sto2 = sto
       \/ /\ o = Release(m) /\ o \in due2 /\ sto \in [Ids -> {"unborn", "owner", "null"}]
          /\ sto2 = [sto EXCEPT ![m] = "owner"]
       \/ o = Release(m) /\ sto2 = sto /\ (o \in due2 => o \in due \/ sk2)

LEMMA SoundRegistered ==
    ASSUME NEW due, NEW rn, NEW sto, NEW fre, NEW res, NEW wl, NEW sk, NEW n \in Nat,
           Sound(due, rn, sto, fre, res, wl, sk, n), rn \in Seq(Obligation),
           NEW o, NEW due2, NEW sto2, NEW sk2, Registers(o, n + 1, due, due2, sto, sto2, sk, sk2)
    PROVE  Sound(due2, rn, sto2, fre, res, wl, sk2, n + 1)
<1>0. /\ o.id = n + 1 /\ (due2 = due \/ due2 = due \cup {o}) /\ (sk => sk2)
      /\ \/ o.kind # "string" /\ sto2 = sto
         \/ /\ o = Release(n + 1) /\ o \in due2
            /\ sto \in [Ids -> {"unborn", "owner", "null"}]
            /\ sto2 = [sto EXCEPT ![n + 1] = "owner"]
         \/ o = Release(n + 1) /\ sto2 = sto /\ (o \in due2 => o \in due \/ sk2)
  BY DEF Registers
<1>1. ASSUME NEW p \in 1..Len(rn)
      PROVE  rn[p].id <= n + 1 /\ rn[p] \notin due2
  <2>1. rn[p] \in Obligation
    BY ElementOfSeq
  <2>2. PICK a \in Nat : a = rn[p].id
    BY <2>1 DEF Obligation, Ids
  <2>3. a <= n
    BY <2>2 DEF Sound
  <2>4. a <= n + 1 /\ a # n + 1
    BY <2>3
  <2>5. rn[p] # o
    BY <1>0, <2>2, <2>4
  <2>6. QED
    BY <1>0, <2>2, <2>4, <2>5 DEF Sound
<1>2. n + 1 \notin fre /\ fre \subseteq 1..(n + 1)
  <2>1. n + 1 \notin 1..n /\ \A v \in 1..n : v \in 1..(n + 1)
    OBVIOUS
  <2>2. QED
    BY <2>1 DEF Sound
<1>3. PICK b : b = n + 1
  OBVIOUS
<1>4. \A v : Release(v).kind = "string" /\ (Release(v) = Release(b) => v = b)
  BY DEF Release
<1>5. ASSUME NEW v \in Ids
      PROVE  /\ Release(v) \in due2 => v \notin fre /\ (sto2[v] = "unborn" => sk2)
             /\ sto2[v] = "owner" => Release(v) \in due2
  <2>1. CASE o.kind # "string" /\ sto2 = sto
    <3>1. Release(v) # o
      BY <1>4, <2>1
    <3>2. Release(v) \in due2 <=> Release(v) \in due
      BY <1>0, <3>1
    <3>3. QED
      BY <1>0, <2>1, <3>2 DEF Sound
  <2>2. CASE /\ o = Release(n + 1) /\ o \in due2
             /\ sto \in [Ids -> {"unborn", "owner", "null"}]
             /\ sto2 = [sto EXCEPT ![n + 1] = "owner"]
    <3>1. CASE v = b
      <4>1. sto2[v] = "owner" /\ "owner" # "unborn"
        BY <1>3, <2>2, <3>1
      <4>2. QED
        BY <1>2, <1>3, <2>2, <3>1, <4>1
    <3>2. CASE v # b
      <4>1. sto2[v] = sto[v]
        BY <1>3, <2>2, <3>2
      <4>2. Release(v) # o
        BY <1>3, <1>4, <2>2, <3>2
      <4>3. Release(v) \in due2 <=> Release(v) \in due
        BY <1>0, <4>2
      <4>4. QED
        BY <1>0, <4>1, <4>3 DEF Sound
    <3>3. QED
      BY <3>1, <3>2
  <2>3. CASE o = Release(n + 1) /\ sto2 = sto /\ (o \in due2 => o \in due \/ sk2)
    <3>1. CASE v = b
      <4>1. sto[v] = "owner" => Release(v) \in due
        BY DEF Sound
      <4>2. Release(v) = o
        BY <1>3, <2>3, <3>1
      <4>3. ASSUME Release(v) \in due
            PROVE  sto[v] = "unborn" => sk
        BY <4>3 DEF Sound
      <4>4. QED
        BY <1>0, <1>2, <1>3, <2>3, <3>1, <4>1, <4>2, <4>3
    <3>2. CASE v # b
      <4>1. Release(v) # o
        BY <1>3, <1>4, <2>3, <3>2
      <4>2. Release(v) \in due2 <=> Release(v) \in due
        BY <1>0, <4>1
      <4>3. QED
        BY <1>0, <2>3, <4>2 DEF Sound
    <3>3. QED
      BY <3>1, <3>2
  <2>4. QED
    BY <1>0, <2>1, <2>2, <2>3
<1>6. QED
  BY <1>0, <1>1, <1>2, <1>5 DEF Sound

\* The execution runs the clean-up code items: what is owed for it, and no more.
Runs(items, rn, rn2) ==
    /\ rn2 \in Seq(Obligation) /\ Len(rn2) = Len(rn) + Len(items)
    /\ \A p \in 1..Len(rn) : rn2[p] = rn[p]
    /\ \A p \in 1..Len(items) : rn2[Len(rn) + p] = Owed(items[p])
Moves(res2, due, sto, st) ==
    /\ sto \in [Ids -> {"unborn", "owner", "null"}]
    /\ \/ st = sto /\ res2 = 0
       \/ /\ res2 \in Ids /\ Release(res2) \in due
          /\ st = [sto EXCEPT ![res2] = "null"]
Released(items) == {items[i].var : i \in {j \in DOMAIN items : items[j].kind = "string"}}
Frees(items, st, sto2, fre, fre2, wl, wl2) ==
    /\ fre2 = fre \cup {v \in Released(items) : st[v] = "owner"}
    /\ sto2 = [v \in Ids |-> IF v \in Released(items) THEN "null" ELSE st[v]]
    /\ wl2 <=> (wl \/ \E v \in Released(items) : st[v] = "unborn")
Sooner(due, n) == \A o \in due : o \in Obligation /\ o.id <= n

LEMMA SoundCleared ==
    ASSUME NEW due, NEW rn, NEW sto, NEW fre, NEW res, NEW wl, NEW sk, NEW n \in Nat,
           Sound(due, rn, sto, fre, res, wl, sk, n), rn \in Seq(Obligation), Sooner(due, n),
           NEW items \in Seq(PendingItem), Distinct(items), Owing(items) \subseteq due,
           NEW rn2, Runs(items, rn, rn2), NEW st, NEW res2, Moves(res2, due, sto, st),
           NEW fre2, NEW sto2, NEW wl2, Frees(items, st, sto2, fre, fre2, wl, wl2)
    PROVE  Sound(due \ Owing(items), rn2, sto2, fre2, res2, wl2, sk, n)
<1> DEFINE O == Owing(items)
           R == Released(items)
<1>a. /\ O = {Owed(items[p]) : p \in 1..Len(items)} /\ O \subseteq due
      /\ R = {items[i].var : i \in {j \in DOMAIN items : items[j].kind = "string"}}
      /\ \A o \in due : o \in Obligation /\ o.id <= n
      /\ rn2 \in Seq(Obligation) /\ Len(rn2) = Len(rn) + Len(items)
      /\ \A p \in 1..Len(rn) : rn2[p] = rn[p]
      /\ \A p \in 1..Len(items) : rn2[Len(rn) + p] = Owed(items[p])
  BY DEF Owing, Released, Sooner, Runs
<1>b. /\ sto \in [Ids -> {"unborn", "owner", "null"}]
      /\ \/ st = sto /\ res2 = 0
         \/ /\ res2 \in Ids /\ Release(res2) \in due
            /\ st = [sto EXCEPT ![res2] = "null"]
      /\ fre2 = fre \cup {v \in R : st[v] = "owner"}
      /\ sto2 = [v \in Ids |-> IF v \in R THEN "null" ELSE st[v]]
      /\ wl2 <=> (wl \/ \E v \in R : st[v] = "unborn")
  BY DEF Moves, Frees
<1> HIDE DEF O, R
<1>1. PICK a \in Nat, b \in Nat : /\ a = Len(rn) /\ b = Len(items) /\ DOMAIN items = 1..b
                                  /\ Len(rn2) = a + b
  BY <1>a
<1>2. \A p \in 1..(a + b) : p \in 1..a \/ \E q \in 1..b : p = a + q
  <2>1. ASSUME NEW p \in 1..(a + b), ~(p <= a)
        PROVE  \E q \in 1..b : p = a + q
    <3>1. p - a \in 1..b /\ p = a + (p - a)
      BY <1>a, <2>1
    <3>2. QED
      BY <1>a, <3>1
  <2>2. QED
    BY <1>a, <2>1
<1>3. /\ \A p \in 1..a : rn2[p] = rn[p]
      /\ \A p \in 1..b : rn2[a + p] = Owed(items[p]) /\ Owed(items[p]) \in O
  BY <1>a, <1>1
<1>4. ASSUME NEW p \in 1..(a + b)
      PROVE  rn2[p] \notin due \ O /\ rn2[p].id <= n
  <2>1. CASE p \in 1..a
    BY <1>a, <1>1, <1>3, <2>1 DEF Sound
  <2>2. ASSUME NEW q \in 1..b, p = a + q
        PROVE  rn2[p] \notin due \ O /\ rn2[p].id <= n
    <3>1. rn2[p] \in O
      BY <1>a, <1>3, <2>2
    <3>2. QED
      BY <1>a, <3>1
  <2>3. QED
    BY <1>a, <1>2, <2>1, <2>2
<1>5. ASSUME NEW p \in 1..(a + b), NEW q \in 1..(a + b), rn2[p] = rn2[q]
      PROVE  p = q
  <2>1. \A i \in 1..a : rn2[i] \notin O
    BY <1>a, <1>1, <1>3 DEF Sound
  <2>2. CASE p \in 1..a /\ q \in 1..a
    BY <1>a, <1>1, <1>3, <1>5, <2>2 DEF Sound
  <2>3. ASSUME NEW k \in 1..b, p = a + k, NEW l \in 1..b, q = a + l
        PROVE  p = q
    <3>1. Owed(items[k]) = Owed(items[l])
      BY <1>a, <1>3, <1>5, <2>3
    <3>2. k = l
      BY <1>a, <1>1, <3>1 DEF Distinct
    <3>3. QED
      BY <1>a, <2>3, <3>2
  <2>4. ASSUME p \in 1..a, NEW l \in 1..b, q = a + l
        PROVE  FALSE
    <3>1. rn2[q] \in O
      BY <1>a, <1>3, <2>4
    <3>2. rn2[p] \notin O
      BY <1>a, <2>1, <2>4
    <3>3. QED
      BY <1>a, <1>5, <3>1, <3>2
  <2>5. ASSUME q \in 1..a, NEW l \in 1..b, p = a + l
        PROVE  FALSE
    <3>1. rn2[p] \in O
      BY <1>a, <1>3, <2>5
    <3>2. rn2[q] \notin O
      BY <1>a, <2>1, <2>5
    <3>3. QED
      BY <1>a, <1>5, <3>1, <3>2
  <2>6. QED
    BY <1>a, <1>2, <2>2, <2>3, <2>4, <2>5
<1>6. ASSUME NEW v
      PROVE  v \in R <=> Release(v) \in O
  <2>1. ASSUME v \in R
        PROVE  Release(v) \in O
    <3>1. PICK i \in 1..b : items[i].kind = "string" /\ v = items[i].var
      BY <1>a, <1>1, <2>1
    <3>2. items[i] \in PendingItem
      BY <1>a, <1>1, ElementOfSeq
    <3>3. items[i].id = v
      BY <1>a, <3>1, <3>2 DEF PendingItem
    <3>4. Owed(items[i]) = Release(v)
      BY <1>a, <3>1, <3>3 DEF Owed, Release
    <3>5. QED
      BY <1>a, <1>3, <3>4
  <2>2. ASSUME Release(v) \in O
        PROVE  v \in R
    <3>1. PICK i \in 1..b : Release(v) = Owed(items[i])
      BY <1>a, <1>1, <2>2
    <3>2. items[i] \in PendingItem
      BY <1>a, <1>1, ElementOfSeq
    <3>3. items[i].kind = "string" /\ items[i].id = v
      BY <1>a, <3>1 DEF Owed, Release
    <3>4. items[i].var = v
      BY <1>a, <3>2, <3>3 DEF PendingItem
    <3>5. QED
      BY <1>a, <1>1, <3>3, <3>4
  <2>3. QED
    BY <1>a, <2>1, <2>2
<1>7. \A v \in R : Release(v) \in due /\ v \in Ids /\ v \in 1..n
  <2>1. ASSUME NEW v \in R
        PROVE  Release(v) \in due /\ v \in Ids /\ v \in 1..n
    <3>1. Release(v) \in due
      BY <1>a, <1>6
    <3>2. Release(v) \in Obligation /\ Release(v).id <= n
      BY <1>a, <3>1
    <3>3. v \in Ids /\ v <= n
      BY <1>a, <3>2 DEF Obligation, Release
    <3>4. QED
      BY <1>a, <3>1, <3>3 DEF Ids
  <2>2. QED
    BY <1>a, <2>1
<1>8. ASSUME NEW v \in Ids
      PROVE  /\ st[v] = "unborn" => sto[v] = "unborn"
             /\ st[v] = "owner" => sto[v] = "owner" /\ v # res2
  <2>1. "null" # "owner" /\ "null" # "unborn" /\ 0 \notin Ids
    BY <1>a, <1>b, BoundsAssumption DEF Ids
  <2>2. QED
    BY <1>a, <1>b, <2>1
<1>9. ASSUME NEW v \in Ids
      PROVE  /\ Release(v) \in due \ O => v \notin fre2 /\ (sto2[v] = "unborn" => sk)
             /\ sto2[v] = "owner" => Release(v) \in due \ O
  <2>1. ASSUME Release(v) \in due \ O
        PROVE  v \notin fre2 /\ (sto2[v] = "unborn" => sk)
    <3>1. v \notin R
      BY <1>a, <1>b, <1>6, <2>1
    <3>2. sto2[v] = st[v]
      BY <1>a, <1>b, <3>1
    <3>3. v \notin fre /\ (sto[v] = "unborn" => sk)
      BY <1>a, <1>b, <2>1 DEF Sound
    <3>4. QED
      BY <1>a, <1>b, <1>8, <3>1, <3>2, <3>3
  <2>2. ASSUME sto2[v] = "owner"
        PROVE  Release(v) \in due \ O
    <3>1. v \notin R /\ st[v] = "owner"
      <4>1. "null" # "owner"
        OBVIOUS
      <4>2. QED
        BY <1>a, <1>b, <2>2, <4>1
    <3>2. sto[v] = "owner"
      BY <1>a, <1>b, <1>8, <3>1
    <3>3. Release(v) \in due
      BY <1>a, <1>b, <3>2 DEF Sound
    <3>4. QED
      BY <1>a, <1>b, <1>6, <3>1, <3>3
  <2>3. QED
    BY <1>a, <1>b, <2>1, <2>2
<1>10. wl2 => sk
  <2>1. ASSUME NEW v \in R, st[v] = "unborn"
        PROVE  sk
    <3>1. v \in Ids /\ Release(v) \in due
      BY <1>a, <1>b, <1>7
    <3>2. sto[v] = "unborn"
      BY <1>a, <1>b, <1>8, <2>1, <3>1
    <3>3. QED
      BY <1>a, <1>b, <3>1, <3>2 DEF Sound
  <2>2. wl => sk
    BY <1>a, <1>b DEF Sound
  <2>3. QED
    BY <1>a, <1>b, <2>1, <2>2
<1>11. fre2 \subseteq 1..n
  BY <1>a, <1>b, <1>7 DEF Sound
<1>12. res2 \notin fre2
  <2>1. CASE res2 = 0
    <3>1. 0 \notin 1..n
      OBVIOUS
    <3>2. QED
      BY <1>11, <2>1, <3>1
  <2>2. CASE res2 \in Ids /\ Release(res2) \in due
    <3>1. res2 \notin fre
      BY <1>a, <1>b, <2>2 DEF Sound
    <3>2. st[res2] # "owner"
      BY <1>a, <1>b, <1>8, <2>2, SMTT(30)
    <3>3. QED
      BY <1>a, <1>b, <3>1, <3>2
  <2>3. QED
    BY <1>a, <1>b, <2>1, <2>2
<1>13. PICK due2 : due2 = due \ O
  OBVIOUS
<1>14. Len(rn2) = a + b
  BY <1>1
<1>15. /\ \A p, q \in 1..Len(rn2) : rn2[p] = rn2[q] => p = q
       /\ \A p \in 1..Len(rn2) : rn2[p] \notin due2 /\ rn2[p].id <= n
  BY <1>4, <1>5, <1>13, <1>14
<1>16. /\ \A v \in Ids : Release(v) \in due2 => v \notin fre2 /\ (sto2[v] = "unborn" => sk)
       /\ \A v \in Ids : sto2[v] = "owner" => Release(v) \in due2
  BY <1>9, <1>13
<1>17. Sound(due2, rn2, sto2, fre2, res2, wl2, sk, n)
  BY <1>10, <1>11, <1>12, <1>15, <1>16 DEF Sound
<1>18. QED
  BY <1>13, <1>17 DEF O

\* Steps that run nothing, while the same is owed.
LEMMA RunQuiet ==
    ASSUME StackInv, RunInv, StackInv', UNCHANGED <<ran, store, freed, wild, result, skipped>>,
           DueIn(deferScopes', cleanupScopes', Len(frames'))
               = DueIn(deferScopes, cleanupScopes, Len(frames)),
           visited' \in {visited, visited + 1}
    PROVE  RunInv'
<1>1. PICK n \in Nat, m \in Nat : n = visited /\ m = visited'
  BY BoundsAssumption DEF StackInv, GenTypes
<1>2. n <= m
  BY <1>1
<1>3. PICK due : due = DueIn(deferScopes, cleanupScopes, Len(frames))
  OBVIOUS
<1>4. Sound(due, ran, store, freed, result, wild, skipped, n) /\ ran \in Seq(Obligation)
  BY <1>1, <1>3 DEF RunInv, StackInv, RunTypes
<1>5. Sound(due, ran, store, freed, result, wild, skipped, m)
  BY <1>2, <1>4, SoundKept
<1>6. Sound(due, ran', store', freed', result', wild', skipped', m)
  BY <1>5
<1>7. QED
  BY <1>1, <1>3, <1>6 DEF RunInv

\* Blocks are opened, or left by code the execution is not at.
LEMMA DueKept ==
    ASSUME StackInv, HoldInv, StackInv', Sliced(deferScopes, deferScopes'),
           Sliced(cleanupScopes, cleanupScopes'), Len(frames') \in 0..Len(deferScopes'),
           \/ Len(frames') = Len(frames)
           \/ Len(frames') = Len(frames) + 1 /\ Len(frames) = Len(deferScopes)
    PROVE  DueIn(deferScopes', cleanupScopes', Len(frames'))
               = DueIn(deferScopes, cleanupScopes, Len(frames))
<1>1. PICK ds, cs : ds = deferScopes /\ cs = cleanupScopes
  OBVIOUS
<1>2. PICK ds2, cs2 : ds2 = deferScopes' /\ cs2 = cleanupScopes'
  OBVIOUS
<1>3. PICK n \in Nat : n = Len(ds) /\ Len(cs) = n
  BY <1>1 DEF StackInv, Paired
<1>4. PICK n2 \in Nat : n2 = Len(ds2) /\ Len(cs2) = n2
  BY <1>2 DEF StackInv, Paired
<1>5. PICK m \in 0..n : m = Len(frames)
  BY <1>1, <1>3, DepthHere
<1>6. PICK m2 \in 0..n2 : m2 = Len(frames')
  BY <1>2, <1>4
<1>7. m2 = m \/ (m2 = m + 1 /\ m = n)
  BY <1>1, <1>3, <1>5, <1>6
<1>8. Sliced(ds, ds2) /\ Sliced(cs, cs2)
  BY <1>1, <1>2
<1>9. DueIn(ds2, cs2, m2) = DueIn(ds, cs, m)
  <2>1. Len(ds) = n /\ Len(cs) = n /\ Len(ds2) = n2 /\ Len(cs2) = n2
    BY <1>3, <1>4
  <2>2. QED
    BY <1>7, <1>8, <2>1, DueSliced
<1>10. QED
  BY <1>1, <1>2, <1>5, <1>6, <1>9

LEMMA RunSame ==
    ASSUME StackInv, RunInv, StackInv', EmitNothing,
           UNCHANGED <<deferScopes, cleanupScopes, frames, result, skipped>>,
           visited' \in {visited, visited + 1}
    PROVE  RunInv'
<1>1. DueIn(deferScopes', cleanupScopes', Len(frames'))
          = DueIn(deferScopes, cleanupScopes, Len(frames))
  OBVIOUS
<1>2. UNCHANGED <<ran, store, freed, wild, result, skipped>>
  BY DEF EmitNothing
<1>3. QED
  BY <1>1, <1>2, RunQuiet

LEMMA KeptHere ==
    ASSUME StackInv, PendInv
    PROVE  Kept(deferScopes, cleanupScopes, strings, visited)
BY DEF StackInv, PendInv, Known, Kept, Paired

LEMMA RunDefer ==
    ASSUME StackInv, HoldInv, RunInv, StackInv', NEW x \in Names, VisitDefer(x)
    PROVE  RunInv'
<1>1. /\ AtStmt /\ Visit /\ deferScopes' = AddTo(deferScopes, Defer(x)) /\ EmitNothing
      /\ frames' = IF live THEN AddTo(frames, Owed(Defer(x))) ELSE frames
      /\ Registered /\ UNCHANGED <<cleanupScopes, result>>
  BY DEF VisitDefer
<1>2. AtDecl /\ visited < MaxStmts /\ ctl # <<>>
  BY <1>1 DEF AtDecl, AtStmt
<1>3. visited' = visited + 1 /\ visited' \in Ids
  BY <1>1, <1>2, VisitTyped
<1>4. PICK n \in Nat : n = visited /\ n + 1 = visited'
  BY <1>3, BoundsAssumption DEF StackInv, GenTypes
<1>5. PICK it \in PendingItem : it = Defer(x) /\ it.kind = "defer" /\ it.id = n + 1
  BY <1>2, <1>3, <1>4, NewItems DEF Defer
<1>6. PICK ds, cs, ds2 : ds = deferScopes /\ cs = cleanupScopes /\ ds2 = deferScopes'
  OBVIOUS
<1>7. PICK l \in Nat : l = Len(ds) /\ l # 0 /\ ds \in Seq(Seq(PendingItem))
  BY <1>2, <1>6, InBlock DEF StackInv, Paired
<1>8. PICK m \in 0..l : m = Len(frames)
  BY <1>6, <1>7, DepthHere
<1>9. Len(frames') = m
  <2>1. frames \in Seq(Seq(Obligation)) /\ Owed(Defer(x)) \in Obligation
    BY <1>2, <1>3, NewItems DEF StackInv, RunTypes
  <2>2. Len(AddTo(frames, Owed(Defer(x)))) = Len(frames)
    BY <2>1, AddToFacts
  <2>3. QED
    BY <1>1, <1>8, <2>2
<1>10. Added(ds, ds2, it)
  <2>1. ds2 = AddTo(ds, it) /\ Len(ds) # 0
    BY <1>1, <1>5, <1>6, <1>7
  <2>2. QED
    BY <1>7, <2>1, AddToAdds
<1>11. PICK due, due2 : due = DueIn(ds, cs, m) /\ due2 = DueIn(ds2, cs, m)
  OBVIOUS
<1>12. due2 = due \/ due2 = due \cup {Owed(it)}
  <2>1. l = Len(ds) /\ l # 0
    BY <1>7
  <2>2. DueIn(ds2, cs, m) = DueIn(ds, cs, m) \cup (IF m = l THEN {Owed(it)} ELSE {})
    BY <1>7, <1>10, <2>1, DueAdded
  <2>3. QED
    BY <1>11, <2>2
<1>13. PICK o : o = Owed(it) /\ o.kind = "defer" /\ o.id = n + 1
  <2>1. Owed(it).kind = "defer" /\ Owed(it).id = n + 1
    BY <1>5 DEF Owed
  <2>2. QED
    BY <2>1
<1>14. Sound(due, ran, store, freed, result, wild, skipped, n) /\ ran \in Seq(Obligation)
  BY <1>4, <1>6, <1>8, <1>11 DEF RunInv, StackInv, RunTypes
<1>15. PICK sk2 : sk2 = skipped' /\ (skipped => sk2)
  BY <1>1 DEF Registered
<1>16. due2 = due \/ due2 = due \cup {o}
  BY <1>12, <1>13
<1>17. PICK sto, sto2 : sto = store /\ sto2 = sto /\ o.kind # "string"
  BY <1>13
<1>18. Sound(due2, ran, store, freed, result, wild, sk2, n + 1)
  <2>1. Sound(due, ran, sto, freed, result, wild, skipped, n)
    BY <1>14, <1>17
  <2>2. Registers(o, n + 1, due, due2, sto, sto2, skipped, sk2)
    BY <1>13, <1>15, <1>16, <1>17 DEF Registers
  <2>3. Sound(due2, ran, sto2, freed, result, wild, sk2, n + 1)
    BY <1>14, <2>1, <2>2, SoundRegistered
  <2>4. QED
    BY <1>17, <2>3
<1>19. cs = cleanupScopes' /\ UNCHANGED <<ran, store, freed, result, wild>>
  BY <1>1, <1>6 DEF EmitNothing
<1>20. QED
  BY <1>4, <1>6, <1>9, <1>11, <1>15, <1>18, <1>19 DEF RunInv

LEMMA RunString ==
    ASSUME StackInv, HoldInv, RunInv, StackInv', NEW x \in Names, VisitStringDecl(x)
    PROVE  RunInv'
<1>1. /\ AtDecl /\ Visit /\ cleanupScopes' = AddTo(cleanupScopes, StringOf(x))
      /\ frames' = IF live THEN AddTo(frames, Owed(StringOf(x))) ELSE frames
      /\ store' = IF live THEN [store EXCEPT ![visited'] = "owner"] ELSE store
      /\ Registered /\ UNCHANGED <<deferScopes, ran, freed, result, wild>>
  BY DEF VisitStringDecl
<1>2. visited < MaxStmts /\ ctl # <<>>
  BY <1>1 DEF AtDecl, AtStmt
<1>3. visited' = visited + 1 /\ visited' \in Ids
  BY <1>1, <1>2, VisitTyped
<1>4. PICK n \in Nat : n = visited /\ n + 1 = visited'
  BY <1>3, BoundsAssumption DEF StackInv, GenTypes
<1>5. PICK it \in PendingItem : it = StringOf(x) /\ it.kind = "string" /\ it.id = n + 1
  BY <1>2, <1>3, <1>4, NewItems DEF StringOf
<1>6. PICK ds, cs, cs2 : ds = deferScopes /\ cs = cleanupScopes /\ cs2 = cleanupScopes'
  OBVIOUS
<1>7. PICK l \in Nat : l = Len(cs) /\ l = Len(ds) /\ l # 0 /\ cs \in Seq(Seq(PendingItem))
  BY <1>1, <1>6, InBlock DEF StackInv, Paired
<1>8. PICK m \in 0..l : m = Len(frames) /\ (live => m = l)
  BY <1>6, <1>7, DepthHere
<1>9. Len(frames') = m
  <2>1. frames \in Seq(Seq(Obligation)) /\ Owed(StringOf(x)) \in Obligation
    BY <1>2, <1>3, NewItems DEF StackInv, RunTypes
  <2>2. Len(AddTo(frames, Owed(StringOf(x)))) = Len(frames)
    BY <2>1, AddToFacts
  <2>3. QED
    BY <1>1, <1>8, <2>2
<1>10. Added(cs, cs2, it)
  <2>1. cs2 = AddTo(cs, it) /\ Len(cs) # 0
    BY <1>1, <1>5, <1>6, <1>7
  <2>2. QED
    BY <1>7, <2>1, AddToAdds
<1>11. PICK due, due2 : due = DueIn(ds, cs, m) /\ due2 = DueIn(ds, cs2, m)
  OBVIOUS
<1>12. PICK o : o = Owed(it) /\ o = Release(n + 1) /\ o.id = n + 1
  <2>1. Owed(it) = [kind |-> it.kind, id |-> it.id]
    BY DEF Owed
  <2>2. Owed(it) = Release(n + 1)
    BY <1>5, <2>1 DEF Release
  <2>3. Release(n + 1).id = n + 1
    BY DEF Release
  <2>4. QED
    BY <2>2, <2>3
<1>13. due2 = due \cup (IF m = l THEN {o} ELSE {})
  <2>1. DueIn(cs2, ds, m) = DueIn(cs, ds, m) \cup (IF m = l THEN {Owed(it)} ELSE {})
    <3>1. l = Len(cs) /\ l # 0
      BY <1>7
    <3>2. QED
      BY <1>7, <1>10, <3>1, DueAdded
  <2>2. DueIn(ds, cs2, m) = DueIn(cs2, ds, m) /\ DueIn(ds, cs, m) = DueIn(cs, ds, m)
    BY DueSwapped
  <2>3. QED
    BY <1>11, <1>12, <2>1, <2>2
<1>14. /\ Sound(due, ran, store, freed, result, wild, skipped, n) /\ ran \in Seq(Obligation)
       /\ store \in [Ids -> {"unborn", "owner", "null"}]
  BY <1>4, <1>6, <1>8, <1>11 DEF RunInv, StackInv, RunTypes
<1>15. PICK sk2 : sk2 = skipped' /\ (skipped => sk2) /\ (~live /\ l <= m => sk2)
  BY <1>1, <1>6, <1>7, <1>8 DEF Registered
<1>16. due2 = due \/ due2 = due \cup {o}
  BY <1>13
<1>17. PICK sto2 : sto2 = store'
  OBVIOUS
<1>18. \/ /\ o = Release(n + 1) /\ o \in due2 /\ store \in [Ids -> {"unborn", "owner", "null"}]
          /\ sto2 = [store EXCEPT ![n + 1] = "owner"]
       \/ o = Release(n + 1) /\ sto2 = store /\ (o \in due2 => o \in due \/ sk2)
  <2>1. CASE live
    <3>1. m = l
      BY <1>8, <2>1
    <3>2. o \in due2
      BY <1>13, <3>1
    <3>3. sto2 = [store EXCEPT ![n + 1] = "owner"]
      BY <1>1, <1>4, <1>17, <2>1
    <3>4. QED
      BY <1>12, <1>14, <3>2, <3>3
  <2>2. CASE ~live
    <3>1. sto2 = store
      BY <1>1, <1>17, <2>2
    <3>2. ASSUME o \in due2, o \notin due
          PROVE  sk2
      <4>1. m = l
        BY <1>13, <3>2
      <4>2. l <= m
        BY <4>1
      <4>3. QED
        BY <1>15, <2>2, <4>2
    <3>3. QED
      BY <1>12, <3>1, <3>2
  <2>3. QED
    BY <2>1, <2>2
<1>19. Sound(due2, ran, sto2, freed, result, wild, sk2, n + 1)
  <2>1. PICK sto : sto = store
    OBVIOUS
  <2>2. Sound(due, ran, sto, freed, result, wild, skipped, n)
    BY <1>14, <2>1
  <2>3. Registers(o, n + 1, due, due2, sto, sto2, skipped, sk2)
    BY <1>12, <1>15, <1>16, <1>18, <2>1 DEF Registers
  <2>4. QED
    BY <1>14, <2>2, <2>3, SoundRegistered
<1>20. ds = deferScopes' /\ UNCHANGED <<ran, freed, result, wild>>
  BY <1>1, <1>6
<1>21. QED
  BY <1>4, <1>6, <1>9, <1>11, <1>15, <1>17, <1>19, <1>20 DEF RunInv

\* The execution runs the clean-up code of the blocks it leaves.
LEMMA RunCleared ==
    ASSUME StackInv, HoldInv, PendInv, RunInv, StackInv', live,
           NEW depth \in 0..Len(deferScopes), NEW st, Emit(EmitDefersFrom(depth), st),
           Len(frames') = depth, depth <= Len(deferScopes'),
           Sliced(deferScopes, deferScopes'), Sliced(cleanupScopes, cleanupScopes'),
           \/ st = store /\ result' = 0
           \/ /\ result' \in Ids
              /\ Release(result') \in DueIn(deferScopes, cleanupScopes, Len(frames))
              /\ st = [store EXCEPT ![result'] = "null"],
           skipped' = skipped, visited' \in {visited, visited + 1}
    PROVE  RunInv'
<1>1. PICK n \in Nat, m \in Nat : n = visited /\ m = visited' /\ n <= m
  <2>1. PICK n \in Nat, m \in Nat : n = visited /\ m = visited'
    BY BoundsAssumption DEF StackInv, GenTypes
  <2>2. n <= m
    BY <2>1
  <2>3. QED
    BY <2>1, <2>2
<1>2. PICK ds, cs, ds2, cs2 :
          /\ ds = deferScopes /\ cs = cleanupScopes
          /\ ds2 = deferScopes' /\ cs2 = cleanupScopes'
  OBVIOUS
<1>3. PICK l \in Nat : l = Len(ds) /\ l = Len(cs)
  BY <1>2 DEF StackInv, Paired
<1>4. PICK l2 \in Nat : l2 = Len(ds2) /\ l2 = Len(cs2)
  BY <1>2 DEF StackInv, Paired
<1>5. Len(frames) = l /\ result = 0
  BY <1>2, <1>3, DepthHere
<1>6. PICK d \in 0..l : d = depth /\ d \in 0..l2
  BY <1>2, <1>3, <1>4
<1>7. PICK items \in Seq(PendingItem) :
          /\ items = EmitDefersFrom(depth) /\ Covers(items, d, l, ds, cs) /\ Distinct(items)
  BY <1>2, <1>3, <1>6, EmissionFacts
<1>8. PICK O : O = Owing(items)
  OBVIOUS
<1>9. PICK due : due = DueIn(ds, cs, l)
  OBVIOUS
<1>10. Kept(ds, cs, strings, n)
  BY <1>1, <1>2, KeptHere
<1>11. O \subseteq due /\ DueIn(ds, cs, d) = due \ O
  <2>1. l = Len(ds) /\ Covers(items, d, l, ds, cs)
    BY <1>3, <1>7
  <2>2. /\ Owing(items) \subseteq DueIn(ds, cs, l)
        /\ DueIn(ds, cs, d) = DueIn(ds, cs, l) \ Owing(items)
    BY <1>10, <2>1, DueLeft
  <2>3. QED
    BY <1>8, <1>9, <2>2
<1>12. DueIn(ds2, cs2, d) = due \ O
  <2>1. Sliced(ds, ds2) /\ Sliced(cs, cs2)
    BY <1>2
  <2>2. DueIn(ds2, cs2, d) = DueIn(ds, cs, d)
    <3>1. Len(ds) = l /\ Len(cs) = l /\ Len(ds2) = l2 /\ Len(cs2) = l2
      BY <1>3, <1>4
    <3>2. PICK d2 \in 0..l2 : d2 = d /\ (d2 = d \/ (d2 = d + 1 /\ d = l))
      BY <1>6
    <3>3. DueIn(ds2, cs2, d2) = DueIn(ds, cs, d)
      BY <2>1, <3>1, <3>2, DueSliced
    <3>4. QED
      BY <3>2, <3>3
  <2>3. QED
    BY <1>11, <2>2
<1>13. \A o \in due : o \in Obligation /\ o.id <= n
  <2>1. l \in 0..l
    OBVIOUS
  <2>2. QED
    BY <1>3, <1>9, <1>10, <2>1, DueEarlier
<1>14. PICK rn, sto, fre, wl, sk :
           /\ rn = ran /\ sto = store /\ fre = freed /\ wl = wild /\ sk = skipped
  OBVIOUS
<1>15. PICK rn2, sto2, fre2, res2, wl2 :
           /\ rn2 = ran' /\ sto2 = store' /\ fre2 = freed' /\ res2 = result' /\ wl2 = wild'
  OBVIOUS
<1>16. /\ Sound(due, rn, sto, fre, result, wl, sk, n) /\ rn \in Seq(Obligation)
       /\ fre \subseteq Ids /\ sto \in [Ids -> {"unborn", "owner", "null"}]
  BY <1>1, <1>2, <1>5, <1>9, <1>14 DEF RunInv, StackInv, RunTypes
<1>17. rn2 \in Seq(Obligation)
  BY <1>15 DEF StackInv, RunTypes
<1>18. \/ st = sto /\ res2 = 0
       \/ /\ res2 \in Ids /\ Release(res2) \in due
          /\ st = [sto EXCEPT ![res2] = "null"]
  BY <1>2, <1>5, <1>9, <1>14, <1>15
<1>19. st \in [Ids -> {"unborn", "owner", "null"}]
  BY <1>16, <1>18
<1>20. Moves(res2, due, sto, st)
  BY <1>16, <1>18 DEF Moves
<1>21. Emit(items, st)
  BY <1>7
<1>22. Runs(items, rn, rn2)
  <2>1. /\ Len(ran') = Len(ran) + Len(items)
        /\ \A i \in 1..Len(ran) : ran'[i] = ran[i]
        /\ \A i \in 1..Len(items) : ran'[Len(ran) + i] = Owed(items[i])
    BY <1>19, <1>21, EmitTyped
  <2>2. QED
    BY <1>14, <1>15, <1>17, <2>1 DEF Runs
<1>23. Frees(items, st, sto2, fre, fre2, wl, wl2)
  BY <1>14, <1>15, <1>21 DEF Emit, Frees, Released
<1>24. Sooner(due, n)
  BY <1>13 DEF Sooner
<1>25. Sound(due \ O, rn2, sto2, fre2, res2, wl2, sk, n)
  <2>1. PICK res : res = result
    OBVIOUS
  <2>2. /\ Sound(due, rn, sto, fre, res, wl, sk, n) /\ rn \in Seq(Obligation)
        /\ Owing(items) \subseteq due /\ Distinct(items)
    BY <1>7, <1>8, <1>11, <1>16, <2>1
  <2>3. Sound(due \ Owing(items), rn2, sto2, fre2, res2, wl2, sk, n)
    BY <1>20, <1>22, <1>23, <1>24, <2>2, SoundCleared
  <2>4. QED
    BY <1>8, <2>3
<1>26. Sound(due \ O, rn2, sto2, fre2, res2, wl2, sk, m)
  BY <1>1, <1>17, <1>25, SoundKept
<1>27. sk = skipped' /\ d = Len(frames')
  BY <1>6, <1>14
<1>28. QED
  BY <1>1, <1>2, <1>12, <1>15, <1>26, <1>27 DEF RunInv

LEMMA RunBlockClosed ==
    ASSUME StackInv, HoldInv, PendInv, RunInv, StackInv', EndCompound
    PROVE  RunInv'
<1>1. /\ ctl # <<>> /\ Top.k = "compound"
      /\ UNCHANGED <<terminated, visited, live, result, skipped>>
      /\ terminated => EmitNothing /\ UNCHANGED frames
      /\ ~terminated => Emit(EmitDefersFrom(Len(deferScopes) - 1), store) /\ Unwound(1)
  BY DEF EndCompound
<1>2. /\ Sliced(deferScopes, deferScopes') /\ Sliced(cleanupScopes, cleanupScopes')
      /\ Len(deferScopes) \in Nat \ {0} /\ Len(deferScopes') = Len(deferScopes) - 1
  BY BlockSliced
<1>3. PICK n \in Nat \ {0} : n = Len(deferScopes) /\ n - 1 \in 0..n /\ n - 1 <= n - 1
  BY <1>2
<1>4. PICK fr \in Seq(Seq(Obligation)) : fr = frames /\ Len(fr) \in Nat
  BY DEF StackInv, RunTypes
<1>5. CASE live
  <2>1. ~terminated
    BY <1>5 DEF HoldInv
  <2>2. Len(fr) = n /\ result = 0
    BY <1>3, <1>4, <1>5, DepthHere
  <2>3. PICK d \in 0..n : d = n - 1 /\ d \in 0..Len(fr)
    BY <1>3, <2>2
  <2>4. frames' = SubSeq(fr, 1, d)
    BY <1>1, <1>4, <1>5, <2>1, <2>2, <2>3 DEF Unwound
  <2>5. Len(frames') = d
    BY <2>3, <2>4
  <2>6. Emit(EmitDefersFrom(d), store) /\ result' = 0
    BY <1>1, <1>3, <2>1, <2>2, <2>3
  <2>7. d \in 0..Len(deferScopes) /\ d <= Len(deferScopes')
    BY <1>2, <1>3, <2>3
  <2>8. skipped' = skipped /\ visited' \in {visited, visited + 1}
    BY <1>1
  <2>9. QED
    BY <1>2, <1>5, <2>5, <2>6, <2>7, <2>8, RunCleared
<1>6. CASE ~live
  <2>1. UNCHANGED <<ran, store, freed, wild, result, skipped, frames, visited>>
    BY <1>1, <1>6 DEF EmitNothing, Emit, Unwound
  <2>2. Len(fr) < n
    BY <1>1, <1>3, <1>4, <1>6, OutOfBlock
  <2>3. Len(fr) \in 0..(n - 1)
    BY <1>4, <2>2
  <2>4. Len(frames') \in 0..Len(deferScopes') /\ Len(frames') = Len(frames)
    BY <1>2, <1>3, <1>4, <2>1, <2>3
  <2>5. DueIn(deferScopes', cleanupScopes', Len(frames'))
            = DueIn(deferScopes, cleanupScopes, Len(frames))
    BY <1>2, <2>4, DueKept
  <2>6. QED
    BY <2>1, <2>5, RunQuiet
<1>7. QED
  BY <1>5, <1>6

\* A block that the execution enters is begun where it is.
LEMMA OpenedHere ==
    ASSUME StackInv, HoldInv, NEW c, BlockOpening(c), live'
    PROVE  Len(frames) = Len(deferScopes)
<1>1. SameKinds(ctl, c) /\ Nested(c) /\ Where(c, live', Len(frames), result # 0)
  BY DEF BlockOpening
<1>2. PICK m, lv, out : m = Len(frames) /\ lv = live' /\ out = (result # 0)
  OBVIOUS
<1>3. Where(c, lv, m, out)
  BY <1>1, <1>2
<1>4. m = CountIn(c, Len(c), Blocks)
  BY <1>1, <1>2, <1>3, Depth
<1>5. Nested(ctl) /\ Len(deferScopes) = CountIn(ctl, Len(ctl), Blocks) /\ Len(c) = Len(ctl)
      /\ Len(ctl) \in 0..Len(ctl)
  BY <1>1 DEF StackInv, Balanced, Levels, Nested, SameKinds
<1>6. CountIn(c, Len(ctl), Blocks) = CountIn(ctl, Len(ctl), Blocks)
  <2>1. Blocks \in Counted
    BY DEF Counted
  <2>2. QED
    BY <1>1, <1>5, <2>1, KeptCounts
<1>7. QED
  BY <1>2, <1>4, <1>5, <1>6

LEMMA RunBlockOpened ==
    ASSUME StackInv, HoldInv, RunInv, StackInv', NEW c, BlockOpening(c)
    PROVE  RunInv'
<1>1. /\ ctl # <<>> /\ visited < MaxStmts /\ Visit /\ EmitNothing
      /\ UNCHANGED <<result, skipped>>
      /\ deferScopes' = Append(deferScopes, <<>>)
      /\ cleanupScopes' = Append(cleanupScopes, <<>>)
      /\ frames' = IF live' THEN Append(frames, <<>>) ELSE frames
  BY DEF BlockOpening, OpenBlock
<1>2. PICK ds2, cs2 :
          /\ ds2 = deferScopes' /\ cs2 = cleanupScopes'
          /\ ds2 = Append(deferScopes, <<>>) /\ cs2 = Append(cleanupScopes, <<>>)
  BY <1>1
<1>3. /\ deferScopes \in Seq(Seq(PendingItem)) /\ cleanupScopes \in Seq(Seq(PendingItem))
      /\ frames \in Seq(Seq(Obligation)) /\ <<>> \in Seq(Obligation)
      /\ <<>> \in Seq(PendingItem)
  BY EmptySeq DEF StackInv, Paired, RunTypes
<1>4. Sliced(deferScopes, ds2) /\ Sliced(cleanupScopes, cs2)
  BY <1>2, <1>3, SlicedMore
<1>5. Sliced(deferScopes, deferScopes') /\ Sliced(cleanupScopes, cleanupScopes')
  BY <1>2, <1>4
<1>6. PICK n \in Nat : n = Len(deferScopes) /\ Len(ds2) = n + 1
  BY <1>2, <1>3, AppendProperties
<1>7. PICK m \in 0..n : m = Len(frames)
  BY <1>6, DepthHere
<1>8. live' => m = n
  BY <1>6, <1>7, OpenedHere
<1>9. Len(frames') = m \/ (Len(frames') = m + 1 /\ m = n)
  <2>1. Len(Append(frames, <<>>)) = m + 1
    BY <1>3, <1>7, AppendProperties
  <2>2. QED
    BY <1>1, <1>7, <1>8, <2>1
<1>10. Len(frames') \in 0..(n + 1)
  BY <1>9
<1>11. /\ Len(frames') \in 0..Len(deferScopes')
       /\ \/ Len(frames') = Len(frames)
          \/ Len(frames') = Len(frames) + 1 /\ Len(frames) = Len(deferScopes)
  BY <1>2, <1>6, <1>7, <1>9, <1>10
<1>12. DueIn(deferScopes', cleanupScopes', Len(frames'))
           = DueIn(deferScopes, cleanupScopes, Len(frames))
  BY <1>5, <1>11, DueKept
<1>13. visited' \in {visited, visited + 1} /\ UNCHANGED <<ran, store, freed, wild>>
  BY <1>1, VisitTyped DEF EmitNothing
<1>14. QED
  BY <1>1, <1>12, <1>13, RunQuiet

\* The release of a string that a return can name is owed.
LEMMA NamedPends ==
    ASSUME StackInv, HoldInv, PendInv, ctl # <<>>, live, NEW x \in Names,
           NEW v \in strings, v = Resolve(x)
    PROVE  v \in Ids /\ Release(v) \in DueIn(deferScopes, cleanupScopes, Len(frames))
<1>1. PICK n \in Nat : n = Len(deferScopes) /\ n = Len(cleanupScopes) /\ Len(frames) = n
  BY DepthHere DEF StackInv, Paired
<1>2. /\ Nested(ctl) /\ Len(ctl) \in 1..Len(ctl) /\ Len(scopes) = CountIn(ctl, Len(ctl), Scoped)
      /\ n = CountIn(ctl, Len(ctl), Blocks)
  BY <1>1, TopFacts DEF StackInv, Balanced, Levels
<1>3. scopes \in Scopes /\ cleanupScopes \in Seq(Seq(PendingItem))
  BY DEF StackInv, GenTypes, Paired
<1>4. v # 0
  <2>1. strings \subseteq 1..visited /\ visited \in Nat
    BY BoundsAssumption DEF PendInv, Known, StackInv, GenTypes
  <2>2. QED
    BY <2>1
<1>5. PICK i \in 1..Len(scopes) : scopes[i][x] = v
  BY <1>3, <1>4, ResolveFacts DEF Binds
<1>6. PendingIn(cleanupScopes, v, n)
  BY <1>2, <1>5 DEF PendInv, ScopesIn
<1>7. PICK j, k : j \in 1..n /\ k \in 1..Len(cleanupScopes[j]) /\ cleanupScopes[j][k].var = v
  BY <1>6 DEF PendingIn
<1>8. PICK it \in PendingItem : it = cleanupScopes[j][k] /\ it.kind = "string"
  <2>1. j \in 1..Len(cleanupScopes)
    BY <1>1, <1>7
  <2>2. cleanupScopes[j][k] \in PendingItem
    BY <1>3, <1>7, <2>1, ItemOf
  <2>3. cleanupScopes[j][k].kind = "string"
    BY <1>7, <2>1 DEF PendInv, Known, Numbered
  <2>4. QED
    BY <2>2, <2>3
<1>9. it.id = v /\ it.id \in Ids
  BY <1>7, <1>8 DEF PendingItem, Item
<1>10. Owed(it) = Release(v) /\ Release(v) \in Obligation
  <2>1. Owed(it) = [kind |-> it.kind, id |-> it.id]
    BY DEF Owed
  <2>2. Owed(it) = Release(v)
    BY <1>8, <1>9, <2>1 DEF Release
  <2>3. Release(v) \in Obligation
    BY <1>9 DEF Release, Obligation
  <2>4. QED
    BY <2>2, <2>3
<1>11. Held(it, j, deferScopes, cleanupScopes)
  BY <1>7, <1>8 DEF Held
<1>12. Release(v) \in DueIn(deferScopes, cleanupScopes, n)
  BY <1>7, <1>10, <1>11 DEF DueIn
<1>13. QED
  BY <1>1, <1>9, <1>12

LEMMA RunLeft ==
    ASSUME StackInv, HoldInv, PendInv, RunInv, StackInv', NEW i, NEW st, Leaving(i, st)
    PROVE  RunInv'
<1>1. /\ AtStmt /\ Visit
      /\ CountIn(ctl, i, Blocks) \in 0..Len(deferScopes)
      /\ Emit(EmitDefersFrom(CountIn(ctl, i, Blocks)), st)
      /\ Unwound(Len(deferScopes) - CountIn(ctl, i, Blocks))
      /\ UNCHANGED <<deferScopes, cleanupScopes, skipped>>
      /\ \/ st = store /\ result' = result
         \/ \E v \in strings : /\ live /\ st = MovedOut(v) /\ result' = v
                               /\ \E x \in Names : v = Resolve(x)
         \/ live /\ st = store /\ result' = 0
  BY DEF Leaving
<1>2. ctl # <<>> /\ visited' \in {visited, visited + 1}
  BY <1>1, VisitTyped DEF AtStmt
<1>3. Len(deferScopes) \in Nat /\ Len(cleanupScopes) \in Nat
  BY DEF StackInv, Paired
<1>4. Sliced(deferScopes, deferScopes) /\ Sliced(cleanupScopes, cleanupScopes)
  BY <1>3, SlicedSelf
<1>5. PICK fr \in Seq(Seq(Obligation)) : fr = frames /\ Len(fr) \in Nat
  BY DEF StackInv, RunTypes
<1>6. CASE live
  <2>1. Len(fr) = Len(deferScopes) /\ result = 0
    BY <1>5, <1>6, DepthHere
  <2>2. PICK d \in 0..Len(fr) : d = CountIn(ctl, i, Blocks)
    BY <1>1, <2>1
  <2>3. frames' = SubSeq(fr, 1, d)
    <3>1. Len(fr) - (Len(deferScopes) - CountIn(ctl, i, Blocks)) = d
      BY <1>5, <2>1, <2>2
    <3>2. QED
      BY <1>1, <1>5, <1>6, <3>1 DEF Unwound
  <2>4. Len(frames') = d /\ d \in 0..Len(deferScopes) /\ d <= Len(deferScopes')
    BY <1>1, <1>5, <2>1, <2>2, <2>3
  <2>5. Emit(EmitDefersFrom(d), st)
    BY <1>1, <2>2
  <2>6. \/ st = store /\ result' = 0
        \/ /\ result' \in Ids
           /\ Release(result') \in DueIn(deferScopes, cleanupScopes, Len(frames))
           /\ st = [store EXCEPT ![result'] = "null"]
    <3>1. ASSUME NEW v \in strings, st = MovedOut(v), result' = v, NEW x \in Names, v = Resolve(x)
          PROVE  /\ result' \in Ids
                 /\ Release(result') \in DueIn(deferScopes, cleanupScopes, Len(frames))
                 /\ st = [store EXCEPT ![result'] = "null"]
      <4>1. v \in Ids /\ Release(v) \in DueIn(deferScopes, cleanupScopes, Len(frames))
        BY <1>2, <1>6, <3>1, NamedPends
      <4>2. v # 0
        BY <4>1 DEF Ids
      <4>3. MovedOut(v) = [store EXCEPT ![v] = "null"]
        BY <1>6, <4>2 DEF MovedOut
      <4>4. QED
        BY <3>1, <4>1, <4>3
    <3>2. QED
      BY <1>1, <2>1, <3>1
  <2>7. Sliced(deferScopes, deferScopes') /\ Sliced(cleanupScopes, cleanupScopes')
    BY <1>1, <1>4
  <2>8. skipped' = skipped
    BY <1>1
  <2>9. QED
    BY <1>2, <1>6, <2>4, <2>5, <2>6, <2>7, <2>8, RunCleared
<1>7. CASE ~live
  <2>1. UNCHANGED <<ran, store, freed, wild, result, skipped, frames>>
    BY <1>1, <1>7 DEF Emit, Unwound
  <2>2. DueIn(deferScopes', cleanupScopes', Len(frames'))
            = DueIn(deferScopes, cleanupScopes, Len(frames))
    BY <1>1, <2>1
  <2>3. QED
    BY <1>2, <2>1, <2>2, RunQuiet
<1>8. QED
  BY <1>6, <1>7

LEMMA RunUnmoved ==
    ASSUME StackInv, RunInv, StackInv',
           \/ Resuming \/ Closing \/ VisitStrayJump \/ EndFunction
           \/ \E x \in Names : VisitPlainDecl(x)
           \/ \E f : Opening(f)
    PROVE  RunInv'
<1>1. EmitNothing /\ UNCHANGED <<deferScopes, cleanupScopes, frames, result, skipped>>
  BY DEF Resuming, Closing, VisitStrayJump, EndFunction, VisitPlainDecl, Opening, Quiet
<1>2. visited' \in {visited, visited + 1}
  BY DEF Resuming, Closing, VisitStrayJump, EndFunction, VisitPlainDecl, Opening, Visit
<1>3. QED
  BY <1>1, <1>2, RunSame

\* Another iteration owes nothing new, and a string it reaches is still owed its release.
LEMMA RunAgain ==
    ASSUME StackInv, HoldInv, RunInv, StackInv', IterateAgain
    PROVE  RunInv'
<1>1. deferScopes # <<>> /\ Len(frames') = Len(frames)
  BY HoldAgain DEF IterateAgain
<1>2. PICK item \in AgainItems : ReachAgain(item)
  BY DEF IterateAgain
<1>3. /\ store' = IF live /\ item.kind = "string"
                  THEN [store EXCEPT ![item.var] = "owner"] ELSE store
      /\ skipped' = TRUE
      /\ UNCHANGED <<deferScopes, cleanupScopes, visited, live, ran, freed, result, wild>>
  BY <1>2 DEF ReachAgain
<1>4. PICK ds, cs, n : /\ ds = deferScopes /\ cs = cleanupScopes
                       /\ n = Len(ds) /\ n \in Nat /\ n \in 1..n
  <2>1. Len(deferScopes) \in Nat /\ Len(deferScopes) \in 1..Len(deferScopes)
    BY <1>1, <1>2, AgainFacts DEF StackInv, Paired
  <2>2. QED
    BY <2>1
<1>5. PICK due : due = DueIn(ds, cs, Len(frames))
  OBVIOUS
<1>6. Sound(due, ran, store, freed, result, wild, skipped, visited)
  BY <1>4, <1>5 DEF RunInv
<1>7. item \in PendingItem /\ Owed(item) \in Obligation /\ Held(item, n, ds, cs)
  BY <1>1, <1>2, <1>4, AgainFacts DEF Held
<1>8. live => Owed(item) \in due
  <2>1. live => Len(frames) = n
    BY <1>4, DepthHere
  <2>2. QED
    BY <1>4, <1>5, <1>7, <2>1 DEF DueIn
<1>9. item.kind = "string" => Owed(item) = Release(item.var)
  BY <1>7 DEF Owed, Release, PendingItem
<1>10. ASSUME NEW v \in Ids, store'[v] = "owner"
       PROVE  Release(v) \in due
  <2>1. store \in [Ids -> {"unborn", "owner", "null"}]
    BY DEF StackInv, RunTypes
  <2>2. CASE live /\ item.kind = "string" /\ v = item.var
    BY <1>8, <1>9, <2>2
  <2>3. CASE ~(live /\ item.kind = "string" /\ v = item.var)
    <3>1. store'[v] = store[v]
      BY <1>3, <2>1, <2>3
    <3>2. QED
      BY <1>6, <1>10, <3>1 DEF Sound
  <2>4. QED
    BY <2>2, <2>3
<1>11. PICK sto : sto = store' /\ \A v \in Ids : sto[v] = "owner" => Release(v) \in due
  BY <1>10
<1>12. Sound(due, ran, sto, freed, result, wild, TRUE, visited)
  BY <1>6, <1>11 DEF Sound
<1>13. DueIn(deferScopes', cleanupScopes', Len(frames')) = due
  BY <1>1, <1>3, <1>4, <1>5
<1>14. QED
  BY <1>3, <1>11, <1>12, <1>13 DEF RunInv

LEMMA InitRun ==
    ASSUME Init
    PROVE  RunInv
<1>1. /\ Len(ran) = 0 /\ store = [v \in Ids |-> "unborn"] /\ freed = {} /\ result = 0
      /\ wild = FALSE /\ Len(frames) = 0
  BY DEF Init
<1>2. DueIn(deferScopes, cleanupScopes, Len(frames)) = {}
  BY <1>1 DEF DueIn
<1>3. PICK due : due = DueIn(deferScopes, cleanupScopes, Len(frames)) /\ due = {}
  BY <1>2
<1>4. Sound(due, ran, store, freed, result, wild, skipped, visited)
  BY <1>1, <1>3 DEF Sound
<1>5. QED
  BY <1>3, <1>4 DEF RunInv

LEMMA RunIdle ==
    ASSUME RunInv, UNCHANGED vars
    PROVE  RunInv'
<1>1. /\ UNCHANGED <<deferScopes, cleanupScopes, frames, ran, store, freed, result, wild>>
      /\ UNCHANGED <<skipped, visited>>
  BY DEF vars, genVars, runVars
<1>2. QED
  BY <1>1 DEF RunInv

LEMMA RunStep ==
    ASSUME StackInv, HoldInv, PendInv, RunInv, StackInv', Next
    PROVE  RunInv'
<1>1. ASSUME NEW x \in Names, VisitDefer(x) \/ VisitStringDecl(x)
      PROVE  RunInv'
  BY <1>1, RunDefer, RunString
<1>2. CASE \/ Resuming \/ Closing \/ VisitStrayJump \/ EndFunction
           \/ \E x \in Names : VisitPlainDecl(x)
           \/ \E f : Opening(f)
  BY <1>2, RunUnmoved
<1>3. CASE EndCompound
  BY <1>3, RunBlockClosed
<1>4. ASSUME NEW c, BlockOpening(c)
      PROVE  RunInv'
  BY <1>4, RunBlockOpened
<1>5. ASSUME NEW i, NEW st, Leaving(i, st)
      PROVE  RunInv'
  BY <1>5, RunLeft
<1>6. CASE IterateAgain
  BY <1>6, RunAgain
<1>7. QED
  BY <1>1, <1>2, <1>3, <1>4, <1>5, <1>6, NextShapes

-------------------------------------------------------------------------------
(* The clean-up code that the last step has emitted.                         *)

\* A string is released after the defers that name it, and a name means what it meant
\* where it was written, or what was declared after it.
EmitInv ==
    /\ \A i, j \in 1..Len(emitted) :
          /\ emitted[i].item.kind = "string"
          /\ emitted[j].item.kind = "defer" /\ emitted[j].item.var = emitted[i].item.id
          => j < i
    /\ \A i \in 1..Len(emitted) :
          emitted[i].resolved # emitted[i].item.var =>
              emitted[i].resolved > emitted[i].item.id \/ emitted[i].item.bare

LEMMA BindsOnce ==
    ASSUME NEW sc, NEW x, NEW n \in Nat, NEW v, Binds(sc, x, n, v), NEW w, Binds(sc, x, n, w)
    PROVE  v = w
<1>1. CASE v = 0 \/ w = 0
  BY <1>1 DEF Binds
<1>2. CASE v # 0 /\ w # 0
  <2>1. PICK i \in 1..n : sc[i][x] = v /\ \A j \in (i + 1)..n : sc[j][x] = 0
    BY <1>2 DEF Binds
  <2>2. PICK k \in 1..n : sc[k][x] = w /\ \A j \in (k + 1)..n : sc[j][x] = 0
    BY <1>2 DEF Binds
  <2>3. i \in (k + 1)..n \/ k \in (i + 1)..n \/ i = k
    BY <2>1, <2>2
  <2>4. QED
    BY <1>2, <2>1, <2>2, <2>3
<1>3. QED
  BY <1>1, <1>2

\* What a deferred expression names when its code is emitted.
LEMMA NameHere ==
    ASSUME StackInv, PendInv, ctl # <<>>, NEW it \in PendingItem, it.kind = "defer",
           NEW j \in 1..Len(deferScopes), Held(it, j, deferScopes, cleanupScopes)
    PROVE  it.bare \/ Resolve(it.name) = it.var \/ Resolve(it.name) > it.id
<1>1. /\ Nested(ctl) /\ Len(ctl) \in 1..Len(ctl) /\ Len(scopes) = CountIn(ctl, Len(ctl), Scoped)
      /\ Len(deferScopes) = CountIn(ctl, Len(ctl), Blocks)
      /\ Len(cleanupScopes) = Len(deferScopes)
  BY TopFacts DEF StackInv, Balanced, Levels, Paired
<1>2. PICK n \in Nat : n = Len(scopes)
  BY DEF StackInv, GenTypes, Scopes
<1>3. PICK k \in 1..Len(deferScopes[j]) : it = deferScopes[j][k]
  <2>1. ASSUME NEW l \in 1..Len(cleanupScopes[j]), it = cleanupScopes[j][l]
        PROVE  FALSE
    <3>1. j \in 1..Len(cleanupScopes)
      BY <1>1
    <3>2. cleanupScopes[j][l].kind = "string"
      BY <3>1 DEF PendInv, Known, Numbered
    <3>3. QED
      BY <2>1, <3>2
  <2>2. QED
    BY <2>1 DEF Held
<1>4. CASE it.bare
  BY <1>4
<1>5. CASE ~it.bare
  <2>1. n \in CountIn(ctl, Len(ctl), Scoped)..Len(scopes)
    BY <1>1, <1>2
  <2>2. j \in 1..CountIn(ctl, Len(ctl), Blocks)
    BY <1>1
  <2>3. Means(scopes, n, it)
    BY <1>1, <1>3, <1>5, <2>1, <2>2 DEF PendInv, NamesIn
  <2>4. PICK v : Binds(scopes, it.name, n, v) /\ (v = it.var \/ v > it.id)
    BY <2>3 DEF Means
  <2>5. scopes \in Scopes /\ it.name \in Names
    BY DEF StackInv, GenTypes, PendingItem, Item
  <2>6. PICK w : w = Resolve(it.name) /\ Binds(scopes, it.name, n, w)
    BY <1>2, <2>5, ResolveFacts
  <2>7. v = w
    BY <2>4, <2>6, BindsOnce
  <2>8. QED
    BY <2>4, <2>6, <2>7
<1>6. QED
  BY <1>4, <1>5

LEMMA EmittedSound ==
    ASSUME StackInv, PendInv, ctl # <<>>, NEW depth \in 0..Len(deferScopes),
           NEW st \in [Ids -> {"unborn", "owner", "null"}], Emit(EmitDefersFrom(depth), st)
    PROVE  EmitInv'
<1>1. PICK items \in Seq(PendingItem) :
          /\ items = EmitDefersFrom(depth) /\ DefersFirst(items)
          /\ Covers(items, depth, Len(deferScopes), deferScopes, cleanupScopes)
  BY EmissionFacts
<1>2. Emit(items, st)
  BY <1>1
<1>3. Len(emitted') = Len(items) /\ \A i \in 1..Len(items) : emitted'[i] = InContext(items[i])
  BY <1>2, EmitTyped
<1>4. PICK em : em = emitted' /\ Len(em) = Len(items)
  BY <1>3
<1>5. ASSUME NEW i \in 1..Len(items)
      PROVE  /\ em[i].item = items[i]
             /\ em[i].resolved = IF items[i].kind = "defer" THEN Resolve(items[i].name)
                                                            ELSE items[i].var
  <2>1. em[i] = InContext(items[i])
    BY <1>3, <1>4
  <2>2. QED
    BY <2>1 DEF InContext
<1>6. ASSUME NEW i \in 1..Len(items), em[i].resolved # em[i].item.var
      PROVE  em[i].resolved > em[i].item.id \/ em[i].item.bare
  <2>1. PICK it \in PendingItem : it = items[i]
    BY ElementOfSeq
  <2>2. it.kind = "defer" /\ em[i].item = it /\ em[i].resolved = Resolve(it.name)
    BY <1>5, <1>6, <2>1
  <2>3. PICK j \in (depth + 1)..Len(deferScopes) : Held(it, j, deferScopes, cleanupScopes)
    BY <1>1, <2>1 DEF Covers
  <2>4. j \in 1..Len(deferScopes)
    BY <2>3
  <2>5. it.bare \/ Resolve(it.name) = it.var \/ Resolve(it.name) > it.id
    BY <2>2, <2>3, <2>4, NameHere
  <2>6. QED
    BY <1>6, <2>2, <2>5
<1>7. ASSUME NEW i \in 1..Len(items), NEW j \in 1..Len(items),
             em[i].item.kind = "string", em[j].item.kind = "defer",
             em[j].item.var = em[i].item.id
      PROVE  j < i
  BY <1>1, <1>5, <1>7 DEF DefersFirst
<1>8. QED
  BY <1>4, <1>6, <1>7 DEF EmitInv

LEMMA EmitStep ==
    ASSUME StackInv, HoldInv, PendInv, Next
    PROVE  EmitInv'
<1>1. ASSUME emitted' = <<>>
      PROVE  EmitInv'
  <2>1. Len(emitted') = 0
    BY <1>1
  <2>2. QED
    BY <2>1 DEF EmitInv
<1>2. ASSUME NEW x \in Names, VisitDefer(x) \/ VisitPlainDecl(x) \/ VisitStringDecl(x)
      PROVE  emitted' = <<>>
  BY <1>2 DEF VisitDefer, VisitPlainDecl, VisitStringDecl, EmitNothing
<1>3. ASSUME NEW f, Opening(f)
      PROVE  emitted' = <<>>
  BY <1>3 DEF Opening, Quiet, EmitNothing
<1>4. CASE Resuming \/ Closing \/ VisitStrayJump \/ EndFunction
  BY <1>1, <1>4 DEF Resuming, Closing, Quiet, VisitStrayJump, EndFunction, EmitNothing
<1>5. ASSUME NEW c, BlockOpening(c)
      PROVE  emitted' = <<>>
  BY <1>5 DEF BlockOpening, EmitNothing
<1>6. CASE EndCompound
  <2>1. CASE terminated
    BY <1>1, <1>6, <2>1 DEF EndCompound, EmitNothing
  <2>2. CASE ~terminated
    <3>1. PICK d \in 0..Len(deferScopes) : d = Len(deferScopes) - 1
      <4>1. PICK n \in Nat \ {0} : n = Len(deferScopes)
        BY <1>6, BlockSliced
      <4>2. n - 1 \in 0..n
        BY <4>1
      <4>3. QED
        BY <4>1, <4>2
    <3>2. PICK st \in [Ids -> {"unborn", "owner", "null"}] : st = store
      BY DEF StackInv, RunTypes
    <3>3. ctl # <<>> /\ Emit(EmitDefersFrom(d), st)
      BY <1>6, <2>2, <3>1, <3>2 DEF EndCompound
    <3>4. QED
      BY <3>3, EmittedSound
  <2>3. QED
    BY <2>1, <2>2
<1>7. ASSUME NEW i, NEW st, Leaving(i, st)
      PROVE  EmitInv'
  <2>1. PICK d \in 0..Len(deferScopes) : d = CountIn(ctl, i, Blocks)
    BY <1>7 DEF Leaving
  <2>2. /\ ctl # <<>> /\ Emit(EmitDefersFrom(d), st)
        /\ st \in [Ids -> {"unborn", "owner", "null"}]
    BY <1>7, <2>1 DEF Leaving, AtStmt
  <2>3. QED
    BY <2>2, EmittedSound
<1>8. CASE IterateAgain
  BY <1>1, <1>8 DEF IterateAgain, ReachAgain
<1>9. QED
  BY <1>1, <1>2, <1>3, <1>4, <1>5, <1>6, <1>7, <1>8, NextShapes

-------------------------------------------------------------------------------
(* The two properties.                                                       *)

RunsInv == StackInv /\ LostInv /\ HoldInv /\ PendInv /\ RunInv /\ EmitInv

LEMMA RunsInvInductive ==
    /\ Init => RunsInv
    /\ RunsInv /\ [Next]_vars => RunsInv'
<1>1. Init => RunsInv
  <2>1. Init => EmitInv
    BY DEF Init, EmitInv
  <2>2. QED
    BY <2>1, InitStack, InitLost, InitHold, InitPend, InitRun DEF RunsInv
<1>2. ASSUME RunsInv, [Next]_vars
      PROVE  RunsInv'
  <2>1. StackInv /\ LostInv /\ HoldInv /\ PendInv /\ RunInv /\ EmitInv
    BY <1>2 DEF RunsInv
  <2>2. StackInv' /\ LostInv'
    BY <1>2, <2>1, StackInvInductive, LostStep
  <2>3. CASE Next
    <3>1. HoldInv'
      BY <2>1, <2>2, <2>3, HoldStep
    <3>2. PendInv'
      BY <2>1, <2>2, <2>3, PendStep
    <3>3. RunInv'
      BY <2>1, <2>2, <2>3, RunStep
    <3>4. EmitInv'
      BY <2>1, <2>3, EmitStep
    <3>5. QED
      BY <2>2, <3>1, <3>2, <3>3, <3>4 DEF RunsInv
  <2>4. CASE UNCHANGED vars
    <3>1. HoldInv' /\ PendInv' /\ RunInv'
      BY <2>1, <2>4, HoldIdle, PendIdle, RunIdle
    <3>2. emitted' = emitted
      BY <2>4 DEF vars, genVars
    <3>3. EmitInv'
      BY <2>1, <3>2 DEF EmitInv
    <3>4. QED
      BY <2>2, <3>1, <3>3 DEF RunsInv
  <2>5. QED
    BY <1>2, <2>3, <2>4
<1>3. QED
  BY <1>1, <1>2

LEMMA EmittedDomain ==
    ASSUME StackInv
    PROVE  DOMAIN emitted = 1..Len(emitted)
<1>1. emitted \in Seq([item : Item, infn : 0..MaxStmts, resolved : 0..MaxStmts])
  BY DEF StackInv, GenTypes
<1>2. QED
  BY <1>1

LEMMA RunsInvOnce ==
    ASSUME RunsInv
    PROVE  RunsOnce
<1>1. StackInv /\ RunInv /\ EmitInv
  BY DEF RunsInv
<1>2. DOMAIN emitted = 1..Len(emitted) /\ DOMAIN ran = 1..Len(ran)
  <2>1. ran \in Seq(Obligation)
    BY <1>1 DEF StackInv, RunTypes
  <2>2. QED
    BY <1>1, <2>1, EmittedDomain
<1>3. \A i, j \in 1..Len(ran) : ran[i] = ran[j] => i = j
  BY <1>1 DEF RunInv, Sound
<1>4. QED
  BY <1>1, <1>2, <1>3 DEF RunsOnce, EmitInv

LEMMA RunsInvReleased ==
    ASSUME RunsInv
    PROVE  StringsReleased
<1>1. StackInv /\ LostInv /\ RunInv /\ EmitInv
  BY DEF RunsInv
<1>2. DOMAIN emitted = 1..Len(emitted)
  BY <1>1, EmittedDomain
<1>3. ASSUME frames = <<>>, NEW v \in Ids
      PROVE  store[v] # "owner"
  <2>1. Len(frames) = 0
    BY <1>3
  <2>2. DueIn(deferScopes, cleanupScopes, Len(frames)) = {}
    BY <2>1 DEF DueIn
  <2>3. QED
    BY <1>1, <2>2 DEF RunInv, Sound
<1>4. (wild => skipped) /\ (lost # {} => skipped) /\ result \notin freed
  BY <1>1 DEF RunInv, Sound, LostInv
<1>5. QED
  BY <1>1, <1>2, <1>3, <1>4 DEF StringsReleased, EmitInv

\* Whatever the function, no path through its code runs a deferred expression or
\* releases a string twice; and at each exit the name in a deferred expression means
\* what it meant at the defer, or what a block the exit is in has declared since, unless
\* the defer is the body of an if or a loop without braces.
THEOREM CleanupRunsOnce == Spec => []RunsOnce
<1>1. RunsInv => RunsOnce
  BY RunsInvOnce
<1>2. QED
  BY <1>1, RunsInvInductive, PTL DEF Spec

\* Whatever the function, an execution that has left it has left no buffer with a local
\* string and has not freed the one it returns; it releases a string it has not come to,
\* or loses a buffer of one it comes to again, only where the defers and strings of an
\* unbraced body were skipped or reached in several iterations; and no defer is emitted
\* after the release of a string it names.
THEOREM StringsAreReleased == Spec => []StringsReleased
<1>1. RunsInv => StringsReleased
  BY RunsInvReleased
<1>2. QED
  BY <1>1, RunsInvInductive, PTL DEF Spec

-------------------------------------------------------------------------------
(* The documented order.                                                    *)

\* The obligations that a list of clean-up stands for.
OwedOf(s) == [k \in 1..Len(s) |-> Owed(s[k])]

LEMMA OwedFacts ==
    ASSUME NEW s \in Seq(PendingItem)
    PROVE  /\ OwedOf(s) \in Seq(Obligation) /\ Len(OwedOf(s)) = Len(s)
           /\ \A k \in 1..Len(s) : OwedOf(s)[k] = Owed(s[k])
<1>1. PICK n \in Nat : n = Len(s)
  OBVIOUS
<1>2. PICK o : o = OwedOf(s)
  OBVIOUS
<1>3. \A k \in 1..n : o[k] = Owed(s[k])
  BY <1>1, <1>2 DEF OwedOf
<1>4. \A k \in 1..n : o[k] \in Obligation
  <2>1. \A k \in 1..n : s[k] \in PendingItem
    BY <1>1, ElementOfSeq
  <2>2. \A it \in PendingItem : Owed(it) \in Obligation
    BY DEF Owed, PendingItem, Item, Obligation
  <2>3. QED
    BY <1>3, <2>1, <2>2
<1>5. o = [k \in 1..n |-> o[k]]
  BY <1>1, <1>2 DEF OwedOf
<1>6. o \in Seq(Obligation) /\ Len(o) = n
  BY <1>4, <1>5, ListedFacts
<1>7. QED
  BY <1>1, <1>2, <1>3, <1>6

LEMMA OwedConcat ==
    ASSUME NEW a \in Seq(PendingItem), NEW b \in Seq(PendingItem)
    PROVE  OwedOf(a \o b) = OwedOf(a) \o OwedOf(b)
<1>1. PICK n \in Nat, m \in Nat : n = Len(a) /\ m = Len(b)
  OBVIOUS
<1>2. PICK u : u = a \o b
  OBVIOUS
<1>3. /\ u \in Seq(PendingItem) /\ Len(u) = n + m
      /\ \A i \in 1..n : u[i] = a[i]
      /\ \A i \in 1..m : u[n + i] = b[i]
  BY <1>1, <1>2, ConcatFacts
<1>4. PICK oa, ob, ou : oa = OwedOf(a) /\ ob = OwedOf(b) /\ ou = OwedOf(u)
  OBVIOUS
<1>5. /\ oa \in Seq(Obligation) /\ Len(oa) = n /\ \A k \in 1..n : oa[k] = Owed(a[k])
      /\ ob \in Seq(Obligation) /\ Len(ob) = m /\ \A k \in 1..m : ob[k] = Owed(b[k])
  BY <1>1, <1>4, OwedFacts
<1>6. ou \in Seq(Obligation) /\ Len(ou) = n + m /\ \A k \in 1..(n + m) : ou[k] = Owed(u[k])
  BY <1>3, <1>4, OwedFacts
<1>7. PICK v : v = oa \o ob
  OBVIOUS
<1>8. /\ v \in Seq(Obligation) /\ Len(v) = n + m
      /\ \A i \in 1..n : v[i] = oa[i]
      /\ \A i \in 1..m : v[n + i] = ob[i]
  <2>1. oa \in Seq(Obligation) /\ ob \in Seq(Obligation)
    BY <1>5
  <2>2. /\ v \in Seq(Obligation) /\ Len(v) = Len(oa) + Len(ob)
        /\ \A i \in 1..Len(oa) : v[i] = oa[i]
        /\ \A i \in 1..Len(ob) : v[Len(oa) + i] = ob[i]
    BY <1>7, <2>1, ConcatFacts
  <2>3. QED
    BY <1>5, <2>2
<1>9. ASSUME NEW k \in 1..(n + m)
      PROVE  ou[k] = v[k]
  <2>1. CASE k \in 1..n
    BY <1>3, <1>5, <1>6, <1>8, <2>1
  <2>2. CASE k \notin 1..n
    <3>1. PICK i \in 1..m : k = n + i
      <4>1. k - n \in 1..m /\ k = n + (k - n)
        BY <2>2
      <4>2. QED
        BY <4>1
    <3>2. ou[k] = Owed(b[i]) /\ v[k] = Owed(b[i])
      BY <1>3, <1>5, <1>6, <1>8, <3>1
    <3>3. QED
      BY <3>2
  <2>3. QED
    BY <2>1, <2>2
<1>10. ou = v
  BY <1>6, <1>8, <1>9, SeqEqual
<1>11. QED
  BY <1>2, <1>4, <1>7, <1>10

LEMMA OwedReverse ==
    ASSUME NEW a \in Seq(PendingItem)
    PROVE  OwedOf(Reverse(a)) = Reverse(OwedOf(a)) /\ Reverse(a) \in Seq(PendingItem)
<1>1. PICK n \in Nat : n = Len(a)
  OBVIOUS
<1>2. PICK u : u = Reverse(a)
  OBVIOUS
<1>3. u \in Seq(PendingItem) /\ Len(u) = n /\ \A i \in 1..n : u[i] = a[n - i + 1]
  BY <1>1, <1>2, ReverseFacts
<1>4. PICK oa, ou : oa = OwedOf(a) /\ ou = OwedOf(u)
  OBVIOUS
<1>5. oa \in Seq(Obligation) /\ Len(oa) = n /\ \A k \in 1..n : oa[k] = Owed(a[k])
  BY <1>1, <1>4, OwedFacts
<1>6. ou \in Seq(Obligation) /\ Len(ou) = n /\ \A k \in 1..n : ou[k] = Owed(u[k])
  BY <1>3, <1>4, OwedFacts
<1>7. PICK v : v = Reverse(oa)
  OBVIOUS
<1>8. v \in Seq(Obligation) /\ Len(v) = n /\ \A i \in 1..n : v[i] = oa[n - i + 1]
  BY <1>5, <1>7, ReverseFacts
<1>9. ASSUME NEW k \in 1..n
      PROVE  ou[k] = v[k]
  <2>1. PICK i \in 1..n : i = n - k + 1
    <3>1. n - k + 1 \in 1..n
      OBVIOUS
    <3>2. QED
      BY <3>1
  <2>2. ou[k] = Owed(a[i]) /\ v[k] = Owed(a[i])
    BY <1>3, <1>5, <1>6, <1>8, <2>1
  <2>3. QED
    BY <2>2
<1>10. ou = v
  BY <1>6, <1>8, <1>9, SeqEqual
<1>11. QED
  BY <1>2, <1>3, <1>4, <1>7, <1>10

LEMMA OwedAppend ==
    ASSUME NEW a \in Seq(PendingItem), NEW b \in Seq(PendingItem), NEW it \in PendingItem,
           Len(b) = Len(a) + 1, b[Len(a) + 1] = it, \A k \in 1..Len(a) : b[k] = a[k]
    PROVE  OwedOf(b) = Append(OwedOf(a), Owed(it))
<1>1. PICK n \in Nat : n = Len(a)
  OBVIOUS
<1>2. PICK oa, ob : oa = OwedOf(a) /\ ob = OwedOf(b)
  OBVIOUS
<1>3. oa \in Seq(Obligation) /\ Len(oa) = n /\ \A k \in 1..n : oa[k] = Owed(a[k])
  BY <1>1, <1>2, OwedFacts
<1>4. ob \in Seq(Obligation) /\ Len(ob) = n + 1 /\ \A k \in 1..(n + 1) : ob[k] = Owed(b[k])
  BY <1>1, <1>2, OwedFacts
<1>5. PICK o \in Obligation : o = Owed(it)
  BY DEF Owed, PendingItem, Item, Obligation
<1>6. PICK v : v = Append(oa, o)
  OBVIOUS
<1>7. /\ v \in Seq(Obligation) /\ Len(v) = n + 1 /\ v[n + 1] = o
      /\ \A k \in 1..n : v[k] = oa[k]
  BY <1>3, <1>5, <1>6, AppendProperties
<1>8. ASSUME NEW k \in 1..(n + 1)
      PROVE  ob[k] = v[k]
  <2>1. k = n + 1 \/ k \in 1..n
    OBVIOUS
  <2>2. CASE k = n + 1
    <3>1. ob[k] = Owed(b[n + 1])
      BY <1>4, <2>2
    <3>2. QED
      BY <1>1, <1>5, <1>7, <2>2, <3>1
  <2>3. CASE k \in 1..n
    BY <1>1, <1>3, <1>4, <1>7, <2>3
  <2>4. QED
    BY <2>1, <2>2, <2>3
<1>9. ob = v
  BY <1>4, <1>7, <1>8, SeqEqual
<1>10. QED
  BY <1>2, <1>5, <1>6, <1>9

\* Clean-up lists, one after the other.
LEMMA OwedFlattened ==
    ASSUME NEW s \in Seq(Seq(PendingItem)), NEW t \in Seq(Seq(Obligation)), Len(t) = Len(s),
           \A j \in 1..Len(s) : t[j] = OwedOf(s[j])
    PROVE  OwedOf(FlattenSeq(s)) = FlattenSeq(t)
<1>1. PICK n \in Nat : n = Len(s)
  OBVIOUS
<1>2. /\ FlattenSeq(FirstOf(s, 0)) = <<>> /\ FirstOf(s, n) = s
      /\ \A m \in 0..n : FlattenSeq(FirstOf(s, m)) \in Seq(PendingItem)
      /\ \A m \in 1..n : FlattenSeq(FirstOf(s, m)) = FlattenSeq(FirstOf(s, m - 1)) \o s[m]
  BY <1>1, FlattenPrefixes
<1>3. /\ FlattenSeq(FirstOf(t, 0)) = <<>> /\ FirstOf(t, n) = t
      /\ \A m \in 1..n : FlattenSeq(FirstOf(t, m)) = FlattenSeq(FirstOf(t, m - 1)) \o t[m]
  BY <1>1, FlattenPrefixes
<1> DEFINE Bad == {m \in 0..n : OwedOf(FlattenSeq(FirstOf(s, m))) # FlattenSeq(FirstOf(t, m))}
<1>4. ASSUME Bad # {}
      PROVE  FALSE
  <2>1. Bad \in SUBSET Nat
    OBVIOUS
  <2>2. PICK m \in Bad : \A j \in Bad : m <= j
    <3> HIDE DEF Bad
    <3>1. QED
      BY <1>4, <2>1, FirstExists
  <2>3. m \in 0..n /\ OwedOf(FlattenSeq(FirstOf(s, m))) # FlattenSeq(FirstOf(t, m))
    OBVIOUS
  <2>4. m # 0
    <3>1. OwedOf(<<>>) = <<>>
      BY DEF OwedOf
    <3>2. QED
      BY <1>2, <1>3, <2>3, <3>1
  <2>5. m \in 1..n /\ m - 1 \in 0..n /\ m - 1 \notin Bad
    BY <2>2, <2>3, <2>4
  <2>6. PICK a \in Seq(PendingItem) : a = FlattenSeq(FirstOf(s, m - 1))
    BY <1>2, <2>5
  <2>7. OwedOf(a) = FlattenSeq(FirstOf(t, m - 1))
    BY <2>5, <2>6
  <2>8. PICK b \in Seq(PendingItem) : b = s[m] /\ t[m] = OwedOf(b)
    BY <1>1, <2>5, ElementOfSeq
  <2>9. /\ FlattenSeq(FirstOf(s, m)) = a \o b
        /\ FlattenSeq(FirstOf(t, m)) = OwedOf(a) \o OwedOf(b)
    BY <1>2, <1>3, <2>5, <2>6, <2>7, <2>8
  <2>10. OwedOf(a \o b) = OwedOf(a) \o OwedOf(b)
    BY OwedConcat
  <2>11. QED
    BY <2>3, <2>9, <2>10
<1>5. n \in 0..n /\ n \notin Bad
  BY <1>4
<1>6. QED
  BY <1>2, <1>3, <1>5

\* The instance of DeferSemantics has the same operators on sequences.
LEMMA DocSequences ==
    ASSUME NEW s
    PROVE  Doc!FlattenSeq(s) = FlattenSeq(s) /\ Doc!Reverse(s) = Reverse(s)
<1>1. Doc!FlattenSeq(s) = FlattenSeq(s)
  BY Zenon DEF Doc!FlattenSeq, FlattenSeq
<1>2. Doc!Reverse(s) = Reverse(s)
  BY DEF Doc!Reverse, Reverse
<1>3. QED
  BY <1>1, <1>2

\* What is owed of a kind in a scope, and in a scope that owes one thing more.
LEMMA KindFacts ==
    ASSUME NEW f \in Seq(Obligation), NEW kind
    PROVE  Doc!OfKind(f, kind) \in Seq(Obligation) /\ Doc!OfKind(<<>>, kind) = <<>>
<1>1. ASSUME NEW g \in Seq(Obligation), NEW s,
             s = [i \in DOMAIN g |-> IF g[i].kind = kind THEN <<g[i]>> ELSE <<>>]
      PROVE  s \in Seq(Seq(Obligation)) /\ Len(s) = Len(g)
  <2>1. PICK n \in Nat : n = Len(g) /\ DOMAIN g = 1..n
    OBVIOUS
  <2>2. ASSUME NEW i \in 1..n
        PROVE  s[i] \in Seq(Obligation)
    <3>1. PICK o \in Obligation : o = g[i]
      BY <2>1, ElementOfSeq
    <3>2. <<o>> \in Seq(Obligation) /\ <<>> \in Seq(Obligation)
      BY EmptySeq
    <3>3. QED
      BY <1>1, <2>1, <3>1, <3>2
  <2>3. s = [i \in 1..n |-> s[i]]
    BY <1>1, <2>1
  <2>4. QED
    BY <2>1, <2>2, <2>3, ListedFacts
<1>2. Doc!OfKind(f, kind) \in Seq(Obligation)
  <2>1. PICK s : s = [i \in DOMAIN f |-> IF f[i].kind = kind THEN <<f[i]>> ELSE <<>>]
    OBVIOUS
  <2>2. s \in Seq(Seq(Obligation))
    BY <1>1, <2>1
  <2>3. FlattenSeq(s) \in Seq(Obligation)
    BY <2>2, FlattenType
  <2>4. QED
    BY <2>1, <2>3, DocSequences DEF Doc!OfKind
<1>3. Doc!OfKind(<<>>, kind) = <<>>
  <2>1. PICK g \in Seq(Obligation) : g = <<>> /\ Len(g) = 0
    BY EmptySeq
  <2>2. PICK s : s = [i \in DOMAIN g |-> IF g[i].kind = kind THEN <<g[i]>> ELSE <<>>]
    OBVIOUS
  <2>3. s \in Seq(Seq(Obligation)) /\ Len(s) = 0
    BY <1>1, <2>1, <2>2
  <2>4. FlattenSeq(s) = <<>>
    BY <2>3, FlattenNone
  <2>5. QED
    BY <2>1, <2>2, <2>4, DocSequences DEF Doc!OfKind
<1>4. QED
  BY <1>2, <1>3

LEMMA KindAppend ==
    ASSUME NEW f \in Seq(Obligation), NEW o \in Obligation, NEW kind
    PROVE  Doc!OfKind(Append(f, o), kind) =
               IF o.kind = kind THEN Append(Doc!OfKind(f, kind), o) ELSE Doc!OfKind(f, kind)
<1>1. PICK n \in Nat : n = Len(f) /\ DOMAIN f = 1..n
  OBVIOUS
<1>2. PICK g \in Seq(Obligation) : /\ g = Append(f, o) /\ Len(g) = n + 1 /\ g[n + 1] = o
                                   /\ \A i \in 1..n : g[i] = f[i]
  <2>1. /\ Append(f, o) \in Seq(Obligation) /\ Len(Append(f, o)) = Len(f) + 1
        /\ \A i \in 1..Len(f) : Append(f, o)[i] = f[i]
        /\ Append(f, o)[Len(f) + 1] = o
    BY AppendProperties
  <2>2. QED
    BY <1>1, <2>1
<1>3. DOMAIN g = 1..(n + 1)
  BY <1>2
<1>4. PICK s : s = [i \in 1..(n + 1) |-> IF g[i].kind = kind THEN <<g[i]>> ELSE <<>>]
  OBVIOUS
<1>5. PICK t : t = [i \in 1..n |-> IF f[i].kind = kind THEN <<f[i]>> ELSE <<>>]
  OBVIOUS
<1>6. Doc!OfKind(g, kind) = FlattenSeq(s) /\ Doc!OfKind(f, kind) = FlattenSeq(t)
  BY <1>1, <1>3, <1>4, <1>5, DocSequences DEF Doc!OfKind
<1>7. \A p \in Obligation : <<p>> \in Seq(Obligation)
  OBVIOUS
<1>8. <<>> \in Seq(Obligation)
  BY EmptySeq
<1>9. s \in Seq(Seq(Obligation)) /\ Len(s) = n + 1
  <2>1. \A i \in 1..(n + 1) : g[i] \in Obligation
    BY <1>2, ElementOfSeq
  <2>2. \A i \in 1..(n + 1) : s[i] \in Seq(Obligation)
    BY <1>4, <1>7, <1>8, <2>1
  <2>3. s = [i \in 1..(n + 1) |-> s[i]] /\ n + 1 \in Nat
    BY <1>4
  <2>4. PICK S : S = Seq(Obligation)
    OBVIOUS
  <2>5. PICK m \in Nat : m = n + 1
    BY <2>3
  <2>6. s \in [1..m -> S]
    BY <2>2, <2>3, <2>4, <2>5
  <2>7. s \in Seq(S) /\ Len(s) = m
    BY <2>6, FunctionIsSeq
  <2>8. QED
    BY <2>4, <2>5, <2>7
<1>10. t \in Seq(Seq(Obligation)) /\ Len(t) = n
  <2>1. \A i \in 1..n : f[i] \in Obligation
    BY <1>1, ElementOfSeq
  <2>2. \A i \in 1..n : t[i] \in Seq(Obligation)
    BY <1>5, <1>7, <1>8, <2>1
  <2>3. t = [i \in 1..n |-> t[i]]
    BY <1>5
  <2>4. PICK S : S = Seq(Obligation)
    OBVIOUS
  <2>5. t \in [1..n -> S]
    BY <2>2, <2>3, <2>4
  <2>6. t \in Seq(S) /\ Len(t) = n
    BY <2>5, FunctionIsSeq
  <2>7. QED
    BY <2>4, <2>6
<1>11. PICK w \in Seq(Obligation) : w = FlattenSeq(t)
  BY <1>10, FlattenType
<1>12. FlattenSeq(s) = w \o s[n + 1]
  <2>1. \A i \in 1..Len(t) : t[i] = s[i]
    <3>1. \A i \in 1..n : i \in 1..(n + 1)
      OBVIOUS
    <3>2. QED
      BY <1>2, <1>4, <1>5, <1>10, <3>1
  <2>2. Len(s) = Len(t) + 1 /\ FlattenSeq(t) \in Seq(Obligation)
    BY <1>9, <1>10, <1>11
  <2>3. FlattenSeq(s) = FlattenSeq(t) \o s[Len(s)]
    BY <1>9, <1>10, <2>1, <2>2, FlattenLast
  <2>4. QED
    BY <1>9, <1>11, <2>3
<1>13. n + 1 \in 1..(n + 1)
  OBVIOUS
<1>14. CASE o.kind = kind
  <2>1. s[n + 1] = <<o>>
    BY <1>2, <1>4, <1>13, <1>14
  <2>2. w \o <<o>> = Append(w, o)
    OBVIOUS
  <2>3. QED
    BY <1>2, <1>6, <1>11, <1>12, <1>14, <2>1, <2>2
<1>15. CASE o.kind # kind
  <2>1. s[n + 1] = <<>>
    BY <1>2, <1>4, <1>13, <1>15
  <2>2. w \o <<>> = w
    BY ConcatEmptySeq
  <2>3. QED
    BY <1>2, <1>6, <1>11, <1>12, <1>15, <2>1, <2>2
<1>16. QED
  BY <1>14, <1>15

\* A scope owes what is pending in a block, of each kind in the same order.
Owes(f, a, b) == Doc!OfKind(f, "defer") = OwedOf(a) /\ Doc!OfKind(f, "string") = OwedOf(b)

\* The code of a block discharges what its scope owes, in the documented order.
LEMMA BlockDischarges ==
    ASSUME Paired(PendingItem, deferScopes, cleanupScopes), NEW i \in 1..Len(deferScopes),
           NEW f, Owes(f, deferScopes[i], cleanupScopes[i])
    PROVE  Doc!Discharge(f) = OwedOf(ScopeItems(i))
<1>1. PICK a \in Seq(PendingItem) : a = deferScopes[i]
  BY ScopeItemsFacts
<1>2. PICK b \in Seq(PendingItem) : b = cleanupScopes[i]
  BY ScopeItemsFacts
<1>3. Doc!Discharge(f) = Reverse(OwedOf(a)) \o Reverse(OwedOf(b))
  BY <1>1, <1>2, DocSequences DEF Owes, Doc!Discharge
<1>4. PICK ra \in Seq(PendingItem) : ra = Reverse(a) /\ OwedOf(ra) = Reverse(OwedOf(a))
  BY OwedReverse
<1>5. PICK rb \in Seq(PendingItem) : rb = Reverse(b) /\ OwedOf(rb) = Reverse(OwedOf(b))
  BY OwedReverse
<1>6. ScopeItems(i) = ra \o rb
  BY <1>1, <1>2, <1>4, <1>5 DEF ScopeItems
<1>7. OwedOf(ra \o rb) = OwedOf(ra) \o OwedOf(rb)
  BY OwedConcat
<1>8. QED
  BY <1>3, <1>4, <1>5, <1>6, <1>7

\* The open scopes of the execution owe what is pending in the blocks they are of.
Matched ==
    \A j \in 1..Len(frames) : Owes(frames[j], deferScopes[j], cleanupScopes[j])

\* The clean-up code of all blocks deeper than depth discharges what those scopes owe,
\* in the documented order.
LEMMA CodeUnwinds ==
    ASSUME StackInv, Len(frames) = Len(deferScopes), Matched, NEW depth \in 0..Len(deferScopes)
    PROVE  /\ Doc!Unwind(Len(deferScopes) - depth) = OwedOf(EmitDefersFrom(depth))
           /\ EmitDefersFrom(depth) \in Seq(PendingItem)
<1>1. PICK n \in Nat : n = Len(deferScopes) /\ n = Len(frames)
  BY DEF StackInv, Paired
<1>2. PICK m \in 0..n : m = n - depth
  <2>1. n - depth \in 0..n
    BY <1>1
  <2>2. QED
    BY <2>1
<1>3. PICK s : s = [j \in 1..m |-> ScopeItems(n + 1 - j)]
  OBVIOUS
<1>4. PICK t : t = [j \in 1..m |-> Doc!Discharge(frames[n + 1 - j])]
  OBVIOUS
<1>5. EmitDefersFrom(depth) = FlattenSeq(s) /\ Doc!Unwind(m) = FlattenSeq(t)
  BY <1>1, <1>2, <1>3, <1>4, DocSequences DEF EmitDefersFrom, Doc!Unwind
<1>6. Paired(PendingItem, deferScopes, cleanupScopes)
  BY DEF StackInv
<1>7. ASSUME NEW j \in 1..m
      PROVE  /\ s[j] \in Seq(PendingItem) /\ t[j] = OwedOf(s[j])
             /\ t[j] \in Seq(Obligation)
  <2>1. PICK i \in 1..n : i = n + 1 - j
    <3>1. n + 1 - j \in 1..n
      OBVIOUS
    <3>2. QED
      BY <3>1
  <2>2. PICK c \in Seq(PendingItem) : c = ScopeItems(i)
    BY <1>1, <1>6, ScopeItemsFacts
  <2>3. PICK f : f = frames[i] /\ Owes(f, deferScopes[i], cleanupScopes[i])
    BY <1>1 DEF Matched
  <2>4. Doc!Discharge(f) = OwedOf(c)
    BY <1>1, <1>6, <2>2, <2>3, BlockDischarges
  <2>5. s[j] = c /\ t[j] = OwedOf(c)
    BY <1>3, <1>4, <2>1, <2>2, <2>3, <2>4
  <2>6. QED
    BY <2>5, OwedFacts
<1>8. s = [j \in 1..m |-> s[j]] /\ t = [j \in 1..m |-> t[j]] /\ m \in Nat
  BY <1>3, <1>4
<1>9. s \in Seq(Seq(PendingItem)) /\ Len(s) = m
  <2>1. PICK S : S = Seq(PendingItem)
    OBVIOUS
  <2>2. s \in [1..m -> S]
    BY <1>7, <1>8, <2>1
  <2>3. s \in Seq(S) /\ Len(s) = m
    BY <1>8, <2>2, FunctionIsSeq
  <2>4. QED
    BY <2>1, <2>3
<1>10. t \in Seq(Seq(Obligation)) /\ Len(t) = m
  <2>1. PICK S : S = Seq(Obligation)
    OBVIOUS
  <2>2. t \in [1..m -> S]
    BY <1>7, <1>8, <2>1
  <2>3. t \in Seq(S) /\ Len(t) = m
    BY <1>8, <2>2, FunctionIsSeq
  <2>4. QED
    BY <2>1, <2>3
<1>11. OwedOf(FlattenSeq(s)) = FlattenSeq(t)
  <2>1. Len(t) = Len(s) /\ \A j \in 1..Len(s) : t[j] = OwedOf(s[j])
    BY <1>7, <1>9, <1>10
  <2>2. QED
    BY <1>9, <1>10, <2>1, OwedFlattened
<1>12. FlattenSeq(s) \in Seq(PendingItem)
  BY <1>9, FlattenType
<1>13. QED
  BY <1>1, <1>2, <1>5, <1>11, <1>12

\* What is pending is owed in the documented order, unless a statement was skipped.
FrameInv == ~skipped => Matched

\* A step is one the documentation allows, or comes after a statement was skipped.
Documented == skipped' \/ Doc!Next \/ UNCHANGED <<frames, ran>>

\* Blocks are opened or closed that the execution is not in.
LEMMA MatchedKept ==
    ASSUME FrameInv, skipped' = skipped,
           \A j \in 1..Len(frames') :
               /\ j \in 1..Len(frames) /\ frames'[j] = frames[j]
               /\ deferScopes'[j] = deferScopes[j] /\ cleanupScopes'[j] = cleanupScopes[j]
    PROVE  FrameInv'
<1>1. ASSUME Matched, NEW j \in 1..Len(frames')
      PROVE  Owes(frames'[j], deferScopes'[j], cleanupScopes'[j])
  <2>1. Owes(frames[j], deferScopes[j], cleanupScopes[j])
    BY <1>1 DEF Matched
  <2>2. QED
    BY <2>1
<1>2. Matched => Matched'
  BY <1>1 DEF Matched
<1>3. QED
  BY <1>2 DEF FrameInv

LEMMA UnmovedDocumented ==
    ASSUME FrameInv,
           \/ Resuming \/ Closing \/ VisitStrayJump \/ EndFunction
           \/ \E x \in Names : VisitPlainDecl(x)
           \/ \E f : Opening(f)
    PROVE  FrameInv' /\ Documented
<1>1. EmitNothing /\ UNCHANGED <<deferScopes, cleanupScopes, frames, skipped>>
  BY DEF Resuming, Closing, VisitStrayJump, EndFunction, VisitPlainDecl, Opening, Quiet
<1>2. UNCHANGED <<frames, ran>>
  BY <1>1 DEF EmitNothing
<1>3. FrameInv'
  BY <1>1, MatchedKept
<1>4. QED
  BY <1>2, <1>3 DEF Documented

\* The list b is a with one item more.
OneMore(a, b, it) ==
    /\ a \in Seq(PendingItem) /\ b \in Seq(PendingItem) /\ it \in PendingItem
    /\ Len(b) = Len(a) + 1 /\ b[Len(a) + 1] = it /\ \A k \in 1..Len(a) : b[k] = a[k]

\* A scope and its block come to owe one thing more, of one kind.
LEMMA OwesMore ==
    ASSUME NEW f \in Seq(Obligation), NEW a, NEW b, Owes(f, a, b), NEW it \in PendingItem
    PROVE  /\ \A c : OneMore(a, c, it) /\ it.kind = "defer" => Owes(Append(f, Owed(it)), c, b)
           /\ \A c : OneMore(b, c, it) /\ it.kind = "string" => Owes(Append(f, Owed(it)), a, c)
<1>1. PICK o \in Obligation : o = Owed(it) /\ o.kind = it.kind
  <2>1. Owed(it) \in Obligation
    BY DEF Owed, PendingItem, Item, Obligation
  <2>2. Owed(it).kind = it.kind
    BY DEF Owed
  <2>3. QED
    BY <2>1, <2>2
<1>2. \A kind : Doc!OfKind(Append(f, o), kind) =
                   IF o.kind = kind THEN Append(Doc!OfKind(f, kind), o) ELSE Doc!OfKind(f, kind)
  BY KindAppend
<1>3. ASSUME NEW c, OneMore(a, c, it), it.kind = "defer"
      PROVE  Owes(Append(f, o), c, b)
  <2>1. OwedOf(c) = Append(OwedOf(a), o)
    <3>1. OwedOf(c) = Append(OwedOf(a), Owed(it))
      BY <1>3, OwedAppend DEF OneMore
    <3>2. QED
      BY <1>1, <3>1
  <2>2. Doc!OfKind(Append(f, o), "defer") = Append(Doc!OfKind(f, "defer"), o)
    BY <1>1, <1>2, <1>3
  <2>3. Doc!OfKind(Append(f, o), "string") = Doc!OfKind(f, "string")
    <3>1. o.kind # "string"
      BY <1>1, <1>3
    <3>2. QED
      BY <1>2, <3>1
  <2>4. QED
    BY <2>1, <2>2, <2>3 DEF Owes
<1>4. ASSUME NEW c, OneMore(b, c, it), it.kind = "string"
      PROVE  Owes(Append(f, o), a, c)
  <2>1. OwedOf(c) = Append(OwedOf(b), o)
    <3>1. OwedOf(c) = Append(OwedOf(b), Owed(it))
      BY <1>4, OwedAppend DEF OneMore
    <3>2. QED
      BY <1>1, <3>1
  <2>2. Doc!OfKind(Append(f, o), "string") = Append(Doc!OfKind(f, "string"), o)
    BY <1>1, <1>2, <1>4
  <2>3. Doc!OfKind(Append(f, o), "defer") = Doc!OfKind(f, "defer")
    <3>1. o.kind # "defer"
      BY <1>1, <1>4
    <3>2. QED
      BY <1>2, <3>1
  <2>4. QED
    BY <2>1, <2>2, <2>3 DEF Owes
<1>5. QED
  BY <1>1, <1>3, <1>4

\* An item is pending, in the innermost block, and the execution owes it if it is there.
LEMMA RegisteredDocumented ==
    ASSUME StackInv, HoldInv, FrameInv, StackInv', AtDecl, Registered,
           NEW it \in PendingItem, UNCHANGED ran,
           \/ it.kind = "defer" /\ Added(deferScopes, deferScopes', it)
                                /\ UNCHANGED cleanupScopes
           \/ it.kind = "string" /\ Added(cleanupScopes, cleanupScopes', it)
                                 /\ UNCHANGED deferScopes,
           frames' = IF live THEN AddTo(frames, Owed(it)) ELSE frames
    PROVE  FrameInv' /\ Documented
<1>1. PICK n \in Nat : n = Len(deferScopes) /\ n = Len(cleanupScopes) /\ n # 0
  BY InBlock DEF StackInv, Paired
<1>2. PICK fr \in Seq(Seq(Obligation)) : fr = frames /\ Len(fr) \in 0..n /\ (live => Len(fr) = n)
  BY <1>1, DepthHere DEF StackInv, RunTypes
<1>3. PICK o \in Obligation : o = Owed(it)
  BY DEF Owed, PendingItem, Item, Obligation
<1>4. CASE skipped'
  BY <1>4 DEF FrameInv, Documented
<1>5. CASE ~skipped'
  <2>1. /\ ~skipped /\ (live \/ Len(fr) < n) /\ Matched
        /\ \A j \in 1..n : j # n => /\ deferScopes'[j] = deferScopes[j]
                                    /\ cleanupScopes'[j] = cleanupScopes[j]
    <3>1. ~skipped /\ (live \/ ~(n <= Len(fr)))
      BY <1>1, <1>2, <1>5 DEF Registered
    <3>2. live \/ Len(fr) < n
      BY <1>2, <3>1
    <3>3. \A j \in 1..n : j # n => /\ deferScopes'[j] = deferScopes[j]
                                   /\ cleanupScopes'[j] = cleanupScopes[j]
      BY <1>1 DEF Added
    <3>4. QED
      BY <3>1, <3>2, <3>3 DEF FrameInv
  <2>2. CASE ~live
    <3>1. frames' = frames /\ Len(fr) < n /\ skipped' = skipped
      BY <1>5, <2>1, <2>2 DEF StackInv, RunTypes
    <3>2. \A j \in 1..Len(fr) : j \in 1..n /\ j # n
      BY <1>2, <3>1
    <3>3. FrameInv'
      BY <1>2, <2>1, <3>1, <3>2, MatchedKept
    <3>4. QED
      BY <3>1, <3>3 DEF Documented
  <2>3. CASE live
    <3>1. PICK w \in Seq(Obligation) : w = fr[n] /\ n \in 1..n
      BY <1>1, <1>2, <2>3, ElementOfSeq
    <3>2. fr # <<>> /\ Len(fr) = n
      BY <1>1, <1>2, <2>3
    <3>3. frames' = [fr EXCEPT ![n] = Append(w, o)]
      BY <1>2, <1>3, <2>3, <3>1, <3>2 DEF AddTo
    <3>4. Doc!Register(o)
      <4>1. frames' = [frames EXCEPT ![Len(frames)] = Append(@, o)]
        BY <1>2, <3>1, <3>2, <3>3
      <4>2. QED
        BY <1>2, <3>2, <4>1 DEF Doc!Register
    <3>5. /\ Len(frames') = n /\ frames'[n] = Append(w, o)
          /\ \A j \in 1..n : j # n => frames'[j] = fr[j]
      <4>1. Append(w, o) \in Seq(Obligation)
        BY <3>1
      <4>2. PICK u, r : u \in Seq(Obligation) /\ u = Append(w, o) /\ r = frames'
        BY <4>1
      <4>3. r = [fr EXCEPT ![n] = u] /\ n \in 1..Len(fr)
        BY <3>1, <3>2, <3>3, <4>2
      <4>4. /\ Len(r) = Len(fr)
            /\ \A j \in 1..Len(fr) : r[j] = IF j = n THEN u ELSE fr[j]
        BY <4>3, ExceptSeq
      <4>5. QED
        BY <3>1, <3>2, <4>2, <4>4
    <3>6. PICK a \in Seq(PendingItem) : a = deferScopes[n]
      BY <1>1, <3>1, ElementOfSeq DEF StackInv, Paired
    <3>7. PICK b \in Seq(PendingItem) : b = cleanupScopes[n]
      BY <1>1, <3>1, ElementOfSeq DEF StackInv, Paired
    <3>8. Owes(w, a, b)
      BY <1>2, <2>1, <3>1, <3>2, <3>6, <3>7 DEF Matched
    <3>9. Owes(Append(w, o), deferScopes'[n], cleanupScopes'[n])
      <4>1. CASE it.kind = "defer" /\ Added(deferScopes, deferScopes', it)
                                   /\ UNCHANGED cleanupScopes
        <5>1. PICK c \in Seq(PendingItem) : c = deferScopes'[n]
          <6>1. deferScopes' \in Seq(Seq(PendingItem)) /\ Len(deferScopes') = n
            BY <1>1, <4>1 DEF StackInv, Paired, Added
          <6>2. QED
            BY <3>1, <6>1, ElementOfSeq
        <5>2. OneMore(a, c, it)
          BY <1>1, <3>6, <4>1, <5>1 DEF Added, OneMore
        <5>3. Owes(Append(w, Owed(it)), c, b)
          BY <3>8, <4>1, <5>2, OwesMore
        <5>4. QED
          BY <1>3, <3>7, <4>1, <5>1, <5>3
      <4>2. CASE it.kind = "string" /\ Added(cleanupScopes, cleanupScopes', it)
                                    /\ UNCHANGED deferScopes
        <5>1. PICK c \in Seq(PendingItem) : c = cleanupScopes'[n]
          <6>1. cleanupScopes' \in Seq(Seq(PendingItem)) /\ Len(cleanupScopes') = n
            BY <1>1, <4>2 DEF StackInv, Paired, Added
          <6>2. QED
            BY <3>1, <6>1, ElementOfSeq
        <5>2. OneMore(b, c, it)
          BY <1>1, <3>7, <4>2, <5>1 DEF Added, OneMore
        <5>3. Owes(Append(w, Owed(it)), a, c)
          BY <3>8, <4>2, <5>2, OwesMore
        <5>4. QED
          BY <1>3, <3>6, <4>2, <5>1, <5>3
      <4>3. QED
        BY <4>1, <4>2
    <3>10. Matched'
      <4>1. ASSUME NEW j \in 1..n
            PROVE  Owes(frames'[j], deferScopes'[j], cleanupScopes'[j])
        <5>1. CASE j = n
          BY <3>5, <3>9, <5>1
        <5>2. CASE j # n
          <6>1. Owes(fr[j], deferScopes[j], cleanupScopes[j])
            BY <1>2, <2>1, <3>2 DEF Matched
          <6>2. QED
            BY <2>1, <3>5, <5>2, <6>1
        <5>3. QED
          BY <5>1, <5>2
      <4>2. QED
        BY <3>5, <4>1 DEF Matched
    <3>11. Doc!Next
      BY <3>4 DEF Doc!Next
    <3>12. QED
      BY <3>10, <3>11 DEF FrameInv, Documented
  <2>4. QED
    BY <2>2, <2>3
<1>6. QED
  BY <1>4, <1>5

LEMMA DeferDocumented ==
    ASSUME StackInv, HoldInv, FrameInv, StackInv', NEW x \in Names, VisitDefer(x)
    PROVE  FrameInv' /\ Documented
<1>1. /\ AtStmt /\ Visit /\ deferScopes' = AddTo(deferScopes, Defer(x)) /\ EmitNothing
      /\ frames' = IF live THEN AddTo(frames, Owed(Defer(x))) ELSE frames
      /\ Registered /\ UNCHANGED cleanupScopes
  BY DEF VisitDefer
<1>2. AtDecl /\ visited < MaxStmts /\ ctl # <<>>
  BY <1>1 DEF AtDecl, AtStmt
<1>3. visited' \in Ids
  BY <1>1, <1>2, VisitTyped
<1>4. PICK it \in PendingItem : it = Defer(x) /\ it.kind = "defer"
  BY <1>2, <1>3, NewItems DEF Defer
<1>5. PICK ds, ds2 : ds = deferScopes /\ ds2 = deferScopes'
  OBVIOUS
<1>6. ds \in Seq(Seq(PendingItem)) /\ Len(ds) # 0
  BY <1>2, <1>5, InBlock DEF StackInv, Paired
<1>7. Added(ds, ds2, it)
  <2>1. ds2 = AddTo(ds, it)
    BY <1>1, <1>4, <1>5
  <2>2. QED
    BY <1>6, <2>1, AddToAdds
<1>8. UNCHANGED ran
  BY <1>1 DEF EmitNothing
<1>9. /\ it.kind = "defer" /\ Added(deferScopes, deferScopes', it) /\ UNCHANGED cleanupScopes
      /\ frames' = IF live THEN AddTo(frames, Owed(it)) ELSE frames
  BY <1>1, <1>4, <1>5, <1>7
<1>10. QED
  BY <1>1, <1>2, <1>8, <1>9, RegisteredDocumented

LEMMA StringDocumented ==
    ASSUME StackInv, HoldInv, FrameInv, StackInv', NEW x \in Names, VisitStringDecl(x)
    PROVE  FrameInv' /\ Documented
<1>1. /\ AtDecl /\ Visit /\ cleanupScopes' = AddTo(cleanupScopes, StringOf(x))
      /\ frames' = IF live THEN AddTo(frames, Owed(StringOf(x))) ELSE frames
      /\ Registered /\ UNCHANGED <<deferScopes, ran>>
  BY DEF VisitStringDecl
<1>2. visited < MaxStmts /\ ctl # <<>>
  BY <1>1 DEF AtDecl, AtStmt
<1>3. visited' \in Ids
  BY <1>1, <1>2, VisitTyped
<1>4. PICK it \in PendingItem : it = StringOf(x) /\ it.kind = "string"
  BY <1>2, <1>3, NewItems DEF StringOf
<1>5. PICK cs, cs2 : cs = cleanupScopes /\ cs2 = cleanupScopes'
  OBVIOUS
<1>6. cs \in Seq(Seq(PendingItem)) /\ Len(cs) # 0
  BY <1>1, <1>5, InBlock DEF StackInv, Paired
<1>7. Added(cs, cs2, it)
  <2>1. cs2 = AddTo(cs, it)
    BY <1>1, <1>4, <1>5
  <2>2. QED
    BY <1>6, <2>1, AddToAdds
<1>8. /\ it.kind = "string" /\ Added(cleanupScopes, cleanupScopes', it)
      /\ UNCHANGED deferScopes
      /\ frames' = IF live THEN AddTo(frames, Owed(it)) ELSE frames
  BY <1>1, <1>4, <1>5, <1>7
<1>9. UNCHANGED ran
  BY <1>1
<1>10. QED
  BY <1>1, <1>8, <1>9, RegisteredDocumented

LEMMA OpenedDocumented ==
    ASSUME StackInv, HoldInv, FrameInv, NEW c, BlockOpening(c)
    PROVE  FrameInv' /\ Documented
<1>1. /\ EmitNothing /\ UNCHANGED skipped
      /\ deferScopes' = Append(deferScopes, <<>>)
      /\ cleanupScopes' = Append(cleanupScopes, <<>>)
      /\ frames' = IF live' THEN Append(frames, <<>>) ELSE frames
  BY DEF BlockOpening, OpenBlock
<1>2. PICK n \in Nat : n = Len(deferScopes) /\ n = Len(cleanupScopes)
  BY DEF StackInv, Paired
<1>3. PICK fr \in Seq(Seq(Obligation)) : fr = frames /\ Len(fr) \in 0..n
  BY <1>2, DepthHere DEF StackInv, RunTypes
<1>4. PICK ds2, cs2 : ds2 = deferScopes' /\ cs2 = cleanupScopes'
  OBVIOUS
<1>5. /\ ds2[n + 1] = <<>> /\ cs2[n + 1] = <<>>
      /\ \A j \in 1..n : ds2[j] = deferScopes[j] /\ cs2[j] = cleanupScopes[j]
  <2>1. <<>> \in Seq(Item)
    BY EmptySeq
  <2>2. PICK ds \in Seq(Seq(Item)) : ds = deferScopes /\ ds2 = Append(ds, <<>>) /\ Len(ds) = n
    BY <1>1, <1>2, <1>4 DEF StackInv, Paired
  <2>3. PICK cs \in Seq(Seq(Item)) : cs = cleanupScopes /\ cs2 = Append(cs, <<>>) /\ Len(cs) = n
    BY <1>1, <1>2, <1>4 DEF StackInv, Paired
  <2>4. ds2[n + 1] = <<>> /\ \A j \in 1..n : ds2[j] = ds[j]
    BY <2>1, <2>2, AppendProperties
  <2>5. cs2[n + 1] = <<>> /\ \A j \in 1..n : cs2[j] = cs[j]
    BY <2>1, <2>3, AppendProperties
  <2>6. QED
    BY <2>2, <2>3, <2>4, <2>5
<1>6. CASE ~live'
  <2>1. frames' = frames /\ ran' = ran
    BY <1>1, <1>6 DEF EmitNothing
  <2>2. \A j \in 1..Len(fr) : j \in 1..n
    BY <1>3
  <2>3. FrameInv'
    BY <1>1, <1>3, <1>4, <1>5, <2>1, <2>2, MatchedKept
  <2>4. QED
    BY <2>1, <2>3 DEF Documented
<1>7. CASE live'
  <2>1. Len(fr) = n
    BY <1>2, <1>3, <1>7, OpenedHere
  <2>2. Doc!Enter
    BY <1>1, <1>7 DEF Doc!Enter, EmitNothing
  <2>3. PICK r : r = frames' /\ r = Append(fr, <<>>)
    BY <1>1, <1>3, <1>7
  <2>4. Len(r) = n + 1 /\ r[n + 1] = <<>> /\ \A j \in 1..n : r[j] = fr[j]
    <3>1. <<>> \in Seq(Obligation)
      BY EmptySeq
    <3>2. QED
      BY <2>1, <2>3, <3>1, AppendProperties
  <2>5. Owes(<<>>, <<>>, <<>>)
    <3>1. PICK e \in Seq(Obligation) : e = <<>>
      BY EmptySeq
    <3>2. Doc!OfKind(<<>>, "defer") = <<>> /\ Doc!OfKind(<<>>, "string") = <<>>
      BY <3>1, KindFacts
    <3>3. OwedOf(<<>>) = <<>>
      BY DEF OwedOf
    <3>4. QED
      BY <3>2, <3>3 DEF Owes
  <2>6. ASSUME Matched
        PROVE  Matched'
    <3>1. ASSUME NEW j \in 1..(n + 1)
          PROVE  Owes(r[j], ds2[j], cs2[j])
      <4>1. CASE j = n + 1
        BY <1>5, <2>4, <2>5, <4>1
      <4>2. CASE j # n + 1
        <5>1. j \in 1..n
          BY <4>2
        <5>2. Owes(fr[j], deferScopes[j], cleanupScopes[j])
          BY <1>3, <2>1, <2>6, <5>1 DEF Matched
        <5>3. QED
          BY <1>5, <2>4, <5>1, <5>2
      <4>3. QED
        BY <4>1, <4>2
    <3>2. QED
      BY <1>4, <2>3, <2>4, <3>1 DEF Matched
  <2>7. Doc!Next
    BY <2>2 DEF Doc!Next
  <2>8. QED
    BY <1>1, <2>6, <2>7 DEF FrameInv, Documented
<1>8. QED
  BY <1>6, <1>7

\* The execution leaves the blocks deeper than depth.
LEMMA ClearedDocumented ==
    ASSUME StackInv, HoldInv, FrameInv, live, skipped' = skipped,
           NEW depth \in 0..Len(deferScopes), NEW st, Emit(EmitDefersFrom(depth), st),
           frames' = SubSeq(frames, 1, depth), depth <= Len(deferScopes'),
           Len(deferScopes') \in Nat, Len(cleanupScopes') = Len(deferScopes'),
           Sliced(deferScopes, deferScopes'), Sliced(cleanupScopes, cleanupScopes')
    PROVE  FrameInv' /\ Documented
<1>1. PICK n \in Nat : n = Len(deferScopes) /\ n = Len(cleanupScopes)
  BY DEF StackInv, Paired
<1>2. PICK fr \in Seq(Seq(Obligation)) : fr = frames /\ Len(fr) = n
  BY <1>1, DepthHere DEF StackInv, RunTypes
<1>3. PICK d \in 0..n : d = depth
  BY <1>1
<1>4. PICK r : r = frames'
  OBVIOUS
<1>5. Len(r) = d /\ \A j \in 1..d : r[j] = fr[j] /\ j \in 1..n
  BY <1>2, <1>3, <1>4
<1>6. PICK l \in Nat : l = Len(deferScopes') /\ l = Len(cleanupScopes') /\ d <= l
  BY <1>3
<1>7. \A j \in 1..d : j \in 1..n /\ j \in 1..l
  BY <1>6
<1>8. FrameInv'
  <2>1. ASSUME NEW j \in 1..d
        PROVE  deferScopes'[j] = deferScopes[j] /\ cleanupScopes'[j] = cleanupScopes[j]
    BY <1>1, <1>6, <1>7 DEF Sliced
  <2>2. QED
    BY <1>2, <1>4, <1>5, <2>1, MatchedKept
<1>9. CASE skipped
  BY <1>8, <1>9 DEF Documented
<1>10. CASE ~skipped
  <2>1. Matched
    BY <1>10 DEF FrameInv
  <2>2. PICK k \in 0..n : k = n - d /\ n - k = d
    <3>1. n - d \in 0..n /\ n - (n - d) = d
      OBVIOUS
    <3>2. QED
      BY <3>1
  <2>3. PICK items \in Seq(PendingItem) :
            items = EmitDefersFrom(depth) /\ Doc!Unwind(k) = OwedOf(items)
    BY <1>1, <1>2, <1>3, <2>1, <2>2, CodeUnwinds
  <2>4. ran' = ran \o OwedOf(items)
    <3>1. DOMAIN items = 1..Len(items)
      OBVIOUS
    <3>2. QED
      BY <2>3, <3>1 DEF Emit, OwedOf
  <2>5. CASE k = 0
    <3>1. EmitDefersFrom(depth) = <<>>
      <4>1. EmitDefersFrom(Len(deferScopes)) = <<>>
        BY EmitSteps DEF StackInv
      <4>2. QED
        BY <1>1, <1>3, <2>2, <2>5, <4>1
    <3>2. OwedOf(<<>>) = <<>>
      BY DEF OwedOf
    <3>3. ran \in Seq(Obligation)
      BY DEF StackInv, RunTypes
    <3>4. ran' = ran
      BY <2>3, <2>4, <3>1, <3>2, <3>3, ConcatEmptySeq
    <3>5. d = n
      BY <2>2, <2>5
    <3>6. frames' = frames
      <4>1. SubSeq(fr, 1, n) = fr
        BY <1>2
      <4>2. QED
        BY <1>2, <1>3, <3>5, <4>1
    <3>7. QED
      BY <1>8, <3>4, <3>6 DEF Documented
  <2>6. CASE k # 0
    <3>1. k \in 1..Len(frames) /\ Len(frames) - k = depth
      BY <1>2, <1>3, <2>2, <2>6
    <3>2. Doc!Leave(k)
      BY <2>3, <2>4, <3>1 DEF Doc!Leave
    <3>3. Doc!Next
      BY <3>1, <3>2 DEF Doc!Next
    <3>4. QED
      BY <1>8, <3>3 DEF Documented
  <2>7. QED
    BY <2>5, <2>6
<1>11. QED
  BY <1>9, <1>10

LEMMA ClosedDocumented ==
    ASSUME StackInv, HoldInv, FrameInv, StackInv', EndCompound
    PROVE  FrameInv' /\ Documented
<1>1. /\ ctl # <<>> /\ Top.k = "compound" /\ UNCHANGED <<live, skipped>>
      /\ terminated => EmitNothing /\ UNCHANGED frames
      /\ ~terminated => Emit(EmitDefersFrom(Len(deferScopes) - 1), store) /\ Unwound(1)
  BY DEF EndCompound
<1>2. /\ Sliced(deferScopes, deferScopes') /\ Sliced(cleanupScopes, cleanupScopes')
      /\ Len(deferScopes) \in Nat \ {0} /\ Len(deferScopes') = Len(deferScopes) - 1
  BY <1>1, BlockSliced
<1>3. PICK n \in Nat \ {0} : n = Len(deferScopes) /\ n = Len(cleanupScopes)
  BY <1>2 DEF StackInv, Paired
<1>4. PICK l \in Nat : l = n - 1 /\ l = Len(deferScopes') /\ l = Len(cleanupScopes') /\ l \in 0..n
  <2>1. n - 1 \in Nat /\ n - 1 \in 0..n
    OBVIOUS
  <2>2. QED
    BY <1>2, <1>3, <2>1 DEF StackInv, Paired
<1>5. CASE live
  <2>1. Len(frames) = n
    BY <1>3, <1>5, DepthHere
  <2>2. ~terminated
    BY <1>5 DEF HoldInv
  <2>3. frames' = SubSeq(frames, 1, l) /\ Emit(EmitDefersFrom(l), store)
    BY <1>1, <1>3, <1>4, <1>5, <2>1, <2>2 DEF Unwound
  <2>4. /\ l \in 0..Len(deferScopes) /\ l <= Len(deferScopes')
        /\ Len(deferScopes') \in Nat /\ Len(cleanupScopes') = Len(deferScopes')
    BY <1>3, <1>4
  <2>5. QED
    BY <1>1, <1>2, <1>5, <2>3, <2>4, ClearedDocumented
<1>6. CASE ~live
  <2>1. UNCHANGED <<ran, frames>>
    BY <1>1, <1>6 DEF EmitNothing, Emit, Unwound
  <2>2. PICK m \in Nat : m = Len(frames) /\ m < n
    BY <1>1, <1>3, <1>6, OutOfBlock DEF StackInv, RunTypes
  <2>3. \A j \in 1..m : j \in 1..n /\ j \in 1..l
    BY <1>4, <2>2
  <2>4. ASSUME NEW j \in 1..m
        PROVE  deferScopes'[j] = deferScopes[j] /\ cleanupScopes'[j] = cleanupScopes[j]
    BY <1>2, <1>3, <1>4, <2>3 DEF Sliced
  <2>5. FrameInv'
    BY <1>1, <2>1, <2>2, <2>4, MatchedKept
  <2>6. QED
    BY <2>1, <2>5 DEF Documented
<1>7. QED
  BY <1>5, <1>6

LEMMA LeftDocumented ==
    ASSUME StackInv, HoldInv, FrameInv, NEW i, NEW st, Leaving(i, st)
    PROVE  FrameInv' /\ Documented
<1>1. /\ CountIn(ctl, i, Blocks) \in 0..Len(deferScopes)
      /\ Emit(EmitDefersFrom(CountIn(ctl, i, Blocks)), st)
      /\ Unwound(Len(deferScopes) - CountIn(ctl, i, Blocks))
      /\ UNCHANGED <<deferScopes, cleanupScopes, skipped>>
  BY DEF Leaving
<1>2. PICK n \in Nat : n = Len(deferScopes) /\ n = Len(cleanupScopes)
  BY DEF StackInv, Paired
<1>3. PICK d \in 0..n : d = CountIn(ctl, i, Blocks) /\ n - (n - d) = d
  BY <1>1, <1>2
<1>4. CASE live
  <2>1. Len(frames) = n
    BY <1>2, <1>4, DepthHere
  <2>2. frames' = SubSeq(frames, 1, d) /\ Emit(EmitDefersFrom(d), st)
    BY <1>1, <1>2, <1>3, <1>4, <2>1 DEF Unwound
  <2>3. Sliced(deferScopes, deferScopes) /\ Sliced(cleanupScopes, cleanupScopes)
    BY <1>2, SlicedSelf
  <2>4. /\ Sliced(deferScopes, deferScopes') /\ Sliced(cleanupScopes, cleanupScopes')
        /\ d \in 0..Len(deferScopes) /\ d <= Len(deferScopes') /\ skipped' = skipped
        /\ Len(deferScopes') \in Nat /\ Len(cleanupScopes') = Len(deferScopes')
    BY <1>1, <1>2, <1>3, <2>3
  <2>5. QED
    BY <1>4, <2>2, <2>4, ClearedDocumented
<1>5. CASE ~live
  <2>1. UNCHANGED <<frames, ran>>
    BY <1>1, <1>5 DEF Emit, Unwound
  <2>2. FrameInv'
    BY <1>1, <2>1, MatchedKept
  <2>3. QED
    BY <2>1, <2>2 DEF Documented
<1>6. QED
  BY <1>4, <1>5

LEMMA NextDocumented ==
    ASSUME StackInv, HoldInv, FrameInv, StackInv', Next
    PROVE  FrameInv' /\ Documented
<1>1. ASSUME NEW x \in Names, VisitDefer(x) \/ VisitStringDecl(x)
      PROVE  FrameInv' /\ Documented
  BY <1>1, DeferDocumented, StringDocumented
<1>2. CASE \/ Resuming \/ Closing \/ VisitStrayJump \/ EndFunction
           \/ \E x \in Names : VisitPlainDecl(x)
           \/ \E f : Opening(f)
  BY <1>2, UnmovedDocumented
<1>3. CASE EndCompound
  BY <1>3, ClosedDocumented
<1>4. ASSUME NEW c, BlockOpening(c)
      PROVE  FrameInv' /\ Documented
  BY <1>4, OpenedDocumented
<1>5. ASSUME NEW i, NEW st, Leaving(i, st)
      PROVE  FrameInv' /\ Documented
  BY <1>5, LeftDocumented
<1>6. CASE IterateAgain
  <2>1. skipped' = TRUE
    BY <1>6 DEF IterateAgain, ReachAgain
  <2>2. QED
    BY <2>1 DEF FrameInv, Documented
<1>7. QED
  BY <1>1, <1>2, <1>3, <1>4, <1>5, <1>6, NextShapes

\* Whatever the function, on every path through its code the clean-up of exactly the
\* scopes that are left runs, in the order semantics.md gives, of the statements that
\* the path has come to, until one in an unbraced body is skipped or reached in another
\* iteration of its loop: ScopeCodegen implements DeferSemantics.
THEOREM CodeImplementsDefer == Spec => ImplementsDefer
<1>1. Init => StackInv /\ HoldInv /\ FrameInv /\ Doc!Init
  <2>1. ASSUME Init
        PROVE  FrameInv /\ Doc!Init
    <3>1. frames = <<>> /\ Len(frames) = 0 /\ ran = <<>>
      BY <2>1 DEF Init
    <3>2. QED
      BY <3>1 DEF FrameInv, Matched, Doc!Init
  <2>2. QED
    BY <2>1, InitStack, InitHold
<1>2. ASSUME StackInv, HoldInv, FrameInv, [Next]_vars
      PROVE  /\ StackInv' /\ HoldInv' /\ FrameInv'
             /\ [skipped' \/ Doc!Next]_<<frames, ran>>
  <2>1. StackInv'
    BY <1>2, StackInvInductive
  <2>2. CASE Next
    BY <1>2, <2>1, <2>2, HoldStep, NextDocumented DEF Documented
  <2>3. CASE UNCHANGED vars
    <3>1. UNCHANGED <<deferScopes, cleanupScopes, frames, ran, skipped>>
      BY <2>3 DEF vars, genVars, runVars
    <3>2. FrameInv'
      BY <1>2, <3>1, MatchedKept
    <3>3. QED
      BY <1>2, <2>1, <2>3, <3>1, <3>2, HoldIdle
  <2>4. QED
    BY <1>2, <2>2, <2>3
<1>3. QED
  BY <1>1, <1>2, PTL DEF Spec, ImplementsDefer
===============================================================================
