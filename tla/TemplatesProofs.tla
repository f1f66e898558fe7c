---------------------------- MODULE TemplatesProofs ---------------------------
(***************************************************************************)
(* Theorems about Templates, for any templates, programs and limits.       *)
(*                                                                         *)
(* TypeInv    what can stand above what on the stack, and how the counters *)
(*            and the table of instances follow it, for TypeCorrect        *)
(* AnalysedInv, NestedInv, FailureInv                                      *)
(*            for NeverTwice, NoFalseRecursion and NoFailureIsLost         *)
(* SoundInv, OrderInv, ClassesInv                                          *)
(*            what is named is declared, in the order of the containment   *)
(*            of classes, for LayoutsAreKnown                              *)
(* EmittedInv for EmittedWasAnalysed                                       *)
(***************************************************************************)
EXTENDS Templates, FiniteSetTheorems, SequenceTheorems, WellFoundedInduction, TLAPS

\* A set of positions that is not empty has a first one.
LEMMA FirstExists ==
    ASSUME NEW S \in SUBSET Nat, S # {}
    PROVE  \E i \in S : \A j \in S : i <= j
<1> DEFINE Below == {p \in Nat \X Nat : p[1] < p[2]}
<1>1. IsWellFoundedOn(Below, Nat)
  <2>1. Below = OpToRel(<, Nat)
    BY Zenon DEF OpToRel
  <2>2. QED
    BY <2>1, NatLessThanWellFounded
<1>2. PICK i \in S : \A j \in S : <<j, i>> \notin Below
  <2> HIDE DEF Below
  <2>1. QED
    BY <1>1, WFMin
<1>3. ASSUME NEW j \in S
      PROVE  i <= j
  <2>1. <<j, i>> \in Nat \X Nat /\ <<j, i>> \notin Below
    BY <1>2
  <2>2. ~(j < i)
    BY <2>1
  <2>3. QED
    BY <2>2
<1>4. QED
  BY <1>3

-------------------------------------------------------------------------------
(* Types.                                                                   *)

LEMMA StarIsNoTemplate ==
    "*" \notin Templates /\ "int" \notin Templates /\ "null" \notin Templates
BY TemplatesAssumption

\* Where the first template stands in a type.
LEMMA SelectFacts ==
    ASSUME NEW path \in Paths, NEW i, i = SelectInSeq(path, LAMBDA c : c # "*")
    PROVE  /\ i = 0 => \A j \in 1..Len(path) : path[j] = "*"
           /\ i # 0 => /\ i \in 1..Len(path) /\ path[i] # "*"
                       /\ \A j \in 1..(i - 1) : path[j] = "*"
<1> DEFINE I == {j \in 1..Len(path) : path[j] # "*"}
<1>1. i = IF I # {} THEN Min(I) ELSE 0
  BY DEF SelectInSeq
<1>2. CASE I = {}
  BY <1>1, <1>2
<1>3. CASE I # {}
  <2>1. Len(path) \in Nat /\ I \in SUBSET Nat
    BY DEF Paths
  <2>2. \E m \in I : \A j \in I : m <= j
    <3> HIDE DEF I
    <3>1. QED
      BY <1>3, <2>1, FirstExists
  <2>3. i \in I /\ \A j \in I : i <= j
    BY <1>1, <1>3, <2>2 DEF Min
  <2>4. QED
    BY <2>1, <2>3
<1>4. QED
  BY <1>2, <1>3
\* The template a type names, and its argument.
LEMMA PathFacts ==
    ASSUME NEW path \in Paths, NEW n, n = Named(path), NEW o, o = Outer(path)
    PROVE  /\ n \in Paths /\ o \in Seq({"*"}) /\ path = o \o n
           /\ (n = <<>>) <=> (\A i \in DOMAIN path : path[i] = "*")
           /\ n # <<>> => /\ Head(n) \in Templates /\ Tail(n) \in Paths
                          /\ \A i \in DOMAIN n : n[i] \in ToSet(path)
<1> DEFINE C == Templates \cup {"*"}
<1>1. PICK i : i = SelectInSeq(path, LAMBDA c : c # "*")
  OBVIOUS
<1>2. PICK m : m = Len(path)
  OBVIOUS
<1>3. m \in Nat /\ path \in Seq(C) /\ DOMAIN path = 1..m /\ \A j \in 1..m : path[j] \in C
  BY <1>2 DEF Paths
<1>4. o = IF i = 0 THEN path ELSE SubSeq(path, 1, i - 1)
  BY <1>1 DEF Outer
<1>5. CASE i = 0
  <2>1. o = path /\ n = SubSeq(path, m + 1, m) /\ \A j \in 1..m : path[j] = "*"
    BY <1>1, <1>2, <1>4, <1>5, SelectFacts DEF Named
  <2>2. n = <<>>
    BY <1>3, <2>1
  <2>3. path \in Seq({"*"})
    BY <1>2, <1>3, <2>1
  <2>4. <<>> \in Paths /\ path \o <<>> = path
    BY <1>3 DEF Paths
  <2>5. QED
    BY <1>3, <2>1, <2>2, <2>3, <2>4
<1>6. CASE i # 0
  <2>1. i \in 1..m /\ path[i] # "*" /\ \A j \in 1..(i - 1) : path[j] = "*"
    BY <1>1, <1>2, <1>6, SelectFacts
  <2>2. o = SubSeq(path, 1, i - 1)
    BY <1>4, <1>6
  <2>3. o \in Seq(C) /\ Len(o) = i - 1 /\ \A j \in 1..(i - 1) : o[j] = path[j]
    BY <1>2, <1>3, <2>1, <2>2, SubSeqProperties
  <2>4. n = SubSeq(path, i, m)
    BY <1>2, <2>1, <2>3, <1>3 DEF Named
  <2>5. /\ n \in Seq(C) /\ Len(n) = m - i + 1
        /\ \A j \in 1..(m - i + 1) : n[j] = path[i + j - 1]
    BY <1>2, <1>3, <2>1, <2>4, SubSeqProperties
  <2>6. n # <<>> /\ Head(n) = path[i]
    BY <1>3, <2>1, <2>5
  <2>7. Head(n) \in Templates
    BY <1>3, <2>1, <2>6
  <2>8. Tail(n) \in Seq(C) /\ n \in Seq(C)
    BY <2>5, <2>6
  <2>9. o \in Seq({"*"})
    <3>1. \A j \in 1..Len(o) : o[j] \in {"*"}
      BY <2>1, <2>3
    <3>2. QED
      BY <2>3, <3>1
  <2>10. path = o \o n
    <3>1. PICK k : k = i - 1
      OBVIOUS
    <3>2. /\ 1 \in 1..(m + 1) /\ k \in (1 - 1)..m /\ m \in k..m
          /\ o = SubSeq(path, 1, k) /\ n = SubSeq(path, k + 1, m)
      BY <1>3, <2>1, <2>2, <2>4, <3>1
    <3>3. SubSeq(path, 1, k) \o SubSeq(path, k + 1, m) = SubSeq(path, 1, m)
      BY <1>2, <1>3, <3>2, ConcatAdjacentSubSeq
    <3>4. SubSeq(path, 1, m) = path
      BY <1>2, <1>3
    <3>5. QED
      BY <3>2, <3>3, <3>4
  <2>11. \A j \in DOMAIN n : n[j] \in ToSet(path)
    <3>1. ASSUME NEW j \in DOMAIN n
          PROVE  n[j] \in ToSet(path)
      <4>1. j \in 1..(m - i + 1)
        BY <2>5
      <4>2. i + j - 1 \in 1..m /\ n[j] = path[i + j - 1]
        BY <1>3, <2>1, <2>5, <4>1
      <4>3. QED
        BY <1>3, <4>2 DEF ToSet
    <3>2. QED
      BY <3>1
  <2>12. ~(\A j \in DOMAIN path : path[j] = "*")
    BY <1>3, <2>1
  <2>13. QED
    BY <2>6, <2>7, <2>8, <2>9, <2>10, <2>11, <2>12 DEF Paths
<1>7. QED
  BY <1>5, <1>6
-------------------------------------------------------------------------------
(* The values of the variables, and the frames of the recursion.            *)

Letters   == Templates \cup {"*", "int", "null"}
Types     == Seq(Letters) \ {<<>>}
Keys      == [name : Types, v : {0, 1, 2}]

\* The keys of instances: a class template has one for each type.
Instances == {key \in Keys : /\ Len(key.name) >= 2
                             /\ TemplateOf(key) \in Structs \cup Functions
                             /\ TemplateOf(key) \in Structs => key.v = 0}
Calling   == {key \in Instances : TemplateOf(key) \in Functions}
Copies    == [k : {"type"}, t : Types] \cup [k : {"call"}, key : Calling]

Kinds  == {"use", "resolve", "clone", "visit", "call"}
Places == {"enter", "args", "alias", "made", "out", "refused", "item", "body"}
FrameSet ==
    [k : Kinds, at : Places, path : Paths, leaf : Types, key : Keys, i : Nat \ {0},
     items : Seq(Copies)]

LEMMA TypeParts ==
    ASSUME NEW t \in Types
    PROVE  /\ t \in Seq(Letters) /\ Len(t) \in Nat \ {0} /\ DOMAIN t = 1..Len(t)
           /\ Last(t) = t[Len(t)] /\ Last(t) \in Letters /\ Head(t) \in Letters
<1>1. t \in Seq(Letters) /\ t # <<>>
  BY DEF Types
<1>2. QED
  BY <1>1 DEF Last

\* A type in front of which something is put.
LEMMA TypeAfter ==
    ASSUME NEW t \in Types, NEW s \in Seq(Letters), NEW u, u = s \o t
    PROVE  /\ u \in Types /\ Len(u) = Len(s) + Len(t) /\ Last(u) = Last(t)
           /\ s # <<>> => Head(u) = Head(s)
<1>1. /\ t \in Seq(Letters) /\ Len(t) \in Nat \ {0} /\ Last(t) = t[Len(t)]
      /\ s \in Seq(Letters) /\ Len(s) \in Nat
  BY TypeParts
<1>2. PICK m, n : m = Len(s) /\ n = Len(t)
  OBVIOUS
<1>3. /\ u \in Seq(Letters) /\ Len(u) = m + n
      /\ \A i \in 1..(m + n) : u[i] = IF i <= m THEN s[i] ELSE t[i - m]
  BY <1>1, <1>2, ConcatProperties
<1>4. u # <<>> /\ u[m + n] = t[n]
  BY <1>1, <1>2, <1>3
<1>5. Last(u) = Last(t)
  BY <1>1, <1>2, <1>3, <1>4 DEF Last
<1>6. s # <<>> => Head(u) = Head(s)
  BY <1>1, <1>2, <1>3, <1>4
<1>7. QED
  BY <1>2, <1>3, <1>4, <1>5, <1>6 DEF Types

LEMMA TypeCons ==
    ASSUME NEW x \in Letters, NEW t \in Types, NEW u, u = <<x>> \o t
    PROVE  /\ u \in Types /\ Len(u) >= 2 /\ Head(u) = x /\ Tail(u) = t
           /\ Last(u) = Last(t) /\ Head(u) = u[1]
<1>1. <<x>> \in Seq(Letters) /\ Len(<<x>>) = 1 /\ Head(<<x>>) = x /\ <<x>> # <<>>
  OBVIOUS
<1>2. /\ u \in Types /\ Len(u) = 1 + Len(t) /\ Last(u) = Last(t) /\ Head(u) = x
  BY <1>1, TypeAfter
<1>3. t \in Seq(Letters) /\ Len(t) \in Nat \ {0} /\ u \in Seq(Letters)
  BY <1>2, TypeParts
<1>4. Tail(u) = t
  BY <1>3
<1>5. QED
  BY <1>2, <1>3, <1>4

LEMMA PlainTypes == Plain \in Types /\ Null \in Types /\ Last(Null) = "null"
<1>1. "int" \in Letters /\ "null" \in Letters
  BY DEF Letters
<1>2. QED
  BY <1>1 DEF Plain, Null, Types, Last

LEMMA TypeTail ==
    ASSUME NEW t \in Types, Len(t) >= 2
    PROVE  /\ Tail(t) \in Types /\ t = <<Head(t)>> \o Tail(t) /\ Last(Tail(t)) = Last(t)
<1>1. t \in Seq(Letters) /\ Len(t) \in Nat \ {0}
  BY TypeParts
<1>2. Tail(t) \in Seq(Letters) /\ Tail(t) # <<>> /\ t = <<Head(t)>> \o Tail(t)
  <2>1. /\ Tail(t) \in Seq(Letters) /\ Len(Tail(t)) = Len(t) - 1
        /\ \A i \in 1..Len(Tail(t)) : Tail(t)[i] = t[i + 1]
    BY <1>1, HeadTailProperties
  <2>2. PICK s, x : s = Tail(t) /\ x = Head(t)
    OBVIOUS
  <2>3. /\ s \in Seq(Letters) /\ Len(s) = Len(t) - 1 /\ \A i \in 1..Len(s) : s[i] = t[i + 1]
        /\ x = t[1] /\ x \in Letters
    BY <1>1, <2>1, <2>2
  <2>4. PICK u : u = <<x>> \o s
    OBVIOUS
  <2>5. /\ <<x>> \in Seq(Letters) /\ Len(<<x>>) = 1 /\ <<x>>[1] = x
    BY <2>3
  <2>6. /\ u \in Seq(Letters) /\ Len(u) = 1 + Len(s)
        /\ \A i \in 1..(1 + Len(s)) : u[i] = IF i <= 1 THEN <<x>>[i] ELSE s[i - 1]
    BY <2>3, <2>4, <2>5, ConcatProperties
  <2>7. Len(u) = Len(t) /\ \A i \in 1..Len(t) : u[i] = t[i]
    BY <1>1, <2>3, <2>5, <2>6
  <2>8. u = t
    BY <1>1, <2>6, <2>7, SeqEqual
  <2>9. s # <<>>
    BY <1>1, <2>3
  <2>10. QED
    BY <2>2, <2>3, <2>4, <2>8, <2>9
<1>3. PICK s, x : s = Tail(t) /\ x = Head(t)
  OBVIOUS
<1>4. s \in Types /\ x \in Letters /\ t = <<x>> \o s
  BY <1>2, <1>3, TypeParts DEF Types
<1>5. Last(t) = Last(s)
  BY <1>4, TypeCons
<1>6. QED
  BY <1>2, <1>3, <1>4, <1>5

\* What a path makes of a type.
LEMMA PathType ==
    ASSUME NEW path \in Paths, NEW t \in Types
    PROVE  /\ path \o t \in Types /\ Last(path \o t) = Last(t)
           /\ Outer(path) \o t \in Types /\ Last(Outer(path) \o t) = Last(t)
<1>1. path \in Seq(Letters)
  BY DEF Paths, Letters
<1>2. Outer(path) \in Seq(Letters)
  <2>1. PICK o : o = Outer(path)
    OBVIOUS
  <2>2. o \in Seq({"*"})
    BY <2>1, PathFacts
  <2>3. QED
    BY <2>1, <2>2 DEF Letters
<1>3. PICK o, u, w : o = Outer(path) /\ u = path \o t /\ w = o \o t
  OBVIOUS
<1>4. u \in Types /\ Last(u) = Last(t) /\ w \in Types /\ Last(w) = Last(t)
  BY <1>1, <1>2, <1>3, TypeAfter
<1>5. QED
  BY <1>3, <1>4

LEMMA LeafType ==
    ASSUME NEW item, NEW key \in Keys, Len(key.name) >= 2
    PROVE  LeafOf(item, key) \in Types
BY TypeTail, PlainTypes DEF LeafOf, Keys
-------------------------------------------------------------------------------
(* The stack of the calls in progress.                                      *)

\* The instance that a frame has asked for.
Wanted(f) == IF f.k = "use" THEN Key(f.leaf, 0) ELSE f.key

\* A frame in itself; b are the bodies of the templates.
Fits(f, b) ==
    /\ f.k \in {"use", "resolve"} => \E i \in DOMAIN f.path : f.path[i] # "*"
    /\ f.at = "made" => f.k \in {"use", "resolve", "call"} /\ Wanted(f) \in Instances
    /\ f.at = "alias" => f.k = "use"
    /\ f.at = "args" => f.k \in {"use", "resolve"}
    /\ f.at = "out" => f.k \in {"use", "call"}
    /\ f.at = "refused" => f.k \in {"use", "resolve", "call"}
    /\ f.at = "item" => f.k = "clone" /\ f.i <= Len(b[TemplateOf(f.key)])
    /\ f.at = "body" => f.k = "visit"
    /\ f.k \in {"clone", "visit", "call"} => f.key \in Instances
    /\ f.k = "clone" => f.i <= Len(b[TemplateOf(f.key)]) + 1
    /\ f.k = "call" => TemplateOf(f.key) \in Functions

\* What can stand above what.
Above(f, g) ==
    /\ g.k = "use" => f.k = "use" /\ f.at = "args"
    /\ g.k = "resolve" => \/ f.k = "clone" /\ f.at = "item"
                          \/ f.k = "resolve" /\ f.at = "args"
                          \/ f.k = "use" /\ f.at = "alias"
    /\ g.k = "clone" => f.at = "made" /\ g.key = Wanted(f)
    /\ g.k = "visit" => f.at = "out" \/ (f.k = "visit" /\ f.at = "enter")
    /\ g.k = "call" => f.k = "visit" /\ f.at = "body"

Stack(c, b) ==
    /\ c \in Seq(FrameSet)
    /\ \A i \in DOMAIN c : Fits(c[i], b)
    /\ \A i \in DOMAIN c : i + 1 \in DOMAIN c => Above(c[i], c[i + 1])
    /\ c # <<>> => c[1].k \in {"use", "call", "visit"}

LEMMA StackFacts ==
    ASSUME NEW c, NEW b, Stack(c, b)
    PROVE  /\ Len(c) \in Nat /\ DOMAIN c = 1..Len(c)
           /\ \A i \in 1..Len(c) : c[i] \in FrameSet
           /\ c # <<>> => /\ Len(c) \in Nat \ {0} /\ Last(c) = c[Len(c)]
                          /\ Last(c) \in FrameSet /\ Fits(Last(c), b)
<1>1. c \in Seq(FrameSet)
  BY DEF Stack
<1>2. QED
  BY <1>1 DEF Stack, Last

\* The shapes of a step: a frame above the others, one less, another one for the last.
Pushed(c, g, d) ==
    /\ d \in Seq(FrameSet) /\ Len(d) = Len(c) + 1 /\ DOMAIN d = 1..(Len(c) + 1)
    /\ d[Len(c) + 1] = g /\ Last(d) = g /\ d # <<>>
    /\ \A i \in 1..Len(c) : d[i] = c[i]

Popped(c, d) ==
    /\ d \in Seq(FrameSet) /\ Len(d) = Len(c) - 1 /\ DOMAIN d = 1..(Len(c) - 1)
    /\ \A i \in 1..(Len(c) - 1) : d[i] = c[i]
    /\ d # <<>> => /\ Len(c) - 1 \in 1..Len(c) /\ Last(d) = c[Len(c) - 1]
                   /\ Above(Last(d), Last(c))

Replaced(c, f, d) ==
    /\ d \in Seq(FrameSet) /\ Len(d) = Len(c) /\ DOMAIN d = 1..Len(c)
    /\ d[Len(c)] = f /\ Last(d) = f /\ d # <<>>
    /\ \A i \in 1..(Len(c) - 1) : d[i] = c[i]

LEMMA StackPush ==
    ASSUME NEW b, NEW c, Stack(c, b), NEW g \in FrameSet, Fits(g, b),
           IF c = <<>> THEN g.k \in {"use", "call", "visit"} ELSE Above(Last(c), g),
           NEW d, d = Append(c, g)
    PROVE  Stack(d, b) /\ Pushed(c, g, d)
<1>1. PICK n : n = Len(c)
  OBVIOUS
<1>2. c \in Seq(FrameSet) /\ n \in Nat /\ DOMAIN c = 1..n /\ (c = <<>> <=> n = 0)
  BY <1>1, StackFacts DEF Stack
<1>3. /\ d \in Seq(FrameSet) /\ Len(d) = n + 1 /\ DOMAIN d = 1..(n + 1)
      /\ d[n + 1] = g /\ d # <<>> /\ \A i \in 1..n : d[i] = c[i]
  BY <1>1, <1>2
<1>4. Last(d) = g
  BY <1>3 DEF Last
<1>5. Pushed(c, g, d)
  BY <1>1, <1>3, <1>4 DEF Pushed
<1>6. \A i \in DOMAIN d : Fits(d[i], b)
  <2>1. ASSUME NEW i \in 1..(n + 1)
        PROVE  Fits(d[i], b)
    <3>1. CASE i = n + 1
      BY <1>3, <3>1
    <3>2. CASE i # n + 1
      <4>1. i \in 1..n
        BY <1>2, <3>2
      <4>2. QED
        BY <1>2, <1>3, <4>1 DEF Stack
    <3>3. QED
      BY <3>1, <3>2
  <2>2. QED
    BY <1>3, <2>1
<1>7. \A i \in DOMAIN d : i + 1 \in DOMAIN d => Above(d[i], d[i + 1])
  <2>1. ASSUME NEW i \in 1..(n + 1), i + 1 \in 1..(n + 1)
        PROVE  Above(d[i], d[i + 1])
    <3>1. i \in 1..n /\ d[i] = c[i]
      BY <1>2, <1>3, <2>1
    <3>2. CASE i = n
      <4>1. n # 0 /\ c # <<>> /\ d[i + 1] = g /\ Last(c) = c[i]
        BY <1>1, <1>2, <1>3, <3>1, <3>2 DEF Last
      <4>2. QED
        BY <3>1, <4>1
    <3>3. CASE i # n
      <4>1. i + 1 \in 1..n
        BY <1>2, <3>1, <3>3
      <4>2. Above(c[i], c[i + 1])
        BY <1>2, <3>1, <4>1 DEF Stack
      <4>3. QED
        BY <1>3, <3>1, <4>1, <4>2
    <3>4. QED
      BY <3>2, <3>3
  <2>2. QED
    BY <1>3, <2>1
<1>8. d[1].k \in {"use", "call", "visit"}
  <2>1. CASE n = 0
    BY <1>2, <1>3, <2>1
  <2>2. CASE n # 0
    <3>1. d[1] = c[1] /\ c # <<>>
      BY <1>2, <1>3, <2>2
    <3>2. QED
      BY <3>1 DEF Stack
  <2>3. QED
    BY <2>1, <2>2
<1>9. QED
  BY <1>3, <1>5, <1>6, <1>7, <1>8 DEF Stack

LEMMA StackPop ==
    ASSUME NEW b, NEW c, Stack(c, b), c # <<>>, NEW d, d = Front(c)
    PROVE  Stack(d, b) /\ Popped(c, d)
<1>1. PICK n : n = Len(c)
  OBVIOUS
<1>2. c \in Seq(FrameSet) /\ n \in Nat \ {0} /\ DOMAIN c = 1..n /\ Last(c) = c[n]
  BY <1>1, StackFacts DEF Stack
<1>3. PICK m \in Nat : m = n - 1
  BY <1>2
<1>4. /\ d \in Seq(FrameSet) /\ Len(d) = m /\ DOMAIN d = 1..m
      /\ \A i \in 1..m : d[i] = c[i]
  <2>1. d = SubSeq(c, 1, m) /\ 1 \in Int /\ m \in Int /\ \A i \in 1..m : c[i] \in FrameSet
    BY <1>1, <1>2, <1>3 DEF Front
  <2>2. /\ d \in Seq(FrameSet) /\ Len(d) = IF 1 <= m THEN m - 1 + 1 ELSE 0
        /\ \A i \in 1..(m - 1 + 1) : d[i] = c[1 + i - 1]
    BY <2>1, SubSeqProperties
  <2>3. Len(d) = m /\ \A i \in 1..m : d[i] = c[i]
    BY <2>2
  <2>4. QED
    BY <2>2, <2>3
<1>5. \A i \in 1..m : i \in 1..n
  BY <1>2, <1>3
<1>6. d # <<>> => m \in 1..n /\ m + 1 = n /\ m \in DOMAIN c /\ Last(d) = c[m]
  BY <1>2, <1>3, <1>4 DEF Last
<1>7. d # <<>> => Above(Last(d), Last(c))
  <2>1. \A i \in DOMAIN c : i + 1 \in DOMAIN c => Above(c[i], c[i + 1])
    BY DEF Stack
  <2>2. n \in DOMAIN c
    BY <1>2
  <2>3. d # <<>> => Above(c[m], c[n])
    BY <1>6, <2>1, <2>2
  <2>4. QED
    BY <1>2, <1>6, <2>3
<1>8. Popped(c, d)
  BY <1>1, <1>3, <1>4, <1>6, <1>7 DEF Popped
<1>9. \A i \in DOMAIN d : Fits(d[i], b)
  BY <1>2, <1>4, <1>5 DEF Stack
<1>10. \A i \in DOMAIN d : i + 1 \in DOMAIN d => Above(d[i], d[i + 1])
  BY <1>2, <1>4, <1>5 DEF Stack
<1>11. d # <<>> => d[1].k \in {"use", "call", "visit"}
  <2>1. d # <<>> => 1 \in 1..m /\ c # <<>>
    BY <1>4
  <2>2. QED
    BY <1>4, <2>1 DEF Stack
<1>12. QED
  BY <1>4, <1>8, <1>9, <1>10, <1>11 DEF Stack

LEMMA StackReplace ==
    ASSUME NEW b, NEW c, Stack(c, b), c # <<>>, NEW f \in FrameSet, Fits(f, b),
           f.k = Last(c).k, f.k = "clone" => f.key = Last(c).key,
           NEW d, d = Append(Front(c), f)
    PROVE  Stack(d, b) /\ Replaced(c, f, d)
<1>1. PICK n : n = Len(c)
  OBVIOUS
<1>2. c \in Seq(FrameSet) /\ n \in Nat \ {0} /\ DOMAIN c = 1..n /\ Last(c) = c[n]
  BY <1>1, StackFacts DEF Stack
<1>3. PICK e : e = Front(c)
  OBVIOUS
<1>4. Stack(e, b) /\ Popped(c, e)
  BY <1>3, StackPop
<1>5. PICK m \in Nat : m = n - 1
  BY <1>2
<1>6. Len(e) = m /\ n = m + 1 /\ \A i \in 1..m : e[i] = c[i]
  BY <1>1, <1>2, <1>4, <1>5 DEF Popped
<1>7. IF e = <<>> THEN f.k \in {"use", "call", "visit"} ELSE Above(Last(e), f)
  <2>1. CASE e = <<>>
    <3>1. n = 1
      BY <1>6, <2>1
    <3>2. QED
      BY <1>2, <2>1, <3>1 DEF Stack
  <2>2. CASE e # <<>>
    <3>1. Above(Last(e), Last(c))
      BY <1>4, <2>2 DEF Popped
    <3>2. QED
      BY <2>2, <3>1 DEF Above
  <2>3. QED
    BY <2>1, <2>2
<1>8. d = Append(e, f)
  BY <1>3
<1>9. Stack(d, b) /\ Pushed(e, f, d)
  BY <1>4, <1>7, <1>8, StackPush
<1>10. Replaced(c, f, d)
  BY <1>1, <1>6, <1>9 DEF Pushed, Replaced
<1>11. QED
  BY <1>9, <1>10

-------------------------------------------------------------------------------
(* The calls that are at certain places.                                    *)

Positions(c, K) == {i \in DOMAIN c : <<c[i].k, c[i].at>> \in K}
Bit(f, K) == IF <<f.k, f.at>> \in K THEN 1 ELSE 0
Counted(c, K) == Cardinality(Positions(c, K))

LEMMA CountedPush ==
    ASSUME NEW c, Len(c) \in Nat, DOMAIN c = 1..Len(c), NEW g, NEW d, Pushed(c, g, d), NEW K
    PROVE  /\ Counted(c, K) \in Nat /\ Counted(d, K) = Counted(c, K) + Bit(g, K)
<1>1. PICK n \in Nat : n = Len(c)
  OBVIOUS
<1>2. PICK S, T : S = Positions(c, K) /\ T = Positions(d, K)
  OBVIOUS
<1>3. DOMAIN c = 1..n /\ DOMAIN d = 1..(n + 1) /\ d[n + 1] = g /\ \A i \in 1..n : d[i] = c[i]
  BY <1>1 DEF Pushed
<1>4. S \in SUBSET (1..n) /\ n + 1 \notin S
  BY <1>2, <1>3 DEF Positions
<1>5. IsFiniteSet(S) /\ Cardinality(S) \in Nat
  <2>1. IsFiniteSet(1..n)
    BY <1>1, FS_Interval
  <2>2. IsFiniteSet(S)
    BY <1>4, <2>1, FS_Subset
  <2>3. QED
    BY <2>2, FS_CardinalityType
<1>6. CASE <<g.k, g.at>> \in K
  <2>1. T = S \cup {n + 1}
    BY <1>2, <1>3, <1>6 DEF Positions
  <2>2. Cardinality(T) = Cardinality(S) + 1
    BY <1>4, <1>5, <2>1, FS_AddElement
  <2>3. QED
    BY <1>2, <1>5, <1>6, <2>2 DEF Counted, Bit
<1>7. CASE <<g.k, g.at>> \notin K
  <2>1. T = S
    BY <1>2, <1>3, <1>7 DEF Positions
  <2>2. QED
    BY <1>2, <1>5, <1>7, <2>1 DEF Counted, Bit
<1>8. QED
  BY <1>6, <1>7

LEMMA CountedPop ==
    ASSUME NEW b, NEW c, Stack(c, b), c # <<>>, NEW d, Popped(c, d), NEW K
    PROVE  /\ Counted(d, K) \in Nat /\ Counted(c, K) = Counted(d, K) + Bit(Last(c), K)
<1>1. PICK n : n = Len(c)
  OBVIOUS
<1>2. c \in Seq(FrameSet) /\ n \in Nat \ {0} /\ DOMAIN c = 1..n /\ Last(c) = c[n]
  BY <1>1, StackFacts DEF Stack
<1>3. PICK m \in Nat : m = n - 1
  BY <1>2
<1>4. Len(d) = m /\ n = m + 1 /\ DOMAIN d = 1..m /\ \A i \in 1..m : c[i] = d[i]
  BY <1>1, <1>2, <1>3 DEF Popped
<1>5. PICK g : g = Last(c)
  OBVIOUS
<1>6. Pushed(d, g, c)
  BY <1>1, <1>2, <1>4, <1>5 DEF Pushed
<1>7. Counted(d, K) \in Nat /\ Counted(c, K) = Counted(d, K) + Bit(g, K)
  BY <1>4, <1>6, CountedPush
<1>8. QED
  BY <1>5, <1>7

LEMMA CountedReplace ==
    ASSUME NEW b, NEW c, Stack(c, b), c # <<>>, NEW f, NEW d, Replaced(c, f, d), NEW K
    PROVE  /\ Counted(c, K) \in Nat /\ Bit(Last(c), K) \in {0, 1}
           /\ Counted(c, K) - Bit(Last(c), K) \in Nat
           /\ Counted(d, K) = Counted(c, K) - Bit(Last(c), K) + Bit(f, K)
<1>1. PICK e : e = Front(c)
  OBVIOUS
<1>2. Stack(e, b) /\ Popped(c, e)
  BY <1>1, StackPop
<1>3. Counted(e, K) \in Nat /\ Counted(c, K) = Counted(e, K) + Bit(Last(c), K)
  BY <1>2, CountedPop
<1>4. PICK n : n = Len(c)
  OBVIOUS
<1>5. n \in Nat \ {0}
  BY <1>4, StackFacts
<1>6. PICK m \in Nat : m = n - 1
  BY <1>5
<1>7. Len(e) = m /\ n = m + 1 /\ DOMAIN e = 1..m /\ \A i \in 1..m : e[i] = c[i]
  BY <1>2, <1>4, <1>5, <1>6 DEF Popped
<1>8. Pushed(e, f, d)
  BY <1>4, <1>7 DEF Pushed, Replaced
<1>9. Counted(d, K) = Counted(e, K) + Bit(f, K)
  BY <1>7, <1>8, CountedPush
<1>10. Bit(Last(c), K) \in {0, 1} /\ Bit(f, K) \in {0, 1}
  BY DEF Bit
<1>11. QED
  BY <1>3, <1>9, <1>10
-------------------------------------------------------------------------------
(* The stack and the registry.                                              *)

Cloning(c, k) == \E i \in DOMAIN c : c[i].k = "clone" /\ c[i].key = k

Keyed(f, s, dl) == /\ f.k = "clone" => f.key \in DOMAIN s
                   /\ f.k = "visit" => f.key \in DOMAIN dl

\* s are the states of the instances, dl the declarations of those that are done.
Registry(c, s, dl) ==
    /\ \A i, j \in DOMAIN c :
          c[i].k = "clone" /\ c[j].k = "clone" /\ c[i].key = c[j].key => i = j
    /\ \A i \in DOMAIN c : Keyed(c[i], s, dl)
    /\ \A k \in DOMAIN s : s[k] = IF Cloning(c, k) THEN "instantiating" ELSE "done"
    /\ DOMAIN dl = {k \in DOMAIN s : s[k] = "done"}

\* What the innermost call has asked for is there when that call goes on.
Ready(c, dl) == c # <<>> /\ Last(c).at = "made" => Wanted(Last(c)) \in DOMAIN dl

LEMMA RegistryPush ==
    ASSUME NEW b, NEW c, Stack(c, b), NEW s, NEW dl, Registry(c, s, dl),
           NEW g \in FrameSet, g.k # "clone", g.k = "visit" => g.key \in DOMAIN dl,
           NEW d, Pushed(c, g, d)
    PROVE  Registry(d, s, dl)
<1>1. PICK n \in Nat : n = Len(c)
  BY StackFacts
<1>2. DOMAIN c = 1..n
  BY <1>1, StackFacts
<1>3. DOMAIN d = 1..(n + 1) /\ d[n + 1] = g /\ Last(d) = g /\ \A i \in 1..n : d[i] = c[i]
  BY <1>1 DEF Pushed
<1>4. \A i \in 1..(n + 1) : d[i].k = "clone" => i \in 1..n
  BY <1>1, <1>3
<1>5. \A k : Cloning(d, k) <=> Cloning(c, k)
  BY <1>2, <1>3, <1>4 DEF Cloning
<1>6. \A i, j \in DOMAIN d :
          d[i].k = "clone" /\ d[j].k = "clone" /\ d[i].key = d[j].key => i = j
  BY <1>2, <1>3, <1>4 DEF Registry
<1>7. \A i \in DOMAIN d : Keyed(d[i], s, dl)
  <2>1. ASSUME NEW i \in 1..(n + 1)
        PROVE  Keyed(d[i], s, dl)
    <3>1. CASE i = n + 1
      BY <1>3, <3>1 DEF Keyed
    <3>2. CASE i # n + 1
      <4>1. i \in 1..n
        BY <1>1, <3>2
      <4>2. QED
        BY <1>2, <1>3, <4>1 DEF Registry
    <3>3. QED
      BY <3>1, <3>2
  <2>2. QED
    BY <1>3, <2>1
<1>8. QED
  BY <1>3, <1>5, <1>6, <1>7 DEF Registry

LEMMA RegistryReplace ==
    ASSUME NEW b, NEW c, Stack(c, b), c # <<>>, NEW s, NEW dl, Registry(c, s, dl),
           NEW f \in FrameSet, f.k = Last(c).k,
           f.k \in {"clone", "visit"} => f.key = Last(c).key,
           NEW d, Replaced(c, f, d)
    PROVE  Registry(d, s, dl)
<1>1. PICK n \in Nat \ {0} : n = Len(c)
  BY StackFacts
<1>2. DOMAIN c = 1..n /\ Last(c) = c[n]
  BY <1>1, StackFacts
<1>3. /\ DOMAIN d = 1..n /\ d[n] = f /\ Last(d) = f
      /\ \A i \in 1..(n - 1) : d[i] = c[i]
  BY <1>1 DEF Replaced
<1>4. \A i \in 1..n : /\ d[i].k = c[i].k
                      /\ d[i].k \in {"clone", "visit"} => d[i].key = c[i].key
  <2>1. ASSUME NEW i \in 1..n
        PROVE  /\ d[i].k = c[i].k
               /\ d[i].k \in {"clone", "visit"} => d[i].key = c[i].key
    <3>1. CASE i = n
      BY <1>2, <1>3, <3>1
    <3>2. CASE i # n
      <4>1. i \in 1..(n - 1)
        BY <1>1, <3>2
      <4>2. QED
        BY <1>3, <4>1
    <3>3. QED
      BY <3>1, <3>2
  <2>2. QED
    BY <2>1
<1>5. \A k : Cloning(d, k) <=> Cloning(c, k)
  BY <1>2, <1>3, <1>4 DEF Cloning
<1>6. \A i, j \in DOMAIN d :
          d[i].k = "clone" /\ d[j].k = "clone" /\ d[i].key = d[j].key => i = j
  BY <1>2, <1>3, <1>4 DEF Registry
<1>7. \A i \in DOMAIN d : Keyed(d[i], s, dl)
  BY <1>2, <1>3, <1>4 DEF Registry, Keyed
<1>8. QED
  BY <1>3, <1>5, <1>6, <1>7 DEF Registry

LEMMA RegistryPop ==
    ASSUME NEW b, NEW c, Stack(c, b), c # <<>>, NEW s, NEW dl, Registry(c, s, dl),
           Last(c).k # "clone", NEW d, Popped(c, d)
    PROVE  Registry(d, s, dl) /\ Ready(d, dl)
<1>1. PICK n \in Nat \ {0} : n = Len(c)
  BY StackFacts
<1>2. PICK m \in Nat : m = n - 1
  BY <1>1
<1>3. /\ DOMAIN c = 1..n /\ Last(c) = c[n] /\ Last(c) \in FrameSet
      /\ DOMAIN d = 1..m /\ \A i \in 1..m : d[i] = c[i]
      /\ d # <<>> => Above(Last(d), Last(c))
  BY <1>1, <1>2, StackFacts DEF Popped
<1>4. /\ \A i \in 1..m : i \in 1..n
      /\ \A i \in 1..n : c[i].k = "clone" => i \in 1..m
  BY <1>1, <1>2, <1>3
<1>5. \A k : Cloning(d, k) <=> Cloning(c, k)
  BY <1>3, <1>4 DEF Cloning
<1>6. \A i, j \in DOMAIN d :
          d[i].k = "clone" /\ d[j].k = "clone" /\ d[i].key = d[j].key => i = j
  BY <1>3, <1>4 DEF Registry
<1>7. \A i \in DOMAIN d : Keyed(d[i], s, dl)
  BY <1>3, <1>4 DEF Registry
<1>8. d # <<>> => Last(d).at # "made"
  <2>1. Last(c).k \in {"use", "resolve", "visit", "call"}
    BY <1>3 DEF FrameSet, Kinds
  <2>2. QED
    BY <1>3, <2>1 DEF Above
<1>9. QED
  BY <1>5, <1>6, <1>7, <1>8 DEF Registry, Ready

\* The copying of an instance begins.
Begun(s, key, s2) ==
    /\ key \notin DOMAIN s /\ DOMAIN s2 = DOMAIN s \cup {key} /\ s2[key] = "instantiating"
    /\ \A k \in DOMAIN s : s2[k] = s[k]

LEMMA RegistryBegin ==
    ASSUME NEW b, NEW c, Stack(c, b), NEW s, NEW dl, Registry(c, s, dl),
           NEW g \in FrameSet, g.k = "clone", g.at = "enter",
           NEW d, Pushed(c, g, d), NEW s2, NEW key, key = g.key, Begun(s, key, s2)
    PROVE  Registry(d, s2, dl)
<1>1. PICK n \in Nat : n = Len(c)
  BY StackFacts
<1>2. DOMAIN c = 1..n
  BY <1>1, StackFacts
<1>3. DOMAIN d = 1..(n + 1) /\ d[n + 1] = g /\ Last(d) = g /\ \A i \in 1..n : d[i] = c[i]
  BY <1>1 DEF Pushed
<1>4. \A i \in 1..(n + 1) : i = n + 1 \/ i \in 1..n
  BY <1>1
<1>5. \A i \in 1..n : c[i].k = "clone" => c[i].key \in DOMAIN s /\ c[i].key # g.key
  BY <1>2 DEF Registry, Keyed, Begun
<1>6. \A k : Cloning(d, k) <=> k = g.key \/ Cloning(c, k)
  BY <1>2, <1>3, <1>4 DEF Cloning
<1>7. \A i, j \in DOMAIN d :
          d[i].k = "clone" /\ d[j].k = "clone" /\ d[i].key = d[j].key => i = j
  <2>1. \A i, j \in 1..n : c[i].k = "clone" /\ c[j].k = "clone" /\ c[i].key = c[j].key => i = j
    BY <1>2 DEF Registry
  <2>2. QED
    BY <1>3, <1>4, <1>5, <2>1
<1>8. /\ DOMAIN s2 = DOMAIN s \cup {g.key} /\ s2[g.key] = "instantiating"
      /\ \A k \in DOMAIN s : s2[k] = s[k]
  BY DEF Begun
<1>9. \A i \in DOMAIN d : Keyed(d[i], s2, dl)
  <2>1. \A i \in 1..n : Keyed(c[i], s, dl)
    BY <1>2 DEF Registry
  <2>2. QED
    BY <1>3, <1>4, <1>8, <2>1 DEF Keyed
<1>10. \A k \in DOMAIN s2 : s2[k] = IF Cloning(d, k) THEN "instantiating" ELSE "done"
  BY <1>6, <1>8 DEF Registry
<1>11. DOMAIN dl = {k \in DOMAIN s2 : s2[k] = "done"}
  BY <1>8 DEF Registry
<1>12. QED
  BY <1>3, <1>7, <1>9, <1>10, <1>11 DEF Registry

\* It ends.
Ended(s, dl, key, s2, dl2) ==
    /\ DOMAIN s2 = DOMAIN s /\ \A k \in DOMAIN s : s2[k] = IF k = key THEN "done" ELSE s[k]
    /\ DOMAIN dl2 = DOMAIN dl \cup {key}

LEMMA RegistryEnd ==
    ASSUME NEW b, NEW c, Stack(c, b), c # <<>>, NEW s, NEW dl, Registry(c, s, dl),
           Last(c).k = "clone", NEW d, Popped(c, d),
           NEW s2, NEW dl2, NEW key, key = Last(c).key, Ended(s, dl, key, s2, dl2)
    PROVE  Registry(d, s2, dl2) /\ Ready(d, dl2)
<1>1. PICK n \in Nat \ {0} : n = Len(c)
  BY StackFacts
<1>2. PICK m \in Nat : m = n - 1
  BY <1>1
<1>3. \A f, g : g.k = "clone" /\ Above(f, g) => g.key = Wanted(f)
  BY DEF Above
<1>4. /\ DOMAIN c = 1..n /\ Last(c) = c[n] /\ c[n].k = "clone" /\ c[n].key = key
      /\ DOMAIN d = 1..m /\ \A i \in 1..m : d[i] = c[i]
      /\ d # <<>> => Above(Last(d), Last(c))
  BY <1>1, <1>2, StackFacts DEF Popped
<1>5. n \in 1..n /\ n \notin 1..m /\ \A i \in 1..n : i = n \/ i \in 1..m
  BY <1>1, <1>2
<1>6. /\ \A i \in 1..m : i \in 1..n
      /\ \A i \in 1..m : c[i].k = "clone" => c[i].key # key
  <2>1. \A i \in 1..m : i \in 1..n /\ i # n
    BY <1>1, <1>2
  <2>2. \A i, j \in 1..n : c[i].k = "clone" /\ c[j].k = "clone" /\ c[i].key = c[j].key => i = j
    BY <1>4 DEF Registry
  <2>3. QED
    BY <1>4, <1>5, <2>1, <2>2
<1>7. \A k : Cloning(d, k) <=> Cloning(c, k) /\ k # key
  BY <1>4, <1>5, <1>6 DEF Cloning
<1>8. \A i, j \in DOMAIN d :
          d[i].k = "clone" /\ d[j].k = "clone" /\ d[i].key = d[j].key => i = j
  BY <1>4, <1>6 DEF Registry
<1>9. /\ DOMAIN s2 = DOMAIN s /\ key \in DOMAIN s /\ s2[key] = "done"
      /\ \A k \in DOMAIN s : k # key => s2[k] = s[k]
  <2>1. Keyed(c[n], s, dl)
    BY <1>4, <1>5 DEF Registry
  <2>2. key \in DOMAIN s
    BY <1>4, <2>1 DEF Keyed
  <2>3. QED
    BY <2>2 DEF Ended
<1>10. \A i \in DOMAIN d : Keyed(d[i], s2, dl2)
  <2>1. \A i \in 1..n : Keyed(c[i], s, dl)
    BY <1>4 DEF Registry
  <2>2. QED
    BY <1>4, <1>6, <1>9, <2>1 DEF Keyed, Ended
<1>11. \A k \in DOMAIN s2 : s2[k] = IF Cloning(d, k) THEN "instantiating" ELSE "done"
  BY <1>7, <1>9 DEF Registry
<1>12. DOMAIN dl2 = {k \in DOMAIN s2 : s2[k] = "done"}
  BY <1>9 DEF Registry, Ended
<1>13. d # <<>> => Wanted(Last(d)) \in DOMAIN dl2
  BY <1>3, <1>4 DEF Ended
<1>14. QED
  BY <1>8, <1>10, <1>11, <1>12, <1>13 DEF Registry, Ready

-------------------------------------------------------------------------------
(* Frames.                                                                  *)

LEMMA FrameFacts ==
    ASSUME NEW k \in Kinds, NEW path \in Paths, NEW leaf \in Types, NEW key \in Keys,
           NEW f, f = Frame(k, path, leaf, key)
    PROVE  /\ f \in FrameSet /\ f.k = k /\ f.at = "enter" /\ f.path = path /\ f.leaf = leaf
           /\ f.key = key /\ f.i = 1 /\ f.items = <<>>
BY DEF Frame, FrameSet, Places

LEMMA FrameAt ==
    ASSUME NEW f \in FrameSet, NEW at \in Places, NEW g, g = [f EXCEPT !.at = at]
    PROVE  /\ g \in FrameSet /\ g.k = f.k /\ g.at = at /\ g.path = f.path /\ g.leaf = f.leaf
           /\ g.key = f.key /\ g.i = f.i /\ g.items = f.items
BY DEF FrameSet

LEMMA FrameLeaf ==
    ASSUME NEW f \in FrameSet, NEW leaf \in Types, NEW g, g = [f EXCEPT !.leaf = leaf]
    PROVE  /\ g \in FrameSet /\ g.k = f.k /\ g.at = f.at /\ g.path = f.path /\ g.leaf = leaf
           /\ g.key = f.key /\ g.i = f.i /\ g.items = f.items
BY DEF FrameSet

LEMMA FrameKey ==
    ASSUME NEW f \in FrameSet, NEW key \in Keys, NEW g, g = [f EXCEPT !.key = key]
    PROVE  /\ g \in FrameSet /\ g.k = f.k /\ g.at = f.at /\ g.path = f.path /\ g.leaf = f.leaf
           /\ g.key = key /\ g.i = f.i /\ g.items = f.items
BY DEF FrameSet

LEMMA FrameNext ==
    ASSUME NEW f \in FrameSet, NEW g, g = [f EXCEPT !.i = f.i + 1]
    PROVE  /\ g \in FrameSet /\ g.k = f.k /\ g.at = f.at /\ g.path = f.path /\ g.leaf = f.leaf
           /\ g.key = f.key /\ g.i = f.i + 1 /\ g.items = f.items
BY DEF FrameSet

-------------------------------------------------------------------------------
(* The recursion with its counters.                                         *)

DeepKinds == ({"clone"} \X Places) \cup {<<"resolve", "args">>}
UsedKinds == {"use"} \X (Places \ {"enter"})

\* c are the calls in progress, s and dl the table of instances, n and u the counters.
Recursion(c, b, s, dl, n, u) ==
    /\ Stack(c, b) /\ Registry(c, s, dl) /\ DOMAIN s \in SUBSET Instances
    /\ n = Counted(c, DeepKinds) /\ n \in Nat /\ n <= MaxDepth
    /\ u = Counted(c, UsedKinds) /\ u \in Nat /\ u <= MaxUseDepth

LEMMA Bits ==
    ASSUME NEW f \in FrameSet
    PROVE  /\ Bit(f, DeepKinds) = IF Deep(f) THEN 1 ELSE 0
           /\ Bit(f, UsedKinds) = IF Used(f) THEN 1 ELSE 0
<1>1. f.k \in Kinds /\ f.at \in Places
  BY DEF FrameSet
<1>2. <<f.k, f.at>> \in DeepKinds <=> Deep(f)
  BY <1>1 DEF DeepKinds, Deep
<1>3. <<f.k, f.at>> \in UsedKinds <=> Used(f)
  BY <1>1 DEF UsedKinds, Used
<1>4. QED
  BY <1>2, <1>3 DEF Bit

One(x) == IF x THEN 1 ELSE 0

LEMMA RecursionReplace ==
    ASSUME NEW b, NEW c, NEW s, NEW dl, NEW n, NEW u, Recursion(c, b, s, dl, n, u), c # <<>>,
           NEW f \in FrameSet, Fits(f, b), f.k = Last(c).k,
           f.k \in {"clone", "visit"} => f.key = Last(c).key,
           NEW n2, n2 = n - One(Deep(Last(c))) + One(Deep(f)), n2 <= MaxDepth,
           NEW u2, u2 = u - One(Used(Last(c))) + One(Used(f)), u2 <= MaxUseDepth,
           NEW d, d = Append(Front(c), f)
    PROVE  Recursion(d, b, s, dl, n2, u2) /\ Replaced(c, f, d)
<1>1. Stack(c, b) /\ Registry(c, s, dl)
  BY DEF Recursion
<1>2. Stack(d, b) /\ Replaced(c, f, d)
  <2>1. f.k = "clone" => f.key = Last(c).key
    OBVIOUS
  <2>2. QED
    BY <1>1, <2>1, StackReplace
<1>3. Registry(d, s, dl)
  BY <1>1, <1>2, RegistryReplace
<1>4. Last(c) \in FrameSet
  BY <1>1, StackFacts
<1>5. n2 = Counted(d, DeepKinds) /\ n2 \in Nat
  <2>1. PICK K : K = DeepKinds
    OBVIOUS
  <2>2. /\ Counted(c, K) \in Nat /\ Bit(Last(c), K) \in {0, 1}
        /\ Counted(c, K) - Bit(Last(c), K) \in Nat
        /\ Counted(d, K) = Counted(c, K) - Bit(Last(c), K) + Bit(f, K)
    BY <1>1, <1>2, CountedReplace
  <2>3. Bit(Last(c), K) = One(Deep(Last(c))) /\ Bit(f, K) = One(Deep(f)) /\ One(Deep(f)) \in {0, 1}
    BY <1>4, <2>1, Bits DEF One
  <2>4. n = Counted(c, K)
    BY <2>1 DEF Recursion
  <2>5. QED
    BY <2>1, <2>2, <2>3, <2>4
<1>6. u2 = Counted(d, UsedKinds) /\ u2 \in Nat
  <2>1. PICK K : K = UsedKinds
    OBVIOUS
  <2>2. /\ Counted(c, K) \in Nat /\ Bit(Last(c), K) \in {0, 1}
        /\ Counted(c, K) - Bit(Last(c), K) \in Nat
        /\ Counted(d, K) = Counted(c, K) - Bit(Last(c), K) + Bit(f, K)
    BY <1>1, <1>2, CountedReplace
  <2>3. Bit(Last(c), K) = One(Used(Last(c))) /\ Bit(f, K) = One(Used(f)) /\ One(Used(f)) \in {0, 1}
    BY <1>4, <2>1, Bits DEF One
  <2>4. u = Counted(c, K)
    BY <2>1 DEF Recursion
  <2>5. QED
    BY <2>1, <2>2, <2>3, <2>4
<1>7. QED
  BY <1>2, <1>3, <1>5, <1>6 DEF Recursion

LEMMA RecursionPush ==
    ASSUME NEW b, NEW c, NEW s, NEW dl, NEW n, NEW u, Recursion(c, b, s, dl, n, u),
           NEW g \in FrameSet, Fits(g, b), g.k # "clone", g.at = "enter",
           g.k = "visit" => g.key \in DOMAIN dl,
           IF c = <<>> THEN g.k \in {"use", "call", "visit"} ELSE Above(Last(c), g),
           NEW d, d = Append(c, g)
    PROVE  Recursion(d, b, s, dl, n, u) /\ Pushed(c, g, d) /\ Ready(d, dl)
<1>1. Stack(c, b) /\ Registry(c, s, dl)
  BY DEF Recursion
<1>2. Stack(d, b) /\ Pushed(c, g, d)
  BY <1>1, StackPush
<1>3. Registry(d, s, dl)
  BY <1>1, <1>2, RegistryPush
<1>4. Len(c) \in Nat /\ DOMAIN c = 1..Len(c)
  BY <1>1, StackFacts
<1>5. Bit(g, DeepKinds) = 0 /\ Bit(g, UsedKinds) = 0
  BY Bits DEF Deep, Used
<1>6. Counted(d, DeepKinds) = n /\ Counted(d, UsedKinds) = u
  <2>1. PICK K, L : K = DeepKinds /\ L = UsedKinds
    OBVIOUS
  <2>2. /\ Counted(d, K) = Counted(c, K) + Bit(g, K) /\ Counted(c, K) \in Nat
        /\ Counted(d, L) = Counted(c, L) + Bit(g, L) /\ Counted(c, L) \in Nat
    BY <1>2, <1>4, CountedPush
  <2>3. QED
    BY <1>5, <2>1, <2>2 DEF Recursion
<1>7. Ready(d, dl)
  BY <1>2 DEF Pushed, Ready
<1>8. QED
  BY <1>2, <1>3, <1>6, <1>7 DEF Recursion

LEMMA RecursionPop ==
    ASSUME NEW b, NEW c, NEW s, NEW dl, NEW n, NEW u, Recursion(c, b, s, dl, n, u), c # <<>>,
           Last(c).k # "clone", ~Deep(Last(c)), NEW u2, u2 = u - One(Used(Last(c))),
           NEW d, d = Front(c)
    PROVE  Recursion(d, b, s, dl, n, u2) /\ Popped(c, d) /\ Ready(d, dl)
<1>1. Stack(c, b) /\ Registry(c, s, dl)
  BY DEF Recursion
<1>2. Stack(d, b) /\ Popped(c, d)
  BY <1>1, StackPop
<1>3. Registry(d, s, dl) /\ Ready(d, dl)
  BY <1>1, <1>2, RegistryPop
<1>4. Last(c) \in FrameSet
  BY <1>1, StackFacts
<1>5. PICK K, L : K = DeepKinds /\ L = UsedKinds
  OBVIOUS
<1>6. /\ Counted(d, K) \in Nat /\ Counted(c, K) = Counted(d, K) + Bit(Last(c), K)
      /\ Counted(d, L) \in Nat /\ Counted(c, L) = Counted(d, L) + Bit(Last(c), L)
  BY <1>1, <1>2, CountedPop
<1>7. Bit(Last(c), K) = 0 /\ Bit(Last(c), L) = One(Used(Last(c)))
      /\ One(Used(Last(c))) \in {0, 1}
  BY <1>4, <1>5, Bits DEF One
<1>8. n = Counted(c, K) /\ u = Counted(c, L) /\ n <= MaxDepth /\ u <= MaxUseDepth
  BY <1>5 DEF Recursion
<1>9. n = Counted(d, K) /\ n \in Nat /\ u2 = Counted(d, L) /\ u2 \in Nat /\ u2 <= MaxUseDepth
  BY <1>6, <1>7, <1>8, TemplatesAssumption
<1>10. QED
  BY <1>2, <1>3, <1>5, <1>8, <1>9 DEF Recursion

LEMMA RecursionBegin ==
    ASSUME NEW b, NEW c, NEW s, NEW dl, NEW n, NEW u, Recursion(c, b, s, dl, n, u), c # <<>>,
           NEW g \in FrameSet, Fits(g, b), g.k = "clone", g.at = "enter",
           Above(Last(c), g), NEW s2, NEW key \in Instances, key = g.key, Begun(s, key, s2),
           NEW n2, n2 = n + 1, n2 <= MaxDepth, NEW d, d = Append(c, g)
    PROVE  Recursion(d, b, s2, dl, n2, u) /\ Pushed(c, g, d) /\ Ready(d, dl)
<1>1. Stack(c, b) /\ Registry(c, s, dl) /\ DOMAIN s \in SUBSET Instances
  BY DEF Recursion
<1>2. Stack(d, b) /\ Pushed(c, g, d)
  BY <1>1, StackPush
<1>3. Registry(d, s2, dl)
  BY <1>1, <1>2, RegistryBegin
<1>4. Len(c) \in Nat /\ DOMAIN c = 1..Len(c)
  BY <1>1, StackFacts
<1>5. Bit(g, DeepKinds) = 1 /\ Bit(g, UsedKinds) = 0
  BY Bits DEF Deep, Used
<1>6. Counted(d, DeepKinds) = n2 /\ n2 \in Nat /\ Counted(d, UsedKinds) = u
  <2>1. PICK K, L : K = DeepKinds /\ L = UsedKinds
    OBVIOUS
  <2>2. /\ Counted(d, K) = Counted(c, K) + Bit(g, K) /\ Counted(c, K) \in Nat
        /\ Counted(d, L) = Counted(c, L) + Bit(g, L) /\ Counted(c, L) \in Nat
    BY <1>2, <1>4, CountedPush
  <2>3. QED
    BY <1>5, <2>1, <2>2 DEF Recursion
<1>7. Ready(d, dl)
  BY <1>2 DEF Pushed, Ready
<1>8. DOMAIN s2 \in SUBSET Instances
  BY <1>1 DEF Begun
<1>9. QED
  BY <1>2, <1>3, <1>6, <1>7, <1>8 DEF Recursion

LEMMA RecursionEnd ==
    ASSUME NEW b, NEW c, NEW s, NEW dl, NEW n, NEW u, Recursion(c, b, s, dl, n, u), c # <<>>,
           Last(c).k = "clone", NEW s2, NEW dl2, NEW key, key = Last(c).key,
           Ended(s, dl, key, s2, dl2), NEW n2, n2 = n - 1, NEW d, d = Front(c)
    PROVE  Recursion(d, b, s2, dl2, n2, u) /\ Popped(c, d) /\ Ready(d, dl2)
<1>1. Stack(c, b) /\ Registry(c, s, dl) /\ DOMAIN s \in SUBSET Instances
  BY DEF Recursion
<1>2. Stack(d, b) /\ Popped(c, d)
  BY <1>1, StackPop
<1>3. Registry(d, s2, dl2) /\ Ready(d, dl2)
  BY <1>1, <1>2, RegistryEnd
<1>4. Last(c) \in FrameSet
  BY <1>1, StackFacts
<1>5. PICK K, L : K = DeepKinds /\ L = UsedKinds
  OBVIOUS
<1>6. /\ Counted(d, K) \in Nat /\ Counted(c, K) = Counted(d, K) + Bit(Last(c), K)
      /\ Counted(d, L) \in Nat /\ Counted(c, L) = Counted(d, L) + Bit(Last(c), L)
  BY <1>1, <1>2, CountedPop
<1>7. Bit(Last(c), K) = 1 /\ Bit(Last(c), L) = 0
  BY <1>4, <1>5, Bits DEF Deep, Used
<1>8. n = Counted(c, K) /\ u = Counted(c, L) /\ n <= MaxDepth /\ u <= MaxUseDepth
  BY <1>5 DEF Recursion
<1>9. n2 = Counted(d, K) /\ n2 \in Nat /\ n2 <= MaxDepth /\ u = Counted(d, L) /\ u \in Nat
  BY <1>6, <1>7, <1>8, TemplatesAssumption
<1>10. DOMAIN s2 \in SUBSET Instances
  BY <1>1 DEF Ended
<1>11. QED
  BY <1>2, <1>3, <1>5, <1>8, <1>9, <1>10 DEF Recursion

-------------------------------------------------------------------------------
(* The type invariant, and the shapes of a step.                            *)

Values ==
    /\ body \in Programs /\ ret \in Types /\ registered \in SUBSET Templates
    /\ \A k \in DOMAIN decl : decl[k] \in Seq(Copies)
    /\ \A n \in DOMAIN aliasCache : aliasCache[n] \in Types
    /\ pending \in Seq(Instances) /\ emitted \in Seq(Instances)
    /\ ToSet(pending) \cup ToSet(emitted) = DOMAIN decl

Calls == Recursion(ctl, body, states, decl, depth, useDepth) /\ Ready(ctl, decl)

TypeInv == Values /\ Calls

\* What a step leaves alone that only copies an instance's body changes.
Table == <<body, states, decl>>

LEMMA TopFacts ==
    ASSUME Calls, ctl # <<>>
    PROVE  /\ Top \in FrameSet /\ Fits(Top, body) /\ Top.k \in Kinds /\ Top.at \in Places
           /\ Top.path \in Paths /\ Top.leaf \in Types /\ Top.key \in Keys
           /\ Top.i \in Nat \ {0} /\ Top.items \in Seq(Copies)
           /\ Top.at = "made" => Wanted(Top) \in DOMAIN decl
           /\ Top.k = "visit" => Top.key \in DOMAIN decl
           /\ Top.k = "clone" => Top.key \in DOMAIN states
<1>1. Top \in FrameSet /\ Fits(Top, body)
  BY StackFacts DEF Calls, Recursion, Top
<1>2. Top.at = "made" => Wanted(Top) \in DOMAIN decl
  BY DEF Calls, Ready, Top
<1>3. Keyed(Top, states, decl)
  <2>1. Len(ctl) \in DOMAIN ctl /\ Top = ctl[Len(ctl)]
    BY StackFacts DEF Calls, Recursion, Top
  <2>2. QED
    BY <2>1 DEF Calls, Recursion, Registry
<1>4. QED
  BY <1>1, <1>2, <1>3 DEF FrameSet, Keyed

\* The frame that takes the place of the innermost one.
Follows(f) ==
    /\ f \in FrameSet /\ Fits(f, body) /\ f.k = Top.k
    /\ f.k \in {"clone", "visit"} => f.key = Top.key
    /\ depth - One(Deep(Top)) + One(Deep(f)) <= MaxDepth
    /\ useDepth - One(Used(Top)) + One(Used(f)) <= MaxUseDepth

LEMMA StepReplace ==
    ASSUME Calls, ctl # <<>>, NEW f, Follows(f), NEW n, n = depth - One(Deep(Top)) + One(Deep(f)),
           NEW u, u = useDepth - One(Used(Top)) + One(Used(f)), NEW d, d = With(f)
    PROVE  Recursion(d, body, states, decl, n, u) /\ Replaced(ctl, f, d)
<1>1. PICK b, c, s, dl, n1, u1 : /\ b = body /\ c = ctl /\ s = states /\ dl = decl /\ n1 = depth
                                 /\ u1 = useDepth
  OBVIOUS
<1>2. Recursion(c, b, s, dl, n1, u1) /\ c # <<>>
  BY <1>1 DEF Calls
<1>3. /\ f \in FrameSet /\ Fits(f, b) /\ f.k = Last(c).k
      /\ f.k \in {"clone", "visit"} => f.key = Last(c).key
  BY <1>1 DEF Follows, Top
<1>4. /\ n = n1 - One(Deep(Last(c))) + One(Deep(f)) /\ n <= MaxDepth
      /\ u = u1 - One(Used(Last(c))) + One(Used(f)) /\ u <= MaxUseDepth
  BY <1>1 DEF Follows, Top
<1>5. d = Append(Front(c), f)
  BY <1>1 DEF With
<1>6. Recursion(d, b, s, dl, n, u) /\ Replaced(c, f, d)
  BY <1>2, <1>3, <1>4, <1>5, RecursionReplace
<1>7. QED
  BY <1>1, <1>6

LEMMA StepContinue ==
    ASSUME Calls, ctl # <<>>, NEW f, Follows(f), f.at = "made" => Wanted(f) \in DOMAIN decl,
           ctl' = With(f), depth' = depth - One(Deep(Top)) + One(Deep(f)),
           useDepth' = useDepth - One(Used(Top)) + One(Used(f)), UNCHANGED Table
    PROVE  Calls'
<1>1. PICK d, n, u : d = ctl' /\ n = depth' /\ u = useDepth'
  OBVIOUS
<1>2. d = With(f) /\ n = depth - One(Deep(Top)) + One(Deep(f))
      /\ u = useDepth - One(Used(Top)) + One(Used(f))
  BY <1>1
<1>3. Recursion(d, body, states, decl, n, u) /\ Replaced(ctl, f, d)
  BY <1>2, StepReplace
<1>4. Last(d) = f
  BY <1>3 DEF Replaced
<1>5. Ready(d, decl)
  BY <1>4 DEF Ready
<1>6. body' = body /\ states' = states /\ decl' = decl
  BY DEF Table
<1>7. QED
  BY <1>1, <1>3, <1>5, <1>6 DEF Calls

\* The call that is made.
Fresh(g, f) ==
    /\ g \in FrameSet /\ Fits(g, body) /\ g.at = "enter" /\ g.k # "clone"
    /\ g.k = "visit" => g.key \in DOMAIN decl
    /\ Above(f, g)

LEMMA StepEnter ==
    ASSUME Calls, ctl # <<>>, NEW f, Follows(f), NEW g, Fresh(g, f),
           Enter(f, g), depth' = depth - One(Deep(Top)) + One(Deep(f)),
           useDepth' = useDepth - One(Used(Top)) + One(Used(f)), UNCHANGED Table
    PROVE  Calls' /\ ret' = ret
<1>1. PICK d, n, u, e : d = With(f) /\ n = depth' /\ u = useDepth' /\ e = ctl'
  OBVIOUS
<1>2. d = With(f) /\ n = depth - One(Deep(Top)) + One(Deep(f))
      /\ u = useDepth - One(Used(Top)) + One(Used(f))
  BY <1>1
<1>3. Recursion(d, body, states, decl, n, u) /\ Replaced(ctl, f, d)
  BY <1>2, StepReplace
<1>4. d # <<>> /\ Last(d) = f
  BY <1>3 DEF Replaced
<1>5. PICK b, s, dl : b = body /\ s = states /\ dl = decl
  OBVIOUS
<1>6. Recursion(d, b, s, dl, n, u) /\ e = Append(d, g)
  BY <1>1, <1>3, <1>5 DEF Enter
<1>7. /\ g \in FrameSet /\ Fits(g, b) /\ g.k # "clone" /\ g.at = "enter"
      /\ g.k = "visit" => g.key \in DOMAIN dl
      /\ IF d = <<>> THEN g.k \in {"use", "call", "visit"} ELSE Above(Last(d), g)
  BY <1>4, <1>5 DEF Fresh
<1>8. Recursion(e, b, s, dl, n, u) /\ Ready(e, dl)
  BY <1>6, <1>7, RecursionPush
<1>9. body' = b /\ states' = s /\ decl' = dl
  BY <1>5 DEF Table
<1>10. QED
  BY <1>1, <1>8, <1>9 DEF Calls, Enter

LEMMA StepReturn ==
    ASSUME Calls, ctl # <<>>, Top.k # "clone", ~Deep(Top), NEW t, Return(t), depth' = depth,
           useDepth' = useDepth - One(Used(Top)), UNCHANGED Table
    PROVE  Calls' /\ ret' = t
<1>1. PICK b, c, s, dl, n, u, u2, d : /\ b = body /\ c = ctl /\ s = states /\ dl = decl
                                      /\ n = depth /\ u = useDepth /\ u2 = useDepth' /\ d = ctl'
  OBVIOUS
<1>2. /\ Recursion(c, b, s, dl, n, u) /\ c # <<>> /\ Last(c).k # "clone" /\ ~Deep(Last(c))
      /\ u2 = u - One(Used(Last(c))) /\ d = Front(c)
  BY <1>1 DEF Calls, Top, Return
<1>3. Recursion(d, b, s, dl, n, u2) /\ Ready(d, dl)
  BY <1>2, RecursionPop
<1>4. body' = b /\ states' = s /\ decl' = dl
  BY <1>1 DEF Table
<1>5. QED
  BY <1>1, <1>3, <1>4 DEF Calls, Return

\* A type that is made at once, or by a call.
LEMMA StepEvaluate ==
    ASSUME Calls, ctl # <<>>, NEW f, Follows(f), f.at # "made",
           NEW path \in Paths, NEW leaf \in Types, NEW g, Named(path) # <<>> => Fresh(g, f),
           Evaluate(f, path, leaf, g), depth' = depth - One(Deep(Top)) + One(Deep(f)),
           useDepth' = useDepth - One(Used(Top)) + One(Used(f)), UNCHANGED Table, ret \in Types
    PROVE  Calls' /\ ret' \in Types
<1>1. CASE Named(path) = <<>>
  <2>1. ctl' = With(f) /\ ret' = path \o leaf
    BY <1>1 DEF Evaluate
  <2>2. Calls'
    BY <2>1, StepContinue
  <2>3. ret' \in Types
    BY <2>1, PathType
  <2>4. QED
    BY <2>2, <2>3
<1>2. CASE Named(path) # <<>>
  <2>1. Enter(f, g) /\ Fresh(g, f)
    BY <1>2 DEF Evaluate
  <2>2. QED
    BY <2>1, StepEnter
<1>3. QED
  BY <1>1, <1>2

\* The instances in the table, and those of them that are done.
LEMMA TableFacts ==
    ASSUME Calls
    PROVE  /\ DOMAIN states \in SUBSET Instances /\ DOMAIN decl \in SUBSET Instances
           /\ \A k \in DOMAIN states : states[k] \in {"instantiating", "done"}
           /\ \A k : k \in DOMAIN decl <=> k \in DOMAIN states /\ states[k] = "done"
BY DEF Calls, Recursion, Registry

\* What is not refused.
LEMMA RefusalFacts ==
    ASSUME NEW key, NEW d \in Int, Refusal(key, d) = {}
    PROVE  Status(key) # "instantiating" /\ d < MaxDepth
<1>1. PICK s, r : s = Status(key) /\ r = Refusal(key, d)
  OBVIOUS
<1>2. r = IF s = "instantiating" THEN {"recursive"} ELSE IF d >= MaxDepth THEN {"depth"} ELSE {}
  BY <1>1 DEF Refusal
<1>3. r = {}
  BY <1>1
<1>4. s # "instantiating" /\ ~(d >= MaxDepth)
  BY <1>2, <1>3
<1>5. MaxDepth \in Nat
  BY TemplatesAssumption
<1>6. QED
  BY <1>1, <1>4, <1>5

LEMMA StepInstantiate ==
    ASSUME Calls, body \in Programs, ctl # <<>>, NEW key \in Instances, NEW f, Follows(f), f.at = "made",
           Wanted(f) = key, NEW h, Follows(h), h.at = "refused", Used(f) <=> Used(h),
           NEW d, d = depth - One(Deep(Top)), Instantiate(key, d, f, h),
           useDepth' = useDepth - One(Used(Top)) + One(Used(f)), body' = body
    PROVE  Calls' /\ ret' = ret /\ decl' = decl /\ pending' = pending
<1>1. ~Deep(f) /\ ~Deep(h) /\ One(Deep(f)) = 0 /\ One(Deep(h)) = 0
  <2>1. Fits(f, body) /\ Fits(h, body)
    BY DEF Follows
  <2>2. f.k # "clone" /\ h.k # "clone"
    BY <2>1 DEF Fits
  <2>3. QED
    BY <2>2 DEF Deep, One
<1>2. One(Used(h)) = One(Used(f))
  BY DEF One
<1>3. ret' = ret /\ decl' = decl /\ pending' = pending
  BY DEF Instantiate, Continue, Enter
<1>4. depth \in Nat /\ d \in Int /\ d + 0 = d
  BY DEF Calls, Recursion, One
<1>5. CASE Status(key) = "done"
  <2>1. key \in DOMAIN states /\ states[key] = "done"
    BY <1>5 DEF Status
  <2>2. key \in DOMAIN decl
    BY <2>1, TableFacts
  <2>3. ctl' = With(f) /\ depth' = depth - One(Deep(Top)) + One(Deep(f)) /\ UNCHANGED Table
    BY <1>1, <1>3, <1>4, <1>5 DEF Instantiate, Continue, Table
  <2>4. Calls'
    BY <2>2, <2>3, StepContinue
  <2>5. QED
    BY <1>3, <2>4
<1>6. CASE Status(key) # "done" /\ Refusal(key, d) # {}
  <2>1. ctl' = With(h) /\ depth' = depth - One(Deep(Top)) + One(Deep(h)) /\ UNCHANGED Table
    BY <1>1, <1>3, <1>4, <1>6 DEF Instantiate, Continue, Table
  <2>2. useDepth' = useDepth - One(Used(Top)) + One(Used(h))
    BY <1>2
  <2>3. Calls'
    BY <2>1, <2>2, StepContinue
  <2>4. QED
    BY <1>3, <2>3
<1>7. CASE Status(key) # "done" /\ Refusal(key, d) = {}
  <2>1. PICK g : g = Clone(key)
    OBVIOUS
  <2>2. /\ Enter(f, g) /\ depth' = d + 1
        /\ states' = [k \in DOMAIN states \cup {key} |->
                           IF k = key THEN "instantiating" ELSE states[k]]
    BY <1>7, <2>1 DEF Instantiate
  <2>3. Status(key) # "instantiating" /\ d < MaxDepth
    <3>1. Refusal(key, d) = {} /\ d \in Int
      BY <1>4, <1>7
    <3>2. QED
      BY <3>1, RefusalFacts
  <2>4. key \notin DOMAIN states
    <3>1. key \in DOMAIN states => states[key] \in {"instantiating", "done"}
      BY TableFacts
    <3>2. key \in DOMAIN states => Status(key) = states[key]
      BY DEF Status
    <3>3. QED
      BY <1>7, <2>3, <3>1, <3>2
  <2>5. PICK e, u, c2, b, s, s2, dl, n2 :
            /\ e = With(f) /\ u = useDepth' /\ c2 = ctl' /\ b = body /\ s = states
            /\ s2 = states' /\ dl = decl /\ n2 = depth'
    OBVIOUS
  <2>6. Recursion(e, b, s, dl, d, u) /\ Replaced(ctl, f, e)
    <3>1. d = depth - One(Deep(Top)) + One(Deep(f))
      BY <1>1, <1>4
    <3>2. e = With(f) /\ u = useDepth - One(Used(Top)) + One(Used(f))
      BY <2>5
    <3>3. Recursion(e, body, states, decl, d, u) /\ Replaced(ctl, f, e)
      BY <3>1, <3>2, StepReplace
    <3>4. QED
      BY <2>5, <3>3
  <2>7. e # <<>> /\ Last(e) = f
    BY <2>6 DEF Replaced
  <2>8. /\ g \in FrameSet /\ g.k = "clone" /\ g.at = "enter" /\ g.key = key /\ g.i = 1
    <3>1. <<>> \in Paths /\ key \in Keys /\ "clone" \in Kinds
      BY DEF Paths, Instances, Kinds
    <3>2. g = Frame("clone", <<>>, Plain, key)
      BY <2>1 DEF Clone
    <3>3. QED
      BY <3>1, <3>2, PlainTypes, FrameFacts
  <2>9. Len(b[TemplateOf(key)]) \in Nat
    <3>1. TemplateOf(key) \in Templates
      BY DEF Instances, Templates
    <3>2. b \in [Templates -> Seq(Items)]
      BY <2>5, TemplatesAssumption
    <3>3. QED
      BY <3>1, <3>2
  <2>10. Fits(g, b) /\ Above(Last(e), g)
    <3>1. Fits(g, b)
      BY <2>8, <2>9 DEF Fits
    <3>2. Above(f, g)
      BY <2>8 DEF Above
    <3>3. QED
      BY <2>7, <3>1, <3>2
  <2>11. c2 = Append(e, g) /\ n2 = d + 1 /\ n2 <= MaxDepth
    <3>1. d + 1 <= MaxDepth
      BY <1>4, <2>3, TemplatesAssumption
    <3>2. QED
      BY <2>2, <2>5, <3>1 DEF Enter
  <2>12. Begun(s, key, s2) /\ key = g.key
    BY <2>2, <2>4, <2>5, <2>8 DEF Begun
  <2>13. Recursion(c2, b, s2, dl, n2, u) /\ Ready(c2, dl)
    BY <2>6, <2>7, <2>8, <2>10, <2>11, <2>12, RecursionBegin
  <2>14. QED
    BY <1>3, <2>5, <2>13 DEF Calls
<1>8. QED
  BY <1>5, <1>6, <1>7

-------------------------------------------------------------------------------
(* Items, and the frames that actions make.                                 *)

LEMMA ItemFacts ==
    ASSUME NEW item \in Items
    PROVE  /\ item.path \in Paths /\ item.k \in {"type", "call"}
           /\ item.k = "call" => item.f \in Functions /\ item.v \in {1, 2}
BY DEF Items

\* The keys of instances.
LEMMA CallingFacts ==
    ASSUME NEW name \in Types, Len(name) >= 2, NEW v \in {0, 1, 2}, NEW key, key = Key(name, v)
    PROVE  /\ key.name = name /\ key.v = v /\ TemplateOf(key) = Head(name)
           /\ Head(name) \in Functions => key \in Calling
           /\ Head(name) \in Structs /\ v = 0 => key \in Instances
<1>1. key.name = name /\ key.v = v /\ TemplateOf(key) = Head(name) /\ key \in Keys
  BY DEF Key, Keys, TemplateOf
<1>2. Head(name) \in Functions => Head(name) \notin Structs
  BY TemplatesAssumption
<1>3. QED
  BY <1>1, <1>2 DEF Calling, Instances

LEMMA BodyFacts ==
    ASSUME body \in Programs
    PROVE  /\ \A key \in Instances : /\ TemplateOf(key) \in Templates
                                     /\ body[TemplateOf(key)] \in Seq(Items)
                                     /\ Len(body[TemplateOf(key)]) \in Nat
           /\ \A a \in Aliases : body[a] \in Seq(Items) /\ body[a][1] \in Items /\ body[a][1].k = "type"
<1>1. body \in [Templates -> Seq(Items)] /\ \A a \in Aliases : Len(body[a]) = 1 /\ body[a][1].k = "type"
  BY TemplatesAssumption
<1>2. \A key \in Instances : TemplateOf(key) \in Templates
  BY DEF Instances, Templates
<1>3. \A t \in Templates : body[t] \in Seq(Items) /\ Len(body[t]) \in Nat
  BY <1>1
<1>4. \A a \in Aliases : body[a] \in Seq(Items)
  BY <1>3 DEF Templates
<1>5. \A a \in Aliases : body[a][1] \in Items
  BY <1>1, <1>4
<1>6. QED
  BY <1>1, <1>2, <1>3, <1>4, <1>5

\* What stands behind the pointers of a type that is evaluated.
LEMMA ArgFacts ==
    ASSUME NEW f \in FrameSet, NEW b, Fits(f, b), f.k \in {"use", "resolve"}
    PROVE  /\ Named(f.path) # <<>> /\ Head(Named(f.path)) \in Templates
           /\ Tail(Named(f.path)) \in Paths
           /\ Head(Named(f.path)) \in ToSet(f.path)
           /\ ToSet(Tail(Named(f.path))) \subseteq ToSet(f.path)
<1>1. f.path \in Paths /\ \E i \in DOMAIN f.path : f.path[i] # "*"
  BY DEF FrameSet, Fits
<1>2. PICK p, n : p = f.path /\ n = Named(p)
  OBVIOUS
<1>3. /\ n \in Paths /\ n # <<>> /\ Head(n) \in Templates /\ Tail(n) \in Paths
      /\ \A i \in DOMAIN n : n[i] \in ToSet(p)
  BY <1>1, <1>2, PathFacts
<1>4. n \in Seq(Templates \cup {"*"})
  BY <1>3 DEF Paths
<1>5. Head(n) = n[1] /\ 1 \in DOMAIN n /\ Len(Tail(n)) = Len(n) - 1
      /\ \A i \in 1..Len(Tail(n)) : Tail(n)[i] = n[i + 1] /\ i + 1 \in DOMAIN n
  BY <1>3, <1>4
<1>6. ToSet(Tail(n)) \subseteq ToSet(p)
  <2>1. DOMAIN Tail(n) = 1..Len(Tail(n))
    BY <1>3 DEF Paths
  <2>2. QED
    BY <1>3, <1>5, <2>1 DEF ToSet
<1>7. QED
  BY <1>2, <1>3, <1>5, <1>6

\* A call that evaluates a type with a template in it.
LEMMA EvaluateFrame ==
    ASSUME NEW k \in {"use", "resolve"}, NEW path \in Paths, NEW leaf \in Types,
           Named(path) # <<>>, NEW g, g = Frame(k, path, leaf, Key(Plain, 0)), NEW b
    PROVE  g \in FrameSet /\ Fits(g, b) /\ g.at = "enter" /\ g.k = k /\ g.path = path /\ g.leaf = leaf
<1>1. Key(Plain, 0) \in Keys /\ k \in Kinds
  BY PlainTypes DEF Key, Keys, Kinds
<1>2. /\ g \in FrameSet /\ g.k = k /\ g.at = "enter" /\ g.path = path /\ g.leaf = leaf /\ g.i = 1
  BY <1>1, FrameFacts
<1>3. \E i \in DOMAIN path : path[i] # "*"
  BY PathFacts
<1>4. Fits(g, b)
  BY <1>2, <1>3 DEF Fits
<1>5. QED
  BY <1>2, <1>4

\* A call that analyses an instance, or a call in one.
LEMMA InstanceFrame ==
    ASSUME NEW k \in {"visit", "call"}, NEW key \in Instances,
           k = "call" => TemplateOf(key) \in Functions,
           NEW g, g = Frame(k, <<>>, Plain, key), NEW b
    PROVE  g \in FrameSet /\ Fits(g, b) /\ g.at = "enter" /\ g.k = k /\ g.key = key
<1>1. key \in Keys /\ k \in Kinds /\ <<>> \in Paths
  BY DEF Instances, Kinds, Paths
<1>2. /\ g \in FrameSet /\ g.k = k /\ g.at = "enter" /\ g.key = key /\ g.i = 1
  BY <1>1, PlainTypes, FrameFacts
<1>3. Fits(g, b)
  BY <1>2 DEF Fits
<1>4. QED
  BY <1>2, <1>3

\* The analysis of an instance begins.
LEMMA StepVisit ==
    ASSUME Calls, ctl # <<>>, NEW f, Follows(f), f.at # "made",
           f.at = "out" \/ (f.k = "visit" /\ f.at = "enter"),
           NEW key, key \in DOMAIN decl, StartVisit(f, key),
           depth' = depth - One(Deep(Top)) + One(Deep(f)),
           useDepth' = useDepth - One(Used(Top)) + One(Used(f)), UNCHANGED Table
    PROVE  Calls' /\ ret' = ret
<1>1. key \in Instances
  BY TableFacts
<1>2. PICK g : g = Visit(key)
  OBVIOUS
<1>3. g = Frame("visit", <<>>, Plain, key)
  BY <1>2 DEF Visit
<1>4. g \in FrameSet /\ Fits(g, body) /\ g.at = "enter" /\ g.k = "visit" /\ g.key = key
  BY <1>1, <1>3, InstanceFrame
<1>5. Fresh(g, f)
  BY <1>4 DEF Fresh, Above
<1>6. Enter(f, g)
  BY <1>2 DEF StartVisit
<1>7. QED
  BY <1>5, <1>6, StepEnter

LEMMA StepEnsure ==
    ASSUME Calls, ctl # <<>>, NEW f, Follows(f), f.at # "made",
           f.at = "out" \/ (f.k = "visit" /\ f.at = "enter"),
           NEW t, EnsureVisited(t, f), depth' = depth - One(Deep(Top)) + One(Deep(f)),
           useDepth' = useDepth - One(Used(Top)) + One(Used(f)), UNCHANGED Table
    PROVE  Calls' /\ ret' = ret
<1>1. CASE IsInstance(t) /\ HasDollar(t) /\ Key(t, 0) \in DOMAIN decl /\ NameOf(Key(t, 0)) \notin visited
  <2>1. PICK key : key = Key(t, 0)
    OBVIOUS
  <2>2. key \in DOMAIN decl /\ StartVisit(f, key)
    BY <1>1, <2>1 DEF EnsureVisited
  <2>3. QED
    BY <2>2, StepVisit
<1>2. CASE ~(IsInstance(t) /\ HasDollar(t) /\ Key(t, 0) \in DOMAIN decl /\ NameOf(Key(t, 0)) \notin visited)
  <2>1. Continue(f)
    BY <1>2 DEF EnsureVisited
  <2>2. ctl' = With(f) /\ ret' = ret
    BY <2>1 DEF Continue
  <2>3. QED
    BY <2>2, StepContinue
<1>3. QED
  BY <1>1, <1>2

\* A frame that stays what it is does what its place says.
LEMMA FollowsAt ==
    ASSUME Calls, ctl # <<>>, NEW f \in FrameSet, Fits(f, body), f.k = Top.k, f.key = Top.key,
           One(Deep(f)) = One(Deep(Top)), One(Used(f)) = One(Used(Top))
    PROVE  /\ Follows(f) /\ depth = depth - One(Deep(Top)) + One(Deep(f))
           /\ useDepth = useDepth - One(Used(Top)) + One(Used(f))
<1>1. /\ depth \in Nat /\ useDepth \in Nat /\ depth <= MaxDepth /\ useDepth <= MaxUseDepth
      /\ One(Deep(f)) \in {0, 1} /\ One(Used(f)) \in {0, 1}
  BY DEF Calls, Recursion, One
<1>2. /\ depth = depth - One(Deep(Top)) + One(Deep(f))
      /\ useDepth = useDepth - One(Used(Top)) + One(Used(f))
  BY <1>1
<1>3. QED
  BY <1>1, <1>2 DEF Follows

-------------------------------------------------------------------------------
(* Type correctness, one lemma for each action.                             *)

LEMMA ValuesKept ==
    ASSUME Values, ret' \in Types,
           UNCHANGED <<body, registered, decl, aliasCache, pending, emitted>>
    PROVE  Values'
BY DEF Values

LEMMA TypeAfterCloneItem ==
    ASSUME TypeInv, CloneItem
    PROVE  TypeInv'
<1>1. /\ Calls /\ Values /\ ctl # <<>> /\ Top.k = "clone" /\ Top.at = "enter" /\ Top.i <= Len(Body)
  BY DEF TypeInv, CloneItem, In
<1>2. PICK item, leaf, f, g : /\ item = Body[Top.i] /\ leaf = LeafOf(item, Top.key) /\ f = At("item")
                              /\ g = Resolve(item.path, leaf)
  OBVIOUS
<1>3. /\ Top \in FrameSet /\ Fits(Top, body) /\ Top.i \in Nat \ {0} /\ Top.key \in Instances
  BY <1>1, TopFacts DEF Fits
<1>4. item \in Items
  <2>1. Body \in Seq(Items)
    BY <1>1, <1>3, BodyFacts DEF Values, Body
  <2>2. QED
    BY <1>1, <1>2, <1>3, <2>1
<1>5. item.path \in Paths
  BY <1>4, ItemFacts
<1>6. leaf \in Types
  BY <1>2, <1>3, LeafType DEF Instances
<1>7. f \in FrameSet /\ f.k = Top.k /\ f.at = "item" /\ f.key = Top.key /\ f.i = Top.i
  BY <1>2, <1>3, FrameAt DEF At, Places
<1>8. Fits(f, body)
  BY <1>1, <1>3, <1>7 DEF Fits, Body
<1>9. One(Deep(f)) = One(Deep(Top)) /\ One(Used(f)) = One(Used(Top))
  BY <1>1, <1>7 DEF Deep, Used, One
<1>10. /\ Follows(f) /\ depth = depth - One(Deep(Top)) + One(Deep(f))
       /\ useDepth = useDepth - One(Used(Top)) + One(Used(f))
  BY <1>1, <1>7, <1>8, <1>9, FollowsAt
<1>11. Named(item.path) # <<>> => Fresh(g, f)
  <2>1. PICK path : path = item.path
    OBVIOUS
  <2>2. Named(path) # <<>> => g \in FrameSet /\ Fits(g, body) /\ g.at = "enter" /\ g.k = "resolve"
    BY <1>2, <1>5, <1>6, <2>1, EvaluateFrame DEF Resolve
  <2>3. QED
    BY <1>1, <1>7, <2>1, <2>2 DEF Fresh, Above
<1>12. Calls' /\ ret' \in Types
  <2>1. PICK path : path = item.path
    OBVIOUS
  <2>2. Evaluate(f, path, leaf, g)
    BY <1>2, <2>1 DEF CloneItem
  <2>3. UNCHANGED <<depth, useDepth>> /\ UNCHANGED Table /\ ret \in Types
    BY <1>1 DEF CloneItem, unitVars, regVars, semaVars, Table, Values
  <2>4. depth' = depth - One(Deep(Top)) + One(Deep(f))
        /\ useDepth' = useDepth - One(Used(Top)) + One(Used(f))
    BY <1>10, <2>3
  <2>5. QED
    BY <1>1, <1>5, <1>6, <1>7, <1>10, <1>11, <2>1, <2>2, <2>3, <2>4, StepEvaluate
<1>13. Values'
  BY <1>1, <1>12, ValuesKept DEF CloneItem, unitVars, regVars, semaVars
<1>14. QED
  BY <1>12, <1>13 DEF TypeInv

\* The copy of an item, and the frame that has it.
CopyOf(item, t) == IF item.k = "type" THEN [k |-> "type", t |-> t]
                   ELSE [k |-> "call", key |-> Key(<<item.f>> \o t, item.v)]

Copied(item, copy, items, f) ==
    /\ item = Body[Top.i] /\ copy = CopyOf(item, ret) /\ items = Append(Top.items, copy)
    /\ f = [At("enter") EXCEPT !.i = Top.i + 1, !.items = items]

LEMMA CopyFacts ==
    ASSUME Calls, Values, In("clone", "item"), NEW item, NEW copy, NEW items, NEW f,
           Copied(item, copy, items, f)
    PROVE  /\ item \in Items /\ copy \in Copies /\ copy.k = item.k
           /\ item.k = "type" => copy.t = ret
           /\ item.k = "call" => Last(copy.key.name) = Last(ret) /\ Tail(copy.key.name) = ret
           /\ Top.items \in Seq(Copies) /\ Top.i \in Nat \ {0}
           /\ f \in FrameSet /\ f.k = Top.k /\ f.at = "enter" /\ f.key = Top.key
           /\ f.i = Top.i + 1 /\ f.items = items
<1>1. ctl # <<>> /\ Top.k = "clone" /\ Top.at = "item"
  BY DEF In
<1>2. /\ Top \in FrameSet /\ Fits(Top, body) /\ Top.i \in Nat \ {0} /\ Top.key \in Instances
      /\ Top.i <= Len(Body) /\ Top.items \in Seq(Copies)
  BY <1>1, TopFacts DEF Fits, Body
<1>3. item \in Items
  <2>1. Body \in Seq(Items)
    BY <1>1, <1>2, BodyFacts DEF Values, Body
  <2>2. QED
    BY <1>2, <2>1 DEF Copied
<1>4. /\ copy \in Copies /\ copy.k = item.k /\ (item.k = "type" => copy.t = ret)
      /\ item.k = "call" => Last(copy.key.name) = Last(ret) /\ Tail(copy.key.name) = ret
  <2>1. ret \in Types
    BY DEF Values
  <2>2. CASE item.k = "type"
    <3>1. copy = [k |-> "type", t |-> ret]
      BY <2>2 DEF CopyOf, Copied
    <3>2. QED
      BY <2>1, <2>2, <3>1 DEF Copies
  <2>3. CASE item.k = "call"
    <3>1. item.f \in Functions /\ item.f \in Letters /\ item.v \in {0, 1, 2}
      BY <1>3, <2>3, ItemFacts DEF Letters, Templates
    <3>2. PICK name, x, t : name = <<x>> \o t /\ x = item.f /\ t = ret
      OBVIOUS
    <3>3. x \in Letters /\ t \in Types /\ name = <<x>> \o t
      BY <2>1, <3>1, <3>2
    <3>4. /\ name \in Types /\ Len(name) >= 2 /\ Head(name) = x /\ Last(name) = Last(t)
          /\ Tail(name) = t
      BY <3>3, TypeCons
    <3>5. PICK key : key = Key(name, item.v)
      OBVIOUS
    <3>6. key \in Calling /\ key.name = name
      BY <3>1, <3>2, <3>5, <3>4, CallingFacts
    <3>7. copy = [k |-> "call", key |-> key]
      BY <2>3, <3>2, <3>5 DEF CopyOf, Copied
    <3>8. QED
      BY <2>3, <3>2, <3>6, <3>7, <3>4 DEF Copies
  <2>4. QED
    BY <1>3, <2>2, <2>3, ItemFacts
<1>5. f \in FrameSet /\ f.k = Top.k /\ f.at = "enter" /\ f.key = Top.key /\ f.i = Top.i + 1
      /\ f.items = items
  <2>1. PICK t : t = Top
    OBVIOUS
  <2>2. PICK e, i : e = [t EXCEPT !.at = "enter"] /\ i = t.i + 1
    OBVIOUS
  <2>3. t \in FrameSet /\ i \in Nat \ {0} /\ items \in Seq(Copies)
    BY <1>2, <1>4, <2>1, <2>2 DEF Copied
  <2>4. e \in FrameSet /\ e.k = t.k /\ e.at = "enter" /\ e.key = t.key
    BY <2>2, <2>3, FrameAt DEF Places
  <2>5. f = [e EXCEPT !.i = i, !.items = items]
    BY <2>1, <2>2 DEF At, Copied
  <2>6. f \in FrameSet /\ f.k = e.k /\ f.at = e.at /\ f.key = e.key /\ f.i = i /\ f.items = items
    BY <2>3, <2>4, <2>5 DEF FrameSet
  <2>7. QED
    BY <2>1, <2>2, <2>4, <2>6
<1>6. QED
  BY <1>2, <1>3, <1>4, <1>5

LEMMA TypeAfterCloneNext ==
    ASSUME TypeInv, CloneNext
    PROVE  TypeInv'
<1>1. /\ Calls /\ Values /\ ctl # <<>> /\ Top.k = "clone" /\ Top.at = "item"
      /\ In("clone", "item")
  BY DEF TypeInv, CloneNext, In
<1>2. /\ Top \in FrameSet /\ Fits(Top, body) /\ Top.i \in Nat \ {0} /\ Top.key \in Instances
      /\ Top.i <= Len(Body)
  BY <1>1, TopFacts DEF Fits, Body
<1>3. PICK item, copy, items, f : Copied(item, copy, items, f)
  BY DEF Copied
<1>4. f \in FrameSet /\ f.k = Top.k /\ f.at = "enter" /\ f.key = Top.key /\ f.i = Top.i + 1
  BY <1>1, <1>3, CopyFacts
<1>5. Fits(f, body)
  <2>1. Len(body[TemplateOf(Top.key)]) \in Nat
    BY <1>1, <1>2, BodyFacts DEF Values
  <2>2. QED
    BY <1>1, <1>2, <1>4, <2>1 DEF Fits, Body
<1>6. One(Deep(f)) = One(Deep(Top)) /\ One(Used(f)) = One(Used(Top))
  BY <1>1, <1>4 DEF Deep, Used, One
<1>7. /\ Follows(f) /\ depth = depth - One(Deep(Top)) + One(Deep(f))
      /\ useDepth = useDepth - One(Used(Top)) + One(Used(f))
  BY <1>1, <1>4, <1>5, <1>6, FollowsAt
<1>8. Continue(f)
  BY <1>3 DEF CloneNext, Copied, CopyOf
<1>9. UNCHANGED <<depth, useDepth, body, registered, decl, aliasCache, pending, emitted>>
      /\ UNCHANGED Table
  BY DEF CloneNext, unitVars, regVars, semaVars, Table
<1>10. Calls'
  <2>1. ctl' = With(f) /\ depth' = depth - One(Deep(Top)) + One(Deep(f))
        /\ useDepth' = useDepth - One(Used(Top)) + One(Used(f))
    BY <1>7, <1>8, <1>9 DEF Continue
  <2>2. QED
    BY <1>1, <1>4, <1>7, <1>9, <2>1, StepContinue
<1>11. ret' \in Types
  BY <1>1, <1>8 DEF Continue, Values
<1>12. QED
  BY <1>1, <1>9, <1>10, <1>11, ValuesKept DEF TypeInv

LEMMA TypeAfterCloneEnd ==
    ASSUME TypeInv, CloneEnd
    PROVE  TypeInv'
<1>1. /\ Calls /\ Values /\ ctl # <<>> /\ Top.k = "clone"
  BY DEF TypeInv, CloneEnd, In
<1>2. Top.key \in Instances /\ Top.items \in Seq(Copies)
  BY <1>1, TopFacts DEF Fits
<1>3. DOMAIN decl' = DOMAIN decl \cup {Top.key}
      /\ \A k \in DOMAIN decl' : decl'[k] = IF k = Top.key THEN Top.items ELSE decl[k]
  BY DEF CloneEnd
<1>4. PICK b, c, s, dl, n, u, s2, dl2, n2, d, key :
          /\ b = body /\ c = ctl /\ s = states /\ dl = decl /\ n = depth /\ u = useDepth
          /\ s2 = states' /\ dl2 = decl' /\ n2 = depth' /\ d = ctl' /\ key = Top.key
  OBVIOUS
<1>5. Recursion(d, b, s2, dl2, n2, u) /\ Ready(d, dl2)
  <2>1. Recursion(c, b, s, dl, n, u) /\ c # <<>> /\ Last(c).k = "clone" /\ key = Last(c).key
    BY <1>1, <1>4 DEF Calls, Top
  <2>2. s2 = [s EXCEPT ![key] = "done"] /\ n2 = n - 1 /\ d = Front(c)
    BY <1>4 DEF CloneEnd, Return
  <2>3. DOMAIN dl2 = DOMAIN dl \cup {key}
    BY <1>3, <1>4
  <2>4. Ended(s, dl, key, s2, dl2)
    BY <2>2, <2>3 DEF Ended
  <2>5. QED
    BY <2>1, <2>2, <2>4, RecursionEnd
<1>6. body' = b /\ useDepth' = u
  BY <1>4 DEF CloneEnd, unitVars, semaVars
<1>7. Calls'
  BY <1>4, <1>5, <1>6 DEF Calls
<1>8. PICK p, q : p = pending /\ q = pending'
  OBVIOUS
<1>9. q \in Seq(Instances) /\ ToSet(q) = ToSet(p) \cup {key}
  <2>1. p \in Seq(Instances) /\ q = Append(p, key)
    BY <1>1, <1>4, <1>8 DEF CloneEnd, Values
  <2>2. q \in Seq(Instances) /\ DOMAIN q = 1..(Len(p) + 1) /\ DOMAIN p = 1..Len(p)
        /\ q[Len(p) + 1] = key /\ (\A i \in 1..Len(p) : q[i] = p[i]) /\ Len(p) \in Nat
    BY <1>2, <1>4, <2>1
  <2>3. QED
    BY <2>2 DEF ToSet
<1>10. Values'
  <2>1. UNCHANGED <<body, registered, emitted, aliasCache>> /\ ret' = ret
    BY DEF CloneEnd, Return, unitVars, semaVars
  <2>2. \A k \in DOMAIN decl' : decl'[k] \in Seq(Copies)
    BY <1>1, <1>2, <1>3 DEF Values
  <2>3. ToSet(q) \cup ToSet(emitted) = DOMAIN decl'
    BY <1>1, <1>3, <1>4, <1>8, <1>9 DEF Values
  <2>4. ToSet(pending') \cup ToSet(emitted') = DOMAIN decl' /\ pending' \in Seq(Instances)
    BY <1>8, <1>9, <2>1, <2>3
  <2>5. QED
    BY <1>1, <2>1, <2>2, <2>4 DEF Values
<1>11. QED
  BY <1>7, <1>10 DEF TypeInv

\* A step that leaves the counters and the table alone, and has only a place changed.
LEMMA StepAt ==
    ASSUME Calls, ctl # <<>>, NEW f \in FrameSet, Fits(f, body), f.k = Top.k, f.key = Top.key,
           f.at = "made" => Wanted(f) \in DOMAIN decl,
           One(Deep(f)) = One(Deep(Top)), One(Used(f)) = One(Used(Top)),
           Continue(f), UNCHANGED <<depth, useDepth>>, UNCHANGED Table
    PROVE  Calls' /\ ret' = ret
<1>1. /\ Follows(f) /\ depth = depth - One(Deep(Top)) + One(Deep(f))
      /\ useDepth = useDepth - One(Used(Top)) + One(Used(f))
  BY FollowsAt
<1>2. /\ ctl' = With(f) /\ ret' = ret /\ depth' = depth - One(Deep(Top)) + One(Deep(f))
      /\ useDepth' = useDepth - One(Used(Top)) + One(Used(f))
  BY <1>1 DEF Continue
<1>3. QED
  BY <1>1, <1>2, StepContinue

\* What has a template behind its pointers, with the type of its argument.
LEMMA NamedType ==
    ASSUME Calls, ctl # <<>>, Top.k \in {"use", "resolve"}, NEW t \in Types,
           NEW name, name = <<Head(Named(Top.path))>> \o t
    PROVE  /\ name \in Types /\ Len(name) >= 2 /\ Head(name) = Head(Named(Top.path))
           /\ Tail(name) = t /\ Last(name) = Last(t) /\ Head(name) \in Templates
<1>1. Head(Named(Top.path)) \in Templates
  BY TopFacts, ArgFacts
<1>2. PICK x : x = Head(Named(Top.path))
  OBVIOUS
<1>3. x \in Letters /\ x \in Templates /\ name = <<x>> \o t
  BY <1>1, <1>2 DEF Letters
<1>4. /\ name \in Types /\ Len(name) >= 2 /\ Head(name) = x /\ Tail(name) = t
      /\ Last(name) = Last(t)
  BY <1>3, TypeCons
<1>5. QED
  BY <1>2, <1>3, <1>4

LEMMA TypeAfterResolveEnter ==
    ASSUME TypeInv, ResolveEnter
    PROVE  TypeInv'
<1>1. /\ Calls /\ Values /\ ctl # <<>> /\ Top.k = "resolve" /\ Top.at = "enter"
  BY DEF TypeInv, ResolveEnter, In
<1>2. /\ Top \in FrameSet /\ Fits(Top, body) /\ Top.path \in Paths /\ Top.leaf \in Types
  BY <1>1, TopFacts
<1>3. PICK arg, leaf, f, g, h : /\ arg = Tail(Named(Top.path)) /\ leaf = Top.leaf /\ f = At("args")
                                /\ g = Resolve(arg, leaf) /\ h = At("refused")
  OBVIOUS
<1>4. arg \in Paths /\ leaf \in Types
  BY <1>1, <1>2, <1>3, ArgFacts
<1>5. /\ f \in FrameSet /\ f.k = Top.k /\ f.at = "args" /\ f.key = Top.key /\ f.path = Top.path
      /\ h \in FrameSet /\ h.k = Top.k /\ h.at = "refused" /\ h.key = Top.key /\ h.path = Top.path
  BY <1>2, <1>3, FrameAt DEF At, Places
<1>6. Fits(f, body) /\ Fits(h, body)
  BY <1>1, <1>2, <1>5 DEF Fits
<1>7. /\ One(Deep(Top)) = 0 /\ One(Used(Top)) = 0 /\ One(Deep(f)) = 1 /\ One(Used(f)) = 0
      /\ One(Deep(h)) = 0 /\ One(Used(h)) = 0
  BY <1>1, <1>5 DEF Deep, Used, One
<1>8. /\ UNCHANGED <<useDepth, body, registered, decl, aliasCache, pending, emitted>>
      /\ UNCHANGED Table
  BY DEF ResolveEnter, unitVars, semaVars, Table
<1>9. Calls' /\ ret' \in Types
  <2>1. CASE depth >= MaxDepth
    <3>1. Continue(h) /\ UNCHANGED <<depth, useDepth>>
      BY <1>3, <1>8, <2>1 DEF ResolveEnter
    <3>2. Calls' /\ ret' = ret
      BY <1>1, <1>5, <1>6, <1>7, <1>8, <3>1, StepAt
    <3>3. QED
      BY <1>1, <3>2 DEF Values
  <2>2. CASE ~(depth >= MaxDepth)
    <3>1. depth' = depth + 1 /\ Evaluate(f, arg, leaf, g)
      BY <1>3, <2>2 DEF ResolveEnter
    <3>2. /\ depth \in Nat /\ useDepth \in Nat /\ useDepth <= MaxUseDepth /\ depth + 1 <= MaxDepth
      BY <1>1, <2>2, TemplatesAssumption DEF Calls, Recursion
    <3>3. Follows(f)
      BY <1>1, <1>5, <1>6, <1>7, <3>2 DEF Follows
    <3>4. /\ depth' = depth - One(Deep(Top)) + One(Deep(f))
          /\ useDepth' = useDepth - One(Used(Top)) + One(Used(f))
      BY <1>7, <1>8, <3>1, <3>2
    <3>5. Named(arg) # <<>> => Fresh(g, f)
      <4>1. Named(arg) # <<>> => g \in FrameSet /\ Fits(g, body) /\ g.at = "enter" /\ g.k = "resolve"
        BY <1>3, <1>4, EvaluateFrame DEF Resolve
      <4>2. QED
        BY <1>1, <1>5, <4>1 DEF Fresh, Above
    <3>6. ret \in Types
      BY <1>1 DEF Values
    <3>7. QED
      BY <1>1, <1>4, <1>5, <1>8, <3>1, <3>3, <3>4, <3>5, <3>6, StepEvaluate
  <2>3. QED
    BY <2>1, <2>2
<1>10. QED
  BY <1>1, <1>8, <1>9, ValuesKept DEF TypeInv

LEMMA TypeAfterResolveArgs ==
    ASSUME TypeInv, ResolveArgs
    PROVE  TypeInv'
<1>1. /\ Calls /\ Values /\ ctl # <<>> /\ Top.k = "resolve" /\ Top.at = "args" /\ ret \in Types
  BY DEF TypeInv, ResolveArgs, In, Values
<1>2. Top \in FrameSet /\ Fits(Top, body)
  BY <1>1, TopFacts
<1>3. PICK name, key, e, f, h, d : /\ name = <<Head(Named(Top.path))>> \o ret /\ key = Key(name, 0)
                                   /\ e = At("made") /\ f = [e EXCEPT !.key = key]
                                   /\ h = At("refused") /\ d = depth - 1
  OBVIOUS
<1>4. name \in Types /\ Len(name) >= 2
  BY <1>1, <1>3, NamedType
<1>5. /\ h \in FrameSet /\ h.k = Top.k /\ h.at = "refused" /\ h.key = Top.key /\ h.path = Top.path
      /\ e \in FrameSet /\ e.k = Top.k /\ e.at = "made" /\ e.path = Top.path
  BY <1>2, <1>3, FrameAt DEF At, Places
<1>6. Fits(h, body)
  BY <1>1, <1>2, <1>5 DEF Fits
<1>7. One(Deep(Top)) = 1 /\ One(Used(Top)) = 0 /\ One(Deep(h)) = 0 /\ One(Used(h)) = 0
  BY <1>1, <1>5 DEF Deep, Used, One
<1>8. /\ depth \in Nat /\ useDepth \in Nat /\ useDepth <= MaxUseDepth /\ depth <= MaxDepth
      /\ MaxDepth \in Nat
  BY <1>1, TemplatesAssumption DEF Calls, Recursion
<1>9. Follows(h)
  BY <1>1, <1>5, <1>6, <1>7, <1>8 DEF Follows
<1>10. UNCHANGED <<useDepth, body, registered, aliasCache, emitted>>
  BY DEF ResolveArgs, unitVars, semaVars
<1>11. CASE Head(name) \in registered \cap Structs
  <2>1. key \in Instances /\ key \in Keys
    BY <1>3, <1>4, <1>11, CallingFacts DEF Instances
  <2>2. f \in FrameSet /\ f.k = Top.k /\ f.at = "made" /\ f.key = key /\ f.path = Top.path
    BY <1>3, <1>5, <2>1, FrameKey
  <2>3. Wanted(f) = key
    BY <1>1, <2>2 DEF Wanted
  <2>4. Fits(f, body)
    BY <1>1, <1>2, <2>1, <2>2, <2>3 DEF Fits
  <2>5. One(Deep(f)) = 0 /\ One(Used(f)) = 0 /\ (Used(f) <=> Used(h))
    BY <1>1, <1>5, <2>2 DEF Deep, Used, One
  <2>6. Follows(f)
    BY <1>1, <1>7, <1>8, <2>2, <2>4, <2>5 DEF Follows
  <2>7. Instantiate(key, d, f, h)
    BY <1>3, <1>11 DEF ResolveArgs
  <2>8. d = depth - One(Deep(Top)) /\ useDepth' = useDepth - One(Used(Top)) + One(Used(f))
    BY <1>3, <1>7, <1>8, <1>10, <2>5
  <2>9. Calls' /\ ret' = ret /\ decl' = decl /\ pending' = pending
    BY <1>1, <1>5, <1>9, <1>10, <2>1, <2>2, <2>3, <2>5, <2>6, <2>7, <2>8, StepInstantiate DEF Values
  <2>10. Values'
    BY <1>1, <1>10, <2>9, ValuesKept
  <2>11. QED
    BY <2>9, <2>10 DEF TypeInv
<1>12. CASE Head(name) \notin registered \cap Structs
  <2>1. Continue(h) /\ depth' = d /\ UNCHANGED <<states, decl, pending>>
    BY <1>3, <1>12 DEF ResolveArgs
  <2>2. ctl' = With(h) /\ ret' = ret /\ UNCHANGED Table
    BY <1>10, <2>1 DEF Continue, Table
  <2>3. /\ depth' = depth - One(Deep(Top)) + One(Deep(h))
        /\ useDepth' = useDepth - One(Used(Top)) + One(Used(h))
    BY <1>3, <1>7, <1>8, <1>10, <2>1
  <2>4. Calls'
    BY <1>1, <1>5, <1>9, <2>2, <2>3, StepContinue
  <2>5. Values'
    BY <1>1, <1>10, <2>1, <2>2, ValuesKept
  <2>6. QED
    BY <2>4, <2>5 DEF TypeInv
<1>13. QED
  BY <1>11, <1>12

\* What a call returns that puts the pointers back in front of a type.
LEMMA OuterType ==
    ASSUME Calls, ctl # <<>>, NEW t \in Types
    PROVE  Outer(Top.path) \o t \in Types /\ Last(Outer(Top.path) \o t) = Last(t)
BY TopFacts, PathType

LEMMA TypeAfterResolveEnd ==
    ASSUME TypeInv, ResolveEnd
    PROVE  TypeInv'
<1>1. /\ Calls /\ Values /\ ctl # <<>> /\ Top.k = "resolve" /\ Top.at \in {"made", "refused"}
  BY DEF TypeInv, ResolveEnd, In
<1>2. UNCHANGED <<body, registered, decl, aliasCache, pending, emitted, depth, useDepth>>
      /\ UNCHANGED Table
  BY DEF ResolveEnd, unitVars, regVars, semaVars, Table
<1>3. PICK t \in Types : Return(Outer(Top.path) \o t)
  <2>1. Top.key.name \in Types /\ Null \in Types
    BY <1>1, TopFacts, PlainTypes DEF Keys
  <2>2. QED
    BY <2>1 DEF ResolveEnd
<1>4. PICK u : u = Outer(Top.path) \o t
  OBVIOUS
<1>5. u \in Types /\ Return(u)
  BY <1>1, <1>3, <1>4, OuterType
<1>6. ~Deep(Top) /\ One(Used(Top)) = 0 /\ useDepth \in Nat
  BY <1>1 DEF Deep, Used, One, Calls, Recursion
<1>7. useDepth' = useDepth - One(Used(Top))
  BY <1>2, <1>6
<1>8. Calls' /\ ret' = u
  BY <1>1, <1>2, <1>5, <1>6, <1>7, StepReturn
<1>9. QED
  BY <1>1, <1>2, <1>5, <1>8, ValuesKept DEF TypeInv

\* What an action leaves alone that only analyses.
Rest == <<body, registered, decl, aliasCache, pending, emitted>>

LEMMA TypeAfterVisitField ==
    ASSUME TypeInv, VisitField
    PROVE  TypeInv'
<1>1. /\ Calls /\ Values /\ ctl # <<>> /\ Top.k = "visit" /\ Top.at = "enter"
  BY DEF TypeInv, VisitField, In
<1>2. /\ Top \in FrameSet /\ Fits(Top, body)
  BY <1>1, TopFacts
<1>3. PICK f, t, s : /\ f = NextItem /\ t = Copy[Top.i].t /\ s = Top
  OBVIOUS
<1>4. f \in FrameSet /\ f.k = Top.k /\ f.at = "enter" /\ f.key = Top.key /\ f.path = Top.path
  <2>1. s \in FrameSet /\ f = [s EXCEPT !.i = s.i + 1]
    BY <1>2, <1>3 DEF NextItem
  <2>2. f \in FrameSet /\ f.k = s.k /\ f.at = s.at /\ f.key = s.key /\ f.path = s.path
    BY <2>1, FrameNext
  <2>3. QED
    BY <1>1, <1>3, <2>2
<1>5. Fits(f, body)
  BY <1>1, <1>2, <1>4 DEF Fits
<1>6. One(Deep(f)) = One(Deep(Top)) /\ One(Used(f)) = One(Used(Top))
  BY <1>1, <1>4 DEF Deep, Used, One
<1>7. /\ Follows(f) /\ depth = depth - One(Deep(Top)) + One(Deep(f))
      /\ useDepth = useDepth - One(Used(Top)) + One(Used(f))
  BY <1>1, <1>4, <1>5, <1>6, FollowsAt
<1>8. EnsureVisited(t, f)
  BY <1>3 DEF VisitField
<1>9. UNCHANGED Rest /\ UNCHANGED Table /\ UNCHANGED <<depth, useDepth>>
  BY DEF VisitField, unitVars, regVars, Rest, Table
<1>10. /\ depth' = depth - One(Deep(Top)) + One(Deep(f))
       /\ useDepth' = useDepth - One(Used(Top)) + One(Used(f))
  BY <1>7, <1>9
<1>11. Calls' /\ ret' = ret
  BY <1>1, <1>4, <1>7, <1>8, <1>9, <1>10, StepEnsure
<1>12. QED
  BY <1>1, <1>9, <1>11, ValuesKept DEF TypeInv, Rest, Values

\* The steps of an analysis that only go on.
LEMMA TypeAfterBody ==
    ASSUME TypeInv, Top.k = "visit", ctl # <<>>, Continue(At("body")), UNCHANGED Rest,
           UNCHANGED regVars, UNCHANGED useDepth
    PROVE  TypeInv'
<1>1. Calls /\ Values
  BY DEF TypeInv
<1>2. Top \in FrameSet /\ Fits(Top, body)
  BY <1>1, TopFacts
<1>3. PICK f : f = At("body")
  OBVIOUS
<1>4. f \in FrameSet /\ f.k = Top.k /\ f.at = "body" /\ f.key = Top.key /\ f.path = Top.path
  BY <1>2, <1>3, FrameAt DEF At, Places
<1>5. Fits(f, body)
  BY <1>1, <1>2, <1>4 DEF Fits
<1>6. One(Deep(f)) = One(Deep(Top)) /\ One(Used(f)) = One(Used(Top))
  BY <1>1, <1>4 DEF Deep, Used, One
<1>7. UNCHANGED Table /\ UNCHANGED <<depth, useDepth>> /\ Continue(f)
  BY <1>3 DEF regVars, Rest, Table
<1>8. Calls' /\ ret' = ret
  BY <1>1, <1>4, <1>5, <1>6, <1>7, StepAt
<1>9. QED
  BY <1>1, <1>8, ValuesKept DEF TypeInv, Rest, Values

LEMMA TypeAfterCompleteStruct ==
    ASSUME TypeInv, CompleteStruct
    PROVE  TypeInv'
<1>1. /\ Top.k = "visit" /\ ctl # <<>> /\ Continue(At("body")) /\ UNCHANGED Rest
      /\ UNCHANGED regVars /\ UNCHANGED useDepth
  BY DEF CompleteStruct, In, unitVars, regVars, Rest
<1>2. QED
  BY <1>1, TypeAfterBody

LEMMA TypeAfterDeclareFunction ==
    ASSUME TypeInv, DeclareFunction
    PROVE  TypeInv'
<1>1. /\ Top.k = "visit" /\ ctl # <<>> /\ Continue(At("body")) /\ UNCHANGED Rest
      /\ UNCHANGED regVars /\ UNCHANGED useDepth
  BY DEF DeclareFunction, In, unitVars, regVars, Rest
<1>2. QED
  BY <1>1, TypeAfterBody

\* The next item of a copy that is analysed.
LEMMA NextFacts ==
    ASSUME Calls, ctl # <<>>, Top.k = "visit", Top.at = "body", NEW f, f = NextItem
    PROVE  /\ f \in FrameSet /\ Fits(f, body) /\ f.k = Top.k /\ f.at = "body" /\ f.key = Top.key
           /\ One(Deep(f)) = One(Deep(Top)) /\ One(Used(f)) = One(Used(Top))
           /\ Follows(f) /\ depth = depth - One(Deep(Top)) + One(Deep(f))
           /\ useDepth = useDepth - One(Used(Top)) + One(Used(f))
<1>1. /\ Top \in FrameSet /\ Fits(Top, body)
  BY TopFacts
<1>2. f \in FrameSet /\ f.k = Top.k /\ f.at = "body" /\ f.key = Top.key /\ f.path = Top.path
  <2>1. PICK s : s = Top
    OBVIOUS
  <2>2. s \in FrameSet /\ f = [s EXCEPT !.i = s.i + 1]
    BY <1>1, <2>1 DEF NextItem
  <2>3. f \in FrameSet /\ f.k = s.k /\ f.at = s.at /\ f.key = s.key /\ f.path = s.path
    BY <2>2, FrameNext
  <2>4. QED
    BY <2>1, <2>3
<1>3. Fits(f, body)
  BY <1>1, <1>2 DEF Fits
<1>4. One(Deep(f)) = One(Deep(Top)) /\ One(Used(f)) = One(Used(Top))
  BY <1>2 DEF Deep, Used, One
<1>5. /\ Follows(f) /\ depth = depth - One(Deep(Top)) + One(Deep(f))
      /\ useDepth = useDepth - One(Used(Top)) + One(Used(f))
  BY <1>2, <1>3, <1>4, FollowsAt
<1>6. QED
  BY <1>2, <1>3, <1>4, <1>5

LEMMA TypeAfterVisitLocal ==
    ASSUME TypeInv, VisitLocal
    PROVE  TypeInv'
<1>1. /\ Calls /\ Values /\ ctl # <<>> /\ Top.k = "visit" /\ Top.at = "body"
  BY DEF TypeInv, VisitLocal, In
<1>2. PICK f : f = NextItem
  OBVIOUS
<1>3. /\ f \in FrameSet /\ Fits(f, body) /\ f.k = Top.k /\ f.at = "body" /\ f.key = Top.key
      /\ One(Deep(f)) = One(Deep(Top)) /\ One(Used(f)) = One(Used(Top))
  BY <1>1, <1>2, NextFacts
<1>4. /\ UNCHANGED Rest /\ UNCHANGED Table /\ UNCHANGED <<depth, useDepth>> /\ Continue(f)
  BY <1>2 DEF VisitLocal, unitVars, regVars, semaVars, Rest, Table
<1>5. Calls' /\ ret' = ret
  BY <1>1, <1>3, <1>4, StepAt
<1>6. QED
  BY <1>1, <1>4, <1>5, ValuesKept DEF TypeInv, Rest, Values

LEMMA TypeAfterVisitCall ==
    ASSUME TypeInv, VisitCall
    PROVE  TypeInv'
<1>1. /\ Calls /\ Values /\ ctl # <<>> /\ Top.k = "visit" /\ Top.at = "body"
      /\ Top.i <= Len(Copy) /\ Copy[Top.i].k = "call"
  BY DEF TypeInv, VisitCall, In, ItemIs
<1>2. PICK f, key, g : f = NextItem /\ key = Copy[Top.i].key /\ g = Call(key)
  OBVIOUS
<1>3. f.k = "visit" /\ f.at = "body" /\ Follows(f)
  BY <1>1, <1>2, NextFacts
<1>4. /\ depth = depth - One(Deep(Top)) + One(Deep(f))
      /\ useDepth = useDepth - One(Used(Top)) + One(Used(f))
  BY <1>1, <1>2, NextFacts
<1>5. key \in Calling
  <2>1. Top.key \in DOMAIN decl /\ Top.i \in Nat \ {0}
    BY <1>1, TopFacts
  <2>2. Copy \in Seq(Copies)
    BY <1>1, <2>1 DEF Values, Copy
  <2>3. Copy[Top.i] \in Copies
    BY <1>1, <2>1, <2>2
  <2>4. QED
    BY <1>1, <1>2, <2>3 DEF Copies
<1>6. Fresh(g, f)
  <2>1. g = Frame("call", <<>>, Plain, key)
    BY <1>2 DEF Call
  <2>2. key \in Instances /\ TemplateOf(key) \in Functions
    BY <1>5 DEF Calling
  <2>3. g \in FrameSet /\ Fits(g, body) /\ g.at = "enter" /\ g.k = "call"
    BY <2>1, <2>2, InstanceFrame
  <2>4. QED
    BY <1>3, <2>3 DEF Fresh, Above
<1>7. /\ UNCHANGED Rest /\ UNCHANGED Table /\ UNCHANGED <<depth, useDepth>> /\ Enter(f, g)
  BY <1>2 DEF VisitCall, unitVars, regVars, semaVars, Rest, Table
<1>8. /\ depth' = depth - One(Deep(Top)) + One(Deep(f))
      /\ useDepth' = useDepth - One(Used(Top)) + One(Used(f))
  BY <1>4, <1>7
<1>9. Calls' /\ ret' = ret
  BY <1>1, <1>3, <1>6, <1>7, <1>8, StepEnter
<1>10. QED
  BY <1>1, <1>7, <1>9, ValuesKept DEF TypeInv, Rest, Values

LEMMA TypeAfterVisitEnd ==
    ASSUME TypeInv, VisitEnd
    PROVE  TypeInv'
<1>1. /\ Calls /\ Values /\ ctl # <<>> /\ Top.k = "visit"
  BY DEF TypeInv, VisitEnd, In
<1>2. /\ UNCHANGED Rest /\ UNCHANGED Table /\ UNCHANGED <<depth, useDepth>>
  BY DEF VisitEnd, unitVars, regVars, semaVars, Rest, Table
<1>3. PICK t : t = ret
  OBVIOUS
<1>4. Return(t)
  BY <1>3 DEF VisitEnd
<1>5. Top.k # "clone" /\ ~Deep(Top) /\ One(Used(Top)) = 0 /\ useDepth \in Nat
  BY <1>1 DEF Deep, Used, One, Calls, Recursion
<1>6. useDepth' = useDepth - One(Used(Top))
  BY <1>2, <1>5
<1>7. Calls' /\ ret' = t
  BY <1>1, <1>2, <1>4, <1>5, <1>6, StepReturn
<1>8. QED
  BY <1>1, <1>2, <1>3, <1>7, ValuesKept DEF TypeInv, Rest, Values

LEMMA TypeAfterCallEnter ==
    ASSUME TypeInv, CallEnter
    PROVE  TypeInv'
<1>1. /\ Calls /\ Values /\ ctl # <<>> /\ Top.k = "call" /\ Top.at = "enter"
  BY DEF TypeInv, CallEnter, In
<1>2. Top \in FrameSet /\ Fits(Top, body) /\ Top.key \in Instances
  BY <1>1, TopFacts DEF Fits
<1>3. PICK key, f, h : key = Top.key /\ f = At("made") /\ h = At("refused")
  OBVIOUS
<1>4. /\ h \in FrameSet /\ h.k = Top.k /\ h.at = "refused" /\ h.key = Top.key
      /\ f \in FrameSet /\ f.k = Top.k /\ f.at = "made" /\ f.key = Top.key
  BY <1>2, <1>3, FrameAt DEF At, Places
<1>5. Wanted(f) = key
  BY <1>1, <1>3, <1>4 DEF Wanted
<1>6. Fits(h, body) /\ Fits(f, body)
  BY <1>1, <1>2, <1>3, <1>4, <1>5 DEF Fits
<1>7. /\ One(Deep(Top)) = 0 /\ One(Used(Top)) = 0 /\ One(Deep(h)) = 0 /\ One(Used(h)) = 0
      /\ One(Deep(f)) = 0 /\ One(Used(f)) = 0 /\ (Used(f) <=> Used(h))
  BY <1>1, <1>4 DEF Deep, Used, One
<1>8. Follows(h) /\ Follows(f)
  BY <1>1, <1>4, <1>6, <1>7, FollowsAt
<1>9. depth \in Nat /\ useDepth \in Nat
  BY <1>1 DEF Calls, Recursion
<1>10. UNCHANGED <<useDepth, body, registered, aliasCache, emitted>>
  BY DEF CallEnter, unitVars, semaVars
<1>11. CASE TemplateOf(Top.key) \in registered
  <2>1. PICK d : d = depth
    OBVIOUS
  <2>2. Instantiate(key, d, f, h)
    BY <1>3, <1>11, <2>1 DEF CallEnter
  <2>3. d = depth - One(Deep(Top)) /\ useDepth' = useDepth - One(Used(Top)) + One(Used(f))
    BY <1>7, <1>9, <1>10, <2>1
  <2>4. key \in Instances /\ body \in Programs
    BY <1>1, <1>2, <1>3 DEF Values
  <2>5. Calls' /\ ret' = ret /\ decl' = decl /\ pending' = pending
    BY <1>1, <1>4, <1>5, <1>7, <1>8, <1>10, <2>2, <2>3, <2>4, StepInstantiate
  <2>6. Values'
    BY <1>1, <1>10, <2>5, ValuesKept DEF Values
  <2>7. QED
    BY <2>5, <2>6 DEF TypeInv
<1>12. CASE TemplateOf(Top.key) \notin registered
  <2>1. Continue(h) /\ UNCHANGED <<states, decl, pending, depth>>
    BY <1>3, <1>12 DEF CallEnter, regVars
  <2>2. UNCHANGED Table /\ UNCHANGED <<depth, useDepth>>
    BY <1>10, <2>1 DEF Table
  <2>3. Calls' /\ ret' = ret
    BY <1>1, <1>4, <1>6, <1>7, <2>1, <2>2, StepAt
  <2>4. QED
    BY <1>1, <1>10, <2>1, <2>3, ValuesKept DEF TypeInv, Values
<1>13. QED
  BY <1>11, <1>12

LEMMA TypeAfterCallMade ==
    ASSUME TypeInv, CallMade
    PROVE  TypeInv'
<1>1. /\ Calls /\ Values /\ ctl # <<>> /\ Top.k = "call" /\ Top.at = "made"
  BY DEF TypeInv, CallMade, In
<1>2. Top \in FrameSet /\ Fits(Top, body) /\ Top.key \in DOMAIN decl
  BY <1>1, TopFacts DEF Wanted
<1>3. PICK key, f : key = Top.key /\ f = At("out")
  OBVIOUS
<1>4. f \in FrameSet /\ f.k = Top.k /\ f.at = "out" /\ f.key = Top.key
  BY <1>2, <1>3, FrameAt DEF At, Places
<1>5. Fits(f, body)
  BY <1>1, <1>2, <1>4 DEF Fits
<1>6. One(Deep(f)) = One(Deep(Top)) /\ One(Used(f)) = One(Used(Top))
  BY <1>1, <1>4 DEF Deep, Used, One
<1>7. /\ Follows(f) /\ depth = depth - One(Deep(Top)) + One(Deep(f))
      /\ useDepth = useDepth - One(Used(Top)) + One(Used(f))
  BY <1>1, <1>4, <1>5, <1>6, FollowsAt
<1>8. UNCHANGED Rest /\ UNCHANGED Table /\ UNCHANGED <<depth, useDepth>>
  BY DEF CallMade, unitVars, regVars, Rest, Table
<1>9. /\ depth' = depth - One(Deep(Top)) + One(Deep(f))
      /\ useDepth' = useDepth - One(Used(Top)) + One(Used(f))
  BY <1>7, <1>8
<1>10. Continue(f) \/ StartVisit(f, key)
  BY <1>3 DEF CallMade
<1>11. Calls' /\ ret' = ret
  <2>1. CASE Continue(f)
    BY <1>1, <1>4, <1>5, <1>6, <1>8, <2>1, StepAt
  <2>2. CASE StartVisit(f, key)
    <3>1. key \in DOMAIN decl
      BY <1>2, <1>3
    <3>2. QED
      BY <1>1, <1>4, <1>7, <1>8, <1>9, <2>2, <3>1, StepVisit
  <2>3. QED
    BY <1>10, <2>1, <2>2
<1>12. QED
  BY <1>1, <1>8, <1>11, ValuesKept DEF TypeInv, Rest, Values

LEMMA TypeAfterCallEnd ==
    ASSUME TypeInv, CallEnd
    PROVE  TypeInv'
<1>1. /\ Calls /\ Values /\ ctl # <<>> /\ Top.k = "call"
  BY DEF TypeInv, CallEnd, In
<1>2. /\ UNCHANGED Rest /\ UNCHANGED Table /\ UNCHANGED <<depth, useDepth>>
  BY DEF CallEnd, unitVars, regVars, Rest, Table
<1>3. PICK t : t = Plain
  OBVIOUS
<1>4. Return(t) /\ t \in Types
  BY <1>3, PlainTypes DEF CallEnd
<1>5. Top.k # "clone" /\ ~Deep(Top) /\ One(Used(Top)) = 0 /\ useDepth \in Nat
  BY <1>1 DEF Deep, Used, One, Calls, Recursion
<1>6. useDepth' = useDepth - One(Used(Top))
  BY <1>2, <1>5
<1>7. Calls' /\ ret' = t
  BY <1>1, <1>2, <1>4, <1>5, <1>6, StepReturn
<1>8. QED
  BY <1>1, <1>2, <1>4, <1>7, ValuesKept DEF TypeInv, Rest

LEMMA TypeAfterUseEnter ==
    ASSUME TypeInv, UseEnter
    PROVE  TypeInv'
<1>1. /\ Calls /\ Values /\ ctl # <<>> /\ Top.k = "use" /\ Top.at = "enter" /\ ret \in Types
  BY DEF TypeInv, UseEnter, In, Values
<1>2. /\ Top \in FrameSet /\ Fits(Top, body) /\ Top.path \in Paths
  BY <1>1, TopFacts
<1>3. PICK arg, leaf, f, g : /\ arg = Tail(Named(Top.path)) /\ leaf = Plain /\ f = At("args")
                             /\ g = Use(arg)
  OBVIOUS
<1>4. arg \in Paths /\ leaf \in Types
  BY <1>1, <1>2, <1>3, ArgFacts, PlainTypes
<1>5. /\ f \in FrameSet /\ f.k = Top.k /\ f.at = "args" /\ f.key = Top.key /\ f.path = Top.path
  BY <1>2, <1>3, FrameAt DEF At, Places
<1>6. Fits(f, body)
  BY <1>1, <1>2, <1>5 DEF Fits
<1>7. /\ One(Deep(Top)) = 0 /\ One(Used(Top)) = 0 /\ One(Deep(f)) = 0 /\ One(Used(f)) = 1
      /\ ~Deep(Top)
  BY <1>1, <1>5 DEF Deep, Used, One
<1>8. UNCHANGED Rest /\ UNCHANGED depth /\ UNCHANGED Table
  BY DEF UseEnter, unitVars, regVars, Rest, Table
<1>9. depth \in Nat /\ useDepth \in Nat /\ depth <= MaxDepth
  BY <1>1 DEF Calls, Recursion
<1>10. Calls' /\ ret' \in Types
  <2>1. CASE useDepth >= MaxUseDepth
    <3>1. PICK t, u : t = Null /\ u = Outer(Top.path) \o t
      OBVIOUS
    <3>2. u \in Types
      BY <1>1, <3>1, PlainTypes, OuterType
    <3>3. Return(u) /\ useDepth' = useDepth
      BY <2>1, <3>1 DEF UseEnter
    <3>4. useDepth' = useDepth - One(Used(Top))
      BY <1>7, <1>9, <3>3
    <3>5. Calls' /\ ret' = u
      BY <1>1, <1>7, <1>8, <3>3, <3>4, StepReturn
    <3>6. QED
      BY <3>2, <3>5
  <2>2. CASE ~(useDepth >= MaxUseDepth)
    <3>1. useDepth' = useDepth + 1 /\ Evaluate(f, arg, leaf, g)
      BY <1>3, <2>2 DEF UseEnter
    <3>2. useDepth + 1 <= MaxUseDepth
      BY <1>9, <2>2, TemplatesAssumption
    <3>3. Follows(f)
      BY <1>1, <1>5, <1>6, <1>7, <1>9, <3>2 DEF Follows
    <3>4. /\ depth' = depth - One(Deep(Top)) + One(Deep(f))
          /\ useDepth' = useDepth - One(Used(Top)) + One(Used(f))
      BY <1>7, <1>8, <1>9, <3>1
    <3>5. Named(arg) # <<>> => Fresh(g, f)
      <4>1. Named(arg) # <<>> => g \in FrameSet /\ Fits(g, body) /\ g.at = "enter" /\ g.k = "use"
        BY <1>3, <1>4, EvaluateFrame DEF Use
      <4>2. QED
        BY <1>1, <1>5, <4>1 DEF Fresh, Above
    <3>6. QED
      BY <1>1, <1>4, <1>5, <1>8, <3>1, <3>3, <3>4, <3>5, StepEvaluate
  <2>3. QED
    BY <2>1, <2>2
<1>11. QED
  BY <1>1, <1>8, <1>10, ValuesKept DEF TypeInv, Rest

\* A place with the type that has been found.
LEMMA ResultFacts ==
    ASSUME Calls, ctl # <<>>, NEW at \in Places, NEW t \in Types, NEW f, f = Result(at, t)
    PROVE  /\ f \in FrameSet /\ f.k = Top.k /\ f.at = at /\ f.key = Top.key /\ f.path = Top.path
           /\ f.leaf = t
<1>1. PICK e : e = At(at)
  OBVIOUS
<1>2. /\ e \in FrameSet /\ e.k = Top.k /\ e.at = at /\ e.key = Top.key /\ e.path = Top.path
  BY <1>1, TopFacts, FrameAt DEF At
<1>3. f = [e EXCEPT !.leaf = t]
  BY <1>1 DEF Result
<1>4. /\ f \in FrameSet /\ f.k = e.k /\ f.at = e.at /\ f.key = e.key /\ f.path = e.path
      /\ f.leaf = t
  BY <1>2, <1>3, FrameLeaf
<1>5. QED
  BY <1>2, <1>4

LEMMA TypeAfterUseAlias ==
    ASSUME TypeInv, UseAlias
    PROVE  TypeInv'
<1>1. /\ Calls /\ Values /\ ctl # <<>> /\ Top.k = "use" /\ Top.at = "args" /\ ret \in Types
  BY DEF TypeInv, UseAlias, In, Values
<1>2. /\ Top \in FrameSet /\ Fits(Top, body)
  BY <1>1, TopFacts
<1>3. PICK name, key, item, leaf, e, f, g, path :
         /\ name = <<Head(Named(Top.path))>> \o ret /\ key = Key(name, 0)
         /\ item = body[Head(name)][1] /\ leaf = LeafOf(item, key) /\ path = item.path
         /\ e = At("alias") /\ f = [e EXCEPT !.key = key] /\ g = Resolve(path, leaf)
  OBVIOUS
<1>4. name \in Types /\ Len(name) >= 2 /\ Head(name) \in Aliases
  <2>1. name \in Types /\ Len(name) >= 2
    BY <1>1, <1>3, NamedType
  <2>2. Head(name) \in registered \cap Aliases
    BY <1>3 DEF UseAlias
  <2>3. QED
    BY <2>1, <2>2
<1>5. UNCHANGED Rest /\ UNCHANGED <<depth, useDepth>> /\ UNCHANGED Table
  BY DEF UseAlias, unitVars, regVars, semaVars, Rest, Table
<1>6. CASE name \in DOMAIN aliasCache
  <2>1. PICK t, h : t = aliasCache[name] /\ h = Result("out", t)
    OBVIOUS
  <2>2. t \in Types
    BY <1>1, <1>6, <2>1 DEF Values
  <2>3. "out" \in Places
    BY DEF Places
  <2>4. /\ h \in FrameSet /\ h.k = Top.k /\ h.at = "out" /\ h.key = Top.key /\ h.path = Top.path
    BY <1>1, <2>1, <2>2, <2>3, ResultFacts
  <2>5. Fits(h, body) /\ One(Deep(h)) = One(Deep(Top)) /\ One(Used(h)) = One(Used(Top))
    BY <1>1, <1>2, <2>4 DEF Fits, Deep, Used, One
  <2>6. Continue(h)
    BY <1>3, <1>6, <2>1 DEF UseAlias
  <2>7. Calls' /\ ret' = ret
    BY <1>1, <1>5, <2>4, <2>5, <2>6, StepAt
  <2>8. QED
    BY <1>1, <1>5, <2>7, ValuesKept DEF TypeInv, Rest
<1>7. CASE name \notin DOMAIN aliasCache
  <2>1. key.name = name /\ key \in Keys
    BY <1>3, <1>4 DEF Key, Keys
  <2>2. path \in Paths /\ leaf \in Types
    <3>1. item \in Items
      BY <1>1, <1>3, <1>4, BodyFacts DEF Values
    <3>2. path \in Paths
      BY <1>3, <3>1, ItemFacts
    <3>3. leaf \in Types
      BY <1>3, <1>4, <2>1, LeafType
    <3>4. QED
      BY <3>2, <3>3
  <2>3. /\ f \in FrameSet /\ f.k = Top.k /\ f.at = "alias" /\ f.path = Top.path
    <3>1. e \in FrameSet /\ e.k = Top.k /\ e.at = "alias" /\ e.path = Top.path
      BY <1>2, <1>3, FrameAt DEF At, Places
    <3>2. QED
      BY <1>3, <2>1, <3>1, FrameKey
  <2>4. Fits(f, body)
    BY <1>1, <1>2, <2>3 DEF Fits
  <2>5. /\ One(Deep(Top)) = 0 /\ One(Used(Top)) = 1 /\ One(Deep(f)) = 0 /\ One(Used(f)) = 1
    <3>1. ~Deep(Top) /\ ~Deep(f) /\ Used(Top) /\ Used(f)
      BY <1>1, <2>3 DEF Deep, Used
    <3>2. QED
      BY <3>1 DEF One
  <2>6. depth \in Nat /\ useDepth \in Nat /\ depth <= MaxDepth /\ useDepth <= MaxUseDepth
    BY <1>1 DEF Calls, Recursion
  <2>7. Follows(f)
    BY <1>1, <2>3, <2>4, <2>5, <2>6 DEF Follows
  <2>8. /\ depth' = depth - One(Deep(Top)) + One(Deep(f))
        /\ useDepth' = useDepth - One(Used(Top)) + One(Used(f))
    BY <1>5, <2>5, <2>6
  <2>9. Named(path) # <<>> => Fresh(g, f)
    <3>1. g = Frame("resolve", path, leaf, Key(Plain, 0))
      BY <1>3 DEF Resolve
    <3>2. Named(path) # <<>> => g \in FrameSet /\ Fits(g, body) /\ g.at = "enter" /\ g.k = "resolve"
      BY <2>2, <3>1, EvaluateFrame
    <3>3. QED
      BY <1>1, <2>3, <3>2 DEF Fresh, Above
  <2>10. Evaluate(f, path, leaf, g)
    BY <1>3, <1>7 DEF UseAlias
  <2>11. Calls' /\ ret' \in Types
    BY <1>1, <1>5, <2>2, <2>3, <2>7, <2>8, <2>9, <2>10, StepEvaluate
  <2>12. QED
    BY <1>1, <1>5, <2>11, ValuesKept DEF TypeInv, Rest
<1>8. QED
  BY <1>6, <1>7

LEMMA TypeAfterUseExpanded ==
    ASSUME TypeInv, UseExpanded
    PROVE  TypeInv'
<1>1. /\ Calls /\ Values /\ ctl # <<>> /\ Top.k = "use" /\ Top.at = "alias" /\ ret \in Types
  BY DEF TypeInv, UseExpanded, In, Values
<1>2. /\ Top \in FrameSet /\ Fits(Top, body)
  BY <1>1, TopFacts
<1>3. PICK t, f : t = ret /\ f = Result("out", t)
  OBVIOUS
<1>4. f \in FrameSet /\ f.k = Top.k /\ f.at = "out" /\ f.key = Top.key /\ f.path = Top.path
  <2>1. "out" \in Places /\ t \in Types
    BY <1>1, <1>3 DEF Places
  <2>2. QED
    BY <1>1, <1>3, <2>1, ResultFacts
<1>5. Fits(f, body) /\ One(Deep(f)) = One(Deep(Top)) /\ One(Used(f)) = One(Used(Top))
  BY <1>1, <1>2, <1>4 DEF Fits, Deep, Used, One
<1>6. /\ Follows(f) /\ depth = depth - One(Deep(Top)) + One(Deep(f))
      /\ useDepth = useDepth - One(Used(Top)) + One(Used(f))
  BY <1>1, <1>4, <1>5, FollowsAt
<1>7. /\ UNCHANGED <<body, registered, decl, pending, emitted, depth, useDepth>>
      /\ UNCHANGED Table
  BY DEF UseExpanded, unitVars, regVars, Table
<1>8. EnsureVisited(t, f)
  BY <1>3 DEF UseExpanded
<1>9. /\ depth' = depth - One(Deep(Top)) + One(Deep(f))
      /\ useDepth' = useDepth - One(Used(Top)) + One(Used(f))
  BY <1>6, <1>7
<1>10. Calls' /\ ret' = ret
  BY <1>1, <1>4, <1>6, <1>7, <1>8, <1>9, StepEnsure
<1>11. Values'
  <2>1. \A n \in DOMAIN aliasCache' : aliasCache'[n] \in Types
    BY <1>1 DEF UseExpanded, Values
  <2>2. QED
    BY <1>1, <1>7, <1>10, <2>1 DEF Values
<1>12. QED
  BY <1>10, <1>11 DEF TypeInv

LEMMA TypeAfterUseClass ==
    ASSUME TypeInv, UseClass
    PROVE  TypeInv'
<1>1. /\ Calls /\ Values /\ ctl # <<>> /\ Top.k = "use" /\ Top.at = "args" /\ ret \in Types
  BY DEF TypeInv, UseClass, In, Values
<1>2. Top \in FrameSet /\ Fits(Top, body)
  BY <1>1, TopFacts
<1>3. PICK name, key, f, h : /\ name = <<Head(Named(Top.path))>> \o ret /\ key = Key(name, 0)
                             /\ f = Result("made", name) /\ h = At("refused")
  OBVIOUS
<1>4. name \in Types /\ Len(name) >= 2
  BY <1>1, <1>3, NamedType
<1>5. /\ h \in FrameSet /\ h.k = Top.k /\ h.at = "refused" /\ h.key = Top.key /\ h.path = Top.path
  BY <1>2, <1>3, FrameAt DEF At, Places
<1>6. Fits(h, body) /\ One(Deep(h)) = One(Deep(Top)) /\ One(Used(h)) = One(Used(Top))
  BY <1>1, <1>2, <1>5 DEF Fits, Deep, Used, One
<1>7. UNCHANGED <<useDepth, body, registered, aliasCache, emitted>>
  BY DEF UseClass, unitVars, semaVars
<1>8. depth \in Nat /\ useDepth \in Nat
  BY <1>1 DEF Calls, Recursion
<1>9. CASE Head(name) \in registered \cap Structs
  <2>1. key \in Instances
    BY <1>3, <1>4, <1>9, CallingFacts
  <2>2. f \in FrameSet /\ f.k = Top.k /\ f.at = "made" /\ f.key = Top.key /\ f.path = Top.path
        /\ f.leaf = name
    <3>1. "made" \in Places
      BY DEF Places
    <3>2. f = Result("made", name) /\ name \in Types
      BY <1>3, <1>4
    <3>3. QED
      BY <1>1, <3>1, <3>2, ResultFacts
  <2>3. Wanted(f) = key
    BY <1>1, <1>3, <2>2 DEF Wanted
  <2>4. Fits(f, body)
    BY <1>1, <1>2, <2>1, <2>2, <2>3 DEF Fits
  <2>5. /\ One(Deep(f)) = One(Deep(Top)) /\ One(Used(f)) = One(Used(Top)) /\ (Used(f) <=> Used(h))
        /\ One(Deep(Top)) = 0
    BY <1>1, <1>5, <2>2 DEF Deep, Used, One
  <2>6. Follows(f) /\ useDepth = useDepth - One(Used(Top)) + One(Used(f))
    BY <1>1, <2>2, <2>4, <2>5, FollowsAt
  <2>7. Follows(h)
    BY <1>1, <1>5, <1>6, FollowsAt
  <2>8. PICK d : d = depth
    OBVIOUS
  <2>9. Instantiate(key, d, f, h)
    BY <1>3, <1>9, <2>8 DEF UseClass
  <2>10. d = depth - One(Deep(Top)) /\ useDepth' = useDepth - One(Used(Top)) + One(Used(f))
    BY <1>7, <1>8, <2>5, <2>6, <2>8
  <2>11. Calls' /\ ret' = ret /\ decl' = decl /\ pending' = pending
    BY <1>1, <1>5, <1>7, <2>1, <2>2, <2>3, <2>5, <2>6, <2>7, <2>9, <2>10, StepInstantiate DEF Values
  <2>12. Values'
    BY <1>1, <1>7, <2>11, ValuesKept
  <2>13. QED
    BY <2>11, <2>12 DEF TypeInv
<1>10. CASE Head(name) \notin registered \cap Structs
  <2>1. Continue(h) /\ UNCHANGED <<states, decl, pending, depth>>
    BY <1>3, <1>10 DEF UseClass, regVars
  <2>2. UNCHANGED Table /\ UNCHANGED <<depth, useDepth>>
    BY <1>7, <2>1 DEF Table
  <2>3. Calls' /\ ret' = ret
    BY <1>1, <1>5, <1>6, <2>1, <2>2, StepAt
  <2>4. QED
    BY <1>1, <1>7, <2>1, <2>3, ValuesKept DEF TypeInv
<1>11. QED
  BY <1>9, <1>10

LEMMA TypeAfterUseMade ==
    ASSUME TypeInv, UseMade
    PROVE  TypeInv'
<1>1. /\ Calls /\ Values /\ ctl # <<>> /\ Top.k = "use" /\ Top.at = "made"
  BY DEF TypeInv, UseMade, In
<1>2. PICK key, f : key = Key(Top.leaf, 0) /\ f = At("out")
  OBVIOUS
<1>3. Top \in FrameSet /\ Fits(Top, body) /\ key \in DOMAIN decl
  BY <1>1, <1>2, TopFacts DEF Wanted
<1>4. f \in FrameSet /\ f.k = Top.k /\ f.at = "out" /\ f.key = Top.key /\ f.path = Top.path
  BY <1>2, <1>3, FrameAt DEF At, Places
<1>5. Fits(f, body) /\ One(Deep(f)) = One(Deep(Top)) /\ One(Used(f)) = One(Used(Top))
  BY <1>1, <1>3, <1>4 DEF Fits, Deep, Used, One
<1>6. /\ Follows(f) /\ depth = depth - One(Deep(Top)) + One(Deep(f))
      /\ useDepth = useDepth - One(Used(Top)) + One(Used(f))
  BY <1>1, <1>4, <1>5, FollowsAt
<1>7. UNCHANGED Rest /\ UNCHANGED Table /\ UNCHANGED <<depth, useDepth>>
  BY DEF UseMade, unitVars, regVars, Rest, Table
<1>8. /\ depth' = depth - One(Deep(Top)) + One(Deep(f))
      /\ useDepth' = useDepth - One(Used(Top)) + One(Used(f))
  BY <1>6, <1>7
<1>9. Continue(f) \/ StartVisit(f, key)
  BY <1>2 DEF UseMade
<1>10. Calls' /\ ret' = ret
  <2>1. CASE Continue(f)
    BY <1>1, <1>4, <1>5, <1>7, <2>1, StepAt
  <2>2. CASE StartVisit(f, key)
    BY <1>1, <1>3, <1>4, <1>6, <1>7, <1>8, <2>2, StepVisit
  <2>3. QED
    BY <1>9, <2>1, <2>2
<1>11. QED
  BY <1>1, <1>7, <1>10, ValuesKept DEF TypeInv, Rest, Values

LEMMA TypeAfterUseEnd ==
    ASSUME TypeInv, UseEnd
    PROVE  TypeInv'
<1>1. /\ Calls /\ Values /\ ctl # <<>> /\ Top.k = "use" /\ Top.at \in {"out", "refused"}
  BY DEF TypeInv, UseEnd, In
<1>2. UNCHANGED Rest /\ UNCHANGED depth /\ UNCHANGED Table
  BY DEF UseEnd, unitVars, regVars, Rest, Table
<1>3. PICK t \in Types : Return(Outer(Top.path) \o t)
  <2>1. Top.leaf \in Types /\ Null \in Types
    BY <1>1, TopFacts, PlainTypes
  <2>2. QED
    BY <2>1 DEF UseEnd
<1>4. PICK u : u = Outer(Top.path) \o t
  OBVIOUS
<1>5. u \in Types /\ Return(u)
  BY <1>1, <1>3, <1>4, OuterType
<1>6. ~Deep(Top) /\ One(Used(Top)) = 1
  BY <1>1 DEF Deep, Used, One
<1>7. useDepth' = useDepth - One(Used(Top))
  BY <1>6 DEF UseEnd
<1>8. Calls' /\ ret' = u
  BY <1>1, <1>2, <1>5, <1>6, <1>7, StepReturn
<1>9. QED
  BY <1>1, <1>2, <1>5, <1>8, ValuesKept DEF TypeInv, Rest

\* A call from outside of templates, or the analysis of an instance of the queue.
LEMMA StepBegin ==
    ASSUME Calls, ctl = <<>>, NEW g \in FrameSet, Fits(g, body), g.at = "enter",
           g.k \in {"use", "call", "visit"}, g.k = "visit" => g.key \in DOMAIN decl,
           ctl' = <<g>>, UNCHANGED <<depth, useDepth>>, UNCHANGED Table
    PROVE  Calls'
<1>1. PICK b, c, s, dl, n, u, d : /\ b = body /\ c = ctl /\ s = states /\ dl = decl /\ n = depth
                                  /\ u = useDepth /\ d = ctl'
  OBVIOUS
<1>2. Recursion(c, b, s, dl, n, u) /\ c = <<>> /\ d = Append(c, g)
  BY <1>1 DEF Calls
<1>3. Fits(g, b) /\ g.k # "clone" /\ (g.k = "visit" => g.key \in DOMAIN dl)
  BY <1>1
<1>4. Recursion(d, b, s, dl, n, u) /\ Ready(d, dl)
  BY <1>2, <1>3, RecursionPush
<1>5. QED
  BY <1>1, <1>4 DEF Calls, Table

LEMMA TypeAfterUseType ==
    ASSUME TypeInv, NEW path \in UsePaths, NEW ns, UseType(path, ns)
    PROVE  TypeInv'
<1>1. /\ Calls /\ Values /\ ctl = <<>>
  BY DEF TypeInv, UseType, AnalyseCode
<1>2. PICK g, leaf : leaf = Plain /\ g = Use(path)
  OBVIOUS
<1>3. path \in Paths /\ leaf \in Types /\ Named(path) # <<>>
  <2>1. path \in Paths /\ \E i \in DOMAIN path : path[i] # "*"
    BY TemplatesAssumption
  <2>2. PICK n : n = Named(path)
    OBVIOUS
  <2>3. n # <<>>
    BY <2>1, <2>2, PathFacts
  <2>4. QED
    BY <1>2, <2>1, <2>2, <2>3, PlainTypes
<1>4. g \in FrameSet /\ Fits(g, body) /\ g.at = "enter" /\ g.k = "use"
  BY <1>2, <1>3, EvaluateFrame DEF Use
<1>5. UNCHANGED Rest /\ UNCHANGED Table /\ UNCHANGED <<depth, useDepth>> /\ ret' = ret
  BY DEF UseType, AnalyseCode, regVars, semaVars, Rest, Table
<1>6. ctl' = <<g>>
  BY <1>2 DEF UseType
<1>7. Calls'
  BY <1>1, <1>4, <1>5, <1>6, StepBegin
<1>8. QED
  BY <1>1, <1>5, <1>7, ValuesKept DEF TypeInv, Rest, Values

LEMMA TypeAfterCallFunction ==
    ASSUME TypeInv, NEW f \in Functions, NEW v \in {1, 2}, NEW ns, CallFunction(f, v, ns)
    PROVE  TypeInv'
<1>1. /\ Calls /\ Values /\ ctl = <<>>
  BY DEF TypeInv, CallFunction, AnalyseCode
<1>2. PICK name, key, g : name = <<f>> \o Plain /\ key = Key(name, v) /\ g = Call(key)
  OBVIOUS
<1>3. name \in Types /\ Len(name) >= 2 /\ Head(name) = f
  <2>1. f \in Letters /\ Plain \in Types
    BY PlainTypes DEF Letters, Templates
  <2>2. PICK t : t = Plain
    OBVIOUS
  <2>3. QED
    BY <1>2, <2>1, <2>2, TypeCons
<1>4. key \in Calling
  BY <1>2, <1>3, CallingFacts
<1>5. key \in Instances /\ TemplateOf(key) \in Functions /\ g = Frame("call", <<>>, Plain, key)
  BY <1>2, <1>4 DEF Calling, Call
<1>6. g \in FrameSet /\ Fits(g, body) /\ g.at = "enter" /\ g.k = "call"
  BY <1>5, InstanceFrame
<1>7. UNCHANGED Rest /\ UNCHANGED Table /\ UNCHANGED <<depth, useDepth>> /\ ret' = ret
  BY DEF CallFunction, AnalyseCode, regVars, semaVars, Rest, Table
<1>8. ctl' = <<g>>
  BY <1>2 DEF CallFunction
<1>9. Calls'
  BY <1>1, <1>6, <1>7, <1>8, StepBegin
<1>10. QED
  BY <1>1, <1>7, <1>9, ValuesKept DEF TypeInv, Rest, Values

LEMMA TypeAfterDrainNext ==
    ASSUME TypeInv, DrainNext
    PROVE  TypeInv'
<1>1. /\ Calls /\ Values /\ ctl = <<>> /\ pending # <<>>
  BY DEF TypeInv, DrainNext
<1>2. PICK p, q, e, e2, key, g : /\ p = pending /\ q = pending' /\ e = emitted /\ e2 = emitted'
                                 /\ key = Head(pending) /\ g = Visit(key)
  OBVIOUS
<1>3. /\ p \in Seq(Instances) /\ p # <<>> /\ q = Tail(p) /\ key = Head(p)
      /\ e \in Seq(Instances) /\ e2 = Append(e, key) /\ ToSet(p) \cup ToSet(e) = DOMAIN decl
  BY <1>1, <1>2 DEF DrainNext, Values
<1>4. /\ key = p[1] /\ Len(p) \in Nat \ {0} /\ DOMAIN p = 1..Len(p) /\ q \in Seq(Instances)
      /\ DOMAIN q = 1..(Len(p) - 1) /\ \A i \in 1..(Len(p) - 1) : q[i] = p[i + 1]
  BY <1>3
<1>5. ToSet(p) = ToSet(q) \cup {key} /\ key \in Instances
  <2>1. \A i \in 1..Len(p) : i = 1 \/ (i - 1 \in 1..(Len(p) - 1) /\ i - 1 + 1 = i)
    BY <1>4
  <2>2. \A i \in 1..(Len(p) - 1) : i + 1 \in 1..Len(p)
    BY <1>4
  <2>3. ToSet(p) \subseteq ToSet(q) \cup {key}
    <3>1. ASSUME NEW i \in 1..Len(p) PROVE p[i] \in ToSet(q) \cup {key}
      <4>1. CASE i = 1
        BY <1>4, <4>1
      <4>2. CASE i # 1
        <5>1. PICK j : j = i - 1 /\ j \in DOMAIN q /\ j + 1 = i
          BY <1>4, <2>1, <4>2
        <5>2. q[j] = p[i]
          BY <1>4, <5>1
        <5>3. QED
          BY <5>1, <5>2 DEF ToSet
      <4>3. QED
        BY <4>1, <4>2
    <3>2. QED
      BY <1>4, <3>1 DEF ToSet
  <2>4. ToSet(q) \cup {key} \subseteq ToSet(p)
    BY <1>4, <2>2 DEF ToSet
  <2>5. QED
    BY <1>3, <2>3, <2>4
<1>6. e2 \in Seq(Instances) /\ ToSet(e2) = ToSet(e) \cup {key}
  <2>1. /\ e2 \in Seq(Instances) /\ Len(e) \in Nat /\ DOMAIN e = 1..Len(e)
        /\ DOMAIN e2 = 1..(Len(e) + 1) /\ e2[Len(e) + 1] = key
        /\ \A i \in 1..Len(e) : e2[i] = e[i]
    BY <1>3, <1>5
  <2>2. QED
    BY <2>1 DEF ToSet
<1>7. key \in DOMAIN decl /\ ToSet(q) \cup ToSet(e2) = DOMAIN decl
  BY <1>3, <1>5, <1>6
<1>8. UNCHANGED <<body, registered, decl, aliasCache, depth, useDepth, ret>> /\ UNCHANGED Table
  BY DEF DrainNext, Table
<1>9. Values'
  <2>1. ToSet(pending') \cup ToSet(emitted') = DOMAIN decl
    BY <1>2, <1>7
  <2>2. pending' \in Seq(Instances) /\ emitted' \in Seq(Instances)
    BY <1>2, <1>4, <1>6
  <2>3. QED
    BY <1>1, <1>8, <2>1, <2>2 DEF Values
<1>10. Calls'
  <2>1. CASE ctl' = ctl
    BY <1>1, <1>8, <2>1 DEF Calls, Table, Ready
  <2>2. CASE ctl' = <<g>>
    <3>1. g = Frame("visit", <<>>, Plain, key)
      BY <1>2 DEF Visit
    <3>2. g \in FrameSet /\ Fits(g, body) /\ g.at = "enter" /\ g.k = "visit" /\ g.key = key
      BY <1>5, <3>1, InstanceFrame
    <3>3. QED
      BY <1>1, <1>7, <1>8, <2>2, <3>2, StepBegin
  <2>3. QED
    BY <1>2, <2>1, <2>2 DEF DrainNext
<1>11. QED
  BY <1>9, <1>10 DEF TypeInv

\* The other steps of the unit.
LEMMA TypeAfterUnit ==
    ASSUME TypeInv, RegisterTemplate \/ EndOfUnit \/ EndOfDrain \/ UNCHANGED vars
    PROVE  TypeInv'
<1>1. UNCHANGED <<body, ctl, ret, states, decl, depth, useDepth, aliasCache, pending, emitted>>
  BY DEF RegisterTemplate, EndOfUnit, EndOfDrain, vars, unitVars, regVars, semaVars
<1>2. registered' \in SUBSET Templates
  <2>1. TextOrder \in Seq(Templates)
    BY TemplatesAssumption
  <2>2. \A i \in DOMAIN TextOrder : TextOrder[i] \in Templates
    BY <2>1
  <2>3. QED
    BY <2>2 DEF RegisterTemplate, EndOfUnit, EndOfDrain, vars, unitVars, TypeInv, Values
<1>3. QED
  BY <1>1, <1>2 DEF TypeInv, Values, Calls, Ready

-------------------------------------------------------------------------------
(* Type correctness.                                                        *)

LEMMA TypeAtStart == Init => TypeInv
<1>1. PICK c, b, s, d : c = <<>> /\ b = body /\ s = <<>> /\ d = <<>>
  OBVIOUS
<1>2. c \in Seq(FrameSet) /\ DOMAIN c = {} /\ s \in Seq(Instances) /\ DOMAIN s = {} /\ d = s
  BY <1>1
<1>3. Stack(c, b) /\ Registry(c, s, d) /\ Ready(c, d)
  BY <1>1, <1>2 DEF Stack, Registry, Ready
<1>4. Counted(c, DeepKinds) = 0 /\ Counted(c, UsedKinds) = 0
  <2>1. Positions(c, DeepKinds) = {} /\ Positions(c, UsedKinds) = {}
    BY <1>2 DEF Positions
  <2>2. QED
    BY <2>1, FS_EmptySet DEF Counted
<1>5. Recursion(c, b, s, d, 0, 0)
  BY <1>2, <1>3, <1>4, TemplatesAssumption DEF Recursion
<1>6. Init => Calls
  BY <1>1, <1>3, <1>5 DEF Init, Calls
<1>7. Init => Values
  <2>1. <<>> \in Seq(Instances) /\ ToSet(<<>>) = {}
    BY DEF ToSet
  <2>2. QED
    BY <1>1, <1>2, <2>1, PlainTypes DEF Init, Values
<1>8. QED
  BY <1>6, <1>7 DEF TypeInv

LEMMA TypeAfterStep == TypeInv /\ [Next]_vars => TypeInv'
<1> SUFFICES ASSUME TypeInv, [Next]_vars
             PROVE  TypeInv'
  OBVIOUS
<1>1. ASSUME Analyse PROVE TypeInv'
  BY <1>1, TypeAfterVisitField, TypeAfterCompleteStruct, TypeAfterDeclareFunction,
     TypeAfterVisitLocal, TypeAfterVisitCall, TypeAfterVisitEnd, TypeAfterCallEnter,
     TypeAfterCallMade, TypeAfterCallEnd, TypeAfterUseEnter, TypeAfterUseAlias,
     TypeAfterUseExpanded, TypeAfterUseClass, TypeAfterUseMade, TypeAfterUseEnd DEF Analyse
<1>2. ASSUME Instantiation PROVE TypeInv'
  BY <1>2, TypeAfterCloneItem, TypeAfterCloneNext, TypeAfterCloneEnd, TypeAfterResolveEnter,
     TypeAfterResolveArgs, TypeAfterResolveEnd DEF Instantiation
<1>3. ASSUME Unit PROVE TypeInv'
  BY <1>3, TypeAfterUnit, TypeAfterUseType, TypeAfterCallFunction, TypeAfterDrainNext DEF Unit
<1>4. CASE UNCHANGED vars
  BY <1>4, TypeAfterUnit
<1>5. QED
  BY <1>1, <1>2, <1>3, <1>4 DEF Next

LEMMA TypesAlways == Spec => []TypeInv
<1>1. Init => TypeInv
  BY TypeAtStart
<1>2. TypeInv /\ [Next]_vars => TypeInv'
  BY TypeAfterStep
<1>3. QED
  BY <1>1, <1>2, PTL DEF Spec

\* The counters and states that guard the recursion follow it (TypeOK): m_depth and
\* m_useDepth count the calls in progress that have incremented them, on every way
\* out of these, an instance is Instantiating exactly while its body is copied, and
\* every Done one has a declaration, in the queue or emitted. For any templates,
\* programs and limits.
THEOREM TypeCorrect == Spec => []TypeOK
<1>1. TypeInv => TypeOK
  <2> SUFFICES ASSUME TypeInv
               PROVE  TypeOK
    OBVIOUS
  <2>1. \A i \in DOMAIN ctl : ctl[i].k \in Kinds /\ ctl[i].at \in Places
    <3>1. \A i \in DOMAIN ctl : ctl[i] \in FrameSet
      BY StackFacts DEF TypeInv, Calls, Recursion
    <3>2. QED
      BY <3>1 DEF FrameSet
  <2>2. Positions(ctl, DeepKinds) = {i \in DOMAIN ctl : Deep(ctl[i])}
    BY <2>1 DEF Positions, DeepKinds, Deep
  <2>3. Positions(ctl, UsedKinds) = {i \in DOMAIN ctl : Used(ctl[i])}
    BY <2>1 DEF Positions, UsedKinds, Used
  <2>4. QED
    BY <2>2, <2>3 DEF TypeInv, Values, Calls, Recursion, Registry, Cloning, Counted, TypeOK
<1>2. QED
  BY <1>1, TypesAlways, PTL

-------------------------------------------------------------------------------
(* What is analysed.                                                        *)

Marked(key) == [t |-> key.name, ns |-> FALSE]

AnalysedInv ==
    /\ AnalysedOnce
    /\ analysed \in Seq(Instances)
    /\ \A i \in DOMAIN analysed : analysed[i] \notin scoped => Marked(analysed[i]) \in visited

LEMMA PlainName ==
    ASSUME NEW key, key \notin scoped
    PROVE  NameOf(key) = Marked(key)
<1>1. (key \in scoped) = FALSE
  OBVIOUS
<1>2. QED
  BY <1>1, Zenon DEF NameOf, Marked

\* The analysis of an instance whose name is new.
LEMMA AnalysedStart ==
    ASSUME AnalysedInv, NEW key \in Instances, key \notin scoped => Marked(key) \notin visited,
           analysed' = Append(analysed, key), visited' = visited \cup {NameOf(key)},
           scoped' = scoped
    PROVE  AnalysedInv'
<1>1. PICK n \in Nat : n = Len(analysed)
  BY DEF AnalysedInv
<1>2. /\ DOMAIN analysed = 1..n /\ DOMAIN analysed' = 1..(n + 1) /\ analysed' \in Seq(Instances)
      /\ analysed'[n + 1] = key /\ \A i \in 1..n : analysed'[i] = analysed[i]
  BY <1>1 DEF AnalysedInv
<1>3. key \notin scoped => NameOf(key) = Marked(key)
  BY PlainName
<1>4. \A i \in 1..(n + 1) : i = n + 1 \/ i \in 1..n
  BY <1>1
<1>5. \A i \in 1..n : analysed[i] \notin scoped => Marked(analysed[i]) \in visited
  BY <1>2 DEF AnalysedInv
<1>6. \A i \in DOMAIN analysed' : analysed'[i] \notin scoped' => Marked(analysed'[i]) \in visited'
  BY <1>2, <1>3, <1>4, <1>5
<1>7. ASSUME NEW i \in DOMAIN analysed', NEW j \in DOMAIN analysed', i < j,
             analysed'[i].name = analysed'[j].name
      PROVE  scoped' \cap {analysed'[i], analysed'[j]} # {}
  <2>1. i \in 1..n
    BY <1>1, <1>2, <1>7
  <2>2. CASE j = n + 1
    <3>1. Marked(analysed[i]) = Marked(key)
      BY <1>2, <1>7, <2>1, <2>2 DEF Marked
    <3>2. analysed[i] \in scoped \/ key \in scoped
      BY <1>5, <2>1, <3>1
    <3>3. QED
      BY <1>2, <2>1, <2>2, <3>2
  <2>3. CASE j \in 1..n
    <3>1. scoped \cap {analysed[i], analysed[j]} # {}
      BY <1>2, <1>7, <2>1, <2>3 DEF AnalysedInv, AnalysedOnce
    <3>2. QED
      BY <1>2, <2>1, <2>3, <3>1
  <2>4. QED
    BY <1>2, <1>4, <2>2, <2>3
<1>8. QED
  BY <1>2, <1>6, <1>7 DEF AnalysedInv, AnalysedOnce

LEMMA AnalysedKept ==
    ASSUME AnalysedInv, analysed' = analysed, visited' = visited, scoped \subseteq scoped'
    PROVE  AnalysedInv'
<1>1. \A i \in DOMAIN analysed : analysed[i] \notin scoped' => Marked(analysed[i]) \in visited
  BY DEF AnalysedInv
<1>2. \A i, j \in DOMAIN analysed : i < j /\ analysed[i].name = analysed[j].name =>
          scoped' \cap {analysed[i], analysed[j]} # {}
  BY DEF AnalysedInv, AnalysedOnce
<1>3. QED
  BY <1>1, <1>2 DEF AnalysedInv, AnalysedOnce

\* Where the analysis of an instance begins, its name is none of the visited ones,
\* or, at a call, not the one that it has outside of namespaces.
LEMMA NewName ==
    ASSUME NEW key, NameOf(key) \notin visited \/ Marked(key) \notin visited
    PROVE  key \notin scoped => Marked(key) \notin visited
BY PlainName

LEMMA AnalysedEnsured ==
    ASSUME AnalysedInv, Calls, NEW t, NEW f, EnsureVisited(t, f), scoped' = scoped
    PROVE  AnalysedInv'
<1>1. PICK key : key = Key(t, 0)
  OBVIOUS
<1>2. CASE analysed' = analysed /\ visited' = visited
  BY <1>2, AnalysedKept
<1>3. CASE key \in DOMAIN decl /\ NameOf(key) \notin visited /\ StartVisit(f, key)
  <2>1. key \in Instances
    BY <1>3, TableFacts
  <2>2. analysed' = Append(analysed, key) /\ visited' = visited \cup {NameOf(key)}
    BY <1>3 DEF StartVisit
  <2>3. key \notin scoped => Marked(key) \notin visited
    BY <1>3, NewName
  <2>4. QED
    BY <2>1, <2>2, <2>3, AnalysedStart
<1>4. QED
  BY <1>1, <1>2, <1>3 DEF EnsureVisited

LEMMA AnalysedAfterStep == TypeInv /\ AnalysedInv /\ [Next]_vars => AnalysedInv'
<1> SUFFICES ASSUME TypeInv, AnalysedInv, [Next]_vars
             PROVE  AnalysedInv'
  OBVIOUS
<1>1. Calls /\ Values
  BY DEF TypeInv
<1>2. CASE VisitField \/ UseExpanded
  <2>1. PICK t, f : EnsureVisited(t, f)
    BY <1>2 DEF VisitField, UseExpanded
  <2>2. scoped' = scoped
    BY <1>2 DEF VisitField, UseExpanded
  <2>3. QED
    BY <1>1, <2>1, <2>2, AnalysedEnsured
<1>3. CASE UseMade
  <2>1. PICK key : key = Key(Top.leaf, 0)
    OBVIOUS
  <2>2. scoped' = scoped
    BY <1>3 DEF UseMade
  <2>3. CASE NameOf(key) \in visited
    BY <1>3, <2>1, <2>2, <2>3, AnalysedKept DEF UseMade
  <2>4. CASE NameOf(key) \notin visited
    <3>1. analysed' = Append(analysed, key) /\ visited' = visited \cup {NameOf(key)}
      BY <1>3, <2>1, <2>4 DEF UseMade, StartVisit
    <3>2. key \in Instances
      <4>1. ctl # <<>> /\ Top.k = "use" /\ Top.at = "made"
        BY <1>3 DEF UseMade, In
      <4>2. key \in DOMAIN decl
        BY <1>1, <2>1, <4>1, TopFacts DEF Wanted
      <4>3. QED
        BY <1>1, <4>2, TableFacts
    <3>3. key \notin scoped => Marked(key) \notin visited
      BY <2>4, NewName
    <3>4. QED
      BY <2>2, <3>1, <3>2, <3>3, AnalysedStart
  <2>5. QED
    BY <2>3, <2>4
<1>4. CASE CallMade
  <2>1. PICK key : key = Top.key
    OBVIOUS
  <2>2. scoped' = scoped
    BY <1>4 DEF CallMade
  <2>3. CASE Marked(key) \in visited
    BY <1>4, <2>1, <2>2, <2>3, AnalysedKept DEF CallMade, Marked
  <2>4. CASE Marked(key) \notin visited
    <3>1. analysed' = Append(analysed, key) /\ visited' = visited \cup {NameOf(key)}
      BY <1>4, <2>1, <2>4 DEF CallMade, StartVisit, Marked
    <3>2. key \in Instances
      BY <1>1, <1>4, <2>1, TopFacts DEF CallMade, In, Fits
    <3>3. QED
      BY <2>2, <2>4, <3>1, <3>2, AnalysedStart
  <2>5. QED
    BY <2>3, <2>4
<1>5. CASE DrainNext
  <2>1. PICK key : key = Head(pending)
    OBVIOUS
  <2>2. scoped' = scoped
    BY <1>5 DEF DrainNext
  <2>3. CASE NameOf(key) \in visited
    BY <1>5, <2>1, <2>2, <2>3, AnalysedKept DEF DrainNext
  <2>4. CASE NameOf(key) \notin visited
    <3>1. analysed' = Append(analysed, key) /\ visited' = visited \cup {NameOf(key)}
      BY <1>5, <2>1, <2>4 DEF DrainNext
    <3>2. key \in Instances
      BY <1>1, <1>5, <2>1 DEF DrainNext, Values
    <3>3. key \notin scoped => Marked(key) \notin visited
      BY <2>4, NewName
    <3>4. QED
      BY <2>2, <3>1, <3>2, <3>3, AnalysedStart
  <2>5. QED
    BY <2>3, <2>4
<1>6. CASE DeclareFunction
  <2>1. analysed' = analysed /\ visited' = visited /\ scoped \subseteq scoped'
    BY <1>6 DEF DeclareFunction
  <2>2. QED
    BY <2>1, AnalysedKept
<1>7. CASE Instantiation \/ UNCHANGED vars
  <2>1. UNCHANGED <<analysed, visited, scoped>>
    BY <1>7 DEF Instantiation, CloneItem, CloneNext, CloneEnd, ResolveEnter, ResolveArgs,
                ResolveEnd, semaVars, vars
  <2>2. QED
    BY <2>1, AnalysedKept
<1>8. CASE \/ CompleteStruct \/ VisitLocal \/ VisitCall \/ VisitEnd \/ CallEnter \/ CallEnd
           \/ UseEnter \/ UseAlias \/ UseClass \/ UseEnd
  <2>1. UNCHANGED <<analysed, visited, scoped>>
    BY <1>8 DEF CompleteStruct, VisitLocal, VisitCall, VisitEnd, CallEnter, CallEnd, UseEnter,
                UseAlias, UseClass, UseEnd, semaVars
  <2>2. QED
    BY <2>1, AnalysedKept
<1>9. ASSUME Unit PROVE AnalysedInv'
  <2>1. DrainNext \/ UNCHANGED <<analysed, visited, scoped>>
    BY <1>9 DEF Unit, RegisterTemplate, UseType, CallFunction, AnalyseCode, EndOfUnit, EndOfDrain,
                semaVars
  <2>2. QED
    BY <1>5, <2>1, AnalysedKept
<1>10. ASSUME Analyse PROVE AnalysedInv'
  BY <1>2, <1>3, <1>4, <1>6, <1>8, <1>10 DEF Analyse
<1>11. QED
  BY <1>7, <1>9, <1>10 DEF Next

\* No instance is analysed twice (AnalysedOnce), neither from two uses, nor from a use
\* and the queue, nor as two copies under one name, unless the prefix of a namespace
\* has changed its name: for any templates, programs and limits.
THEOREM NeverTwice == Spec => []AnalysedOnce
<1>1. Init => AnalysedInv
  BY DEF Init, AnalysedInv, AnalysedOnce
<1>2. TypeInv /\ AnalysedInv /\ [Next]_vars => AnalysedInv'
  BY AnalysedAfterStep
<1>3. AnalysedInv => AnalysedOnce
  BY DEF AnalysedInv
<1>4. QED
  BY <1>1, <1>2, <1>3, TypesAlways, PTL DEF Spec

-------------------------------------------------------------------------------
(* What stands above a body that is copied comes from that body.             *)

MentionsIn(b, t) == UNION {ToSet(b[t][i].path) : i \in DOMAIN b[t]}

\* Copying, and what it asks for; and what can have only that above it.
Inner(f)  == f.k \in {"clone", "resolve"}
Inside(f) == Inner(f) \/ f.at = "alias"

From(f, m) == /\ f.k = "resolve" => ToSet(f.path) \subseteq m
              /\ f.k = "clone" => TemplateOf(f.key) \in m \cap Structs

\* No body is copied between the two frames.
Nearest(c, i, j) == i < j /\ \A l \in DOMAIN c : i < l /\ l < j => c[l].k # "clone"

Nested(c, b) ==
    /\ \A i, j \in DOMAIN c : i < j /\ Inside(c[i]) => Inner(c[j])
    /\ \A i, j \in DOMAIN c : c[i].k = "clone" /\ Nearest(c, i, j)
                              => From(c[j], MentionsIn(b, TemplateOf(c[i].key)))

\* A frame that has gone on.
Kin(f, t) == /\ f \in FrameSet /\ f.k = t.k /\ f.path = t.path
             /\ f.k \in {"clone", "visit", "call"} => f.key = t.key

\* What a frame asks for.
Asked(f, g, b) ==
    /\ g \in FrameSet
    /\ f.k = "clone" => From(g, MentionsIn(b, TemplateOf(f.key)))
    /\ f.k = "resolve" => From(g, ToSet(f.path))

LEMMA InnerAbove ==
    ASSUME NEW f \in FrameSet, NEW b, Fits(f, b), NEW g \in FrameSet, Above(f, g), Inside(f)
    PROVE  Inner(g)
<1>1. g.k \in {"use", "resolve", "clone", "visit", "call"}
  BY DEF FrameSet, Kinds
<1>2. CASE f.k \in {"clone", "resolve"}
  BY <1>1, <1>2 DEF Fits, Above, Inner
<1>3. CASE f.at = "alias"
  BY <1>1, <1>3 DEF Fits, Above, Inner
<1>4. QED
  BY <1>2, <1>3 DEF Inside, Inner

LEMMA NestedReplace ==
    ASSUME NEW b, NEW c, Stack(c, b), Nested(c, b), c # <<>>, NEW f, Kin(f, Last(c)),
           NEW d, Replaced(c, f, d)
    PROVE  Nested(d, b)
<1>1. PICK n \in Nat \ {0} : n = Len(c)
  BY StackFacts
<1>2. DOMAIN c = 1..n /\ Last(c) = c[n]
  BY <1>1, StackFacts
<1>3. /\ DOMAIN d = 1..n /\ d[n] = f /\ \A i \in 1..(n - 1) : d[i] = c[i]
  BY <1>1 DEF Replaced
<1>4. \A i \in 1..n : i = n \/ i \in 1..(n - 1)
  BY <1>1
<1>5. \A i \in 1..n : /\ d[i].k = c[i].k /\ d[i].path = c[i].path
                      /\ d[i].k = "clone" => d[i].key = c[i].key
  <2>1. /\ d[n].k = c[n].k /\ d[n].path = c[n].path
        /\ d[n].k = "clone" => d[n].key = c[n].key
    BY <1>2, <1>3 DEF Kin
  <2>2. QED
    BY <1>3, <1>4, <2>1
<1>6. \A i, j \in 1..n : i < j => i \in 1..(n - 1)
  BY <1>1
<1>7. \A i, j \in DOMAIN d : i < j /\ Inside(d[i]) => Inner(d[j])
  <2> SUFFICES ASSUME NEW i \in 1..n, NEW j \in 1..n, i < j, Inside(d[i])
               PROVE  Inner(d[j])
    BY <1>3
  <2>1. Inside(c[i])
    BY <1>3, <1>6
  <2>2. Inner(c[j])
    BY <1>2, <2>1 DEF Nested
  <2>3. QED
    BY <1>5, <2>2 DEF Inner
<1>8. \A i, j \in DOMAIN d : d[i].k = "clone" /\ Nearest(d, i, j)
                              => From(d[j], MentionsIn(b, TemplateOf(d[i].key)))
  <2> SUFFICES ASSUME NEW i \in 1..n, NEW j \in 1..n, d[i].k = "clone", Nearest(d, i, j)
               PROVE  From(d[j], MentionsIn(b, TemplateOf(d[i].key)))
    BY <1>3
  <2>1. c[i].k = "clone" /\ Nearest(c, i, j) /\ d[i].key = c[i].key
    BY <1>2, <1>3, <1>5 DEF Nearest
  <2>2. From(c[j], MentionsIn(b, TemplateOf(c[i].key)))
    BY <1>2, <2>1 DEF Nested
  <2>3. QED
    BY <1>5, <2>1, <2>2 DEF From
<1>9. QED
  BY <1>7, <1>8 DEF Nested

LEMMA NestedPop ==
    ASSUME NEW b, NEW c, Stack(c, b), Nested(c, b), c # <<>>, NEW d, Popped(c, d)
    PROVE  Nested(d, b)
<1>1. PICK n \in Nat \ {0} : n = Len(c)
  BY StackFacts
<1>2. PICK m \in Nat : m = n - 1
  BY <1>1
<1>3. /\ DOMAIN c = 1..n /\ DOMAIN d = 1..m /\ \A i \in 1..m : d[i] = c[i] /\ i \in 1..n
  BY <1>1, <1>2, StackFacts DEF Popped
<1>4. \A i, j \in DOMAIN d : i < j /\ Inside(d[i]) => Inner(d[j])
  BY <1>3 DEF Nested
<1>5. \A i, j \in DOMAIN d : d[i].k = "clone" /\ Nearest(d, i, j)
                              => From(d[j], MentionsIn(b, TemplateOf(d[i].key)))
  <2> SUFFICES ASSUME NEW i \in 1..m, NEW j \in 1..m, d[i].k = "clone", Nearest(d, i, j)
               PROVE  From(d[j], MentionsIn(b, TemplateOf(d[i].key)))
    BY <1>3
  <2>1. \A l \in 1..n : l < j => l \in 1..m
    BY <1>2, <1>1
  <2>2. Nearest(c, i, j)
    BY <1>3, <2>1 DEF Nearest
  <2>3. QED
    BY <1>3, <2>2 DEF Nested
<1>6. QED
  BY <1>4, <1>5 DEF Nested

LEMMA NestedPush ==
    ASSUME NEW b, NEW c, Stack(c, b), Nested(c, b), NEW g, NEW d, Pushed(c, g, d), Stack(d, b),
           c # <<>> => Asked(Last(c), g, b)
    PROVE  Nested(d, b)
<1>1. PICK n \in Nat : n = Len(c)
  BY StackFacts
<1>2. DOMAIN c = 1..n
  BY <1>1, StackFacts
<1>3. DOMAIN d = 1..(n + 1) /\ d[n + 1] = g /\ \A i \in 1..n : d[i] = c[i]
  BY <1>1 DEF Pushed
<1>4. \A i \in 1..(n + 1) : i = n + 1 \/ i \in 1..n
  BY <1>1
<1>5. \A i, j \in 1..(n + 1) : i < j => i \in 1..n
  BY <1>1
<1>6. CASE n = 0
  BY <1>1, <1>3, <1>5, <1>6 DEF Nested, Nearest
<1>7. CASE n # 0
  <2>1. PICK f : f = Last(c)
    OBVIOUS
  <2>2. n \in 1..n /\ f = c[n] /\ f \in FrameSet /\ Fits(f, b) /\ Asked(f, g, b) /\ g \in FrameSet
    <3>1. c # <<>>
      BY <1>1, <1>7
    <3>2. QED
      BY <1>1, <1>7, <2>1, <3>1, StackFacts DEF Asked
  <2>3. Above(f, g)
    <3>1. Above(d[n], d[n + 1])
      <4>1. n \in DOMAIN d /\ n + 1 \in DOMAIN d
        BY <1>3, <1>7
      <4>2. QED
        BY <4>1 DEF Stack
    <3>2. QED
      BY <1>3, <2>2, <3>1
  <2>4. Inside(f) => Inner(g)
    BY <2>2, <2>3, InnerAbove
  <2>5. \A i, j \in DOMAIN d : i < j /\ Inside(d[i]) => Inner(d[j])
    <3> SUFFICES ASSUME NEW i \in 1..(n + 1), NEW j \in 1..(n + 1), i < j, Inside(d[i])
                 PROVE  Inner(d[j])
      BY <1>3
    <3>1. i \in 1..n /\ Inside(c[i])
      BY <1>3, <1>5
    <3>2. CASE j \in 1..n
      <4>1. Inner(c[j])
        BY <1>2, <3>1, <3>2 DEF Nested
      <4>2. QED
        BY <1>3, <3>2, <4>1
    <3>3. CASE j = n + 1
      <4>1. Inside(f)
        <5>1. CASE i = n
          BY <2>2, <3>1, <5>1
        <5>2. CASE i # n
          <6>1. i < n
            BY <1>1, <3>1, <5>2
          <6>2. Inner(c[n])
            BY <1>2, <2>2, <3>1, <6>1 DEF Nested
          <6>3. QED
            BY <2>2, <6>2 DEF Inside
        <5>3. QED
          BY <5>1, <5>2
      <4>2. QED
        BY <1>3, <2>4, <3>3, <4>1
    <3>4. QED
      BY <1>4, <3>2, <3>3
  <2>6. \A i, j \in DOMAIN d : d[i].k = "clone" /\ Nearest(d, i, j)
                                => From(d[j], MentionsIn(b, TemplateOf(d[i].key)))
    <3> SUFFICES ASSUME NEW i \in 1..(n + 1), NEW j \in 1..(n + 1), d[i].k = "clone", Nearest(d, i, j)
                 PROVE  From(d[j], MentionsIn(b, TemplateOf(d[i].key)))
      BY <1>3
    <3>1. i \in 1..n /\ d[i] = c[i] /\ c[i].k = "clone" /\ i < j
      BY <1>3, <1>5 DEF Nearest
    <3>2. \A l \in 1..n : l \in 1..(n + 1)
      BY <1>1
    <3>3. \A l \in 1..n : i < l /\ l < j => c[l].k # "clone"
      BY <1>3, <3>2 DEF Nearest
    <3>4. CASE j \in 1..n
      <4>1. Nearest(c, i, j)
        BY <1>2, <3>1, <3>3 DEF Nearest
      <4>2. QED
        BY <1>2, <1>3, <3>1, <3>4, <4>1 DEF Nested
    <3>5. CASE j = n + 1
      <4>1. PICK m : m = MentionsIn(b, TemplateOf(c[i].key))
        OBVIOUS
      <4>2. From(g, m)
        <5>1. CASE i = n
          BY <2>2, <3>1, <4>1, <5>1 DEF Asked
        <5>2. CASE i # n
          <6>1. i < n /\ n < j
            BY <1>1, <3>1, <3>5, <5>2
          <6>2. \A l \in 1..n : i < l /\ l < n => l < j
            BY <1>1, <3>5
          <6>3. Nearest(c, i, n)
            BY <1>2, <3>3, <6>1, <6>2 DEF Nearest
          <6>4. From(f, m)
            BY <1>2, <2>2, <3>1, <4>1, <6>3 DEF Nested
          <6>5. f.k # "clone" /\ Inner(f)
            <7>1. f.k # "clone"
              BY <2>2, <3>3, <6>1
            <7>2. Inner(f)
              BY <1>2, <2>2, <3>1, <6>1 DEF Nested, Inside, Inner
            <7>3. QED
              BY <7>1, <7>2
          <6>6. ToSet(f.path) \subseteq m /\ From(g, ToSet(f.path))
            BY <2>2, <6>4, <6>5 DEF From, Asked, Inner
          <6>7. QED
            BY <6>6 DEF From
        <5>3. QED
          BY <5>1, <5>2
      <4>3. QED
        BY <1>3, <3>1, <3>5, <4>1, <4>2
    <3>6. QED
      BY <1>4, <3>4, <3>5
  <2>7. QED
    BY <2>5, <2>6 DEF Nested
<1>8. QED
  BY <1>6, <1>7

\* The shapes of a step, with what is asked for.
Shaped(c, d, b) ==
    \/ d = c
    \/ c # <<>> /\ d = Front(c)
    \/ c # <<>> /\ \E f : Kin(f, Last(c)) /\ d = Append(Front(c), f)
    \/ c # <<>> /\ \E f, g : Kin(f, Last(c)) /\ Asked(f, g, b) /\ d = Append(Append(Front(c), f), g)
    \/ c = <<>> /\ \E g \in FrameSet : d = <<g>>

LEMMA NestedStep ==
    ASSUME NEW b, NEW c, Stack(c, b), Nested(c, b), NEW d, Stack(d, b), Shaped(c, d, b)
    PROVE  Nested(d, b)
<1>1. CASE d = c
  BY <1>1
<1>2. CASE c # <<>> /\ d = Front(c)
  <2>1. Popped(c, d)
    BY <1>2, StackPop
  <2>2. QED
    BY <1>2, <2>1, NestedPop
<1>3. CASE c # <<>> /\ \E f : Kin(f, Last(c)) /\ d = Append(Front(c), f)
  <2>1. PICK f : Kin(f, Last(c)) /\ d = Append(Front(c), f)
    BY <1>3
  <2>2. PICK e : e = Front(c)
    OBVIOUS
  <2>3. e \in Seq(FrameSet) /\ Len(e) \in Nat /\ f \in FrameSet
    BY <1>3, <2>1, <2>2, StackPop DEF Stack, Kin
  <2>4. d = Append(e, f) /\ Len(e) + 1 \in DOMAIN d /\ d[Len(e) + 1] = f
    BY <2>1, <2>2, <2>3
  <2>5. Fits(f, b)
    BY <2>4 DEF Stack
  <2>6. f.k = Last(c).k /\ (f.k = "clone" => f.key = Last(c).key)
    BY <2>1 DEF Kin
  <2>7. Replaced(c, f, d)
    BY <1>3, <2>1, <2>3, <2>5, <2>6, StackReplace
  <2>8. QED
    BY <1>3, <2>1, <2>7, NestedReplace
<1>4. CASE c # <<>> /\ \E f, g : /\ Kin(f, Last(c)) /\ Asked(f, g, b)
                                 /\ d = Append(Append(Front(c), f), g)
  <2>1. PICK f, g : /\ Kin(f, Last(c)) /\ Asked(f, g, b) /\ d = Append(Append(Front(c), f), g)
    BY <1>4
  <2>2. PICK e, h : e = Front(c) /\ h = Append(e, f)
    OBVIOUS
  <2>3. e \in Seq(FrameSet) /\ Len(e) \in Nat /\ f \in FrameSet /\ g \in FrameSet
    BY <1>4, <2>1, <2>2, StackPop DEF Stack, Kin, Asked
  <2>4. PICK n \in Nat \ {0} : n = Len(e) + 1
    BY <2>3
  <2>5. /\ h \in Seq(FrameSet) /\ Len(h) = n /\ DOMAIN h = 1..n /\ h[n] = f
        /\ h # <<>>
    BY <2>2, <2>3, <2>4
  <2>6. /\ d = Append(h, g) /\ d \in Seq(FrameSet) /\ Len(d) = n + 1 /\ DOMAIN d = 1..(n + 1)
        /\ d[n + 1] = g /\ d # <<>> /\ \A i \in 1..n : d[i] = h[i]
    BY <2>1, <2>2, <2>3, <2>5
  <2>7. Fits(f, b)
    <3>1. n \in DOMAIN d /\ d[n] = f
      BY <2>4, <2>5, <2>6
    <3>2. QED
      BY <3>1 DEF Stack
  <2>8. f.k = Last(c).k /\ (f.k = "clone" => f.key = Last(c).key)
    BY <2>1 DEF Kin
  <2>9. h = Append(Front(c), f)
    BY <2>2
  <2>10. Stack(h, b) /\ Replaced(c, f, h)
    BY <1>4, <2>3, <2>7, <2>8, <2>9, StackReplace
  <2>11. Nested(h, b)
    BY <1>4, <2>1, <2>10, NestedReplace
  <2>12. Last(d) = g /\ Last(h) = f
    BY <2>5, <2>6 DEF Last
  <2>13. Pushed(h, g, d)
    BY <2>5, <2>6, <2>12 DEF Pushed
  <2>14. QED
    BY <2>1, <2>10, <2>11, <2>12, <2>13, NestedPush
<1>5. CASE c = <<>> /\ \E g \in FrameSet : d = <<g>>
  <2>1. \A i, j \in DOMAIN d : ~(i < j)
    BY <1>5
  <2>2. QED
    BY <2>1 DEF Nested, Nearest
<1>6. QED
  BY <1>1, <1>2, <1>3, <1>4, <1>5 DEF Shaped

LEMMA ShapedContinue ==
    ASSUME ctl # <<>>, NEW f, Kin(f, Top), ctl' = With(f)
    PROVE  Shaped(ctl, ctl', body)
BY DEF Shaped, Top, With

LEMMA ShapedEnter ==
    ASSUME ctl # <<>>, NEW f, Kin(f, Top), NEW g, Asked(f, g, body), Enter(f, g)
    PROVE  Shaped(ctl, ctl', body)
BY DEF Shaped, Top, With, Enter

LEMMA ShapedReturn ==
    ASSUME ctl # <<>>, NEW t, Return(t)
    PROVE  Shaped(ctl, ctl', body)
BY DEF Shaped, Return

LEMMA KinAt ==
    ASSUME Calls, ctl # <<>>, NEW at \in Places, NEW f, f = At(at)
    PROVE  Kin(f, Top) /\ f.at = at /\ f.leaf = Top.leaf /\ f.key = Top.key /\ f.i = Top.i
           /\ f.items = Top.items
BY TopFacts, FrameAt DEF At, Kin

LEMMA KinNext ==
    ASSUME Calls, ctl # <<>>, NEW f, f = NextItem
    PROVE  Kin(f, Top) /\ f.at = Top.at /\ f.key = Top.key /\ f.i = Top.i + 1
<1>1. PICK s : s = Top
  OBVIOUS
<1>2. s \in FrameSet /\ f = [s EXCEPT !.i = s.i + 1]
  BY <1>1, TopFacts DEF NextItem
<1>3. /\ f \in FrameSet /\ f.k = s.k /\ f.at = s.at /\ f.key = s.key /\ f.path = s.path
      /\ f.i = s.i + 1
  BY <1>2, FrameNext
<1>4. QED
  BY <1>1, <1>3 DEF Kin

LEMMA ShapedEvaluate ==
    ASSUME ctl # <<>>, NEW f, Kin(f, Top), NEW path \in Paths, NEW leaf \in Types,
           NEW k \in {"use", "resolve"}, NEW g, g = Frame(k, path, leaf, Key(Plain, 0)),
           f.k = "clone" => k = "resolve" /\ ToSet(path) \subseteq MentionsIn(body, TemplateOf(f.key)),
           f.k = "resolve" => k = "resolve" /\ ToSet(path) \subseteq ToSet(f.path),
           Evaluate(f, path, leaf, g)
    PROVE  Shaped(ctl, ctl', body)
<1>1. CASE Named(path) = <<>>
  BY <1>1, ShapedContinue DEF Evaluate
<1>2. CASE Named(path) # <<>>
  <2>1. g \in FrameSet /\ g.k = k /\ g.path = path
    BY <1>2, EvaluateFrame
  <2>2. Asked(f, g, body)
    BY <2>1 DEF Asked, From
  <2>3. QED
    BY <1>2, <2>2, ShapedEnter DEF Evaluate
<1>3. QED
  BY <1>1, <1>2

LEMMA ShapedInstantiate ==
    ASSUME ctl # <<>>, NEW f, Kin(f, Top), NEW h, Kin(h, Top), NEW key \in Instances, f.k # "clone",
           f.k = "resolve" => TemplateOf(key) \in ToSet(f.path) \cap Structs,
           NEW d, Instantiate(key, d, f, h)
    PROVE  Shaped(ctl, ctl', body)
<1>1. CASE ctl' = With(f) \/ ctl' = With(h)
  BY <1>1, ShapedContinue
<1>2. CASE Enter(f, Clone(key))
  <2>1. PICK g : g = Clone(key)
    OBVIOUS
  <2>2. g = Frame("clone", <<>>, Plain, key) /\ key \in Keys /\ "clone" \in Kinds /\ <<>> \in Paths
    BY <2>1 DEF Clone, Instances, Kinds, Paths
  <2>3. g \in FrameSet /\ g.k = "clone" /\ g.key = key
    BY <2>2, PlainTypes, FrameFacts
  <2>4. Asked(f, g, body)
    BY <2>3 DEF Asked, From
  <2>5. QED
    BY <1>2, <2>1, <2>4, ShapedEnter
<1>3. QED
  BY <1>1, <1>2 DEF Instantiate, Continue

LEMMA ShapedVisit ==
    ASSUME Calls, ctl # <<>>, NEW f, Kin(f, Top), f.k \in {"use", "visit", "call"}, NEW key,
           Continue(f) \/ (key \in DOMAIN decl /\ StartVisit(f, key))
    PROVE  Shaped(ctl, ctl', body)
<1>1. CASE Continue(f)
  BY <1>1, ShapedContinue DEF Continue
<1>2. CASE key \in DOMAIN decl /\ StartVisit(f, key)
  <2>1. PICK g : g = Visit(key)
    OBVIOUS
  <2>2. g = Frame("visit", <<>>, Plain, key) /\ key \in Instances
    BY <1>2, <2>1, TableFacts DEF Visit
  <2>3. g \in FrameSet
    BY <2>2, InstanceFrame
  <2>4. Asked(f, g, body)
    BY <2>3 DEF Asked
  <2>5. QED
    BY <1>2, <2>1, <2>4, ShapedEnter DEF StartVisit
<1>3. QED
  BY <1>1, <1>2

LEMMA ShapedClone ==
    ASSUME TypeInv, CloneItem \/ CloneNext \/ CloneEnd
    PROVE  Shaped(ctl, ctl', body)
<1>1. Calls /\ Values
  BY DEF TypeInv
<1>2. CASE CloneItem
  <2>1. /\ ctl # <<>> /\ Top.k = "clone" /\ Top.i <= Len(Body) /\ Top.i \in Nat \ {0}
        /\ Top.key \in Instances
    BY <1>1, <1>2, TopFacts DEF CloneItem, In, Fits
  <2>2. PICK item, path, leaf, f, g, k : /\ item = Body[Top.i] /\ leaf = LeafOf(item, Top.key)
                                         /\ path = item.path /\ f = At("item") /\ k = "resolve"
                                         /\ g = Resolve(path, leaf)
    OBVIOUS
  <2>3. Body \in Seq(Items) /\ Top.i \in DOMAIN Body /\ item \in Items
    <3>1. Body \in Seq(Items)
      BY <1>1, <2>1, BodyFacts DEF Values, Body
    <3>2. QED
      BY <2>1, <2>2, <3>1
  <2>4. path \in Paths /\ leaf \in Types
    BY <2>1, <2>2, <2>3, ItemFacts, LeafType DEF Instances
  <2>5. Kin(f, Top)
    BY <1>1, <2>1, <2>2, KinAt DEF Places
  <2>6. ToSet(path) \subseteq MentionsIn(body, TemplateOf(f.key))
    <3>1. f.key = Top.key
      BY <2>1, <2>5 DEF Kin
    <3>2. ToSet(Body[Top.i].path) \subseteq MentionsIn(body, TemplateOf(Top.key))
      BY <2>3 DEF MentionsIn, Body
    <3>3. QED
      BY <2>2, <3>1, <3>2
  <2>7. g = Frame(k, path, leaf, Key(Plain, 0)) /\ k \in {"use", "resolve"} /\ f.k = "clone"
    BY <2>1, <2>2, <2>5 DEF Resolve, Kin
  <2>8. Evaluate(f, path, leaf, g)
    BY <1>2, <2>2 DEF CloneItem
  <2>9. k = "resolve"
    BY <2>2
  <2>10. QED
    BY <2>1, <2>4, <2>5, <2>6, <2>7, <2>8, <2>9, ShapedEvaluate
<1>3. CASE CloneNext
  <2>1. ctl # <<>> /\ Top.k = "clone" /\ Top \in FrameSet
    BY <1>1, <1>3, TopFacts DEF CloneNext, In
  <2>2. PICK e, f, i, items : /\ e = At("enter") /\ f = [e EXCEPT !.i = i, !.items = items]
                              /\ Continue(f)
    BY <1>3 DEF CloneNext
  <2>3. Kin(e, Top)
    BY <1>1, <2>1, <2>2, KinAt DEF Places
  <2>4. f.k = e.k /\ f.path = e.path /\ f.key = e.key
    BY <2>2, <2>3 DEF Kin, FrameSet
  <2>5. f \in FrameSet
    <3>1. TypeInv'
      BY <1>3, TypeAfterCloneNext
    <3>2. ctl' = With(f)
      BY <2>2 DEF Continue
    <3>3. PICK c, d, b : c = ctl /\ d = ctl' /\ b = body
      OBVIOUS
    <3>4. Stack(c, b) /\ c # <<>> /\ d \in Seq(FrameSet) /\ d = Append(Front(c), f)
      BY <1>1, <2>1, <3>1, <3>2, <3>3 DEF Calls, TypeInv, Recursion, Stack, With
    <3>5. PICK e2 : e2 = Front(c)
      OBVIOUS
    <3>6. e2 \in Seq(FrameSet)
      BY <3>4, <3>5, StackPop DEF Stack
    <3>7. d = Append(e2, f) /\ Len(e2) \in Nat
      BY <3>4, <3>5, <3>6
    <3>8. Len(e2) + 1 \in DOMAIN d /\ d[Len(e2) + 1] = f
      BY <3>6, <3>7
    <3>9. QED
      BY <3>4, <3>8
  <2>6. Kin(f, Top)
    BY <2>3, <2>4, <2>5 DEF Kin
  <2>7. QED
    BY <2>1, <2>2, <2>6, ShapedContinue DEF Continue
<1>4. CASE CloneEnd
  BY <1>4, ShapedReturn DEF CloneEnd, In
<1>5. QED
  BY <1>2, <1>3, <1>4

LEMMA ShapedResolve ==
    ASSUME TypeInv, ResolveEnter \/ ResolveArgs \/ ResolveEnd
    PROVE  Shaped(ctl, ctl', body)
<1>1. Calls /\ Values /\ ctl # <<>> /\ Top.k = "resolve"
  BY DEF TypeInv, ResolveEnter, ResolveArgs, ResolveEnd, In
<1>2. /\ Top \in FrameSet /\ Fits(Top, body) /\ Top.leaf \in Types /\ Top.path \in Paths
  BY <1>1, TopFacts
<1>3. /\ Head(Named(Top.path)) \in ToSet(Top.path) /\ Tail(Named(Top.path)) \in Paths
      /\ ToSet(Tail(Named(Top.path))) \subseteq ToSet(Top.path)
  BY <1>1, <1>2, ArgFacts
<1>4. PICK h : h = At("refused")
  OBVIOUS
<1>5. Kin(h, Top)
  BY <1>1, <1>4, KinAt DEF Places
<1>6. CASE ctl' = With(h)
  BY <1>1, <1>5, <1>6, ShapedContinue
<1>7. CASE ResolveEnter
  <2>1. PICK arg, leaf, f, g, k : /\ arg = Tail(Named(Top.path)) /\ leaf = Top.leaf
                                  /\ f = At("args") /\ g = Resolve(arg, leaf) /\ k = "resolve"
    OBVIOUS
  <2>2. Kin(f, Top)
    BY <1>1, <2>1, KinAt DEF Places
  <2>3. f.k = "resolve" /\ f.path = Top.path
    BY <1>1, <2>2 DEF Kin
  <2>4. /\ arg \in Paths /\ leaf \in Types /\ ToSet(arg) \subseteq ToSet(f.path)
        /\ k \in {"use", "resolve"} /\ k = "resolve"
    BY <1>2, <1>3, <2>1, <2>3
  <2>5. g = Frame(k, arg, leaf, Key(Plain, 0))
    BY <2>1 DEF Resolve
  <2>6. ctl' = With(h) \/ Evaluate(f, arg, leaf, g)
    BY <1>4, <1>7, <2>1 DEF ResolveEnter, Continue
  <2>7. CASE Evaluate(f, arg, leaf, g)
    BY <1>1, <2>2, <2>3, <2>4, <2>5, <2>7, ShapedEvaluate
  <2>8. QED
    BY <1>6, <2>6, <2>7
<1>8. CASE ResolveArgs
  <2>1. PICK name, key, e, f, d : /\ name = <<Head(Named(Top.path))>> \o ret /\ key = Key(name, 0)
                                  /\ e = At("made") /\ f = [e EXCEPT !.key = key] /\ d = depth - 1
    OBVIOUS
  <2>2. name \in Types /\ Len(name) >= 2 /\ Head(name) = Head(Named(Top.path))
    BY <1>1, <2>1, NamedType DEF Values
  <2>3. CASE Head(name) \in registered \cap Structs
    <3>1. key \in Instances /\ TemplateOf(key) = Head(name) /\ key \in Keys
      BY <2>1, <2>2, <2>3, CallingFacts DEF Instances
    <3>2. Kin(e, Top)
      BY <1>1, <2>1, KinAt DEF Places
    <3>3. /\ f \in FrameSet /\ f.k = e.k /\ f.path = e.path
      BY <2>1, <3>1, <3>2, FrameKey DEF Kin
    <3>4. Kin(f, Top) /\ f.k = "resolve" /\ f.path = Top.path
      BY <1>1, <3>2, <3>3 DEF Kin
    <3>5. TemplateOf(key) \in ToSet(f.path) \cap Structs
      BY <1>3, <2>2, <2>3, <3>1, <3>4
    <3>6. Instantiate(key, d, f, h)
      BY <1>4, <1>8, <2>1, <2>3 DEF ResolveArgs
    <3>7. QED
      BY <1>1, <1>5, <3>1, <3>4, <3>5, <3>6, ShapedInstantiate
  <2>4. CASE Head(name) \notin registered \cap Structs
    BY <1>4, <1>6, <1>8, <2>1, <2>4 DEF ResolveArgs, Continue
  <2>5. QED
    BY <2>3, <2>4
<1>9. CASE ResolveEnd
  <2>1. PICK t : Return(t)
    BY <1>9 DEF ResolveEnd
  <2>2. QED
    BY <1>1, <2>1, ShapedReturn
<1>10. QED
  BY <1>7, <1>8, <1>9

LEMMA ShapedAnalysis ==
    ASSUME TypeInv, \/ VisitField \/ CompleteStruct \/ DeclareFunction \/ VisitLocal \/ VisitCall
                    \/ VisitEnd \/ CallEnter \/ CallMade \/ CallEnd
    PROVE  Shaped(ctl, ctl', body)
<1>1. Calls /\ Values /\ ctl # <<>> /\ Top.k \in {"visit", "call"}
  BY DEF TypeInv, VisitField, CompleteStruct, DeclareFunction, VisitLocal, VisitCall,
         VisitEnd, CallEnter, CallMade, CallEnd, In
<1>2. \A at \in Places : Kin(At(at), Top)
  BY <1>1, KinAt
<1>3. {"body", "made", "refused", "out"} \subseteq Places
  BY DEF Places
<1>4. CASE CompleteStruct \/ DeclareFunction
  BY <1>1, <1>2, <1>3, <1>4, ShapedContinue DEF CompleteStruct, DeclareFunction, Continue
<1>5. CASE VisitEnd \/ CallEnd
  <2>1. PICK t : Return(t)
    BY <1>5 DEF VisitEnd, CallEnd
  <2>2. QED
    BY <1>1, <2>1, ShapedReturn
<1>6. CASE VisitField \/ VisitLocal \/ VisitCall
  <2>1. PICK f : f = NextItem
    OBVIOUS
  <2>2. Kin(f, Top) /\ f.k = "visit"
    <3>1. Kin(f, Top) /\ Top.k = "visit"
      BY <1>1, <1>6, <2>1, KinNext DEF VisitField, VisitLocal, VisitCall, In
    <3>2. QED
      BY <3>1 DEF Kin
  <2>3. CASE VisitLocal
    BY <1>1, <2>1, <2>2, <2>3, ShapedContinue DEF VisitLocal, Continue
  <2>4. CASE VisitField
    <3>1. PICK key : Continue(f) \/ (key \in DOMAIN decl /\ StartVisit(f, key))
      BY <2>1, <2>4 DEF VisitField, EnsureVisited
    <3>2. f.k \in {"use", "visit", "call"}
      BY <2>2
    <3>3. QED
      BY <1>1, <2>2, <3>1, <3>2, ShapedVisit
  <2>5. CASE VisitCall
    <3>1. PICK g : Enter(f, g) /\ g = Call(Copy[Top.i].key)
      BY <2>1, <2>5 DEF VisitCall
    <3>2. PICK d, b, c : d = ctl' /\ b = body /\ c = ctl
      OBVIOUS
    <3>3. g \in FrameSet
      <4>1. Stack(d, b)
        BY <2>5, <3>2, TypeAfterVisitCall DEF TypeInv, Calls, Recursion, VisitCall, unitVars
      <4>2. PICK h : h = With(f)
        OBVIOUS
      <4>3. h \in Seq(FrameSet)
        <5>1. PICK e : e = Front(c)
          OBVIOUS
        <5>2. e \in Seq(FrameSet) /\ f \in FrameSet /\ h = Append(e, f)
          <6>1. Stack(c, b) /\ c # <<>>
            BY <1>1, <3>2 DEF Calls, Recursion
          <6>2. QED
            BY <2>2, <3>2, <4>2, <5>1, <6>1, StackPop DEF Stack, Kin, With
        <5>3. QED
          BY <5>2
      <4>4. d = Append(h, g) /\ d \in Seq(FrameSet)
        BY <3>1, <3>2, <4>1, <4>2 DEF Enter, Stack
      <4>5. Len(h) + 1 \in DOMAIN d /\ d[Len(h) + 1] = g
        BY <4>3, <4>4
      <4>6. QED
        BY <4>4, <4>5
    <3>4. Asked(f, g, body)
      BY <2>2, <3>3 DEF Asked
    <3>5. QED
      BY <1>1, <2>2, <3>1, <3>4, ShapedEnter
  <2>6. QED
    BY <1>6, <2>3, <2>4, <2>5
<1>7. CASE CallEnter
  <2>1. PICK key, d, f, h : key = Top.key /\ d = depth /\ f = At("made") /\ h = At("refused")
    OBVIOUS
  <2>2. Top.k = "call" /\ key \in Instances
    BY <1>1, <1>7, <2>1, TopFacts DEF CallEnter, In, Fits
  <2>3. Kin(f, Top) /\ Kin(h, Top)
    BY <1>2, <1>3, <2>1
  <2>4. Instantiate(key, d, f, h) \/ ctl' = With(h)
    BY <1>7, <2>1 DEF CallEnter, Continue
  <2>5. f.k # "clone" /\ f.k # "resolve"
    BY <2>2, <2>3 DEF Kin
  <2>6. QED
    BY <1>1, <2>2, <2>3, <2>4, <2>5, ShapedContinue, ShapedInstantiate
<1>8. CASE CallMade
  <2>1. PICK key, f : key = Top.key /\ f = At("out")
    OBVIOUS
  <2>2. Top.k = "call" /\ key \in DOMAIN decl
    BY <1>1, <1>8, <2>1, TopFacts DEF CallMade, In, Wanted
  <2>3. Kin(f, Top) /\ f.k \in {"use", "visit", "call"}
    BY <1>2, <1>3, <2>1, <2>2 DEF Kin
  <2>4. Continue(f) \/ StartVisit(f, key)
    BY <1>8, <2>1 DEF CallMade
  <2>5. QED
    BY <1>1, <2>2, <2>3, <2>4, ShapedVisit
<1>9. QED
  BY <1>4, <1>5, <1>6, <1>7, <1>8

LEMMA ShapedUse ==
    ASSUME TypeInv, UseEnter \/ UseAlias \/ UseExpanded \/ UseClass \/ UseMade \/ UseEnd
    PROVE  Shaped(ctl, ctl', body)
<1>1. Calls /\ Values /\ ctl # <<>> /\ Top.k = "use" /\ ret \in Types
  BY DEF TypeInv, UseEnter, UseAlias, UseExpanded, UseClass, UseMade, UseEnd, In, Values
<1>2. \A at \in Places : Kin(At(at), Top)
  BY <1>1, KinAt
<1>3. {"args", "alias", "made", "refused", "out"} \subseteq Places
  BY DEF Places
<1>4. /\ Top \in FrameSet /\ Fits(Top, body) /\ Top.leaf \in Types /\ Top.path \in Paths
  BY <1>1, TopFacts
<1>5. Tail(Named(Top.path)) \in Paths
  BY <1>1, <1>4, ArgFacts
<1>6. \A at \in Places, t \in Types : Kin(Result(at, t), Top)
  <2> SUFFICES ASSUME NEW at \in Places, NEW t \in Types, NEW f, f = Result(at, t)
               PROVE  Kin(f, Top)
    OBVIOUS
  <2>1. f \in FrameSet /\ f.k = Top.k /\ f.key = Top.key /\ f.path = Top.path
    BY <1>1, ResultFacts
  <2>2. QED
    BY <2>1 DEF Kin
<1>7. ASSUME NEW f, Kin(f, Top)
      PROVE  f.k = "use" /\ f.k # "clone" /\ f.k # "resolve" /\ f.k \in {"use", "visit", "call"}
  BY <1>1, <1>7 DEF Kin
<1>8. CASE UseEnter
  <2>1. PICK arg, leaf, f, g, k : /\ arg = Tail(Named(Top.path)) /\ leaf = Plain
                                  /\ f = At("args") /\ g = Use(arg) /\ k = "use"
    OBVIOUS
  <2>2. CASE Evaluate(f, arg, leaf, g)
    <3>1. g = Frame(k, arg, leaf, Key(Plain, 0)) /\ k \in {"use", "resolve"}
      BY <2>1 DEF Use
    <3>2. Kin(f, Top) /\ arg \in Paths /\ leaf \in Types
      BY <1>2, <1>3, <1>5, <2>1, PlainTypes
    <3>3. QED
      BY <1>1, <1>7, <2>2, <3>1, <3>2, ShapedEvaluate
  <2>3. CASE \E t : Return(t)
    BY <1>1, <2>3, ShapedReturn
  <2>4. QED
    BY <1>8, <2>1, <2>2, <2>3 DEF UseEnter
<1>9. CASE UseAlias
  <2>1. PICK name, key, item, leaf, e, f, g, path, k :
           /\ name = <<Head(Named(Top.path))>> \o ret /\ key = Key(name, 0)
           /\ item = body[Head(name)][1] /\ leaf = LeafOf(item, key) /\ path = item.path
           /\ e = At("alias") /\ f = [e EXCEPT !.key = key] /\ g = Resolve(path, leaf)
           /\ k = "resolve"
    OBVIOUS
  <2>2. name \in Types /\ Len(name) >= 2 /\ Head(name) \in Aliases
    <3>1. name \in Types /\ Len(name) >= 2
      BY <1>1, <2>1, NamedType
    <3>2. Head(name) \in registered \cap Aliases
      BY <1>9, <2>1 DEF UseAlias
    <3>3. QED
      BY <3>1, <3>2
  <2>3. key.name = name /\ key \in Keys
    BY <2>1, <2>2 DEF Key, Keys
  <2>4. path \in Paths /\ leaf \in Types
    <3>1. item \in Items
      BY <1>1, <2>1, <2>2, BodyFacts DEF Values
    <3>2. leaf \in Types
      BY <2>1, <2>2, <2>3, LeafType
    <3>3. QED
      BY <2>1, <3>1, <3>2, ItemFacts
  <2>5. Kin(f, Top)
    <3>1. Kin(e, Top)
      BY <1>2, <1>3, <2>1
    <3>2. f \in FrameSet /\ f.k = e.k /\ f.path = e.path
      BY <2>1, <2>3, <3>1, FrameKey DEF Kin
    <3>3. QED
      BY <1>1, <3>1, <3>2 DEF Kin
  <2>6. CASE name \in DOMAIN aliasCache
    <3>1. PICK h : h = Result("out", aliasCache[name])
      OBVIOUS
    <3>2. Kin(h, Top)
      <4>1. aliasCache[name] \in Types
        BY <1>1, <2>6 DEF Values
      <4>2. QED
        BY <1>3, <1>6, <3>1, <4>1
    <3>3. ctl' = With(h)
      BY <1>9, <2>1, <2>6, <3>1 DEF UseAlias, Continue
    <3>4. QED
      BY <1>1, <3>2, <3>3, ShapedContinue
  <2>7. CASE name \notin DOMAIN aliasCache
    <3>1. Evaluate(f, path, leaf, g)
      BY <1>9, <2>1, <2>7 DEF UseAlias
    <3>2. g = Frame(k, path, leaf, Key(Plain, 0)) /\ k \in {"use", "resolve"}
      BY <2>1 DEF Resolve
    <3>3. f.k # "clone" /\ f.k # "resolve"
      BY <1>7, <2>5
    <3>4. QED
      BY <1>1, <2>4, <2>5, <3>1, <3>2, <3>3, ShapedEvaluate
  <2>8. QED
    BY <2>6, <2>7
<1>10. CASE UseExpanded
  <2>1. PICK f : f = Result("out", ret)
    OBVIOUS
  <2>2. Kin(f, Top)
    BY <1>1, <1>3, <1>6, <2>1
  <2>3. PICK key : Continue(f) \/ (key \in DOMAIN decl /\ StartVisit(f, key))
    BY <1>10, <2>1 DEF UseExpanded, EnsureVisited
  <2>4. QED
    BY <1>1, <1>7, <2>2, <2>3, ShapedVisit
<1>11. CASE UseClass
  <2>1. PICK name, key, f, h, d : /\ name = <<Head(Named(Top.path))>> \o ret /\ key = Key(name, 0)
                                  /\ f = Result("made", name) /\ h = At("refused") /\ d = depth
    OBVIOUS
  <2>2. name \in Types /\ Len(name) >= 2
    BY <1>1, <2>1, NamedType
  <2>3. Kin(f, Top) /\ Kin(h, Top)
    BY <1>2, <1>3, <1>6, <2>1, <2>2
  <2>4. CASE Head(name) \in registered \cap Structs
    <3>1. key \in Instances
      BY <2>1, <2>2, <2>4, CallingFacts
    <3>2. Instantiate(key, d, f, h)
      BY <1>11, <2>1, <2>4 DEF UseClass
    <3>3. f.k # "clone" /\ f.k # "resolve"
      BY <1>7, <2>3
    <3>4. QED
      BY <1>1, <2>3, <3>1, <3>2, <3>3, ShapedInstantiate
  <2>5. CASE Head(name) \notin registered \cap Structs
    <3>1. ctl' = With(h)
      BY <1>11, <2>1, <2>5 DEF UseClass, Continue
    <3>2. QED
      BY <1>1, <2>3, <3>1, ShapedContinue
  <2>6. QED
    BY <2>4, <2>5
<1>12. CASE UseMade
  <2>1. PICK key, f : key = Key(Top.leaf, 0) /\ f = At("out")
    OBVIOUS
  <2>2. key \in DOMAIN decl
    BY <1>1, <1>12, <2>1, TopFacts DEF UseMade, In, Wanted
  <2>3. Kin(f, Top)
    BY <1>2, <1>3, <2>1
  <2>4. Continue(f) \/ StartVisit(f, key)
    BY <1>12, <2>1 DEF UseMade
  <2>5. QED
    BY <1>1, <1>7, <2>2, <2>3, <2>4, ShapedVisit
<1>13. CASE UseEnd
  <2>1. PICK t : Return(t)
    BY <1>13 DEF UseEnd
  <2>2. QED
    BY <1>1, <2>1, ShapedReturn
<1>14. QED
  BY <1>8, <1>9, <1>10, <1>11, <1>12, <1>13

LEMMA ShapedUnit ==
    ASSUME TypeInv, Unit \/ UNCHANGED vars
    PROVE  Shaped(ctl, ctl', body)
<1>1. Calls
  BY DEF TypeInv
<1>2. CASE RegisterTemplate \/ EndOfUnit \/ EndOfDrain \/ UNCHANGED vars
  BY <1>2 DEF RegisterTemplate, EndOfUnit, EndOfDrain, vars, Shaped
<1>3. ASSUME NEW path \in UsePaths, NEW ns \in BOOLEAN, UseType(path, ns)
      PROVE  Shaped(ctl, ctl', body)
  <2>1. PICK g : g = Use(path)
    OBVIOUS
  <2>2. ctl = <<>> /\ ctl' = <<g>>
    BY <1>3, <2>1 DEF UseType, AnalyseCode
  <2>3. g = Frame("use", path, Plain, Key(Plain, 0))
    BY <2>1 DEF Use
  <2>4. "use" \in Kinds /\ path \in Paths /\ Key(Plain, 0) \in Keys
    BY PlainTypes, TemplatesAssumption DEF Kinds, Key, Keys
  <2>5. g \in FrameSet
    BY <2>3, <2>4, PlainTypes, FrameFacts
  <2>6. QED
    BY <2>2, <2>5 DEF Shaped
<1>4. ASSUME NEW f \in Functions, NEW v \in {1, 2}, NEW ns \in BOOLEAN, CallFunction(f, v, ns)
      PROVE  Shaped(ctl, ctl', body)
  <2>1. PICK g : g = Call(Key(<<f>> \o Plain, v))
    OBVIOUS
  <2>2. ctl = <<>> /\ ctl' = <<g>>
    BY <1>4, <2>1 DEF CallFunction, AnalyseCode
  <2>3. TypeInv'
    BY <1>4, TypeAfterCallFunction
  <2>4. ctl' \in Seq(FrameSet)
    BY <2>3 DEF TypeInv, Calls, Recursion, Stack
  <2>5. g \in FrameSet
    BY <2>2, <2>4
  <2>6. QED
    BY <2>2, <2>5 DEF Shaped
<1>5. CASE DrainNext
  <2>1. PICK g : g = Visit(Head(pending))
    OBVIOUS
  <2>2. ctl = <<>> /\ (ctl' = ctl \/ ctl' = <<g>>)
    BY <1>5, <2>1 DEF DrainNext
  <2>3. CASE ctl' = <<g>>
    <3>1. ctl' \in Seq(FrameSet)
      BY <1>5, TypeAfterDrainNext DEF TypeInv, Calls, Recursion, Stack
    <3>2. g \in FrameSet
      BY <2>3, <3>1
    <3>3. QED
      BY <2>2, <2>3, <3>2 DEF Shaped
  <2>4. QED
    BY <2>2, <2>3 DEF Shaped
<1>6. QED
  BY <1>2, <1>3, <1>4, <1>5 DEF Unit

LEMMA ShapedNext == TypeInv /\ [Next]_vars => Shaped(ctl, ctl', body)
BY ShapedClone, ShapedResolve, ShapedAnalysis, ShapedUse, ShapedUnit
   DEF Next, Analyse, Instantiation

Recursive == \E S \in (SUBSET Structs) \ {{}} : \A t \in S : Mentions(t) \cap S # {}

NestedInv == Nested(ctl, body) /\ RecursionIsReal

\* An instance that is asked for while its body is copied is asked for from it.
LEMMA RecursionMet ==
    ASSUME Calls, Nested(ctl, body), ctl # <<>>, Top.k # "clone", NEW key,
           Status(key) = "instantiating",
           Top.k = "resolve" => TemplateOf(key) \in ToSet(Top.path) \cap Structs
    PROVE  Recursive
<1>1. Cloning(ctl, key)
  <2>1. key \in DOMAIN states /\ states[key] = "instantiating"
    BY DEF Status
  <2>2. QED
    BY <2>1 DEF Calls, Recursion, Registry
<1>2. PICK i \in DOMAIN ctl : ctl[i].k = "clone" /\ ctl[i].key = key
  BY <1>1 DEF Cloning
<1>3. PICK n \in Nat \ {0} : n = Len(ctl)
  BY StackFacts DEF Calls, Recursion
<1>4. DOMAIN ctl = 1..n /\ Top = ctl[n] /\ Top \in FrameSet
  BY <1>3, StackFacts DEF Calls, Recursion, Top
<1>5. i \in 1..n /\ i < n /\ n \in 1..n
  BY <1>2, <1>3, <1>4
<1>6. Top.k = "resolve"
  <2>1. Inner(ctl[n])
    BY <1>2, <1>4, <1>5 DEF Nested, Inside, Inner
  <2>2. QED
    BY <1>4, <2>1 DEF Inner
<1> DEFINE L == {l \in 1..n : i <= l /\ ctl[l].k = "clone"}
           S == {TemplateOf(ctl[l].key) : l \in L} \cap Structs
<1>7. TemplateOf(key) \in S
  <2>1. i \in L /\ TemplateOf(ctl[i].key) = TemplateOf(key)
    BY <1>2, <1>5
  <2>2. QED
    BY <1>6, <2>1
<1>8. ASSUME NEW l \in L PROVE MentionsIn(body, TemplateOf(ctl[l].key)) \cap S # {}
  <2>1. PICK m : m = MentionsIn(body, TemplateOf(ctl[l].key))
    OBVIOUS
  <2> DEFINE U == {u \in L : l < u}
  <2>2. CASE U = {}
    <3>1. l # n
      BY <1>4, <1>6
    <3>2. l < n
      BY <1>3, <3>1
    <3>3. \A u \in 1..n : l < u => ctl[u].k # "clone"
      <4> SUFFICES ASSUME NEW u \in 1..n, l < u, ctl[u].k = "clone"
                   PROVE  FALSE
        OBVIOUS
      <4>1. i <= u
        BY <1>3, <1>5
      <4>2. u \in U
        BY <4>1
      <4>3. QED
        BY <2>2, <4>2
    <3>4. Nearest(ctl, l, n)
      BY <1>4, <3>2, <3>3 DEF Nearest
    <3>5. From(ctl[n], m)
      BY <1>4, <1>5, <2>1, <3>4 DEF Nested
    <3>6. ToSet(Top.path) \subseteq m
      BY <1>4, <1>6, <3>5 DEF From
    <3>7. TemplateOf(key) \in m
      BY <1>6, <3>6
    <3>8. QED
      BY <1>7, <2>1, <3>7
  <2>3. CASE U # {}
    <3>1. U \in SUBSET Nat
      OBVIOUS
    <3>2. PICK u \in U : \A v \in U : u <= v
      BY <2>3, <3>1, FirstExists
    <3>3. u \in 1..n /\ l < u /\ ctl[u].k = "clone" /\ u \in L
      OBVIOUS
    <3>4. \A v \in 1..n : l < v /\ v < u => ctl[v].k # "clone"
      <4> SUFFICES ASSUME NEW v \in 1..n, l < v, v < u, ctl[v].k = "clone"
                   PROVE  FALSE
        OBVIOUS
      <4>1. i <= v
        BY <1>3, <1>5
      <4>2. v \in U
        BY <4>1
      <4>3. u <= v
        BY <3>2, <4>2
      <4>4. QED
        BY <3>3, <4>3
    <3>5. Nearest(ctl, l, u)
      BY <1>4, <3>3, <3>4 DEF Nearest
    <3>6. From(ctl[u], m)
      BY <1>4, <2>1, <3>3, <3>5 DEF Nested
    <3>7. TemplateOf(ctl[u].key) \in m \cap Structs
      BY <3>3, <3>6 DEF From
    <3>8. TemplateOf(ctl[u].key) \in S
      BY <3>3, <3>7
    <3>9. QED
      BY <2>1, <3>7, <3>8
  <2>4. QED
    BY <2>2, <2>3
<1>9. \A t \in S : Mentions(t) \cap S # {}
  <2>1. \A t \in S : \E l \in L : t = TemplateOf(ctl[l].key)
    OBVIOUS
  <2> HIDE DEF S, L
  <2>2. \A t \in S : MentionsIn(body, t) \cap S # {}
    BY <1>8, <2>1
  <2>3. QED
    BY <2>2 DEF Mentions, MentionsIn
<1>10. S \in (SUBSET Structs) \ {{}}
  BY <1>7
<1> HIDE DEF S
<1>11. QED
  BY <1>9, <1>10 DEF Recursive

\* What a request for an instance records.
LEMMA RecordedRecursion ==
    ASSUME Calls, NestedInv, ctl # <<>>, Top.k # "clone", NEW key, NEW d, NEW f, NEW h,
           Instantiate(key, d, f, h),
           Top.k = "resolve" => TemplateOf(key) \in ToSet(Top.path) \cap Structs
    PROVE  "recursive" \in failures' => Recursive
<1>1. CASE failures' = failures
  BY <1>1 DEF NestedInv, RecursionIsReal, Recursive
<1>2. CASE failures' = failures \cup Refusal(key, d)
  <2>1. CASE "recursive" \in failures
    BY <2>1 DEF NestedInv, RecursionIsReal, Recursive
  <2>2. CASE "recursive" \in Refusal(key, d)
    <3>1. Status(key) = "instantiating"
      BY <2>2 DEF Refusal
    <3>2. QED
      BY <3>1, RecursionMet DEF NestedInv
  <2>3. QED
    BY <1>2, <2>1, <2>2
<1>3. QED
  BY <1>1, <1>2 DEF Instantiate

LEMMA RecursionAfterStep == TypeInv /\ NestedInv /\ [Next]_vars => NestedInv'
<1> SUFFICES ASSUME TypeInv, NestedInv, [Next]_vars
             PROVE  NestedInv'
  OBVIOUS
<1>1. Calls /\ Values /\ TypeInv'
  BY TypeAfterStep DEF TypeInv
<1>2. body' = body
  BY DEF Next, Analyse, Instantiation, Unit, CloneItem, CloneNext, CloneEnd, ResolveEnter,
         ResolveArgs, ResolveEnd, VisitField, CompleteStruct, DeclareFunction, VisitLocal,
         VisitCall, VisitEnd, CallEnter, CallMade, CallEnd, UseEnter, UseAlias, UseExpanded,
         UseClass, UseMade, UseEnd, RegisterTemplate, UseType, CallFunction, AnalyseCode,
         EndOfUnit, DrainNext, EndOfDrain, unitVars, vars
<1>3. Nested(ctl, body)'
  <2>1. PICK b, c, d : b = body /\ c = ctl /\ d = ctl'
    OBVIOUS
  <2>2. Stack(c, b) /\ Stack(d, b) /\ Nested(c, b)
    BY <1>1, <1>2, <2>1 DEF NestedInv, Calls, TypeInv, Recursion
  <2>3. Shaped(c, d, b)
    BY <2>1, ShapedNext
  <2>4. Nested(d, b)
    BY <2>2, <2>3, NestedStep
  <2>5. QED
    BY <1>2, <2>1, <2>4
<1>4. "recursive" \in failures' => Recursive
  <2>1. CASE failures' = failures \/ failures' = failures \cup {"depth"}
    BY <2>1 DEF NestedInv, RecursionIsReal, Recursive
  <2>2. CASE ResolveArgs
    <3>1. ctl # <<>> /\ Top.k = "resolve"
      BY <2>2 DEF ResolveArgs, In
    <3>2. PICK name, key, e, f, h, d :
             /\ name = <<Head(Named(Top.path))>> \o ret /\ key = Key(name, 0)
             /\ e = At("made") /\ f = [e EXCEPT !.key = key] /\ h = At("refused") /\ d = depth - 1
      OBVIOUS
    <3>3. name \in Types /\ Len(name) >= 2 /\ Head(name) = Head(Named(Top.path))
      BY <1>1, <3>1, <3>2, NamedType DEF Values
    <3>4. CASE Head(name) \in registered \cap Structs
      <4>1. TemplateOf(key) = Head(name)
        BY <3>2, <3>3, CallingFacts
      <4>2. Head(Named(Top.path)) \in ToSet(Top.path)
        BY <1>1, <3>1, TopFacts, ArgFacts
      <4>3. Instantiate(key, d, f, h)
        BY <2>2, <3>2, <3>4 DEF ResolveArgs
      <4>4. TemplateOf(key) \in ToSet(Top.path) \cap Structs /\ Top.k # "clone"
        BY <3>1, <3>3, <3>4, <4>1, <4>2
      <4>5. QED
        BY <1>1, <3>1, <4>3, <4>4, RecordedRecursion
    <3>5. CASE Head(name) \notin registered \cap Structs
      BY <2>1, <2>2, <3>2, <3>5 DEF ResolveArgs
    <3>6. QED
      BY <3>4, <3>5
  <2>3. CASE CallEnter
    <3>1. ctl # <<>> /\ Top.k = "call" /\ Top.k # "clone" /\ Top.k # "resolve"
      BY <2>3 DEF CallEnter, In
    <3>2. failures' = failures \/ \E key, d, f, h : Instantiate(key, d, f, h)
      BY <2>3 DEF CallEnter, regVars
    <3>3. QED
      BY <1>1, <2>1, <3>1, <3>2, RecordedRecursion
  <2>4. CASE UseClass
    <3>1. ctl # <<>> /\ Top.k = "use" /\ Top.k # "clone" /\ Top.k # "resolve"
      BY <2>4 DEF UseClass, In
    <3>2. failures' = failures \/ \E key, d, f, h : Instantiate(key, d, f, h)
      BY <2>4 DEF UseClass, regVars
    <3>3. QED
      BY <1>1, <2>1, <3>1, <3>2, RecordedRecursion
  <2>5. \/ ResolveArgs \/ CallEnter \/ UseClass
        \/ failures' = failures \/ failures' = failures \cup {"depth"}
    BY DEF Next, Analyse, Instantiation, Unit, CloneItem, CloneNext, CloneEnd, ResolveEnter,
           ResolveEnd, VisitField, CompleteStruct, DeclareFunction, VisitLocal,
           VisitCall, VisitEnd, CallMade, CallEnd, UseEnter, UseAlias, UseExpanded,
           UseMade, UseEnd, RegisterTemplate, UseType, CallFunction, AnalyseCode,
           EndOfUnit, DrainNext, EndOfDrain, regVars, vars
  <2>6. QED
    BY <2>1, <2>2, <2>3, <2>4, <2>5
<1>5. RecursionIsReal'
  <2>1. ASSUME Recursive PROVE Recursive'
    <3>1. PICK S \in (SUBSET Structs) \ {{}} : \A t \in S : Mentions(t) \cap S # {}
      BY <2>1 DEF Recursive
    <3>2. ASSUME NEW t \in S PROVE Mentions(t)' = Mentions(t)
      BY <1>2 DEF Mentions
    <3>3. \A t \in S : Mentions(t)' \cap S # {}
      BY <3>1, <3>2
    <3>4. QED
      BY <3>1, <3>3 DEF Recursive
  <2>2. ("recursive" \in failures)' => Recursive'
    BY <1>4, <2>1
  <2>3. QED
    BY <2>2 DEF RecursionIsReal, Recursive
<1>6. QED
  BY <1>3, <1>5 DEF NestedInv

LEMMA NestedAlways == Spec => []NestedInv
<1>1. Init => NestedInv
  BY DEF Init, NestedInv, Nested, RecursionIsReal
<1>2. TypeInv /\ NestedInv /\ [Next]_vars => NestedInv'
  BY RecursionAfterStep
<1>3. QED
  BY <1>1, <1>2, TypesAlways, PTL DEF Spec

\* "Recursive instantiation" is recorded only for a program in which some class
\* templates lead back to themselves (RecursionIsReal): nesting one instance as the
\* argument of another, or meeting one on two ways, is no recursion. For any
\* templates, programs and limits.
THEOREM NoFalseRecursion == Spec => []RecursionIsReal
<1>1. NestedInv => RecursionIsReal
  BY DEF NestedInv
<1>2. QED
  BY <1>1, NestedAlways, PTL

-------------------------------------------------------------------------------
(* What became of what could not be instantiated.                           *)

NullEnd(t) == Last(t) = "null"
NullItem(item) == NullEnd(IF item.k = "type" THEN item.t ELSE item.key.name)

\* There is a trace of it outside of the calls in progress,
Shown ==
    \/ errors # {}
    \/ \E n \in DOMAIN aliasCache : NullEnd(aliasCache[n])
    \/ \E k \in DOMAIN decl : \E i \in DOMAIN decl[k] : NullItem(decl[k][i])

\* or in a call, which will put it into a declaration or a type,
Bears(f) == \/ f.k = "clone" /\ \E j \in DOMAIN f.items : NullItem(f.items[j])
            \/ f.k = "resolve" /\ f.at = "made" /\ NullEnd(f.key.name)

\* or in what the last call has returned.
Waits(f) == f.at \in {"item", "alias"} \/ (f.k = "resolve" /\ f.at = "args")
Failing(c, r) == c # <<>> /\ (Last(c).at = "refused" \/ (Waits(Last(c)) /\ NullEnd(r)))

Bearing(c) == \E i \in DOMAIN c : Bears(c[i])

\* An alias that is being expanded is not in the cache: no trace is overwritten.
NewAlias(c, names) == \A i \in DOMAIN c : c[i].at = "alias" => c[i].key.name \notin names
Unexpanded(f) == f.at = "alias" => f.key.name \notin DOMAIN aliasCache

Traced == failures # {} => Shown \/ Bearing(ctl) \/ Failing(ctl, ret)

FailureInv == NewAlias(ctl, DOMAIN aliasCache) /\ Traced

LEMMA WithFacts ==
    ASSUME Calls, ctl # <<>>, NEW f \in FrameSet, NEW d, d = With(f)
    PROVE  Replaced(ctl, f, d) /\ Len(ctl) \in Nat \ {0} /\ DOMAIN ctl = 1..Len(ctl)
           /\ Top = ctl[Len(ctl)]
<1>1. PICK b, c, e : b = body /\ c = ctl /\ e = Front(c)
  OBVIOUS
<1>2. Stack(c, b) /\ c # <<>>
  BY <1>1 DEF Calls, Recursion
<1>3. /\ e \in Seq(FrameSet) /\ Len(e) = Len(c) - 1
      /\ \A i \in 1..(Len(c) - 1) : e[i] = c[i]
  <2>1. Popped(c, e)
    BY <1>1, <1>2, StackPop
  <2>2. QED
    BY <2>1 DEF Popped
<1>4. PICK n \in Nat \ {0} : n = Len(c) /\ DOMAIN c = 1..n /\ Last(c) = c[n]
  BY <1>2, StackFacts
<1>5. Len(e) = n - 1 /\ d = Append(e, f) /\ n - 1 \in Nat
  BY <1>1, <1>3, <1>4 DEF With
<1>6. /\ d \in Seq(FrameSet) /\ Len(d) = n /\ d[n] = f /\ DOMAIN d = 1..n
      /\ \A i \in 1..(n - 1) : d[i] = c[i]
  BY <1>3, <1>4, <1>5
<1>7. d # <<>> /\ Last(d) = f
  BY <1>4, <1>6 DEF Last
<1>8. QED
  BY <1>1, <1>4, <1>6, <1>7 DEF Replaced, Top

LEMMA FailuresReplace ==
    ASSUME Calls, FailureInv, ctl # <<>>, NEW f \in FrameSet, Unexpanded(f), ctl' = With(f),
           UNCHANGED aliasCache, Shown => Shown', Bears(Top) => Bears(f),
           Failing(ctl, ret) => Shown' \/ Bears(f) \/ f.at = "refused",
           failures' # {} => failures # {} \/ f.at = "refused"
    PROVE  FailureInv'
<1>1. PICK c, d, names, r : c = ctl /\ d = ctl' /\ names = DOMAIN aliasCache /\ r = ret'
  OBVIOUS
<1>2. Replaced(c, f, d) /\ Last(c) = Top
  BY <1>1, WithFacts DEF Top
<1>3. PICK n \in Nat \ {0} : n = Len(c) /\ DOMAIN c = 1..n /\ Top = c[n]
  BY <1>1, WithFacts
<1>4. DOMAIN d = 1..n /\ d[n] = f /\ Last(d) = f /\ d # <<>> /\ \A i \in 1..(n - 1) : d[i] = c[i]
  BY <1>2, <1>3 DEF Replaced
<1>5. \A i \in 1..n : i = n \/ i \in 1..(n - 1)
  BY <1>3
<1>6. NewAlias(d, names)
  <2>1. NewAlias(c, names)
    BY <1>1 DEF FailureInv
  <2>2. f.at = "alias" => f.key.name \notin names
    BY <1>1 DEF Unexpanded
  <2>3. QED
    BY <1>3, <1>4, <1>5, <2>1, <2>2 DEF NewAlias
<1>7. Bearing(c) => Bearing(d)
  <2>1. SUFFICES ASSUME NEW i \in DOMAIN c, Bears(c[i]) PROVE Bearing(d)
    BY DEF Bearing
  <2>2. CASE i = n
    BY <1>3, <1>4, <2>1, <2>2 DEF Bearing
  <2>3. CASE i # n
    BY <1>3, <1>4, <1>5, <2>1, <2>3 DEF Bearing
  <2>4. QED
    BY <2>2, <2>3
<1>8. Bears(f) => Bearing(d)
  BY <1>3, <1>4 DEF Bearing
<1>9. f.at = "refused" => Failing(d, r)
  BY <1>4 DEF Failing
<1>10. failures' # {} => Shown' \/ Bearing(d) \/ Failing(d, r)
  <2>1. Bearing(ctl) => Bearing(d)
    BY <1>1, <1>7
  <2>2. QED
    BY <1>8, <1>9, <2>1 DEF FailureInv, Traced
<1>11. QED
  BY <1>1, <1>6, <1>10 DEF FailureInv, Traced

LEMMA FailuresEnter ==
    ASSUME Calls, FailureInv, ctl # <<>>, NEW f \in FrameSet, Unexpanded(f),
           NEW g \in FrameSet, g.at = "enter", ctl' = Append(With(f), g),
           UNCHANGED <<aliasCache, failures>>, Shown => Shown', Bears(Top) => Bears(f),
           Failing(ctl, ret) => Shown' \/ Bears(f)
    PROVE  FailureInv'
<1>1. PICK c, d, e, names, r : /\ c = ctl /\ d = ctl' /\ names = DOMAIN aliasCache /\ r = ret'
                               /\ e = With(f)
  OBVIOUS
<1>2. Replaced(c, f, e) /\ Last(c) = Top
  BY <1>1, WithFacts DEF Top
<1>3. PICK n \in Nat \ {0} : n = Len(c) /\ DOMAIN c = 1..n /\ Top = c[n]
  BY <1>1, WithFacts
<1>4. /\ e \in Seq(FrameSet) /\ Len(e) = n /\ DOMAIN e = 1..n /\ e[n] = f
      /\ \A i \in 1..(n - 1) : e[i] = c[i]
  BY <1>2, <1>3 DEF Replaced
<1>5. /\ DOMAIN d = 1..(n + 1) /\ d[n + 1] = g /\ \A i \in 1..n : d[i] = e[i]
  BY <1>1, <1>4
<1>6. \A i \in 1..(n + 1) : i = n + 1 \/ i = n \/ i \in 1..(n - 1)
  BY <1>3
<1>7. /\ n \in 1..n /\ n \in 1..(n + 1)
      /\ \A i \in 1..(n - 1) : i \in 1..n /\ i \in 1..(n + 1)
  BY <1>3
<1>8. d[n] = f /\ \A i \in 1..(n - 1) : d[i] = c[i]
  BY <1>4, <1>5, <1>7
<1>9. NewAlias(d, names)
  <2>1. NewAlias(c, names)
    BY <1>1 DEF FailureInv
  <2>2. f.at = "alias" => f.key.name \notin names
    BY <1>1 DEF Unexpanded
  <2>3. QED
    BY <1>3, <1>5, <1>6, <1>7, <1>8, <2>1, <2>2 DEF NewAlias
<1>10. Bearing(c) => Bearing(d)
  <2>1. SUFFICES ASSUME NEW i \in DOMAIN c, Bears(c[i]) PROVE Bearing(d)
    BY DEF Bearing
  <2>2. CASE i = n
    BY <1>3, <1>5, <1>7, <1>8, <2>1, <2>2 DEF Bearing
  <2>3. CASE i # n
    <3>1. i \in 1..(n - 1)
      BY <1>3, <2>3
    <3>2. QED
      BY <1>5, <1>7, <1>8, <2>1, <3>1 DEF Bearing
  <2>4. QED
    BY <2>2, <2>3
<1>11. Bears(f) => Bearing(d)
  BY <1>5, <1>7, <1>8 DEF Bearing
<1>12. failures' # {} => Shown' \/ Bearing(d) \/ Failing(d, r)
  <2>1. Bearing(ctl) => Bearing(d)
    BY <1>1, <1>10
  <2>2. QED
    BY <1>11, <2>1 DEF FailureInv, Traced
<1>13. QED
  BY <1>1, <1>9, <1>12 DEF FailureInv, Traced

LEMMA FailuresReturn ==
    ASSUME Calls, FailureInv, ctl # <<>>, ctl' = Front(ctl),
           UNCHANGED <<aliasCache, failures>>, Shown => Shown',
           Bears(Top) \/ Failing(ctl, ret) => Shown' \/ (Top.k = "resolve" /\ NullEnd(ret'))
    PROVE  FailureInv'
<1>1. PICK c, d, b, names, r : /\ c = ctl /\ d = ctl' /\ b = body /\ names = DOMAIN aliasCache
                               /\ r = ret'
  OBVIOUS
<1>2. Stack(c, b) /\ c # <<>> /\ d = Front(c)
  BY <1>1 DEF Calls, Recursion
<1>3. Popped(c, d)
  BY <1>2, StackPop
<1>4. PICK n \in Nat \ {0} : n = Len(c) /\ DOMAIN c = 1..n /\ Last(c) = c[n] /\ Top = c[n]
  BY <1>1, <1>2, StackFacts DEF Top
<1>5. DOMAIN d = 1..(n - 1) /\ \A i \in 1..(n - 1) : d[i] = c[i] /\ i \in 1..n
  BY <1>3, <1>4 DEF Popped
<1>6. \A i \in 1..n : i = n \/ i \in 1..(n - 1)
  BY <1>4
<1>7. NewAlias(d, names)
  <2>1. NewAlias(c, names)
    BY <1>1 DEF FailureInv
  <2>2. QED
    BY <1>4, <1>5, <2>1 DEF NewAlias
<1>8. Bearing(c) => Bearing(d) \/ Bears(Top)
  BY <1>4, <1>5, <1>6 DEF Bearing
<1>9. ASSUME Top.k = "resolve", NullEnd(r)
      PROVE  Failing(d, r)
  <2>1. d # <<>>
    <3>1. SUFFICES ASSUME d = <<>> PROVE FALSE
      OBVIOUS
    <3>2. n = 1
      BY <1>3, <1>4, <3>1 DEF Popped
    <3>3. c[1].k \in {"use", "call", "visit"}
      BY <1>2 DEF Stack
    <3>4. QED
      BY <1>4, <1>9, <3>2, <3>3
  <2>2. Above(Last(d), Top)
    BY <1>3, <1>4, <2>1 DEF Popped
  <2>3. Waits(Last(d))
    BY <1>9, <2>2 DEF Above, Waits
  <2>4. QED
    BY <1>9, <2>1, <2>3 DEF Failing
<1>10. failures' # {} => Shown' \/ Bearing(d) \/ Failing(d, r)
  <2>1. Bearing(ctl) => Bearing(d) \/ Bears(Top)
    BY <1>1, <1>8
  <2>2. Top.k = "resolve" /\ NullEnd(ret') => Failing(d, r)
    BY <1>1, <1>9
  <2>3. QED
    BY <2>1, <2>2 DEF FailureInv, Traced
<1>11. QED
  BY <1>1, <1>7, <1>10 DEF FailureInv, Traced

LEMMA ShownStays ==
    ASSUME UNCHANGED <<aliasCache, decl>>, errors \subseteq errors'
    PROVE  Shown => Shown'
<1>1. errors # {} => errors' # {}
  OBVIOUS
<1>2. QED
  BY <1>1 DEF Shown

\* A call that has neither a trace nor a result that is one.
Idle == ~Bears(Top) /\ ~Failing(ctl, ret)

LEMMA IdleFacts ==
    ASSUME ctl # <<>>
    PROVE  /\ Top.k \notin {"clone", "resolve"} => ~Bears(Top)
           /\ Top.at # "made" /\ Top.k # "clone" => ~Bears(Top)
           /\ Top.at \notin {"refused", "item", "alias", "args"} => ~Failing(ctl, ret)
           /\ Top.at = "args" /\ Top.k # "resolve" => ~Failing(ctl, ret)
           /\ ~NullEnd(ret) /\ Top.at # "refused" => ~Failing(ctl, ret)
BY DEF Bears, Failing, Waits, Top

LEMMA FailuresEvaluate ==
    ASSUME Calls, FailureInv, ctl # <<>>, NEW f \in FrameSet, Unexpanded(f),
           NEW path \in Paths, NEW leaf \in Types, NEW k \in {"use", "resolve"},
           NEW g, g = Frame(k, path, leaf, Key(Plain, 0)), Evaluate(f, path, leaf, g),
           UNCHANGED <<aliasCache, failures>>, Shown => Shown', Bears(Top) => Bears(f),
           ~Failing(ctl, ret)
    PROVE  FailureInv'
<1>1. CASE Named(path) = <<>>
  <2>1. ctl' = With(f)
    BY <1>1 DEF Evaluate
  <2>2. failures' # {} => failures # {} \/ f.at = "refused"
    OBVIOUS
  <2>3. UNCHANGED aliasCache
    OBVIOUS
  <2>4. QED
    BY <2>1, <2>2, <2>3, FailuresReplace
<1>2. CASE Named(path) # <<>>
  <2>1. ctl' = Append(With(f), g)
    BY <1>2 DEF Evaluate, Enter
  <2>2. g \in FrameSet /\ g.at = "enter"
    BY <1>2, EvaluateFrame
  <2>3. QED
    BY <2>1, <2>2, FailuresEnter
<1>3. QED
  BY <1>1, <1>2

LEMMA FailuresInstantiate ==
    ASSUME Calls, FailureInv, ctl # <<>>, NEW f \in FrameSet, f.at = "made",
           NEW h \in FrameSet, h.at = "refused", NEW key \in Instances,
           NEW d, Instantiate(key, d, f, h), UNCHANGED aliasCache, Shown => Shown',
           ~Bears(Top), Failing(ctl, ret) => Bears(f)
    PROVE  FailureInv'
<1>1. Unexpanded(f) /\ Unexpanded(h)
  BY DEF Unexpanded
<1>2. CASE Status(key) = "done"
  <2>1. ctl' = With(f) /\ failures' = failures
    BY <1>2 DEF Instantiate, Continue
  <2>2. QED
    BY <1>1, <2>1, FailuresReplace
<1>3. CASE Status(key) # "done" /\ Refusal(key, d) # {}
  <2>1. ctl' = With(h)
    BY <1>3 DEF Instantiate, Continue
  <2>2. QED
    BY <1>1, <2>1, FailuresReplace
<1>4. CASE Status(key) # "done" /\ Refusal(key, d) = {}
  <2>1. PICK g : g = Clone(key)
    OBVIOUS
  <2>2. g = Frame("clone", <<>>, Plain, key) /\ key \in Keys /\ "clone" \in Kinds /\ <<>> \in Paths
    BY <2>1 DEF Clone, Instances, Kinds, Paths
  <2>3. g \in FrameSet /\ g.at = "enter"
    BY <2>2, PlainTypes, FrameFacts
  <2>4. ctl' = Append(With(f), g) /\ failures' = failures
    BY <1>4, <2>1 DEF Instantiate, Enter
  <2>5. QED
    BY <1>1, <2>3, <2>4, FailuresEnter
<1>5. QED
  BY <1>2, <1>3, <1>4

LEMMA FailuresVisit ==
    ASSUME Calls, FailureInv, ctl # <<>>, NEW f \in FrameSet, f.at # "alias", NEW key,
           Continue(f) \/ (key \in DOMAIN decl /\ StartVisit(f, key)),
           UNCHANGED <<aliasCache, failures>>, Shown => Shown', Idle
    PROVE  FailureInv'
<1>1. Unexpanded(f) /\ ~Bears(Top) /\ ~Failing(ctl, ret)
  BY DEF Unexpanded, Idle
<1>2. CASE Continue(f)
  <2>1. ctl' = With(f)
    BY <1>2 DEF Continue
  <2>2. QED
    BY <1>1, <2>1, FailuresReplace
<1>3. CASE key \in DOMAIN decl /\ StartVisit(f, key)
  <2>1. PICK g : g = Visit(key)
    OBVIOUS
  <2>2. g = Frame("visit", <<>>, Plain, key) /\ key \in Instances
    BY <1>3, <2>1, TableFacts DEF Visit
  <2>3. g \in FrameSet /\ g.at = "enter"
    BY <2>2, InstanceFrame
  <2>4. ctl' = Append(With(f), g)
    BY <1>3, <2>1 DEF StartVisit, Enter
  <2>5. QED
    BY <1>1, <2>3, <2>4, FailuresEnter
<1>4. QED
  BY <1>2, <1>3

LEMMA FailuresClone ==
    ASSUME TypeInv, FailureInv, CloneItem \/ CloneNext \/ CloneEnd
    PROVE  FailureInv'
<1>1. Calls /\ Values /\ ctl # <<>> /\ Top.k = "clone"
  BY DEF TypeInv, CloneItem, CloneNext, CloneEnd, In
<1>2. UNCHANGED <<aliasCache, failures, errors>>
  BY DEF CloneItem, CloneNext, CloneEnd, regVars, semaVars
<1>3. CASE CloneItem
  <2>1. /\ Top.at = "enter" /\ Top.i <= Len(Body) /\ Top.i \in Nat \ {0} /\ Top.key \in Instances
    BY <1>1, <1>3, TopFacts DEF CloneItem, In, Fits
  <2>2. PICK item, path, leaf, f, g, k : /\ item = Body[Top.i] /\ leaf = LeafOf(item, Top.key)
                                         /\ path = item.path /\ f = At("item") /\ k = "resolve"
                                         /\ g = Resolve(path, leaf)
    OBVIOUS
  <2>3. Body \in Seq(Items) /\ item \in Items
    <3>1. Body \in Seq(Items)
      BY <1>1, <2>1, BodyFacts DEF Values, Body
    <3>2. QED
      BY <2>1, <2>2, <3>1
  <2>4. path \in Paths /\ leaf \in Types
    BY <2>1, <2>2, <2>3, ItemFacts, LeafType DEF Instances
  <2>5. f \in FrameSet /\ f.k = Top.k /\ f.at = "item" /\ f.items = Top.items
    BY <1>1, <2>2, KinAt DEF Places, Kin
  <2>6. Unexpanded(f) /\ (Bears(Top) => Bears(f)) /\ ~Failing(ctl, ret)
    BY <1>1, <2>1, <2>5, IdleFacts DEF Unexpanded, Bears
  <2>7. g = Frame(k, path, leaf, Key(Plain, 0)) /\ k \in {"use", "resolve"}
    BY <2>2 DEF Resolve
  <2>8. Evaluate(f, path, leaf, g) /\ UNCHANGED decl
    BY <1>3, <2>2 DEF CloneItem, regVars
  <2>9. Shown => Shown'
    BY <1>2, <2>8, ShownStays
  <2>10. QED
    BY <1>1, <1>2, <2>4, <2>5, <2>6, <2>7, <2>8, <2>9, FailuresEvaluate
<1>4. CASE CloneNext
  <2>1. In("clone", "item") /\ Top.at = "item"
    BY <1>4 DEF CloneNext, In
  <2>2. PICK item, copy, items, f : Copied(item, copy, items, f)
    BY DEF Copied
  <2>3. /\ item \in Items /\ copy \in Copies /\ copy.k = item.k
        /\ item.k = "type" => copy.t = ret
        /\ item.k = "call" => Last(copy.key.name) = Last(ret)
        /\ Top.items \in Seq(Copies)
        /\ f \in FrameSet /\ f.k = Top.k /\ f.at = "enter" /\ f.items = items
    BY <1>1, <2>1, <2>2, CopyFacts
  <2>4. PICK n \in Nat : n = Len(Top.items)
    BY <2>3
  <2>5. DOMAIN items = 1..(n + 1) /\ items[n + 1] = copy /\ DOMAIN Top.items = 1..n
        /\ \A j \in 1..n : items[j] = Top.items[j]
    BY <2>2, <2>3, <2>4 DEF Copied
  <2>6. Bears(Top) => Bears(f)
    <3>1. SUFFICES ASSUME NEW j \in 1..n, NullItem(Top.items[j]) PROVE Bears(f)
      BY <1>1, <2>5 DEF Bears
    <3>2. j \in DOMAIN f.items /\ f.items[j] = Top.items[j]
      BY <2>3, <2>4, <2>5
    <3>3. QED
      BY <1>1, <2>3, <3>1, <3>2 DEF Bears
  <2>7. NullEnd(ret) => Bears(f)
    <3>1. NullEnd(ret) => NullItem(copy)
      BY <2>3, ItemFacts DEF NullItem, NullEnd
    <3>2. n + 1 \in DOMAIN f.items /\ f.items[n + 1] = copy
      BY <2>3, <2>4, <2>5
    <3>3. QED
      BY <1>1, <2>3, <3>1, <3>2 DEF Bears
  <2>8. Failing(ctl, ret) => Bears(f)
    BY <1>1, <2>1, <2>7, IdleFacts
  <2>9. ctl' = With(f) /\ UNCHANGED decl
    BY <1>4, <2>2 DEF CloneNext, Copied, CopyOf, Continue, regVars
  <2>10. Shown => Shown'
    BY <1>2, <2>9, ShownStays
  <2>11. Unexpanded(f)
    BY <2>3 DEF Unexpanded
  <2>12. UNCHANGED aliasCache /\ (failures' # {} => failures # {} \/ f.at = "refused")
    BY <1>2
  <2>13. QED
    BY <1>1, <2>3, <2>6, <2>8, <2>9, <2>10, <2>11, <2>12, FailuresReplace
<1>5. CASE CloneEnd
  <2>1. Top.at = "enter" /\ ctl' = Front(ctl)
    BY <1>5 DEF CloneEnd, In, Return
  <2>2. PICK key, d : key = Top.key /\ d = decl'
    OBVIOUS
  <2>3. DOMAIN d = DOMAIN decl \cup {key}
        /\ \A k \in DOMAIN d : d[k] = IF k = key THEN Top.items ELSE decl[k]
    BY <1>5, <2>2 DEF CloneEnd
  <2>4. key \notin DOMAIN decl
    <3>1. Len(ctl) \in DOMAIN ctl /\ Top = ctl[Len(ctl)]
      BY <1>1, StackFacts DEF Calls, Recursion, Top
    <3>2. Cloning(ctl, key)
      BY <1>1, <2>2, <3>1 DEF Cloning
    <3>3. key \in DOMAIN states /\ states[key] = "instantiating"
      BY <1>1, <2>2, <3>2, TopFacts DEF Calls, Recursion, Registry
    <3>4. QED
      BY <1>1, <3>3, TableFacts
  <2>5. Shown => Shown'
    <3>1. ASSUME NEW k \in DOMAIN decl, NEW i \in DOMAIN decl[k], NullItem(decl[k][i])
          PROVE  Shown'
      <4>1. k \in DOMAIN d /\ d[k] = decl[k]
        BY <2>3, <2>4
      <4>2. \E l \in DOMAIN d : \E j \in DOMAIN d[l] : NullItem(d[l][j])
        BY <3>1, <4>1
      <4>3. QED
        BY <2>2, <4>2 DEF Shown
    <3>2. errors # {} => Shown'
      BY <1>2 DEF Shown
    <3>3. (\E n \in DOMAIN aliasCache : NullEnd(aliasCache[n])) => Shown'
      BY <1>2 DEF Shown
    <3>4. QED
      BY <3>1, <3>2, <3>3 DEF Shown
  <2>6. Bears(Top) => Shown'
    <3>1. SUFFICES ASSUME NEW j \in DOMAIN Top.items, NullItem(Top.items[j]) PROVE Shown'
      BY <1>1 DEF Bears
    <3>2. key \in DOMAIN d /\ d[key] = Top.items
      BY <2>3
    <3>3. \E l \in DOMAIN d : \E i \in DOMAIN d[l] : NullItem(d[l][i])
      BY <3>1, <3>2
    <3>4. QED
      BY <2>2, <3>3 DEF Shown
  <2>7. ~Failing(ctl, ret)
    BY <1>1, <2>1, IdleFacts
  <2>8. QED
    BY <1>1, <1>2, <2>1, <2>5, <2>6, <2>7, FailuresReturn
<1>6. QED
  BY <1>3, <1>4, <1>5

LEMMA FailuresResolve ==
    ASSUME TypeInv, FailureInv, ResolveEnter \/ ResolveArgs \/ ResolveEnd
    PROVE  FailureInv'
<1>1. Calls /\ Values /\ ctl # <<>> /\ Top.k = "resolve" /\ ret \in Types
  BY DEF TypeInv, ResolveEnter, ResolveArgs, ResolveEnd, In, Values
<1>2. UNCHANGED <<aliasCache, errors>> /\ UNCHANGED decl
  BY DEF ResolveEnter, ResolveArgs, ResolveEnd, Instantiate, regVars, semaVars
<1>3. Shown => Shown'
  BY <1>2, ShownStays
<1>4. /\ Top \in FrameSet /\ Top.leaf \in Types /\ Top.path \in Paths /\ Top.key \in Keys
      /\ Fits(Top, body)
  BY <1>1, TopFacts
<1>5. PICK h : h = At("refused")
  OBVIOUS
<1>6. h \in FrameSet /\ h.at = "refused" /\ Unexpanded(h)
  BY <1>1, <1>5, KinAt DEF Places, Kin, Unexpanded
<1>7. ASSUME Top.at \in {"enter", "args"}, ctl' = With(h)
      PROVE  FailureInv'
  <2>1. ~Bears(Top)
    BY <1>1, <1>7, IdleFacts
  <2>2. UNCHANGED aliasCache /\ (failures' # {} => failures # {} \/ h.at = "refused")
    BY <1>2, <1>6
  <2>3. QED
    BY <1>1, <1>3, <1>6, <1>7, <2>1, <2>2, FailuresReplace
<1>8. CASE ResolveEnter
  <2>1. Top.at = "enter"
    BY <1>8 DEF ResolveEnter, In
  <2>2. PICK arg, leaf, f, g, k : /\ arg = Tail(Named(Top.path)) /\ leaf = Top.leaf
                                  /\ f = At("args") /\ g = Resolve(arg, leaf) /\ k = "resolve"
    OBVIOUS
  <2>3. f \in FrameSet /\ f.at = "args" /\ Unexpanded(f)
    BY <1>1, <2>2, KinAt DEF Places, Kin, Unexpanded
  <2>4. arg \in Paths /\ leaf \in Types
    BY <1>1, <1>4, <2>2, ArgFacts
  <2>5. g = Frame(k, arg, leaf, Key(Plain, 0)) /\ k \in {"use", "resolve"}
    BY <2>2 DEF Resolve
  <2>6. ~Bears(Top) /\ ~Failing(ctl, ret)
    BY <1>1, <2>1, IdleFacts
  <2>7. ctl' = With(h) \/ (Evaluate(f, arg, leaf, g) /\ UNCHANGED failures)
    BY <1>5, <1>8, <2>2 DEF ResolveEnter, Continue
  <2>8. CASE Evaluate(f, arg, leaf, g) /\ UNCHANGED failures
    <3>1. Evaluate(f, arg, leaf, g) /\ UNCHANGED <<aliasCache, failures>>
      BY <1>2, <2>8
    <3>2. QED
      BY <1>1, <1>3, <2>3, <2>4, <2>5, <2>6, <3>1, FailuresEvaluate
  <2>9. QED
    BY <1>7, <2>1, <2>7, <2>8
<1>9. CASE ResolveArgs
  <2>1. Top.at = "args"
    BY <1>9 DEF ResolveArgs, In
  <2>2. PICK name, key, e, f, d : /\ name = <<Head(Named(Top.path))>> \o ret /\ key = Key(name, 0)
                                  /\ e = At("made") /\ f = [e EXCEPT !.key = key] /\ d = depth - 1
    OBVIOUS
  <2>3. name \in Types /\ Len(name) >= 2 /\ Last(name) = Last(ret)
    BY <1>1, <2>2, NamedType
  <2>4. CASE Head(name) \in registered \cap Structs
    <3>1. key \in Instances /\ key \in Keys /\ key.name = name
      BY <2>2, <2>3, <2>4, CallingFacts DEF Instances
    <3>2. e \in FrameSet /\ e.k = "resolve" /\ e.at = "made"
      BY <1>1, <2>2, KinAt DEF Places, Kin
    <3>3. /\ f \in FrameSet /\ f.k = "resolve" /\ f.at = "made" /\ f.key = key
      BY <2>2, <3>1, <3>2, FrameKey
    <3>4. ~Bears(Top)
      BY <1>1, <2>1, IdleFacts
    <3>5. NullEnd(ret) => Bears(f)
      BY <2>3, <3>1, <3>3 DEF NullEnd, Bears
    <3>6. Failing(ctl, ret) => Bears(f)
      BY <1>1, <2>1, <3>5, IdleFacts
    <3>7. Instantiate(key, d, f, h) /\ UNCHANGED aliasCache
      BY <1>2, <1>5, <1>9, <2>2, <2>4 DEF ResolveArgs
    <3>8. QED
      BY <1>1, <1>3, <1>6, <3>1, <3>3, <3>4, <3>6, <3>7, FailuresInstantiate
  <2>5. CASE Head(name) \notin registered \cap Structs
    <3>1. ctl' = With(h)
      BY <1>5, <1>9, <2>2, <2>5 DEF ResolveArgs, Continue
    <3>2. QED
      BY <1>7, <2>1, <3>1
  <2>6. QED
    BY <2>4, <2>5
<1>10. CASE ResolveEnd
  <2>1. /\ ctl' = Front(ctl) /\ UNCHANGED <<aliasCache, failures>>
        /\ Top.at \in {"made", "refused"}
    BY <1>10 DEF ResolveEnd, Return, In, regVars, semaVars
  <2>2. CASE Top.at = "made"
    <3>1. PICK t : t = Top.key.name /\ ret' = Outer(Top.path) \o t
      BY <1>10, <2>2 DEF ResolveEnd, In, Return
    <3>2. t \in Types
      BY <1>4, <3>1 DEF Keys
    <3>3. Last(ret') = Last(t)
      BY <1>4, <3>1, <3>2, PathType
    <3>4. Bears(Top) => NullEnd(ret')
      BY <1>1, <3>1, <3>3 DEF Bears, NullEnd
    <3>5. ~Failing(ctl, ret)
      BY <1>1, <2>2, IdleFacts
    <3>6. QED
      BY <1>1, <1>3, <2>1, <3>4, <3>5, FailuresReturn
  <2>3. CASE Top.at = "refused"
    <3>1. PICK t : t = Null /\ ret' = Outer(Top.path) \o t
      BY <1>10, <2>3 DEF ResolveEnd, In, Return
    <3>2. t \in Types /\ Last(t) = "null"
      BY <3>1, PlainTypes
    <3>3. Last(ret') = Last(t)
      BY <1>4, <3>1, <3>2, PathType
    <3>4. NullEnd(ret')
      BY <3>2, <3>3 DEF NullEnd
    <3>5. QED
      BY <1>1, <1>3, <2>1, <3>4, FailuresReturn
  <2>4. QED
    BY <2>1, <2>2, <2>3
<1>11. QED
  BY <1>8, <1>9, <1>10

LEMMA FailuresAnalysis ==
    ASSUME TypeInv, FailureInv,
           \/ VisitField \/ CompleteStruct \/ DeclareFunction \/ VisitLocal \/ VisitCall
           \/ VisitEnd \/ CallEnter \/ CallMade \/ CallEnd
    PROVE  FailureInv'
<1>1. Calls /\ Values /\ ctl # <<>> /\ Top.k \in {"visit", "call"}
  BY DEF TypeInv, VisitField, CompleteStruct, DeclareFunction, VisitLocal, VisitCall,
         VisitEnd, CallEnter, CallMade, CallEnd, In
<1>2. UNCHANGED aliasCache /\ UNCHANGED decl /\ errors \subseteq errors'
  BY DEF VisitField, CompleteStruct, DeclareFunction, VisitLocal, VisitCall,
         VisitEnd, CallEnter, CallMade, CallEnd, Instantiate, regVars, semaVars
<1>3. Shown => Shown'
  <2>1. UNCHANGED <<aliasCache, decl>> /\ errors \subseteq errors'
    BY <1>2
  <2>2. QED
    BY <2>1, ShownStays
<1>4. ~Bears(Top)
  BY <1>1, IdleFacts
<1>5. ASSUME NEW at \in Places, NEW f, f = At(at)
      PROVE  f \in FrameSet /\ f.at = at /\ f.k = Top.k
  BY <1>1, <1>5, KinAt DEF Kin
<1>6. {"body", "made", "refused", "out"} \subseteq Places
  BY DEF Places
<1>7. Top.at # "refused" => ~Failing(ctl, ret)
  <2>1. Top.at \notin {"item", "alias", "args"}
    BY <1>1, TopFacts DEF Fits
  <2>2. QED
    BY <1>1, <2>1, IdleFacts
<1>8. ASSUME Top.at # "refused", NEW f \in FrameSet, f.at # "alias", ctl' = With(f),
             failures' # {} => failures # {} \/ f.at = "refused"
      PROVE  FailureInv'
  <2>1. Unexpanded(f)
    BY <1>8 DEF Unexpanded
  <2>2. QED
    BY <1>1, <1>2, <1>3, <1>4, <1>7, <1>8, <2>1, FailuresReplace
<1>9. CASE CompleteStruct \/ DeclareFunction
  <2>1. PICK f : f = At("body")
    OBVIOUS
  <2>2. f \in FrameSet /\ f.at = "body"
    BY <1>5, <1>6, <2>1
  <2>3. ctl' = With(f) /\ failures' = failures /\ Top.at = "enter"
    BY <1>9, <2>1 DEF CompleteStruct, DeclareFunction, Continue, In, regVars
  <2>4. QED
    BY <1>8, <2>2, <2>3
<1>10. CASE VisitEnd \/ CallEnd
  <2>1. ctl' = Front(ctl) /\ UNCHANGED <<aliasCache, failures>>
    BY <1>10 DEF VisitEnd, CallEnd, Return, regVars, semaVars
  <2>2. Top.at = "refused" => Shown'
    <3>1. ASSUME Top.at = "refused" PROVE errors' # {}
      BY <1>10, <3>1 DEF VisitEnd, CallEnd, In
    <3>2. QED
      BY <3>1 DEF Shown
  <2>3. QED
    BY <1>1, <1>3, <1>4, <1>7, <2>1, <2>2, FailuresReturn
<1>11. CASE VisitField \/ VisitLocal \/ VisitCall
  <2>1. PICK f : f = NextItem
    OBVIOUS
  <2>2. f \in FrameSet /\ f.at = Top.at /\ Top.at \in {"enter", "body"}
    BY <1>1, <1>11, <2>1, KinNext DEF VisitField, VisitLocal, VisitCall, In, Kin
  <2>3. UNCHANGED <<aliasCache, failures>>
    BY <1>11 DEF VisitField, VisitLocal, VisitCall, regVars, semaVars
  <2>4. CASE VisitLocal
    <3>1. ctl' = With(f)
      BY <2>1, <2>4 DEF VisitLocal, Continue
    <3>2. QED
      BY <1>8, <2>2, <2>3, <3>1
  <2>5. CASE VisitField
    <3>1. PICK key : Continue(f) \/ (key \in DOMAIN decl /\ StartVisit(f, key))
      BY <2>1, <2>5 DEF VisitField, EnsureVisited
    <3>2. Idle /\ f.at # "alias"
      BY <1>4, <1>7, <2>2 DEF Idle
    <3>3. QED
      BY <1>1, <1>3, <2>2, <2>3, <3>1, <3>2, FailuresVisit
  <2>6. CASE VisitCall
    <3>1. PICK key, g : key = Copy[Top.i].key /\ g = Call(key) /\ ctl' = Append(With(f), g)
      BY <2>1, <2>6 DEF VisitCall, Enter
    <3>2. g \in FrameSet /\ g.at = "enter"
      <4>1. Top.k = "visit" /\ Top.i <= Len(Copy) /\ Copy[Top.i].k = "call"
        BY <2>6 DEF VisitCall, In, ItemIs
      <4>2. Top.key \in DOMAIN decl /\ Top.i \in Nat \ {0}
        BY <1>1, <4>1, TopFacts
      <4>3. Copy \in Seq(Copies)
        BY <1>1, <4>2 DEF Values, Copy
      <4>4. Copy[Top.i] \in Copies
        BY <4>1, <4>2, <4>3
      <4>5. key \in Calling
        BY <3>1, <4>1, <4>4 DEF Copies
      <4>6. g = Frame("call", <<>>, Plain, key) /\ key \in Instances /\ TemplateOf(key) \in Functions
        BY <3>1, <4>5 DEF Call, Calling
      <4>7. QED
        BY <4>6, InstanceFrame
    <3>3. Unexpanded(f) /\ ~Failing(ctl, ret)
      BY <1>7, <2>2 DEF Unexpanded
    <3>4. QED
      BY <1>1, <1>3, <1>4, <2>2, <2>3, <3>1, <3>2, <3>3, FailuresEnter
  <2>7. QED
    BY <1>11, <2>4, <2>5, <2>6
<1>12. CASE CallEnter
  <2>1. PICK key, d, f, h : key = Top.key /\ d = depth /\ f = At("made") /\ h = At("refused")
    OBVIOUS
  <2>2. key \in Instances /\ Top.at = "enter"
    BY <1>1, <1>12, <2>1, TopFacts DEF CallEnter, In, Fits
  <2>3. f \in FrameSet /\ f.at = "made" /\ h \in FrameSet /\ h.at = "refused"
    BY <1>5, <1>6, <2>1
  <2>4. CASE Instantiate(key, d, f, h)
    <3>1. UNCHANGED aliasCache /\ (Failing(ctl, ret) => Bears(f))
      BY <1>2, <1>7, <2>2
    <3>2. QED
      BY <1>1, <1>3, <1>4, <2>2, <2>3, <2>4, <3>1, FailuresInstantiate
  <2>5. CASE ctl' = With(h) /\ failures' = failures
    <3>1. h.at # "alias" /\ (failures' # {} => failures # {} \/ h.at = "refused") /\ ctl' = With(h)
      BY <2>3, <2>5
    <3>2. QED
      BY <1>8, <2>2, <2>3, <3>1
  <2>6. Instantiate(key, d, f, h) \/ (ctl' = With(h) /\ failures' = failures)
    BY <1>12, <2>1 DEF CallEnter, Continue, regVars
  <2>7. QED
    BY <2>4, <2>5, <2>6
<1>13. CASE CallMade
  <2>1. PICK key, f : key = Top.key /\ f = At("out")
    OBVIOUS
  <2>2. Top.k = "call" /\ key \in DOMAIN decl /\ Top.at = "made"
    BY <1>1, <1>13, <2>1, TopFacts DEF CallMade, In, Wanted
  <2>3. f \in FrameSet /\ f.at = "out" /\ f.at # "alias"
    BY <1>5, <1>6, <2>1
  <2>4. /\ Continue(f) \/ (key \in DOMAIN decl /\ StartVisit(f, key))
        /\ UNCHANGED <<aliasCache, failures>>
    BY <1>13, <2>1, <2>2 DEF CallMade, regVars
  <2>5. Idle
    BY <1>4, <1>7, <2>2 DEF Idle
  <2>6. QED
    BY <1>1, <1>3, <2>3, <2>4, <2>5, FailuresVisit
<1>14. QED
  BY <1>9, <1>10, <1>11, <1>12, <1>13

LEMMA FailuresUse ==
    ASSUME TypeInv, FailureInv,
           UseEnter \/ UseAlias \/ UseClass \/ UseMade \/ UseEnd
    PROVE  FailureInv'
<1>1. Calls /\ Values /\ ctl # <<>> /\ Top.k = "use" /\ ret \in Types
  BY DEF TypeInv, UseEnter, UseAlias, UseClass, UseMade, UseEnd, In, Values
<1>2. UNCHANGED aliasCache /\ UNCHANGED decl /\ errors \subseteq errors'
  BY DEF UseEnter, UseAlias, UseClass, UseMade, UseEnd, Instantiate, regVars, semaVars
<1>3. Shown => Shown'
  <2>1. UNCHANGED <<aliasCache, decl>> /\ errors \subseteq errors'
    BY <1>2
  <2>2. QED
    BY <2>1, ShownStays
<1>4. ~Bears(Top)
  BY <1>1, IdleFacts
<1>5. ASSUME NEW at \in Places, NEW f, f = At(at)
      PROVE  f \in FrameSet /\ f.at = at /\ f.k = Top.k
  BY <1>1, <1>5, KinAt DEF Kin
<1>6. {"args", "alias", "made", "refused", "out"} \subseteq Places
  BY DEF Places
<1>7. Top.at \notin {"refused", "alias"} => ~Failing(ctl, ret)
  <2>1. Top.at # "item"
    BY <1>1, TopFacts DEF Fits
  <2>2. QED
    BY <1>1, <2>1, IdleFacts
<1>8. ASSUME Top.at \notin {"refused", "alias"}, NEW f \in FrameSet, f.at # "alias", ctl' = With(f),
             failures' # {} => failures # {} \/ f.at = "refused"
      PROVE  FailureInv'
  <2>1. Unexpanded(f)
    BY <1>8 DEF Unexpanded
  <2>2. QED
    BY <1>1, <1>2, <1>3, <1>4, <1>7, <1>8, <2>1, FailuresReplace
<1>9. CASE UseEnter
  <2>1. Top.at = "enter" /\ UNCHANGED <<aliasCache, failures>>
    BY <1>9 DEF UseEnter, In, regVars
  <2>2. PICK arg, leaf, f, g, k : /\ arg = Tail(Named(Top.path)) /\ leaf = Plain
                                  /\ f = At("args") /\ g = Use(arg) /\ k = "use"
    OBVIOUS
  <2>3. CASE Evaluate(f, arg, leaf, g)
    <3>1. f \in FrameSet /\ f.at = "args" /\ Unexpanded(f)
      BY <1>5, <1>6, <2>2 DEF Unexpanded
    <3>2. arg \in Paths /\ leaf \in Types
      BY <1>1, <2>2, TopFacts, ArgFacts, PlainTypes
    <3>3. g = Frame(k, arg, leaf, Key(Plain, 0)) /\ k \in {"use", "resolve"}
      BY <2>2 DEF Use
    <3>4. ~Failing(ctl, ret)
      BY <1>7, <2>1
    <3>5. QED
      BY <1>1, <1>3, <1>4, <2>1, <2>3, <3>1, <3>2, <3>3, <3>4, FailuresEvaluate
  <2>4. CASE ctl' = Front(ctl)
    <3>1. ~Failing(ctl, ret)
      BY <1>7, <2>1
    <3>2. QED
      BY <1>1, <1>3, <1>4, <2>1, <2>4, <3>1, FailuresReturn
  <2>5. QED
    BY <1>9, <2>2, <2>3, <2>4 DEF UseEnter, Return
<1>10. CASE UseAlias
  <2>1. Top.at = "args" /\ UNCHANGED <<aliasCache, failures>>
    BY <1>10 DEF UseAlias, In, regVars, semaVars
  <2>2. PICK name, key, item, leaf, e, f, g, path, k :
           /\ name = <<Head(Named(Top.path))>> \o ret /\ key = Key(name, 0)
           /\ item = body[Head(name)][1] /\ leaf = LeafOf(item, key) /\ path = item.path
           /\ e = At("alias") /\ f = [e EXCEPT !.key = key] /\ g = Resolve(path, leaf)
           /\ k = "resolve"
    OBVIOUS
  <2>3. name \in Types /\ Len(name) >= 2 /\ Head(name) \in Aliases
    <3>1. name \in Types /\ Len(name) >= 2
      BY <1>1, <2>2, NamedType
    <3>2. Head(name) \in registered \cap Aliases
      BY <1>10, <2>2 DEF UseAlias
    <3>3. QED
      BY <3>1, <3>2
  <2>4. key.name = name /\ key \in Keys
    BY <2>2, <2>3 DEF Key, Keys
  <2>5. path \in Paths /\ leaf \in Types
    <3>1. item \in Items
      BY <1>1, <2>2, <2>3, BodyFacts DEF Values
    <3>2. leaf \in Types
      BY <2>2, <2>3, <2>4, LeafType
    <3>3. QED
      BY <2>2, <3>1, <3>2, ItemFacts
  <2>6. CASE name \in DOMAIN aliasCache
    <3>1. PICK h : h = Result("out", aliasCache[name])
      OBVIOUS
    <3>2. h \in FrameSet /\ h.at = "out"
      <4>1. aliasCache[name] \in Types
        BY <1>1, <2>6 DEF Values
      <4>2. QED
        BY <1>1, <1>6, <3>1, <4>1, ResultFacts
    <3>3. ctl' = With(h)
      BY <1>10, <2>2, <2>6, <3>1 DEF UseAlias, Continue
    <3>4. QED
      BY <1>8, <2>1, <3>2, <3>3
  <2>7. CASE name \notin DOMAIN aliasCache
    <3>1. Evaluate(f, path, leaf, g)
      BY <1>10, <2>2, <2>7 DEF UseAlias
    <3>2. g = Frame(k, path, leaf, Key(Plain, 0)) /\ k \in {"use", "resolve"}
      BY <2>2 DEF Resolve
    <3>3. e \in FrameSet /\ e.at = "alias"
      BY <1>5, <1>6, <2>2
    <3>4. f \in FrameSet /\ f.at = "alias" /\ f.key = key
      BY <2>2, <2>4, <3>3, FrameKey
    <3>5. Unexpanded(f)
      BY <2>4, <2>7, <3>4 DEF Unexpanded
    <3>6. ~Failing(ctl, ret)
      BY <1>7, <2>1
    <3>7. QED
      BY <1>1, <1>3, <1>4, <2>1, <2>5, <3>1, <3>2, <3>4, <3>5, <3>6, FailuresEvaluate
  <2>8. QED
    BY <2>6, <2>7
<1>11. CASE UseClass
  <2>1. Top.at = "args"
    BY <1>11 DEF UseClass, In
  <2>2. PICK name, key, f, h, d : /\ name = <<Head(Named(Top.path))>> \o ret /\ key = Key(name, 0)
                                  /\ f = Result("made", name) /\ h = At("refused") /\ d = depth
    OBVIOUS
  <2>3. name \in Types /\ Len(name) >= 2
    BY <1>1, <2>2, NamedType
  <2>4. h \in FrameSet /\ h.at = "refused"
    BY <1>5, <1>6, <2>2
  <2>5. f \in FrameSet /\ f.at = "made"
    BY <1>1, <1>6, <2>2, <2>3, ResultFacts
  <2>6. CASE Head(name) \in registered \cap Structs
    <3>1. key \in Instances
      BY <2>2, <2>3, <2>6, CallingFacts
    <3>2. Instantiate(key, d, f, h)
      BY <1>11, <2>2, <2>6 DEF UseClass
    <3>3. UNCHANGED aliasCache /\ (Failing(ctl, ret) => Bears(f))
      BY <1>2, <1>7, <2>1
    <3>4. QED
      BY <1>1, <1>3, <1>4, <2>4, <2>5, <3>1, <3>2, <3>3, FailuresInstantiate
  <2>7. CASE Head(name) \notin registered \cap Structs
    <3>1. ctl' = With(h) /\ failures' = failures
      BY <1>11, <2>2, <2>7 DEF UseClass, Continue, regVars
    <3>2. QED
      BY <1>8, <2>1, <2>4, <3>1
  <2>8. QED
    BY <2>6, <2>7
<1>12. CASE UseMade
  <2>1. PICK key, f : key = Key(Top.leaf, 0) /\ f = At("out")
    OBVIOUS
  <2>2. key \in DOMAIN decl /\ Top.at = "made"
    BY <1>1, <1>12, <2>1, TopFacts DEF UseMade, In, Wanted
  <2>3. f \in FrameSet /\ f.at = "out" /\ f.at # "alias"
    BY <1>5, <1>6, <2>1
  <2>4. /\ Continue(f) \/ (key \in DOMAIN decl /\ StartVisit(f, key))
        /\ UNCHANGED <<aliasCache, failures>>
    BY <1>12, <2>1, <2>2 DEF UseMade, regVars
  <2>5. Idle
    BY <1>4, <1>7, <2>2 DEF Idle
  <2>6. QED
    BY <1>1, <1>3, <2>3, <2>4, <2>5, FailuresVisit
<1>13. CASE UseEnd
  <2>1. ctl' = Front(ctl) /\ UNCHANGED <<aliasCache, failures>> /\ Top.at \in {"out", "refused"}
    BY <1>13 DEF UseEnd, Return, In, regVars, semaVars
  <2>2. Top.at = "refused" => Shown'
    <3>1. ASSUME Top.at = "refused" PROVE errors' # {}
      BY <1>13, <3>1 DEF UseEnd, In
    <3>2. QED
      BY <3>1 DEF Shown
  <2>3. QED
    BY <1>1, <1>3, <1>4, <1>7, <2>1, <2>2, FailuresReturn
<1>14. QED
  BY <1>9, <1>10, <1>11, <1>12, <1>13

\* The alias that has been expanded gets into the cache, and was not in it.
LEMMA FailuresExpanded ==
    ASSUME TypeInv, FailureInv, NestedInv, UseExpanded
    PROVE  FailureInv'
<1>1. Calls /\ Values /\ ctl # <<>> /\ Top.k = "use" /\ Top.at = "alias" /\ ret \in Types
  BY DEF TypeInv, UseExpanded, In, Values
<1>2. PICK name, al, f : /\ name = Top.key.name /\ al = aliasCache' /\ f = Result("out", ret)
  OBVIOUS
<1>3. /\ DOMAIN al = DOMAIN aliasCache \cup {name} /\ al[name] = ret
      /\ \A m \in DOMAIN aliasCache : m # name => al[m] = aliasCache[m]
      /\ failures' = failures /\ errors' = errors /\ decl' = decl /\ ret' = ret
  BY <1>2 DEF UseExpanded, EnsureVisited, StartVisit, Enter, Continue, regVars
<1>4. f \in FrameSet /\ f.k = "use" /\ f.at = "out"
  BY <1>1, <1>2, ResultFacts DEF Places
<1>5. PICK n \in Nat \ {0} : n = Len(ctl) /\ DOMAIN ctl = 1..n /\ Top = ctl[n]
  BY <1>1, <1>4, WithFacts
<1>6. name \notin DOMAIN aliasCache
  BY <1>1, <1>2, <1>5 DEF FailureInv, NewAlias
<1>7. \A i \in 1..(n - 1) : ctl[i].at # "alias"
  <2>1. SUFFICES ASSUME NEW i \in 1..(n - 1), ctl[i].at = "alias" PROVE FALSE
    OBVIOUS
  <2>2. i \in 1..n /\ n \in 1..n /\ i < n
    BY <1>5
  <2>3. Inside(ctl[i])
    BY <2>1 DEF Inside
  <2>4. Inner(ctl[n])
    BY <1>5, <2>2, <2>3 DEF NestedInv, Nested
  <2>5. QED
    BY <1>1, <1>5, <2>4 DEF Inner
<1>8. PICK g, d : /\ d = ctl'
                  /\ \/ d = With(f)
                     \/ g \in FrameSet /\ g.at = "enter" /\ d = Append(With(f), g)
  <2>1. CASE Continue(f)
    BY <2>1 DEF Continue
  <2>2. CASE \E key \in DOMAIN decl : StartVisit(f, key)
    <3>1. PICK key \in DOMAIN decl : StartVisit(f, key)
      BY <2>2
    <3>2. PICK g : g = Visit(key)
      OBVIOUS
    <3>3. g = Frame("visit", <<>>, Plain, key) /\ key \in Instances
      BY <1>1, <3>2, TableFacts DEF Visit
    <3>4. g \in FrameSet /\ g.at = "enter"
      BY <3>3, InstanceFrame
    <3>5. ctl' = Append(With(f), g)
      BY <3>1, <3>2 DEF StartVisit, Enter
    <3>6. QED
      BY <3>4, <3>5
  <2>3. QED
    BY <1>2, <2>1, <2>2 DEF UseExpanded, EnsureVisited
<1>9. PICK e : e = With(f)
  OBVIOUS
<1>10. /\ e \in Seq(FrameSet) /\ Len(e) = n /\ DOMAIN e = 1..n /\ e[n] = f
       /\ \A i \in 1..(n - 1) : e[i] = ctl[i]
  BY <1>1, <1>4, <1>5, <1>9, WithFacts DEF Replaced
<1>11. \A i \in DOMAIN d : d[i].at # "alias"
  <2>1. \A i \in 1..n : e[i].at # "alias"
    <3>1. \A i \in 1..n : i = n \/ i \in 1..(n - 1)
      BY <1>5
    <3>2. QED
      BY <1>4, <1>7, <1>10, <3>1
  <2>2. CASE d = e
    BY <1>10, <2>1, <2>2
  <2>3. CASE g \in FrameSet /\ g.at = "enter" /\ d = Append(e, g)
    <3>1. DOMAIN d = 1..(n + 1) /\ d[n + 1] = g /\ \A i \in 1..n : d[i] = e[i]
      BY <1>10, <2>3
    <3>2. \A i \in 1..(n + 1) : i = n + 1 \/ i \in 1..n
      BY <1>5
    <3>3. QED
      BY <2>1, <2>3, <3>1, <3>2
  <2>4. QED
    BY <1>8, <1>9, <2>2, <2>3
<1>12. Bearing(ctl) => Bearing(d)
  <2>1. SUFFICES ASSUME NEW i \in 1..n, Bears(ctl[i]) PROVE Bearing(d)
    BY <1>5 DEF Bearing
  <2>2. i \in 1..(n - 1)
    <3>1. ~Bears(ctl[n])
      BY <1>1, <1>5 DEF Bears
    <3>2. QED
      BY <1>5, <2>1, <3>1
  <2>3. i \in DOMAIN d /\ d[i] = ctl[i]
    <3>1. i \in 1..n /\ e[i] = ctl[i]
      BY <1>10, <2>2
    <3>2. CASE d = e
      BY <1>10, <3>1, <3>2
    <3>3. CASE g \in FrameSet /\ d = Append(e, g)
      BY <1>10, <3>1, <3>3
    <3>4. QED
      BY <1>8, <1>9, <3>2, <3>3
  <2>4. QED
    BY <2>1, <2>3 DEF Bearing
<1>13. Shown => Shown'
  <2>1. ASSUME NEW m \in DOMAIN aliasCache, NullEnd(aliasCache[m]) PROVE Shown'
    <3>1. m # name /\ m \in DOMAIN al /\ al[m] = aliasCache[m]
      BY <1>3, <1>6
    <3>2. \E l \in DOMAIN al : NullEnd(al[l])
      BY <2>1, <3>1
    <3>3. QED
      BY <1>2, <3>2 DEF Shown
  <2>2. errors # {} \/ (\E k \in DOMAIN decl : \E i \in DOMAIN decl[k] : NullItem(decl[k][i])) => Shown'
    BY <1>3 DEF Shown
  <2>3. QED
    BY <2>1, <2>2 DEF Shown
<1>14. Failing(ctl, ret) => Shown'
  <2>1. SUFFICES ASSUME NullEnd(ret) PROVE Shown'
    BY <1>1, IdleFacts
  <2>2. \E l \in DOMAIN al : NullEnd(al[l])
    BY <1>3, <2>1
  <2>3. QED
    BY <1>2, <2>2 DEF Shown
<1>15. NewAlias(ctl, DOMAIN aliasCache)'
  BY <1>8, <1>11 DEF NewAlias
<1>16. Traced'
  <2>1. failures # {} => Shown \/ Bearing(ctl) \/ Failing(ctl, ret)
    BY DEF FailureInv, Traced
  <2>2. failures' # {} => Shown' \/ Bearing(d)
    BY <1>3, <1>12, <1>13, <1>14, <2>1
  <2>3. QED
    BY <1>8, <2>2 DEF Traced
<1>17. QED
  BY <1>15, <1>16 DEF FailureInv

\* Between the uses of the unit nothing is in progress.
LEMMA FailuresUnit ==
    ASSUME TypeInv, FailureInv, ctl = <<>>, UNCHANGED <<aliasCache, decl, errors, failures>>,
           \A i \in DOMAIN ctl' : ctl'[i].at = "enter"
    PROVE  FailureInv'
<1>1. Shown => Shown'
  BY ShownStays
<1>2. ~Bearing(ctl) /\ ~Failing(ctl, ret)
  BY DEF Bearing, Failing
<1>3. Traced'
  BY <1>1, <1>2 DEF FailureInv, Traced
<1>4. NewAlias(ctl, DOMAIN aliasCache)'
  BY DEF NewAlias
<1>5. QED
  BY <1>3, <1>4 DEF FailureInv

LEMMA FailuresAfterStep == TypeInv /\ NestedInv /\ FailureInv /\ [Next]_vars => FailureInv'
<1> SUFFICES ASSUME TypeInv, NestedInv, FailureInv, [Next]_vars
             PROVE  FailureInv'
  OBVIOUS
<1>1. CASE Unit
  <2>1. ctl = <<>>
    BY <1>1 DEF Unit, RegisterTemplate, UseType, CallFunction, AnalyseCode, EndOfUnit, DrainNext,
                EndOfDrain
  <2>2. UNCHANGED <<aliasCache, decl, errors, failures>>
    BY <1>1 DEF Unit, RegisterTemplate, UseType, CallFunction, AnalyseCode, EndOfUnit, DrainNext,
                EndOfDrain, regVars, semaVars
  <2>3. \/ ctl' = ctl \/ (\E path : ctl' = <<Use(path)>>) \/ (\E key : ctl' = <<Call(key)>>)
        \/ \E key : ctl' = <<Visit(key)>>
    BY <1>1 DEF Unit, RegisterTemplate, UseType, CallFunction, AnalyseCode, EndOfUnit, DrainNext,
                EndOfDrain
  <2>4. \A i \in DOMAIN ctl' : ctl'[i].at = "enter"
    BY <2>1, <2>3 DEF Use, Call, Visit, Frame
  <2>5. QED
    BY <2>1, <2>2, <2>4, FailuresUnit
<1>2. CASE UNCHANGED vars
  <2>1. UNCHANGED <<ctl, ret, aliasCache, decl, errors, failures>>
    BY <1>2 DEF vars, regVars, semaVars
  <2>2. QED
    BY <2>1 DEF FailureInv, Traced, NewAlias, Shown, Bearing, Failing
<1>3. CASE Analyse
  BY <1>3, FailuresAnalysis, FailuresUse, FailuresExpanded DEF Analyse
<1>4. CASE Instantiation
  BY <1>4, FailuresClone, FailuresResolve DEF Instantiation
<1>5. QED
  BY <1>1, <1>2, <1>3, <1>4 DEF Next

\* Whatever could not be instantiated leaves a trace (FailuresShow): a diagnostic, or
\* as the registry's own errors are read by no one, a type that is missing from an
\* alias or a declaration. For any templates, programs and limits.
THEOREM NoFailureIsLost == Spec => []FailuresShow
<1>1. Init => FailureInv
  BY DEF Init, FailureInv, NewAlias, Traced
<1>2. TypeInv /\ NestedInv /\ FailureInv /\ [Next]_vars => FailureInv'
  BY FailuresAfterStep
<1>3. FailureInv => FailuresShow
  <2>1. ASSUME FailureInv, ctl = <<>>, failures # {} PROVE Shown
    BY <2>1 DEF FailureInv, Traced, Bearing, Failing
  <2>2. QED
    BY <2>1 DEF FailuresShow, Shown, NullItem, NullEnd
<1>4. QED
  BY <1>1, <1>2, <1>3, TypesAlways, NestedAlways, PTL DEF Spec

-------------------------------------------------------------------------------
(* The types that are named are declared, copies resemble their bodies, and   *)
(* the analysis of a class begins with those of its fields.                  *)

\* A type that ensureInstanceVisited takes for an instance.
Made(t) == IsInstance(t) /\ HasDollar(t)

\* dl are the declarations, b the bodies of the templates, v what has been visited.
Known(t, dl)        == Made(t) => Key(t, 0) \in DOMAIN dl
KnownItem(item, dl) == Known(IF item.k = "type" THEN item.t ELSE Tail(item.key.name), dl)

Alike(items, key, n, dl, b) ==
    /\ Len(items) = n
    /\ \A j \in 1..n : KnownItem(items[j], dl) /\ items[j].k = b[TemplateOf(key)][j].k

Proper(f, dl, b) ==
    /\ f.k = "resolve" \/ (f.k = "use" /\ f.at # "made") => Known(f.leaf, dl)
    /\ f.k \in {"call", "clone"} => Known(Tail(f.key.name), dl)
    /\ f.k = "clone" => Alike(f.items, f.key, f.i - 1, dl, b)
    /\ f.k \in {"use", "resolve"} /\ f.at = "made" => TemplateOf(Wanted(f)) \in Structs

\* A class that is analysed, and is not complete yet.
StructVisit(f) == f.k = "visit" /\ TemplateOf(f.key) \in Structs
Opens(f)       == StructVisit(f) /\ f.at = "enter"
Opening(c, n)  == \E i \in DOMAIN c : Opens(c[i]) /\ c[i].key.name = n

Seen(t, v) == Made(t) => \E x \in v : x.t = t

Visiting(f, dl, v) ==
    /\ f.k = "use" /\ f.at = "out" => Seen(f.leaf, v)
    /\ Opens(f) => \A j \in DOMAIN dl[f.key] :
                      j < f.i /\ dl[f.key][j].k = "type" => Seen(dl[f.key][j].t, v)

Sound(dl, b, v) == {f \in FrameSet : Proper(f, dl, b) /\ Visiting(f, dl, v)}

SoundInv ==
    /\ \A i \in DOMAIN ctl : ctl[i] \in Sound(decl, body, visited)
    /\ Known(ret, decl)
    /\ \A n \in DOMAIN aliasCache : Known(aliasCache[n], decl) /\ Seen(aliasCache[n], visited)
    /\ \A k \in DOMAIN decl : Alike(decl[k], k, Len(body[TemplateOf(k)]), decl, body)

\* The instances in the order in which their copies were finished.
Queue            == emitted \o pending
Earlier(q, k, l) == \E i, j \in DOMAIN q : i < j /\ q[i] = k /\ q[j] = l

\* What can stand anywhere above what: a class whose analysis has been begun by that
\* of another one is a part of it, and was finished first.
Under(f, g, q) ==
    /\ g.k = "use" => f.k = "use"
    /\ StructVisit(g) => f.k = "use" \/ (StructVisit(f) /\ Earlier(q, g.key, f.key))

\* A frame whose place says nothing of what has been visited.
Calm(f) == ~(f.k = "use" /\ f.at = "out") /\ ~Opens(f)

LEMMA SoundCalm ==
    ASSUME NEW f \in FrameSet, NEW dl, NEW b, NEW v, Proper(f, dl, b), Calm(f)
    PROVE  f \in Sound(dl, b, v)
BY DEF Sound, Calm, Visiting

LEMMA SoundGrows ==
    ASSUME NEW dl, NEW dl2, DOMAIN dl \subseteq DOMAIN dl2, \A k \in DOMAIN dl : dl2[k] = dl[k],
           NEW b, NEW v, NEW v2, v \subseteq v2, NEW f, f \in Sound(dl, b, v),
           f.k = "visit" => f.key \in DOMAIN dl
    PROVE  f \in Sound(dl2, b, v2)
<1>1. f \in FrameSet /\ Proper(f, dl, b) /\ Visiting(f, dl, v)
  BY DEF Sound
<1>2. \A t : Known(t, dl) => Known(t, dl2)
  BY DEF Known
<1>3. \A item : KnownItem(item, dl) => KnownItem(item, dl2)
  BY <1>2 DEF KnownItem
<1>4. \A items, key, n : Alike(items, key, n, dl, b) => Alike(items, key, n, dl2, b)
  BY <1>3 DEF Alike
<1>5. Proper(f, dl2, b)
  BY <1>1, <1>2, <1>4 DEF Proper
<1>6. \A t : Seen(t, v) => Seen(t, v2)
  BY DEF Seen
<1>7. Opens(f) => dl2[f.key] = dl[f.key]
  BY DEF Opens, StructVisit
<1>8. Visiting(f, dl2, v2)
  BY <1>1, <1>6, <1>7 DEF Visiting
<1>9. QED
  BY <1>1, <1>5, <1>8 DEF Sound

\* Types that are no instances.
LEMMA PlainMade == ~Made(Plain) /\ ~Made(Null)
<1>1. Head(Plain) = "int" /\ Head(Null) = "null"
  BY DEF Plain, Null
<1>2. "int" \notin Structs /\ "null" \notin Structs
  BY StarIsNoTemplate DEF Templates
<1>3. QED
  BY <1>1, <1>2 DEF Made, IsInstance

\* A type behind pointers is none, and one behind nothing is itself.
LEMMA StarsMade ==
    ASSUME NEW o \in Seq({"*"}), NEW t \in Types, NEW u, u = o \o t, Made(u)
    PROVE  u = t
<1>1. t \in Seq(Letters) /\ o \in Seq(Letters)
  BY DEF Types, Letters
<1>2. CASE o = <<>>
  BY <1>1, <1>2
<1>3. CASE o # <<>>
  <2>1. Head(u) = Head(o)
    BY <1>1, <1>3, TypeAfter
  <2>2. Head(o) = "*"
    BY <1>3
  <2>3. "*" \notin Structs
    BY StarIsNoTemplate DEF Templates
  <2>4. QED
    BY <2>1, <2>2, <2>3 DEF Made, IsInstance
<1>4. QED
  BY <1>2, <1>3

LEMMA OuterMade ==
    ASSUME NEW path \in Paths, NEW t \in Types, NEW u, u = Outer(path) \o t, Made(u)
    PROVE  u = t
<1>1. PICK o : o = Outer(path)
  OBVIOUS
<1>2. o \in Seq({"*"})
  BY <1>1, PathFacts
<1>3. u = o \o t
  BY <1>1
<1>4. QED
  BY <1>2, <1>3, StarsMade

LEMMA PathMade ==
    ASSUME NEW path \in Paths, Named(path) = <<>>, NEW t \in Types, NEW u, u = path \o t, Made(u)
    PROVE  u = t
<1>1. PICK o, n : o = Outer(path) /\ n = Named(path)
  OBVIOUS
<1>2. o \in Seq({"*"}) /\ path = o \o n /\ n = <<>>
  BY <1>1, PathFacts
<1>3. path = o
  BY <1>2
<1>4. u = o \o t
  BY <1>3
<1>5. QED
  BY <1>2, <1>4, StarsMade

LEMMA KnownPlain == ASSUME NEW dl PROVE Known(Plain, dl) /\ Known(Null, dl)
BY PlainMade DEF Known

LEMMA KnownOuter ==
    ASSUME NEW path \in Paths, NEW t \in Types, NEW dl, Known(t, dl)
    PROVE  Known(Outer(path) \o t, dl)
<1>1. PICK u : u = Outer(path) \o t
  OBVIOUS
<1>2. Made(u) => u = t
  BY <1>1, OuterMade
<1>3. QED
  BY <1>1, <1>2 DEF Known

\* The type of an item is made from the argument of the instance.
LEMMA KnownLeaf ==
    ASSUME NEW dl, NEW key, Known(Tail(key.name), dl), NEW item
    PROVE  Known(LeafOf(item, key), dl)
BY KnownPlain DEF LeafOf

-------------------------------------------------------------------------------
(* Steps of the recursion to frames of a set.                                *)

Steps(c, d, G, q) ==
    /\ c # <<>>
    /\ \/ d = Front(c)
       \/ \E f \in G : Kin(f, Last(c)) /\ d = Append(Front(c), f)
       \/ \E f, g \in G : /\ Kin(f, Last(c)) /\ g.at = "enter" /\ Under(f, g, q)
                          /\ d = Append(Append(Front(c), f), g)

\* What the calls in progress are after such a step.
Went(c, d, G, q, n) ==
    /\ DOMAIN c = 1..n /\ Last(c) = c[n]
    /\ \A i \in 1..(n - 1) : i \in DOMAIN d /\ d[i] = c[i]
    /\ \A i \in DOMAIN d : \/ i \in 1..(n - 1)
                           \/ i = n /\ d[i] \in G /\ Kin(d[i], c[n])
                           \/ /\ i = n + 1 /\ d[i] \in G /\ d[i].at = "enter"
                              /\ n \in DOMAIN d /\ Under(d[n], d[i], q)

LEMMA StepsFacts ==
    ASSUME NEW b, NEW c, Stack(c, b), NEW G \in SUBSET FrameSet, NEW d, NEW q, Steps(c, d, G, q)
    PROVE  \E n \in Nat \ {0} : n = Len(c) /\ Went(c, d, G, q, n)
<1>1. PICK n \in Nat \ {0} : n = Len(c) /\ DOMAIN c = 1..n /\ Last(c) = c[n]
  BY StackFacts DEF Steps
<1>2. PICK e : e = Front(c)
  OBVIOUS
<1>3. Popped(c, e)
  BY <1>2, StackPop DEF Steps
<1>4. PICK m \in Nat : m = n - 1
  BY <1>1
<1>5. /\ e \in Seq(FrameSet) /\ Len(e) = m /\ DOMAIN e = 1..m /\ n = m + 1
      /\ \A i \in 1..m : e[i] = c[i]
  BY <1>1, <1>3, <1>4 DEF Popped
<1>6. CASE d = e
  BY <1>1, <1>4, <1>5, <1>6 DEF Went
<1>7. CASE \E f \in G : Kin(f, c[n]) /\ d = Append(e, f)
  <2>1. PICK f \in G : Kin(f, c[n]) /\ d = Append(e, f)
    BY <1>7
  <2>2. /\ Len(d) = n /\ DOMAIN d = 1..n /\ d[n] = f /\ d # <<>>
        /\ \A i \in 1..m : d[i] = e[i] /\ i \in 1..n
    BY <1>5, <2>1
  <2>3. \A i \in 1..n : i \in 1..m \/ i = n
    BY <1>4
  <2>4. d[n] \in G /\ Kin(d[n], c[n])
    BY <2>1, <2>2
  <2>5. \A i \in 1..(n - 1) : i \in DOMAIN d /\ d[i] = c[i]
    BY <1>4, <1>5, <2>2
  <2>6. \A i \in DOMAIN d : i \in 1..(n - 1) \/ (i = n /\ d[i] \in G /\ Kin(d[i], c[n]))
    BY <1>4, <2>2, <2>3, <2>4
  <2>7. QED
    BY <1>1, <2>5, <2>6 DEF Went
<1>8. CASE \E f, g \in G : Kin(f, c[n]) /\ g.at = "enter" /\ Under(f, g, q)
                              /\ d = Append(Append(e, f), g)
  <2>1. PICK f \in G, g \in G : Kin(f, c[n]) /\ g.at = "enter" /\ Under(f, g, q)
                              /\ d = Append(Append(e, f), g)
    BY <1>8
  <2>2. PICK h : h = Append(e, f)
    OBVIOUS
  <2>3. /\ h \in Seq(FrameSet) /\ Len(h) = n /\ DOMAIN h = 1..n /\ h[n] = f
        /\ \A i \in 1..m : h[i] = e[i] /\ i \in 1..n
    BY <1>5, <2>2
  <2>4. /\ Len(d) = n + 1 /\ DOMAIN d = 1..(n + 1) /\ d[n + 1] = g /\ d # <<>>
        /\ \A i \in 1..n : d[i] = h[i] /\ i \in 1..(n + 1)
    BY <2>1, <2>2, <2>3
  <2>5. /\ n \in 1..n /\ d[n] = f /\ \A i \in 1..m : d[i] = c[i] /\ i \in 1..(n + 1)
    BY <1>5, <2>3, <2>4
  <2>6. \A i \in 1..(n + 1) : i \in 1..m \/ i = n \/ i = n + 1
    BY <1>4
  <2>7. QED
    BY <1>1, <1>4, <2>1, <2>4, <2>5, <2>6 DEF Went
<1>9. Went(c, d, G, q, n)
  BY <1>1, <1>2, <1>6, <1>7, <1>8 DEF Steps
<1>10. QED
  BY <1>1, <1>9

\* The frames stay in a set.
LEMMA StepsStay ==
    ASSUME NEW b, NEW c, Stack(c, b), NEW G \in SUBSET FrameSet, NEW d, NEW q, Steps(c, d, G, q),
           \A i \in DOMAIN c : c[i] \in G
    PROVE  \A i \in DOMAIN d : d[i] \in G
<1>1. PICK n \in Nat \ {0} : n = Len(c) /\ Went(c, d, G, q, n)
  BY StepsFacts
<1>2. \A i \in 1..(n - 1) : i \in DOMAIN c /\ d[i] = c[i]
  BY <1>1 DEF Went
<1>3. QED
  BY <1>1, <1>2 DEF Went


-------------------------------------------------------------------------------
(* What every step does that does not declare anything.                     *)

Advance ==
    /\ Steps(ctl, ctl', Sound(decl, body, visited'), Queue)
    /\ Known(ret', decl)
    /\ ctl' = <<>> /\ Top.k \in {"use", "call"} => Seen(ret', visited')
    /\ Opens(Top) => Top.key.name \in complete' \/ Opening(ctl', Top.key.name)
    /\ \A x \in visited' : x \in visited \/ (Head(x.t) \in Structs => Opening(ctl', x.t))

\* A class that is analysed stays so until it is complete.
Stays(f) == Opens(Top) => Opens(f) \/ Top.key.name \in complete'

LEMMA AdvanceContinue ==
    ASSUME Calls, ctl # <<>>, NEW f, f \in Sound(decl, body, visited'), Kin(f, Top), Stays(f),
           ctl' = With(f), Known(ret', decl), visited' = visited
    PROVE  Advance
<1>1. PICK G, d : G = Sound(decl, body, visited') /\ d = ctl'
  OBVIOUS
<1>2. Steps(ctl, d, G, Queue)
  BY <1>1 DEF Steps, Top, With
<1>3. f \in FrameSet /\ d = With(f)
  BY <1>1 DEF Sound
<1>4. Replaced(ctl, f, d) /\ Len(ctl) \in Nat \ {0}
  BY <1>3, WithFacts
<1>5. d # <<>> /\ Len(ctl) \in DOMAIN d /\ d[Len(ctl)] = f
  BY <1>4 DEF Replaced
<1>6. Opens(f) => f.key = Top.key
  BY DEF Opens, StructVisit, Kin
<1>7. Opens(Top) => Top.key.name \in complete' \/ Opening(d, Top.key.name)
  BY <1>5, <1>6 DEF Stays, Opening
<1>8. QED
  BY <1>1, <1>2, <1>5, <1>7 DEF Advance

LEMMA AdvanceEnter ==
    ASSUME Calls, ctl # <<>>, Known(ret, decl), NEW f, f \in Sound(decl, body, visited'),
           Kin(f, Top), Stays(f), NEW g, g \in Sound(decl, body, visited'), g.at = "enter",
           Under(f, g, Queue), Enter(f, g),
           \A x \in visited' : x \in visited \/ (Head(x.t) \in Structs => Opens(g) /\ g.key.name = x.t)
    PROVE  Advance
<1>1. PICK G, d, e : G = Sound(decl, body, visited') /\ d = ctl' /\ e = With(f)
  OBVIOUS
<1>2. Steps(ctl, d, G, Queue)
  BY <1>1 DEF Steps, Top, With, Enter
<1>3. f \in FrameSet /\ g \in FrameSet
  BY <1>1 DEF Sound
<1>4. Replaced(ctl, f, e) /\ Len(ctl) \in Nat \ {0}
  BY <1>1, <1>3, WithFacts
<1>5. PICK n \in Nat \ {0} : n = Len(ctl)
  BY <1>4
<1>6. e \in Seq(FrameSet) /\ Len(e) = n /\ e[n] = f /\ DOMAIN e = 1..n
  BY <1>4, <1>5 DEF Replaced
<1>7. d = Append(e, g) /\ ret' = ret
  BY <1>1 DEF Enter
<1>8. d # <<>> /\ n \in DOMAIN d /\ d[n] = f /\ n + 1 \in DOMAIN d /\ d[n + 1] = g
  BY <1>3, <1>6, <1>7
<1>9. Opens(f) => f.key = Top.key
  BY DEF Opens, StructVisit, Kin
<1>10. Opens(Top) => Top.key.name \in complete' \/ Opening(d, Top.key.name)
  BY <1>8, <1>9 DEF Stays, Opening
<1>11. \A x \in visited' : x \in visited \/ (Head(x.t) \in Structs => Opening(d, x.t))
  BY <1>8 DEF Opening
<1>12. QED
  BY <1>1, <1>2, <1>7, <1>8, <1>10, <1>11 DEF Advance

LEMMA AdvanceReturn ==
    ASSUME ctl # <<>>, ctl' = Front(ctl), Known(ret', decl), ~Opens(Top), visited' = visited,
           Top.k \in {"use", "call"} => Seen(ret', visited)
    PROVE  Advance
<1>1. Steps(ctl, ctl', Sound(decl, body, visited'), Queue)
  BY DEF Steps
<1>2. QED
  BY <1>1 DEF Advance

LEMMA AdvanceEvaluate ==
    ASSUME Calls, ctl # <<>>, Known(ret, decl), NEW f, f \in Sound(decl, body, visited'),
           Kin(f, Top), Stays(f), visited' = visited,
           NEW path \in Paths, NEW leaf \in Types, Known(leaf, decl), NEW k \in {"use", "resolve"},
           k = "use" => f.k = "use",
           NEW g, g = Frame(k, path, leaf, Key(Plain, 0)), Evaluate(f, path, leaf, g)
    PROVE  Advance
<1>1. CASE Named(path) = <<>>
  <2>1. PICK u : u = path \o leaf
    OBVIOUS
  <2>2. ctl' = With(f) /\ ret' = u
    BY <1>1, <2>1 DEF Evaluate
  <2>3. Made(u) => u = leaf
    BY <1>1, <2>1, PathMade
  <2>4. Known(u, decl)
    BY <2>3 DEF Known
  <2>5. QED
    BY <2>2, <2>4, AdvanceContinue
<1>2. CASE Named(path) # <<>>
  <2>1. g \in FrameSet /\ g.at = "enter" /\ g.k = k /\ g.leaf = leaf
    BY <1>2, EvaluateFrame
  <2>2. Proper(g, decl, body) /\ Calm(g) /\ Under(f, g, Queue)
    BY <2>1 DEF Proper, Calm, Opens, StructVisit, Under
  <2>3. g \in Sound(decl, body, visited')
    BY <2>1, <2>2, SoundCalm
  <2>4. Enter(f, g) /\ \A x \in visited' : x \in visited
    BY <1>2 DEF Evaluate
  <2>5. QED
    BY <2>1, <2>2, <2>3, <2>4, AdvanceEnter
<1>3. QED
  BY <1>1, <1>2

LEMMA AdvanceInstantiate ==
    ASSUME Calls, ctl # <<>>, Known(ret, decl), visited' = visited,
           NEW f, f \in Sound(decl, body, visited'), Kin(f, Top), Stays(f),
           NEW h, h \in Sound(decl, body, visited'), Kin(h, Top), Stays(h),
           NEW key \in Instances, Known(Tail(key.name), decl), NEW d, Instantiate(key, d, f, h)
    PROVE  Advance
<1>1. CASE Continue(f) \/ Continue(h)
  BY <1>1, AdvanceContinue DEF Continue
<1>2. CASE Enter(f, Clone(key))
  <2>1. PICK g : g = Clone(key)
    OBVIOUS
  <2>2. g = Frame("clone", <<>>, Plain, key) /\ key \in Keys /\ "clone" \in Kinds /\ <<>> \in Paths
    BY <2>1 DEF Clone, Instances, Kinds, Paths
  <2>3. g \in FrameSet /\ g.k = "clone" /\ g.at = "enter" /\ g.key = key /\ g.i = 1 /\ g.items = <<>>
    BY <2>2, PlainTypes, FrameFacts
  <2>4. Alike(g.items, g.key, g.i - 1, decl, body)
    BY <2>3 DEF Alike
  <2>5. Proper(g, decl, body) /\ Calm(g) /\ Under(f, g, Queue)
    BY <2>3, <2>4 DEF Proper, Calm, Opens, StructVisit, Under
  <2>6. g \in Sound(decl, body, visited')
    BY <2>3, <2>5, SoundCalm
  <2>7. Enter(f, g) /\ \A x \in visited' : x \in visited
    BY <1>2, <2>1
  <2>8. QED
    BY <2>3, <2>5, <2>6, <2>7, AdvanceEnter
<1>3. QED
  BY <1>1, <1>2 DEF Instantiate

LEMMA AdvanceVisit ==
    ASSUME Calls, Values, ctl # <<>>, Known(ret, decl), NEW f, f \in Sound(decl, body, visited'),
           Kin(f, Top), Stays(f), NEW key,
           TemplateOf(key) \in Structs => f.k = "use" \/ (StructVisit(f) /\ Earlier(Queue, key, f.key)),
           \/ Continue(f) /\ visited' = visited
           \/ key \in DOMAIN decl /\ StartVisit(f, key)
    PROVE  Advance
<1>1. CASE Continue(f) /\ visited' = visited
  BY <1>1, AdvanceContinue DEF Continue
<1>2. CASE key \in DOMAIN decl /\ StartVisit(f, key)
  <2>1. PICK g : g = Visit(key)
    OBVIOUS
  <2>2. g = Frame("visit", <<>>, Plain, key) /\ key \in Instances
    BY <1>2, <2>1, TableFacts DEF Visit
  <2>3. key \in Keys /\ "visit" \in Kinds /\ <<>> \in Paths
    BY <2>2 DEF Instances, Kinds, Paths
  <2>4. g \in FrameSet /\ g.k = "visit" /\ g.at = "enter" /\ g.key = key /\ g.i = 1
    BY <2>2, <2>3, PlainTypes, FrameFacts
  <2>5. Proper(g, decl, body) /\ Under(f, g, Queue)
    BY <2>4 DEF Proper, Under, StructVisit
  <2>6. \A j \in DOMAIN decl[key] : ~(j < 1)
    <3>1. decl[key] \in Seq(Copies)
      BY <1>2 DEF Values
    <3>2. QED
      BY <3>1
  <2>7. Visiting(g, decl, visited')
    BY <2>4, <2>6 DEF Visiting
  <2>8. g \in Sound(decl, body, visited')
    BY <2>4, <2>5, <2>7 DEF Sound
  <2>9. Enter(f, g) /\ visited' = visited \cup {NameOf(key)}
    BY <1>2, <2>1 DEF StartVisit
  <2>10. ASSUME NEW x \in visited', x \notin visited, Head(x.t) \in Structs
         PROVE  Opens(g) /\ g.key.name = x.t
    BY <2>4, <2>9, <2>10 DEF NameOf, Opens, StructVisit, TemplateOf
  <2>11. QED
    BY <2>4, <2>5, <2>8, <2>9, <2>10, AdvanceEnter
<1>3. QED
  BY <1>1, <1>2

-------------------------------------------------------------------------------
(* The steps of the copying and of the evaluation of types.                  *)

\* A class that a body contains by value was finished before it.
OrderInv ==
    /\ \A i, j \in DOMAIN Queue : Queue[i] = Queue[j] => i = j
    /\ \A k \in DOMAIN decl : \A j \in DOMAIN decl[k] :
          decl[k][j].k = "type" /\ Made(decl[k][j].t) => Earlier(Queue, Key(decl[k][j].t, 0), k)

LEMMA TopSound ==
    ASSUME Calls, SoundInv, ctl # <<>>
    PROVE  /\ Top \in Sound(decl, body, visited) /\ Known(ret, decl)
           /\ Proper(Top, decl, body) /\ Visiting(Top, decl, visited)
           /\ Top.k \in {"use", "resolve"} => Known(Top.leaf, decl)
           /\ Top.k \in {"call", "clone"} => Known(Tail(Top.key.name), decl)
<1>1. Len(ctl) \in DOMAIN ctl /\ Top = ctl[Len(ctl)]
  BY StackFacts DEF Calls, Recursion, Top
<1>2. Top \in Sound(decl, body, visited) /\ Known(ret, decl)
  BY <1>1 DEF SoundInv
<1>3. Proper(Top, decl, body) /\ Visiting(Top, decl, visited)
  BY <1>2 DEF Sound
<1>4. Top.k = "use" /\ Top.at = "made" => Known(Top.leaf, decl)
  BY TopFacts DEF Wanted, Known
<1>5. QED
  BY <1>2, <1>3, <1>4 DEF Proper

\* A frame that goes on to another place.
LEMMA SoundAt ==
    ASSUME Calls, SoundInv, ctl # <<>>, NEW at \in Places, NEW f, f = At(at),
           at = "made" => Top.k = "call", at = "out" => Top.k # "use", at = "enter" => Top.k # "visit"
    PROVE  f \in Sound(decl, body, visited') /\ Kin(f, Top)
<1>1. /\ Kin(f, Top) /\ f.at = at /\ f.leaf = Top.leaf /\ f.key = Top.key /\ f.i = Top.i
      /\ f.items = Top.items
  BY KinAt
<1>2. f.k = Top.k /\ f \in FrameSet
  BY <1>1 DEF Kin
<1>3. Proper(f, decl, body)
  BY <1>1, <1>2, TopSound DEF Proper
<1>4. Calm(f)
  BY <1>1, <1>2 DEF Calm, Opens, StructVisit
<1>5. QED
  BY <1>1, <1>2, <1>3, <1>4, SoundCalm

LEMMA AdvanceClone ==
    ASSUME TypeInv, SoundInv, CloneItem \/ CloneNext
    PROVE  Advance
<1>1. Calls /\ Values /\ ctl # <<>> /\ Top.k = "clone"
  BY DEF TypeInv, CloneItem, CloneNext, In
<1>2. visited' = visited /\ ~Opens(Top)
  BY <1>1 DEF CloneItem, CloneNext, semaVars, Opens, StructVisit
<1>3. Known(ret, decl) /\ Known(Tail(Top.key.name), decl) /\ Proper(Top, decl, body)
  BY <1>1, TopSound
<1>4. CASE CloneItem
  <2>1. /\ Top.at = "enter" /\ Top.i <= Len(Body) /\ Top.i \in Nat \ {0} /\ Top.key \in Instances
    BY <1>1, <1>4, TopFacts DEF CloneItem, In, Fits
  <2>2. PICK item, path, leaf, f, g, k : /\ item = Body[Top.i] /\ leaf = LeafOf(item, Top.key)
                                         /\ path = item.path /\ f = At("item") /\ k = "resolve"
                                         /\ g = Resolve(path, leaf)
    OBVIOUS
  <2>3. Body \in Seq(Items) /\ item \in Items
    <3>1. Body \in Seq(Items)
      BY <1>1, <2>1, BodyFacts DEF Values, Body
    <3>2. QED
      BY <2>1, <2>2, <3>1
  <2>4. path \in Paths /\ leaf \in Types
    BY <2>1, <2>2, <2>3, ItemFacts, LeafType DEF Instances
  <2>5. Known(leaf, decl)
    BY <1>3, <2>2, KnownLeaf
  <2>6. f \in Sound(decl, body, visited') /\ Kin(f, Top)
    BY <1>1, <2>2, SoundAt DEF Places
  <2>7. g = Frame(k, path, leaf, Key(Plain, 0)) /\ k \in {"use", "resolve"} /\ k # "use"
    BY <2>2 DEF Resolve
  <2>8. Evaluate(f, path, leaf, g) /\ Stays(f)
    BY <1>2, <1>4, <2>2 DEF CloneItem, Stays
  <2>9. QED
    BY <1>1, <1>2, <1>3, <2>4, <2>5, <2>6, <2>7, <2>8, AdvanceEvaluate
<1>5. CASE CloneNext
  <2>1. In("clone", "item")
    BY <1>5 DEF CloneNext
  <2>2. PICK item, copy, items, f : Copied(item, copy, items, f)
    BY DEF Copied
  <2>3. /\ item \in Items /\ copy.k = item.k
        /\ item.k = "type" => copy.t = ret
        /\ item.k = "call" => Tail(copy.key.name) = ret
        /\ Top.items \in Seq(Copies) /\ copy \in Copies /\ Top.i \in Nat \ {0}
        /\ f \in FrameSet /\ f.k = Top.k /\ f.at = "enter" /\ f.key = Top.key
        /\ f.i = Top.i + 1 /\ f.items = items
    BY <1>1, <2>1, <2>2, CopyFacts
  <2>4. Kin(f, Top)
    <3>1. PICK t, e : t = Top /\ e = [t EXCEPT !.at = "enter"]
      OBVIOUS
    <3>2. t \in FrameSet /\ e \in FrameSet /\ e.path = t.path
      BY <1>1, <3>1, TopFacts, FrameAt DEF Places
    <3>3. f = [e EXCEPT !.i = t.i + 1, !.items = items]
      BY <2>2, <3>1 DEF Copied, At
    <3>4. f.path = e.path
      BY <3>2, <3>3 DEF FrameSet
    <3>5. QED
      BY <2>3, <3>1, <3>2, <3>4 DEF Kin
  <2>5. KnownItem(copy, decl)
    BY <1>3, <2>3, ItemFacts DEF KnownItem
  <2>6. Alike(items, Top.key, Top.i, decl, body)
    <3>1. Alike(Top.items, Top.key, Top.i - 1, decl, body)
      BY <1>1, <1>3 DEF Proper
    <3>2. PICK n \in Nat \ {0}, m \in Nat : n = Top.i /\ m = n - 1
      BY <2>3
    <3>3. /\ Len(Top.items) = m
          /\ \A j \in 1..m : KnownItem(Top.items[j], decl)
                             /\ Top.items[j].k = body[TemplateOf(Top.key)][j].k
      BY <3>1, <3>2 DEF Alike
    <3>4. /\ Len(items) = n /\ items[n] = copy /\ \A j \in 1..m : items[j] = Top.items[j]
      BY <2>2, <2>3, <3>2, <3>3 DEF Copied
    <3>5. copy.k = body[TemplateOf(Top.key)][n].k
      BY <2>2, <2>3, <3>2 DEF Copied, Body
    <3>6. \A j \in 1..n : j = n \/ j \in 1..m
      BY <3>2
    <3>7. \A j \in 1..n : KnownItem(items[j], decl) /\ items[j].k = body[TemplateOf(Top.key)][j].k
      BY <2>5, <3>3, <3>4, <3>5, <3>6
    <3>8. QED
      BY <3>2, <3>4, <3>7 DEF Alike
  <2>7. f.i - 1 = Top.i
    BY <2>3
  <2>8. Proper(f, decl, body)
    BY <1>1, <1>3, <2>3, <2>6, <2>7 DEF Proper
  <2>9. Calm(f)
    BY <1>1, <2>3 DEF Calm, Opens, StructVisit
  <2>10. f \in Sound(decl, body, visited') /\ Stays(f)
    BY <1>2, <2>3, <2>8, <2>9, SoundCalm DEF Stays
  <2>11. ctl' = With(f) /\ ret' = ret
    BY <1>5, <2>2 DEF CloneNext, Copied, CopyOf, Continue
  <2>12. QED
    BY <1>1, <1>2, <1>3, <2>4, <2>10, <2>11, AdvanceContinue
<1>6. QED
  BY <1>4, <1>5

\* The instance that a type has asked for is that of the type.
LEMMA MadeKnown ==
    ASSUME Calls, ctl # <<>>, NEW key, key \in DOMAIN decl, TemplateOf(key) \in Structs
    PROVE  Known(key.name, decl) /\ key = Key(key.name, 0)
<1>1. key \in Instances
  BY TableFacts
<1>2. key \in Keys /\ key.v = 0
  BY <1>1 DEF Instances
<1>3. key = Key(key.name, 0)
  BY <1>2 DEF Keys, Key
<1>4. QED
  BY <1>3 DEF Known

LEMMA AdvanceResolve ==
    ASSUME TypeInv, SoundInv, ResolveEnter \/ ResolveArgs \/ ResolveEnd
    PROVE  Advance
<1>1. Calls /\ Values /\ ctl # <<>> /\ Top.k = "resolve" /\ ret \in Types
  BY DEF TypeInv, ResolveEnter, ResolveArgs, ResolveEnd, In, Values
<1>2. visited' = visited /\ ~Opens(Top)
  BY <1>1 DEF ResolveEnter, ResolveArgs, ResolveEnd, semaVars, Opens, StructVisit
<1>3. Known(ret, decl) /\ Known(Top.leaf, decl) /\ Proper(Top, decl, body)
  BY <1>1, TopSound
<1>4. \A f : Stays(f)
  BY <1>2 DEF Stays
<1>5. Top.leaf \in Types /\ Top.path \in Paths /\ Top \in FrameSet /\ Fits(Top, body)
  BY <1>1, TopFacts
<1>6. PICK h : h = At("refused")
  OBVIOUS
<1>7. h \in Sound(decl, body, visited') /\ Kin(h, Top)
  BY <1>1, <1>6, SoundAt DEF Places
<1>8. CASE Continue(h)
  BY <1>1, <1>2, <1>3, <1>4, <1>7, <1>8, AdvanceContinue DEF Continue
<1>9. CASE ResolveEnter
  <2>1. PICK arg, leaf, f, g, k : /\ arg = Tail(Named(Top.path)) /\ leaf = Top.leaf
                                  /\ f = At("args") /\ g = Resolve(arg, leaf) /\ k = "resolve"
    OBVIOUS
  <2>2. arg \in Paths /\ leaf \in Types /\ Known(leaf, decl)
    BY <1>1, <1>3, <1>5, <2>1, ArgFacts
  <2>3. f \in Sound(decl, body, visited') /\ Kin(f, Top)
    BY <1>1, <2>1, SoundAt DEF Places
  <2>4. g = Frame(k, arg, leaf, Key(Plain, 0)) /\ k \in {"use", "resolve"} /\ k # "use"
    BY <2>1 DEF Resolve
  <2>5. CASE Evaluate(f, arg, leaf, g)
    BY <1>1, <1>2, <1>3, <1>4, <2>2, <2>3, <2>4, <2>5, AdvanceEvaluate
  <2>6. QED
    BY <1>6, <1>8, <1>9, <2>1, <2>5 DEF ResolveEnter
<1>10. CASE ResolveArgs
  <2>1. PICK name, key, e, f, d : /\ name = <<Head(Named(Top.path))>> \o ret /\ key = Key(name, 0)
                                  /\ e = At("made") /\ f = [e EXCEPT !.key = key] /\ d = depth - 1
    OBVIOUS
  <2>2. name \in Types /\ Len(name) >= 2 /\ Tail(name) = ret
    BY <1>1, <2>1, NamedType
  <2>3. CASE Head(name) \in registered \cap Structs
    <3>1. key \in Instances /\ key \in Keys /\ key.name = name /\ TemplateOf(key) = Head(name)
      BY <2>1, <2>2, <2>3, CallingFacts DEF Instances
    <3>2. Kin(e, Top) /\ e.at = "made" /\ e.leaf = Top.leaf
      BY <1>1, <2>1, KinAt DEF Places
    <3>3. f \in FrameSet /\ f.k = e.k /\ f.at = e.at /\ f.path = e.path /\ f.key = key /\ f.leaf = e.leaf
      BY <2>1, <3>1, <3>2, FrameKey DEF Kin
    <3>4. Kin(f, Top) /\ f.k = "resolve" /\ f.at = "made" /\ f.leaf = Top.leaf
      BY <1>1, <3>2, <3>3 DEF Kin
    <3>5. TemplateOf(Wanted(f)) \in Structs
      BY <2>3, <3>1, <3>3, <3>4 DEF Wanted
    <3>6. Proper(f, decl, body) /\ Calm(f)
      BY <1>3, <3>4, <3>5 DEF Proper, Calm, Opens, StructVisit
    <3>7. f \in Sound(decl, body, visited')
      BY <3>3, <3>6, SoundCalm
    <3>8. Instantiate(key, d, f, h) /\ Known(Tail(key.name), decl)
      BY <1>3, <1>6, <1>10, <2>1, <2>2, <2>3, <3>1 DEF ResolveArgs
    <3>9. QED
      BY <1>1, <1>2, <1>3, <1>4, <1>7, <3>1, <3>4, <3>7, <3>8, AdvanceInstantiate
  <2>4. CASE Head(name) \notin registered \cap Structs
    BY <1>6, <1>8, <1>10, <2>1, <2>4 DEF ResolveArgs
  <2>5. QED
    BY <2>3, <2>4
<1>11. CASE ResolveEnd
  <2>1. PICK t : /\ ret' = Outer(Top.path) \o t
                 /\ \/ Top.at = "made" /\ t = Top.key.name
                    \/ t = Null
    BY <1>11 DEF ResolveEnd, In, Return
  <2>2. ctl' = Front(ctl)
    BY <1>11 DEF ResolveEnd, Return
  <2>3. t \in Types /\ Known(t, decl)
    <3>1. CASE t = Null
      BY <3>1, PlainTypes, KnownPlain
    <3>2. CASE Top.at = "made" /\ t = Top.key.name
      <4>1. Top.key \in DOMAIN decl /\ TemplateOf(Top.key) \in Structs
        BY <1>1, <1>3, <3>2, TopFacts DEF Proper, Wanted
      <4>2. Top.key.name \in Types
        BY <1>1, TopFacts DEF Keys
      <4>3. QED
        BY <1>1, <3>2, <4>1, <4>2, MadeKnown
    <3>3. QED
      BY <2>1, <3>1, <3>2
  <2>4. Known(ret', decl)
    BY <1>5, <2>1, <2>3, KnownOuter
  <2>5. QED
    BY <1>1, <1>2, <2>2, <2>4, AdvanceReturn
<1>12. QED
  BY <1>9, <1>10, <1>11

-------------------------------------------------------------------------------
(* The steps of the analysis of instances and calls.                         *)

\* What ensureInstanceVisited was called for has been visited when it goes on.
LEMMA EnsuredSeen ==
    ASSUME NEW t, Known(t, decl), NEW f, EnsureVisited(t, f), NEW key, key = Key(t, 0)
    PROVE  /\ Seen(t, visited') /\ visited \subseteq visited'
           /\ \/ Continue(f) /\ visited' = visited
              \/ Made(t) /\ key \in DOMAIN decl /\ StartVisit(f, key)
<1>1. CASE Made(t) /\ key \in DOMAIN decl /\ NameOf(key) \notin visited /\ StartVisit(f, key)
  <2>1. NameOf(key) \in visited' /\ visited \subseteq visited'
    BY <1>1 DEF StartVisit
  <2>2. NameOf(key).t = t
    BY DEF NameOf, Key
  <2>3. QED
    BY <1>1, <2>1, <2>2 DEF Seen
<1>2. CASE /\ ~(Made(t) /\ key \in DOMAIN decl /\ NameOf(key) \notin visited)
           /\ Continue(f) /\ visited' = visited
  <2>1. Made(t) => NameOf(key) \in visited
    BY <1>2 DEF Known
  <2>2. NameOf(key).t = t
    BY DEF NameOf, Key
  <2>3. QED
    BY <1>2, <2>1, <2>2 DEF Seen
<1>3. QED
  BY <1>1, <1>2 DEF EnsureVisited, Made

LEMMA AdvanceField ==
    ASSUME TypeInv, SoundInv, OrderInv, VisitField
    PROVE  Advance
<1>1. /\ Calls /\ Values /\ ctl # <<>> /\ Top.k = "visit" /\ Top.at = "enter" /\ ~IsFunction
      /\ ItemIs("type")
  BY DEF TypeInv, VisitField, In
<1>2. PICK k, t, f, key : k = Top.key /\ t = Copy[Top.i].t /\ f = NextItem /\ key = Key(t, 0)
  OBVIOUS
<1>3. /\ k \in DOMAIN decl /\ k \in Instances /\ Top.i \in Nat \ {0} /\ Copy = decl[k]
      /\ Top \in FrameSet
  BY <1>1, <1>2, TopFacts, TableFacts DEF Copy
<1>4. PICK m \in Nat \ {0} : m = Top.i
  BY <1>3
<1>5. TemplateOf(k) \in Structs
  BY <1>1, <1>2, <1>3 DEF IsFunction, Instances
<1>6. m \in DOMAIN decl[k] /\ decl[k][m].k = "type" /\ decl[k][m].t = t
  <2>1. decl[k] \in Seq(Copies)
    BY <1>1, <1>3 DEF Values
  <2>2. m <= Len(decl[k]) /\ decl[k][m].k = "type"
    BY <1>1, <1>3, <1>4 DEF ItemIs
  <2>3. QED
    BY <1>2, <1>3, <1>4, <2>1, <2>2
<1>7. Known(t, decl)
  <2>1. Alike(decl[k], k, Len(body[TemplateOf(k)]), decl, body)
    BY <1>3 DEF SoundInv
  <2>2. decl[k] \in Seq(Copies)
    BY <1>1, <1>3 DEF Values
  <2>3. m \in 1..Len(decl[k])
    BY <1>6, <2>2
  <2>4. KnownItem(decl[k][m], decl)
    BY <2>1, <2>3 DEF Alike
  <2>5. QED
    BY <1>6, <2>4 DEF KnownItem
<1>8. EnsureVisited(t, f)
  BY <1>2 DEF VisitField
<1>9. /\ Seen(t, visited') /\ visited \subseteq visited'
      /\ \/ Continue(f) /\ visited' = visited
         \/ Made(t) /\ key \in DOMAIN decl /\ StartVisit(f, key)
  BY <1>2, <1>7, <1>8, EnsuredSeen
<1>10. Kin(f, Top) /\ f.at = "enter" /\ f.key = k /\ f.i = m + 1 /\ f.k = "visit" /\ f \in FrameSet
  BY <1>1, <1>2, <1>4, KinNext DEF Kin
<1>11. Opens(f) /\ Opens(Top) /\ StructVisit(f) /\ Stays(f)
  BY <1>1, <1>2, <1>5, <1>10 DEF Opens, StructVisit, Stays
<1>12. \A j \in DOMAIN decl[k] : j < m + 1 /\ decl[k][j].k = "type" => Seen(decl[k][j].t, visited')
  <2>1. Visiting(Top, decl, visited)
    BY <1>1, TopSound
  <2>2. \A j \in DOMAIN decl[k] : j < m /\ decl[k][j].k = "type" => Seen(decl[k][j].t, visited)
    BY <1>2, <1>4, <1>11, <2>1 DEF Visiting
  <2>3. \A u : Seen(u, visited) => Seen(u, visited')
    BY <1>9 DEF Seen
  <2>4. DOMAIN decl[k] \subseteq Nat
    BY <1>1, <1>3 DEF Values
  <2>5. \A j \in DOMAIN decl[k] : j < m + 1 => j < m \/ j = m
    BY <1>4, <2>4
  <2>6. QED
    BY <1>6, <1>9, <2>2, <2>3, <2>5
<1>13. f \in Sound(decl, body, visited')
  <2>1. Visiting(f, decl, visited')
    BY <1>10, <1>12 DEF Visiting
  <2>2. Proper(f, decl, body)
    BY <1>10 DEF Proper
  <2>3. QED
    BY <1>10, <2>1, <2>2 DEF Sound
<1>14. Made(t) => Earlier(Queue, key, f.key)
  BY <1>2, <1>3, <1>6, <1>10 DEF OrderInv
<1>15. Known(ret, decl)
  BY <1>1, TopSound
<1>16. CASE Continue(f) /\ visited' = visited
  <2>1. ctl' = With(f) /\ ret' = ret
    BY <1>16 DEF Continue
  <2>2. QED
    BY <1>1, <1>10, <1>11, <1>13, <1>15, <1>16, <2>1, AdvanceContinue
<1>17. CASE Made(t) /\ key \in DOMAIN decl /\ StartVisit(f, key)
  BY <1>1, <1>10, <1>11, <1>13, <1>14, <1>15, <1>17, AdvanceVisit
<1>18. QED
  BY <1>9, <1>16, <1>17

LEMMA AdvanceBody ==
    ASSUME TypeInv, SoundInv, CompleteStruct \/ DeclareFunction \/ VisitLocal \/ VisitCall \/ VisitEnd
    PROVE  Advance
<1>1. Calls /\ Values /\ ctl # <<>> /\ Top.k = "visit" /\ visited' = visited /\ Known(ret, decl)
  <2>1. Calls /\ Values /\ ctl # <<>> /\ Top.k = "visit" /\ visited' = visited
    BY DEF TypeInv, CompleteStruct, DeclareFunction, VisitLocal, VisitCall, VisitEnd, In, semaVars
  <2>2. QED
    BY <2>1, TopSound
<1>2. CASE CompleteStruct \/ DeclareFunction
  <2>1. PICK f : f = At("body")
    OBVIOUS
  <2>2. f \in Sound(decl, body, visited') /\ Kin(f, Top)
    BY <1>1, <2>1, SoundAt DEF Places
  <2>3. Stays(f)
    <3>1. CASE CompleteStruct
      BY <3>1 DEF CompleteStruct, Stays
    <3>2. CASE DeclareFunction
      <4>1. TemplateOf(Top.key) \in Functions
        BY <3>2 DEF DeclareFunction, IsFunction
      <4>2. TemplateOf(Top.key) \notin Structs
        BY <4>1, TemplatesAssumption
      <4>3. QED
        BY <4>2 DEF Stays, Opens, StructVisit
    <3>3. QED
      BY <1>2, <3>1, <3>2
  <2>4. ctl' = With(f) /\ ret' = ret
    BY <1>2, <2>1 DEF CompleteStruct, DeclareFunction, Continue
  <2>5. QED
    BY <1>1, <2>2, <2>3, <2>4, AdvanceContinue
<1>3. CASE VisitLocal \/ VisitCall
  <2>1. Top.at = "body" /\ ~Opens(Top)
    BY <1>3 DEF VisitLocal, VisitCall, In, Opens
  <2>2. PICK f : f = NextItem
    OBVIOUS
  <2>3. Kin(f, Top) /\ f.at = "body" /\ f.k = "visit" /\ f \in FrameSet
    BY <1>1, <2>1, <2>2, KinNext DEF Kin
  <2>4. Proper(f, decl, body) /\ Calm(f) /\ Stays(f)
    BY <2>1, <2>3 DEF Proper, Calm, Opens, StructVisit, Stays
  <2>5. f \in Sound(decl, body, visited')
    BY <2>3, <2>4, SoundCalm
  <2>6. CASE VisitLocal
    <3>1. ctl' = With(f) /\ ret' = ret
      BY <2>2, <2>6 DEF VisitLocal, Continue
    <3>2. QED
      BY <1>1, <2>3, <2>4, <2>5, <3>1, AdvanceContinue
  <2>7. CASE VisitCall
    <3>1. PICK k, key, g : k = Top.key /\ key = Copy[Top.i].key /\ g = Call(key)
      OBVIOUS
    <3>2. /\ k \in DOMAIN decl /\ Copy = decl[k] /\ Top.i \in Nat \ {0}
          /\ Top.i <= Len(Copy) /\ Copy[Top.i].k = "call"
      BY <1>1, <2>7, <3>1, TopFacts DEF Copy, VisitCall, ItemIs
    <3>3. PICK m \in Nat \ {0} : m = Top.i
      BY <3>2
    <3>4. decl[k] \in Seq(Copies) /\ m \in 1..Len(decl[k]) /\ decl[k][m] \in Copies
          /\ decl[k][m].k = "call" /\ decl[k][m].key = key
      <4>1. decl[k] \in Seq(Copies)
        BY <1>1, <3>2 DEF Values
      <4>2. QED
        BY <3>1, <3>2, <3>3, <4>1
    <3>5. key \in Calling
      BY <3>4 DEF Copies
    <3>6. Known(Tail(key.name), decl)
      <4>1. Alike(decl[k], k, Len(body[TemplateOf(k)]), decl, body)
        BY <3>2 DEF SoundInv
      <4>2. KnownItem(decl[k][m], decl)
        BY <3>4, <4>1 DEF Alike
      <4>3. QED
        BY <3>4, <4>2 DEF KnownItem
    <3>7. g \in FrameSet /\ g.at = "enter" /\ g.k = "call" /\ g.key = key
      <4>1. g = Frame("call", <<>>, Plain, key)
        BY <3>1 DEF Call
      <4>2. key \in Instances /\ TemplateOf(key) \in Functions
        BY <3>5 DEF Calling
      <4>3. QED
        BY <4>1, <4>2, InstanceFrame
    <3>8. Proper(g, decl, body) /\ Calm(g) /\ Under(f, g, Queue)
      BY <3>6, <3>7 DEF Proper, Calm, Opens, StructVisit, Under
    <3>9. g \in Sound(decl, body, visited')
      BY <3>7, <3>8, SoundCalm
    <3>10. Enter(f, g) /\ \A x \in visited' : x \in visited
      BY <1>1, <2>2, <2>7, <3>1 DEF VisitCall
    <3>11. QED
      BY <1>1, <2>3, <2>4, <2>5, <3>7, <3>8, <3>9, <3>10, AdvanceEnter
  <2>8. QED
    BY <1>3, <2>6, <2>7
<1>4. CASE VisitEnd
  <2>1. ~Opens(Top) /\ ctl' = Front(ctl) /\ ret' = ret
    BY <1>4 DEF VisitEnd, In, Opens, Return
  <2>2. QED
    BY <1>1, <2>1, AdvanceReturn
<1>5. QED
  BY <1>2, <1>3, <1>4

LEMMA AdvanceCall ==
    ASSUME TypeInv, SoundInv, CallEnter \/ CallMade \/ CallEnd
    PROVE  Advance
<1>1. Calls /\ Values /\ ctl # <<>> /\ Top.k = "call"
  BY DEF TypeInv, CallEnter, CallMade, CallEnd, In
<1>2. Known(ret, decl) /\ Known(Tail(Top.key.name), decl) /\ ~Opens(Top) /\ \A f : Stays(f)
  BY <1>1, TopSound DEF Opens, StructVisit, Stays
<1>3. Top.key \in Instances /\ TemplateOf(Top.key) \in Functions
  BY <1>1, TopFacts DEF Fits
<1>4. CASE CallEnter
  <2>1. PICK key, f, h, d : key = Top.key /\ f = At("made") /\ h = At("refused") /\ d = depth
    OBVIOUS
  <2>2. /\ f \in Sound(decl, body, visited') /\ Kin(f, Top)
        /\ h \in Sound(decl, body, visited') /\ Kin(h, Top)
    BY <1>1, <2>1, SoundAt DEF Places
  <2>3. visited' = visited
    BY <1>4 DEF CallEnter, semaVars
  <2>4. CASE Instantiate(key, d, f, h)
    <3>1. key \in Instances /\ Known(Tail(key.name), decl)
      BY <1>2, <1>3, <2>1
    <3>2. QED
      BY <1>1, <1>2, <2>2, <2>3, <2>4, <3>1, AdvanceInstantiate
  <2>5. CASE Continue(h)
    BY <1>1, <1>2, <2>2, <2>3, <2>5, AdvanceContinue DEF Continue
  <2>6. QED
    BY <1>4, <2>1, <2>4, <2>5 DEF CallEnter
<1>5. CASE CallMade
  <2>1. PICK key, f : key = Top.key /\ f = At("out")
    OBVIOUS
  <2>2. key \in DOMAIN decl
    BY <1>1, <1>5, <2>1, TopFacts DEF CallMade, In, Wanted
  <2>3. f \in Sound(decl, body, visited') /\ Kin(f, Top)
    BY <1>1, <2>1, SoundAt DEF Places
  <2>4. TemplateOf(key) \notin Structs
    BY <1>3, <2>1, TemplatesAssumption
  <2>5. \/ Continue(f) /\ visited' = visited
        \/ key \in DOMAIN decl /\ StartVisit(f, key)
    BY <1>5, <2>1, <2>2 DEF CallMade
  <2>6. QED
    BY <1>1, <1>2, <2>3, <2>4, <2>5, AdvanceVisit
<1>6. CASE CallEnd
  <2>1. ctl' = Front(ctl) /\ ret' = Plain /\ visited' = visited
    BY <1>6 DEF CallEnd, Return
  <2>2. Known(ret', decl) /\ Seen(ret', visited)
    BY <2>1, PlainMade DEF Known, Seen
  <2>3. QED
    BY <1>1, <1>2, <2>1, <2>2, AdvanceReturn
<1>7. QED
  BY <1>4, <1>5, <1>6

-------------------------------------------------------------------------------
(* The steps of the uses of types.                                           *)

LEMMA SeenOuter ==
    ASSUME NEW path \in Paths, NEW t \in Types, NEW v, Seen(t, v)
    PROVE  Seen(Outer(path) \o t, v)
<1>1. PICK u : u = Outer(path) \o t
  OBVIOUS
<1>2. Made(u) => u = t
  BY <1>1, OuterMade
<1>3. QED
  BY <1>1, <1>2 DEF Seen

\* The frame of a use whose result is known.
LEMMA SoundResult ==
    ASSUME Calls, ctl # <<>>, Top.k = "use", NEW at \in {"out", "made"}, NEW t \in Types,
           NEW f, f = Result(at, t), NEW v,
           at = "out" => Known(t, decl) /\ Seen(t, v), at = "made" => Head(t) \in Structs
    PROVE  f \in Sound(decl, body, v) /\ Kin(f, Top) /\ f.k = "use"
<1>1. /\ f \in FrameSet /\ f.k = "use" /\ f.at = at /\ f.path = Top.path /\ f.leaf = t
  BY ResultFacts DEF Places
<1>2. at = "made" => TemplateOf(Wanted(f)) \in Structs
  BY <1>1 DEF Wanted, TemplateOf, Key
<1>3. Proper(f, decl, body) /\ Visiting(f, decl, v)
  BY <1>1, <1>2 DEF Proper, Visiting, Opens, StructVisit
<1>4. QED
  BY <1>1, <1>3 DEF Sound, Kin

LEMMA AdvanceUse ==
    ASSUME TypeInv, SoundInv, UseEnter \/ UseAlias \/ UseClass
    PROVE  Advance
<1>1. Calls /\ Values /\ ctl # <<>> /\ Top.k = "use" /\ ret \in Types
  BY DEF TypeInv, UseEnter, UseAlias, UseClass, In, Values
<1>2. visited' = visited /\ ~Opens(Top)
  BY <1>1 DEF UseEnter, UseAlias, UseClass, semaVars, Opens, StructVisit
<1>3. Known(ret, decl) /\ Known(Top.leaf, decl)
  BY <1>1, TopSound
<1>4. \A f : Stays(f)
  BY <1>2 DEF Stays
<1>5. Top.leaf \in Types /\ Top.path \in Paths /\ Top \in FrameSet /\ Fits(Top, body)
  BY <1>1, TopFacts
<1>6. PICK h : h = At("refused")
  OBVIOUS
<1>7. h \in Sound(decl, body, visited') /\ Kin(h, Top)
  BY <1>1, <1>6, SoundAt DEF Places
<1>8. CASE UseEnter
  <2>1. PICK arg, leaf, f, g, k : /\ arg = Tail(Named(Top.path)) /\ leaf = Plain
                                  /\ f = At("args") /\ g = Use(arg) /\ k = "use"
    OBVIOUS
  <2>2. arg \in Paths /\ leaf \in Types /\ Known(leaf, decl)
    BY <1>1, <1>5, <2>1, ArgFacts, PlainTypes, KnownPlain
  <2>3. f \in Sound(decl, body, visited') /\ Kin(f, Top) /\ f.k = "use"
    BY <1>1, <2>1, SoundAt DEF Places, Kin
  <2>4. g = Frame(k, arg, leaf, Key(Plain, 0)) /\ k \in {"use", "resolve"}
    BY <2>1 DEF Use
  <2>5. CASE Evaluate(f, arg, leaf, g)
    BY <1>1, <1>2, <1>3, <1>4, <2>2, <2>3, <2>4, <2>5, AdvanceEvaluate
  <2>6. CASE Return(Outer(Top.path) \o Null)
    <3>1. PICK t : t = Outer(Top.path) \o Null
      OBVIOUS
    <3>2. Known(t, decl) /\ Seen(t, visited)
      <4>1. Null \in Types /\ Known(Null, decl) /\ Seen(Null, visited)
        BY PlainTypes, KnownPlain, PlainMade DEF Seen
      <4>2. QED
        BY <1>5, <3>1, <4>1, KnownOuter, SeenOuter
    <3>3. ctl' = Front(ctl) /\ ret' = t
      BY <2>6, <3>1 DEF Return
    <3>4. QED
      BY <1>1, <1>2, <3>2, <3>3, AdvanceReturn
  <2>7. QED
    BY <1>8, <2>1, <2>5, <2>6 DEF UseEnter
<1>9. CASE UseAlias
  <2>1. PICK name, key, item, leaf, e, f, g, path, k :
           /\ name = <<Head(Named(Top.path))>> \o ret /\ key = Key(name, 0)
           /\ item = body[Head(name)][1] /\ leaf = LeafOf(item, key) /\ path = item.path
           /\ e = At("alias") /\ f = [e EXCEPT !.key = key] /\ g = Resolve(path, leaf)
           /\ k = "resolve"
    OBVIOUS
  <2>2. name \in Types /\ Len(name) >= 2 /\ Head(name) \in Aliases /\ Tail(name) = ret
    <3>1. name \in Types /\ Len(name) >= 2 /\ Tail(name) = ret
      BY <1>1, <2>1, NamedType
    <3>2. Head(name) \in registered \cap Aliases
      BY <1>9, <2>1 DEF UseAlias
    <3>3. QED
      BY <3>1, <3>2
  <2>3. key.name = name /\ key \in Keys
    BY <2>1, <2>2 DEF Key, Keys
  <2>4. path \in Paths /\ leaf \in Types
    <3>1. item \in Items
      BY <1>1, <2>1, <2>2, BodyFacts DEF Values
    <3>2. leaf \in Types
      BY <2>1, <2>2, <2>3, LeafType
    <3>3. QED
      BY <2>1, <3>1, <3>2, ItemFacts
  <2>5. CASE name \in DOMAIN aliasCache
    <3>1. PICK t, w : t = aliasCache[name] /\ w = Result("out", t)
      OBVIOUS
    <3>2. t \in Types /\ Known(t, decl) /\ Seen(t, visited')
      BY <1>1, <1>2, <2>5, <3>1 DEF Values, SoundInv
    <3>3. w \in Sound(decl, body, visited') /\ Kin(w, Top)
      BY <1>1, <3>1, <3>2, SoundResult
    <3>4. ctl' = With(w) /\ ret' = ret
      BY <1>9, <2>1, <2>5, <3>1 DEF UseAlias, Continue
    <3>5. QED
      BY <1>1, <1>2, <1>3, <1>4, <3>3, <3>4, AdvanceContinue
  <2>6. CASE name \notin DOMAIN aliasCache
    <3>1. Evaluate(f, path, leaf, g)
      BY <1>9, <2>1, <2>6 DEF UseAlias
    <3>2. g = Frame(k, path, leaf, Key(Plain, 0)) /\ k \in {"use", "resolve"} /\ k # "use"
      BY <2>1 DEF Resolve
    <3>3. Known(leaf, decl)
      BY <1>3, <2>1, <2>2, <2>3, KnownLeaf
    <3>4. Kin(e, Top) /\ e.at = "alias" /\ e.leaf = Top.leaf
      BY <1>1, <2>1, KinAt DEF Places
    <3>5. f \in FrameSet /\ f.k = e.k /\ f.at = e.at /\ f.path = e.path /\ f.key = key /\ f.leaf = e.leaf
      BY <2>1, <2>3, <3>4, FrameKey DEF Kin
    <3>6. Kin(f, Top) /\ f.k = "use" /\ f.at = "alias" /\ f.leaf = Top.leaf
      BY <1>1, <3>4, <3>5 DEF Kin
    <3>7. Proper(f, decl, body) /\ Calm(f)
      BY <1>3, <3>6 DEF Proper, Calm, Opens, StructVisit
    <3>8. f \in Sound(decl, body, visited')
      BY <3>5, <3>7, SoundCalm
    <3>9. QED
      BY <1>1, <1>2, <1>3, <1>4, <2>4, <3>1, <3>2, <3>3, <3>6, <3>8, AdvanceEvaluate
  <2>7. QED
    BY <2>5, <2>6
<1>10. CASE UseClass
  <2>1. PICK name, key, f, d : /\ name = <<Head(Named(Top.path))>> \o ret /\ key = Key(name, 0)
                               /\ f = Result("made", name) /\ d = depth
    OBVIOUS
  <2>2. name \in Types /\ Len(name) >= 2 /\ Tail(name) = ret
    BY <1>1, <2>1, NamedType
  <2>3. CASE Head(name) \in registered \cap Structs
    <3>1. key \in Instances /\ key.name = name
      BY <2>1, <2>2, <2>3, CallingFacts
    <3>2. f \in Sound(decl, body, visited') /\ Kin(f, Top)
      BY <1>1, <2>1, <2>2, <2>3, SoundResult
    <3>3. Instantiate(key, d, f, h) /\ Known(Tail(key.name), decl)
      BY <1>3, <1>6, <1>10, <2>1, <2>2, <2>3, <3>1 DEF UseClass
    <3>4. QED
      BY <1>1, <1>2, <1>3, <1>4, <1>7, <3>1, <3>2, <3>3, AdvanceInstantiate
  <2>4. CASE Continue(h)
    BY <1>1, <1>2, <1>3, <1>4, <1>7, <2>4, AdvanceContinue DEF Continue
  <2>5. QED
    BY <1>6, <1>10, <2>1, <2>3, <2>4 DEF UseClass
<1>11. QED
  BY <1>8, <1>9, <1>10

LEMMA AdvanceUsed ==
    ASSUME TypeInv, SoundInv, UseExpanded \/ UseMade \/ UseEnd
    PROVE  Advance
<1>1. Calls /\ Values /\ ctl # <<>> /\ Top.k = "use" /\ ret \in Types
  BY DEF TypeInv, UseExpanded, UseMade, UseEnd, In, Values
<1>2. ~Opens(Top) /\ \A f : Stays(f)
  BY <1>1 DEF Opens, StructVisit, Stays
<1>3. Known(ret, decl) /\ Known(Top.leaf, decl) /\ Visiting(Top, decl, visited)
  BY <1>1, TopSound
<1>4. Top.leaf \in Types /\ Top.path \in Paths
  BY <1>1, TopFacts
<1>5. CASE UseExpanded
  <2>1. PICK t, f, key : t = ret /\ f = Result("out", t) /\ key = Key(t, 0)
    OBVIOUS
  <2>2. EnsureVisited(t, f) /\ Known(t, decl) /\ t \in Types
    BY <1>1, <1>3, <1>5, <2>1 DEF UseExpanded
  <2>3. /\ Seen(t, visited')
        /\ \/ Continue(f) /\ visited' = visited
           \/ key \in DOMAIN decl /\ StartVisit(f, key)
    BY <2>1, <2>2, EnsuredSeen
  <2>4. f \in Sound(decl, body, visited') /\ Kin(f, Top) /\ f.k = "use"
    BY <1>1, <2>1, <2>2, <2>3, SoundResult
  <2>5. QED
    BY <1>1, <1>2, <1>3, <2>3, <2>4, AdvanceVisit
<1>6. CASE UseMade
  <2>1. PICK t, key, f : t = Top.leaf /\ key = Key(t, 0) /\ f = At("out")
    OBVIOUS
  <2>2. key \in DOMAIN decl
    BY <1>1, <1>6, <2>1, TopFacts DEF UseMade, In, Wanted
  <2>3. \/ Continue(f) /\ visited' = visited /\ NameOf(key) \in visited
        \/ key \in DOMAIN decl /\ StartVisit(f, key)
    BY <1>6, <2>1, <2>2 DEF UseMade
  <2>4. Seen(t, visited')
    <3>1. NameOf(key) \in visited'
      BY <2>3 DEF StartVisit
    <3>2. NameOf(key).t = t
      BY <2>1 DEF NameOf, Key
    <3>3. QED
      BY <3>1, <3>2 DEF Seen
  <2>5. Kin(f, Top) /\ f.at = "out" /\ f.leaf = t /\ f.k = "use" /\ f \in FrameSet
    BY <1>1, <2>1, KinAt DEF Places, Kin
  <2>6. Proper(f, decl, body) /\ Visiting(f, decl, visited')
    BY <1>3, <2>1, <2>4, <2>5 DEF Proper, Visiting, Opens, StructVisit
  <2>7. f \in Sound(decl, body, visited')
    BY <2>5, <2>6 DEF Sound
  <2>8. \/ Continue(f) /\ visited' = visited
        \/ key \in DOMAIN decl /\ StartVisit(f, key)
    BY <2>3
  <2>9. QED
    BY <1>1, <1>2, <1>3, <2>5, <2>7, <2>8, AdvanceVisit
<1>7. CASE UseEnd
  <2>1. PICK t : /\ ret' = Outer(Top.path) \o t
                 /\ \/ Top.at = "out" /\ t = Top.leaf
                    \/ t = Null
    BY <1>7 DEF UseEnd, In, Return
  <2>2. ctl' = Front(ctl) /\ visited' = visited
    BY <1>7 DEF UseEnd, Return
  <2>3. t \in Types /\ Known(t, decl) /\ Seen(t, visited)
    <3>1. CASE t = Null
      BY <3>1, PlainTypes, KnownPlain, PlainMade DEF Seen
    <3>2. CASE Top.at = "out" /\ t = Top.leaf
      BY <1>1, <1>3, <1>4, <3>2 DEF Visiting
    <3>3. QED
      BY <2>1, <3>1, <3>2
  <2>4. Known(ret', decl) /\ Seen(ret', visited)
    <3>1. PICK u : u = Outer(Top.path) \o t
      OBVIOUS
    <3>2. Known(u, decl) /\ Seen(u, visited)
      BY <1>4, <2>3, <3>1, KnownOuter, SeenOuter
    <3>3. QED
      BY <2>1, <3>1, <3>2
  <2>5. QED
    BY <1>1, <1>2, <2>2, <2>4, AdvanceReturn
<1>8. QED
  BY <1>5, <1>6, <1>7

-------------------------------------------------------------------------------
(* What is named is declared, always.                                        *)

\* The steps of the recursion that declare nothing.
Moves == Analyse \/ CloneItem \/ CloneNext \/ ResolveEnter \/ ResolveArgs \/ ResolveEnd

LEMMA MovesAdvance ==
    ASSUME TypeInv, SoundInv, OrderInv, Moves
    PROVE  Advance
<1>1. CASE Analyse
  BY <1>1, AdvanceField, AdvanceBody, AdvanceCall, AdvanceUse, AdvanceUsed DEF Analyse
<1>2. CASE CloneItem \/ CloneNext
  BY <1>2, AdvanceClone
<1>3. CASE ResolveEnter \/ ResolveArgs \/ ResolveEnd
  BY <1>3, AdvanceResolve
<1>4. QED
  BY <1>1, <1>2, <1>3 DEF Moves

LEMMA MovesKeep ==
    ASSUME Moves
    PROVE  /\ ctl # <<>> /\ UNCHANGED <<body, decl, pending, emitted, phase>>
           /\ visited \subseteq visited' /\ complete \subseteq complete' /\ scoped \subseteq scoped'
           /\ ~UseExpanded => UNCHANGED aliasCache
<1>1. CASE CloneItem \/ CloneNext \/ ResolveEnter \/ ResolveArgs \/ ResolveEnd
  BY <1>1 DEF CloneItem, CloneNext, ResolveEnter, ResolveArgs, ResolveEnd, In, Instantiate,
              unitVars, regVars, semaVars
<1>2. CASE VisitField \/ UseExpanded
  <2>1. visited \subseteq visited'
    BY <1>2 DEF VisitField, UseExpanded, EnsureVisited, StartVisit
  <2>2. QED
    BY <1>2, <2>1 DEF VisitField, UseExpanded, In, unitVars, regVars
<1>3. CASE CompleteStruct \/ DeclareFunction \/ VisitLocal \/ VisitCall \/ VisitEnd
  BY <1>3 DEF CompleteStruct, DeclareFunction, VisitLocal, VisitCall, VisitEnd, In,
              unitVars, regVars, semaVars
<1>4. CASE CallEnter \/ UseClass
  BY <1>4 DEF CallEnter, UseClass, In, Instantiate, unitVars, regVars, semaVars
<1>5. CASE CallMade \/ UseMade
  BY <1>5 DEF CallMade, UseMade, In, StartVisit, unitVars, regVars
<1>6. CASE CallEnd \/ UseEnter \/ UseAlias \/ UseEnd
  BY <1>6 DEF CallEnd, UseEnter, UseAlias, UseEnd, In, unitVars, regVars, semaVars
<1>7. QED
  BY <1>1, <1>2, <1>3, <1>4, <1>5, <1>6 DEF Moves, Analyse

LEMMA SeenGrows ==
    ASSUME NEW v, NEW w, v \subseteq w, NEW t, Seen(t, v)
    PROVE  Seen(t, w)
BY DEF Seen

LEMMA SoundMoves ==
    ASSUME TypeInv, SoundInv, OrderInv, Moves
    PROVE  SoundInv'
<1>1. Calls /\ Values /\ Advance
  BY MovesAdvance DEF TypeInv
<1>2. /\ ctl # <<>> /\ body' = body /\ decl' = decl /\ visited \subseteq visited'
      /\ ~UseExpanded => aliasCache' = aliasCache
  BY MovesKeep
<1>3. PICK G, d, b : G = Sound(decl, body, visited') /\ d = ctl' /\ b = body
  OBVIOUS
<1>4. \A i \in DOMAIN ctl : ctl[i] \in G
  <2>1. SUFFICES ASSUME NEW i \in DOMAIN ctl PROVE ctl[i] \in G
    OBVIOUS
  <2>2. PICK f : f = ctl[i]
    OBVIOUS
  <2>3. f \in Sound(decl, body, visited) /\ Keyed(f, states, decl)
    BY <1>1, <2>2 DEF SoundInv, Calls, Recursion, Registry
  <2>4. f.k = "visit" => f.key \in DOMAIN decl
    BY <2>3 DEF Keyed
  <2>5. f \in Sound(decl, body, visited')
    BY <1>2, <2>3, <2>4, SoundGrows
  <2>6. QED
    BY <1>3, <2>2, <2>5
<1>5. Steps(ctl, d, G, Queue) /\ G \in SUBSET FrameSet /\ Stack(ctl, b)
  BY <1>1, <1>3 DEF Advance, Sound, Calls, Recursion
<1>6. \A i \in DOMAIN d : d[i] \in G
  BY <1>4, <1>5, StepsStay
<1>7. \A i \in DOMAIN ctl' : ctl'[i] \in Sound(decl', body', visited')
  BY <1>2, <1>3, <1>6
<1>8. Known(ret', decl')
  BY <1>1, <1>2 DEF Advance
<1>9. \A k \in DOMAIN decl' : Alike(decl'[k], k, Len(body'[TemplateOf(k)]), decl', body')
  BY <1>2 DEF SoundInv
<1>10. \A n \in DOMAIN aliasCache' : Known(aliasCache'[n], decl') /\ Seen(aliasCache'[n], visited')
  <2>1. \A n \in DOMAIN aliasCache : Known(aliasCache[n], decl) /\ Seen(aliasCache[n], visited')
    BY <1>2, SeenGrows DEF SoundInv
  <2>2. CASE UseExpanded
    <3>1. PICK t, f, name : t = ret /\ f = Result("out", t) /\ name = Top.key.name
      OBVIOUS
    <3>2. EnsureVisited(t, f)
      BY <2>2, <3>1 DEF UseExpanded
    <3>3. Known(t, decl)
      BY <1>1, <1>2, <3>1, TopSound
    <3>4. Seen(t, visited')
      BY <3>2, <3>3, EnsuredSeen
    <3>5. \A n \in DOMAIN aliasCache' : \/ aliasCache'[n] = t
                                        \/ n \in DOMAIN aliasCache /\ aliasCache'[n] = aliasCache[n]
      BY <2>2, <3>1 DEF UseExpanded
    <3>6. QED
      BY <1>2, <2>1, <3>3, <3>4, <3>5
  <2>3. CASE ~UseExpanded
    BY <1>2, <2>1, <2>3
  <2>4. QED
    BY <2>2, <2>3
<1>11. QED
  BY <1>7, <1>8, <1>9, <1>10 DEF SoundInv

\* What the end of the copying of a body changes.
Finished(key, items, d) ==
    /\ key \in Instances /\ key \notin DOMAIN decl /\ DOMAIN d = DOMAIN decl \cup {key} /\ d[key] = items
    /\ \A k \in DOMAIN decl : d[k] = decl[k]

LEMMA FinishedFacts ==
    ASSUME TypeInv, CloneEnd, NEW key, key = Top.key, NEW items, items = Top.items, NEW d, d = decl'
    PROVE  Finished(key, items, d)
<1>1. Calls /\ ctl # <<>> /\ Top.k = "clone"
  BY DEF TypeInv, CloneEnd, In
<1>2. DOMAIN d = DOMAIN decl \cup {key}
      /\ \A k \in DOMAIN d : d[k] = IF k = key THEN items ELSE decl[k]
  BY DEF CloneEnd
<1>3. key \notin DOMAIN decl
  <2>1. Len(ctl) \in DOMAIN ctl /\ Top = ctl[Len(ctl)]
    BY <1>1, StackFacts DEF Calls, Recursion, Top
  <2>2. Cloning(ctl, key)
    BY <1>1, <2>1 DEF Cloning
  <2>3. key \in DOMAIN states /\ states[key] = "instantiating"
    BY <1>1, <2>2, TopFacts DEF Calls, Recursion, Registry
  <2>4. QED
    BY <1>1, <2>3, TableFacts
<1>4. key \in Instances
  BY <1>1, TopFacts DEF Fits
<1>5. QED
  BY <1>2, <1>3, <1>4 DEF Finished

LEMMA SoundCloneEnd ==
    ASSUME TypeInv, SoundInv, CloneEnd
    PROVE  SoundInv'
<1>1. Calls /\ Values /\ ctl # <<>> /\ Top.k = "clone"
  BY DEF TypeInv, CloneEnd, In
<1>2. PICK key, items, dl, b, v : key = Top.key /\ items = Top.items /\ dl = decl' /\ b = body /\ v = visited
  OBVIOUS
<1>3. Finished(key, items, dl)
  BY <1>2, FinishedFacts
<1>4. /\ DOMAIN decl \subseteq DOMAIN dl /\ \A k \in DOMAIN decl : dl[k] = decl[k]
      /\ DOMAIN dl = DOMAIN decl \cup {key} /\ dl[key] = items
  BY <1>3 DEF Finished
<1>5. /\ ctl' = Front(ctl) /\ ret' = ret /\ body' = b /\ visited' = v /\ aliasCache' = aliasCache
      /\ Top.at = "enter" /\ Top.i > Len(Body)
  BY <1>2 DEF CloneEnd, In, Return, unitVars, semaVars
<1>6. \A i \in DOMAIN ctl : ctl[i] \in Sound(dl, b, v)
  <2>1. SUFFICES ASSUME NEW i \in DOMAIN ctl PROVE ctl[i] \in Sound(dl, b, v)
    OBVIOUS
  <2>2. PICK f : f = ctl[i]
    OBVIOUS
  <2>3. f \in Sound(decl, b, v) /\ Keyed(f, states, decl)
    BY <1>1, <1>2, <2>2 DEF SoundInv, Calls, Recursion, Registry
  <2>4. (f.k = "visit" => f.key \in DOMAIN decl) /\ v \subseteq v
    BY <2>3 DEF Keyed
  <2>5. f \in Sound(dl, b, v)
    BY <1>4, <2>3, <2>4, SoundGrows
  <2>6. QED
    BY <2>2, <2>5
<1>7. PICK d : d = ctl'
  OBVIOUS
<1>8. Popped(ctl, d) /\ Len(ctl) \in Nat /\ DOMAIN ctl = 1..Len(ctl)
  <2>1. PICK c : c = ctl
    OBVIOUS
  <2>2. Stack(c, b) /\ c # <<>> /\ d = Front(c)
    BY <1>1, <1>2, <1>5, <1>7, <2>1 DEF Calls, Recursion
  <2>3. Popped(c, d) /\ Len(c) \in Nat /\ DOMAIN c = 1..Len(c)
    BY <2>2, StackPop, StackFacts
  <2>4. QED
    BY <2>1, <2>3
<1>9. \A i \in DOMAIN d : i \in DOMAIN ctl /\ d[i] = ctl[i]
  BY <1>8 DEF Popped
<1>10. \A i \in DOMAIN ctl' : ctl'[i] \in Sound(decl', body', visited')
  BY <1>2, <1>5, <1>6, <1>7, <1>9
<1>11. \A t : Known(t, decl) => Known(t, dl)
  BY <1>4 DEF Known
<1>12. \A item : KnownItem(item, decl) => KnownItem(item, dl)
  BY <1>11 DEF KnownItem
<1>13. \A w, k, n : Alike(w, k, n, decl, b) => Alike(w, k, n, dl, b)
  BY <1>12 DEF Alike
<1>14. \A k \in DOMAIN dl : Alike(dl[k], k, Len(b[TemplateOf(k)]), dl, b)
  <2>1. \A k \in DOMAIN decl : Alike(decl[k], k, Len(b[TemplateOf(k)]), decl, b)
    BY <1>2 DEF SoundInv
  <2>2. Alike(items, key, Top.i - 1, decl, b)
    BY <1>1, <1>2, TopSound DEF Proper
  <2>3. Top.i - 1 = Len(b[TemplateOf(key)])
    <3>1. /\ Top.i \in Nat \ {0} /\ Top.i <= Len(b[TemplateOf(key)]) + 1 /\ key \in Instances
      BY <1>1, <1>2, TopFacts DEF Fits
    <3>2. Len(b[TemplateOf(key)]) \in Nat
      BY <1>1, <1>2, <3>1, BodyFacts DEF Values
    <3>3. Top.i > Len(b[TemplateOf(key)])
      BY <1>2, <1>5 DEF Body
    <3>4. QED
      BY <3>1, <3>2, <3>3
  <2>4. QED
    BY <1>4, <1>13, <2>1, <2>2, <2>3
<1>15. Known(ret', decl')
  BY <1>1, <1>2, <1>5, <1>11, TopSound
<1>16. \A n \in DOMAIN aliasCache' : Known(aliasCache'[n], decl') /\ Seen(aliasCache'[n], visited')
  BY <1>2, <1>5, <1>11 DEF SoundInv
<1>17. \A k \in DOMAIN decl' : Alike(decl'[k], k, Len(body'[TemplateOf(k)]), decl', body')
  BY <1>2, <1>5, <1>14
<1>18. QED
  BY <1>10, <1>15, <1>16, <1>17 DEF SoundInv

-------------------------------------------------------------------------------
(* The order in which the instances were finished.                           *)

LEMMA QueueFacts ==
    ASSUME Values
    PROVE  /\ Queue \in Seq(Instances) /\ Len(Queue) \in Nat /\ DOMAIN Queue = 1..Len(Queue)
           /\ \A k : k \in DOMAIN decl <=> \E i \in DOMAIN Queue : Queue[i] = k
           /\ \A i \in DOMAIN emitted : i \in DOMAIN Queue /\ Queue[i] = emitted[i]
<1>1. PICK e, p, q : e = emitted /\ p = pending /\ q = Queue
  OBVIOUS
<1>2. /\ e \in Seq(Instances) /\ p \in Seq(Instances) /\ q = e \o p
      /\ ToSet(p) \cup ToSet(e) = DOMAIN decl
  BY <1>1 DEF Values, Queue
<1>3. PICK m \in Nat, n \in Nat : m = Len(e) /\ n = Len(p)
  BY <1>2
<1>4. /\ DOMAIN e = 1..m /\ DOMAIN p = 1..n /\ q \in Seq(Instances) /\ Len(q) = m + n
      /\ DOMAIN q = 1..(m + n)
  BY <1>2, <1>3
<1>5. \A i \in 1..(m + n) : q[i] = IF i <= m THEN e[i] ELSE p[i - m]
  BY <1>2, <1>3, ConcatProperties
<1>6. \A i \in 1..m : i \in 1..(m + n) /\ q[i] = e[i]
  BY <1>5
<1>7. \A i \in 1..n : i + m \in 1..(m + n) /\ q[i + m] = p[i]
  BY <1>5
<1>8. \A k : k \in DOMAIN decl => \E i \in DOMAIN q : q[i] = k
  <2>1. SUFFICES ASSUME NEW k \in DOMAIN decl PROVE \E i \in DOMAIN q : q[i] = k
    OBVIOUS
  <2>2. k \in ToSet(p) \/ k \in ToSet(e)
    BY <1>2
  <2>3. CASE k \in ToSet(e)
    BY <1>4, <1>6, <2>3 DEF ToSet
  <2>4. CASE k \in ToSet(p)
    <3>1. PICK i \in 1..n : p[i] = k
      BY <1>4, <2>4 DEF ToSet
    <3>2. i + m \in DOMAIN q /\ q[i + m] = k
      BY <1>4, <1>7, <3>1
    <3>3. QED
      BY <3>2
  <2>5. QED
    BY <2>2, <2>3, <2>4
<1>9. \A i \in DOMAIN q : q[i] \in DOMAIN decl
  <2>1. SUFFICES ASSUME NEW i \in 1..(m + n) PROVE q[i] \in DOMAIN decl
    BY <1>4
  <2>2. CASE i <= m
    <3>1. i \in DOMAIN e /\ q[i] = e[i]
      BY <1>4, <1>5, <2>2
    <3>2. QED
      BY <1>2, <3>1 DEF ToSet
  <2>3. CASE ~(i <= m)
    <3>1. i - m \in DOMAIN p /\ q[i] = p[i - m]
      BY <1>4, <1>5, <2>3
    <3>2. QED
      BY <1>2, <3>1 DEF ToSet
  <2>4. QED
    BY <2>2, <2>3
<1>10. QED
  BY <1>1, <1>4, <1>6, <1>8, <1>9

LEMMA QueueAppend ==
    ASSUME NEW e \in Seq(Instances), NEW p \in Seq(Instances), NEW key \in Instances
    PROVE  e \o Append(p, key) = Append(e \o p, key)
<1>1. PICK q, l : q = e \o p /\ l = <<key>>
  OBVIOUS
<1>2. q \in Seq(Instances) /\ l \in Seq(Instances)
  BY <1>1
<1>3. Append(p, key) = p \o l
  BY <1>1, AppendIsConcat
<1>4. Append(q, key) = q \o l
  BY <1>1, <1>2, AppendIsConcat
<1>5. (e \o p) \o l = e \o (p \o l)
  BY <1>2, ConcatAssociative
<1>6. QED
  BY <1>1, <1>3, <1>4, <1>5

\* An instance that passes from the queue to the unit.
LEMMA QueueShift ==
    ASSUME NEW e \in Seq(Instances), NEW p \in Seq(Instances), p # <<>>
    PROVE  Append(e, Head(p)) \o Tail(p) = e \o p
<1>1. PICK k, t, l : k = Head(p) /\ t = Tail(p) /\ l = <<k>>
  OBVIOUS
<1>2. k \in Instances /\ t \in Seq(Instances) /\ l \in Seq(Instances)
  BY <1>1
<1>3. Append(e, k) = e \o l
  BY <1>1, <1>2, AppendIsConcat
<1>4. l \o t = p
  <2>1. PICK s : s = l \o t
    OBVIOUS
  <2>0. Len(l) = 1 /\ l[1] = k
    BY <1>1
  <2>10. Len(p) \in Nat \ {0} /\ k = p[1]
    BY <1>1
  <2>2. Len(l) = 1 /\ l[1] = k /\ Len(p) \in Nat \ {0} /\ k = p[1]
    BY <2>0, <2>10
  <2>3. Len(t) = Len(p) - 1 /\ \A i \in 1..(Len(p) - 1) : t[i] = p[i + 1]
    BY <1>1, <2>2, HeadTailProperties
  <2>4. /\ s \in Seq(Instances) /\ Len(s) = Len(p)
        /\ \A i \in 1..Len(p) : s[i] = IF i <= 1 THEN l[i] ELSE t[i - 1]
    <3>1. /\ s \in Seq(Instances) /\ Len(s) = Len(l) + Len(t)
          /\ \A i \in 1..(Len(l) + Len(t)) : s[i] = IF i <= Len(l) THEN l[i] ELSE t[i - Len(l)]
      BY <1>2, <2>1, ConcatProperties
    <3>2. Len(l) + Len(t) = Len(p) /\ Len(l) = 1
      BY <2>2, <2>3
    <3>3. QED
      BY <3>1, <3>2
  <2>5. ASSUME NEW i \in 1..Len(p) PROVE s[i] = p[i]
    <3>1. CASE i = 1
      BY <2>2, <2>4, <3>1
    <3>2. CASE i # 1
      <4>1. i - 1 \in 1..(Len(p) - 1) /\ ~(i <= 1)
        BY <2>2, <3>2
      <4>2. s[i] = t[i - 1] /\ t[i - 1] = p[i - 1 + 1]
        BY <2>3, <2>4, <4>1
      <4>3. QED
        BY <2>2, <4>2
    <3>3. QED
      BY <3>1, <3>2
  <2>6. s = p
    BY <2>4, <2>5, SeqEqual
  <2>7. QED
    BY <2>1, <2>6
<1>5. (e \o l) \o t = e \o (l \o t)
  BY <1>2, ConcatAssociative
<1>6. QED
  BY <1>1, <1>3, <1>4, <1>5

LEMMA EarlierGrows ==
    ASSUME NEW q, NEW r, \A i \in DOMAIN q : i \in DOMAIN r /\ r[i] = q[i], NEW k, NEW l,
           Earlier(q, k, l)
    PROVE  Earlier(r, k, l)
BY DEF Earlier

\* A queue with one instance more.
Longer(q, r, key, n) ==
    /\ n \in Nat /\ DOMAIN q = 1..n /\ DOMAIN r = 1..(n + 1) /\ r[n + 1] = key /\ Len(r) = n + 1
    /\ \A i \in 1..n : r[i] = q[i]

LEMMA QueueFinished ==
    ASSUME TypeInv, CloneEnd, NEW key, key = Top.key, NEW q, q = Queue, NEW r, r = Queue',
           NEW n, n = Len(Queue)
    PROVE  Longer(q, r, key, n)
<1>1. Values /\ Calls /\ ctl # <<>> /\ Top.k = "clone"
  BY DEF TypeInv, CloneEnd, In
<1>2. key \in Instances
  BY <1>1, TopFacts DEF Fits
<1>3. q \in Seq(Instances) /\ n \in Nat /\ DOMAIN q = 1..n /\ Len(q) = n
  BY <1>1, QueueFacts
<1>4. PICK e, p : e = emitted /\ p = pending
  OBVIOUS
<1>5. e \in Seq(Instances) /\ p \in Seq(Instances) /\ q = e \o p
  BY <1>1, <1>4 DEF Values, Queue
<1>6. r = e \o Append(p, key)
  BY <1>4 DEF CloneEnd, unitVars, Queue
<1>7. r = Append(q, key)
  <2>1. e \o Append(p, key) = Append(e \o p, key)
    BY <1>2, <1>5, QueueAppend
  <2>2. QED
    BY <1>5, <1>6, <2>1
<1>8. QED
  BY <1>2, <1>3, <1>7 DEF Longer

LEMMA OrderCloneEnd ==
    ASSUME TypeInv, SoundInv, OrderInv, CloneEnd
    PROVE  OrderInv'
<1>1. Values /\ Calls /\ ctl # <<>> /\ Top.k = "clone"
  BY DEF TypeInv, CloneEnd, In
<1>2. PICK key, items, dl, q, r, n : /\ key = Top.key /\ items = Top.items /\ dl = decl'
                                     /\ q = Queue /\ r = Queue' /\ n = Len(Queue)
  OBVIOUS
<1>3. /\ n \in Nat /\ DOMAIN q = 1..n /\ DOMAIN r = 1..(n + 1) /\ r[n + 1] = key
      /\ \A i \in 1..n : r[i] = q[i]
  <2>1. key = Top.key /\ q = Queue /\ r = Queue' /\ n = Len(Queue)
    BY <1>2
  <2>2. Longer(q, r, key, n)
    BY <2>1, QueueFinished
  <2>3. QED
    BY <2>2 DEF Longer
<1>4. Finished(key, items, dl)
  BY <1>2, FinishedFacts
<1>5. \A k : k \in DOMAIN decl <=> \E i \in 1..n : q[i] = k
  BY <1>1, <1>2, <1>3, QueueFacts
<1>6. \A i \in 1..n : q[i] # key
  BY <1>4, <1>5 DEF Finished
<1>7. ASSUME NEW i \in 1..(n + 1), NEW j \in 1..(n + 1), r[i] = r[j] PROVE i = j
  <2>1. \A l \in 1..(n + 1) : l = n + 1 \/ l \in 1..n
    BY <1>3
  <2>2. CASE i \in 1..n /\ j \in 1..n
    BY <1>2, <1>3, <1>7, <2>2 DEF OrderInv
  <2>3. QED
    BY <1>3, <1>6, <1>7, <2>1, <2>2
<1>8. ASSUME NEW k \in DOMAIN dl, NEW j \in DOMAIN dl[k], dl[k][j].k = "type", Made(dl[k][j].t)
      PROVE  Earlier(r, Key(dl[k][j].t, 0), k)
  <2>1. CASE k \in DOMAIN decl
    <3>1. dl[k] = decl[k]
      BY <1>4, <2>1 DEF Finished
    <3>2. Earlier(q, Key(dl[k][j].t, 0), k)
      BY <1>2, <1>8, <2>1, <3>1 DEF OrderInv
    <3>3. \A i \in DOMAIN q : i \in DOMAIN r /\ r[i] = q[i]
      BY <1>3
    <3>4. QED
      BY <3>2, <3>3, EarlierGrows
  <2>2. CASE k = key
    <3>1. dl[k] = items
      BY <1>4, <2>2 DEF Finished
    <3>2. items \in Seq(Copies) /\ Alike(items, key, Top.i - 1, decl, body)
      BY <1>1, <1>2, TopFacts, TopSound DEF Proper
    <3>3. j \in 1..(Top.i - 1)
      BY <1>8, <3>1, <3>2 DEF Alike
    <3>4. KnownItem(items[j], decl)
      BY <3>2, <3>3 DEF Alike
    <3>5. PICK t : t = dl[k][j].t
      OBVIOUS
    <3>6. Key(t, 0) \in DOMAIN decl
      BY <1>8, <3>1, <3>4, <3>5 DEF KnownItem, Known
    <3>7. PICK i \in 1..n : q[i] = Key(t, 0)
      BY <1>5, <3>6
    <3>8. i \in DOMAIN r /\ n + 1 \in DOMAIN r /\ i < n + 1 /\ r[i] = Key(t, 0) /\ r[n + 1] = k
      BY <1>3, <2>2, <3>7
    <3>9. Earlier(r, Key(t, 0), k)
      BY <3>8 DEF Earlier
    <3>10. QED
      BY <3>5, <3>9
  <2>3. QED
    BY <1>4, <2>1, <2>2 DEF Finished
<1>9. QED
  BY <1>2, <1>3, <1>7, <1>8 DEF OrderInv

-------------------------------------------------------------------------------
(* The steps of the unit.                                                    *)

\* What they begin: nothing, or one call g, which visits what is visited now.
Begins ==
    /\ ctl = <<>> /\ UNCHANGED <<body, decl, ret, aliasCache, complete>>
    /\ visited \subseteq visited' /\ scoped' = scoped /\ Queue' = Queue
    /\ \/ ctl' = <<>> /\ visited' = visited
       \/ \E g \in Sound(decl, body, visited') :
             /\ ctl' = <<g>>
             /\ phase' = "unit" => g.k # "visit"
             /\ \A x \in visited' : x \in visited \/ (Head(x.t) \in Structs => Opens(g) /\ g.key.name = x.t)
    /\ phase' = "unit" => phase = "unit"

LEMMA BeginsUse ==
    ASSUME TypeInv, NEW path \in UsePaths, NEW ns, UseType(path, ns)
    PROVE  Begins
<1>1. ctl = <<>> /\ UNCHANGED <<body, decl, ret, aliasCache, complete, visited, scoped, phase>>
      /\ Queue' = Queue
  BY DEF UseType, AnalyseCode, regVars, semaVars, Queue
<1>2. PICK g, leaf, v : g = Use(path) /\ leaf = Plain /\ v = visited'
  OBVIOUS
<1>3. path \in Paths /\ leaf \in Types /\ Named(path) # <<>>
  <2>1. path \in Paths /\ \E i \in DOMAIN path : path[i] # "*"
    BY TemplatesAssumption
  <2>2. PICK n : n = Named(path)
    OBVIOUS
  <2>3. n # <<>>
    BY <2>1, <2>2, PathFacts
  <2>4. QED
    BY <1>2, <2>1, <2>2, <2>3, PlainTypes
<1>4. g \in FrameSet /\ g.at = "enter" /\ g.k = "use" /\ g.leaf = leaf
  BY <1>2, <1>3, EvaluateFrame DEF Use, Frame
<1>5. Proper(g, decl, body) /\ Calm(g)
  BY <1>2, <1>4, KnownPlain DEF Proper, Calm, Opens, StructVisit
<1>6. g \in Sound(decl, body, v)
  BY <1>4, <1>5, SoundCalm
<1>7. ctl' = <<g>>
  BY <1>2 DEF UseType
<1>8. QED
  BY <1>1, <1>2, <1>4, <1>6, <1>7 DEF Begins

LEMMA BeginsCall ==
    ASSUME TypeInv, NEW f \in Functions, NEW v \in {1, 2}, NEW ns, CallFunction(f, v, ns)
    PROVE  Begins
<1>1. ctl = <<>> /\ UNCHANGED <<body, decl, ret, aliasCache, complete, visited, scoped, phase>>
      /\ Queue' = Queue
  BY DEF CallFunction, AnalyseCode, regVars, semaVars, Queue
<1>2. PICK name, key, g, w, t : /\ t = Plain /\ name = <<f>> \o t /\ key = Key(name, v)
                                /\ g = Call(key) /\ w = visited'
  OBVIOUS
<1>3. name \in Types /\ Len(name) >= 2 /\ Head(name) = f /\ Tail(name) = t
  <2>1. f \in Letters /\ t \in Types
    BY <1>2, PlainTypes DEF Letters, Templates
  <2>2. QED
    BY <1>2, <2>1, TypeCons
<1>4. key \in Calling /\ key.name = name
  <2>1. key = Key(name, v) /\ name \in Types /\ Len(name) >= 2 /\ v \in {0, 1, 2}
        /\ Head(name) \in Functions
    BY <1>2, <1>3
  <2>2. QED
    BY <2>1, CallingFacts
<1>5. key \in Instances /\ TemplateOf(key) \in Functions /\ g = Frame("call", <<>>, Plain, key)
  BY <1>2, <1>4 DEF Calling, Call
<1>6. g \in FrameSet /\ g.at = "enter" /\ g.k = "call" /\ g.key = key
  BY <1>5, InstanceFrame DEF Frame
<1>7. Proper(g, decl, body) /\ Calm(g)
  <2>1. Known(Tail(key.name), decl)
    BY <1>2, <1>3, <1>4, KnownPlain
  <2>2. QED
    BY <1>6, <2>1 DEF Proper, Calm, Opens, StructVisit
<1>8. g \in Sound(decl, body, w)
  BY <1>6, <1>7, SoundCalm
<1>9. ctl' = <<g>>
  BY <1>2 DEF CallFunction
<1>10. QED
  BY <1>1, <1>2, <1>6, <1>8, <1>9 DEF Begins

LEMMA BeginsDrain ==
    ASSUME TypeInv, DrainNext
    PROVE  Begins
<1>1. /\ ctl = <<>> /\ UNCHANGED <<body, decl, ret, aliasCache, complete, scoped, phase>>
      /\ phase = "drain" /\ pending # <<>> /\ Calls /\ Values
  BY DEF DrainNext, TypeInv
<1>2. PICK e, p, key, g, w : /\ e = emitted /\ p = pending /\ key = Head(pending) /\ g = Visit(key)
                             /\ w = visited'
  OBVIOUS
<1>3. e \in Seq(Instances) /\ p \in Seq(Instances) /\ p # <<>> /\ key = Head(p) /\ key \in Instances
  BY <1>1, <1>2 DEF Values
<1>4. Append(e, Head(p)) \o Tail(p) = e \o p
  BY <1>3, QueueShift
<1>5. Queue' = Queue
  <2>1. emitted' = Append(e, Head(p)) /\ pending' = Tail(p)
    BY <1>2 DEF DrainNext
  <2>2. QED
    BY <1>2, <1>4, <2>1 DEF Queue
<1>6. CASE NameOf(key) \in visited
  <2>1. ctl' = <<>> /\ visited' = visited
    BY <1>1, <1>2, <1>6 DEF DrainNext
  <2>2. QED
    BY <1>1, <1>5, <2>1 DEF Begins
<1>7. CASE NameOf(key) \notin visited
  <2>1. ctl' = <<g>> /\ visited' = visited \cup {NameOf(key)}
    BY <1>1, <1>2, <1>7 DEF DrainNext
  <2>2. g = Frame("visit", <<>>, Plain, key)
    BY <1>2 DEF Visit
  <2>3. g \in FrameSet /\ g.at = "enter" /\ g.k = "visit" /\ g.key = key /\ g.i = 1
    BY <1>3, <2>2, InstanceFrame DEF Frame
  <2>4. Proper(g, decl, body)
    BY <2>3 DEF Proper
  <2>5. Visiting(g, decl, w)
    <3>1. key \in DOMAIN decl
      <4>1. key \in ToSet(p)
        BY <1>3 DEF ToSet
      <4>2. QED
        BY <1>1, <1>2, <4>1 DEF Values
    <3>2. decl[key] \in Seq(Copies)
      BY <1>1, <3>1 DEF Values
    <3>3. \A j \in DOMAIN decl[key] : ~(j < 1)
      BY <3>2
    <3>4. QED
      BY <2>3, <3>3 DEF Visiting
  <2>6. g \in Sound(decl, body, w)
    BY <2>3, <2>4, <2>5 DEF Sound
  <2>7. \A x \in w : x \in visited \/ (Head(x.t) \in Structs => Opens(g) /\ g.key.name = x.t)
    <3>1. NameOf(key).t = key.name
      BY DEF NameOf
    <3>2. Head(key.name) \in Structs => Opens(g)
      BY <2>3 DEF Opens, StructVisit, TemplateOf
    <3>3. \A x \in w : x \in visited \/ x = NameOf(key)
      BY <1>2, <2>1
    <3>4. QED
      BY <2>3, <3>1, <3>2, <3>3
  <2>8. QED
    BY <1>1, <1>2, <1>5, <2>1, <2>6, <2>7 DEF Begins
<1>8. QED
  BY <1>6, <1>7

LEMMA UnitBegins ==
    ASSUME TypeInv, Unit
    PROVE  Begins
<1>1. CASE RegisterTemplate \/ EndOfUnit \/ EndOfDrain
  <2>1. ctl = <<>> /\ UNCHANGED <<body, decl, ret, aliasCache, complete, visited, scoped, ctl>>
        /\ Queue' = Queue
    BY <1>1 DEF RegisterTemplate, EndOfUnit, EndOfDrain, regVars, semaVars, Queue
  <2>2. phase' = "unit" => phase = "unit"
    BY <1>1 DEF RegisterTemplate, EndOfUnit, EndOfDrain
  <2>3. QED
    BY <2>1, <2>2 DEF Begins
<1>2. QED
  BY <1>1, BeginsUse, BeginsCall, BeginsDrain DEF Unit

LEMMA SoundUnit ==
    ASSUME SoundInv, Begins
    PROVE  SoundInv'
<1>1. /\ body' = body /\ decl' = decl /\ ret' = ret /\ aliasCache' = aliasCache /\ visited \subseteq visited'
  BY DEF Begins
<1>2. \A i \in DOMAIN ctl' : ctl'[i] \in Sound(decl, body, visited')
  <2>1. CASE ctl' = <<>>
    BY <2>1
  <2>2. CASE \E g \in Sound(decl, body, visited') : ctl' = <<g>>
    BY <2>2
  <2>3. QED
    BY <2>1, <2>2 DEF Begins
<1>3. \A n \in DOMAIN aliasCache : Known(aliasCache[n], decl) /\ Seen(aliasCache[n], visited')
  BY <1>1, SeenGrows DEF SoundInv
<1>4. QED
  BY <1>1, <1>2, <1>3 DEF SoundInv

LEMMA SoundAfterStep ==
    ASSUME TypeInv, SoundInv, OrderInv, [Next]_vars
    PROVE  SoundInv' /\ OrderInv'
<1>1. CASE Moves
  <2>1. UNCHANGED <<decl, pending, emitted>>
    BY <1>1, MovesKeep
  <2>2. OrderInv'
    BY <2>1 DEF OrderInv, Queue
  <2>3. QED
    BY <1>1, <2>2, SoundMoves
<1>2. CASE CloneEnd
  BY <1>2, SoundCloneEnd, OrderCloneEnd
<1>3. CASE Unit
  <2>1. Begins
    BY <1>3, UnitBegins
  <2>2. decl' = decl /\ Queue' = Queue
    BY <2>1 DEF Begins
  <2>3. OrderInv'
    BY <2>2 DEF OrderInv
  <2>4. QED
    BY <2>1, <2>3, SoundUnit
<1>4. CASE UNCHANGED vars
  <2>1. UNCHANGED <<ctl, ret, body, decl, visited, aliasCache, pending, emitted>>
    BY <1>4 DEF vars, unitVars, regVars, semaVars
  <2>2. QED
    BY <2>1 DEF SoundInv, OrderInv, Queue
<1>5. QED
  BY <1>1, <1>2, <1>3, <1>4 DEF Next, Moves, Instantiation

LEMMA SoundAtStart == Init => SoundInv /\ OrderInv
<1>1. ASSUME Init PROVE SoundInv
  BY <1>1, KnownPlain DEF Init, SoundInv
<1>2. ASSUME Init PROVE OrderInv
  <2>1. Queue = <<>>
    BY <1>2 DEF Init, Queue
  <2>2. QED
    BY <1>2, <2>1 DEF Init, OrderInv
<1>3. QED
  BY <1>1, <1>2

-------------------------------------------------------------------------------
(* Classes in the order in which their analyses contain one another.         *)

Unique(q)     == DOMAIN q \subseteq Nat /\ \A i, j \in DOMAIN q : q[i] = q[j] => i = j
Ordered(c, q) == \A i, j \in DOMAIN c : i < j => Under(c[i], c[j], q)

LEMMA QueueUnique ==
    ASSUME Values, OrderInv
    PROVE  Unique(Queue)
<1>1. DOMAIN Queue = 1..Len(Queue) /\ Len(Queue) \in Nat
  BY QueueFacts
<1>2. QED
  BY <1>1 DEF OrderInv, Unique

LEMMA EarlierJoin ==
    ASSUME NEW q, Unique(q), NEW k, NEW l, NEW m, Earlier(q, k, l), Earlier(q, l, m)
    PROVE  Earlier(q, k, m)
<1>1. PICK i \in DOMAIN q, j \in DOMAIN q : i < j /\ q[i] = k /\ q[j] = l
  BY DEF Earlier
<1>2. PICK j2 \in DOMAIN q, h \in DOMAIN q : j2 < h /\ q[j2] = l /\ q[h] = m
  BY DEF Earlier
<1>3. j2 = j
  BY <1>1, <1>2 DEF Unique
<1>4. i < h
  BY <1>1, <1>2, <1>3 DEF Unique
<1>5. QED
  BY <1>1, <1>2, <1>4 DEF Earlier

LEMMA EarlierOnce ==
    ASSUME NEW q, Unique(q), NEW k, Earlier(q, k, k)
    PROVE  FALSE
<1>1. PICK i \in DOMAIN q, j \in DOMAIN q : i < j /\ q[i] = k /\ q[j] = k
  BY DEF Earlier
<1>2. i = j /\ i \in Nat
  BY <1>1 DEF Unique
<1>3. QED
  BY <1>1, <1>2

LEMMA UnderJoin ==
    ASSUME NEW q, Unique(q), NEW f, NEW g, NEW h, Under(f, g, q), Under(g, h, q)
    PROVE  Under(f, h, q)
<1>1. h.k = "use" => f.k = "use"
  BY DEF Under
<1>2. ASSUME StructVisit(h) PROVE f.k = "use" \/ (StructVisit(f) /\ Earlier(q, h.key, f.key))
  <2>1. CASE g.k = "use"
    BY <2>1 DEF Under
  <2>2. CASE StructVisit(g) /\ Earlier(q, h.key, g.key)
    <3>1. f.k = "use" \/ (StructVisit(f) /\ Earlier(q, g.key, f.key))
      BY <2>2 DEF Under
    <3>2. QED
      BY <2>2, <3>1, EarlierJoin
  <2>3. QED
    BY <1>2, <2>1, <2>2 DEF Under
<1>3. QED
  BY <1>1, <1>2 DEF Under

\* A frame that has gone on stands where it stood.
LEMMA KinStruct ==
    ASSUME NEW f, NEW t, Kin(f, t)
    PROVE  /\ f.k = t.k /\ (StructVisit(f) <=> StructVisit(t))
           /\ StructVisit(t) => f.key = t.key
BY DEF Kin, StructVisit

LEMMA UnderKin ==
    ASSUME NEW q, NEW f, NEW g, Under(f, g, q), NEW g2, Kin(g2, g)
    PROVE  Under(f, g2, q)
BY KinStruct DEF Under

LEMMA OrderedStep ==
    ASSUME NEW b, NEW c, Stack(c, b), NEW G \in SUBSET FrameSet, NEW d, NEW q, Steps(c, d, G, q),
           Unique(q), Ordered(c, q)
    PROVE  Ordered(d, q)
<1>1. PICK n \in Nat \ {0} : n = Len(c) /\ Went(c, d, G, q, n)
  BY StepsFacts
<1>2. /\ DOMAIN c = 1..n
      /\ \A i \in 1..(n - 1) : d[i] = c[i] /\ i \in DOMAIN c /\ i < n
      /\ \A i \in DOMAIN d : i \in 1..(n - 1) \/ i = n \/ i = n + 1
  BY <1>1 DEF Went
<1>3. n \in DOMAIN c /\ (n \in DOMAIN d => Kin(d[n], c[n]))
  BY <1>1, <1>2 DEF Went
<1>4. n + 1 \in DOMAIN d => n \in DOMAIN d /\ Under(d[n], d[n + 1], q)
  BY <1>1 DEF Went
<1>5. ASSUME NEW i \in 1..(n - 1), n \in DOMAIN d PROVE Under(d[i], d[n], q)
  <2>1. Under(c[i], c[n], q)
    BY <1>2, <1>3 DEF Ordered
  <2>2. PICK f, g, g2 : f = c[i] /\ g = c[n] /\ g2 = d[n]
    OBVIOUS
  <2>3. Under(f, g, q) /\ Kin(g2, g)
    BY <1>3, <1>5, <2>1, <2>2
  <2>4. Under(f, g2, q)
    BY <2>3, UnderKin
  <2>5. QED
    BY <1>2, <2>2, <2>4
<1>6. SUFFICES ASSUME NEW i \in DOMAIN d, NEW j \in DOMAIN d, i < j PROVE Under(d[i], d[j], q)
  BY DEF Ordered
<1>7. CASE j \in 1..(n - 1)
  <2>1. i \in 1..(n - 1)
    BY <1>2, <1>6, <1>7
  <2>2. QED
    BY <1>2, <1>6, <1>7, <2>1 DEF Ordered
<1>8. CASE j = n
  <2>1. i \in 1..(n - 1)
    BY <1>2, <1>6, <1>8
  <2>2. QED
    BY <1>5, <1>8, <2>1
<1>9. CASE j = n + 1
  <2>1. i \in 1..(n - 1) \/ i = n
    BY <1>2, <1>6, <1>9
  <2>2. n \in DOMAIN d /\ Under(d[n], d[j], q)
    BY <1>4, <1>9
  <2>3. CASE i \in 1..(n - 1)
    <3>1. PICK f, g, h : f = d[i] /\ g = d[n] /\ h = d[j]
      OBVIOUS
    <3>2. Under(f, g, q) /\ Under(g, h, q)
      BY <1>5, <2>2, <2>3, <3>1
    <3>3. Under(f, h, q)
      BY <3>2, UnderJoin
    <3>4. QED
      BY <3>1, <3>3
  <2>4. QED
    BY <2>1, <2>2, <2>3
<1>10. QED
  BY <1>2, <1>7, <1>8, <1>9

-------------------------------------------------------------------------------
(* Which classes are complete.                                               *)

\* The parts of LayoutsKnown, for a declaration and for a type that is named.
Laid(key, dl, s) ==
    key.name \in s =>
        \A i \in DOMAIN dl[key] : dl[key][i].k = "type" /\ Made(dl[key][i].t) => dl[key][i].t \in s

LEMMA LayoutParts ==
    LayoutsKnown <=> /\ \A key \in DOMAIN decl : Laid(key, decl, complete)
                     /\ phase = "unit" /\ ctl = <<>> /\ Made(ret) => ret \in complete
BY DEF LayoutsKnown, Laid, Made

\* A class that has been visited is complete, or its analysis has begun.
ClassesInv ==
    /\ Ordered(ctl, Queue)
    /\ ctl # <<>> /\ phase = "unit" => ctl[1].k # "visit"
    /\ \A n \in complete : Head(n) \in Structs /\ Key(n, 0) \in DOMAIN decl
    /\ \A x \in visited : Head(x.t) \in Structs => x.t \in complete \/ Opening(ctl, x.t)
    /\ LayoutsKnown

\* A class instance has one key.
LEMMA ClassKey ==
    ASSUME NEW key \in Instances, TemplateOf(key) \in Structs
    PROVE  key = Key(key.name, 0)
BY DEF Instances, Keys, Key

LEMMA CompleteMoves ==
    ASSUME TypeInv, Moves
    PROVE  \/ complete' = complete
           \/ /\ CompleteStruct /\ complete' = complete \cup {Top.key.name}
              /\ TemplateOf(Top.key) \in Structs /\ Top.key \in DOMAIN decl
              /\ Top.key = Key(Top.key.name, 0)
<1>1. CASE CompleteStruct
  <2>1. Calls /\ ctl # <<>> /\ Top.k = "visit" /\ complete' = complete \cup {Top.key.name} /\ ~IsFunction
    BY <1>1 DEF TypeInv, CompleteStruct, In
  <2>2. Top.key \in Instances /\ Top.key \in DOMAIN decl
    BY <2>1, TopFacts DEF Fits
  <2>3. TemplateOf(Top.key) \in Structs
    BY <2>1, <2>2 DEF Instances, IsFunction
  <2>4. PICK key : key = Top.key
    OBVIOUS
  <2>5. key = Key(key.name, 0)
    BY <2>2, <2>3, <2>4, ClassKey
  <2>6. QED
    BY <1>1, <2>1, <2>2, <2>3, <2>4, <2>5
<1>2. CASE ~CompleteStruct
  BY <1>2 DEF Moves, Analyse, CloneItem, CloneNext, ResolveEnter, ResolveArgs, ResolveEnd,
     VisitField, DeclareFunction, VisitLocal, VisitCall, VisitEnd, CallEnter, CallMade, CallEnd,
     UseEnter, UseAlias, UseExpanded, UseClass, UseMade, UseEnd, semaVars
<1>3. QED
  BY <1>1, <1>2

\* What has been visited when the analysis of a class has come to its methods: no
\* field's class is still being analysed, as this one would be a part of it.
LEMMA FieldsComplete ==
    ASSUME TypeInv, SoundInv, OrderInv, ClassesInv, CompleteStruct, NEW key, key = Top.key,
           key \in DOMAIN decl, TemplateOf(key) \in Structs,
           NEW j \in DOMAIN decl[key], decl[key][j].k = "type", NEW t, t = decl[key][j].t, Made(t)
    PROVE  t \in complete
<1>1. Calls /\ Values /\ ctl # <<>> /\ Top.k = "visit" /\ Top.at = "enter" /\ ~ItemIs("type")
  BY DEF TypeInv, CompleteStruct, In
<1>2. PICK n : n = Len(ctl)
  OBVIOUS
<1>3. n \in Nat \ {0} /\ DOMAIN ctl = 1..n /\ Top = ctl[n]
  BY <1>1, <1>2, StackFacts DEF Calls, Recursion, Top
<1>4. Opens(Top) /\ StructVisit(Top)
  BY <1>1 DEF Opens, StructVisit
<1>5. PICK items, bd, i : items = decl[key] /\ bd = body[TemplateOf(key)] /\ i = Top.i
  OBVIOUS
<1>6. /\ items \in Seq(Copies) /\ i \in Nat \ {0} /\ key \in Instances /\ bd \in Seq(Items)
  BY <1>1, <1>5, TopFacts, BodyFacts DEF Values, Fits
<1>7. Alike(items, key, Len(bd), decl, body)
  BY <1>5 DEF SoundInv
<1>8. Len(items) = Len(bd) /\ \A l \in 1..Len(bd) : items[l].k = bd[l].k
  BY <1>5, <1>7 DEF Alike
<1>9. j < i
  <2>1. Len(bd) \in Nat /\ DOMAIN bd = 1..Len(bd) /\ DOMAIN items = 1..Len(bd)
    BY <1>6, <1>8
  <2>2. j \in 1..Len(bd) /\ items[j].k = "type"
    BY <1>5, <2>1
  <2>3. i > Len(bd) \/ (i \in 1..Len(bd) /\ items[i].k # "type")
    BY <1>1, <1>5, <1>6, <1>8, <2>1 DEF ItemIs, Copy
  <2>4. CASE i \in 1..Len(bd) /\ items[i].k # "type"
    <3>1. bd[i].k # "type" /\ bd[j].k = "type"
      BY <1>8, <2>2, <2>4
    <3>2. bd[i] \in Items
      BY <1>6, <2>1, <2>4
    <3>3. bd[i].k = "call" /\ bd[j].k # "call"
      BY <3>1, <3>2, ItemFacts
    <3>4. ~(i < j)
      BY <1>1, <1>5, <2>1, <2>2, <2>4, <3>3, TemplatesAssumption DEF Values
    <3>5. i # j
      BY <3>1
    <3>6. QED
      BY <2>1, <2>2, <2>4, <3>4, <3>5
  <2>5. QED
    BY <1>6, <2>1, <2>2, <2>3, <2>4
<1>10. Seen(t, visited)
  BY <1>1, <1>4, <1>5, <1>9, TopSound DEF Visiting
<1>11. PICK x \in visited : x.t = t
  BY <1>10 DEF Seen
<1>12. Head(t) \in Structs
  BY DEF Made, IsInstance
<1>13. PICK q : q = Queue
  OBVIOUS
<1>14. Unique(q) /\ Earlier(q, Key(t, 0), key)
  BY <1>1, <1>13, QueueUnique DEF OrderInv
<1>15. ASSUME NEW l \in DOMAIN ctl, Opens(ctl[l]), ctl[l].key.name = t PROVE FALSE
  <2>1. PICK f, kf : f = ctl[l] /\ kf = f.key
    OBVIOUS
  <2>2. Fits(f, body) /\ f.k = "visit" /\ TemplateOf(kf) \in Structs
    BY <1>1, <1>15, <2>1 DEF Calls, Recursion, Stack, Opens, StructVisit
  <2>3. kf \in Instances
    BY <2>1, <2>2 DEF Fits
  <2>4. kf = Key(kf.name, 0)
    BY <2>2, <2>3, ClassKey
  <2>5. kf = Key(t, 0)
    BY <1>15, <2>1, <2>4
  <2>6. Earlier(q, kf, key)
    BY <1>14, <2>5
  <2>7. l = n \/ l < n
    BY <1>3
  <2>8. CASE l = n
    <3>1. kf = key
      BY <1>3, <2>1, <2>8
    <3>2. QED
      BY <1>14, <2>6, <3>1, EarlierOnce
  <2>9. CASE l < n
    <3>1. n \in DOMAIN ctl
      BY <1>3
    <3>2. Under(f, Top, q)
      BY <1>3, <1>13, <2>1, <2>9, <3>1 DEF ClassesInv, Ordered
    <3>3. Earlier(q, key, kf)
      BY <1>4, <2>1, <2>2, <3>2 DEF Under
    <3>4. Earlier(q, key, key)
      BY <1>14, <2>6, <3>3, EarlierJoin
    <3>5. QED
      BY <1>14, <3>4, EarlierOnce
  <2>10. QED
    BY <2>7, <2>8, <2>9
<1>16. ~Opening(ctl, t)
  BY <1>15 DEF Opening
<1>17. QED
  BY <1>11, <1>12, <1>16 DEF ClassesInv

-------------------------------------------------------------------------------
(* Every layout is known.                                                    *)

LEMMA ClassesMoves ==
    ASSUME TypeInv, SoundInv, OrderInv, ClassesInv, Moves
    PROVE  ClassesInv'
<1>1. Calls /\ Values /\ Advance
  BY MovesAdvance DEF TypeInv
<1>2. /\ ctl # <<>> /\ body' = body /\ decl' = decl /\ phase' = phase /\ complete \subseteq complete'
      /\ pending' = pending /\ emitted' = emitted
  BY MovesKeep
<1>3. PICK G, d, c, b, q : G = Sound(decl, body, visited') /\ d = ctl' /\ c = ctl /\ b = body /\ q = Queue
  OBVIOUS
<1>4. Queue' = q
  BY <1>2, <1>3 DEF Queue
<1>5. Stack(c, b) /\ Steps(c, d, G, q) /\ G \in SUBSET FrameSet
  BY <1>1, <1>3 DEF Advance, Sound, Calls, Recursion
<1>6. PICK n \in Nat \ {0} : n = Len(c) /\ Went(c, d, G, q, n)
  BY <1>5, StepsFacts
<1>7. Unique(q) /\ Ordered(c, q)
  BY <1>1, <1>3, QueueUnique DEF ClassesInv
<1>8. Ordered(ctl', Queue')
  <2>1. Ordered(d, q)
    BY <1>5, <1>7, OrderedStep
  <2>2. QED
    BY <1>3, <1>4, <2>1
<1>9. Top = c[n] /\ DOMAIN c = 1..n /\ \A i \in 1..(n - 1) : i \in DOMAIN d /\ d[i] = c[i]
  BY <1>3, <1>6 DEF Went, Top
<1>10. d # <<>> /\ phase' = "unit" => d[1].k # "visit"
  <2>1. SUFFICES ASSUME d # <<>>, phase = "unit" PROVE d[1].k # "visit"
    BY <1>2
  <2>2. c[1].k # "visit"
    BY <1>2, <1>3, <2>1 DEF ClassesInv
  <2>3. 1 \in 1..(n - 1) \/ n = 1
    OBVIOUS
  <2>4. CASE 1 \in 1..(n - 1)
    BY <1>9, <2>2, <2>4
  <2>5. CASE n = 1
    <3>1. 1 \in DOMAIN d => Kin(d[1], c[1])
      BY <1>6, <2>5 DEF Went
    <3>2. 1 \in DOMAIN d
      <4>1. Next
        BY DEF Moves, Next, Instantiation
      <4>2. TypeInv'
        BY <4>1, TypeAfterStep
      <4>3. d \in Seq(FrameSet)
        BY <1>3, <4>2 DEF TypeInv, Calls, Recursion, Stack
      <4>4. QED
        BY <2>1, <4>3
    <3>3. QED
      BY <2>2, <3>1, <3>2 DEF Kin
  <2>6. QED
    BY <2>3, <2>4, <2>5
<1>11. \A m \in complete' : Head(m) \in Structs /\ Key(m, 0) \in DOMAIN decl
  BY CompleteMoves DEF ClassesInv, TemplateOf
<1>12. \A x \in visited' : Head(x.t) \in Structs => x.t \in complete' \/ Opening(d, x.t)
  <2>1. SUFFICES ASSUME NEW x \in visited', Head(x.t) \in Structs, x.t \notin complete'
                 PROVE  Opening(d, x.t)
    OBVIOUS
  <2>2. CASE x \in visited
    <3>1. Opening(c, x.t)
      BY <1>2, <1>3, <2>1, <2>2 DEF ClassesInv
    <3>2. PICK i \in 1..n : Opens(c[i]) /\ c[i].key.name = x.t
      BY <1>9, <3>1 DEF Opening
    <3>3. i \in 1..(n - 1) \/ i = n
      OBVIOUS
    <3>4. CASE i \in 1..(n - 1)
      BY <1>9, <3>2, <3>4 DEF Opening
    <3>5. CASE i = n
      <4>1. Opens(Top) /\ Top.key.name = x.t
        BY <1>9, <3>2, <3>5
      <4>2. QED
        BY <1>1, <1>3, <2>1, <4>1 DEF Advance
    <3>6. QED
      BY <3>3, <3>4, <3>5
  <2>3. QED
    BY <1>1, <1>3, <2>1, <2>2 DEF Advance
<1>13. \A key \in DOMAIN decl : Laid(key, decl, complete')
  <2>1. \A key \in DOMAIN decl : Laid(key, decl, complete)
    BY LayoutParts DEF ClassesInv
  <2>2. CASE complete' = complete
    BY <2>1, <2>2
  <2>3. CASE /\ CompleteStruct /\ complete' = complete \cup {Top.key.name}
             /\ TemplateOf(Top.key) \in Structs /\ Top.key \in DOMAIN decl
             /\ Top.key = Key(Top.key.name, 0)
    <3>1. SUFFICES ASSUME NEW key \in DOMAIN decl, key.name \in complete',
                          NEW j \in DOMAIN decl[key], decl[key][j].k = "type", Made(decl[key][j].t)
                   PROVE  decl[key][j].t \in complete'
      BY DEF Laid
    <3>2. CASE key.name \in complete
      BY <1>2, <2>1, <3>1, <3>2 DEF Laid
    <3>3. CASE key.name = Top.key.name
      <4>1. key \in Instances /\ TemplateOf(key) \in Structs
        BY <1>1, <2>3, <3>3, TableFacts DEF TemplateOf
      <4>2. key = Top.key
        BY <2>3, <3>3, <4>1, ClassKey
      <4>3. PICK t : t = decl[key][j].t
        OBVIOUS
      <4>4. t \in complete
        BY <2>3, <3>1, <4>1, <4>2, <4>3, FieldsComplete
      <4>5. QED
        BY <1>2, <4>3, <4>4
    <3>4. QED
      BY <2>3, <3>1, <3>2, <3>3
  <2>4. QED
    BY <2>2, <2>3, CompleteMoves
<1>14. phase' = "unit" /\ d = <<>> /\ Made(ret') => ret' \in complete'
  <2>1. SUFFICES ASSUME phase = "unit", d = <<>>, Made(ret') PROVE ret' \in complete'
    BY <1>2
  <2>2. n = 1
    BY <1>9, <2>1
  <2>3. Top = ctl[1] /\ Top.k \in {"use", "call", "visit"} /\ Top.k # "visit"
    BY <1>2, <1>3, <1>5, <1>9, <2>1, <2>2 DEF ClassesInv, Stack
  <2>4. Seen(ret', visited')
    BY <1>1, <1>3, <2>1, <2>3 DEF Advance
  <2>5. PICK x \in visited' : x.t = ret'
    BY <2>1, <2>4 DEF Seen
  <2>6. Head(ret') \in Structs
    BY <2>1 DEF Made, IsInstance
  <2>7. ~Opening(d, x.t)
    BY <2>1 DEF Opening
  <2>8. QED
    BY <1>12, <2>5, <2>6, <2>7
<1>15. LayoutsKnown'
  <2>1. \A key \in DOMAIN decl' : Laid(key, decl', complete')
    BY <1>2, <1>13
  <2>2. phase' = "unit" /\ ctl' = <<>> /\ Made(ret') => ret' \in complete'
    BY <1>3, <1>14
  <2>3. QED
    BY <2>1, <2>2 DEF LayoutsKnown, Laid, Made
<1>16. QED
  BY <1>2, <1>3, <1>8, <1>10, <1>11, <1>12, <1>15 DEF ClassesInv

LEMMA ClassesCloneEnd ==
    ASSUME TypeInv, OrderInv, ClassesInv, CloneEnd
    PROVE  ClassesInv'
<1>1. Calls /\ Values /\ ctl # <<>> /\ Top.k = "clone"
  BY DEF TypeInv, CloneEnd, In
<1>2. PICK c, d, b, key, items, dl : /\ c = ctl /\ d = ctl' /\ b = body /\ key = Top.key
                                     /\ items = Top.items /\ dl = decl'
  OBVIOUS
<1>3. /\ d = Front(c) /\ UNCHANGED <<visited, complete, phase>>
  BY <1>2 DEF CloneEnd, Return, unitVars, semaVars
<1>4. Finished(key, items, dl)
  BY <1>2, FinishedFacts
<1>5. PICK q, r, n : q = Queue /\ r = Queue' /\ n = Len(Queue)
  OBVIOUS
<1>6. \A i \in DOMAIN q : i \in DOMAIN r /\ r[i] = q[i]
  <2>1. key = Top.key /\ q = Queue /\ r = Queue' /\ n = Len(Queue)
    BY <1>2, <1>5
  <2>2. Longer(q, r, key, n)
    BY <2>1, QueueFinished
  <2>3. QED
    BY <2>2 DEF Longer
<1>7. Stack(c, b) /\ c # <<>>
  BY <1>1, <1>2 DEF Calls, Recursion
<1>8. PICK m : m = Len(c)
  OBVIOUS
<1>9. /\ Popped(c, d) /\ m \in Nat \ {0} /\ DOMAIN c = 1..m /\ Last(c) = c[m] /\ Len(c) = m
  BY <1>3, <1>7, <1>8, StackPop, StackFacts
<1>10. /\ DOMAIN d = 1..(m - 1) /\ \A i \in 1..(m - 1) : d[i] = c[i] /\ i \in DOMAIN c
  BY <1>9 DEF Popped
<1>11. Ordered(d, r)
  <2>1. SUFFICES ASSUME NEW i \in DOMAIN d, NEW j \in DOMAIN d, i < j PROVE Under(d[i], d[j], r)
    BY DEF Ordered
  <2>2. PICK f, g : f = d[i] /\ g = d[j]
    OBVIOUS
  <2>3. Under(f, g, q)
    BY <1>2, <1>5, <1>10, <2>1, <2>2 DEF ClassesInv, Ordered
  <2>4. Under(f, g, r)
    BY <1>6, <2>3, EarlierGrows DEF Under
  <2>5. QED
    BY <2>2, <2>4
<1>12. c[1].k # "clone" /\ c[m].k = "clone"
  BY <1>1, <1>2, <1>7, <1>9 DEF Stack, Top
<1>13. m # 1 /\ d # <<>> /\ 1 \in 1..(m - 1)
  BY <1>9, <1>10, <1>12
<1>14. phase' = "unit" => d[1].k # "visit"
  BY <1>2, <1>3, <1>7, <1>10, <1>13 DEF ClassesInv
<1>15. \A s \in complete : Head(s) \in Structs /\ Key(s, 0) \in DOMAIN dl
  BY <1>4 DEF ClassesInv, Finished
<1>16. \A x \in visited : Head(x.t) \in Structs => x.t \in complete \/ Opening(d, x.t)
  <2>1. SUFFICES ASSUME NEW x \in visited, Head(x.t) \in Structs, x.t \notin complete
                 PROVE  Opening(d, x.t)
    OBVIOUS
  <2>2. PICK i \in 1..m : Opens(c[i]) /\ c[i].key.name = x.t
    BY <1>2, <1>9, <2>1 DEF ClassesInv, Opening
  <2>3. i # m
    BY <1>12, <2>2 DEF Opens, StructVisit
  <2>4. i \in 1..(m - 1)
    BY <1>9, <2>3
  <2>5. QED
    BY <1>10, <2>2, <2>4 DEF Opening
<1>17. \A k \in DOMAIN dl : Laid(k, dl, complete)
  <2>1. \A k \in DOMAIN decl : Laid(k, decl, complete)
    BY LayoutParts DEF ClassesInv
  <2>2. SUFFICES ASSUME NEW k \in DOMAIN dl, k.name \in complete PROVE Laid(k, dl, complete)
    BY DEF Laid
  <2>3. k \in Instances
    BY <1>1, <1>4, TableFacts DEF Finished
  <2>4. Key(k.name, 0) \in DOMAIN decl /\ TemplateOf(k) \in Structs
    BY <2>2 DEF ClassesInv, TemplateOf
  <2>5. k = Key(k.name, 0)
    BY <2>3, <2>4, ClassKey
  <2>6. k \in DOMAIN decl /\ dl[k] = decl[k]
    BY <1>4, <2>4, <2>5 DEF Finished
  <2>7. QED
    BY <2>1, <2>6 DEF Laid
<1>18. LayoutsKnown'
  <2>1. \A k \in DOMAIN decl' : Laid(k, decl', complete')
    BY <1>2, <1>3, <1>17
  <2>2. ctl' # <<>>
    BY <1>2, <1>13
  <2>3. QED
    BY <2>1, <2>2 DEF LayoutsKnown, Laid, Made
<1>19. QED
  BY <1>2, <1>3, <1>5, <1>11, <1>14, <1>15, <1>16, <1>18 DEF ClassesInv

LEMMA ClassesUnit ==
    ASSUME ClassesInv, Begins
    PROVE  ClassesInv'
<1>1. /\ ctl = <<>> /\ decl' = decl /\ ret' = ret /\ complete' = complete /\ visited \subseteq visited'
      /\ Queue' = Queue /\ (phase' = "unit" => phase = "unit")
  BY DEF Begins
<1>2. LayoutsKnown'
  <2>1. LayoutsKnown
    BY DEF ClassesInv
  <2>2. QED
    BY <1>1, <2>1 DEF LayoutsKnown
<1>3. \A x \in visited : Head(x.t) \in Structs => x.t \in complete
  BY <1>1 DEF ClassesInv, Opening
<1>4. PICK d, w : d = ctl' /\ w = visited'
  OBVIOUS
<1>5. /\ Ordered(d, Queue) /\ (d # <<>> /\ phase' = "unit" => d[1].k # "visit")
      /\ \A x \in w : Head(x.t) \in Structs => x.t \in complete \/ Opening(d, x.t)
  <2>1. CASE d = <<>> /\ w = visited
    BY <1>3, <2>1 DEF Ordered
  <2>2. CASE \E g \in Sound(decl, body, w) :
                /\ d = <<g>>
                /\ phase' = "unit" => g.k # "visit"
                /\ \A x \in w : x \in visited \/ (Head(x.t) \in Structs => Opens(g) /\ g.key.name = x.t)
    <3>1. PICK g : /\ d = <<g>>
                   /\ phase' = "unit" => g.k # "visit"
                   /\ \A x \in w : x \in visited \/ (Head(x.t) \in Structs => Opens(g) /\ g.key.name = x.t)
      BY <2>2
    <3>2. DOMAIN d = {1} /\ d[1] = g
      BY <3>1
    <3>3. Ordered(d, Queue)
      BY <3>2 DEF Ordered
    <3>4. QED
      BY <1>3, <3>1, <3>2, <3>3 DEF Opening
  <2>3. QED
    BY <1>4, <2>1, <2>2 DEF Begins
<1>6. QED
  BY <1>1, <1>2, <1>4, <1>5 DEF ClassesInv

LEMMA ClassesAfterStep ==
    ASSUME TypeInv, SoundInv, OrderInv, ClassesInv, [Next]_vars
    PROVE  ClassesInv'
<1>1. CASE Unit
  BY <1>1, UnitBegins, ClassesUnit
<1>2. CASE UNCHANGED vars
  <2>1. UNCHANGED <<ctl, ret, decl, visited, complete, phase, pending, emitted>>
    BY <1>2 DEF vars, unitVars, regVars, semaVars
  <2>2. QED
    BY <2>1 DEF ClassesInv, LayoutsKnown, Queue
<1>3. QED
  BY <1>1, <1>2, ClassesMoves, ClassesCloneEnd DEF Next, Moves, Instantiation

LEMMA LayoutsAlways == Spec => [](SoundInv /\ OrderInv /\ ClassesInv)
<1>1. Init => SoundInv /\ OrderInv /\ ClassesInv
  <2>1. ASSUME Init PROVE ClassesInv
    <3>1. LayoutsKnown
      <4>1. ret = Plain /\ DOMAIN decl = {}
        BY <2>1 DEF Init
      <4>2. ~Made(ret)
        BY <4>1, PlainMade
      <4>3. QED
        BY <4>1, <4>2 DEF LayoutsKnown, Made
    <3>2. QED
      BY <2>1, <3>1 DEF Init, ClassesInv, Ordered
  <2>2. QED
    BY <2>1, SoundAtStart
<1>2. TypeInv /\ SoundInv /\ OrderInv /\ ClassesInv /\ [Next]_vars => (SoundInv /\ OrderInv /\ ClassesInv)'
  BY SoundAfterStep, ClassesAfterStep
<1>3. QED
  BY <1>1, <1>2, TypesAlways, PTL DEF Spec

\* When a class instance is complete, so are the instances that its fields contain by
\* value, and the type of a declaration outside of templates is complete when it has
\* been analysed (LayoutsKnown): for any templates, programs and limits. When
\* the fields of a class have been gone through, all their classes have been visited; one
\* of them could only be incomplete while its own analysis goes on further down the stack.
\* It would then contain the class in hand, copied before it; but as the class of a field
\* it was itself copied before that one.
THEOREM LayoutsAreKnown == Spec => []LayoutsKnown
<1>1. ClassesInv => LayoutsKnown
  BY DEF ClassesInv
<1>2. QED
  BY <1>1, LayoutsAlways, PTL

-------------------------------------------------------------------------------
(* What is emitted has been analysed.                                        *)

\* A copy of that name up to j has been analysed; a function call has just got its
\* copy, and will have it analysed unless the name has been visited.
Met(q, j, a)   == \E i \in 1..j : q[i].name = q[j].name /\ q[i] \in a
Asking(c, key) == c # <<>> /\ Last(c).k = "call" /\ Last(c).at = "made" /\ Last(c).key = key

\* The instance at j of the queue q, when s has the names that were changed.
Served(q, j, a, s, c) ==
    TemplateOf(q[j]) \in Functions /\ (\A k \in s : k.name # q[j].name)
        => Met(q, j, a) \/ (j = Len(q) /\ Asking(c, q[j]))

Noted(v, a) == \A x \in v : \E k \in a : k.name = x.t

EmittedInv ==
    /\ analysed \in Seq(Instances) /\ ToSet(analysed) \subseteq DOMAIN decl
    /\ Noted(visited, ToSet(analysed))
    /\ \A i \in DOMAIN emitted : \E x \in visited : x.t = emitted[i].name
    /\ \A j \in DOMAIN Queue : Served(Queue, j, ToSet(analysed), scoped, ctl)
    /\ phase = "end" => pending = <<>> /\ ctl = <<>>

\* What is visited is analysed.
Notes ==
    \/ visited' = visited /\ analysed' = analysed
    \/ \E key \in DOMAIN decl : visited' = visited \cup {NameOf(key)} /\ analysed' = Append(analysed, key)

LEMMA NotesMoves ==
    ASSUME TypeInv, Moves
    PROVE  Notes
<1>1. CASE VisitField \/ UseExpanded
  <2>1. PICK t, f : EnsureVisited(t, f)
    BY <1>1 DEF VisitField, UseExpanded
  <2>2. QED
    BY <2>1 DEF EnsureVisited, StartVisit, Notes
<1>2. CASE UseMade
  <2>1. PICK key : key = Key(Top.leaf, 0)
    OBVIOUS
  <2>2. Calls /\ ctl # <<>> /\ Top.k = "use" /\ Top.at = "made"
    BY <1>2 DEF TypeInv, UseMade, In
  <2>3. key \in DOMAIN decl
    BY <2>1, <2>2, TopFacts DEF Wanted
  <2>4. QED
    BY <1>2, <2>1, <2>3 DEF UseMade, StartVisit, Notes
<1>3. CASE CallMade
  <2>1. PICK key : key = Top.key
    OBVIOUS
  <2>2. Calls /\ ctl # <<>> /\ Top.k = "call" /\ Top.at = "made"
    BY <1>3 DEF TypeInv, CallMade, In
  <2>3. key \in DOMAIN decl
    BY <2>1, <2>2, TopFacts DEF Wanted
  <2>4. QED
    BY <1>3, <2>1, <2>3 DEF CallMade, StartVisit, Notes
<1>4. CASE \/ CompleteStruct \/ DeclareFunction \/ VisitLocal \/ VisitCall \/ VisitEnd \/ CallEnter
           \/ CallEnd \/ UseEnter \/ UseAlias \/ UseClass \/ UseEnd
  <2>1. UNCHANGED <<analysed, visited>>
    BY <1>4 DEF CompleteStruct, DeclareFunction, VisitLocal, VisitCall, VisitEnd, CallEnter, CallEnd,
                UseEnter, UseAlias, UseClass, UseEnd, semaVars
  <2>2. QED
    BY <2>1 DEF Notes
<1>5. CASE CloneItem \/ CloneNext \/ ResolveEnter \/ ResolveArgs \/ ResolveEnd
  <2>1. UNCHANGED <<analysed, visited>>
    BY <1>5 DEF CloneItem, CloneNext, ResolveEnter, ResolveArgs, ResolveEnd, semaVars
  <2>2. QED
    BY <2>1 DEF Notes
<1>6. QED
  BY <1>1, <1>2, <1>3, <1>4, <1>5 DEF Moves, Analyse

LEMMA NotesUnit ==
    ASSUME TypeInv, Unit
    PROVE  /\ Notes
           /\ \/ emitted' = emitted
              \/ /\ emitted' = Append(emitted, Head(pending))
                 /\ \E x \in visited' : x.t = Head(pending).name
<1>1. CASE DrainNext
  <2>1. PICK key : key = Head(pending)
    OBVIOUS
  <2>2. key \in DOMAIN decl
    <3>1. key \in ToSet(pending)
      BY <1>1, <2>1 DEF DrainNext, TypeInv, Values, ToSet
    <3>2. QED
      BY <3>1 DEF TypeInv, Values
  <2>3. \/ NameOf(key) \in visited /\ visited' = visited /\ analysed' = analysed
        \/ visited' = visited \cup {NameOf(key)} /\ analysed' = Append(analysed, key)
    BY <1>1, <2>1 DEF DrainNext
  <2>4. NameOf(key) \in visited' /\ NameOf(key).t = key.name
    BY <2>3 DEF NameOf
  <2>5. emitted' = Append(emitted, key)
    BY <1>1, <2>1 DEF DrainNext
  <2>6. QED
    BY <2>1, <2>2, <2>3, <2>4, <2>5 DEF Notes
<1>2. CASE ~DrainNext
  <2>1. UNCHANGED <<analysed, visited, emitted>>
    BY <1>2 DEF Unit, RegisterTemplate, UseType, CallFunction, AnalyseCode, EndOfUnit, EndOfDrain,
                semaVars
  <2>2. QED
    BY <2>1 DEF Notes
<1>3. QED
  BY <1>1, <1>2

LEMMA NotesFacts ==
    ASSUME Calls, EmittedInv, Notes, NEW a, a = ToSet(analysed), NEW a2, a2 = ToSet(analysed')
    PROVE  /\ analysed' \in Seq(Instances) /\ a2 \subseteq DOMAIN decl /\ a \subseteq a2
           /\ visited \subseteq visited' /\ Noted(visited', a2)
<1>1. CASE visited' = visited /\ analysed' = analysed
  BY <1>1 DEF EmittedInv
<1>2. CASE \E key \in DOMAIN decl : visited' = visited \cup {NameOf(key)} /\ analysed' = Append(analysed, key)
  <2>1. PICK key \in DOMAIN decl : visited' = visited \cup {NameOf(key)} /\ analysed' = Append(analysed, key)
    BY <1>2
  <2>2. key \in Instances
    BY TableFacts
  <2>3. PICK s, s2 : s = analysed /\ s2 = analysed'
    OBVIOUS
  <2>4. s \in Seq(Instances) /\ s2 = Append(s, key) /\ a = ToSet(s) /\ a2 = ToSet(s2)
    BY <2>1, <2>3 DEF EmittedInv
  <2>5. /\ s2 \in Seq(Instances) /\ Len(s) \in Nat /\ DOMAIN s = 1..Len(s)
        /\ DOMAIN s2 = 1..(Len(s) + 1) /\ s2[Len(s) + 1] = key /\ \A i \in 1..Len(s) : s2[i] = s[i]
    BY <2>2, <2>4
  <2>6. a2 = a \cup {key}
    <3>1. \A i \in DOMAIN s2 : i \in DOMAIN s \/ s2[i] = key
      BY <2>5
    <3>2. \A i \in DOMAIN s : i \in DOMAIN s2 /\ s2[i] = s[i]
      BY <2>5
    <3>3. Len(s) + 1 \in DOMAIN s2 /\ s2[Len(s) + 1] = key
      BY <2>5
    <3>4. a = {s[i] : i \in DOMAIN s} /\ a2 = {s2[i] : i \in DOMAIN s2}
      BY <2>4 DEF ToSet
    <3>5. QED
      BY <3>1, <3>2, <3>3, <3>4
  <2>7. NameOf(key).t = key.name
    BY DEF NameOf
  <2>8. Noted(visited', a2)
    BY <2>1, <2>6, <2>7 DEF EmittedInv, Noted
  <2>9. QED
    BY <2>1, <2>3, <2>5, <2>6, <2>8 DEF EmittedInv
<1>3. QED
  BY <1>1, <1>2 DEF Notes

\* A copy that is served stays so.
LEMMA ServedStays ==
    ASSUME NEW q, NEW j, NEW a, NEW a2, a \subseteq a2, NEW s, NEW s2, s \subseteq s2, NEW c, NEW d,
           Served(q, j, a, s, c), j = Len(q) /\ Asking(c, q[j]) => Met(q, j, a2)
    PROVE  Served(q, j, a2, s2, d)
<1>1. Met(q, j, a) => Met(q, j, a2)
  BY DEF Met
<1>2. QED
  BY <1>1 DEF Served

LEMMA EmittedMoves ==
    ASSUME TypeInv, EmittedInv, Moves
    PROVE  EmittedInv'
<1>1. Calls /\ Values /\ Notes
  BY NotesMoves DEF TypeInv
<1>2. /\ ctl # <<>> /\ decl' = decl /\ phase' = phase /\ pending' = pending /\ emitted' = emitted
      /\ scoped \subseteq scoped'
  BY MovesKeep
<1>3. PICK a, a2, q, s, s2, d : /\ a = ToSet(analysed) /\ a2 = ToSet(analysed') /\ q = Queue
                                /\ s = scoped /\ s2 = scoped' /\ d = ctl'
  OBVIOUS
<1>4. /\ analysed' \in Seq(Instances) /\ a2 \subseteq DOMAIN decl /\ a \subseteq a2
      /\ visited \subseteq visited' /\ Noted(visited', a2)
  BY <1>1, <1>3, NotesFacts
<1>5. ASSUME NEW j \in DOMAIN q, j = Len(q), Asking(ctl, q[j]) PROVE Met(q, j, a2)
  <2>1. Top.k = "call" /\ Top.at = "made" /\ Top.key = q[j]
    BY <1>5 DEF Asking, Top
  <2>2. CallMade
    BY <2>1 DEF Moves, Analyse, CloneItem, CloneNext, ResolveEnter, ResolveArgs, ResolveEnd,
       VisitField, CompleteStruct, DeclareFunction, VisitLocal, VisitCall, VisitEnd, CallEnter,
       CallEnd, UseEnter, UseAlias, UseExpanded, UseClass, UseMade, UseEnd, In
  <2>3. PICK key : key = Top.key
    OBVIOUS
  <2>4. Len(q) \in Nat /\ DOMAIN q = 1..Len(q) /\ \A k \in DOMAIN decl : \E i \in DOMAIN q : q[i] = k
    BY <1>1, <1>3, QueueFacts
  <2>5. j \in Nat \ {0} /\ DOMAIN q = 1..j
    BY <1>5, <2>4
  <2>6. CASE [t |-> key.name, ns |-> FALSE] \in visited
    <3>1. PICK k \in a : k.name = key.name
      BY <1>3, <2>6 DEF EmittedInv, Noted
    <3>2. k \in DOMAIN decl /\ k \in a2
      BY <1>4, <3>1
    <3>3. PICK i \in 1..j : q[i] = k
      BY <2>4, <2>5, <3>2
    <3>4. QED
      BY <2>1, <2>3, <3>1, <3>2, <3>3 DEF Met
  <2>7. CASE [t |-> key.name, ns |-> FALSE] \notin visited
    <3>1. analysed' = Append(analysed, key)
      BY <2>2, <2>3, <2>7 DEF CallMade, StartVisit
    <3>2. key \in Instances
      BY <1>1, <1>2, <2>1, <2>3, TopFacts DEF Fits
    <3>3. PICK l : l = analysed
      OBVIOUS
    <3>4. l \in Seq(Instances) /\ a2 = ToSet(Append(l, key))
      BY <1>3, <3>1, <3>3 DEF EmittedInv
    <3>5. Len(l) + 1 \in DOMAIN Append(l, key) /\ Append(l, key)[Len(l) + 1] = key
      BY <3>2, <3>4
    <3>6. key \in a2
      BY <3>4, <3>5 DEF ToSet
    <3>7. j \in 1..j
      BY <2>5
    <3>8. QED
      BY <2>1, <2>3, <3>6, <3>7 DEF Met
  <2>8. QED
    BY <2>6, <2>7
<1>6. \A j \in DOMAIN q : Served(q, j, a2, s2, d)
  <2>1. SUFFICES ASSUME NEW j \in DOMAIN q PROVE Served(q, j, a2, s2, d)
    OBVIOUS
  <2>2. PICK c : c = ctl
    OBVIOUS
  <2>3. Served(q, j, a, s, c)
    BY <1>3, <2>2 DEF EmittedInv
  <2>4. j = Len(q) /\ Asking(c, q[j]) => Met(q, j, a2)
    BY <1>5, <2>2
  <2>5. s \subseteq s2
    BY <1>2, <1>3
  <2>6. QED
    BY <1>4, <2>3, <2>4, <2>5, ServedStays
<1>7. Queue' = q
  BY <1>2, <1>3 DEF Queue
<1>8. \A i \in DOMAIN emitted' : \E x \in visited' : x.t = emitted'[i].name
  BY <1>2, <1>4 DEF EmittedInv
<1>9. phase' # "end"
  BY <1>2 DEF EmittedInv
<1>10. QED
  BY <1>2, <1>3, <1>4, <1>6, <1>7, <1>8, <1>9 DEF EmittedInv

\* The instance whose copy is finished was asked for by a call, if it is a function.
LEMMA FinishedAsking ==
    ASSUME TypeInv, SoundInv, CloneEnd, NEW key, key = Top.key, TemplateOf(key) \in Functions
    PROVE  Asking(ctl', key)
<1>1. Calls /\ ctl # <<>> /\ Top.k = "clone"
  BY DEF TypeInv, CloneEnd, In
<1>2. PICK c, d, b : c = ctl /\ d = ctl' /\ b = body
  OBVIOUS
<1>3. Stack(c, b) /\ c # <<>> /\ d = Front(c)
  BY <1>1, <1>2 DEF CloneEnd, Return, Calls, Recursion
<1>4. PICK m : m = Len(c)
  OBVIOUS
<1>5. /\ Popped(c, d) /\ m \in Nat \ {0} /\ DOMAIN c = 1..m /\ Last(c) = c[m] /\ Len(c) = m
  BY <1>3, <1>4, StackPop, StackFacts
<1>6. c[m].k = "clone" /\ c[m].key = key /\ c[1].k # "clone"
  BY <1>1, <1>2, <1>3, <1>5 DEF Stack, Top
<1>7. m # 1
  BY <1>6
<1>8. PICK l : l = m - 1
  OBVIOUS
<1>9. l \in Nat \ {0} /\ l \in DOMAIN c /\ l + 1 = m /\ l + 1 \in DOMAIN c
  BY <1>5, <1>7, <1>8
<1>10. PICK f : f = c[l]
  OBVIOUS
<1>11. f.at = "made" /\ Wanted(f) = key /\ Fits(f, b)
  <2>1. Above(c[l], c[l + 1]) /\ Fits(c[l], b)
    BY <1>3, <1>9 DEF Stack
  <2>2. QED
    BY <1>6, <1>9, <1>10, <2>1 DEF Above
<1>12. Proper(f, decl, body)
  BY <1>2, <1>9, <1>10 DEF SoundInv, Sound
<1>13. TemplateOf(key) \notin Structs
  BY TemplatesAssumption
<1>14. f.k = "call"
  BY <1>11, <1>12, <1>13 DEF Fits, Proper
<1>15. f.key = key
  BY <1>11, <1>14 DEF Wanted
<1>16. d \in Seq(FrameSet) /\ Len(d) = l /\ d[l] = f
  BY <1>5, <1>8, <1>9, <1>10 DEF Popped
<1>17. d # <<>> /\ Last(d) = f
  BY <1>9, <1>16 DEF Last
<1>18. QED
  BY <1>2, <1>11, <1>14, <1>15, <1>17 DEF Asking

LEMMA EmittedCloneEnd ==
    ASSUME TypeInv, SoundInv, EmittedInv, CloneEnd
    PROVE  EmittedInv'
<1>1. Calls /\ Values /\ ctl # <<>> /\ Top.k = "clone"
  BY DEF TypeInv, CloneEnd, In
<1>2. PICK key, items, dl, q, r, n, a, s, d :
         /\ key = Top.key /\ items = Top.items /\ dl = decl' /\ q = Queue /\ r = Queue'
         /\ n = Len(Queue) /\ a = ToSet(analysed) /\ s = scoped /\ d = ctl'
  OBVIOUS
<1>3. UNCHANGED <<analysed, visited, emitted, scoped, phase>>
  BY DEF CloneEnd, unitVars, semaVars
<1>4. Finished(key, items, dl)
  BY <1>2, FinishedFacts
<1>5. /\ n \in Nat /\ DOMAIN q = 1..n /\ DOMAIN r = 1..(n + 1) /\ r[n + 1] = key /\ Len(r) = n + 1
      /\ \A i \in 1..n : r[i] = q[i]
  <2>1. key = Top.key /\ q = Queue /\ r = Queue' /\ n = Len(Queue)
    BY <1>2
  <2>2. Longer(q, r, key, n)
    BY <2>1, QueueFinished
  <2>3. QED
    BY <2>2 DEF Longer
<1>6. ASSUME NEW j \in 1..n PROVE Served(r, j, a, s, d)
  <2>1. PICK c : c = ctl
    OBVIOUS
  <2>2. Served(q, j, a, s, c)
    BY <1>2, <1>5, <2>1 DEF EmittedInv
  <2>3. ~Asking(c, q[j])
    BY <1>1, <2>1 DEF Asking, Top
  <2>4. Met(q, j, a) => Met(r, j, a)
    <3>1. \A i \in 1..j : r[i] = q[i]
      BY <1>5
    <3>2. j \in 1..j /\ r[j] = q[j]
      BY <3>1
    <3>3. QED
      BY <3>1, <3>2 DEF Met
  <2>5. r[j] = q[j]
    BY <1>5
  <2>6. QED
    BY <2>2, <2>3, <2>4, <2>5 DEF Served
<1>7. Served(r, n + 1, a, s, d)
  <2>1. SUFFICES ASSUME TemplateOf(key) \in Functions PROVE Asking(d, key)
    BY <1>5 DEF Served
  <2>2. key = Top.key
    BY <1>2
  <2>3. Asking(ctl', key)
    BY <2>1, <2>2, FinishedAsking
  <2>4. QED
    BY <1>2, <2>3
<1>8. \A j \in DOMAIN r : Served(r, j, a, s, d)
  <2>1. \A j \in 1..(n + 1) : j \in 1..n \/ j = n + 1
    BY <1>5
  <2>2. QED
    BY <1>5, <1>6, <1>7, <2>1
<1>9. \A j \in DOMAIN Queue' : Served(Queue', j, ToSet(analysed'), scoped', ctl')
  BY <1>2, <1>3, <1>8
<1>10. ToSet(analysed') \subseteq DOMAIN decl'
  BY <1>2, <1>3, <1>4 DEF EmittedInv, Finished
<1>11. phase' # "end"
  BY <1>1, <1>3 DEF EmittedInv
<1>12. QED
  BY <1>3, <1>9, <1>10, <1>11 DEF EmittedInv

LEMMA EmittedUnit ==
    ASSUME TypeInv, EmittedInv, Unit
    PROVE  EmittedInv'
<1>1. Calls /\ Values /\ Notes /\ Begins
  BY NotesUnit, UnitBegins DEF TypeInv
<1>2. ctl = <<>> /\ decl' = decl /\ scoped' = scoped /\ Queue' = Queue
  BY <1>1 DEF Begins
<1>3. PICK a, a2, q, s, d : a = ToSet(analysed) /\ a2 = ToSet(analysed') /\ q = Queue /\ s = scoped /\ d = ctl'
  OBVIOUS
<1>4. /\ analysed' \in Seq(Instances) /\ a2 \subseteq DOMAIN decl /\ a \subseteq a2
      /\ visited \subseteq visited' /\ Noted(visited', a2)
  BY <1>1, <1>3, NotesFacts
<1>5. \A j \in DOMAIN q : Served(q, j, a2, s, d)
  <2>1. SUFFICES ASSUME NEW j \in DOMAIN q PROVE Served(q, j, a2, s, d)
    OBVIOUS
  <2>2. PICK c : c = ctl
    OBVIOUS
  <2>3. Served(q, j, a, s, c)
    BY <1>3, <2>2 DEF EmittedInv
  <2>4. ~Asking(c, q[j]) /\ s \subseteq s
    BY <1>2, <2>2 DEF Asking
  <2>5. QED
    BY <1>4, <2>3, <2>4, ServedStays
<1>6. \A i \in DOMAIN emitted' : \E x \in visited' : x.t = emitted'[i].name
  <2>1. \A i \in DOMAIN emitted : \E x \in visited' : x.t = emitted[i].name
    BY <1>4 DEF EmittedInv
  <2>2. CASE emitted' = emitted
    BY <2>1, <2>2
  <2>3. CASE /\ emitted' = Append(emitted, Head(pending))
             /\ \E x \in visited' : x.t = Head(pending).name
    <3>1. PICK e, key, e2 : e = emitted /\ key = Head(pending) /\ e2 = emitted'
      OBVIOUS
    <3>2. e \in Seq(Instances) /\ e2 = Append(e, key)
      BY <1>1, <2>3, <3>1 DEF Values
    <3>3. \A i \in DOMAIN e2 : (i \in DOMAIN e /\ e2[i] = e[i]) \/ e2[i] = key
      BY <3>2
    <3>4. QED
      BY <2>1, <2>3, <3>1, <3>3
  <2>4. QED
    BY <2>2, <2>3, NotesUnit
<1>7. phase' = "end" => pending' = <<>> /\ ctl' = <<>>
  BY <1>2 DEF EmittedInv, Unit, RegisterTemplate, UseType, CallFunction, AnalyseCode, EndOfUnit,
              DrainNext, EndOfDrain, regVars
<1>8. QED
  BY <1>2, <1>3, <1>4, <1>5, <1>6, <1>7 DEF EmittedInv

LEMMA EmittedAfterStep ==
    ASSUME TypeInv, SoundInv, EmittedInv, [Next]_vars
    PROVE  EmittedInv'
<1>1. CASE UNCHANGED vars
  <2>1. UNCHANGED <<ctl, decl, visited, analysed, scoped, phase, pending, emitted>>
    BY <1>1 DEF vars, unitVars, regVars, semaVars
  <2>2. QED
    BY <2>1 DEF EmittedInv, Queue
<1>2. QED
  BY <1>1, EmittedMoves, EmittedCloneEnd, EmittedUnit DEF Next, Moves, Instantiation

\* At the end every copy has been served, and nothing is still being analysed.
LEMMA EndEmitted ==
    ASSUME TypeInv, ClassesInv, EmittedInv
    PROVE  EmittedIsAnalysed
<1>1. SUFFICES ASSUME phase = "end", NEW i \in DOMAIN emitted, NEW key, key = emitted[i]
               PROVE  /\ \/ key \in ToSet(analysed)
                         \/ \E j \in 1..(i - 1) : emitted[j].name = key.name /\ emitted[j] \in ToSet(analysed)
                         \/ \E k \in scoped : k.name = key.name
                      /\ IsInstance(key.name) => key.name \in complete
  BY DEF EmittedIsAnalysed
<1>2. Calls /\ Values /\ ctl = <<>>
  BY <1>1 DEF TypeInv, EmittedInv
<1>3. PICK q, a : q = Queue /\ a = ToSet(analysed)
  OBVIOUS
<1>4. /\ Len(q) \in Nat /\ DOMAIN q = 1..Len(q) /\ i \in DOMAIN q /\ q[i] = key
      /\ \A j \in DOMAIN emitted : q[j] = emitted[j]
  BY <1>1, <1>2, <1>3, QueueFacts
<1>5. key \in Instances /\ Len(emitted) \in Nat /\ DOMAIN emitted = 1..Len(emitted)
  BY <1>1, <1>2 DEF Values
<1>6. PICK x \in visited : x.t = key.name
  BY <1>1 DEF EmittedInv
<1>7. CASE TemplateOf(key) \in Structs
  <2>1. Head(key.name) \in Structs
    BY <1>7 DEF TemplateOf
  <2>2. key.name \in complete
    BY <1>2, <1>6, <2>1 DEF ClassesInv, Opening
  <2>3. PICK k \in a : k.name = key.name
    BY <1>3, <1>6 DEF EmittedInv, Noted
  <2>4. k \in Instances /\ TemplateOf(k) \in Structs
    BY <1>2, <1>3, <1>7, <2>3, TableFacts DEF EmittedInv, TemplateOf
  <2>5. k = key
    BY <1>5, <1>7, <2>3, <2>4, ClassKey
  <2>6. QED
    BY <1>3, <2>2, <2>3, <2>5
<1>8. CASE TemplateOf(key) \in Functions
  <2>1. ~IsInstance(key.name)
    BY <1>8, TemplatesAssumption DEF TemplateOf, IsInstance
  <2>2. ASSUME \A k \in scoped : k.name # key.name
        PROVE  \/ key \in a
               \/ \E j \in 1..(i - 1) : emitted[j].name = key.name /\ emitted[j] \in a
    <3>1. Served(q, i, a, scoped, ctl)
      BY <1>3, <1>4 DEF EmittedInv
    <3>2. Met(q, i, a)
      BY <1>2, <1>4, <1>8, <2>2, <3>1 DEF Served, Asking
    <3>3. PICK j \in 1..i : q[j].name = key.name /\ q[j] \in a
      BY <1>4, <3>2 DEF Met
    <3>4. j = i \/ (j \in 1..(i - 1) /\ j \in DOMAIN emitted)
      BY <1>1, <1>5
    <3>5. QED
      BY <1>4, <3>3, <3>4
  <2>3. QED
    BY <1>3, <2>1, <2>2
<1>9. QED
  BY <1>5, <1>7, <1>8 DEF Instances

\* What code generation meets first under a name has been analysed, and a class is
\* complete (EmittedIsAnalysed), unless a namespace's prefix has changed that name: for
\* any templates, programs and limits. The queue is emitted in the order in which the
\* copies were finished, and a function's copy is finished right before its call asks
\* whether the name has been visited, so the copies left out come after the analysed one.
THEOREM EmittedWasAnalysed == Spec => []EmittedIsAnalysed
<1>1. Init => EmittedInv
  <2>1. ASSUME Init PROVE EmittedInv
    <3>1. /\ analysed = <<>> /\ Queue = <<>> /\ emitted = <<>> /\ visited = {} /\ phase = "unit"
          /\ ToSet(analysed) = {}
      BY <2>1 DEF Init, Queue, ToSet
    <3>2. analysed \in Seq(Instances)
      BY <3>1
    <3>3. QED
      BY <3>1, <3>2 DEF EmittedInv, Noted
  <2>2. QED
    BY <2>1
<1>2. TypeInv /\ SoundInv /\ EmittedInv /\ [Next]_vars => EmittedInv'
  BY EmittedAfterStep
<1>3. TypeInv /\ ClassesInv /\ EmittedInv => EmittedIsAnalysed
  BY EndEmitted
<1>4. QED
  BY <1>1, <1>2, <1>3, TypesAlways, LayoutsAlways, PTL DEF Spec
===============================================================================
