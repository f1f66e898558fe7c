--------------------------- MODULE ContainersProofs ---------------------------
(***************************************************************************)
(* Theorems about Containers, for any values, buffers, capacities and any  *)
(* width of usize: what std::Vec and std::Deque are to their caller.       *)
(*                                                                         *)
(* First the operators on an object, one lemma each: what it leaves in the *)
(* fields, and what sequence the object then is.                           *)
(***************************************************************************)
EXTENDS Containers, SequencesExt, SequenceTheorems, WellFoundedInduction, TLAPS

-------------------------------------------------------------------------------
(* Positions and sequences.                                                *)

\* A set of positions that is not empty has a first one.
LEMMA FirstExists ==
    ASSUME NEW T \in SUBSET Nat, T # {}
    PROVE  \E i \in T : \A j \in T : i <= j
<1> DEFINE Below == {p \in Nat \X Nat : p[1] < p[2]}
<1>1. IsWellFoundedOn(Below, Nat)
  <2>1. Below = OpToRel(<, Nat)
    BY Zenon DEF OpToRel
  <2>2. QED
    BY <2>1, NatLessThanWellFounded
<1>2. PICK i \in T : \A j \in T : <<j, i>> \notin Below
  <2> HIDE DEF Below
  <2>1. QED
    BY <1>1, WFMin
<1>3. ASSUME NEW j \in T
      PROVE  i <= j
  <2>1. <<j, i>> \in Nat \X Nat /\ <<j, i>> \notin Below
    BY <1>2
  <2>2. ~(j < i)
    BY <2>1
  <2>3. QED
    BY <2>2
<1>4. QED
  BY <1>3

\* A sequence without its last element.
LEMMA FrontFacts ==
    ASSUME NEW T, NEW s \in Seq(T), Len(s) \in Nat \ {0},
           NEW t, t = Front(s)
    PROVE  /\ t \in Seq(T) /\ Len(t) = Len(s) - 1
           /\ \A i \in 1..(Len(s) - 1) : t[i] = s[i]
<1>1. PICK n \in Nat : n = Len(s) - 1
  OBVIOUS
<1>2. \A i \in 1..n : s[i] \in T
  BY <1>1, ElementOfSeq
<1>3. /\ t \in Seq(T) /\ Len(t) = IF 1 <= n THEN n - 1 + 1 ELSE 0
      /\ \A i \in 1..(n - 1 + 1) : t[i] = s[1 + i - 1]
  <2>1. t = SubSeq(s, 1, n)
    BY <1>1 DEF Front
  <2>2. QED
    BY <1>2, <2>1, SubSeqProperties
<1>4. Len(t) = n
  BY <1>3
<1>5. ASSUME NEW i \in 1..n
      PROVE  t[i] = s[i]
  <2>1. i \in 1..(n - 1 + 1) /\ 1 + i - 1 = i
    OBVIOUS
  <2>2. t[i] = s[1 + i - 1]
    BY <1>3, <2>1
  <2>3. QED
    BY <2>1, <2>2
<1>6. QED
  BY <1>1, <1>3, <1>4, <1>5

\* t is s with e put at i.
WithInserted(t, s, i, e) ==
    /\ Len(t) = Len(s) + 1
    /\ \A j \in 1..(Len(s) + 1) :
           t[j] = IF j < i THEN s[j] ELSE IF j = i THEN e ELSE s[j - 1]

\* A sequence with an element more, at position i.
LEMMA InsertAtFacts ==
    ASSUME NEW T, NEW s \in Seq(T), NEW i \in 1..(Len(s) + 1), NEW e \in T,
           NEW t, t = InsertAt(s, i, e)
    PROVE  t \in Seq(T) /\ WithInserted(t, s, i, e)
<1> DEFINE u == SubSeq(s, 1, i - 1)
           w == SubSeq(s, i, Len(s))
<1>1. /\ Len(s) \in Nat /\ i \in Int /\ 1 \in Int /\ i - 1 \in Int /\ Len(s) \in Int
      /\ i >= 1 /\ i <= Len(s) + 1
  BY LenProperties
<1>2. /\ \A j \in 1..(i - 1) : s[j] \in T
      /\ \A j \in i..Len(s) : s[j] \in T
  BY <1>1, ElementOfSeq
<1>3. /\ u \in Seq(T) /\ Len(u) = i - 1
      /\ \A j \in 1..(i - 1) : u[j] = s[j]
  <2>1. /\ u \in Seq(T) /\ Len(u) = IF 1 <= i - 1 THEN i - 1 - 1 + 1 ELSE 0
        /\ \A j \in 1..(i - 1 - 1 + 1) : u[j] = s[1 + j - 1]
    BY <1>1, <1>2, SubSeqProperties
  <2>2. QED
    BY <1>1, <2>1
<1>4. /\ w \in Seq(T) /\ Len(w) = Len(s) - i + 1
      /\ \A j \in 1..(Len(s) - i + 1) : w[j] = s[i + j - 1]
  <2>1. /\ w \in Seq(T) /\ Len(w) = IF i <= Len(s) THEN Len(s) - i + 1 ELSE 0
        /\ \A j \in 1..(Len(s) - i + 1) : w[j] = s[i + j - 1]
    BY <1>1, <1>2, SubSeqProperties
  <2>2. QED
    BY <1>1, <2>1
<1> HIDE DEF u, w
<1>5. /\ <<e>> \in Seq(T) /\ Len(<<e>>) = 1 /\ <<e>>[1] = e
  OBVIOUS
<1>6. PICK v \in Seq(T) :
          /\ v = u \o <<e>> /\ Len(v) = i
          /\ \A j \in 1..i : v[j] = IF j < i THEN s[j] ELSE e
  <2>1. /\ u \o <<e>> \in Seq(T) /\ Len(u \o <<e>>) = Len(u) + Len(<<e>>)
        /\ \A j \in 1..(Len(u) + Len(<<e>>)) : (u \o <<e>>)[j] =
                 IF j <= Len(u) THEN u[j] ELSE <<e>>[j - Len(u)]
    BY <1>3, <1>5, ConcatProperties
  <2>2. Len(u \o <<e>>) = i
    BY <1>1, <1>3, <1>5, <2>1
  <2>3. ASSUME NEW j \in 1..i
        PROVE  (u \o <<e>>)[j] = IF j < i THEN s[j] ELSE e
    <3>1. CASE j < i
      BY <1>1, <1>3, <1>5, <2>1, <3>1
    <3>2. CASE j = i
      <4>1. ~(j <= Len(u)) /\ j - Len(u) = 1 /\ j \in 1..(Len(u) + Len(<<e>>))
        BY <1>1, <1>3, <1>5, <3>2
      <4>2. (u \o <<e>>)[j] = <<e>>[1]
        BY <2>1, <4>1
      <4>3. ~(j < i)
        BY <1>1, <3>2
      <4>4. QED
        BY <1>5, <4>2, <4>3, Zenon
    <3>3. j < i \/ j = i
      BY <1>1
    <3>4. QED
      BY <3>1, <3>2, <3>3
  <2>4. QED
    BY <2>1, <2>2, <2>3
<1>7. /\ v \o w \in Seq(T) /\ Len(v \o w) = Len(v) + Len(w)
      /\ \A j \in 1..(Len(v) + Len(w)) : (v \o w)[j] =
               IF j <= Len(v) THEN v[j] ELSE w[j - Len(v)]
  BY <1>4, ConcatProperties
<1>8. t = v \o w
  BY <1>6 DEF InsertAt, u, w
<1>9. ASSUME NEW j \in 1..(Len(s) + 1)
      PROVE  t[j] = IF j < i THEN s[j] ELSE IF j = i THEN e ELSE s[j - 1]
  <2>1. j \in 1..(Len(v) + Len(w))
    BY <1>1, <1>4, <1>6
  <2>2. CASE j <= i
    <3>1. t[j] = v[j]
      BY <1>6, <1>7, <1>8, <2>1, <2>2
    <3>2. QED
      BY <1>1, <1>6, <2>2, <3>1
  <2>3. CASE j > i
    <3>1. t[j] = w[j - i]
      BY <1>1, <1>6, <1>7, <1>8, <2>1, <2>3
    <3>2. j - i \in 1..(Len(s) - i + 1) /\ i + (j - i) - 1 = j - 1
      BY <1>1, <2>3
    <3>3. w[j - i] = s[i + (j - i) - 1]
      BY <1>4, <3>2
    <3>4. QED
      BY <1>1, <2>3, <3>1, <3>2, <3>3
  <2>4. QED
    BY <1>1, <2>2, <2>3
<1>10. Len(t) = Len(s) + 1
  <2>1. Len(v) = i /\ Len(w) = Len(s) - i + 1
    BY <1>4, <1>6
  <2>2. i \in Int /\ Len(s) \in Int
    BY <1>1
  <2>3. Len(v) + Len(w) = Len(s) + 1
    BY <2>1, <2>2
  <2>4. QED
    BY <1>7, <1>8, <2>3
<1>11. QED
  BY <1>7, <1>8, <1>9, <1>10 DEF WithInserted

\* t is s without what is at i.
WithRemoved(t, s, i) ==
    /\ Len(t) = Len(s) - 1
    /\ \A j \in 1..(Len(s) - 1) : t[j] = IF j < i THEN s[j] ELSE s[j + 1]

\* A sequence without its element at position i.
LEMMA RemoveAtFacts ==
    ASSUME NEW T, NEW s \in Seq(T), NEW i \in 1..Len(s),
           NEW t, t = RemoveAt(s, i)
    PROVE  t \in Seq(T) /\ WithRemoved(t, s, i)
<1> DEFINE u == SubSeq(s, 1, i - 1)
           w == SubSeq(s, i + 1, Len(s))
<1>1. /\ Len(s) \in Nat /\ i \in Int /\ 1 \in Int /\ i - 1 \in Int /\ i + 1 \in Int
      /\ Len(s) \in Int /\ i >= 1 /\ i <= Len(s)
  BY LenProperties
<1>2. /\ \A j \in 1..(i - 1) : s[j] \in T
      /\ \A j \in (i + 1)..Len(s) : s[j] \in T
  BY <1>1, ElementOfSeq
<1>3. /\ u \in Seq(T) /\ Len(u) = i - 1
      /\ \A j \in 1..(i - 1) : u[j] = s[j]
  <2>1. /\ u \in Seq(T) /\ Len(u) = IF 1 <= i - 1 THEN i - 1 - 1 + 1 ELSE 0
        /\ \A j \in 1..(i - 1 - 1 + 1) : u[j] = s[1 + j - 1]
    BY <1>1, <1>2, SubSeqProperties
  <2>2. QED
    BY <1>1, <2>1
<1>4. /\ w \in Seq(T) /\ Len(w) = Len(s) - i
      /\ \A j \in 1..(Len(s) - i) : w[j] = s[i + j]
  <2>1. /\ w \in Seq(T)
        /\ Len(w) = IF i + 1 <= Len(s) THEN Len(s) - (i + 1) + 1 ELSE 0
        /\ \A j \in 1..(Len(s) - (i + 1) + 1) : w[j] = s[i + 1 + j - 1]
    BY <1>1, <1>2, SubSeqProperties
  <2>2. QED
    BY <1>1, <2>1
<1> HIDE DEF u, w
<1>5. /\ u \o w \in Seq(T) /\ Len(u \o w) = Len(u) + Len(w)
      /\ \A j \in 1..(Len(u) + Len(w)) : (u \o w)[j] =
               IF j <= Len(u) THEN u[j] ELSE w[j - Len(u)]
  BY <1>3, <1>4, ConcatProperties
<1>6. t = u \o w
  BY DEF RemoveAt, u, w
<1>7. ASSUME NEW j \in 1..(Len(s) - 1)
      PROVE  t[j] = IF j < i THEN s[j] ELSE s[j + 1]
  <2>1. j \in 1..(Len(u) + Len(w))
    BY <1>1, <1>3, <1>4
  <2>2. CASE j < i
    BY <1>1, <1>3, <1>5, <1>6, <2>1, <2>2
  <2>3. CASE j >= i
    <3>1. t[j] = w[j - (i - 1)]
      BY <1>1, <1>3, <1>5, <1>6, <2>1, <2>3
    <3>2. j - (i - 1) \in 1..(Len(s) - i) /\ i + (j - (i - 1)) = j + 1
      BY <1>1, <2>3
    <3>3. w[j - (i - 1)] = s[i + (j - (i - 1))]
      BY <1>4, <3>2
    <3>4. QED
      BY <1>1, <2>3, <3>1, <3>2, <3>3
  <2>4. QED
    BY <1>1, <2>2, <2>3
<1>8. Len(t) = Len(s) - 1
  <2>1. Len(u) + Len(w) = Len(s) - 1
    BY <1>1, <1>3, <1>4
  <2>2. QED
    BY <1>5, <1>6, <2>1
<1>9. t \in Seq(T)
  BY <1>5, <1>6
<1>10. QED
  BY <1>7, <1>8, <1>9 DEF WithRemoved

-------------------------------------------------------------------------------
(* Objects and the sequences they are.                                      *)

\* The slots of an object whose fields are all there.
HasFields(o) == /\ o = [f \in DOMAIN o |-> o[f]]
                /\ DOMAIN o = {"data", "cap", "len", "head", "slots"}
IsObject(o) ==
    /\ HasFields(o)
    /\ o.cap \in Nat /\ o.len \in Nat /\ o.len <= o.cap
    /\ o.head \in Nat /\ (o.head < o.cap \/ o.head = 0)
    /\ o.slots \in [0..(o.cap - 1) -> Values \cup {None}]

\* Contents of objects.
Contents == Seq(Values \cup {None})

\* An index up to twice the capacity wraps around once at most.
LEMMA WrapsOnce ==
    ASSUME NEW c \in Nat \ {0}, NEW x \in Nat, x < 2 * c
    PROVE  x % c = IF x < c THEN x ELSE x - c
<1>1. CASE x < c
  BY <1>1
<1>2. CASE x >= c
  BY <1>2
<1>3. QED
  BY <1>1, <1>2

\* Element i of an object with a buffer is in the slot head + i, wrapped around.
LEMMA AtFacts ==
    ASSUME NEW o, IsObject(o), o.cap > 0, NEW i \in Nat, i <= o.cap
    PROVE  /\ At(o, i) = IF o.head + i < o.cap THEN o.head + i ELSE o.head + i - o.cap
           /\ At(o, i) \in 0..(o.cap - 1)
<1>1. PICK c \in Nat \ {0}, x \in Nat :
          c = o.cap /\ x = o.head + i /\ x < 2 * c /\ o.head \in Nat
  BY DEF IsObject
<1>2. At(o, i) = IF x < c THEN x ELSE x - c
  BY <1>1, WrapsOnce DEF At
<1>3. At(o, i) \in 0..(c - 1)
  BY <1>1, <1>2
<1>4. QED
  BY <1>1, <1>2, <1>3

\* Elements in different positions are in different slots.
LEMMA AtApart ==
    ASSUME NEW o, IsObject(o), NEW i \in 0..(o.cap - 1), NEW j \in 0..(o.cap - 1),
           i # j
    PROVE  At(o, i) # At(o, j)
<1>1. o.cap \in Nat /\ o.cap > 0 /\ i \in Nat /\ i <= o.cap /\ j \in Nat /\ j <= o.cap
  BY DEF IsObject
<1>2. /\ At(o, i) = IF o.head + i < o.cap THEN o.head + i ELSE o.head + i - o.cap
      /\ At(o, j) = IF o.head + j < o.cap THEN o.head + j ELSE o.head + j - o.cap
  BY <1>1, AtFacts
<1>3. o.head \in Nat
  BY DEF IsObject
<1>4. QED
  BY <1>1, <1>2, <1>3

\* An object is a sequence of its elements.
LEMMA ElementsFacts ==
    ASSUME NEW o, IsObject(o)
    PROVE  /\ Elements(o) \in Contents /\ Len(Elements(o)) = o.len
           /\ DOMAIN Elements(o) = 1..o.len
           /\ \A i \in 1..o.len : Elements(o)[i] = o.slots[At(o, i - 1)]
<1>1. o.len \in Nat /\ o.cap \in Nat /\ o.len <= o.cap
  BY DEF IsObject
<1>2. ASSUME NEW i \in 1..o.len
      PROVE  Element(o, i - 1) \in Values \cup {None}
  <2>1. o.cap > 0 /\ i - 1 \in Nat /\ i - 1 <= o.cap
    BY <1>1
  <2>2. At(o, i - 1) \in 0..(o.cap - 1)
    BY <2>1, AtFacts
  <2>3. QED
    BY <2>2 DEF IsObject, Element
<1>3. Elements(o) = [i \in 1..o.len |-> Element(o, i - 1)]
  BY DEF Elements
<1>4. Elements(o) \in Contents
  <2>1. Elements(o) \in [1..o.len -> Values \cup {None}]
    BY <1>2, <1>3
  <2>2. QED
    BY <1>1, <2>1, SeqDef DEF Contents
<1>5. Len(Elements(o)) = o.len
  BY <1>1, <1>3, <1>4, LenProperties DEF Contents
<1>6. QED
  BY <1>3, <1>4, <1>5 DEF Element

\* An object is the sequence s when it has the length and the elements of s.
LEMMA ElementsAre ==
    ASSUME NEW o, IsObject(o), NEW s \in Contents, Len(s) = o.len,
           \A i \in 1..o.len : o.slots[At(o, i - 1)] = s[i]
    PROVE  Elements(o) = s
<1>1. /\ Elements(o) \in Contents /\ Len(Elements(o)) = Len(s)
      /\ \A i \in 1..Len(Elements(o)) : Elements(o)[i] = s[i]
  BY ElementsFacts
<1>2. QED
  BY <1>1, SeqEqual DEF Contents
-------------------------------------------------------------------------------
(* The operators on objects.                                                *)

\* What an operator keeps.
SameBuffer(p, o) == p.data = o.data /\ p.cap = o.cap

\* Push puts an element behind the last one.
LEMMA PushedFacts ==
    ASSUME NEW o, IsObject(o), o.len < o.cap, NEW v \in Values,
           NEW p, p = Pushed(o, v)
    PROVE  /\ IsObject(p) /\ SameBuffer(p, o)
           /\ p.len = o.len + 1 /\ p.head = o.head
           /\ Elements(p) = Append(Elements(o), v)
<1>1. /\ o.cap \in Nat /\ o.cap > 0 /\ o.len \in Nat /\ o.len \in 0..(o.cap - 1)
      /\ At(o, o.len) \in 0..(o.cap - 1)
  <2>1. o.cap \in Nat /\ o.len \in Nat /\ o.len <= o.cap /\ o.cap > 0
    BY DEF IsObject
  <2>2. At(o, o.len) \in 0..(o.cap - 1)
    BY <2>1, AtFacts
  <2>3. QED
    BY <2>1, <2>2
<1>2. /\ HasFields(p) /\ p.data = o.data /\ p.cap = o.cap /\ p.len = o.len + 1
      /\ p.head = o.head /\ p.slots = [o.slots EXCEPT ![At(o, o.len)] = v]
  BY DEF IsObject, HasFields, Pushed
<1>3. p.slots \in [0..(p.cap - 1) -> Values \cup {None}]
  BY <1>1, <1>2 DEF IsObject
<1>4. IsObject(p)
  BY <1>1, <1>2, <1>3 DEF IsObject
<1>5. ASSUME NEW i \in 1..p.len
      PROVE  p.slots[At(p, i - 1)] = Append(Elements(o), v)[i]
  <2>1. i - 1 \in 0..(o.cap - 1) /\ i - 1 \in Nat /\ i - 1 <= o.cap
    BY <1>1, <1>2
  <2>2. At(p, i - 1) = At(o, i - 1) /\ At(o, i - 1) \in 0..(o.cap - 1)
    BY <1>1, <1>2, <2>1, AtFacts DEF At
  <2>3. CASE i = o.len + 1
    <3>1. p.slots[At(p, i - 1)] = v
      BY <1>1, <1>2, <2>2, <2>3 DEF IsObject
    <3>2. QED
      BY <2>3, <3>1, ElementsFacts, AppendProperties DEF Contents
  <2>4. CASE i \in 1..o.len
    <3>1. i - 1 # o.len
      BY <1>1, <2>4
    <3>2. At(o, i - 1) # At(o, o.len)
      BY <1>1, <2>1, <3>1, AtApart
    <3>3. p.slots[At(p, i - 1)] = o.slots[At(o, i - 1)]
      BY <1>1, <1>2, <2>2, <3>2 DEF IsObject
    <3>4. Append(Elements(o), v)[i] = Elements(o)[i]
      BY <2>4, ElementsFacts, AppendProperties DEF Contents
    <3>5. QED
      BY <2>4, <3>3, <3>4, ElementsFacts
  <2>5. i = o.len + 1 \/ i \in 1..o.len
    BY <1>1, <1>2
  <2>6. QED
    BY <2>3, <2>4, <2>5
<1>6. /\ Append(Elements(o), v) \in Contents
      /\ Len(Append(Elements(o), v)) = p.len
  BY <1>2, ElementsFacts, AppendProperties DEF Contents
<1>7. Elements(p) = Append(Elements(o), v)
  BY <1>4, <1>5, <1>6, ElementsAre
<1>8. QED
  BY <1>2, <1>4, <1>7 DEF SameBuffer

\* An object from its fields.
LEMMA ObjectFrom ==
    ASSUME NEW p, HasFields(p), NEW c \in Nat, NEW n \in Nat, NEW h \in Nat,
           p.cap = c, p.len = n, n <= c, p.head = h, h < c \/ h = 0,
           p.slots \in [0..(c - 1) -> Values \cup {None}]
    PROVE  IsObject(p)
BY DEF IsObject

\* One slot back, one element on.
LEMMA StepBack ==
    ASSUME NEW c \in Nat \ {0}, NEW h \in Nat, h < c, NEW k \in Nat, 0 < k, k < c,
           NEW g \in Nat, g = IF h = 0 THEN c - 1 ELSE h - 1
    PROVE  /\ (IF g + k < c THEN g + k ELSE g + k - c) =
              (IF h + (k - 1) < c THEN h + (k - 1) ELSE h + (k - 1) - c)
           /\ (IF g + k < c THEN g + k ELSE g + k - c) # g
<1>1. CASE h = 0
  BY <1>1
<1>2. CASE h > 0
  BY <1>2
<1>3. QED
  BY <1>1, <1>2

\* PushFront puts one before the first, in the slot before head.
LEMMA PushedFrontFacts ==
    ASSUME NEW o, IsObject(o), o.len < o.cap, NEW v \in Values,
           NEW p, p = PushedFront(o, v)
    PROVE  /\ IsObject(p) /\ SameBuffer(p, o)
           /\ p.len = o.len + 1
           /\ p.head = IF o.head = 0 THEN o.cap - 1 ELSE o.head - 1
           /\ Elements(p) = <<v>> \o Elements(o)
<1>1. PICK c \in Nat \ {0}, h \in Nat :
          /\ c = o.cap /\ h = o.head /\ h < c
          /\ o.len \in Nat /\ o.len < c
  BY DEF IsObject
<1>2. PICK g \in 0..(c - 1) : /\ g = (o.head + o.cap - 1) % o.cap
                              /\ g = IF h = 0 THEN c - 1 ELSE h - 1
  <2>1. PICK x \in Nat : x = o.head + o.cap - 1 /\ x = h + c - 1 /\ x < 2 * c
    BY <1>1
  <2>2. x % c = IF x < c THEN x ELSE x - c
    BY <2>1, WrapsOnce
  <2>3. (IF x < c THEN x ELSE x - c) = IF h = 0 THEN c - 1 ELSE h - 1
    BY <1>1, <2>1
  <2>4. (o.head + o.cap - 1) % o.cap = IF h = 0 THEN c - 1 ELSE h - 1
    BY <1>1, <2>1, <2>2, <2>3
  <2>5. (IF h = 0 THEN c - 1 ELSE h - 1) \in 0..(c - 1)
    BY <1>1
  <2>6. QED
    BY <2>4, <2>5
<1>3. /\ HasFields(p) /\ p.data = o.data /\ p.cap = c /\ p.len = o.len + 1
      /\ p.head = g /\ p.slots = [o.slots EXCEPT ![g] = v]
  BY <1>1, <1>2 DEF IsObject, HasFields, PushedFront
<1>4. /\ o.slots \in [0..(c - 1) -> Values \cup {None}]
      /\ p.slots \in [0..(c - 1) -> Values \cup {None}]
      /\ p.slots[g] = v /\ \A k \in 0..(c - 1) : k # g => p.slots[k] = o.slots[k]
  <2>1. o.slots \in [0..(c - 1) -> Values \cup {None}]
    BY <1>1 DEF IsObject
  <2>2. QED
    BY <1>3, <2>1
<1>5. IsObject(p)
  <2>1. o.len + 1 \in Nat /\ o.len + 1 <= c /\ g \in Nat /\ g < c
    BY <1>1
  <2>2. QED
    BY <1>3, <1>4, <2>1, ObjectFrom
<1>6. /\ <<v>> \in Contents /\ Len(<<v>>) = 1 /\ <<v>>[1] = v
      /\ Elements(o) \in Contents /\ Len(Elements(o)) = o.len
  BY ElementsFacts DEF Contents
<1>7. /\ <<v>> \o Elements(o) \in Contents
      /\ Len(<<v>> \o Elements(o)) = 1 + o.len
      /\ \A i \in 1..(1 + o.len) : (<<v>> \o Elements(o))[i] =
             IF i <= 1 THEN <<v>>[i] ELSE Elements(o)[i - 1]
  BY <1>6, ConcatProperties DEF Contents
<1>8. ASSUME NEW i \in 1..p.len
      PROVE  p.slots[At(p, i - 1)] = (<<v>> \o Elements(o))[i]
  <2>1. i \in 1..(1 + o.len) /\ i - 1 \in Nat /\ i - 1 <= c
    BY <1>1, <1>3
  <2>2. /\ At(p, i - 1) = IF g + (i - 1) < c THEN g + (i - 1) ELSE g + (i - 1) - c
        /\ At(p, i - 1) \in 0..(c - 1)
    BY <1>1, <1>3, <1>5, <2>1, AtFacts
  <2>3. CASE i = 1
    <3>1. At(p, i - 1) = g
      BY <1>2, <2>1, <2>2, <2>3
    <3>2. (<<v>> \o Elements(o))[i] = v
      BY <1>6, <1>7, <2>1, <2>3
    <3>3. QED
      BY <1>4, <3>1, <3>2
  <2>4. CASE i > 1
    <3>1. i - 1 \in 1..o.len /\ i - 2 \in Nat /\ i - 2 <= c
      BY <1>1, <2>1, <2>4
    <3>2. At(o, i - 2) = IF h + (i - 2) < c THEN h + (i - 2) ELSE h + (i - 2) - c
      BY <1>1, <3>1, AtFacts
    <3>3. At(p, i - 1) = At(o, i - 2) /\ At(p, i - 1) # g
      <4>1. PICK k \in Nat : k = i - 1 /\ i - 2 = k - 1 /\ 0 < k /\ k < c /\ g \in Nat
        BY <1>1, <2>1, <2>4
      <4>2. /\ (IF g + k < c THEN g + k ELSE g + k - c) =
                (IF h + (k - 1) < c THEN h + (k - 1) ELSE h + (k - 1) - c)
            /\ (IF g + k < c THEN g + k ELSE g + k - c) # g
        <5>1. g \in Nat /\ h \in Nat /\ c \in Nat /\ k \in Nat /\ 0 < k /\ k < c
          BY <1>1, <1>2, <4>1
        <5>2. QED
          BY <1>1, <1>2, <5>1, StepBack
      <4>3. At(p, i - 1) = IF g + k < c THEN g + k ELSE g + k - c
        BY <2>2, <4>1
      <4>4. At(o, i - 2) = IF h + (k - 1) < c THEN h + (k - 1) ELSE h + (k - 1) - c
        BY <3>2, <4>1
      <4>5. QED
        BY <4>2, <4>3, <4>4
    <3>4. p.slots[At(p, i - 1)] = o.slots[At(o, i - 2)]
      BY <1>4, <2>2, <3>3
    <3>5. Elements(o)[i - 1] = o.slots[At(o, (i - 1) - 1)] /\ (i - 1) - 1 = i - 2
      BY <2>1, <3>1, ElementsFacts
    <3>6. QED
      BY <1>7, <2>1, <2>4, <3>4, <3>5
  <2>5. i = 1 \/ i > 1
    BY <1>1, <2>1
  <2>6. QED
    BY <2>3, <2>4, <2>5
<1>9. Elements(p) = <<v>> \o Elements(o)
  <2>1. Len(<<v>> \o Elements(o)) = p.len
    BY <1>1, <1>3, <1>7
  <2>2. QED
    BY <1>5, <1>7, <1>8, <2>1, ElementsAre
<1>10. QED
  BY <1>1, <1>2, <1>3, <1>5, <1>9 DEF SameBuffer

\* Taking the last element leaves the slots as they are.
LEMMA PoppedFacts ==
    ASSUME NEW o, IsObject(o), o.len > 0,
           NEW p, p = [o EXCEPT !.len = @ - 1]
    PROVE  /\ IsObject(p) /\ SameBuffer(p, o)
           /\ p.len = o.len - 1 /\ p.head = o.head
           /\ Elements(o) # <<>>
           /\ Elements(p) = Front(Elements(o))
           /\ Element(o, o.len - 1) = Last(Elements(o))
<1>1. PICK c \in Nat \ {0}, n \in Nat \ {0}, h \in Nat :
          c = o.cap /\ n = o.len /\ n <= c /\ h = o.head /\ (h < c \/ h = 0)
  BY DEF IsObject
<1>2. /\ HasFields(p) /\ p.data = o.data /\ p.cap = c /\ p.len = n - 1
      /\ p.head = h /\ p.slots = o.slots
  BY <1>1 DEF IsObject, HasFields
<1>3. IsObject(p)
  <2>1. n - 1 \in Nat /\ n - 1 <= c /\ c \in Nat
    BY <1>1
  <2>2. p.slots \in [0..(c - 1) -> Values \cup {None}]
    BY <1>1, <1>2 DEF IsObject
  <2>3. QED
    BY <1>1, <1>2, <2>1, <2>2, ObjectFrom
<1>4. /\ Elements(o) \in Contents /\ Len(Elements(o)) = n
      /\ \A i \in 1..n : Elements(o)[i] = o.slots[At(o, i - 1)]
  BY <1>1, ElementsFacts
<1>5. PICK t \in Contents : /\ t = Front(Elements(o)) /\ Len(t) = n - 1
                           /\ \A i \in 1..(n - 1) : t[i] = Elements(o)[i]
  <2>1. Len(Elements(o)) \in Nat \ {0}
    BY <1>1, <1>4
  <2>2. QED
    BY <1>4, <2>1, FrontFacts DEF Contents
<1>6. ASSUME NEW i \in 1..p.len
      PROVE  p.slots[At(p, i - 1)] = t[i]
  <2>1. i \in 1..(n - 1) /\ i \in 1..n
    BY <1>1, <1>2
  <2>2. At(p, i - 1) = At(o, i - 1)
    BY <1>1, <1>2 DEF At
  <2>3. QED
    BY <1>2, <1>4, <1>5, <2>1, <2>2
<1>7. Elements(p) = t
  BY <1>2, <1>3, <1>5, <1>6, ElementsAre
<1>8. Element(o, o.len - 1) = Last(Elements(o))
  <2>1. n \in 1..n
    BY <1>1
  <2>2. Elements(o)[n] = o.slots[At(o, n - 1)]
    BY <1>4, <2>1
  <2>3. QED
    BY <1>1, <1>4, <2>2 DEF Element, Last
<1>9. Elements(o) # <<>>
  BY <1>1, <1>4, EmptySeq
<1>10. QED
  BY <1>1, <1>2, <1>3, <1>5, <1>7, <1>8, <1>9 DEF SameBuffer

\* One slot on, one element less.
LEMMA StepOn ==
    ASSUME NEW c \in Nat \ {0}, NEW h \in Nat, h < c, NEW k \in Nat, k + 1 < c,
           NEW g \in Nat, g = IF h + 1 < c THEN h + 1 ELSE h + 1 - c
    PROVE  (IF g + k < c THEN g + k ELSE g + k - c) =
           (IF h + (k + 1) < c THEN h + (k + 1) ELSE h + (k + 1) - c)
<1>1. CASE h + 1 < c
  BY <1>1
<1>2. CASE h + 1 = c
  BY <1>2
<1>3. QED
  BY <1>1, <1>2

\* Taking the first moves head to the next slot, wrapped around.
LEMMA PoppedFrontFacts ==
    ASSUME NEW o, IsObject(o), o.len > 0,
           NEW p, p = [o EXCEPT !.head = (@ + 1) % o.cap, !.len = @ - 1]
    PROVE  /\ IsObject(p) /\ SameBuffer(p, o)
           /\ p.len = o.len - 1
           /\ Elements(o) # <<>>
           /\ Elements(p) = Tail(Elements(o))
           /\ Element(o, 0) = Head(Elements(o))
<1>1. PICK c \in Nat \ {0}, n \in Nat \ {0}, h \in Nat :
          c = o.cap /\ n = o.len /\ n <= c /\ h = o.head /\ h < c
  BY DEF IsObject
<1>2. PICK g \in Nat : /\ g = (h + 1) % c /\ g < c
                       /\ g = IF h + 1 < c THEN h + 1 ELSE h + 1 - c
  <2>1. PICK x \in Nat : x = h + 1 /\ x < 2 * c
    BY <1>1
  <2>2. x % c = IF x < c THEN x ELSE x - c
    BY <2>1, WrapsOnce
  <2>3. (IF x < c THEN x ELSE x - c) \in Nat /\ (IF x < c THEN x ELSE x - c) < c
    BY <2>1
  <2>4. QED
    BY <2>1, <2>2, <2>3
<1>3. /\ HasFields(p) /\ p.data = o.data /\ p.cap = c /\ p.len = n - 1
      /\ p.head = g /\ p.slots = o.slots
  BY <1>1, <1>2 DEF IsObject, HasFields
<1>4. IsObject(p)
  <2>1. n - 1 \in Nat /\ n - 1 <= c /\ c \in Nat
    BY <1>1
  <2>2. p.slots \in [0..(c - 1) -> Values \cup {None}]
    BY <1>1, <1>3 DEF IsObject
  <2>3. QED
    BY <1>2, <1>3, <2>1, <2>2, ObjectFrom
<1>5. /\ Elements(o) \in Contents /\ Len(Elements(o)) = n
      /\ \A i \in 1..n : Elements(o)[i] = o.slots[At(o, i - 1)]
  BY <1>1, ElementsFacts
<1>6. Elements(o) # <<>>
  BY <1>1, <1>5, EmptySeq
<1>7. PICK t \in Contents : /\ t = Tail(Elements(o)) /\ Len(t) = n - 1
                           /\ \A i \in 1..(n - 1) : t[i] = Elements(o)[i + 1]
  <2>1. /\ Tail(Elements(o)) \in Contents
        /\ Len(Tail(Elements(o))) = Len(Elements(o)) - 1
        /\ \A i \in 1..Len(Tail(Elements(o))) : Tail(Elements(o))[i] = Elements(o)[i + 1]
    BY <1>5, <1>6, HeadTailProperties DEF Contents
  <2>2. Len(Tail(Elements(o))) = n - 1
    BY <1>5, <2>1
  <2>3. QED
    BY <2>1, <2>2
<1>8. ASSUME NEW i \in 1..p.len
      PROVE  p.slots[At(p, i - 1)] = t[i]
  <2>1. PICK k \in Nat : /\ k = i - 1 /\ k + 1 < c /\ k + 1 = (i + 1) - 1
                         /\ k <= c /\ k + 1 <= c
                         /\ i \in 1..(n - 1) /\ i + 1 \in 1..n
    BY <1>1, <1>3
  <2>2. At(p, k) = IF g + k < c THEN g + k ELSE g + k - c
    <3>1. p.cap > 0 /\ k <= p.cap
      BY <1>3, <2>1
    <3>2. QED
      BY <1>3, <1>4, <3>1, AtFacts
  <2>3. At(o, k + 1) = IF h + (k + 1) < c THEN h + (k + 1) ELSE h + (k + 1) - c
    BY <1>1, <2>1, AtFacts
  <2>4. At(p, k) = At(o, k + 1)
    BY <1>1, <1>2, <2>1, <2>2, <2>3, StepOn
  <2>5. t[i] = o.slots[At(o, k + 1)]
    BY <1>5, <1>7, <2>1
  <2>6. QED
    BY <1>3, <2>1, <2>4, <2>5
<1>9. Elements(p) = t
  <2>1. Len(t) = p.len
    BY <1>3, <1>7
  <2>2. QED
    BY <1>4, <1>7, <1>8, <2>1, ElementsAre
<1>10. Element(o, 0) = Head(Elements(o))
  <2>1. 1 \in 1..n /\ 1 - 1 = 0
    BY <1>1
  <2>2. Elements(o)[1] = o.slots[At(o, 0)]
    BY <1>5, <2>1
  <2>3. Head(Elements(o)) = Elements(o)[1]
    BY <1>5, <1>6 DEF Contents
  <2>4. QED
    BY <2>2, <2>3 DEF Element
<1>11. QED
  BY <1>1, <1>3, <1>4, <1>6, <1>7, <1>9, <1>10 DEF SameBuffer

\* set changes the element at the index, and no other.
LEMMA StoredFacts ==
    ASSUME NEW o, IsObject(o), NEW i \in Nat, i < o.len, NEW v \in Values,
           NEW p, p = [o EXCEPT !.slots[At(o, i)] = v]
    PROVE  /\ IsObject(p) /\ SameBuffer(p, o)
           /\ p.len = o.len /\ p.head = o.head
           /\ Elements(p) = [Elements(o) EXCEPT ![i + 1] = v]
<1>1. PICK c \in Nat \ {0}, n \in Nat \ {0}, h \in Nat :
          /\ c = o.cap /\ n = o.len /\ n <= c /\ h = o.head /\ h < c
          /\ i < n /\ i + 1 \in 1..n
  BY DEF IsObject
<1>2. /\ HasFields(p) /\ p.data = o.data /\ p.cap = c /\ p.len = n
      /\ p.head = h /\ p.slots = [o.slots EXCEPT ![At(o, i)] = v]
  BY <1>1 DEF IsObject, HasFields
<1>3. At(o, i) \in 0..(c - 1)
  BY <1>1, AtFacts
<1>4. /\ o.slots \in [0..(c - 1) -> Values \cup {None}]
      /\ p.slots \in [0..(c - 1) -> Values \cup {None}]
      /\ p.slots[At(o, i)] = v
      /\ \A k \in 0..(c - 1) : k # At(o, i) => p.slots[k] = o.slots[k]
  <2>1. o.slots \in [0..(c - 1) -> Values \cup {None}]
    BY <1>1 DEF IsObject
  <2>2. QED
    BY <1>2, <1>3, <2>1
<1>5. IsObject(p)
  BY <1>1, <1>2, <1>4, ObjectFrom
<1>6. /\ Elements(o) \in Contents /\ Len(Elements(o)) = n
      /\ \A k \in 1..n : Elements(o)[k] = o.slots[At(o, k - 1)]
  BY <1>1, ElementsFacts
<1>7. PICK t \in Contents : /\ t = [Elements(o) EXCEPT ![i + 1] = v] /\ Len(t) = n
                           /\ \A k \in 1..n :
                                t[k] = IF k = i + 1 THEN v ELSE Elements(o)[k]
  <2>1. i + 1 \in 1..Len(Elements(o)) /\ v \in Values \cup {None}
    BY <1>1, <1>6
  <2> DEFINE t == [Elements(o) EXCEPT ![i + 1] = v]
  <2>2. /\ t \in Contents /\ Len(t) = Len(Elements(o))
        /\ \A k \in 1..Len(Elements(o)) : t[k] = IF k = i + 1 THEN v ELSE Elements(o)[k]
    BY <1>6, <2>1, ExceptSeq DEF Contents
  <2> HIDE DEF t
  <2>3. QED
    BY <1>6, <2>2 DEF t
<1>8. ASSUME NEW k \in 1..p.len
      PROVE  p.slots[At(p, k - 1)] = t[k]
  <2>1. k \in 1..n /\ k - 1 \in 0..(c - 1) /\ i \in 0..(c - 1) /\ k - 1 \in Nat /\ k - 1 <= c
    BY <1>1, <1>2
  <2>2. At(p, k - 1) = At(o, k - 1) /\ At(o, k - 1) \in 0..(c - 1)
    BY <1>1, <1>2, <2>1, AtFacts DEF At
  <2>3. CASE k = i + 1
    <3>1. k - 1 = i
      BY <2>3
    <3>2. QED
      BY <1>4, <1>7, <2>1, <2>2, <2>3, <3>1
  <2>4. CASE k # i + 1
    <3>1. k - 1 # i
      BY <2>1, <2>4
    <3>2. At(o, k - 1) # At(o, i)
      BY <1>1, <2>1, <3>1, AtApart
    <3>3. QED
      BY <1>4, <1>6, <1>7, <2>1, <2>2, <2>4, <3>2
  <2>5. QED
    BY <2>3, <2>4
<1>9. Elements(p) = t
  <2>1. Len(t) = p.len
    BY <1>2, <1>7
  <2>2. QED
    BY <1>5, <1>8, <2>1, ElementsAre
<1>10. QED
  BY <1>1, <1>2, <1>5, <1>7, <1>9 DEF SameBuffer
\* In a vec, whose head is 0, element i is in slot i.
LEMMA AtInVec ==
    ASSUME NEW o, IsObject(o), o.head = 0, NEW i \in Nat, i < o.cap
    PROVE  At(o, i) = i
<1>1. o.cap \in Nat /\ o.cap > 0 /\ i <= o.cap
  BY DEF IsObject
<1>2. At(o, i) = IF o.head + i < o.cap THEN o.head + i ELSE o.head + i - o.cap
  BY <1>1, AtFacts
<1>3. QED
  BY <1>1, <1>2

\* insert moves the elements behind the index up and fills the gap.
LEMMA InsertedFacts ==
    ASSUME NEW o, IsObject(o), o.head = 0, o.len < o.cap,
           NEW i \in Nat, i <= o.len, NEW v \in Values,
           NEW p, p = Inserted(o, i, v)
    PROVE  /\ IsObject(p) /\ SameBuffer(p, o)
           /\ p.len = o.len + 1 /\ p.head = 0
           /\ Elements(p) = InsertAt(Elements(o), i + 1, v)
<1>1. PICK c \in Nat \ {0}, n \in Nat :
          /\ c = o.cap /\ n = o.len /\ n < c /\ i <= n
          /\ i + 1 \in 1..(n + 1)
  BY DEF IsObject
<1>2. o.slots \in [0..(c - 1) -> Values \cup {None}] /\ DOMAIN o.slots = 0..(c - 1)
  BY <1>1 DEF IsObject
<1> DEFINE new == [j \in 0..(c - 1) |-> CASE j = i -> v
                                          [] j > i /\ j <= n -> o.slots[j - 1]
                                          [] OTHER -> o.slots[j]]
<1>3. /\ HasFields(p) /\ p.data = o.data /\ p.cap = c /\ p.len = n + 1
      /\ p.head = 0 /\ p.slots = new
  <2>1. /\ HasFields(p) /\ p.data = o.data /\ p.cap = o.cap /\ p.len = o.len + 1
        /\ p.head = o.head
        /\ p.slots = [j \in DOMAIN o.slots |-> CASE j = i -> v
                                              [] j > i /\ j <= o.len -> o.slots[j - 1]
                                              [] OTHER -> o.slots[j]]
    BY DEF IsObject, HasFields, Inserted
  <2>2. QED
    BY <1>1, <1>2, <2>1
<1>4. \A j \in 0..n : new[j] = IF j < i THEN o.slots[j]
                               ELSE IF j = i THEN v ELSE o.slots[j - 1]
  BY <1>1
<1>5. new \in [0..(c - 1) -> Values \cup {None}]
  <2>1. ASSUME NEW j \in 0..(c - 1)
        PROVE  (CASE j = i -> v [] j > i /\ j <= n -> o.slots[j - 1]
                  [] OTHER -> o.slots[j]) \in Values \cup {None}
    <3>1. CASE j = i
      BY <3>1
    <3>2. CASE j > i /\ j <= n
      <4>1. j - 1 \in 0..(c - 1) /\ j # i
        BY <3>2
      <4>2. QED
        BY <1>2, <3>2, <4>1
    <3>3. CASE j # i /\ ~(j > i /\ j <= n)
      BY <1>2, <3>3
    <3>4. QED
      BY <3>1, <3>2, <3>3
  <2>2. QED
    BY <2>1
<1> HIDE DEF new
<1>6. IsObject(p)
  <2>1. n + 1 \in Nat /\ n + 1 <= c /\ c \in Nat
    BY <1>1
  <2>2. QED
    BY <1>3, <1>5, <2>1, ObjectFrom
<1>7. /\ Elements(o) \in Contents /\ Len(Elements(o)) = n
      /\ \A k \in 1..n : Elements(o)[k] = o.slots[k - 1]
  <2>1. /\ Elements(o) \in Contents /\ Len(Elements(o)) = n
        /\ \A k \in 1..n : Elements(o)[k] = o.slots[At(o, k - 1)]
    BY <1>1, ElementsFacts
  <2>2. ASSUME NEW k \in 1..n
        PROVE  At(o, k - 1) = k - 1
    <3>1. k - 1 \in Nat /\ k - 1 < o.cap
      BY <1>1
    <3>2. QED
      BY <3>1, AtInVec
  <2>3. QED
    BY <2>1, <2>2
<1>8. PICK t \in Contents :
          /\ t = InsertAt(Elements(o), i + 1, v) /\ Len(t) = n + 1
          /\ \A j \in 1..(n + 1) :
                 t[j] = IF j < i + 1 THEN Elements(o)[j]
                        ELSE IF j = i + 1 THEN v ELSE Elements(o)[j - 1]
  <2>1. i + 1 \in 1..(Len(Elements(o)) + 1) /\ v \in Values \cup {None}
    BY <1>1, <1>7
  <2>2. PICK m, t : /\ m \in 1..(Len(Elements(o)) + 1) /\ m = i + 1
                    /\ t = InsertAt(Elements(o), m, v)
    BY <2>1
  <2>3. /\ t \in Contents /\ Len(t) = Len(Elements(o)) + 1
        /\ \A j \in 1..(Len(Elements(o)) + 1) :
               t[j] = IF j < m THEN Elements(o)[j]
                      ELSE IF j = m THEN v ELSE Elements(o)[j - 1]
    <3>1. PICK Entries : Entries = Values \cup {None}
      OBVIOUS
    <3>2. PICK s \in Seq(Entries) : s = Elements(o)
      BY <1>7, <3>1 DEF Contents
    <3>3. m \in 1..(Len(s) + 1) /\ v \in Entries /\ t = InsertAt(s, m, v)
      BY <2>1, <2>2, <3>1, <3>2
    <3>4. t \in Seq(Entries) /\ WithInserted(t, s, m, v)
      BY <3>3, InsertAtFacts
    <3>5. QED
      BY <3>1, <3>2, <3>4 DEF Contents, WithInserted
  <2>4. QED
    BY <1>7, <2>2, <2>3
<1>9. ASSUME NEW k \in 1..p.len
      PROVE  p.slots[At(p, k - 1)] = t[k]
  <2>1. k \in 1..(n + 1) /\ k - 1 \in 0..n /\ k - 1 \in Nat /\ k - 1 < p.cap
    BY <1>1, <1>3
  <2>2. p.slots[At(p, k - 1)] = new[k - 1]
    BY <1>3, <1>6, <2>1, AtInVec
  <2>3. CASE k - 1 < i
    <3>1. k < i + 1 /\ k \in 1..n
      BY <1>1, <2>1, <2>3
    <3>2. QED
      BY <1>4, <1>7, <1>8, <2>1, <2>2, <2>3, <3>1
  <2>4. CASE k - 1 = i
    <3>1. k = i + 1 /\ ~(k < i + 1) /\ ~(k - 1 < i)
      BY <2>1, <2>4
    <3>2. QED
      BY <1>4, <1>8, <2>1, <2>2, <2>4, <3>1
  <2>5. CASE k - 1 > i
    <3>1. /\ k > i + 1 /\ k - 1 \in 1..n /\ (k - 1) - 1 = k - 2
          /\ ~(k < i + 1) /\ ~(k - 1 < i) /\ k # i + 1 /\ k - 1 # i
      BY <1>1, <2>1, <2>5
    <3>2. Elements(o)[k - 1] = o.slots[(k - 1) - 1]
      BY <1>7, <3>1
    <3>3. QED
      BY <1>4, <1>8, <2>1, <2>2, <3>1, <3>2
  <2>6. QED
    BY <2>1, <2>3, <2>4, <2>5
<1>10. Elements(p) = t
  <2>1. Len(t) = p.len
    BY <1>3, <1>8
  <2>2. QED
    BY <1>6, <1>9, <2>1, ElementsAre
<1>11. QED
  BY <1>1, <1>3, <1>6, <1>8, <1>10 DEF SameBuffer

\* remove moves the elements behind the index down.
LEMMA RemovedFacts ==
    ASSUME NEW o, IsObject(o), o.head = 0,
           NEW i \in Nat, i < o.len,
           NEW p, p = Removed(o, i)
    PROVE  /\ IsObject(p) /\ SameBuffer(p, o)
           /\ p.len = o.len - 1 /\ p.head = 0
           /\ Elements(p) = RemoveAt(Elements(o), i + 1)
<1>1. PICK c \in Nat \ {0}, n \in Nat \ {0} :
          /\ c = o.cap /\ n = o.len /\ n <= c /\ i < n
          /\ i + 1 \in 1..n
  BY DEF IsObject
<1>2. o.slots \in [0..(c - 1) -> Values \cup {None}] /\ DOMAIN o.slots = 0..(c - 1)
  BY <1>1 DEF IsObject
<1> DEFINE new == [j \in 0..(c - 1) |-> CASE j >= i /\ j < n - 1 -> o.slots[j + 1]
                                          [] j = n - 1 -> None
                                          [] OTHER -> o.slots[j]]
<1>3. /\ HasFields(p) /\ p.data = o.data /\ p.cap = c /\ p.len = n - 1
      /\ p.head = 0 /\ p.slots = new
  <2>1. /\ HasFields(p) /\ p.data = o.data /\ p.cap = o.cap /\ p.len = o.len - 1
        /\ p.head = o.head
        /\ p.slots = [j \in DOMAIN o.slots |->
                      CASE j >= i /\ j < o.len - 1 -> o.slots[j + 1]
                        [] j = o.len - 1 -> None
                        [] OTHER -> o.slots[j]]
    BY DEF IsObject, HasFields, Removed
  <2>2. QED
    BY <1>1, <1>2, <2>1
<1>4. \A j \in 0..(n - 2) : new[j] = IF j < i THEN o.slots[j] ELSE o.slots[j + 1]
  BY <1>1
<1>5. new \in [0..(c - 1) -> Values \cup {None}]
  <2>1. ASSUME NEW j \in 0..(c - 1)
        PROVE  (CASE j >= i /\ j < n - 1 -> o.slots[j + 1] [] j = n - 1 -> None
                  [] OTHER -> o.slots[j]) \in Values \cup {None}
    <3>1. CASE j >= i /\ j < n - 1
      <4>1. j + 1 \in 0..(c - 1) /\ j # n - 1
        BY <1>1, <3>1
      <4>2. QED
        BY <1>2, <3>1, <4>1
    <3>2. CASE j = n - 1
      BY <1>1, <3>2
    <3>3. CASE j # n - 1 /\ ~(j >= i /\ j < n - 1)
      BY <1>2, <3>3
    <3>4. QED
      BY <3>1, <3>2, <3>3
  <2>2. QED
    BY <2>1
<1> HIDE DEF new
<1>6. IsObject(p)
  <2>1. n - 1 \in Nat /\ n - 1 <= c /\ c \in Nat
    BY <1>1
  <2>2. QED
    BY <1>3, <1>5, <2>1, ObjectFrom
<1>7. /\ Elements(o) \in Contents /\ Len(Elements(o)) = n
      /\ \A k \in 1..n : Elements(o)[k] = o.slots[k - 1]
  <2>1. /\ Elements(o) \in Contents /\ Len(Elements(o)) = n
        /\ \A k \in 1..n : Elements(o)[k] = o.slots[At(o, k - 1)]
    BY <1>1, ElementsFacts
  <2>2. ASSUME NEW k \in 1..n
        PROVE  At(o, k - 1) = k - 1
    <3>1. k - 1 \in Nat /\ k - 1 < o.cap
      BY <1>1
    <3>2. QED
      BY <3>1, AtInVec
  <2>3. QED
    BY <2>1, <2>2
<1>8. PICK t \in Contents :
          /\ t = RemoveAt(Elements(o), i + 1) /\ Len(t) = n - 1
          /\ \A j \in 1..(n - 1) :
                 t[j] = IF j < i + 1 THEN Elements(o)[j] ELSE Elements(o)[j + 1]
  <2>1. i + 1 \in 1..Len(Elements(o))
    BY <1>1, <1>7
  <2>2. PICK m, t : /\ m \in 1..Len(Elements(o)) /\ m = i + 1
                    /\ t = RemoveAt(Elements(o), m)
    BY <2>1
  <2>3. /\ t \in Contents /\ Len(t) = Len(Elements(o)) - 1
        /\ \A j \in 1..(Len(Elements(o)) - 1) :
               t[j] = IF j < m THEN Elements(o)[j] ELSE Elements(o)[j + 1]
    <3>1. PICK Entries : Entries = Values \cup {None}
      OBVIOUS
    <3>2. PICK s \in Seq(Entries) : s = Elements(o)
      BY <1>7, <3>1 DEF Contents
    <3>3. m \in 1..Len(s) /\ t = RemoveAt(s, m)
      BY <2>2, <3>2
    <3>4. t \in Seq(Entries) /\ WithRemoved(t, s, m)
      BY <3>3, RemoveAtFacts
    <3>5. QED
      BY <3>1, <3>2, <3>4 DEF Contents, WithRemoved
  <2>4. QED
    BY <1>7, <2>2, <2>3
<1>9. ASSUME NEW k \in 1..p.len
      PROVE  p.slots[At(p, k - 1)] = t[k]
  <2>1. /\ k \in 1..(n - 1) /\ k \in 1..n /\ k + 1 \in 1..n
        /\ k - 1 \in 0..(n - 2) /\ k - 1 \in Nat /\ k - 1 < p.cap
    BY <1>1, <1>3
  <2>2. p.slots[At(p, k - 1)] = new[k - 1]
    BY <1>3, <1>6, <2>1, AtInVec
  <2>3. CASE k - 1 < i
    <3>1. k < i + 1
      BY <2>1, <2>3
    <3>2. QED
      BY <1>4, <1>7, <1>8, <2>1, <2>2, <2>3, <3>1
  <2>4. CASE ~(k - 1 < i)
    <3>1. ~(k < i + 1) /\ (k - 1) + 1 = (k + 1) - 1
      BY <2>1, <2>4
    <3>2. Elements(o)[k + 1] = o.slots[(k + 1) - 1]
      BY <1>7, <2>1
    <3>3. QED
      BY <1>4, <1>8, <2>1, <2>2, <2>4, <3>1, <3>2
  <2>5. QED
    BY <2>3, <2>4
<1>10. Elements(p) = t
  <2>1. Len(t) = p.len
    BY <1>3, <1>8
  <2>2. QED
    BY <1>6, <1>9, <2>1, ElementsAre
<1>11. QED
  BY <1>1, <1>3, <1>6, <1>8, <1>10 DEF SameBuffer
\* swap exchanges two elements.
LEMMA SwappedFacts ==
    ASSUME NEW o, IsObject(o), o.head = 0,
           NEW i \in Nat, i < o.len, NEW j \in Nat, j < o.len, i # j,
           NEW p, p = Swapped(o, i, j)
    PROVE  /\ IsObject(p) /\ SameBuffer(p, o)
           /\ p.len = o.len /\ p.head = 0
           /\ Elements(p) = [Elements(o) EXCEPT ![i + 1] = Elements(o)[j + 1],
                                                ![j + 1] = Elements(o)[i + 1]]
<1>1. PICK c \in Nat \ {0}, n \in Nat \ {0} :
          /\ c = o.cap /\ n = o.len /\ n <= c /\ i < n /\ j < n
          /\ i \in 0..(c - 1) /\ j \in 0..(c - 1)
          /\ i + 1 \in 1..n /\ j + 1 \in 1..n
  BY DEF IsObject
<1>2. /\ HasFields(p) /\ p.data = o.data /\ p.cap = c /\ p.len = n
      /\ p.head = 0
      /\ p.slots = [o.slots EXCEPT ![i] = o.slots[j], ![j] = o.slots[i]]
  <2>1. /\ HasFields(p) /\ p.data = o.data /\ p.cap = o.cap /\ p.len = o.len
        /\ p.head = o.head
        /\ p.slots = [o.slots EXCEPT ![i] = o.slots[j], ![j] = o.slots[i]]
    BY DEF IsObject, HasFields, Swapped
  <2>2. QED
    BY <1>1, <2>1
<1>3. /\ o.slots \in [0..(c - 1) -> Values \cup {None}]
      /\ p.slots \in [0..(c - 1) -> Values \cup {None}]
      /\ \A k \in 0..(c - 1) : p.slots[k] = IF k = j THEN o.slots[i]
                                            ELSE IF k = i THEN o.slots[j]
                                            ELSE o.slots[k]
  <2>1. o.slots \in [0..(c - 1) -> Values \cup {None}]
    BY <1>1 DEF IsObject
  <2>2. QED
    BY <1>1, <1>2, <2>1
<1>4. IsObject(p)
  BY <1>1, <1>2, <1>3, ObjectFrom
<1>5. ASSUME NEW q, IsObject(q), q.cap = c, q.head = 0, NEW k \in 1..n
      PROVE  At(q, k - 1) = k - 1 /\ k - 1 \in 0..(c - 1)
  <2>1. k - 1 \in Nat /\ k - 1 < q.cap
    BY <1>1, <1>5
  <2>2. QED
    BY <1>5, <2>1, AtInVec
<1>6. PICK s \in Contents : /\ s = Elements(o) /\ Len(s) = n /\ DOMAIN s = 1..n
                           /\ \A k \in 1..n : s[k] = o.slots[k - 1]
  <2>1. /\ Elements(o) \in Contents /\ Len(Elements(o)) = n /\ DOMAIN Elements(o) = 1..n
        /\ \A k \in 1..n : Elements(o)[k] = o.slots[At(o, k - 1)]
    BY <1>1, ElementsFacts
  <2>2. \A k \in 1..n : At(o, k - 1) = k - 1
    BY <1>1, <1>5
  <2>3. QED
    BY <2>1, <2>2
<1>7. PICK t \in Contents :
          /\ t = [s EXCEPT ![i + 1] = s[j + 1], ![j + 1] = s[i + 1]]
          /\ Len(t) = n
          /\ \A k \in 1..n : t[k] = IF k = j + 1 THEN s[i + 1]
                                    ELSE IF k = i + 1 THEN s[j + 1] ELSE s[k]
  <2>1. PICK u : u = [s EXCEPT ![i + 1] = s[j + 1]]
    OBVIOUS
  <2>2. s[i + 1] \in Values \cup {None} /\ s[j + 1] \in Values \cup {None}
    BY <1>1, <1>6, ElementOfSeq DEF Contents
  <2>3. /\ u \in Contents /\ Len(u) = Len(s)
        /\ \A k \in 1..Len(s) : u[k] = IF k = i + 1 THEN s[j + 1] ELSE s[k]
    BY <1>1, <1>6, <2>1, <2>2, ExceptSeq DEF Contents
  <2>4. PICK t : t = [u EXCEPT ![j + 1] = s[i + 1]]
    OBVIOUS
  <2>5. /\ t \in Contents /\ Len(t) = Len(u)
        /\ \A k \in 1..Len(u) : t[k] = IF k = j + 1 THEN s[i + 1] ELSE u[k]
    <3>1. PICK x \in Values \cup {None} : x = s[i + 1]
      BY <2>2
    <3>2. PICK m \in 1..Len(u) : m = j + 1
      BY <1>1, <1>6, <2>3
    <3>3. t = [u EXCEPT ![m] = x] /\ u \in Seq(Values \cup {None})
      BY <2>3, <2>4, <3>1, <3>2 DEF Contents
    <3>4. /\ t \in Seq(Values \cup {None}) /\ Len(t) = Len(u)
          /\ \A k \in 1..Len(u) : t[k] = IF k = m THEN x ELSE u[k]
      BY <3>3, ExceptSeq
    <3>5. QED
      BY <3>1, <3>2, <3>4 DEF Contents
  <2>6. t = [s EXCEPT ![i + 1] = s[j + 1], ![j + 1] = s[i + 1]]
    BY <2>1, <2>4, Zenon
  <2>7. /\ Len(t) = n
        /\ \A k \in 1..n : t[k] = IF k = j + 1 THEN s[i + 1]
                                  ELSE IF k = i + 1 THEN s[j + 1] ELSE s[k]
    BY <1>6, <2>3, <2>5
  <2>8. QED
    BY <2>5, <2>6, <2>7
<1>8. ASSUME NEW k \in 1..p.len
      PROVE  p.slots[At(p, k - 1)] = t[k]
  <2>1. k \in 1..n /\ (k - 1 = j <=> k = j + 1) /\ (k - 1 = i <=> k = i + 1)
    BY <1>1, <1>2
  <2>2. At(p, k - 1) = k - 1 /\ k - 1 \in 0..(c - 1)
    BY <1>2, <1>4, <1>5, <2>1
  <2>3. p.slots[k - 1] = IF k = j + 1 THEN o.slots[i]
                         ELSE IF k = i + 1 THEN o.slots[j] ELSE o.slots[k - 1]
    BY <1>3, <2>1, <2>2
  <2>4. s[i + 1] = o.slots[i] /\ s[j + 1] = o.slots[j] /\ s[k] = o.slots[k - 1]
    <3>1. (i + 1) - 1 = i /\ (j + 1) - 1 = j
      OBVIOUS
    <3>2. QED
      BY <1>1, <1>6, <2>1, <3>1
  <2>5. QED
    BY <1>7, <2>1, <2>2, <2>3, <2>4
<1>9. Elements(p) = t
  <2>1. Len(t) = p.len
    BY <1>2, <1>7
  <2>2. QED
    BY <1>4, <1>8, <2>1, ElementsAre
<1>10. QED
  BY <1>1, <1>2, <1>4, <1>6, <1>7, <1>9 DEF SameBuffer

\* An object without elements is the empty sequence.
LEMMA NoElements ==
    ASSUME NEW o, IsObject(o), o.len = 0
    PROVE  Elements(o) = <<>>
<1>1. Elements(o) \in Contents /\ Len(Elements(o)) = 0
  BY ElementsFacts
<1>2. QED
  BY <1>1, EmptySeq DEF Contents

\* clear keeps the buffer.
LEMMA ClearedFacts ==
    ASSUME NEW o, IsObject(o), NEW p, p = [o EXCEPT !.len = 0, !.head = 0]
    PROVE  /\ IsObject(p) /\ SameBuffer(p, o) /\ p.len = 0 /\ p.head = 0
           /\ Elements(p) = <<>>
<1>1. /\ HasFields(p) /\ p.data = o.data /\ p.cap = o.cap /\ p.len = 0
      /\ p.head = 0 /\ p.slots = o.slots
  BY DEF IsObject, HasFields
<1>2. IsObject(p)
  <2>1. /\ o.cap \in Nat /\ 0 \in Nat /\ 0 <= o.cap
        /\ p.slots \in [0..(o.cap - 1) -> Values \cup {None}]
    BY <1>1 DEF IsObject
  <2>2. QED
    BY <1>1, <2>1, ObjectFrom
<1>3. QED
  BY <1>1, <1>2, NoElements DEF SameBuffer

\* The object that init makes and destroy leaves.
LEMMA NoObjectFacts ==
    /\ IsObject(NoObject) /\ NoObject.data = None
    /\ NoObject.cap = 0 /\ NoObject.len = 0 /\ NoObject.head = 0
    /\ Elements(NoObject) = <<>>
<1>1. /\ HasFields(NoObject) /\ NoObject.data = None /\ NoObject.cap = 0
      /\ NoObject.len = 0 /\ NoObject.head = 0 /\ NoObject.slots = Zeroed(0)
  BY DEF NoObject, HasFields
<1>2. Zeroed(0) \in [0..(0 - 1) -> Values \cup {None}]
  BY DEF Zeroed
<1>3. IsObject(NoObject)
  BY <1>1, <1>2, ObjectFrom
<1>4. QED
  BY <1>1, <1>3, NoElements

\* The elements unrolled into a buffer of n slots, from slot 0 on.
LEMMA UnrolledFacts ==
    ASSUME NEW o, IsObject(o), NEW n \in Nat, o.len <= n,
           NEW p, HasFields(p), p.cap = n, p.len = o.len, p.head = 0,
           p.slots = [i \in 0..(n - 1) |-> IF i < o.len THEN Element(o, i) ELSE None]
    PROVE  IsObject(p) /\ Elements(p) = Elements(o)
<1>1. PICK m \in Nat, c \in Nat : m = o.len /\ c = o.cap /\ m <= n /\ m <= c
  BY DEF IsObject
<1>2. /\ Elements(o) \in Contents /\ Len(Elements(o)) = m
      /\ \A i \in 1..m : Elements(o)[i] = o.slots[At(o, i - 1)]
  BY <1>1, ElementsFacts
<1>3. p.slots \in [0..(n - 1) -> Values \cup {None}]
  <2>1. ASSUME NEW i \in 0..(n - 1)
        PROVE  (IF i < o.len THEN Element(o, i) ELSE None) \in Values \cup {None}
    <3>1. CASE i < m
      <4>1. i + 1 \in 1..m /\ (i + 1) - 1 = i
        BY <1>1, <3>1
      <4>2. Elements(o)[i + 1] \in Values \cup {None}
        BY <1>2, <4>1, ElementOfSeq DEF Contents
      <4>3. Elements(o)[i + 1] = o.slots[At(o, i)]
        BY <1>2, <4>1
      <4>4. QED
        BY <1>1, <3>1, <4>2, <4>3 DEF Element
    <3>2. CASE ~(i < m)
      BY <1>1, <3>2
    <3>3. QED
      BY <3>1, <3>2
  <2>2. QED
    BY <2>1
<1>4. IsObject(p)
  BY <1>1, <1>3, ObjectFrom
<1>5. ASSUME NEW i \in 1..p.len
      PROVE  p.slots[At(p, i - 1)] = Elements(o)[i]
  <2>1. PICK k \in Nat : /\ k = i - 1 /\ k \in 0..(n - 1) /\ k < m /\ k < p.cap
                         /\ i \in 1..m
    BY <1>1
  <2>2. At(p, k) = k
    BY <1>4, <2>1, AtInVec
  <2>3. p.slots[k] = Element(o, k)
    BY <1>1, <2>1
  <2>4. Elements(o)[i] = o.slots[At(o, k)]
    BY <1>2, <2>1
  <2>5. QED
    BY <2>1, <2>2, <2>3, <2>4 DEF Element
<1>6. Elements(p) = Elements(o)
  <2>1. Len(Elements(o)) = p.len
    BY <1>1, <1>2
  <2>2. QED
    BY <1>2, <1>4, <1>5, <2>1, ElementsAre
<1>7. QED
  BY <1>4, <1>6
-------------------------------------------------------------------------------
(* The capacity that reserve asks for.                                      *)

\* One turn of the loop in reserve, g being what the turns after it come to.
Turn(want, g, n) ==
    IF n >= want THEN n
    ELSE IF n <= MaxUsize \div 2 THEN g[2 * n]
    ELSE IF kind = "vec" THEN want ELSE Endless

\* The loop has a result from every capacity on: it follows from larger ones.
LEMMA LoopExists ==
    ASSUME NEW want \in Nat
    PROVE  \E g : g = [n \in 1..MaxUsize |-> Turn(want, g, n)]
<1> DEFINE Done(g, m) == /\ g = [n \in 1..MaxUsize |-> g[n]]
                         /\ \A n \in (m + 1)..MaxUsize : g[n] = Turn(want, g, n)
           Bad == {k \in 0..MaxUsize : ~(\E g : Done(g, MaxUsize - k))}
<1>1. MaxUsize \in Nat
  BY ContainerAssumption
<1>2. Bad = {}
  <2>1. SUFFICES ASSUME Bad # {} PROVE FALSE
    OBVIOUS
  <2>2. Bad \in SUBSET Nat
    BY <1>1
  <2>3. PICK k \in Bad : \A j \in Bad : k <= j
    <3> HIDE DEF Bad
    <3>1. QED
      BY <2>1, <2>2, FirstExists
  <2>4. k \in 0..MaxUsize /\ k \in Nat
    BY <1>1
  <2>5. CASE k = 0
    <3>1. PICK g : g = [n \in 1..MaxUsize |-> 0]
      OBVIOUS
    <3>2. Done(g, MaxUsize)
      BY <1>1, <3>1
    <3>3. MaxUsize - k = MaxUsize
      BY <1>1, <2>5
    <3>4. QED
      BY <3>2, <3>3
  <2>6. CASE k > 0
    <3>1. k - 1 \in 0..MaxUsize /\ k - 1 \notin Bad
      BY <1>1, <2>3, <2>4, <2>6
    <3>2. PICK g : Done(g, MaxUsize - (k - 1))
      BY <3>1
    <3>3. PICK m \in Nat : /\ m = MaxUsize - k /\ m + 1 = MaxUsize - (k - 1)
                           /\ m + 1 \in 1..MaxUsize
      BY <1>1, <2>4, <2>6
    <3>4. /\ g = [n \in 1..MaxUsize |-> g[n]]
          /\ \A n \in (m + 2)..MaxUsize : g[n] = Turn(want, g, n)
      BY <3>2, <3>3
    <3>5. PICK h : h = [n \in 1..MaxUsize |-> IF n = m + 1 THEN Turn(want, g, n) ELSE g[n]]
      OBVIOUS
    <3>6. ASSUME NEW n \in (m + 1)..MaxUsize
          PROVE  Turn(want, h, n) = Turn(want, g, n)
      <4>1. CASE n <= MaxUsize \div 2
        <5>1. 2 * n \in 1..MaxUsize /\ 2 * n # m + 1
          BY <1>1, <3>3, <4>1
        <5>2. h[2 * n] = g[2 * n]
          BY <3>5, <5>1
        <5>3. QED
          BY <5>2 DEF Turn
      <4>2. CASE ~(n <= MaxUsize \div 2)
        BY <4>2 DEF Turn
      <4>3. QED
        BY <4>1, <4>2
    <3>7. ASSUME NEW n \in (m + 1)..MaxUsize
          PROVE  h[n] = Turn(want, h, n)
      <4>1. n \in 1..MaxUsize
        BY <1>1, <3>3
      <4>2. CASE n = m + 1
        <5>1. h[n] = Turn(want, g, n)
          BY <3>5, <4>1, <4>2
        <5>2. QED
          BY <3>6, <5>1
      <4>3. CASE n # m + 1
        <5>1. n \in (m + 2)..MaxUsize
          BY <1>1, <3>3, <4>3
        <5>2. h[n] = g[n]
          BY <3>5, <4>1, <4>3
        <5>3. QED
          BY <3>4, <3>6, <5>1, <5>2
      <4>4. QED
        BY <4>2, <4>3
    <3>8. h = [n \in 1..MaxUsize |-> h[n]]
      BY <3>5
    <3>9. Done(h, MaxUsize - k)
      BY <3>3, <3>7, <3>8
    <3>10. QED
      BY <3>9
  <2>7. QED
    BY <2>4, <2>5, <2>6
<1>3. MaxUsize \in 0..MaxUsize /\ MaxUsize - MaxUsize = 0 /\ 0 + 1 = 1
  BY <1>1
<1>4. PICK g : Done(g, MaxUsize - MaxUsize)
  BY <1>2, <1>3
<1>5. /\ g = [n \in 1..MaxUsize |-> g[n]]
      /\ \A n \in 1..MaxUsize : g[n] = Turn(want, g, n)
  BY <1>3, <1>4
<1> HIDE DEF Done, Bad
<1>6. g = [n \in 1..MaxUsize |-> Turn(want, g, n)]
  BY <1>5
<1>7. QED
  BY <1>6

\* So NewCap is where the loop ends that begins with the capacity there is.
LEMMA NewCapIsLoop ==
    ASSUME NEW want \in Nat, FirstCap \in 1..MaxUsize
    PROVE  \E d : /\ NewCap(want) = d[FirstCap]
                  /\ \A n \in 1..MaxUsize : d[n] = Turn(want, d, n)
<1> DEFINE d == CHOOSE g : g = [n \in 1..MaxUsize |-> Turn(want, g, n)]
<1>1. d = [n \in 1..MaxUsize |-> Turn(want, d, n)]
  BY LoopExists, Zenon
<1>2. NewCap(want) = d[FirstCap]
  BY Zenon DEF NewCap, Turn
<1> HIDE DEF d
<1>3. \A n \in 1..MaxUsize : d[n] = Turn(want, d, n)
  BY <1>1
<1>4. QED
  BY <1>2, <1>3

\* What the loop ends with is enough, or it does not end; and it ends in a Vec, and
\* where half of what usize holds is enough.
LEMMA NewCapFacts ==
    ASSUME NEW want \in Nat, FirstCap \in 1..MaxUsize
    PROVE  /\ NewCap(want) \in Nat
           /\ NewCap(want) # Endless => NewCap(want) >= want
           /\ kind = "vec" \/ want <= MaxUsize \div 2 => NewCap(want) >= want
<1>1. PICK d : /\ NewCap(want) = d[FirstCap]
               /\ \A n \in 1..MaxUsize : d[n] = Turn(want, d, n)
  BY NewCapIsLoop
<1> DEFINE Enough(x) == /\ x \in Nat
                        /\ x # Endless => x >= want
                        /\ kind = "vec" \/ want <= MaxUsize \div 2 => x >= want
           Bad == {k \in 0..(MaxUsize - 1) : ~Enough(d[MaxUsize - k])}
<1>2. MaxUsize \in Nat
  BY ContainerAssumption
<1>3. Bad = {}
  <2>1. SUFFICES ASSUME Bad # {} PROVE FALSE
    OBVIOUS
  <2>2. Bad \in SUBSET Nat
    BY <1>2
  <2>3. PICK k \in Bad : \A j \in Bad : k <= j
    <3> HIDE DEF Bad
    <3>1. QED
      BY <2>1, <2>2, FirstExists
  <2>4. PICK n \in 1..MaxUsize : n = MaxUsize - k /\ n \in Nat /\ k \in Nat
    BY <1>2
  <2>5. d[n] = Turn(want, d, n) /\ ~Enough(d[n])
    BY <1>1, <2>4
  <2>6. CASE n >= want
    BY <2>4, <2>5, <2>6 DEF Turn
  <2>7. CASE n < want /\ n <= MaxUsize \div 2
    <3>1. /\ 2 * n \in 1..MaxUsize /\ MaxUsize - 2 * n \in 0..(MaxUsize - 1)
          /\ MaxUsize - 2 * n < k /\ MaxUsize - (MaxUsize - 2 * n) = 2 * n
      BY <1>2, <2>4, <2>7
    <3>2. MaxUsize - 2 * n \notin Bad
      BY <1>2, <2>3, <2>4, <3>1
    <3>3. Enough(d[2 * n])
      BY <3>1, <3>2
    <3>4. d[n] = d[2 * n]
      BY <2>4, <2>5, <2>7 DEF Turn
    <3>5. QED
      BY <2>5, <3>3, <3>4
  <2>8. CASE n < want /\ ~(n <= MaxUsize \div 2)
    <3>1. d[n] = IF kind = "vec" THEN want ELSE Endless
      BY <2>4, <2>5, <2>8 DEF Turn
    <3>2. ~(want <= MaxUsize \div 2)
      BY <1>2, <2>4, <2>8
    <3>3. QED
      BY <2>5, <3>1, <3>2 DEF Endless
  <2>9. QED
    BY <2>4, <2>6, <2>7, <2>8
<1>4. PICK k \in 0..(MaxUsize - 1) : MaxUsize - k = FirstCap
  <2>1. MaxUsize - FirstCap \in 0..(MaxUsize - 1)
    BY <1>2
  <2>2. MaxUsize - (MaxUsize - FirstCap) = FirstCap
    BY <1>2
  <2>3. QED
    BY <2>1, <2>2
<1>5. Enough(d[MaxUsize - k])
  BY <1>3
<1>6. QED
  BY <1>1, <1>4, <1>5

\* A capacity that is enough is kept, and doubled once where that is enough.
LEMMA NewCapOnce ==
    ASSUME NEW want \in Nat, FirstCap \in 1..MaxUsize
    PROVE  /\ want <= FirstCap => NewCap(want) = FirstCap
           /\ FirstCap < want /\ want <= 2 * FirstCap /\ 2 * FirstCap <= MaxUsize =>
                  NewCap(want) = 2 * FirstCap
<1>1. PICK d : /\ NewCap(want) = d[FirstCap]
               /\ \A n \in 1..MaxUsize : d[n] = Turn(want, d, n)
  BY NewCapIsLoop
<1>2. PICK n \in 1..MaxUsize : n = FirstCap /\ n \in Nat /\ MaxUsize \in Nat
  BY ContainerAssumption
<1>3. ASSUME want <= n PROVE d[n] = n
  BY <1>1, <1>2, <1>3 DEF Turn
<1>4. ASSUME n < want, want <= 2 * n, 2 * n <= MaxUsize
      PROVE  d[n] = 2 * n
  <2>1. 2 * n \in 1..MaxUsize /\ n <= MaxUsize \div 2 /\ ~(n >= want)
    BY <1>2, <1>4
  <2>2. d[n] = d[2 * n]
    BY <1>1, <2>1 DEF Turn
  <2>3. d[2 * n] = 2 * n
    BY <1>1, <1>4, <2>1 DEF Turn
  <2>4. QED
    BY <2>2, <2>3
<1>5. QED
  BY <1>1, <1>2, <1>3, <1>4
-------------------------------------------------------------------------------
(* The inductive invariant, and what reserve leaves.                        *)

\* An object has a buffer exactly when it has capacity, and it is its own.
Owns(o, h) == IF o.cap = 0 THEN o.data = None ELSE o.data \in h

\* TypeOK, with the shape of the record.
TypeInv ==
    /\ kind \in {"vec", "deque"} /\ heap \subseteq Buffers
    /\ IsObject(obj) /\ obj.cap <= MaxCap
    /\ Owns(obj, heap)
    /\ kind = "vec" => obj.head = 0

\* What a step may lose.
LosesLittle == Lost' # Lost => kind = "vec" /\ obj.len = 0 /\ obj.cap > 0

LEMMA TypeInvImpliesTypeOK == TypeInv => TypeOK
BY ContainerAssumption DEF TypeInv, TypeOK, IsObject, Owns

\* The first capacity is in the range of usize.
LEMMA FirstCapFacts ==
    ASSUME TypeInv
    PROVE  FirstCap \in 1..MaxUsize
BY ContainerAssumption DEF TypeInv, IsObject, FirstCap

\* The next element always finds a capacity: the first or the next doubling.
LEMMA NextCap ==
    ASSUME TypeInv, obj.len + 1 > obj.cap
    PROVE  /\ NewCap(obj.len + 1) = IF obj.cap = 0 THEN MinCap ELSE 2 * obj.cap
           /\ NewCap(obj.len + 1) # Endless
<1>1. PICK c \in Nat : c = obj.cap /\ c = obj.len /\ c <= MaxCap /\ obj.len + 1 \in Nat
  BY DEF TypeInv, IsObject
<1>2. CASE c = 0
  <2>1. FirstCap = MinCap /\ FirstCap \in 1..MaxUsize
    BY <1>1, <1>2, FirstCapFacts DEF FirstCap
  <2>2. obj.len + 1 <= FirstCap
    BY <1>1, <1>2, <2>1
  <2>3. NewCap(obj.len + 1) = MinCap
    BY <1>1, <2>1, <2>2, NewCapOnce
  <2>4. QED
    BY <1>1, <1>2, <2>1, <2>3 DEF Endless
<1>3. CASE c > 0
  <2>1. FirstCap = c /\ FirstCap \in 1..MaxUsize
    BY <1>1, <1>3, FirstCapFacts DEF FirstCap
  <2>2. FirstCap < obj.len + 1 /\ obj.len + 1 <= 2 * FirstCap /\ 2 * FirstCap <= MaxUsize
    BY <1>1, <1>3, <2>1, ContainerAssumption
  <2>3. NewCap(obj.len + 1) = 2 * FirstCap
    BY <1>1, <2>1, <2>2, NewCapOnce
  <2>4. QED
    BY <1>1, <1>3, <2>1, <2>3 DEF Endless
<1>4. QED
  BY <1>1, <1>2, <1>3

LEMMA NextDoesNotHang ==
    ASSUME TypeInv
    PROVE  obj.len + 1 \in Nat /\ ~Hangs(obj.len + 1)
BY NextCap DEF TypeInv, IsObject, Hangs

\* Unrolling into a new buffer, in fields.
LEMMA MovedFacts ==
    ASSUME TypeInv, NEW n \in Nat, obj.len <= n, NEW b, NEW p, p = Moved(b, n)
    PROVE  /\ IsObject(p) /\ Elements(p) = Elements(obj)
           /\ p.data = b /\ p.cap = n /\ p.len = obj.len /\ p.head = 0
<1>1. /\ HasFields(p) /\ p.data = b /\ p.cap = n /\ p.len = obj.len /\ p.head = 0
      /\ p.slots = [i \in 0..(n - 1) |-> IF i < obj.len THEN Element(obj, i) ELSE None]
  BY DEF TypeInv, IsObject, HasFields, Moved
<1>2. IsObject(obj)
  BY DEF TypeInv
<1>3. QED
  BY <1>1, <1>2, UnrolledFacts

\* What reserve leaves is what there was, in a buffer that is large enough or, when
\* it fails, in the old one; and the old buffer is freed, or stays lost when a vec
\* has no elements in it.
LEMMA RoomFacts ==
    ASSUME TypeInv, NEW want \in Nat, ~Hangs(want), NEW r \in Room(want)
    PROVE  /\ r.ok \in BOOLEAN /\ IsObject(r.obj) /\ r.obj.cap <= MaxCap
           /\ Owns(r.obj, r.heap) /\ r.heap \subseteq Buffers
           /\ r.obj.len = obj.len /\ Elements(r.obj) = Elements(obj)
           /\ kind = "vec" => r.obj.head = 0
           /\ r.ok => r.obj.cap >= want
           /\ r.heap \ {r.obj.data} # heap \ {obj.data} =>
                  kind = "vec" /\ obj.len = 0 /\ obj.cap > 0
<1>1. CASE r = [ok |-> FALSE, obj |-> obj, heap |-> heap]
  BY <1>1 DEF TypeInv
<1>2. CASE want <= obj.cap /\ r = [ok |-> TRUE, obj |-> obj, heap |-> heap]
  BY <1>2 DEF TypeInv, IsObject
<1>3. ASSUME NEW b \in Buffers, b \notin heap, want > obj.cap, NewCap(want) <= MaxCap,
             r = [ok |-> TRUE, obj |-> Moved(b, NewCap(want)),
                  heap |-> (heap \ Outgrown) \cup {b}]
      PROVE  /\ r.ok \in BOOLEAN /\ IsObject(r.obj) /\ r.obj.cap <= MaxCap
             /\ Owns(r.obj, r.heap) /\ r.heap \subseteq Buffers
             /\ r.obj.len = obj.len /\ Elements(r.obj) = Elements(obj)
             /\ kind = "vec" => r.obj.head = 0
             /\ r.ok => r.obj.cap >= want
             /\ r.heap \ {r.obj.data} # heap \ {obj.data} =>
                    kind = "vec" /\ obj.len = 0 /\ obj.cap > 0
  <2>1. NewCap(want) \in Nat /\ NewCap(want) >= want
    <3>1. FirstCap \in 1..MaxUsize
      BY FirstCapFacts
    <3>2. NewCap(want) # Endless
      BY <1>3 DEF Hangs
    <3>3. QED
      BY <3>1, <3>2, NewCapFacts
  <2>2. PICK n \in Nat : /\ n = NewCap(want) /\ n >= want /\ obj.len <= n /\ n > 0
                         /\ n <= MaxCap
    BY <1>3, <2>1 DEF TypeInv, IsObject
  <2>3. /\ r.ok = TRUE /\ r.obj = Moved(b, n) /\ r.heap = (heap \ Outgrown) \cup {b}
    BY <1>3, <2>2
  <2>4. /\ IsObject(r.obj) /\ Elements(r.obj) = Elements(obj)
        /\ r.obj.data = b /\ r.obj.cap = n /\ r.obj.len = obj.len /\ r.obj.head = 0
    BY <2>2, <2>3, MovedFacts
  <2>5. r.heap \subseteq Buffers /\ Owns(r.obj, r.heap)
    BY <2>2, <2>3, <2>4 DEF TypeInv, Owns
  <2>6. r.heap \ {r.obj.data} = heap \ Outgrown
    BY <1>3, <2>3, <2>4
  <2>7. ASSUME heap \ Outgrown # heap \ {obj.data}
        PROVE  kind = "vec" /\ obj.len = 0 /\ obj.cap > 0
    <3>1. kind = "vec" /\ obj.len = 0 /\ obj.data \in heap
      BY <2>7 DEF Outgrown
    <3>2. obj.cap # 0
      BY <3>1, ContainerAssumption DEF TypeInv, Owns
    <3>3. QED
      BY <3>1, <3>2 DEF TypeInv, IsObject
  <2>8. QED
    BY <2>2, <2>3, <2>4, <2>5, <2>6, <2>7
<1>4. \/ r = [ok |-> FALSE, obj |-> obj, heap |-> heap]
      \/ want <= obj.cap /\ r = [ok |-> TRUE, obj |-> obj, heap |-> heap]
      \/ /\ ~(want <= obj.cap) /\ NewCap(want) <= MaxCap
         /\ \E b \in Buffers \ heap :
               r = [ok |-> TRUE, obj |-> Moved(b, NewCap(want)),
                    heap |-> (heap \ Outgrown) \cup {b}]
  BY Zenon DEF Room
<1>5. ~(want <= obj.cap) => want > obj.cap
  BY DEF TypeInv, IsObject
<1>6. CASE /\ ~(want <= obj.cap) /\ NewCap(want) <= MaxCap
           /\ \E b \in Buffers \ heap :
                 r = [ok |-> TRUE, obj |-> Moved(b, NewCap(want)),
                      heap |-> (heap \ Outgrown) \cup {b}]
  <2>1. PICK b \in Buffers \ heap :
               r = [ok |-> TRUE, obj |-> Moved(b, NewCap(want)),
                    heap |-> (heap \ Outgrown) \cup {b}]
    BY <1>6
  <2>2. b \in Buffers /\ b \notin heap /\ want > obj.cap /\ NewCap(want) <= MaxCap
    BY <1>5, <1>6, <2>1
  <2>3. QED
    BY <1>3, <2>1, <2>2
<1>7. QED
  BY <1>1, <1>2, <1>4, <1>6
-------------------------------------------------------------------------------
(* The calls, one by one: each keeps the invariant, returns, loses little,  *)
(* and is the call of the same name on the sequence.                        *)

\* A call that leaves the buffer with the object leaves it with the heap.
LEMMA SameBufferStep ==
    ASSUME TypeInv, IsObject(obj'), SameBuffer(obj', obj), UNCHANGED <<kind, heap>>,
           kind = "vec" => obj'.head = 0
    PROVE  TypeInv' /\ LosesLittle
BY DEF TypeInv, SameBuffer, Owns, LosesLittle, Lost

\* A call that has made room, with what it then does to the object.
LEMMA RoomStep ==
    ASSUME TypeInv, NEW want \in Nat, ~Hangs(want), NEW r \in Room(want),
           IsObject(obj'), SameBuffer(obj', r.obj), heap' = r.heap, kind' = kind,
           kind = "vec" => obj'.head = 0
    PROVE  TypeInv' /\ LosesLittle
<1>1. /\ r.obj.cap <= MaxCap /\ Owns(r.obj, r.heap) /\ r.heap \subseteq Buffers
      /\ r.heap \ {r.obj.data} # heap \ {obj.data} =>
             kind = "vec" /\ obj.len = 0 /\ obj.cap > 0
  BY RoomFacts
<1>2. obj'.data = r.obj.data /\ obj'.cap = r.obj.cap
  BY DEF SameBuffer
<1>3. Owns(obj', heap') /\ obj'.cap <= MaxCap /\ heap' \subseteq Buffers
  BY <1>1, <1>2 DEF Owns
<1>4. TypeInv'
  BY <1>3 DEF TypeInv
<1>5. LosesLittle
  BY <1>1, <1>2 DEF LosesLittle, Lost
<1>6. QED
  BY <1>4, <1>5

LEMMA InitFacts == Init => TypeInv /\ answer # Never /\ S!Init
<1> SUFFICES ASSUME Init PROVE TypeInv /\ answer # Never /\ S!Init
  OBVIOUS
<1>1. obj = NoObject /\ heap = {} /\ answer = None
  BY DEF Init
<1>2. /\ IsObject(obj) /\ obj.data = None /\ obj.cap = 0 /\ obj.head = 0
      /\ Elements(obj) = <<>>
  BY <1>1, NoObjectFacts
<1>3. TypeInv
  BY <1>1, <1>2, ContainerAssumption DEF Init, TypeInv, Owns
<1>4. answer # Never
  BY <1>1, ContainerAssumption
<1>5. S!Init
  BY <1>2 DEF Init, S!Init
<1>6. QED
  BY <1>3, <1>4, <1>5

LEMMA PushStep ==
    ASSUME TypeInv, NEW v \in Values, Push(v)
    PROVE  TypeInv' /\ answer' # Never /\ LosesLittle /\ S!PutLast(v)
<1>1. PICK want \in Nat : want = obj.len + 1 /\ ~Hangs(want)
  BY NextDoesNotHang
<1>2. PICK r \in Room(want) :
          /\ call' = <<"push", v>> /\ answer' = r.ok /\ kind' = kind /\ heap' = r.heap
          /\ obj' = IF r.ok THEN Pushed(r.obj, v) ELSE r.obj
  BY <1>1 DEF Push, Returns
<1>3. /\ r.ok \in BOOLEAN /\ IsObject(r.obj)
      /\ r.obj.len = obj.len /\ Elements(r.obj) = Elements(obj)
      /\ kind = "vec" => r.obj.head = 0
      /\ r.ok => r.obj.cap >= want
  BY <1>1, RoomFacts
<1>4. answer' # Never
  BY <1>2, <1>3, ContainerAssumption
<1>5. CASE r.ok
  <2>1. r.obj.len < r.obj.cap /\ obj' = Pushed(r.obj, v)
    BY <1>1, <1>2, <1>3, <1>5 DEF IsObject
  <2>2. /\ IsObject(obj') /\ SameBuffer(obj', r.obj)
        /\ obj'.head = r.obj.head
        /\ Elements(obj') = Append(Elements(r.obj), v)
    BY <1>3, <2>1, PushedFacts
  <2>3. TypeInv' /\ LosesLittle
    BY <1>1, <1>2, <1>3, <2>2, RoomStep
  <2>4. S!PutLast(v)
    BY <1>2, <1>3, <1>5, <2>2 DEF S!PutLast, S!Grows, S!Returns
  <2>5. QED
    BY <1>4, <2>3, <2>4
<1>6. CASE ~r.ok
  <2>1. obj' = r.obj /\ SameBuffer(obj', r.obj) /\ answer' = FALSE
    BY <1>2, <1>3, <1>6 DEF SameBuffer
  <2>2. TypeInv' /\ LosesLittle
    BY <1>1, <1>2, <1>3, <2>1, RoomStep
  <2>3. S!PutLast(v)
    BY <1>2, <1>3, <2>1 DEF S!PutLast, S!Grows, S!Returns
  <2>4. QED
    BY <1>4, <2>2, <2>3
<1>7. QED
  BY <1>3, <1>5, <1>6

LEMMA PushFrontStep ==
    ASSUME TypeInv, NEW v \in Values, PushFront(v)
    PROVE  TypeInv' /\ answer' # Never /\ LosesLittle /\ S!PutFirst(v)
<1>1. PICK want \in Nat : want = obj.len + 1 /\ ~Hangs(want)
  BY NextDoesNotHang
<1>2. PICK r \in Room(want) :
          /\ call' = <<"push_front", v>> /\ answer' = r.ok /\ kind' = kind
          /\ heap' = r.heap /\ kind = "deque"
          /\ obj' = IF r.ok THEN PushedFront(r.obj, v) ELSE r.obj
  BY <1>1 DEF PushFront, Returns
<1>3. /\ r.ok \in BOOLEAN /\ IsObject(r.obj)
      /\ r.obj.len = obj.len /\ Elements(r.obj) = Elements(obj)
      /\ r.ok => r.obj.cap >= want
  BY <1>1, RoomFacts
<1>4. answer' # Never /\ ~(kind = "vec")
  BY <1>2, <1>3, ContainerAssumption
<1>5. CASE r.ok
  <2>1. r.obj.len < r.obj.cap /\ obj' = PushedFront(r.obj, v)
    BY <1>1, <1>2, <1>3, <1>5 DEF IsObject
  <2>2. /\ IsObject(obj') /\ SameBuffer(obj', r.obj)
        /\ Elements(obj') = <<v>> \o Elements(r.obj)
    BY <1>3, <2>1, PushedFrontFacts
  <2>3. TypeInv' /\ LosesLittle
    BY <1>1, <1>2, <1>4, <2>2, RoomStep
  <2>4. S!PutFirst(v)
    BY <1>2, <1>3, <1>5, <2>2 DEF S!PutFirst, S!Grows, S!Returns
  <2>5. QED
    BY <1>4, <2>3, <2>4
<1>6. CASE ~r.ok
  <2>1. obj' = r.obj /\ SameBuffer(obj', r.obj) /\ answer' = FALSE
    BY <1>2, <1>3, <1>6 DEF SameBuffer
  <2>2. TypeInv' /\ LosesLittle
    BY <1>1, <1>2, <1>3, <1>4, <2>1, RoomStep
  <2>3. S!PutFirst(v)
    BY <1>2, <1>3, <2>1 DEF S!PutFirst, S!Grows, S!Returns
  <2>4. QED
    BY <1>4, <2>2, <2>3
<1>7. QED
  BY <1>3, <1>5, <1>6

LEMMA PopStep ==
    ASSUME TypeInv, NEW out \in BOOLEAN, Pop(out)
    PROVE  TypeInv' /\ answer' # Never /\ LosesLittle /\ S!TakeLast(out)
<1>1. IsObject(obj) /\ obj.len \in Nat /\ (kind = "vec" => obj.head = 0)
  BY DEF TypeInv, IsObject
<1>2. /\ UNCHANGED <<kind, heap>> /\ call' = <<"pop", out>>
  BY DEF Pop, Returns
<1>3. CASE obj.len = 0
  <2>1. obj' = obj /\ answer' = FALSE
    BY <1>3 DEF Pop, Returns
  <2>2. TypeInv' /\ LosesLittle
    BY <1>1, <1>2, <2>1, SameBufferStep DEF SameBuffer
  <2>3. Elements(obj) = <<>>
    BY <1>1, <1>3, NoElements
  <2>4. S!TakeLast(out)
    BY <1>2, <2>1, <2>3 DEF S!TakeLast, S!Returns
  <2>5. QED
    BY <2>1, <2>2, <2>4, ContainerAssumption
<1>4. CASE obj.len > 0
  <2>1. /\ obj' = [obj EXCEPT !.len = @ - 1]
        /\ answer' = IF out THEN Element(obj, obj.len - 1) ELSE TRUE
    <3>1. ~(obj.len = 0)
      BY <1>4
    <3>2. QED
      BY <3>1 DEF Pop, Returns
  <2>2. /\ IsObject(obj') /\ SameBuffer(obj', obj)
        /\ obj'.head = obj.head
        /\ Elements(obj) # <<>>
        /\ Elements(obj') = Front(Elements(obj))
        /\ Element(obj, obj.len - 1) = Last(Elements(obj))
    BY <1>1, <1>4, <2>1, PoppedFacts
  <2>3. TypeInv' /\ LosesLittle
    BY <1>1, <1>2, <2>2, SameBufferStep
  <2>4. Last(Elements(obj)) \in Values \cup {None}
    <3>1. Elements(obj) \in Contents
      BY <1>1, ElementsFacts
    <3>2. Len(Elements(obj)) \in 1..Len(Elements(obj))
      BY <2>2, <3>1, EmptySeq DEF Contents
    <3>3. QED
      BY <3>1, <3>2, ElementOfSeq DEF Contents, Last
  <2>5. answer' # Never
    BY <2>1, <2>2, <2>4, ContainerAssumption
  <2>6. /\ S!Front(Elements(obj)) = Front(Elements(obj))
        /\ S!Last(Elements(obj)) = Last(Elements(obj))
    BY DEF Front, Last, S!Front, S!Last
  <2>7. S!TakeLast(out)
    BY <1>2, <2>1, <2>2, <2>6 DEF S!TakeLast, S!Returns
  <2>8. QED
    BY <2>3, <2>5, <2>7
<1>5. QED
  BY <1>1, <1>3, <1>4

LEMMA PopFrontStep ==
    ASSUME TypeInv, NEW out \in BOOLEAN, PopFront(out)
    PROVE  TypeInv' /\ answer' # Never /\ LosesLittle /\ S!TakeFirst(out)
<1>1. IsObject(obj) /\ obj.len \in Nat /\ ~(kind = "vec")
  BY DEF TypeInv, IsObject, PopFront
<1>2. /\ UNCHANGED <<kind, heap>> /\ call' = <<"pop_front", out>>
  BY DEF PopFront, Returns
<1>3. CASE obj.len = 0
  <2>1. obj' = obj /\ answer' = FALSE
    BY <1>3 DEF PopFront, Returns
  <2>2. TypeInv' /\ LosesLittle
    BY <1>1, <1>2, <2>1, SameBufferStep DEF SameBuffer
  <2>3. Elements(obj) = <<>>
    BY <1>1, <1>3, NoElements
  <2>4. S!TakeFirst(out)
    BY <1>2, <2>1, <2>3 DEF S!TakeFirst, S!Returns
  <2>5. QED
    BY <2>1, <2>2, <2>4, ContainerAssumption
<1>4. CASE obj.len > 0
  <2>1. /\ obj' = [obj EXCEPT !.head = (@ + 1) % obj.cap, !.len = @ - 1]
        /\ answer' = IF out THEN Element(obj, 0) ELSE TRUE
    <3>1. ~(obj.len = 0)
      BY <1>4
    <3>2. QED
      BY <3>1 DEF PopFront, Returns
  <2>2. /\ IsObject(obj') /\ SameBuffer(obj', obj)
        /\ Elements(obj) # <<>>
        /\ Elements(obj') = Tail(Elements(obj))
        /\ Element(obj, 0) = Head(Elements(obj))
    BY <1>1, <1>4, <2>1, PoppedFrontFacts
  <2>3. TypeInv' /\ LosesLittle
    BY <1>1, <1>2, <2>2, SameBufferStep
  <2>4. Head(Elements(obj)) \in Values \cup {None}
    BY <1>1, <2>2, ElementsFacts, HeadTailProperties DEF Contents
  <2>5. answer' # Never
    BY <2>1, <2>2, <2>4, ContainerAssumption
  <2>6. S!TakeFirst(out)
    BY <1>2, <2>1, <2>2 DEF S!TakeFirst, S!Returns
  <2>7. QED
    BY <2>3, <2>5, <2>6
<1>5. QED
  BY <1>1, <1>3, <1>4
\* The indices of the sequence are those of the object.
LEMMA IndicesFacts ==
    ASSUME TypeInv
    PROVE  /\ Len(Elements(obj)) = obj.len /\ obj.len \in Nat
           /\ S!Indices = 0..(obj.len - 1)
           /\ \A i \in Nat : i \in S!Indices <=> i < obj.len
<1>1. IsObject(obj) /\ obj.len \in Nat
  BY DEF TypeInv, IsObject
<1>2. Len(Elements(obj)) = obj.len
  BY <1>1, ElementsFacts
<1>3. S!Indices = 0..(obj.len - 1)
  BY <1>2 DEF S!Indices
<1>4. QED
  BY <1>1, <1>2, <1>3

LEMMA SetStep ==
    ASSUME TypeInv, NEW i \in Positions, NEW v \in Values, Set(i, v)
    PROVE  TypeInv' /\ answer' # Never /\ LosesLittle /\ S!Replace(i, v)
<1>1. IsObject(obj) /\ i \in Nat /\ i < obj.len /\ (kind = "vec" => obj.head = 0)
  BY ContainerAssumption DEF TypeInv, Set
<1>2. /\ UNCHANGED <<kind, heap>> /\ call' = <<"set", i, v>> /\ answer' = None
      /\ obj' = [obj EXCEPT !.slots[At(obj, i)] = v]
  BY DEF Set, Returns
<1>3. /\ IsObject(obj') /\ SameBuffer(obj', obj) /\ obj'.head = obj.head
      /\ Elements(obj') = [Elements(obj) EXCEPT ![i + 1] = v]
  BY <1>1, <1>2, StoredFacts
<1>4. TypeInv' /\ LosesLittle
  BY <1>1, <1>2, <1>3, SameBufferStep
<1>5. i \in S!Indices
  BY <1>1, IndicesFacts
<1>6. S!Replace(i, v)
  BY <1>2, <1>3, <1>5 DEF S!Replace, S!Returns
<1>7. QED
  BY <1>2, <1>4, <1>6, ContainerAssumption

LEMMA InsertStep ==
    ASSUME TypeInv, NEW i \in Positions, NEW v \in Values, Insert(i, v)
    PROVE  TypeInv' /\ answer' # Never /\ LosesLittle /\ S!PutAt(i, v)
<1>1. IsObject(obj) /\ i \in Nat /\ kind = "vec" /\ obj.head = 0 /\ obj.len \in Nat
  BY ContainerAssumption DEF TypeInv, IsObject, Insert
<1>2. CASE i > obj.len
  <2>1. /\ obj' = obj /\ UNCHANGED <<kind, heap>>
        /\ call' = <<"insert", i, v>> /\ answer' = FALSE
    BY <1>2 DEF Insert, Returns
  <2>2. TypeInv' /\ LosesLittle
    BY <1>1, <2>1, SameBufferStep DEF SameBuffer
  <2>3. i > Len(Elements(obj))
    BY <1>2, IndicesFacts
  <2>4. S!PutAt(i, v)
    BY <2>1, <2>3 DEF S!PutAt, S!Returns
  <2>5. QED
    BY <2>1, <2>2, <2>4, ContainerAssumption
<1>3. CASE ~(i > obj.len)
  <2>1. PICK want \in Nat : want = obj.len + 1 /\ ~Hangs(want)
    BY NextDoesNotHang
  <2>2. PICK r \in Room(want) :
            /\ call' = <<"insert", i, v>> /\ answer' = r.ok /\ kind' = kind
            /\ heap' = r.heap
            /\ obj' = IF r.ok THEN Inserted(r.obj, i, v) ELSE r.obj
    BY <1>3, <2>1 DEF Insert, Returns
  <2>3. /\ r.ok \in BOOLEAN /\ IsObject(r.obj)
        /\ r.obj.len = obj.len /\ Elements(r.obj) = Elements(obj)
        /\ r.obj.head = 0
        /\ r.ok => r.obj.cap >= want
    BY <1>1, <2>1, RoomFacts
  <2>4. answer' # Never
    BY <2>2, <2>3, ContainerAssumption
  <2>5. ~(i > Len(Elements(obj)))
    BY <1>3, IndicesFacts
  <2>6. CASE r.ok
    <3>1. /\ r.obj.len < r.obj.cap /\ obj' = Inserted(r.obj, i, v)
          /\ i <= r.obj.len
      BY <1>1, <1>3, <2>1, <2>2, <2>3, <2>6 DEF IsObject
    <3>2. /\ IsObject(obj') /\ SameBuffer(obj', r.obj) /\ obj'.head = 0
          /\ Elements(obj') = InsertAt(Elements(r.obj), i + 1, v)
      BY <1>1, <2>3, <3>1, InsertedFacts
    <3>3. TypeInv' /\ LosesLittle
      BY <2>1, <2>2, <3>2, RoomStep
    <3>4. S!InsertAt(Elements(obj), i + 1, v) = InsertAt(Elements(obj), i + 1, v)
      BY DEF InsertAt, S!InsertAt
    <3>5. Elements(obj)' = S!InsertAt(Elements(obj), i + 1, v) /\ answer' = TRUE
      BY <2>2, <2>3, <2>6, <3>2, <3>4
    <3>6. S!PutAt(i, v)
      BY <2>2, <2>5, <3>5 DEF S!PutAt, S!Grows, S!Returns
    <3>7. QED
      BY <2>4, <3>3, <3>6
  <2>7. CASE ~r.ok
    <3>1. obj' = r.obj /\ SameBuffer(obj', r.obj) /\ answer' = FALSE
      BY <2>2, <2>3, <2>7 DEF SameBuffer
    <3>2. TypeInv' /\ LosesLittle
      BY <2>1, <2>2, <2>3, <3>1, RoomStep
    <3>3. S!PutAt(i, v)
      BY <2>2, <2>3, <2>5, <3>1 DEF S!PutAt, S!Grows, S!Returns
    <3>4. QED
      BY <2>4, <3>2, <3>3
  <2>8. QED
    BY <2>3, <2>6, <2>7
<1>4. QED
  BY <1>2, <1>3

LEMMA RemoveStep ==
    ASSUME TypeInv, NEW i \in Positions, RemoveFrom(i)
    PROVE  TypeInv' /\ answer' # Never /\ LosesLittle /\ S!Drop(i)
<1>1. IsObject(obj) /\ i \in Nat /\ kind = "vec" /\ obj.head = 0 /\ obj.len \in Nat
  BY ContainerAssumption DEF TypeInv, IsObject, RemoveFrom
<1>2. UNCHANGED <<kind, heap>> /\ call' = <<"remove", i>>
  BY DEF RemoveFrom, Returns
<1>3. CASE i >= obj.len
  <2>1. obj' = obj /\ answer' = FALSE
    BY <1>3 DEF RemoveFrom, Returns
  <2>2. TypeInv' /\ LosesLittle
    BY <1>1, <1>2, <2>1, SameBufferStep DEF SameBuffer
  <2>3. i \notin S!Indices
    BY <1>1, <1>3, IndicesFacts
  <2>4. S!Drop(i)
    BY <1>2, <2>1, <2>3 DEF S!Drop, S!Returns
  <2>5. QED
    BY <2>1, <2>2, <2>4, ContainerAssumption
<1>4. CASE i < obj.len
  <2>1. ~(i >= obj.len)
    BY <1>1, <1>4
  <2>2. obj' = Removed(obj, i) /\ answer' = TRUE
    BY <2>1 DEF RemoveFrom, Returns
  <2>3. /\ IsObject(obj') /\ SameBuffer(obj', obj) /\ obj'.head = 0
        /\ Elements(obj') = RemoveAt(Elements(obj), i + 1)
    BY <1>1, <1>4, <2>2, RemovedFacts
  <2>4. TypeInv' /\ LosesLittle
    BY <1>2, <2>3, SameBufferStep
  <2>5. i \in S!Indices
    BY <1>1, <1>4, IndicesFacts
  <2>6. S!RemoveAt(Elements(obj), i + 1) = RemoveAt(Elements(obj), i + 1)
    BY DEF RemoveAt, S!RemoveAt
  <2>7. S!Drop(i)
    BY <1>2, <2>2, <2>3, <2>5, <2>6 DEF S!Drop, S!Returns
  <2>8. QED
    BY <2>2, <2>4, <2>7, ContainerAssumption
<1>5. QED
  BY <1>1, <1>3, <1>4

LEMMA SwapStep ==
    ASSUME TypeInv, NEW i \in Positions, NEW j \in Positions, Swap(i, j)
    PROVE  TypeInv' /\ answer' # Never /\ LosesLittle /\ S!Exchange(i, j)
<1>1. /\ IsObject(obj) /\ i \in Nat /\ j \in Nat /\ kind = "vec" /\ obj.head = 0
      /\ obj.len \in Nat
  BY ContainerAssumption DEF TypeInv, IsObject, Swap
<1>2. /\ UNCHANGED <<kind, heap>> /\ call' = <<"swap", i, j>> /\ answer' = None
      /\ obj' = IF i = j \/ i >= obj.len \/ j >= obj.len THEN obj
                ELSE Swapped(obj, i, j)
  BY DEF Swap, Returns
<1>3. answer' # Never
  BY <1>2, ContainerAssumption
<1>4. i \in S!Indices <=> ~(i >= obj.len)
  BY <1>1, IndicesFacts
<1>5. j \in S!Indices <=> ~(j >= obj.len)
  BY <1>1, IndicesFacts
<1>6. CASE i >= obj.len \/ j >= obj.len
  <2>1. obj' = obj
    BY <1>2, <1>6
  <2>2. TypeInv' /\ LosesLittle
    BY <1>1, <1>2, <2>1, SameBufferStep DEF SameBuffer
  <2>3. ~({i, j} \subseteq S!Indices)
    BY <1>4, <1>5, <1>6
  <2>4. S!Exchange(i, j)
    BY <1>2, <2>1, <2>3 DEF S!Exchange, S!Returns
  <2>5. QED
    BY <1>3, <2>2, <2>4
<1>7. CASE ~(i >= obj.len) /\ ~(j >= obj.len)
  <2>1. {i, j} \subseteq S!Indices /\ i < obj.len /\ j < obj.len
    BY <1>1, <1>4, <1>5, <1>7
  <2>2. CASE i = j
    <3>1. obj' = obj
      BY <1>2, <2>2
    <3>2. TypeInv' /\ LosesLittle
      BY <1>1, <1>2, <3>1, SameBufferStep DEF SameBuffer
    <3>3. Elements(obj) = [Elements(obj) EXCEPT ![i + 1] = Elements(obj)[j + 1],
                                                ![j + 1] = Elements(obj)[i + 1]]
      <4>1. PICK s \in [1..obj.len -> Values \cup {None}] : s = Elements(obj)
        BY <1>1, ElementsFacts, LenProperties DEF Contents
      <4>2. s = [s EXCEPT ![i + 1] = s[i + 1], ![i + 1] = s[i + 1]]
        OBVIOUS
      <4>3. QED
        BY <2>2, <4>1, <4>2
    <3>4. S!Exchange(i, j)
      BY <1>2, <2>1, <3>1, <3>3 DEF S!Exchange, S!Returns
    <3>5. QED
      BY <1>3, <3>2, <3>4
  <2>3. CASE i # j
    <3>1. obj' = Swapped(obj, i, j)
      BY <1>2, <1>7, <2>3
    <3>2. /\ IsObject(obj') /\ SameBuffer(obj', obj) /\ obj'.head = 0
          /\ Elements(obj') = [Elements(obj) EXCEPT ![i + 1] = Elements(obj)[j + 1],
                                                    ![j + 1] = Elements(obj)[i + 1]]
      BY <1>1, <2>1, <2>3, <3>1, SwappedFacts
    <3>3. TypeInv' /\ LosesLittle
      BY <1>2, <3>2, SameBufferStep
    <3>4. S!Exchange(i, j)
      BY <1>2, <2>1, <3>2 DEF S!Exchange, S!Returns
    <3>5. QED
      BY <1>3, <3>3, <3>4
  <2>4. QED
    BY <2>2, <2>3
<1>8. QED
  BY <1>6, <1>7
LEMMA ReserveStep ==
    ASSUME TypeInv, NEW n \in Sizes, Reserve(n)
    PROVE  /\ TypeInv' /\ LosesLittle
           /\ answer' = Never => /\ kind = "deque" /\ call' = <<"reserve", n>>
                                 /\ n > MaxUsize \div 2
           /\ answer' = Never \/ S!Reserve(n)
<1>1. n \in Nat /\ MaxUsize \in Nat /\ FirstCap \in 1..MaxUsize
  BY ContainerAssumption, FirstCapFacts
<1>2. IsObject(obj) /\ (kind = "vec" => obj.head = 0)
  BY DEF TypeInv
<1>3. CASE Hangs(n)
  <2>1. /\ UNCHANGED <<kind, heap, obj>> /\ call' = <<"reserve", n>> /\ answer' = Never
    BY <1>3 DEF Reserve, Returns
  <2>2. TypeInv' /\ LosesLittle
    BY <1>2, <2>1, SameBufferStep DEF SameBuffer
  <2>3. NewCap(n) = 0 /\ n > obj.cap
    BY <1>3 DEF Hangs, Endless
  <2>4. n > 0
    BY <1>1, <1>2, <2>3 DEF IsObject
  <2>5. ~(kind = "vec") /\ ~(n <= MaxUsize \div 2)
    BY <1>1, <2>3, <2>4, NewCapFacts
  <2>6. kind = "deque" /\ n > MaxUsize \div 2
    BY <1>1, <2>5 DEF TypeInv
  <2>7. QED
    BY <2>1, <2>2, <2>6
<1>4. CASE ~Hangs(n)
  <2>1. PICK r \in Room(n) :
            /\ call' = <<"reserve", n>> /\ answer' = r.ok /\ kind' = kind
            /\ heap' = r.heap /\ obj' = r.obj
    BY <1>4 DEF Reserve, Returns
  <2>2. /\ r.ok \in BOOLEAN /\ IsObject(r.obj) /\ Elements(r.obj) = Elements(obj)
        /\ kind = "vec" => r.obj.head = 0
    BY <1>1, <1>4, RoomFacts
  <2>3. SameBuffer(obj', r.obj)
    BY <2>1 DEF SameBuffer
  <2>4. TypeInv' /\ LosesLittle
    BY <1>1, <1>4, <2>1, <2>2, <2>3, RoomStep
  <2>5. answer' # Never
    BY <2>1, <2>2, ContainerAssumption
  <2>6. Elements(obj)' = Elements(obj)
    BY <2>1, <2>2
  <2>7. S!Reserve(n)
    BY <2>1, <2>2, <2>6 DEF S!Reserve, S!Grows, S!Returns
  <2>8. QED
    BY <2>4, <2>5, <2>7
<1>5. QED
  BY <1>3, <1>4

LEMMA ClearStep ==
    ASSUME TypeInv, Clear
    PROVE  TypeInv' /\ answer' # Never /\ LosesLittle /\ S!Empty("clear")
<1>1. /\ UNCHANGED <<kind, heap>> /\ call' = <<"clear">> /\ answer' = None
      /\ obj' = [obj EXCEPT !.len = 0, !.head = 0]
  BY DEF Clear, Returns
<1>2. /\ IsObject(obj') /\ SameBuffer(obj', obj) /\ obj'.head = 0
      /\ Elements(obj') = <<>>
  BY <1>1, ClearedFacts DEF TypeInv
<1>3. TypeInv' /\ LosesLittle
  BY <1>1, <1>2, SameBufferStep
<1>4. S!Empty("clear")
  BY <1>1, <1>2 DEF S!Empty, S!Returns
<1>5. QED
  BY <1>1, <1>3, <1>4, ContainerAssumption

LEMMA DestroyStep ==
    ASSUME TypeInv, Destroy
    PROVE  TypeInv' /\ answer' # Never /\ LosesLittle /\ S!Empty("destroy")
<1>1. /\ kind' = kind /\ call' = <<"destroy">> /\ answer' = None
      /\ obj' = NoObject /\ heap' = heap \ {obj.data}
  BY DEF Destroy, Returns
<1>2. /\ IsObject(obj') /\ obj'.data = None /\ obj'.cap = 0 /\ obj'.head = 0
      /\ Elements(obj') = <<>>
  BY <1>1, NoObjectFacts
<1>3. TypeInv'
  BY <1>1, <1>2, ContainerAssumption DEF TypeInv, Owns
<1>4. LosesLittle
  BY <1>1, <1>2, ContainerAssumption DEF LosesLittle, Lost, TypeInv
<1>5. S!Empty("destroy")
  BY <1>1, <1>2 DEF S!Empty, S!Returns
<1>6. QED
  BY <1>1, <1>3, <1>4, <1>5, ContainerAssumption

-------------------------------------------------------------------------------
(* The theorems.                                                            *)

\* All that a step is.
LEMMA StepFacts ==
    ASSUME TypeInv, Next
    PROVE  /\ TypeInv' /\ LosesLittle
           /\ answer' = Never => /\ kind' = "deque" /\ call'[1] = "reserve"
                                 /\ call'[2] > MaxUsize \div 2
           /\ answer' = Never \/ S!Next
<1>1. CASE \E v \in Values : Push(v) \/ PushFront(v)
  <2>1. PICK v \in Values : Push(v) \/ PushFront(v)
    BY <1>1
  <2>2. TypeInv' /\ answer' # Never /\ LosesLittle /\ (S!PutLast(v) \/ S!PutFirst(v))
    BY <2>1, PushStep, PushFrontStep
  <2>3. QED
    BY <2>2 DEF S!Next
<1>2. CASE \E out \in BOOLEAN : Pop(out) \/ PopFront(out)
  <2>1. PICK out \in BOOLEAN : Pop(out) \/ PopFront(out)
    BY <1>2
  <2>2. TypeInv' /\ answer' # Never /\ LosesLittle /\ (S!TakeLast(out) \/ S!TakeFirst(out))
    BY <2>1, PopStep, PopFrontStep
  <2>3. QED
    BY <2>2 DEF S!Next
<1>3. CASE \E i \in Positions, v \in Values : Set(i, v) \/ Insert(i, v)
  <2>1. PICK i \in Positions, v \in Values : Set(i, v) \/ Insert(i, v)
    BY <1>3
  <2>2. TypeInv' /\ answer' # Never /\ LosesLittle /\ (S!PutAt(i, v) \/ S!Replace(i, v))
    BY <2>1, SetStep, InsertStep
  <2>3. QED
    BY <2>2 DEF S!Next
<1>4. CASE \E i \in Positions : RemoveFrom(i) \/ \E j \in Positions : Swap(i, j)
  <2>1. PICK i \in Positions : RemoveFrom(i) \/ \E j \in Positions : Swap(i, j)
    BY <1>4
  <2>2. /\ TypeInv' /\ answer' # Never /\ LosesLittle
        /\ S!Drop(i) \/ \E j \in Positions : S!Exchange(i, j)
    BY <2>1, RemoveStep, SwapStep
  <2>3. QED
    BY <2>2 DEF S!Next
<1>5. CASE \E n \in Sizes : Reserve(n)
  <2>1. PICK n \in Sizes : Reserve(n)
    BY <1>5
  <2>2. /\ TypeInv' /\ LosesLittle
        /\ answer' = Never => /\ kind = "deque" /\ call' = <<"reserve", n>>
                              /\ n > MaxUsize \div 2
        /\ answer' = Never \/ S!Reserve(n)
    BY <2>1, ReserveStep
  <2>3. kind' = kind
    BY <2>1 DEF Reserve, Returns
  <2>4. QED
    BY <2>2, <2>3 DEF S!Next
<1>6. CASE Clear \/ Destroy
  <2>1. /\ TypeInv' /\ answer' # Never /\ LosesLittle
        /\ S!Empty("clear") \/ S!Empty("destroy")
    BY <1>6, ClearStep, DestroyStep
  <2>2. QED
    BY <2>1 DEF S!Next
<1>7. QED
  BY <1>1, <1>2, <1>3, <1>4, <1>5, <1>6 DEF Next

LEMMA TypeStep == TypeInv /\ [Next]_vars => TypeInv'
<1>1. TypeInv /\ Next => TypeInv'
  BY StepFacts
<1>2. TypeInv /\ UNCHANGED vars => TypeInv'
  BY DEF vars, TypeInv
<1>3. QED
  BY <1>1, <1>2

\* The structure is always whole: the length within the capacity, the slots of
\* that capacity, head inside them, and a buffer that is the object's own exactly
\* when there is capacity - through every growth, wrap-around, failed allocation
\* and destroy, whatever the capacities and the width of usize.
THEOREM TypeCorrect == Spec => []TypeOK
BY InitFacts, TypeStep, TypeInvImpliesTypeOK, PTL DEF Spec

\* A call returns, except a Deque::reserve of more than half the range of usize:
\* push, insert and any other reserve find a capacity before usize overflows.
THEOREM CallsReturn == Spec => []OnlyHugeDequesHang
<1>1. Init => OnlyHugeDequesHang
  BY InitFacts DEF OnlyHugeDequesHang
<1>2. TypeInv /\ OnlyHugeDequesHang /\ [Next]_vars => OnlyHugeDequesHang'
  <2>1. TypeInv /\ Next => OnlyHugeDequesHang'
    BY StepFacts DEF OnlyHugeDequesHang
  <2>2. OnlyHugeDequesHang /\ UNCHANGED vars => OnlyHugeDequesHang'
    BY DEF vars, OnlyHugeDequesHang
  <2>3. QED
    BY <2>1, <2>2
<1>3. QED
  BY <1>1, <1>2, InitFacts, TypeStep, PTL DEF Spec

\* A buffer is lost only when a vec without elements grows.
THEOREM NothingElseLeaks == Spec => OnlyEmptiedVecLeaks
<1>1. TypeInv /\ [Next]_vars =>
          [Lost' # Lost => kind = "vec" /\ obj.len = 0 /\ obj.cap > 0]_vars
  BY StepFacts DEF LosesLittle
<1>2. QED
  BY <1>1, InitFacts, TypeStep, PTL DEF Spec, OnlyEmptiedVecLeaks

\* Vec and Deque implement the growable sequence: every call of theirs is the call
\* on the sequence of the same name, with the same answer, or one that never
\* returns.
THEOREM Refinement == Spec => ImplementsSequence
<1>1. Init => S!Init
  BY InitFacts
<1>2. TypeInv /\ [Next]_vars =>
          [answer' = Never \/ S!Next]_<<Elements(obj), call, answer>>
  <2>1. TypeInv /\ Next => answer' = Never \/ S!Next
    BY StepFacts
  <2>2. UNCHANGED vars => UNCHANGED <<Elements(obj), call, answer>>
    BY DEF vars
  <2>3. QED
    BY <2>1, <2>2
<1>3. QED
  BY <1>1, <1>2, InitFacts, TypeStep, PTL DEF Spec, ImplementsSequence
-------------------------------------------------------------------------------
(* The evaluator of constexpr functions.                                    *)

\* What a step may differ in from the same call at compile time: see
\* CompileTimeAgrees.
Agrees(c) ==
    \/ answer' = Never \/ c.fails \/ (answer' = FALSE /\ c.answer = TRUE)
    \/ c.answer = answer' /\ SameObject(c.obj, obj')

\* Every call has a result of its own.
LEMMA CtResults ==
    ASSUME NEW i, NEW j
    PROVE  /\ CtResult(<<"push", i>>) = Gives(Pushed(CtGrown, i), TRUE)
           /\ CtResult(<<"push_front", i>>) = Gives(PushedFront(CtGrown, i), TRUE)
           /\ CtResult(<<"pop", i>>) = CtPop(i)
           /\ CtResult(<<"pop_front", i>>) = CtPopFront(i)
           /\ CtResult(<<"set", i, j>>) = CtSet(i, j)
           /\ CtResult(<<"insert", i, j>>) = CtInsert(i, j)
           /\ CtResult(<<"remove", i>>) = CtRemove(i)
           /\ CtResult(<<"swap", i, j>>) = CtSwap(i, j)
           /\ CtResult(<<"reserve", i>>) = CtReserve(i)
           /\ CtResult(<<"clear">>) = Gives([obj EXCEPT !.len = 0, !.head = 0], None)
           /\ CtResult(<<"destroy">>) = Gives(NoObject, None)
BY DEF CtResult

\* The evaluator's object with n slots is the program's, but for the buffer.
LEMMA ResizedFacts ==
    ASSUME TypeInv, NEW n \in Nat, obj.len <= n, NEW b,
           NEW p, p = CtResized(n), NEW q, q = Moved(b, n)
    PROVE  IsObject(p) /\ SameObject(p, q) /\ p.cap = n /\ p.len = obj.len /\ p.head = 0
<1>1. /\ HasFields(p) /\ p.cap = n /\ p.len = obj.len /\ p.head = 0
      /\ p.slots = [i \in 0..(n - 1) |-> IF i < obj.len THEN Element(obj, i) ELSE None]
  BY DEF TypeInv, IsObject, HasFields, CtResized
<1>2. IsObject(obj)
  BY DEF TypeInv
<1>3. IsObject(p) /\ Elements(p) = Elements(obj)
  BY <1>1, <1>2, UnrolledFacts
<1>4. Elements(q) = Elements(obj) /\ q.cap = n /\ q.len = obj.len /\ q.head = 0
  BY MovedFacts
<1>5. QED
  BY <1>1, <1>3, <1>4 DEF SameObject

\* When the program finds room for an element, the evaluator makes the same room.
LEMMA GrownFacts ==
    ASSUME TypeInv, NEW want \in Nat, want = obj.len + 1,
           NEW r \in Room(want), r.ok, NEW g, g = CtGrown
    PROVE  /\ IsObject(g) /\ SameObject(g, r.obj) /\ g.len = obj.len
           /\ g.len < g.cap /\ (kind = "vec" => g.head = 0)
<1>1. PICK c \in Nat, l \in Nat : c = obj.cap /\ l = obj.len /\ l <= c /\ want = l + 1
  BY DEF TypeInv, IsObject
<1>2. CASE want <= c
  <2>1. r.obj = obj
    <3>1. want <= obj.cap
      BY <1>1, <1>2
    <3>2. r = [ok |-> TRUE, obj |-> obj, heap |-> heap]
      BY <3>1, Zenon DEF Room
    <3>3. QED
      BY <3>2
  <2>2. c # 0 /\ ~(l + 1 > c)
    BY <1>1, <1>2
  <2>3. g = obj
    BY <1>1, <2>2 DEF CtGrown
  <2>4. QED
    BY <1>1, <1>2, <2>1, <2>3 DEF TypeInv, SameObject
<1>3. CASE ~(want <= c)
  <2>1. r = [ok |-> FALSE, obj |-> obj, heap |-> heap]
        \/ \E b \in Buffers \ heap :
               r = [ok |-> TRUE, obj |-> Moved(b, NewCap(want)),
                    heap |-> (heap \ Outgrown) \cup {b}]
    BY <1>1, <1>3, Zenon DEF Room
  <2>2. PICK b : r.obj = Moved(b, NewCap(want))
    BY <2>1
  <2>3. l + 1 > c /\ obj.len + 1 > obj.cap
    BY <1>1, <1>3
  <2>4. PICK n \in Nat : /\ n = NewCap(want) /\ n = (IF c = 0 THEN MinCap ELSE 2 * c)
                         /\ want <= n
    <3>1. NewCap(want) = IF c = 0 THEN MinCap ELSE 2 * c
      BY <1>1, <2>3, NextCap
    <3>2. (IF c = 0 THEN MinCap ELSE 2 * c) \in Nat
          /\ want <= (IF c = 0 THEN MinCap ELSE 2 * c)
      BY <1>1, ContainerAssumption
    <3>3. QED
      BY <3>1, <3>2
  <2>5. g = CtResized(n)
    BY <1>1, <2>3, <2>4 DEF CtGrown
  <2>6. obj.len <= n /\ r.obj = Moved(b, n)
    BY <1>1, <2>2, <2>4
  <2>7. IsObject(g) /\ SameObject(g, r.obj) /\ g.cap = n /\ g.len = obj.len /\ g.head = 0
    BY <2>5, <2>6, ResizedFacts
  <2>8. QED
    BY <1>1, <2>4, <2>7
<1>4. QED
  BY <1>2, <1>3

LEMMA CtPush ==
    ASSUME TypeInv, NEW v \in Values, Push(v)
    PROVE  Agrees(CtResult(call'))
<1>1. PICK want \in Nat : want = obj.len + 1 /\ ~Hangs(want)
  BY NextDoesNotHang
<1>2. PICK r \in Room(want) :
          /\ call' = <<"push", v>> /\ answer' = r.ok
          /\ obj' = IF r.ok THEN Pushed(r.obj, v) ELSE r.obj
  BY <1>1 DEF Push, Returns
<1>3. r.ok \in BOOLEAN /\ IsObject(r.obj)
  BY <1>1, RoomFacts
<1>4. PICK g : g = CtGrown
  OBVIOUS
<1>5. PICK p : p = Pushed(g, v)
  OBVIOUS
<1>6. /\ CtResult(call').obj = p /\ CtResult(call').answer = TRUE
  <2>1. CtResult(call') = Gives(p, TRUE)
    BY <1>2, <1>4, <1>5, CtResults
  <2>2. QED
    BY <2>1 DEF Gives
<1>7. CASE r.ok
  <2>1. /\ IsObject(g) /\ SameObject(g, r.obj) /\ g.len < g.cap
    BY <1>1, <1>4, <1>7, GrownFacts
  <2>2. r.obj.len < r.obj.cap /\ obj' = Pushed(r.obj, v) /\ answer' = TRUE
    BY <1>2, <1>3, <1>7, <2>1 DEF SameObject
  <2>3. /\ p.cap = g.cap /\ p.len = g.len + 1 /\ p.head = g.head
        /\ Elements(p) = Append(Elements(g), v)
    BY <1>5, <2>1, PushedFacts DEF SameBuffer
  <2>4. /\ obj'.cap = r.obj.cap /\ obj'.len = r.obj.len + 1 /\ obj'.head = r.obj.head
        /\ Elements(obj') = Append(Elements(r.obj), v)
    BY <1>3, <2>2, PushedFacts DEF SameBuffer
  <2>5. SameObject(p, obj')
    BY <2>1, <2>3, <2>4 DEF SameObject
  <2>6. QED
    BY <1>6, <2>2, <2>5 DEF Agrees
<1>8. CASE ~r.ok
  BY <1>2, <1>3, <1>6, <1>8 DEF Agrees
<1>9. QED
  BY <1>3, <1>7, <1>8

LEMMA CtPushFront ==
    ASSUME TypeInv, NEW v \in Values, PushFront(v)
    PROVE  Agrees(CtResult(call'))
<1>1. PICK want \in Nat : want = obj.len + 1 /\ ~Hangs(want)
  BY NextDoesNotHang
<1>2. PICK r \in Room(want) :
          /\ call' = <<"push_front", v>> /\ answer' = r.ok
          /\ obj' = IF r.ok THEN PushedFront(r.obj, v) ELSE r.obj
  BY <1>1 DEF PushFront, Returns
<1>3. r.ok \in BOOLEAN /\ IsObject(r.obj)
  BY <1>1, RoomFacts
<1>4. PICK g : g = CtGrown
  OBVIOUS
<1>5. PICK p : p = PushedFront(g, v)
  OBVIOUS
<1>6. /\ CtResult(call').obj = p /\ CtResult(call').answer = TRUE
  <2>1. CtResult(call') = Gives(p, TRUE)
    BY <1>2, <1>4, <1>5, CtResults
  <2>2. QED
    BY <2>1 DEF Gives
<1>7. CASE r.ok
  <2>1. /\ IsObject(g) /\ SameObject(g, r.obj) /\ g.len < g.cap
    BY <1>1, <1>4, <1>7, GrownFacts
  <2>2. r.obj.len < r.obj.cap /\ obj' = PushedFront(r.obj, v) /\ answer' = TRUE
    BY <1>2, <1>3, <1>7, <2>1 DEF SameObject
  <2>3. /\ p.cap = g.cap /\ p.len = g.len + 1
        /\ p.head = IF g.head = 0 THEN g.cap - 1 ELSE g.head - 1
        /\ Elements(p) = <<v>> \o Elements(g)
    BY <1>5, <2>1, PushedFrontFacts DEF SameBuffer
  <2>4. /\ obj'.cap = r.obj.cap /\ obj'.len = r.obj.len + 1
        /\ obj'.head = IF r.obj.head = 0 THEN r.obj.cap - 1 ELSE r.obj.head - 1
        /\ Elements(obj') = <<v>> \o Elements(r.obj)
    BY <1>3, <2>2, PushedFrontFacts DEF SameBuffer
  <2>5. SameObject(p, obj')
    BY <2>1, <2>3, <2>4 DEF SameObject
  <2>6. QED
    BY <1>6, <2>2, <2>5 DEF Agrees
<1>8. CASE ~r.ok
  BY <1>2, <1>3, <1>6, <1>8 DEF Agrees
<1>9. QED
  BY <1>3, <1>7, <1>8

LEMMA CtInsertAgrees ==
    ASSUME TypeInv, NEW i \in Positions, NEW v \in Values, Insert(i, v)
    PROVE  Agrees(CtResult(call'))
<1>1. PICK want \in Nat : want = obj.len + 1 /\ ~Hangs(want)
  BY NextDoesNotHang
<1>2. i \in Nat /\ obj.len \in Nat /\ kind = "vec" /\ call' = <<"insert", i, v>>
  BY ContainerAssumption DEF TypeInv, IsObject, Insert, Returns
<1>3. CtResult(call') = CtInsert(i, v)
  BY <1>2, CtResults
<1>4. CASE i > obj.len
  <2>1. CtResult(call').fails = TRUE
    <3>1. CtResult(call') = Fails
      BY <1>3, <1>4, Zenon DEF CtInsert
    <3>2. QED
      BY <3>1 DEF Fails
  <2>2. QED
    BY <2>1, Zenon DEF Agrees
<1>5. CASE ~(i > obj.len)
  <2>1. PICK r \in Room(want) :
            /\ answer' = r.ok
            /\ obj' = IF r.ok THEN Inserted(r.obj, i, v) ELSE r.obj
    BY <1>1, <1>5 DEF Insert, Returns
  <2>2. r.ok \in BOOLEAN /\ IsObject(r.obj) /\ r.obj.head = 0
    BY <1>1, <1>2, RoomFacts
  <2>3. PICK g : g = CtGrown
    OBVIOUS
  <2>4. PICK p : p = Inserted(g, i, v)
    OBVIOUS
  <2>5. CtResult(call').obj = p /\ CtResult(call').answer = TRUE
    <3>1. CtResult(call') = Gives(p, TRUE)
      BY <1>3, <1>5, <2>3, <2>4 DEF CtInsert
    <3>2. QED
      BY <3>1 DEF Gives
  <2>6. CASE r.ok
    <3>1. /\ IsObject(g) /\ SameObject(g, r.obj) /\ g.len = obj.len /\ g.len < g.cap
          /\ g.head = 0
      BY <1>1, <1>2, <2>3, <2>6, GrownFacts
    <3>2. i <= g.len
      BY <1>2, <1>5, <3>1
    <3>3. /\ r.obj.len < r.obj.cap /\ obj' = Inserted(r.obj, i, v) /\ answer' = TRUE
          /\ i <= r.obj.len
      BY <2>1, <2>2, <2>6, <3>1, <3>2 DEF SameObject
    <3>4. /\ p.cap = g.cap /\ p.len = g.len + 1 /\ p.head = 0
          /\ Elements(p) = InsertAt(Elements(g), i + 1, v)
      BY <1>2, <2>4, <3>1, <3>2, InsertedFacts DEF SameBuffer
    <3>5. /\ obj'.cap = r.obj.cap /\ obj'.len = r.obj.len + 1 /\ obj'.head = 0
          /\ Elements(obj') = InsertAt(Elements(r.obj), i + 1, v)
      BY <1>2, <2>2, <3>3, InsertedFacts DEF SameBuffer
    <3>6. SameObject(p, obj')
      BY <3>1, <3>4, <3>5 DEF SameObject
    <3>7. QED
      BY <2>5, <3>3, <3>6 DEF Agrees
  <2>7. CASE ~r.ok
    BY <2>1, <2>2, <2>5, <2>7 DEF Agrees
  <2>8. QED
    BY <2>2, <2>6, <2>7
<1>6. QED
  BY <1>4, <1>5

LEMMA CtReserveAgrees ==
    ASSUME TypeInv, NEW n \in Sizes, Reserve(n)
    PROVE  Agrees(CtResult(call'))
<1>1. n \in Nat /\ call' = <<"reserve", n>> /\ FirstCap \in 1..MaxUsize
  BY ContainerAssumption, FirstCapFacts DEF Reserve, Returns
<1>2. CtResult(call') = CtReserve(n)
  BY <1>1, CtResults
<1>3. CASE Hangs(n)
  BY <1>3 DEF Reserve, Returns, Agrees
<1>4. CASE ~Hangs(n)
  <2>1. PICK r \in Room(n) : answer' = r.ok /\ obj' = r.obj
    BY <1>4 DEF Reserve, Returns
  <2>2. CASE n <= obj.cap
    <3>1. r = [ok |-> TRUE, obj |-> obj, heap |-> heap]
      BY <2>2, Zenon DEF Room
    <3>2. CtResult(call').obj = obj /\ CtResult(call').answer = TRUE
      <4>1. CtResult(call') = Gives(obj, TRUE)
        BY <1>2, <2>2 DEF CtReserve
      <4>2. QED
        BY <4>1 DEF Gives
    <3>3. QED
      BY <2>1, <3>1, <3>2 DEF Agrees, SameObject
  <2>3. CASE ~(n <= obj.cap)
    <3>1. /\ CtResult(call').obj = CtResized(NewCap(n))
          /\ CtResult(call').answer = TRUE
      <4>1. CtResult(call') = Gives(CtResized(NewCap(n)), TRUE)
        BY <1>2, <2>3 DEF CtReserve
      <4>2. QED
        BY <4>1 DEF Gives
    <3>2. \/ r = [ok |-> FALSE, obj |-> obj, heap |-> heap]
          \/ \E b \in Buffers \ heap :
                 r = [ok |-> TRUE, obj |-> Moved(b, NewCap(n)),
                      heap |-> (heap \ Outgrown) \cup {b}]
      BY <2>3, Zenon DEF Room
    <3>3. CASE r = [ok |-> FALSE, obj |-> obj, heap |-> heap]
      BY <2>1, <3>1, <3>3 DEF Agrees
    <3>4. ASSUME NEW b, r = [ok |-> TRUE, obj |-> Moved(b, NewCap(n)),
                             heap |-> (heap \ Outgrown) \cup {b}]
          PROVE  Agrees(CtResult(call'))
      <4>1. n > obj.cap
        BY <1>1, <2>3 DEF TypeInv, IsObject
      <4>2. NewCap(n) # Endless
        BY <1>4, <4>1 DEF Hangs
      <4>3. NewCap(n) \in Nat /\ NewCap(n) >= n
        BY <1>1, <4>2, NewCapFacts
      <4>4. PICK m \in Nat : m = NewCap(n) /\ obj.len <= m
        BY <1>1, <4>1, <4>3 DEF TypeInv, IsObject
      <4>5. obj' = Moved(b, m) /\ answer' = TRUE
        BY <2>1, <3>4, <4>4
      <4>6. PICK p : p = CtResized(m)
        OBVIOUS
      <4>7. SameObject(p, obj')
        BY <4>4, <4>5, <4>6, ResizedFacts
      <4>8. QED
        BY <3>1, <4>4, <4>5, <4>6, <4>7 DEF Agrees
    <3>5. QED
      BY <3>2, <3>3, <3>4
  <2>4. QED
    BY <2>2, <2>3
<1>5. QED
  BY <1>3, <1>4

\* The calls that leave the buffer as it is are the same calls in the evaluator.
LEMMA SameAgrees ==
    ASSUME NEW c, c = Gives(obj', answer')
    PROVE  Agrees(c)
<1>1. c.obj = obj' /\ c.answer = answer'
  BY DEF Gives
<1>2. QED
  BY <1>1 DEF Agrees, SameObject

LEMMA CtPopAgrees ==
    ASSUME NEW out \in BOOLEAN, Pop(out)
    PROVE  Agrees(CtResult(call'))
<1>1. CtResult(call') = CtPop(out)
  BY CtResults DEF Pop, Returns
<1>2. CASE obj.len = 0
  <2>1. obj' = obj /\ answer' = FALSE
    BY <1>2 DEF Pop, Returns
  <2>2. CtPop(out) = Gives(obj', answer')
    BY <1>2, <2>1 DEF CtPop
  <2>3. QED
    BY <1>1, <2>2, SameAgrees
<1>3. CASE ~(obj.len = 0)
  <2>1. CASE kind = "deque" /\ ~out
    BY <1>1, <1>3, <2>1 DEF CtPop, Fails, Agrees
  <2>2. CASE ~(kind = "deque" /\ ~out)
    <3>1. /\ obj' = [obj EXCEPT !.len = @ - 1]
          /\ answer' = IF out THEN Element(obj, obj.len - 1) ELSE TRUE
      BY <1>3 DEF Pop, Returns
    <3>2. CtPop(out) = Gives([obj EXCEPT !.len = @ - 1],
                             IF out THEN Element(obj, obj.len - 1) ELSE TRUE)
      BY <1>3, <2>2, Zenon DEF CtPop
    <3>3. CtPop(out) = Gives(obj', answer')
      BY <3>1, <3>2, Zenon
    <3>4. QED
      BY <1>1, <3>3, SameAgrees
  <2>3. QED
    BY <2>1, <2>2
<1>4. QED
  BY <1>2, <1>3

LEMMA CtPopFrontAgrees ==
    ASSUME NEW out \in BOOLEAN, PopFront(out)
    PROVE  Agrees(CtResult(call'))
<1>1. CtResult(call') = CtPopFront(out)
  BY CtResults DEF PopFront, Returns
<1>2. CASE obj.len = 0
  <2>1. obj' = obj /\ answer' = FALSE
    BY <1>2 DEF PopFront, Returns
  <2>2. CtPopFront(out) = Gives(obj', answer')
    BY <1>2, <2>1 DEF CtPopFront
  <2>3. QED
    BY <1>1, <2>2, SameAgrees
<1>3. CASE ~(obj.len = 0)
  <2>1. CASE ~out
    BY <1>1, <1>3, <2>1 DEF CtPopFront, Fails, Agrees
  <2>2. CASE out
    <3>1. /\ obj' = [obj EXCEPT !.head = (@ + 1) % obj.cap, !.len = @ - 1]
          /\ answer' = Element(obj, 0)
      BY <1>3, <2>2 DEF PopFront, Returns
    <3>2. CtPopFront(out) =
              Gives([obj EXCEPT !.head = (@ + 1) % obj.cap, !.len = @ - 1],
                    Element(obj, 0))
      BY <1>3, <2>2, Zenon DEF CtPopFront
    <3>3. CtPopFront(out) = Gives(obj', answer')
      BY <3>1, <3>2, Zenon
    <3>4. QED
      BY <1>1, <3>3, SameAgrees
  <2>3. QED
    BY <2>1, <2>2
<1>4. QED
  BY <1>2, <1>3

LEMMA CtSetAgrees ==
    ASSUME TypeInv, NEW i \in Positions, NEW v \in Values, Set(i, v)
    PROVE  Agrees(CtResult(call'))
<1>1. CtResult(call') = CtSet(i, v)
  BY CtResults DEF Set, Returns
<1>2. ~(i >= obj.len)
  BY ContainerAssumption DEF Set, TypeInv, IsObject
<1>3. obj' = [obj EXCEPT !.slots[At(obj, i)] = v] /\ answer' = None
  BY DEF Set, Returns
<1>4. CtSet(i, v) = Gives([obj EXCEPT !.slots[At(obj, i)] = v], None)
  BY <1>2, Zenon DEF CtSet
<1>5. CtSet(i, v) = Gives(obj', answer')
  BY <1>3, <1>4, Zenon
<1>6. QED
  BY <1>1, <1>5, SameAgrees

LEMMA CtRemoveAgrees ==
    ASSUME NEW i \in Positions, RemoveFrom(i)
    PROVE  Agrees(CtResult(call'))
<1>1. CtResult(call') = CtRemove(i)
  BY CtResults DEF RemoveFrom, Returns
<1>2. CASE i >= obj.len
  <2>1. obj' = obj /\ answer' = FALSE
    BY <1>2 DEF RemoveFrom, Returns
  <2>2. CtRemove(i) = Gives(obj', answer')
    BY <1>2, <2>1 DEF CtRemove
  <2>3. QED
    BY <1>1, <2>2, SameAgrees
<1>3. CASE ~(i >= obj.len)
  <2>1. obj' = Removed(obj, i) /\ answer' = TRUE
    BY <1>3 DEF RemoveFrom, Returns
  <2>2. CtRemove(i) = Gives(obj', answer')
    BY <1>3, <2>1 DEF CtRemove
  <2>3. QED
    BY <1>1, <2>2, SameAgrees
<1>4. QED
  BY <1>2, <1>3

LEMMA CtSwapAgrees ==
    ASSUME TypeInv, NEW i \in Positions, NEW j \in Positions, Swap(i, j)
    PROVE  Agrees(CtResult(call'))
<1>1. CtResult(call') = CtSwap(i, j) /\ answer' = None
  BY CtResults DEF Swap, Returns
<1>2. CASE i >= obj.len \/ j >= obj.len
  <2>1. obj' = obj
    BY <1>2 DEF Swap, Returns
  <2>2. CtSwap(i, j) = Gives(obj', answer')
    BY <1>1, <1>2, <2>1 DEF CtSwap
  <2>3. QED
    BY <1>1, <2>2, SameAgrees
<1>3. CASE ~(i >= obj.len \/ j >= obj.len)
  <2>1. CASE ~(i = j)
    <3>1. obj' = Swapped(obj, i, j)
      BY <1>3, <2>1 DEF Swap, Returns
    <3>2. CtSwap(i, j) = Gives(obj', answer')
      BY <1>1, <1>3, <3>1 DEF CtSwap
    <3>3. QED
      BY <1>1, <3>2, SameAgrees
  <2>2. CASE i = j
    <3>1. obj' = obj
      BY <2>2 DEF Swap, Returns
    <3>2. PICK p : p = Swapped(obj, i, i)
      OBVIOUS
    <3>3. CtResult(call') = Gives(p, None)
      BY <1>1, <1>3, <2>2, <3>2 DEF CtSwap
    <3>4. /\ p.cap = obj.cap /\ p.len = obj.len /\ p.head = obj.head
          /\ p.slots = [obj.slots EXCEPT ![i] = obj.slots[i], ![i] = obj.slots[i]]
      BY <3>2 DEF Swapped, TypeInv, IsObject, HasFields
    <3>5. p.slots = obj.slots
      <4>1. obj.slots \in [0..(obj.cap - 1) -> Values \cup {None}]
        BY DEF TypeInv, IsObject
      <4>2. QED
        BY <3>4, <4>1
    <3>6. Elements(p) = Elements(obj)
      BY <3>4, <3>5 DEF Elements, Element, At
    <3>7. SameObject(p, obj')
      BY <3>1, <3>4, <3>6 DEF SameObject
    <3>8. CtResult(call').obj = p /\ CtResult(call').answer = None
      BY <3>3 DEF Gives
    <3>9. QED
      BY <1>1, <3>7, <3>8 DEF Agrees
  <2>3. QED
    BY <2>1, <2>2
<1>4. QED
  BY <1>2, <1>3

LEMMA CtEmptyAgrees ==
    ASSUME Clear \/ Destroy
    PROVE  Agrees(CtResult(call'))
<1>1. CASE Clear
  <2>1. CtResult(call') = Gives(obj', answer')
    BY <1>1, CtResults DEF Clear, Returns
  <2>2. QED
    BY <2>1, SameAgrees
<1>2. CASE Destroy
  <2>1. CtResult(call') = Gives(obj', answer')
    BY <1>2, CtResults DEF Destroy, Returns
  <2>2. QED
    BY <2>1, SameAgrees
<1>3. QED
  BY <1>1, <1>2

LEMMA StepAgrees ==
    ASSUME TypeInv, Next
    PROVE  Agrees(CtResult(call'))
<1>1. CASE \E v \in Values : Push(v) \/ PushFront(v)
  BY <1>1, CtPush, CtPushFront
<1>2. CASE \E out \in BOOLEAN : Pop(out) \/ PopFront(out)
  BY <1>2, CtPopAgrees, CtPopFrontAgrees
<1>3. CASE \E i \in Positions, v \in Values : Set(i, v) \/ Insert(i, v)
  BY <1>3, CtSetAgrees, CtInsertAgrees
<1>4. CASE \E i \in Positions : RemoveFrom(i) \/ \E j \in Positions : Swap(i, j)
  BY <1>4, CtRemoveAgrees, CtSwapAgrees
<1>5. CASE \E n \in Sizes : Reserve(n)
  BY <1>5, CtReserveAgrees
<1>6. CASE Clear \/ Destroy
  BY <1>6, CtEmptyAgrees
<1>7. QED
  BY <1>1, <1>2, <1>3, <1>4, <1>5, <1>6 DEF Next

\* The evaluator of constexpr functions and the program come to the same elements,
\* capacity, head and answer from the same object by the same call, however the
\* object came about, when neither gives up.
THEOREM EvaluatorAgrees == Spec => CompileTimeAgrees
<1>1. TypeInv /\ [Next]_vars =>
          [LET c == CtResult(call')
               short == answer' = FALSE /\ c.answer = TRUE
           IN  answer' = Never \/ c.fails \/ short
               \/ (c.answer = answer' /\ SameObject(c.obj, obj'))]_vars
  BY StepAgrees DEF Agrees
<1>2. QED
  BY <1>1, InitFacts, TypeStep, PTL DEF Spec, CompileTimeAgrees
===============================================================================
