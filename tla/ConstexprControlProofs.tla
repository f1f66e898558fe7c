------------------------- MODULE ConstexprControlProofs -------------------------
(***************************************************************************)
(* Theorems about ConstexprControl, for any limits: the stack of           *)
(* activations is always one that the recursion of evalConstexprStmt can   *)
(* have, a jump ends the loop or call it was made for, and a constant      *)
(* comes out of an evaluation in which something has failed only where the *)
(* code forgets a failure.                                                 *)
(***************************************************************************)
EXTENDS ConstexprControl, FiniteSetTheorems, SequenceTheorems, WellFoundedInduction, TLAPS

-------------------------------------------------------------------------------
(* Positions and sequences.                                                *)

\* A set of positions that is not empty has a first one.
LEMMA FirstExists ==
    ASSUME NEW S \in SUBSET Nat, S # {}
    PROVE  \E i \in S : \A j \in S : i <= j
<1> DEFINE Below == {p \in Nat \X Nat : p[1] < p[2]}
<1>1. IsWellFoundedOn(Below, Nat)
  <2>1. Below = OpToRel(<, Nat)
    BY Zenon DEF OpToRel
  <2>2. QED
    BY <2>1, NatLessThanWellFounded
<1>2. PICK i \in S : \A j \in S : <<j, i>> \notin Below
  <2> HIDE DEF Below
  <2>1. QED
    BY <1>1, WFMin
<1>3. ASSUME NEW j \in S
      PROVE  i <= j
  <2>1. <<j, i>> \in Nat \X Nat /\ <<j, i>> \notin Below
    BY <1>2
  <2>2. ~(j < i)
    BY <2>1
  <2>3. QED
    BY <2>2
<1>4. QED
  BY <1>3

\* A set of positions in 1..n that is not empty has a last one.
LEMMA LastExists ==
    ASSUME NEW n \in Nat, NEW S \in SUBSET (1..n), S # {}
    PROVE  \E i \in S : \A j \in S : j <= i
<1> DEFINE T == {m \in Nat : m <= n /\ n - m \in S}
<1>1. T \in SUBSET Nat
  OBVIOUS
<1>2. T # {}
  <2>1. PICK i \in S : TRUE
    OBVIOUS
  <2>2. i \in 1..n
    BY <2>1
  <2>3. n - i \in Nat /\ n - i <= n /\ n - (n - i) = i
    BY <2>2
  <2>4. n - i \in T
    BY <2>1, <2>3
  <2>5. QED
    BY <2>4
<1>3. PICK m \in T : \A l \in T : m <= l
  <2> HIDE DEF T
  <2>1. QED
    BY <1>1, <1>2, FirstExists
<1>4. ASSUME NEW j \in S
      PROVE  j <= n - m
  <2>1. j \in 1..n
    OBVIOUS
  <2>2. n - j \in Nat /\ n - j <= n /\ n - (n - j) = j
    BY <2>1
  <2>3. n - j \in T
    BY <2>2
  <2>4. m <= n - j
    BY <1>3, <2>3
  <2>5. QED
    BY <2>1, <2>4, <1>1
<1>5. QED
  BY <1>3, <1>4

\* A sequence without its last element.
LEMMA FrontFacts ==
    ASSUME NEW S, NEW s \in Seq(S), Len(s) \in Nat \ {0},
           NEW t, t = Front(s)
    PROVE  /\ t \in Seq(S) /\ Len(t) = Len(s) - 1
           /\ \A i \in 1..(Len(s) - 1) : t[i] = s[i]
<1>1. PICK n \in Nat : n = Len(s) - 1
  OBVIOUS
<1>2. \A i \in 1..n : s[i] \in S
  BY <1>1, ElementOfSeq
<1>3. /\ t \in Seq(S) /\ Len(t) = IF 1 <= n THEN n - 1 + 1 ELSE 0
      /\ \A i \in 1..(n - 1 + 1) : t[i] = s[1 + i - 1]
  <2>1. t = SubSeq(s, 1, n)
    BY <1>1 DEF Front
  <2>2. QED
    BY <1>2, <2>1, SubSeqProperties
<1>4. Len(t) = n
  BY <1>3
<1>5. ASSUME NEW i \in 1..n
      PROVE  t[i] = s[i]
  <2>1. i \in 1..(n - 1 + 1) /\ 1 + i - 1 = i
    OBVIOUS
  <2>2. t[i] = s[1 + i - 1]
    BY <1>3, <2>1
  <2>3. QED
    BY <2>1, <2>2
<1>6. QED
  BY <1>1, <1>3, <1>4, <1>5

-------------------------------------------------------------------------------
(* The stack of activations.                                                *)

Places == {"next", "cond", "iterate", "init", "eval", "body", "inc"}
Activation == [k : DOMAIN First, at : Places, depth : 0..MaxDepth, begun : Nat]

\* Where an activation can be: only expressions are evaluated, and only statements
\* with parts have others.
Sound(a) ==
    /\ a.at = "eval" => a.k \in {"expr", "return"}
    /\ a.at \in {"init", "cond", "inc", "iterate"} => a.k \in Loops \cup {"if"}

\* What one activation can begin: an expression, of any part, a call; the first part
\* of a for an expression; the others a statement.
Placed(p, c) ==
    IF c.k \in Calls THEN p.at \in Parts
    ELSE p.k \notin {"expr", "return"} /\ (p.at = "init" => c.k = "expr")

Stack(a) ==
    /\ a \in Seq(Activation) /\ Len(a) \in Nat \ {0} /\ a[1].k = "call"
    /\ \A i \in 1..Len(a) : Sound(a[i])
    /\ \A i \in 2..Len(a) : Placed(a[i - 1], a[i])

CallsOf(a) == {i \in 1..Len(a) : a[i].k \in Calls}

LEMMA KindsOfFirst ==
    DOMAIN First = {"block", "if", "while", "do", "for", "expr", "return", "call",
                    "callback"}
BY DEF First

\* An activation begins where First says.
LEMMA ActFacts ==
    ASSUME NEW k \in DOMAIN First, NEW d \in 0..MaxDepth, NEW n, n = Act(k, d)
    PROVE  n \in Activation /\ n.k = k /\ n.depth = d /\ n.begun = 0 /\ Sound(n)
<1>1. /\ First.block = "next" /\ First.if = "cond" /\ First.while = "cond"
      /\ First.do = "iterate" /\ First.for = "init" /\ First.expr = "eval"
      /\ First.return = "eval" /\ First.call = "body" /\ First.callback = "body"
  BY DEF First
<1>2. PICK w : w = First[k]
  OBVIOUS
<1>3. n = [k |-> k, at |-> w, depth |-> d, begun |-> 0]
  BY <1>2 DEF Act
<1>4. /\ w \in Places
      /\ w = "eval" => k \in {"expr", "return"}
      /\ w \in {"init", "cond", "inc", "iterate"} => k \in Loops \cup {"if"}
  BY <1>1, <1>2, KindsOfFirst DEF Places, Loops
<1>5. n \in Activation
  BY <1>3, <1>4 DEF Activation
<1>6. QED
  BY <1>3, <1>4, <1>5 DEF Sound

LEMMA CountedCalls ==
    ASSUME NEW a, Stack(a)
    PROVE  /\ CallsOf(a) \subseteq 1..Len(a) /\ IsFiniteSet(CallsOf(a))
           /\ Cardinality(CallsOf(a)) \in Nat
           /\ 1 \in CallsOf(a)
<1>1. CallsOf(a) \subseteq 1..Len(a) /\ Len(a) \in Nat /\ 1 \in CallsOf(a)
  BY DEF CallsOf, Stack, Calls
<1>2. IsFiniteSet(1..Len(a))
  BY <1>1, FS_Interval
<1>3. IsFiniteSet(CallsOf(a))
  BY <1>1, <1>2, FS_Subset
<1>4. QED
  BY <1>1, <1>3, FS_CardinalityType

\* The innermost activation goes on: the stack is one, with the same calls.
LEMMA MovedOn ==
    ASSUME NEW a, Stack(a), NEW b \in Seq(Activation), Len(b) = Len(a),
           \A i \in 1..(Len(a) - 1) : b[i] = a[i],
           b[Len(a)].k = a[Len(a)].k, Sound(b[Len(a)])
    PROVE  Stack(b) /\ CallsOf(b) = CallsOf(a)
<1>1. PICK n \in Nat \ {0} : n = Len(a)
  BY DEF Stack
<1>2. \A i \in 1..n : b[i].k = a[i].k /\ Sound(b[i])
  <2>1. ASSUME NEW i \in 1..n PROVE b[i].k = a[i].k /\ Sound(b[i])
    <3>1. CASE i = n
      BY <1>1, <3>1
    <3>2. CASE i # n
      <4>1. i \in 1..(n - 1)
        BY <3>2
      <4>2. QED
        BY <1>1, <4>1 DEF Stack
    <3>3. QED
      BY <3>1, <3>2
  <2>2. QED
    BY <2>1
<1>3. ASSUME NEW i \in 2..n
      PROVE  Placed(b[i - 1], b[i])
  <2>1. i - 1 \in 1..(n - 1) /\ i \in 1..n
    BY <1>1
  <2>2. b[i - 1] = a[i - 1] /\ b[i].k = a[i].k
    BY <1>1, <1>2, <2>1
  <2>3. Placed(a[i - 1], a[i])
    BY <1>1 DEF Stack
  <2>4. QED
    BY <2>2, <2>3 DEF Placed
<1>4. b[1].k = "call"
  BY <1>1, <1>2 DEF Stack
<1>5. Stack(b)
  BY <1>1, <1>2, <1>3, <1>4 DEF Stack
<1>6. QED
  BY <1>1, <1>2, <1>5 DEF CallsOf

\* One more activation, begun by the innermost.
LEMMA Pushed ==
    ASSUME NEW a, Stack(a), NEW n \in Activation, Sound(n), Placed(a[Len(a)], n),
           NEW b, b = Append(a, n)
    PROVE  /\ Stack(b) /\ Len(b) = Len(a) + 1 /\ b[Len(b)] = n
           /\ CallsOf(b) = IF n.k \in Calls THEN CallsOf(a) \cup {Len(a) + 1}
                           ELSE CallsOf(a)
<1>1. PICK m \in Nat \ {0} : m = Len(a) /\ a \in Seq(Activation)
  BY DEF Stack
<1>2. /\ b \in Seq(Activation) /\ Len(b) = m + 1 /\ b[m + 1] = n
      /\ \A i \in 1..m : b[i] = a[i]
  BY <1>1, AppendProperties
<1>3. ASSUME NEW i \in 1..(m + 1)
      PROVE  Sound(b[i])
  <2>1. CASE i = m + 1
    BY <1>2, <2>1
  <2>2. CASE i # m + 1
    <3>1. i \in 1..m
      BY <2>2
    <3>2. QED
      BY <1>1, <1>2, <3>1 DEF Stack
  <2>3. QED
    BY <2>1, <2>2
<1>4. ASSUME NEW i \in 2..(m + 1)
      PROVE  Placed(b[i - 1], b[i])
  <2>1. i - 1 \in 1..m
    OBVIOUS
  <2>2. b[i - 1] = a[i - 1]
    BY <1>2, <2>1
  <2>3. CASE i = m + 1
    BY <1>1, <1>2, <2>2, <2>3
  <2>4. CASE i # m + 1
    <3>1. i \in 1..m /\ i \in 2..m
      BY <2>4
    <3>2. Placed(a[i - 1], a[i])
      BY <1>1, <3>1 DEF Stack
    <3>3. QED
      BY <1>2, <2>2, <3>1, <3>2
  <2>5. QED
    BY <2>3, <2>4
<1>5. b[1].k = "call"
  BY <1>1, <1>2 DEF Stack
<1>6. Stack(b)
  BY <1>2, <1>3, <1>4, <1>5 DEF Stack
<1>7. CallsOf(b) = IF n.k \in Calls THEN CallsOf(a) \cup {m + 1} ELSE CallsOf(a)
  <2>1. ASSUME NEW i
        PROVE  i \in CallsOf(b) <=> i \in CallsOf(a) \/ (i = m + 1 /\ n.k \in Calls)
    <3>1. i \in 1..(m + 1) <=> i \in 1..m \/ i = m + 1
      BY <1>1
    <3>2. m + 1 \notin 1..m
      BY <1>1
    <3>3. CASE i = m + 1
      BY <1>1, <1>2, <3>1, <3>2, <3>3 DEF CallsOf
    <3>4. CASE i # m + 1
      BY <1>1, <1>2, <3>1, <3>4 DEF CallsOf
    <3>5. QED
      BY <3>3, <3>4
  <2>2. QED
    BY <2>1
<1>8. QED
  BY <1>1, <1>2, <1>6, <1>7

\* A statement ends.
LEMMA Popped ==
    ASSUME NEW a, Stack(a), a[Len(a)].k \notin Calls, NEW b, b = Front(a)
    PROVE  /\ Stack(b) /\ Len(a) > 1 /\ Len(b) = Len(a) - 1
           /\ \A i \in 1..Len(b) : b[i] = a[i]
           /\ CallsOf(b) = CallsOf(a) /\ Placed(b[Len(b)], a[Len(a)])
<1>1. PICK n \in Nat \ {0} : n = Len(a) /\ a \in Seq(Activation)
  BY DEF Stack
<1>2. n > 1
  <2>1. a[n].k # "call"
    BY <1>1 DEF Calls
  <2>2. n # 1
    BY <1>1, <2>1 DEF Stack
  <2>3. QED
    BY <1>1, <2>2
<1>3. b \in Seq(Activation) /\ Len(b) = n - 1 /\ \A i \in 1..(n - 1) : b[i] = a[i]
  BY <1>1, FrontFacts
<1>4. Stack(b)
  <2>1. \A i \in 1..(n - 1) : Sound(b[i])
    BY <1>1, <1>3 DEF Stack
  <2>2. ASSUME NEW i \in 2..(n - 1)
        PROVE  Placed(b[i - 1], b[i])
    <3>1. i - 1 \in 1..(n - 1) /\ i \in 1..(n - 1) /\ i \in 2..n
      OBVIOUS
    <3>2. Placed(a[i - 1], a[i])
      BY <1>1, <3>1 DEF Stack
    <3>3. QED
      BY <1>3, <3>1, <3>2
  <2>3. n - 1 \in Nat \ {0} /\ b[1].k = "call"
    BY <1>1, <1>2, <1>3 DEF Stack
  <2>4. QED
    BY <1>3, <2>1, <2>2, <2>3 DEF Stack
<1>5. CallsOf(b) = CallsOf(a)
  <2>1. ASSUME NEW i
        PROVE  i \in CallsOf(b) <=> i \in CallsOf(a)
    <3>1. i \in 1..n <=> i \in 1..(n - 1) \/ i = n
      BY <1>1
    <3>2. QED
      BY <1>1, <1>3, <3>1 DEF CallsOf
  <2>2. QED
    BY <2>1
<1>6. Placed(b[n - 1], a[n])
  <2>1. n \in 2..n /\ n - 1 \in 1..(n - 1)
    BY <1>2
  <2>2. QED
    BY <1>1, <1>3, <2>1 DEF Stack
<1>7. QED
  BY <1>1, <1>2, <1>3, <1>4, <1>5, <1>6

\* A call ends.
LEMMA CallPopped ==
    ASSUME NEW a, Stack(a), Len(a) > 1, a[Len(a)].k \in Calls, NEW b, b = Front(a)
    PROVE  /\ Stack(b) /\ Len(b) = Len(a) - 1
           /\ \A i \in 1..Len(b) : b[i] = a[i]
           /\ CallsOf(b) = CallsOf(a) \ {Len(a)} /\ Len(a) \in CallsOf(a)
           /\ a[Len(a) - 1].at \in Parts /\ a[Len(a) - 1].k \notin Calls
<1>1. PICK n \in Nat \ {0} : n = Len(a) /\ a \in Seq(Activation) /\ n > 1
  BY DEF Stack
<1>2. n \in 2..n /\ n - 1 \in 1..n /\ n - 1 \in Nat \ {0}
  BY <1>1
<1>3. a[n - 1].at \in Parts /\ a[n - 1].k \notin Calls
  <2>1. Placed(a[n - 1], a[n]) /\ Sound(a[n - 1])
    BY <1>1, <1>2 DEF Stack
  <2>2. a[n - 1].at \in Parts
    BY <1>1, <2>1 DEF Placed
  <2>3. QED
    BY <2>1, <2>2 DEF Sound, Parts, Loops, Calls
<1>4. b \in Seq(Activation) /\ Len(b) = n - 1 /\ \A i \in 1..(n - 1) : b[i] = a[i]
  BY <1>1, FrontFacts
<1>5. Stack(b)
  <2>1. \A i \in 1..(n - 1) : Sound(b[i])
    BY <1>1, <1>4 DEF Stack
  <2>2. ASSUME NEW i \in 2..(n - 1)
        PROVE  Placed(b[i - 1], b[i])
    <3>1. i - 1 \in 1..(n - 1) /\ i \in 1..(n - 1) /\ i \in 2..n
      OBVIOUS
    <3>2. Placed(a[i - 1], a[i])
      BY <1>1, <3>1 DEF Stack
    <3>3. QED
      BY <1>4, <3>1, <3>2
  <2>3. b[1].k = "call"
    BY <1>1, <1>4 DEF Stack
  <2>4. QED
    BY <1>2, <1>4, <2>1, <2>2, <2>3 DEF Stack
<1>6. CallsOf(b) = CallsOf(a) \ {n}
  <2>1. ASSUME NEW i
        PROVE  i \in CallsOf(b) <=> i \in CallsOf(a) /\ i # n
    <3>1. (i \in 1..n <=> i \in 1..(n - 1) \/ i = n) /\ n \notin 1..(n - 1)
      BY <1>1
    <3>2. QED
      BY <1>1, <1>4, <3>1 DEF CallsOf
  <2>2. QED
    BY <2>1
<1>7. n \in CallsOf(a)
  BY <1>1 DEF CallsOf
<1>8. QED
  BY <1>1, <1>3, <1>4, <1>5, <1>6, <1>7

\* A call ends, and with it the statement whose expression it was in.
LEMMA Returned ==
    ASSUME NEW a, Stack(a), Len(a) > 1, a[Len(a)].k \in Calls,
           NEW b, b = SubSeq(a, 1, Len(a) - 2)
    PROVE  /\ Stack(b) /\ Len(a) > 2 /\ Len(b) = Len(a) - 2
           /\ \A i \in 1..Len(b) : b[i] = a[i]
           /\ CallsOf(b) = CallsOf(a) \ {Len(a)} /\ Len(a) \in CallsOf(a)
           /\ a[Len(a) - 1].k \notin Calls
           /\ Placed(b[Len(b)], a[Len(a) - 1])
<1>1. PICK f : f = Front(a)
  OBVIOUS
<1>2. PICK n \in Nat \ {0} : n = Len(a) /\ a \in Seq(Activation) /\ n > 1
  BY DEF Stack
<1>3. /\ Stack(f) /\ Len(f) = n - 1 /\ \A i \in 1..(n - 1) : f[i] = a[i]
      /\ CallsOf(f) = CallsOf(a) \ {n} /\ n \in CallsOf(a)
      /\ a[n - 1].k \notin Calls
  <2>1. /\ Stack(f) /\ Len(f) = Len(a) - 1
        /\ \A i \in 1..Len(f) : f[i] = a[i]
        /\ CallsOf(f) = CallsOf(a) \ {Len(a)} /\ Len(a) \in CallsOf(a)
        /\ a[Len(a) - 1].k \notin Calls
    BY <1>1, CallPopped
  <2>2. QED
    BY <1>2, <2>1
<1>4. f[Len(f)].k \notin Calls
  BY <1>2, <1>3
<1>5. PICK g : g = Front(f)
  OBVIOUS
<1>6. /\ Stack(g) /\ Len(f) > 1 /\ Len(g) = Len(f) - 1
      /\ \A i \in 1..Len(g) : g[i] = f[i]
      /\ CallsOf(g) = CallsOf(f) /\ Placed(g[Len(g)], f[Len(f)])
  BY <1>3, <1>4, <1>5, Popped
<1>7. g = b
  <2>1. PICK m \in Nat \ {0} : m = n - 2 /\ n > 2
    <3>1. n - 2 \in Nat \ {0} /\ n > 2
      BY <1>2, <1>3, <1>6
    <3>2. QED
      BY <3>1
  <2>2. b \in Seq(Activation) /\ Len(b) = m /\ \A i \in 1..m : b[i] = a[i]
    <3>1. \A i \in 1..m : a[i] \in Activation
      BY <1>2, <2>1, ElementOfSeq
    <3>2. /\ b \in Seq(Activation) /\ Len(b) = IF 1 <= m THEN m - 1 + 1 ELSE 0
          /\ \A i \in 1..(m - 1 + 1) : b[i] = a[1 + i - 1]
      BY <1>2, <2>1, <3>1, SubSeqProperties
    <3>3. ASSUME NEW i \in 1..m PROVE b[i] = a[i]
      <4>1. i \in 1..(m - 1 + 1) /\ 1 + i - 1 = i
        OBVIOUS
      <4>2. b[i] = a[1 + i - 1]
        BY <3>2, <4>1
      <4>3. QED
        BY <4>1, <4>2
    <3>4. QED
      BY <3>2, <3>3
  <2>3. g \in Seq(Activation) /\ Len(g) = m /\ \A i \in 1..m : g[i] = b[i]
    <3>1. g \in Seq(Activation)
      BY <1>6 DEF Stack
    <3>2. Len(g) = m
      BY <1>2, <1>3, <1>6, <2>1
    <3>3. ASSUME NEW i \in 1..m PROVE g[i] = b[i]
      <4>1. i \in 1..(n - 1)
        BY <2>1
      <4>2. QED
        BY <1>3, <1>6, <2>2, <3>2, <4>1
    <3>4. QED
      BY <3>1, <3>2, <3>3
  <2>4. QED
    BY <2>2, <2>3, SeqEqual
<1>8. f[Len(f)] = a[n - 1]
  BY <1>2, <1>3, <1>6
<1>9. QED
  BY <1>2, <1>3, <1>6, <1>7, <1>8
-------------------------------------------------------------------------------
(* The inductive invariant.                                                 *)

Flows == {"none", "value", "normal", "break", "continue", "return"}

\* TypeOK, with the stack.
TypeInv ==
    /\ Stack(acts)
    /\ entry \in {"fold", "query"} /\ outcome \in {"running", "value", "none"}
    /\ flow \in Flows /\ value \in BOOLEAN /\ failed \in BOOLEAN /\ steps \in Nat
    /\ outcome = "running" => calls = Cardinality(CallsOf(acts))
    /\ calls \in Nat /\ calls <= MaxCalls

\* An innermost activation of one of some kinds, and none of kinds in between.
Belongs(a, t, kinds, between) ==
    /\ t \in 1..Len(a) /\ a[t].k \in kinds
    /\ \A j \in (t + 1)..Len(a) : a[j].k \notin between

\* A jump knows the loop or call it belongs to, and does not come out of the first
\* part of a for.
JumpsTo(a, f, t) ==
    /\ f \in {"break", "continue"} => Belongs(a, t, Loops, Loops \cup Calls)
    /\ f = "return" => Belongs(a, t, Calls, Calls)
    /\ f \in {"break", "continue", "return"} => a[Len(a)].at # "init"
JumpInv == JumpsTo(acts, flow, target)

\* A failure that only an excuse could make nothing of.
Pending == lapses # {} /\ lapses \cap {"init", "condition"} = {}

\* In the first call, what follows a failure: nothing more is begun, but the
\* expression it was in and the statements around it end one after the other.
Bars(a, f) ==
    /\ f # "none" /\ a[Len(a)].at # "init"
    /\ f = "value" => a[Len(a)].at = "eval" /\ a[Len(a) - 1].at # "init"

\* A failure has been remembered, and is not forgotten: folding never, and a query
\* only when it was that of the first part of a for or of a callback.
LapseInv ==
    /\ lapses \subseteq {"init", "condition", "failed"}
    /\ failed => lapses # {}
    /\ entry = "fold" /\ lapses # {} => failed
    /\ Pending => failed
    /\ Pending /\ calls = 1 => Bars(acts, flow)

\* What is wanted is an index, and so is what the capacity is.
GrowthInv == growing \in [want : 0..(Indices - 1), cap : 0..(Indices - 1)]

Inv == TypeInv /\ JumpInv /\ LapseInv /\ ValueIsEarned

\* What a step of JumpsLand is.
Lands == flow' # flow /\ flow \in {"break", "continue", "return"} => failed \/ Landed

-------------------------------------------------------------------------------
(* Steps in general.                                                        *)

\* A step of a running evaluation.
Runs == outcome = "running" /\ UNCHANGED <<entry, outcome>>

\* Keeping the types.
LEMMA TypeKept ==
    ASSUME TypeInv, Runs, Stack(acts'), flow' \in Flows, value' \in BOOLEAN,
           failed' \in BOOLEAN, steps' \in Nat,
           calls' = Cardinality(CallsOf(acts')), calls' <= MaxCalls
    PROVE  TypeInv'
<1>1. calls' \in Nat
  BY CountedCalls
<1>2. QED
  BY <1>1 DEF TypeInv, Runs

\* The types when no call begins or ends.
LEMMA TypeKeptHere ==
    ASSUME TypeInv, Runs, Stack(acts'), CallsOf(acts') = CallsOf(acts),
           flow' \in Flows, value' \in BOOLEAN,
           failed' \in BOOLEAN, steps' \in Nat, calls' = calls
    PROVE  TypeInv'
<1>1. calls' = Cardinality(CallsOf(acts')) /\ calls' <= MaxCalls
  BY DEF TypeInv, Runs
<1>2. QED
  BY <1>1, TypeKept

\* A step that nothing jumps after, from where nothing has jumped.
LEMMA NoJump ==
    ASSUME flow' \in {"none", "value", "normal"}
    PROVE  JumpInv'
BY DEF JumpInv, JumpsTo

LEMMA NoLanding ==
    ASSUME flow \in {"none", "value", "normal"}
    PROVE  Lands
BY DEF Lands

LEMMA NoValueYet ==
    ASSUME Runs
    PROVE  ValueIsEarned'
BY DEF Runs, ValueIsEarned

\* What is remembered stays so when a statement begins, or ends as another one
\* around it does.
LEMMA LapsesPassedOn ==
    ASSUME LapseInv, Runs, UNCHANGED <<failed, lapses, calls>>,
           ~Pending \/ calls # 1 \/ Bars(acts', flow')
    PROVE  LapseInv'
BY DEF LapseInv, Runs, Pending

\* While nothing has just ended, no failure is pending in the first call.
LEMMA LapsesKept ==
    ASSUME LapseInv, Runs, flow = "none", UNCHANGED <<failed, lapses, calls>>
    PROVE  LapseInv'
<1>1. ~Pending \/ calls # 1
  BY DEF LapseInv, Bars
<1>2. QED
  BY <1>1, LapsesPassedOn

\* The calls there are, while the evaluation runs.
LEMMA SomeCalls ==
    ASSUME TypeInv, outcome = "running"
    PROVE  calls \in Nat \ {0}
<1>1. /\ CallsOf(acts) # {} /\ IsFiniteSet(CallsOf(acts))
      /\ calls = Cardinality(CallsOf(acts))
  BY CountedCalls DEF TypeInv
<1>2. QED
  BY <1>1, FS_EmptySet DEF TypeInv

\* The activation on top.
LEMMA TopFacts ==
    ASSUME TypeInv
    PROVE  /\ Depth = Len(acts) /\ Depth \in Nat \ {0} /\ Top = acts[Depth]
           /\ Top \in Activation /\ Sound(Top)
           /\ acts \in Seq(Activation)
<1>1. Stack(acts)
  BY DEF TypeInv
<1>2. Depth = Len(acts) /\ Depth \in Nat \ {0} /\ Top = acts[Depth]
      /\ acts \in Seq(Activation)
  BY <1>1 DEF Stack, Depth, Top, Last
<1>3. QED
  BY <1>1, <1>2, ElementOfSeq DEF Stack

\* A failure that is pending is still one within the expression, and in the first
\* call the expression is that of a statement.
LEMMA StillFacts ==
    ASSUME TypeInv, LapseInv, Evaluating
    PROVE  /\ StillFailed \in BOOLEAN /\ (StillFailed => failed)
           /\ entry = "fold" => StillFailed = failed
           /\ Pending => StillFailed
           /\ Pending /\ calls = 1 =>
                  Started /\ acts[Depth].at = "eval" /\ acts[Depth - 1].at # "init"
<1>1. outcome = "running" /\ flow \in {"none", "value"} /\ Depth = Len(acts)
  BY DEF Evaluating, Depth
<1>2. calls \in Nat \ {0}
  BY <1>1, SomeCalls
<1>3. failed \in BOOLEAN /\ entry \in {"fold", "query"}
  BY DEF TypeInv
<1>4. entry = "fold" \/ calls # 1 => ~Forgets
  BY <1>2, <1>3 DEF Forgets, EvalDepth
<1>5. Pending /\ calls = 1 =>
          Started /\ acts[Depth].at = "eval" /\ acts[Depth - 1].at # "init"
  BY <1>1 DEF LapseInv, Bars, Started
<1>6. Pending => failed /\ ~Forgets
  BY <1>4, <1>5 DEF LapseInv, Forgets
<1>7. QED
  BY <1>3, <1>4, <1>5, <1>6 DEF StillFailed

\* An expression has a value or fails: when it fails, that is remembered.
LEMMA GivesFacts ==
    ASSUME TypeInv, LapseInv, NEW fails \in BOOLEAN, Gives(fails), calls' = calls
    PROVE  /\ steps' \in Nat /\ failed' \in BOOLEAN
           /\ lapses' \subseteq {"init", "condition", "failed"}
           /\ failed' => lapses' # {}
           /\ entry = "fold" /\ lapses' # {} => failed'
           /\ Pending' => failed'
           /\ Pending' /\ calls = 1 =>
                  /\ acts[Depth - 1].at # "init"
                  /\ fails \/ acts[Depth].at = "eval"
<1>1. steps' \in Nat
  BY ControlAssumption DEF Gives, Counted, CountedFrom, TypeInv
<1>2. failed' = (fails \/ StillFailed) /\ Evaluating
  BY DEF Gives
<1>3. /\ StillFailed \in BOOLEAN /\ (StillFailed => failed)
      /\ entry = "fold" => StillFailed = failed
      /\ Pending => StillFailed
      /\ Pending /\ calls = 1 =>
             Started /\ acts[Depth].at = "eval" /\ acts[Depth - 1].at # "init"
  BY <1>2, StillFacts
<1>4. CASE ~fails
  <2>1. lapses' = lapses /\ failed' = StillFailed
    BY <1>2, <1>3, <1>4 DEF Gives
  <2>2. QED
    BY <1>1, <1>3, <2>1 DEF LapseInv, Pending
<1>5. CASE fails
  <2>1. failed' = TRUE
    BY <1>2, <1>5
  <2>2. lapses' = lapses \cup {Where(acts)}
    BY <1>5 DEF Gives
  <2>3. Where(acts) \in {"init", "failed"}
    BY DEF Where
  <2>4. Pending' => acts[Depth - 1].at # "init"
    BY <2>2 DEF Pending, Where, Depth
  <2>5. QED
    BY <1>1, <1>5, <2>1, <2>2, <2>3, <2>4 DEF LapseInv
<1>6. QED
  BY <1>4, <1>5

\* It moves to another place.
LEMMA GoesFacts ==
    ASSUME TypeInv, NEW where \in Places,
           where = "eval" => Top.k \in {"expr", "return"},
           where \in {"init", "cond", "inc", "iterate"} => Top.k \in Loops \cup {"if"},
           Goes(where)
    PROVE  /\ Stack(acts') /\ CallsOf(acts') = CallsOf(acts)
           /\ Len(acts') = Len(acts) /\ flow' = "none" /\ value' = FALSE
<1>1. PICK n \in Nat \ {0} : n = Depth /\ n = Len(acts)
  BY TopFacts
<1>2. acts \in Seq(Activation) /\ Top = acts[n] /\ Top \in Activation
  BY <1>1, TopFacts
<1>3. PICK m \in Activation : m = [acts[n] EXCEPT !.at = where]
  BY <1>2 DEF Activation
<1>4. m.at = where /\ m.k = acts[n].k
  BY <1>2, <1>3 DEF Activation
<1>5. acts' = [acts EXCEPT ![n] = m]
  BY <1>1, <1>3 DEF Goes
<1>6. /\ acts' \in Seq(Activation) /\ Len(acts') = n
      /\ \A i \in 1..(n - 1) : acts'[i] = acts[i]
      /\ acts'[n] = m
  <2>1. n \in 1..Len(acts)
    BY <1>1
  <2>2. QED
    BY <1>1, <1>2, <1>5, <2>1, ExceptSeq
<1>7. Sound(m)
  BY <1>2, <1>4 DEF Sound
<1>8. Stack(acts') /\ CallsOf(acts') = CallsOf(acts)
  <2>1. Stack(acts)
    BY DEF TypeInv
  <2>2. QED
    BY <1>1, <1>4, <1>6, <1>7, <2>1, MovedOn
<1>9. QED
  BY <1>1, <1>6, <1>8 DEF Goes

\* A statement is counted in its block.
LEMMA BegunFacts ==
    ASSUME TypeInv, NEW b, b = Begun
    PROVE  /\ Stack(b) /\ CallsOf(b) = CallsOf(acts) /\ Len(b) = Len(acts)
           /\ \A i \in 1..Len(acts) : b[i].k = acts[i].k /\ b[i].at = acts[i].at
<1>1. PICK n \in Nat \ {0} : n = Depth /\ n = Len(acts)
  BY TopFacts
<1>2. acts \in Seq(Activation) /\ Top = acts[n] /\ Top \in Activation /\ Sound(Top)
  BY <1>1, TopFacts
<1>3. PICK m \in Activation :
          m = [acts[n] EXCEPT !.begun = IF Top.k = "block" THEN @ + 1 ELSE @]
  <2>1. acts[n] \in Activation /\ acts[n].begun \in Nat
    BY <1>2 DEF Activation
  <2>2. PICK w \in Nat : w = IF Top.k = "block" THEN acts[n].begun + 1 ELSE acts[n].begun
    BY <2>1
  <2>3. [acts[n] EXCEPT !.begun = w] \in Activation
    BY <2>1, <2>2 DEF Activation
  <2>4. QED
    BY <2>2, <2>3
<1>4. m.at = acts[n].at /\ m.k = acts[n].k
  BY <1>2, <1>3 DEF Activation
<1>5. b = [acts EXCEPT ![n] = m]
  BY <1>1, <1>3 DEF Begun
<1>6. /\ b \in Seq(Activation) /\ Len(b) = n
      /\ \A i \in 1..(n - 1) : b[i] = acts[i]
      /\ b[n] = m
  <2>1. n \in 1..Len(acts)
    BY <1>1
  <2>2. QED
    BY <1>1, <1>2, <1>5, <2>1, ExceptSeq
<1>7. Sound(m)
  BY <1>2, <1>4 DEF Sound
<1>8. Stack(b) /\ CallsOf(b) = CallsOf(acts)
  <2>1. Stack(acts)
    BY DEF TypeInv
  <2>2. QED
    BY <1>1, <1>4, <1>6, <1>7, <2>1, MovedOn
<1>9. ASSUME NEW i \in 1..n
      PROVE  b[i].k = acts[i].k /\ b[i].at = acts[i].at
  <2>1. i = n \/ i \in 1..(n - 1)
    OBVIOUS
  <2>2. QED
    BY <1>4, <1>6, <2>1
<1>10. QED
  BY <1>1, <1>6, <1>8, <1>9

\* The innermost activation of some kinds, when there is one.
LEMMA InnermostFacts ==
    ASSUME NEW a \in Seq(Activation), NEW kinds,
           \E i \in 1..Len(a) : a[i].k \in kinds,
           NEW t, t = Innermost(a, kinds)
    PROVE  Belongs(a, t, kinds, kinds)
<1> DEFINE found == {i \in DOMAIN a : a[i].k \in kinds}
<1>1. PICK n \in Nat : n = Len(a) /\ DOMAIN a = 1..n
  BY LenProperties
<1>2. found \in SUBSET (1..n) /\ found # {}
  BY <1>1
<1>3. \E i \in found : \A j \in found : j <= i
  <2> HIDE DEF found
  <2>1. QED
    BY <1>2, LastExists
<1>4. t = CHOOSE i \in found : \A j \in found : j <= i
  BY Zenon DEF Innermost
<1>5. t \in found /\ \A j \in found : j <= t
  <2> HIDE DEF found
  <2>1. QED
    BY <1>3, <1>4
<1>6. ASSUME NEW j \in (t + 1)..n
      PROVE  a[j].k \notin kinds
  <2>1. t \in 1..n
    BY <1>2, <1>5
  <2>2. j \in 1..n /\ ~(j <= t)
    BY <2>1
  <2>3. j \notin found
    BY <1>5, <2>2
  <2>4. QED
    BY <1>1, <2>2, <2>3
<1>7. QED
  BY <1>1, <1>5, <1>6 DEF Belongs

\* It is the same in a shorter stack that only lacks activations of other kinds.
LEMMA BelongsShorter ==
    ASSUME NEW a, NEW b, Len(a) \in Nat, Len(b) \in Nat, Len(b) <= Len(a),
           \A i \in 1..Len(b) : b[i] = a[i],
           NEW kinds, NEW between, NEW t, Belongs(a, t, kinds, between),
           \A j \in (Len(b) + 1)..Len(a) : a[j].k \notin kinds
    PROVE  Belongs(b, t, kinds, between)
<1>1. PICK n \in Nat, m \in Nat : n = Len(a) /\ m = Len(b) /\ m <= n
  OBVIOUS
<1>2. t \in 1..n /\ a[t].k \in kinds
  BY <1>1 DEF Belongs
<1>3. t \in 1..m
  <2>1. t \notin (m + 1)..n
    BY <1>1, <1>2
  <2>2. QED
    BY <1>1, <1>2, <2>1
<1>4. b[t].k \in kinds
  BY <1>1, <1>2, <1>3
<1>5. ASSUME NEW j \in (t + 1)..m
      PROVE  b[j].k \notin between
  <2>1. j \in 1..m /\ j \in (t + 1)..n
    BY <1>1, <1>3
  <2>2. a[j].k \notin between
    BY <1>1, <2>1 DEF Belongs
  <2>3. QED
    BY <1>1, <2>1, <2>2
<1>6. QED
  BY <1>1, <1>3, <1>4, <1>5 DEF Belongs

\* A statement ends, whatever it leaves behind.
LEMMA PopFacts ==
    ASSUME TypeInv, Top.k \notin Calls, Pop
    PROVE  /\ Stack(acts') /\ CallsOf(acts') = CallsOf(acts)
           /\ Len(acts') \in Nat \ {0} /\ Len(acts') = Depth - 1
           /\ \A i \in 1..Len(acts') : acts'[i] = acts[i]
           /\ acts'[Len(acts')] = acts[Depth - 1]
           /\ acts'[Len(acts')].at = "init" => Top.k = "expr"
<1>1. PICK n \in Nat \ {0} : n = Depth /\ n = Len(acts) /\ Top = acts[n]
  BY TopFacts
<1>2. /\ Stack(acts') /\ n > 1 /\ Len(acts') = n - 1
      /\ \A i \in 1..Len(acts') : acts'[i] = acts[i]
      /\ CallsOf(acts') = CallsOf(acts) /\ Placed(acts'[Len(acts')], acts[n])
  <2>1. Stack(acts) /\ acts[Len(acts)].k \notin Calls /\ acts' = Front(acts)
    BY <1>1 DEF TypeInv, Pop
  <2>2. QED
    BY <1>1, <2>1, Popped
<1>3. acts'[Len(acts')].at = "init" => Top.k = "expr"
  BY <1>1, <1>2 DEF Placed
<1>4. n - 1 \in 1..(n - 1) /\ n - 1 \in Nat \ {0}
  BY <1>2
<1>5. acts'[n - 1] = acts[n - 1]
  BY <1>2, <1>4
<1>6. QED
  BY <1>1, <1>2, <1>3, <1>4, <1>5

\* A jump is passed on by a statement that it does not belong to.
NotItsOwn == Top.k \in {"block", "if"} \/ (Top.k \in Loops /\ flow = "return")
LEMMA JumpPassedOn ==
    ASSUME TypeInv, JumpInv, PassedOn, NotItsOwn
    PROVE  JumpInv' /\ Lands
<1>1. /\ Len(acts') \in Nat \ {0} /\ Len(acts') = Depth - 1
      /\ \A i \in 1..Len(acts') : acts'[i] = acts[i]
      /\ acts'[Len(acts')].at # "init"
  <2>1. Top.k \notin Calls /\ Top.k # "expr" /\ Pop
    BY DEF Calls, Loops, PassedOn, NotItsOwn
  <2>2. QED
    BY <2>1, PopFacts
<1>2. PICK n \in Nat \ {0}, m \in Nat \ {0} :
          /\ n = Depth /\ n = Len(acts) /\ Top = acts[n] /\ m = Len(acts') /\ m = n - 1
          /\ \A i \in 1..m : acts'[i] = acts[i]
  BY <1>1, TopFacts
<1>3. flow' = flow /\ target' = target
  BY DEF PassedOn
<1>4. \A j \in (m + 1)..n : \/ acts[j].k \in {"block", "if"}
                            \/ acts[j].k \in Loops /\ flow = "return"
  BY <1>2 DEF NotItsOwn
<1>5. CASE flow \in {"break", "continue"}
  <2>1. Belongs(acts, target, Loops, Loops \cup Calls)
    BY <1>5 DEF JumpInv, JumpsTo
  <2>2. \A j \in (m + 1)..n : acts[j].k \notin Loops
    BY <1>4, <1>5 DEF Loops
  <2>3. Belongs(acts', target, Loops, Loops \cup Calls)
    <3>1. /\ Len(acts) \in Nat /\ Len(acts') \in Nat /\ Len(acts') <= Len(acts)
          /\ \A i \in 1..Len(acts') : acts'[i] = acts[i]
          /\ \A j \in (Len(acts') + 1)..Len(acts) : acts[j].k \notin Loops
      BY <1>2, <2>2
    <3>2. QED
      BY <2>1, <3>1, BelongsShorter
  <2>4. QED
    BY <1>1, <1>3, <1>5, <2>3 DEF JumpInv, JumpsTo, Lands
<1>6. CASE flow = "return"
  <2>1. Belongs(acts, target, Calls, Calls)
    BY <1>6 DEF JumpInv, JumpsTo
  <2>2. \A j \in (m + 1)..n : acts[j].k \notin Calls
    BY <1>4 DEF Loops, Calls
  <2>3. Belongs(acts', target, Calls, Calls)
    <3>1. /\ Len(acts) \in Nat /\ Len(acts') \in Nat /\ Len(acts') <= Len(acts)
          /\ \A i \in 1..Len(acts') : acts'[i] = acts[i]
          /\ \A j \in (Len(acts') + 1)..Len(acts) : acts[j].k \notin Calls
      BY <1>2, <2>2
    <3>2. QED
      BY <2>1, <3>1, BelongsShorter
  <2>4. QED
    BY <1>1, <1>3, <1>6, <2>3 DEF JumpInv, JumpsTo, Lands
<1>7. CASE flow \notin {"break", "continue", "return"}
  BY <1>3, <1>7 DEF JumpInv, JumpsTo, Lands
<1>8. QED
  BY <1>5, <1>6, <1>7
-------------------------------------------------------------------------------
(* The steps.  First those at the beginning of a statement.                 *)

LEMMA PossibleFacts ==
    ASSUME TypeInv, NEW k \in Statements, Possible(k)
    PROVE  /\ outcome = "running" /\ flow = "none"
           /\ k \notin Calls
           /\ Top.k \notin {"expr", "return"}
           /\ Top.at = "init" => k = "expr"
<1>1. Sound(Top)
  BY TopFacts
<1>2. QED
  BY <1>1 DEF Possible, Sound, Statements, Calls, Loops

\* The statement is not evaluated, and ends normally.
LEMMA SkipStep ==
    ASSUME Inv, NEW k \in Statements, Possible(k), acts' = Begun, Ends("normal"),
           steps' \in Nat, UNCHANGED <<failed, lapses>>, Rest
    PROVE  Inv' /\ Lands
<1>1. outcome = "running" /\ flow = "none" /\ flow' = "normal" /\ value' = FALSE
  BY PossibleFacts DEF Inv, Ends
<1>2. /\ TypeInv /\ LapseInv /\ Runs /\ calls' = calls /\ failed' \in BOOLEAN
      /\ UNCHANGED <<failed, lapses, calls>>
  BY <1>1 DEF Inv, Runs, Rest, TypeInv
<1>3. Stack(acts') /\ CallsOf(acts') = CallsOf(acts)
  BY <1>2, BegunFacts
<1>4. TypeInv'
  BY <1>1, <1>2, <1>3, TypeKeptHere DEF Flows
<1>5. JumpInv' /\ Lands
  BY <1>1, NoJump, NoLanding
<1>6. LapseInv'
  BY <1>1, <1>2, LapsesKept
<1>7. QED
  BY <1>2, <1>4, <1>5, <1>6, NoValueYet DEF Inv

LEMMA SkipSteps ==
    ASSUME Inv, NEW k \in Statements, TooDeep(k) \/ OutOfSteps(k) \/ Pass(k)
    PROVE  Inv' /\ Lands
<1>1. steps \in Nat /\ Counted(steps) \in Nat
  BY ControlAssumption DEF Inv, TypeInv, Counted
<1>2. /\ Possible(k) /\ acts' = Begun /\ Ends("normal") /\ steps' \in Nat
      /\ UNCHANGED <<failed, lapses>> /\ Rest
  BY <1>1 DEF TooDeep, OutOfSteps, Pass, Entered, Free, Spend
<1>3. QED
  BY <1>2, SkipStep

LEMMA EnterStep ==
    ASSUME Inv, NEW k \in Statements, Enter(k)
    PROVE  Inv' /\ Lands
<1>1. /\ outcome = "running" /\ flow = "none" /\ k \notin Calls
      /\ Top.k \notin {"expr", "return"} /\ (Top.at = "init" => k = "expr")
  BY PossibleFacts DEF Inv, Enter, Entered
<1>2. /\ TypeInv /\ LapseInv /\ Runs /\ calls' = calls
      /\ UNCHANGED <<flow, value, failed, lapses, calls>>
  BY <1>1 DEF Inv, Runs, Enter, Rest
<1>3. steps' \in Nat
  BY ControlAssumption DEF Inv, TypeInv, Enter, Entered, Spend, Counted
<1>4. PICK b : b = Begun
  OBVIOUS
<1>5. /\ Stack(b) /\ CallsOf(b) = CallsOf(acts) /\ Len(b) = Len(acts)
      /\ \A i \in 1..Len(acts) : b[i].k = acts[i].k /\ b[i].at = acts[i].at
  BY <1>2, <1>4, BegunFacts
<1>6. PICK n \in Nat \ {0} : n = Len(acts) /\ Top = acts[n] /\ Top.depth \in 0..MaxDepth
  BY <1>2, TopFacts DEF Activation
<1>7. Top.depth + 1 \in 0..MaxDepth
  BY <1>6, ControlAssumption DEF Enter, Entered
<1>8. PICK c : c = Act(k, Top.depth + 1)
  OBVIOUS
<1>9. k \in DOMAIN First
  BY DEF Enter
<1>10. c \in Activation /\ c.k = k /\ Sound(c)
  BY <1>7, <1>8, <1>9, ActFacts
<1>11. Placed(b[Len(b)], c)
  <2>1. b[Len(b)].k = Top.k /\ b[Len(b)].at = Top.at
    BY <1>5, <1>6
  <2>2. QED
    BY <1>1, <1>10, <2>1 DEF Placed
<1>12. acts' = Append(b, c)
  BY <1>4, <1>8 DEF Enter
<1>13. Stack(acts') /\ CallsOf(acts') = CallsOf(acts)
  BY <1>1, <1>5, <1>10, <1>11, <1>12, Pushed
<1>14. TypeInv'
  BY <1>1, <1>2, <1>3, <1>13, TypeKeptHere DEF TypeInv
<1>15. JumpInv' /\ Lands
  BY <1>1, <1>2, NoJump, NoLanding
<1>16. LapseInv'
  BY <1>1, <1>2, LapsesKept
<1>17. QED
  BY <1>2, <1>14, <1>15, <1>16, NoValueYet DEF Inv

\* break and continue stand in a loop of the call they are in.
LEMMA LoopThere ==
    ASSUME TypeInv, InLoop, NEW t, t = Innermost(acts, Loops)
    PROVE  Belongs(acts, t, Loops, Loops \cup Calls)
<1>1. PICK n \in Nat \ {0} : /\ n = Len(acts) /\ 1 \in 1..n /\ acts[1].k \in Calls
                             /\ acts \in Seq(Activation)
  BY DEF TypeInv, Stack, Calls
<1>2. PICK u, c : u = Innermost(acts, Loops \cup Calls) /\ c = Innermost(acts, Calls)
  OBVIOUS
<1>3. Belongs(acts, u, Loops \cup Calls, Loops \cup Calls) /\ Belongs(acts, c, Calls, Calls)
  BY <1>1, <1>2, InnermostFacts
<1>4. u # c
  BY <1>2 DEF InLoop
<1>5. u \in 1..n /\ c \in 1..n
  BY <1>1, <1>3 DEF Belongs
<1>6. acts[u].k \in Loops
  <2>1. ASSUME acts[u].k \in Calls PROVE FALSE
    <3>1. u < c \/ c < u
      BY <1>4, <1>5
    <3>2. u < c => acts[c].k \notin Loops \cup Calls
      BY <1>1, <1>3, <1>5 DEF Belongs
    <3>3. c < u => acts[u].k \notin Calls
      BY <1>1, <1>3, <1>5 DEF Belongs
    <3>4. acts[c].k \in Calls
      BY <1>3 DEF Belongs
    <3>5. QED
      BY <2>1, <3>1, <3>2, <3>3, <3>4
  <2>2. QED
    BY <1>3, <2>1 DEF Belongs
<1>7. Belongs(acts, t, Loops, Loops)
  BY <1>1, <1>5, <1>6, InnermostFacts
<1>8. t = u
  <2>1. t \in 1..n /\ acts[t].k \in Loops
    BY <1>1, <1>7 DEF Belongs
  <2>2. t < u => acts[u].k \notin Loops
    BY <1>1, <1>5, <1>7, <2>1 DEF Belongs
  <2>3. u < t => acts[t].k \notin Loops \cup Calls
    BY <1>1, <1>3, <1>5, <2>1 DEF Belongs
  <2>4. QED
    BY <1>5, <1>6, <2>1, <2>2, <2>3
<1>9. QED
  BY <1>3, <1>6, <1>8 DEF Belongs

LEMMA JumpStep ==
    ASSUME Inv, NEW k \in Statements, Jump(k)
    PROVE  Inv' /\ Lands
<1>1. /\ outcome = "running" /\ flow = "none" /\ k \in {"break", "continue"}
      /\ Top.at # "init" /\ InLoop /\ flow' = k
  BY PossibleFacts DEF Inv, Jump, Entered, Possible
<1>2. /\ TypeInv /\ LapseInv /\ Runs /\ calls' = calls
      /\ UNCHANGED <<value, failed, lapses, calls>>
  BY <1>1 DEF Inv, Runs, Jump, Rest
<1>3. steps' \in Nat
  BY ControlAssumption DEF Inv, TypeInv, Jump, Entered, Spend, Counted
<1>4. /\ Stack(acts') /\ CallsOf(acts') = CallsOf(acts) /\ Len(acts') = Len(acts)
      /\ \A i \in 1..Len(acts) : acts'[i].k = acts[i].k /\ acts'[i].at = acts[i].at
  BY <1>2, BegunFacts DEF Jump
<1>5. TypeInv'
  BY <1>1, <1>2, <1>3, <1>4, TypeKeptHere DEF TypeInv, Flows
<1>6. Belongs(acts, target', Loops, Loops \cup Calls)
  BY <1>1, <1>2, LoopThere DEF Jump
<1>7. PICK n \in Nat \ {0} : n = Len(acts) /\ Top = acts[n]
  BY <1>2, TopFacts
<1>8. Belongs(acts', target', Loops, Loops \cup Calls)
  <2>1. PICK t \in 1..n : t = target' /\ acts[t].k \in Loops
    BY <1>6, <1>7 DEF Belongs
  <2>2. ASSUME NEW j \in (t + 1)..n
        PROVE  acts'[j].k \notin Loops \cup Calls
    <3>1. j \in 1..n
      OBVIOUS
    <3>2. acts[j].k \notin Loops \cup Calls
      BY <1>6, <1>7, <2>1 DEF Belongs
    <3>3. QED
      BY <1>4, <1>7, <3>1, <3>2
  <2>3. QED
    BY <1>4, <1>7, <2>1, <2>2 DEF Belongs
<1>9. acts'[Len(acts')].at # "init"
  BY <1>1, <1>4, <1>7
<1>10. JumpInv' /\ Lands
  BY <1>1, <1>8, <1>9, NoLanding DEF JumpInv, JumpsTo
<1>11. LapseInv'
  BY <1>1, <1>2, LapsesKept
<1>12. QED
  BY <1>2, <1>5, <1>10, <1>11, NoValueYet DEF Inv
-------------------------------------------------------------------------------
(* Expressions, conditions and iterations.                                  *)

LEMMA ExpressionStep ==
    ASSUME Inv, NEW fails \in BOOLEAN, Expression(fails)
    PROVE  Inv' /\ Lands
<1>1. /\ outcome = "running" /\ flow \in {"none", "value"} /\ Top.at = "eval" /\ Pop
      /\ Gives(fails) /\ calls' = calls
      /\ flow' = (IF Top.k = "return" THEN "return" ELSE "normal")
      /\ value' \in BOOLEAN
  BY DEF Expression, Rest, Gives, Evaluating
<1>2. TypeInv /\ LapseInv /\ Runs
  BY <1>1 DEF Inv, Runs, Expression, Rest
<1>3. /\ acts \in Seq(Activation) /\ Len(acts) \in Nat \ {0} /\ Depth = Len(acts)
      /\ Top = acts[Depth] /\ Top.k \in {"expr", "return"} /\ Top.k \notin Calls
  BY <1>1, <1>2, TopFacts DEF Sound, Calls
<1>4. /\ Stack(acts') /\ CallsOf(acts') = CallsOf(acts)
      /\ Len(acts') \in Nat \ {0} /\ Len(acts') = Depth - 1
      /\ \A i \in 1..Len(acts') : acts'[i] = acts[i]
      /\ acts'[Len(acts')] = acts[Depth - 1]
      /\ acts'[Len(acts')].at = "init" => Top.k = "expr"
  BY <1>1, <1>2, <1>3, PopFacts
<1>5. /\ steps' \in Nat /\ failed' \in BOOLEAN
      /\ lapses' \subseteq {"init", "condition", "failed"}
      /\ failed' => lapses' # {}
      /\ entry = "fold" /\ lapses' # {} => failed'
      /\ Pending' => failed'
      /\ Pending' /\ calls = 1 => acts[Depth - 1].at # "init"
  BY <1>1, <1>2, GivesFacts
<1>6. flow' \in Flows /\ flow' \notin {"none", "value"}
  BY <1>1 DEF Flows
<1>7. TypeInv'
  BY <1>1, <1>2, <1>4, <1>5, <1>6, TypeKeptHere
<1>8. JumpInv'
  <2>1. CASE Top.k = "return"
    <3>1. flow' = "return" /\ target' = Innermost(acts, Calls)
      BY <1>1, <2>1 DEF Expression
    <3>2. acts[1].k \in Calls /\ 1 \in 1..Len(acts)
      BY <1>2, <1>3 DEF TypeInv, Stack, Calls
    <3>3. Belongs(acts, target', Calls, Calls)
      BY <1>3, <3>1, <3>2, InnermostFacts
    <3>4. /\ Len(acts) \in Nat /\ Len(acts') \in Nat /\ Len(acts') <= Len(acts)
          /\ \A j \in (Len(acts') + 1)..Len(acts) : acts[j].k \notin Calls
      BY <1>3, <1>4
    <3>5. Belongs(acts', target', Calls, Calls)
      BY <1>4, <3>3, <3>4, BelongsShorter
    <3>6. QED
      BY <1>4, <2>1, <3>1, <3>5 DEF JumpInv, JumpsTo
  <2>2. CASE Top.k # "return"
    BY <1>1, <2>2, NoJump
  <2>3. QED
    BY <2>1, <2>2
<1>9. LapseInv'
  BY <1>1, <1>2, <1>4, <1>5, <1>6 DEF LapseInv, Runs, Bars
<1>10. QED
  BY <1>1, <1>2, <1>7, <1>8, <1>9, NoLanding, NoValueYet DEF Inv

LEMMA InvokeStep ==
    ASSUME Inv, NEW c \in Calls, Invoke(c)
    PROVE  Inv' /\ Lands
<1>1. /\ Evaluating /\ outcome = "running" /\ flow \in {"none", "value"}
      /\ Top.at \in Parts /\ calls < MaxCalls /\ calls' = calls + 1
      /\ acts' = Append(acts, Act(c, 0))
      /\ flow' = "none" /\ failed' = StillFailed
      /\ UNCHANGED <<entry, value, target, lapses, outcome>>
  BY DEF Invoke, MoreCalls, Inside, Evaluating
<1>2. TypeInv /\ LapseInv /\ Runs /\ Stack(acts)
  BY <1>1 DEF Inv, Runs, TypeInv
<1>3. /\ Len(acts) \in Nat \ {0} /\ Depth = Len(acts)
      /\ Top = acts[Depth] /\ Top.at \in Parts
  BY <1>1, <1>2, TopFacts
<1>4. PICK n : n = Act(c, 0)
  OBVIOUS
<1>5. c \in DOMAIN First /\ 0 \in 0..MaxDepth
  BY KindsOfFirst, ControlAssumption DEF Calls
<1>6. n \in Activation /\ n.k = c /\ Sound(n)
  BY <1>4, <1>5, ActFacts
<1>7. Placed(acts[Len(acts)], n)
  BY <1>3, <1>6 DEF Placed
<1>8. Stack(acts') /\ CallsOf(acts') = CallsOf(acts) \cup {Len(acts) + 1}
  BY <1>1, <1>2, <1>4, <1>6, <1>7, Pushed
<1>9. calls' = Cardinality(CallsOf(acts'))
  <2>1. CallsOf(acts) \subseteq 1..Len(acts) /\ IsFiniteSet(CallsOf(acts))
    BY <1>2, CountedCalls
  <2>2. Len(acts) + 1 \notin CallsOf(acts)
    BY <1>3, <2>1
  <2>3. Cardinality(CallsOf(acts) \cup {Len(acts) + 1}) = Cardinality(CallsOf(acts)) + 1
    BY <2>1, <2>2, FS_AddElement
  <2>4. QED
    BY <1>1, <1>2, <1>8, <2>3 DEF TypeInv
<1>10. calls' <= MaxCalls
  BY <1>1, <1>2, ControlAssumption DEF TypeInv
<1>11. /\ StillFailed \in BOOLEAN /\ (StillFailed => failed)
       /\ entry = "fold" => StillFailed = failed
       /\ Pending => StillFailed
  BY <1>1, <1>2, StillFacts
<1>12. steps' \in Nat
  BY ControlAssumption DEF Inv, TypeInv, Invoke, Inside, Counted, CountedFrom
<1>13. TypeInv'
  BY <1>1, <1>2, <1>8, <1>9, <1>10, <1>11, <1>12, TypeKept DEF TypeInv, Flows
<1>14. JumpInv' /\ Lands
  BY <1>1, NoJump, NoLanding
<1>15. LapseInv'
  <2>1. calls' # 1
    BY <1>1, <1>2, SomeCalls
  <2>2. QED
    BY <1>1, <1>2, <1>11, <2>1 DEF LapseInv, Pending
<1>16. QED
  BY <1>2, <1>13, <1>14, <1>15, NoValueYet DEF Inv

\* Something in the expression has given a value.
LEMMA InsideStep ==
    ASSUME Inv, Inside, Rest, UNCHANGED <<acts, value, target>>, flow' = "value",
           failed' \in BOOLEAN, LapseInv'
    PROVE  Inv' /\ Lands
<1>1. TypeInv /\ Runs /\ flow \in {"none", "value"} /\ calls' = calls
  BY DEF Inv, Inside, Evaluating, Runs, Rest
<1>2. steps' \in Nat
  BY ControlAssumption DEF Inv, TypeInv, Inside, Counted, CountedFrom
<1>3. Stack(acts') /\ CallsOf(acts') = CallsOf(acts) /\ value' \in BOOLEAN
  BY DEF Inv, TypeInv
<1>4. TypeInv'
  BY <1>1, <1>2, <1>3, TypeKeptHere DEF Flows
<1>5. QED
  BY <1>1, <1>4, NoJump, NoLanding, NoValueYet DEF Inv

LEMMA NoCallbackStep ==
    ASSUME Inv, NoCallback
    PROVE  Inv' /\ Lands
<1>1. /\ Inside /\ Evaluating /\ failed' = TRUE /\ flow' = "value"
      /\ lapses' = lapses \cup {SwallowedIn(acts)} /\ acts' = acts
      /\ UNCHANGED <<acts, value, target>> /\ Rest
  BY DEF NoCallback, Inside
<1>2. TypeInv /\ LapseInv /\ Top = acts[Len(acts)] /\ Last(acts) = Top
  BY TopFacts DEF Inv, Top
<1>3. SwallowedIn(acts) \in {"init", "condition", "failed"}
  BY DEF SwallowedIn, Where
<1>4. Pending' => Bars(acts, "value")
  <2>1. ASSUME Pending' PROVE Bars(acts, "value")
    <3>1. SwallowedIn(acts) \notin {"init", "condition"}
      BY <1>1, <2>1 DEF Pending
    <3>2. Top.at = "eval" /\ Where(acts) # "init"
      BY <1>2, <3>1 DEF SwallowedIn
    <3>3. QED
      BY <1>2, <3>2 DEF Where, Bars
  <2>2. QED
    BY <2>1
<1>5. LapseInv'
  BY <1>1, <1>2, <1>3, <1>4 DEF LapseInv
<1>6. QED
  BY <1>1, <1>5, InsideStep

LEMMA ReserveStep ==
    ASSUME Inv, NEW want, Reserve(want)
    PROVE  Inv' /\ Lands
<1>1. /\ Inside /\ Evaluating /\ failed' = StillFailed /\ flow' = "value"
      /\ UNCHANGED <<acts, value, target, lapses>> /\ Rest
  BY DEF Reserve, Inside
<1>2. TypeInv /\ LapseInv /\ Depth = Len(acts)
  BY TopFacts DEF Inv
<1>3. /\ StillFailed \in BOOLEAN /\ (StillFailed => failed)
      /\ entry = "fold" => StillFailed = failed
      /\ Pending => StillFailed
      /\ Pending /\ calls = 1 =>
             Started /\ acts[Depth].at = "eval" /\ acts[Depth - 1].at # "init"
  BY <1>1, <1>2, StillFacts
<1>4. LapseInv'
  BY <1>1, <1>2, <1>3 DEF LapseInv, Pending, Bars, Rest
<1>5. QED
  BY <1>1, <1>3, <1>4, InsideStep

\* The statement on top goes on, after an expression or without one.
LEMMA OnwardStep ==
    ASSUME Inv, Runs, calls' = calls, flow \in {"none", "value"}, steps' \in Nat,
           failed' \in BOOLEAN,
           Stack(acts'), CallsOf(acts') = CallsOf(acts),
           flow' = "none", value' = FALSE, LapseInv'
    PROVE  Inv' /\ Lands
<1>1. TypeInv'
  BY TypeKeptHere DEF Inv, Flows
<1>2. JumpInv' /\ Lands
  BY NoJump, NoLanding
<1>3. QED
  BY <1>1, <1>2, NoValueYet DEF Inv

\* The statement on top ends normally.
LEMMA EndStep ==
    ASSUME Inv, Runs, calls' = calls, steps' \in Nat, failed' \in BOOLEAN,
           Stack(acts'), CallsOf(acts') = CallsOf(acts),
           Ends("normal"), LapseInv', Lands
    PROVE  Inv' /\ Lands
<1>1. TypeInv'
  BY TypeKeptHere DEF Inv, Flows, Ends
<1>2. JumpInv'
  BY NoJump DEF Ends
<1>3. QED
  BY <1>1, <1>2, NoValueYet DEF Inv

LEMMA GoesOnStep ==
    ASSUME Inv, Rest, Gives(FALSE), Top.at # "eval",
           NEW where \in Places, where # "eval",
           where \in {"init", "cond", "inc", "iterate"} => Top.k \in Loops \cup {"if"},
           Goes(where)
    PROVE  Inv' /\ Lands
<1>1. TypeInv /\ LapseInv /\ Runs /\ calls' = calls /\ flow \in {"none", "value"}
  BY DEF Inv, Runs, Rest, Gives, Evaluating
<1>2. /\ Stack(acts') /\ CallsOf(acts') = CallsOf(acts)
      /\ flow' = "none" /\ value' = FALSE
  BY <1>1, GoesFacts
<1>3. /\ steps' \in Nat /\ failed' \in BOOLEAN
      /\ lapses' \subseteq {"init", "condition", "failed"}
      /\ failed' => lapses' # {}
      /\ entry = "fold" /\ lapses' # {} => failed'
      /\ Pending' => failed'
      /\ Pending' /\ calls = 1 => acts[Depth].at = "eval"
  <2>1. FALSE \in BOOLEAN
    OBVIOUS
  <2>2. QED
    BY <1>1, <2>1, GivesFacts
<1>4. LapseInv'
  BY <1>1, <1>3, TopFacts DEF LapseInv, Runs
<1>5. QED
  BY <1>1, <1>2, <1>3, <1>4, OnwardStep

\* A statement ends at a condition or an increment.
LEMMA StopsStep ==
    ASSUME Inv, Rest, NEW fails \in BOOLEAN, Gives(fails), Top.at \in {"cond", "inc"},
           Pop, Ends("normal")
    PROVE  Inv' /\ Lands
<1>1. TypeInv /\ LapseInv /\ Runs /\ calls' = calls /\ flow \in {"none", "value"}
  BY DEF Inv, Runs, Rest, Gives, Evaluating
<1>2. Top.k \notin Calls
  BY <1>1, TopFacts DEF Sound, Loops, Calls
<1>3. /\ Stack(acts') /\ CallsOf(acts') = CallsOf(acts)
      /\ acts'[Len(acts')] = acts[Depth - 1]
  BY <1>1, <1>2, PopFacts
<1>4. /\ steps' \in Nat /\ failed' \in BOOLEAN
      /\ lapses' \subseteq {"init", "condition", "failed"}
      /\ failed' => lapses' # {}
      /\ entry = "fold" /\ lapses' # {} => failed'
      /\ Pending' => failed'
      /\ Pending' /\ calls = 1 => acts[Depth - 1].at # "init"
  BY <1>1, GivesFacts
<1>5. LapseInv'
  BY <1>1, <1>3, <1>4 DEF LapseInv, Runs, Ends, Bars
<1>6. QED
  BY <1>1, <1>3, <1>4, <1>5, NoLanding, EndStep

LEMMA ConditionStep ==
    ASSUME Inv, NEW holds \in BOOLEAN, Condition(holds)
    PROVE  Inv' /\ Lands
<1>1. Rest /\ Gives(FALSE) /\ Top.at = "cond" /\ Top.at # "eval"
  BY DEF Condition
<1>2. CASE holds
  <2>1. PICK where \in Places : /\ where \in {"body", "iterate"} /\ Goes(where)
                                /\ where = IF Top.k = "if" THEN "body" ELSE "iterate"
    BY <1>2 DEF Condition, Places
  <2>2. where # "eval" /\ Top.k \in Loops \cup {"if"}
    BY <1>1, <2>1, TopFacts DEF Sound, Inv
  <2>3. QED
    BY <1>1, <2>1, <2>2, GoesOnStep
<1>3. CASE ~holds
  <2>1. Pop /\ Ends("normal") /\ Top.at \in {"cond", "inc"} /\ FALSE \in BOOLEAN
    BY <1>1, <1>3 DEF Condition
  <2>2. QED
    BY <1>1, <2>1, StopsStep
<1>4. QED
  BY <1>2, <1>3

LEMMA IncrementStep ==
    ASSUME Inv, Increment
    PROVE  Inv' /\ Lands
<1>1. /\ Rest /\ Gives(FALSE) /\ Top.at = "inc" /\ Top.at # "eval"
      /\ Goes("cond") /\ "cond" # "eval"
  BY DEF Increment
<1>2. "cond" \in Places /\ Top.k \in Loops \cup {"if"}
  BY <1>1, TopFacts DEF Sound, Inv, Places
<1>3. QED
  BY <1>1, <1>2, GoesOnStep

LEMMA NotConstantStep ==
    ASSUME Inv, NotConstant
    PROVE  Inv' /\ Lands
<1>1. /\ Rest /\ Gives(TRUE)
      /\ Top.at \in {"cond", "inc"} /\ Pop /\ Ends("normal") /\ TRUE \in BOOLEAN
  BY DEF NotConstant
<1>2. QED
  BY <1>1, StopsStep

LEMMA AbsentStep ==
    ASSUME Inv, Absent
    PROVE  Inv' /\ Lands
<1>1. /\ TypeInv /\ LapseInv /\ Runs /\ calls' = calls /\ flow = "none"
      /\ Top.k = "for" /\ UNCHANGED <<failed, lapses, steps, calls>>
  BY DEF Inv, Runs, Rest, Free, Absent
<1>2. PICK where \in Places : where \in {"cond", "iterate"} /\ Goes(where)
  BY DEF Absent, Places
<1>3. /\ Stack(acts') /\ CallsOf(acts') = CallsOf(acts)
      /\ flow' = "none" /\ value' = FALSE
  BY <1>1, <1>2, GoesFacts DEF Loops
<1>4. LapseInv'
  BY <1>1, LapsesKept
<1>5. QED
  BY <1>1, <1>3, <1>4, OnwardStep DEF TypeInv

LEMMA IterateStep ==
    ASSUME Inv, Iterate
    PROVE  Inv' /\ Lands
<1>1. /\ TypeInv /\ LapseInv /\ Runs /\ calls' = calls /\ flow = "none"
      /\ Top.at = "iterate" /\ UNCHANGED <<failed, lapses, calls>>
      /\ failed' \in BOOLEAN /\ steps' \in Nat
  BY ControlAssumption DEF Inv, Runs, Rest, Iterate, TypeInv, Spend, Counted
<1>2. LapseInv'
  BY <1>1, LapsesKept
<1>3. CASE Allowed
  <2>1. "body" \in Places /\ Goes("body")
    BY <1>3 DEF Iterate, Places
  <2>2. /\ Stack(acts') /\ CallsOf(acts') = CallsOf(acts)
        /\ flow' = "none" /\ value' = FALSE
    BY <1>1, <2>1, GoesFacts
  <2>3. QED
    BY <1>1, <1>2, <2>2, OnwardStep
<1>4. CASE ~Allowed
  <2>1. Pop /\ Ends("normal")
    BY <1>4 DEF Iterate
  <2>2. Top.k \notin Calls
    BY <1>1, TopFacts DEF Sound, Loops, Calls
  <2>3. Stack(acts') /\ CallsOf(acts') = CallsOf(acts)
    BY <1>1, <2>1, <2>2, PopFacts
  <2>4. QED
    BY <1>1, <1>2, <2>1, <2>3, NoLanding, EndStep
<1>5. QED
  BY <1>3, <1>4
-------------------------------------------------------------------------------
(* The steps of a statement when a part of it has been evaluated.           *)

\* Nothing but the stack and the flow changes.
LEMMA ResumingFacts ==
    ASSUME Inv, outcome = "running", Free, Rest
    PROVE  /\ TypeInv /\ JumpInv /\ LapseInv /\ Runs /\ calls' = calls
           /\ UNCHANGED <<failed, lapses, calls>> /\ failed' \in BOOLEAN /\ steps' \in Nat
           /\ flow \in Flows
BY DEF Inv, Runs, Free, Rest, TypeInv

\* The statement ends normally, since something has failed or the flow ends with it.
LEMMA EndsHere ==
    ASSUME Inv, outcome = "running", Free, Rest,
           Top.k \in Loops \cup {"block", "if"}, Pop, Ends("normal"), Lands
    PROVE  Inv' /\ Lands
<1>1. /\ TypeInv /\ LapseInv /\ Runs /\ calls' = calls
      /\ UNCHANGED <<failed, lapses, calls>> /\ failed' \in BOOLEAN /\ steps' \in Nat
  BY ResumingFacts
<1>2. Top.k \notin Calls /\ Top.k # "expr"
  BY DEF Loops, Calls
<1>3. /\ Stack(acts') /\ CallsOf(acts') = CallsOf(acts)
      /\ acts'[Len(acts')].at # "init"
  BY <1>1, <1>2, PopFacts
<1>4. LapseInv'
  BY <1>1, <1>3, LapsesPassedOn DEF Ends, Bars
<1>5. QED
  BY <1>1, <1>3, <1>4, EndStep

\* The statement passes on what has ended it.
LEMMA PassesOn ==
    ASSUME Inv, outcome = "running", flow \notin {"none", "value"}, Free, Rest,
           NotItsOwn, PassedOn
    PROVE  Inv' /\ Lands
<1>1. /\ TypeInv /\ JumpInv /\ LapseInv /\ Runs /\ calls' = calls
      /\ UNCHANGED <<failed, lapses, calls>> /\ failed' \in BOOLEAN /\ steps' \in Nat
  BY ResumingFacts
<1>2. JumpInv' /\ Lands
  BY <1>1, JumpPassedOn
<1>3. Top.k \notin Calls /\ Top.k # "expr" /\ Pop /\ flow' = flow /\ value' = value
  BY DEF Loops, Calls, PassedOn, NotItsOwn
<1>4. /\ Stack(acts') /\ CallsOf(acts') = CallsOf(acts)
      /\ acts'[Len(acts')].at # "init"
  BY <1>1, <1>3, PopFacts
<1>5. LapseInv'
  BY <1>1, <1>3, <1>4, LapsesPassedOn DEF Bars
<1>6. TypeInv'
  BY <1>1, <1>3, <1>4, TypeKeptHere DEF TypeInv
<1>7. QED
  BY <1>1, <1>2, <1>5, <1>6, NoValueYet DEF Inv

\* The statement goes on with the next of its parts.
LEMMA GoesOnHere ==
    ASSUME Inv, outcome = "running", Free, Rest,
           NEW where \in Places, where # "eval",
           where \in {"init", "cond", "inc", "iterate"} => Top.k \in Loops \cup {"if"},
           Goes(where), ~failed \/ Top.at = "init", Lands
    PROVE  Inv' /\ Lands
<1>1. /\ TypeInv /\ LapseInv /\ Runs /\ calls' = calls
      /\ UNCHANGED <<failed, lapses, calls>> /\ failed' \in BOOLEAN /\ steps' \in Nat
  BY ResumingFacts
<1>2. /\ Stack(acts') /\ CallsOf(acts') = CallsOf(acts)
      /\ flow' = "none" /\ value' = FALSE
  BY <1>1, GoesFacts
<1>3. Top = acts[Len(acts)]
  BY <1>1, TopFacts
<1>4. ~Pending \/ calls # 1
  BY <1>1, <1>3 DEF LapseInv, Bars
<1>5. LapseInv'
  BY <1>1, <1>4, LapsesPassedOn
<1>6. TypeInv'
  BY <1>1, <1>2, TypeKeptHere DEF Flows
<1>7. JumpInv'
  BY <1>2, NoJump
<1>8. QED
  BY <1>1, <1>5, <1>6, <1>7, NoValueYet DEF Inv

LEMMA InBlockStep ==
    ASSUME Inv, InBlock
    PROVE  Inv' /\ Lands
<1>1. /\ outcome = "running" /\ flow \notin {"none", "value"} /\ Top.k = "block" /\ Free /\ Rest
      /\ flow \in Flows
  BY DEF InBlock, Resuming, Inv, TypeInv
<1>2. CASE failed
  <2>1. Pop /\ Ends("normal") /\ Top.k \in Loops \cup {"block", "if"} /\ Lands
    BY <1>1, <1>2 DEF InBlock, Lands
  <2>2. QED
    BY <1>1, <2>1, EndsHere
<1>3. CASE ~failed /\ flow = "normal"
  <2>1. Goes("next") /\ "next" \in Places /\ "next" # "eval" /\ Lands
    BY <1>3, NoLanding DEF InBlock, Places
  <2>2. "next" \notin {"init", "cond", "inc", "iterate"}
    OBVIOUS
  <2>3. QED
    BY <1>1, <1>3, <2>1, <2>2, GoesOnHere
<1>4. CASE ~failed /\ flow # "normal"
  <2>1. PassedOn
    BY <1>4 DEF InBlock
  <2>2. NotItsOwn
    BY <1>1 DEF NotItsOwn
  <2>3. QED
    BY <1>1, <2>1, <2>2, PassesOn
<1>5. QED
  BY <1>2, <1>3, <1>4

LEMMA EndOfBlockStep ==
    ASSUME Inv, EndOfBlock
    PROVE  Inv' /\ Lands
<1>1. /\ outcome = "running" /\ flow = "none" /\ Top.k \in Loops \cup {"block", "if"}
      /\ Free /\ Rest /\ Pop /\ Ends("normal")
  BY DEF EndOfBlock
<1>2. Lands
  BY <1>1, NoLanding
<1>3. QED
  BY <1>1, <1>2, EndsHere

LEMMA AfterBranchStep ==
    ASSUME Inv, AfterBranch
    PROVE  Inv' /\ Lands
<1>1. outcome = "running" /\ flow \notin {"none", "value"} /\ Free /\ Rest /\ PassedOn
  BY DEF AfterBranch, Resuming
<1>2. NotItsOwn
  BY DEF AfterBranch, Resuming, NotItsOwn
<1>3. QED
  BY <1>1, <1>2, PassesOn

\* The loop on top is the one that a break or continue belongs to.
LEMMA LandsInLoop ==
    ASSUME Inv, flow \in {"break", "continue"}, Top.k \in Loops
    PROVE  target = Depth
<1>1. PICK n \in Nat \ {0} : n = Depth /\ n = Len(acts) /\ Top = acts[n]
  BY TopFacts DEF Inv
<1>2. Belongs(acts, target, Loops, Loops \cup Calls)
  BY DEF Inv, JumpInv, JumpsTo
<1>3. target \in 1..n
  BY <1>1, <1>2 DEF Belongs
<1>4. n \notin (target + 1)..n
  BY <1>1, <1>2 DEF Belongs
<1>5. QED
  BY <1>1, <1>3, <1>4

LEMMA AfterBodyStep ==
    ASSUME Inv, AfterBody
    PROVE  Inv' /\ Lands
<1>1. /\ outcome = "running" /\ flow \notin {"none", "value"} /\ Top.k \in Loops /\ Free /\ Rest
      /\ flow \in Flows
  BY DEF AfterBody, Resuming, Inv, TypeInv
<1>2. CASE failed \/ flow = "break"
  <2>1. Pop /\ Ends("normal") /\ Top.k \in Loops \cup {"block", "if"}
    BY <1>1, <1>2 DEF AfterBody
  <2>2. Lands
    BY <1>1, <1>2, LandsInLoop DEF Lands, Landed
  <2>3. QED
    BY <1>1, <2>1, <2>2, EndsHere
<1>3. CASE ~failed /\ flow = "return"
  <2>1. PassedOn
    BY <1>3 DEF AfterBody
  <2>2. NotItsOwn
    BY <1>1, <1>3 DEF NotItsOwn
  <2>3. QED
    BY <1>1, <2>1, <2>2, PassesOn
<1>4. CASE ~failed /\ flow \in {"normal", "continue"}
  <2>1. PICK where \in Places : where \in {"inc", "cond"} /\ Goes(where)
    <3>1. Goes(IF Top.k = "for" THEN "inc" ELSE "cond")
      BY <1>4 DEF AfterBody
    <3>2. QED
      BY <3>1 DEF Places
  <2>2. Len(acts') = Len(acts) /\ Depth = Len(acts)
    <3>1. TypeInv /\ (where = "eval" => Top.k \in {"expr", "return"})
      BY <2>1 DEF Inv
    <3>2. QED
      BY <1>1, <2>1, <3>1, GoesFacts, TopFacts
  <2>3. Lands
    BY <1>1, <1>4, <2>2, LandsInLoop DEF Lands, Landed
  <2>4. where # "eval" /\ Top.k \in Loops \cup {"if"}
    BY <1>1, <2>1
  <2>5. QED
    BY <1>1, <1>4, <2>1, <2>3, <2>4, GoesOnHere
<1>5. QED
  BY <1>1, <1>2, <1>3, <1>4 DEF Flows

LEMMA AfterInitStep ==
    ASSUME Inv, AfterInit
    PROVE  Inv' /\ Lands
<1>1. /\ outcome = "running" /\ Top.k = "for" /\ Top.at = "init" /\ Free /\ Rest
      /\ Goes("cond") /\ "cond" \in Places /\ "cond" # "eval"
      /\ Top.k \in Loops \cup {"if"}
  BY DEF AfterInit, Resuming, Places, Loops
<1>2. flow \notin {"break", "continue", "return"}
  <2>1. Top = acts[Len(acts)]
    BY TopFacts DEF Inv
  <2>2. QED
    BY <1>1, <2>1 DEF Inv, JumpInv, JumpsTo
<1>3. Lands
  BY <1>2 DEF Lands
<1>4. QED
  BY <1>1, <1>3, GoesOnHere

-------------------------------------------------------------------------------
(* The end of a call.                                                       *)

LEMMA FinishStep ==
    ASSUME Inv, Finish
    PROVE  Inv' /\ Lands
<1>1. /\ TypeInv /\ JumpInv /\ LapseInv /\ outcome = "running"
      /\ UNCHANGED <<entry, acts, flow, value, target, failed, steps, lapses>>
      /\ outcome' = (IF Result THEN "value" ELSE "none") /\ calls' = calls - 1
  BY DEF Inv, Finish, Resuming, Free
<1>2. calls \in Nat \ {0} /\ calls <= MaxCalls
  BY <1>1, SomeCalls DEF TypeInv
<1>3. calls' \in Nat /\ calls' <= MaxCalls
  BY <1>1, <1>2, ControlAssumption
<1>4. TypeInv'
  BY <1>1, <1>3 DEF TypeInv
<1>5. JumpInv' /\ LapseInv' /\ Lands
  <2>1. acts[1].k \in Calls /\ CallsOf(acts) = {1}
    <3>1. Stack(acts) /\ Len(acts) = 1
      BY <1>1 DEF TypeInv, Finish, Depth
    <3>2. QED
      BY <3>1 DEF Stack, CallsOf, Calls
  <2>2. calls = 1
    BY <1>1, <2>1, FS_Singleton DEF TypeInv
  <2>3. calls' # 1
    BY <1>1, <2>2
  <2>4. QED
    BY <1>1, <2>3 DEF JumpInv, LapseInv, Lands, Pending
<1>6. ValueIsEarned'
  <2>1. ASSUME outcome' = "value", lapses' # {}
        PROVE  entry' = "query" /\ lapses' \cap {"init", "condition"} # {}
    <3>1. ~failed /\ lapses # {}
      BY <1>1, <2>1 DEF Result
    <3>2. QED
      BY <1>1, <3>1 DEF LapseInv, TypeInv, Pending
  <2>2. QED
    BY <2>1 DEF ValueIsEarned
<1>7. QED
  BY <1>4, <1>5, <1>6 DEF Inv

\* A jump that reaches a call has been made for it.
LEMMA LandsInCall ==
    ASSUME Inv, Top.k \in Calls
    PROVE  Lands
<1>1. TypeInv /\ JumpInv
  BY DEF Inv
<1>2. PICK n \in Nat \ {0} : n = Depth /\ n = Len(acts) /\ Top = acts[n]
  BY <1>1, TopFacts
<1>3. Lands
  <2>1. CASE flow \in {"break", "continue"}
    <3>1. Belongs(acts, target, Loops, Loops \cup Calls)
      BY <1>1, <2>1 DEF JumpInv, JumpsTo
    <3>2. target \in 1..n /\ acts[target].k \in Loops
      BY <1>2, <3>1 DEF Belongs
    <3>3. n \notin (target + 1)..n
      BY <1>1, <1>2, <3>1 DEF Belongs
    <3>4. target = n
      BY <3>2, <3>3
    <3>5. QED
      BY <1>2, <3>2, <3>4 DEF Loops, Calls
  <2>2. CASE flow = "return"
    <3>1. Belongs(acts, target, Calls, Calls)
      BY <1>1, <2>2 DEF JumpInv, JumpsTo
    <3>2. target \in 1..n
      BY <1>2, <3>1 DEF Belongs
    <3>3. n \notin (target + 1)..n
      BY <1>1, <1>2, <3>1 DEF Belongs
    <3>4. target = n
      BY <3>2, <3>3
    <3>5. QED
      BY <1>2, <2>2, <3>4 DEF Lands, Landed
  <2>3. CASE flow \notin {"break", "continue", "return"}
    BY <2>3 DEF Lands
  <2>4. QED
    BY <2>1, <2>2, <2>3
<1>4. QED
  BY <1>3

LEMMA CallGivesStep ==
    ASSUME Inv, CallGives
    PROVE  Inv' /\ Lands
<1>1. /\ TypeInv /\ LapseInv /\ Runs /\ Top.k \in Calls /\ Depth > 1
      /\ acts' = Front(acts) /\ steps' \in Nat /\ failed' \in BOOLEAN
      /\ flow' = "value" /\ value' = FALSE /\ calls' = calls - 1
      /\ failed' = failed /\ (Result \/ Top.k = "callback")
      /\ lapses' = (IF Result THEN lapses ELSE lapses \cup {SwallowedIn(Front(acts))})
  BY DEF Inv, CallGives, Resuming, Runs, TypeInv, Pop
<1>2. PICK n \in Nat \ {0} : /\ n = Depth /\ n = Len(acts) /\ Top = acts[n]
                             /\ acts \in Seq(Activation) /\ Stack(acts)
  BY <1>1, TopFacts DEF TypeInv
<1>3. PICK b : b = Front(acts) /\ b = acts'
  BY <1>1
<1>4. /\ Stack(b) /\ Len(b) = n - 1
      /\ CallsOf(b) = CallsOf(acts) \ {n} /\ n \in CallsOf(acts)
  <2>1. Len(acts) > 1 /\ acts[Len(acts)].k \in Calls
    BY <1>1, <1>2
  <2>2. QED
    BY <1>2, <1>3, <2>1, CallPopped
<1>5. Cardinality(CallsOf(b)) = Cardinality(CallsOf(acts)) - 1
  <2>1. IsFiniteSet(CallsOf(acts))
    BY <1>2, CountedCalls
  <2>2. QED
    BY <1>4, <2>1, FS_RemoveElement
<1>6. calls' = Cardinality(CallsOf(acts')) /\ calls' <= MaxCalls
  BY <1>1, <1>3, <1>5, ControlAssumption DEF TypeInv, Runs
<1>7. TypeInv'
  BY <1>1, <1>3, <1>4, <1>6, TypeKept DEF Flows
<1>8. LapseInv'
  <2>1. CASE Result
    <3>1. ~failed /\ lapses' = lapses
      BY <1>1, <2>1 DEF Result
    <3>2. QED
      BY <1>1, <3>1 DEF LapseInv, Pending, Runs
  <2>2. CASE ~Result
    <3>1. failed
      BY <1>1, <2>2 DEF Result
    <3>2. lapses' = lapses \cup {SwallowedIn(b)}
      BY <1>1, <1>3, <2>2
    <3>3. SwallowedIn(b) \in {"init", "condition", "failed"}
      BY DEF SwallowedIn, Where
    <3>4. Pending' => Bars(b, "value")
      <4>1. ASSUME Pending' PROVE Bars(b, "value")
        <5>1. SwallowedIn(b) \notin {"init", "condition"}
          BY <3>2, <4>1 DEF Pending
        <5>2. Last(b).at = "eval" /\ Where(b) # "init" /\ Last(b) = b[Len(b)]
          BY <5>1 DEF SwallowedIn, Last
        <5>3. QED
          BY <5>2 DEF Where, Bars
      <4>2. QED
        BY <4>1
    <3>5. QED
      BY <1>1, <1>3, <3>1, <3>2, <3>3, <3>4 DEF LapseInv
  <2>3. QED
    BY <2>1, <2>2
<1>9. QED
  BY <1>1, <1>7, <1>8, LandsInCall, NoJump, NoValueYet DEF Inv

LEMMA CallFailsStep ==
    ASSUME Inv, CallFails
    PROVE  Inv' /\ Lands
<1>1. /\ TypeInv /\ JumpInv /\ LapseInv /\ Runs
      /\ Top.k \in Calls /\ Depth > 1
      /\ acts' = SubSeq(acts, 1, Depth - 2)
      /\ steps' \in Nat /\ value' = FALSE /\ failed' = TRUE /\ calls' = calls - 1
  BY DEF Inv, CallFails, Resuming, Runs, TypeInv
<1>2. PICK n \in Nat \ {0} : /\ n = Depth /\ n = Len(acts) /\ Top = acts[n]
                             /\ acts \in Seq(Activation) /\ Stack(acts)
  BY <1>1, TopFacts DEF TypeInv
<1>3. /\ Stack(acts') /\ n > 2 /\ Len(acts') = n - 2
      /\ \A i \in 1..Len(acts') : acts'[i] = acts[i]
      /\ CallsOf(acts') = CallsOf(acts) \ {n} /\ n \in CallsOf(acts)
      /\ acts[n - 1].k \notin Calls
      /\ Placed(acts'[Len(acts')], acts[n - 1])
  <2>1. Len(acts) > 1 /\ acts[Len(acts)].k \in Calls
        /\ acts' = SubSeq(acts, 1, Len(acts) - 2)
    BY <1>1, <1>2
  <2>2. Stack(acts)
    BY <1>2
  <2>3. /\ Stack(acts') /\ Len(acts) > 2 /\ Len(acts') = Len(acts) - 2
        /\ \A i \in 1..Len(acts') : acts'[i] = acts[i]
        /\ CallsOf(acts') = CallsOf(acts) \ {Len(acts)} /\ Len(acts) \in CallsOf(acts)
        /\ acts[Len(acts) - 1].k \notin Calls
        /\ Placed(acts'[Len(acts')], acts[Len(acts) - 1])
    <3>1. PICK b : b = acts' /\ b = SubSeq(acts, 1, Len(acts) - 2)
      BY <2>1
    <3>2. /\ Stack(b) /\ Len(acts) > 2 /\ Len(b) = Len(acts) - 2
          /\ \A i \in 1..Len(b) : b[i] = acts[i]
          /\ CallsOf(b) = CallsOf(acts) \ {Len(acts)} /\ Len(acts) \in CallsOf(acts)
          /\ acts[Len(acts) - 1].k \notin Calls
          /\ Placed(b[Len(b)], acts[Len(acts) - 1])
      BY <2>1, <2>2, <3>1, Returned
    <3>3. QED
      BY <3>1, <3>2
  <2>4. QED
    BY <1>2, <2>3
<1>4. PICK m \in Nat \ {0} : m = n - 2 /\ m = Len(acts') /\ acts'[m] = acts[m]
  <2>1. n - 2 \in Nat \ {0} /\ n - 2 \in 1..Len(acts')
    BY <1>3
  <2>2. QED
    BY <1>3, <2>1
<1>5. PICK caller : caller = acts[n - 1]
  OBVIOUS
<1>6. /\ flow' = (IF caller.k = "return" THEN "return" ELSE "normal")
      /\ caller.k = "return" => target' = Innermost(Front(acts), Calls)
      /\ lapses' = lapses \cup {IF acts[m].at = "init" THEN "init" ELSE "failed"}
  <2>1. lapses' = lapses \cup {Where(Front(acts))}
    BY DEF CallFails
  <2>2. Len(Front(acts)) = n - 1 /\ \A i \in 1..(n - 1) : Front(acts)[i] = acts[i]
    BY <1>2, FrontFacts
  <2>3. m = (n - 1) - 1 /\ m \in 1..(n - 1)
    BY <1>4
  <2>4. Where(Front(acts)) = IF acts[m].at = "init" THEN "init" ELSE "failed"
    BY <2>2, <2>3 DEF Where
  <2>5. /\ flow' = (IF caller.k = "return" THEN "return" ELSE "normal")
        /\ caller.k = "return" => target' = Innermost(Front(acts), Calls)
    BY <1>2, <1>5 DEF CallFails
  <2>6. QED
    BY <2>1, <2>4, <2>5
<1>7. TypeInv'
  <2>1. calls' = Cardinality(CallsOf(acts'))
    <3>1. IsFiniteSet(CallsOf(acts))
      BY <1>2, CountedCalls
    <3>2. Cardinality(CallsOf(acts) \ {n}) = Cardinality(CallsOf(acts)) - 1
      BY <1>3, <3>1, FS_RemoveElement
    <3>3. QED
      BY <1>1, <1>3, <3>2 DEF TypeInv, Runs
  <2>2. calls' <= MaxCalls
    BY <1>1, ControlAssumption DEF TypeInv
  <2>3. flow' \in Flows /\ value' \in BOOLEAN /\ failed' \in BOOLEAN
    BY <1>1, <1>6 DEF Flows
  <2>4. QED
    BY <1>1, <1>3, <2>1, <2>2, <2>3, TypeKept
<1>8. JumpInv'
  <2>1. CASE caller.k = "return"
    <3>1. PICK f \in Seq(Activation) : /\ f = Front(acts) /\ Len(f) = n - 1
                                       /\ \A i \in 1..(n - 1) : f[i] = acts[i]
      BY <1>2, FrontFacts
    <3>2. f[1].k \in Calls /\ 1 \in 1..Len(f)
      BY <1>2, <1>3, <3>1 DEF Stack, Calls
    <3>3. PICK t : t = target' /\ t = Innermost(f, Calls)
      BY <1>6, <2>1, <3>1
    <3>4. Belongs(f, t, Calls, Calls)
      BY <3>2, <3>3, InnermostFacts
    <3>5. \A j \in (m + 1)..(n - 1) : f[j].k \notin Calls
      <4>1. \A j \in (m + 1)..(n - 1) : j = n - 1
        BY <1>4
      <4>2. f[n - 1].k \notin Calls
        BY <1>3, <3>1 DEF Calls
      <4>3. QED
        BY <4>1, <4>2
    <3>6. /\ Len(f) \in Nat /\ Len(acts') \in Nat /\ Len(acts') <= Len(f)
          /\ \A i \in 1..Len(acts') : acts'[i] = f[i]
          /\ \A j \in (Len(acts') + 1)..Len(f) : f[j].k \notin Calls
      BY <1>3, <1>4, <3>1, <3>5
    <3>7. Belongs(acts', t, Calls, Calls)
      BY <3>4, <3>6, BelongsShorter
    <3>8. acts'[Len(acts')].at # "init"
      BY <1>3, <1>5, <2>1 DEF Placed, Calls
    <3>9. flow' = "return"
      BY <1>6, <2>1
    <3>10. QED
      BY <3>3, <3>7, <3>8, <3>9 DEF JumpInv, JumpsTo
  <2>2. CASE caller.k # "return"
    BY <1>6, <2>2, NoJump
  <2>3. QED
    BY <2>1, <2>2
<1>9. LapseInv'
  <2>1. lapses' \subseteq {"init", "condition", "failed"} /\ lapses' # {}
    BY <1>1, <1>6 DEF LapseInv
  <2>2. flow' \notin {"none", "value"}
    BY <1>6
  <2>3. Pending' => acts'[Len(acts')].at # "init"
    BY <1>4, <1>6 DEF Pending
  <2>4. QED
    BY <1>1, <2>1, <2>2, <2>3 DEF LapseInv, Bars
<1>10. QED
  BY <1>1, <1>7, <1>8, <1>9, LandsInCall, NoValueYet DEF Inv

-------------------------------------------------------------------------------
(* The theorems.                                                            *)

LEMMA InitInv == Init => Inv
<1> SUFFICES ASSUME Init PROVE Inv
  OBVIOUS
<1>1. PICK n : n = Act("call", 0)
  OBVIOUS
<1>2. "call" \in DOMAIN First /\ 0 \in 0..MaxDepth
  BY KindsOfFirst, ControlAssumption
<1>3. n \in Activation /\ n.k = "call" /\ Sound(n)
  BY <1>1, <1>2, ActFacts
<1>4. acts = <<n>> /\ acts \in Seq(Activation) /\ Len(acts) = 1 /\ acts[1] = n
  BY <1>1, <1>3 DEF Init
<1>5. Stack(acts)
  BY <1>3, <1>4 DEF Stack
<1>6. CallsOf(acts) = {1}
  BY <1>3, <1>4 DEF CallsOf, Calls
<1>7. calls = Cardinality(CallsOf(acts))
  BY <1>6, FS_Singleton DEF Init
<1>8. TypeInv
  <2>1. calls = 1 /\ calls \in Nat /\ calls <= MaxCalls
    BY ControlAssumption DEF Init
  <2>2. steps \in Nat /\ flow \in Flows
    BY DEF Init, Flows
  <2>3. /\ entry \in {"fold", "query"} /\ outcome \in {"running", "value", "none"}
        /\ value \in BOOLEAN /\ failed \in BOOLEAN
    BY DEF Init
  <2>4. QED
    BY <1>5, <1>7, <2>1, <2>2, <2>3 DEF TypeInv
<1>9. QED
  BY <1>8 DEF Init, Inv, JumpInv, JumpsTo, LapseInv, Pending, ValueIsEarned

LEMMA InvStep ==
    ASSUME Inv, [Next]_vars
    PROVE  Inv' /\ (Lands \/ UNCHANGED vars)
<1>1. CASE \E k \in Statements :
              TooDeep(k) \/ OutOfSteps(k) \/ Enter(k) \/ Jump(k) \/ Pass(k)
  BY <1>1, SkipSteps, EnterStep, JumpStep
<1>2. CASE \E b \in BOOLEAN : Expression(b) \/ Condition(b)
  BY <1>2, ExpressionStep, ConditionStep
<1>3. CASE (\E c \in Calls : Invoke(c)) \/ NoCallback
  BY <1>3, InvokeStep, NoCallbackStep
<1>4. CASE Increment \/ NotConstant \/ Absent \/ Iterate
  BY <1>4, IncrementStep, NotConstantStep, AbsentStep, IterateStep
<1>5. CASE InBlock \/ EndOfBlock \/ AfterBranch \/ AfterBody \/ AfterInit
  BY <1>5, InBlockStep, EndOfBlockStep, AfterBranchStep, AfterBodyStep, AfterInitStep
<1>6. CASE Finish \/ CallGives \/ CallFails
  BY <1>6, FinishStep, CallGivesStep, CallFailsStep
<1>7. CASE \E want \in 2..(Indices - 1) : Reserve(want)
  BY <1>7, ReserveStep
<1>8. CASE Double \/ Reserved \/ UNCHANGED vars
  <2>1. UNCHANGED <<entry, acts, flow, value, failed, steps, calls, lapses, target, outcome>>
    BY <1>8 DEF Double, Reserved, Free, Rest, vars
  <2>2. QED
    BY <2>1 DEF Inv, TypeInv, JumpInv, LapseInv, Pending, Bars, ValueIsEarned, Lands
<1>9. QED
  BY <1>1, <1>2, <1>3, <1>4, <1>5, <1>6, <1>7, <1>8 DEF Next

LEMMA GrowthStep ==
    ASSUME GrowthInv, [Next]_vars
    PROVE  GrowthInv'
<1>1. Indices \in Nat \ {0}
  BY ControlAssumption
<1>2. CASE growing = Idle /\ UNCHANGED growing
  BY <1>2 DEF GrowthInv
<1>3. CASE growing = Idle /\ \E want \in 2..(Indices - 1) : Reserve(want)
  <2>1. PICK want \in 2..(Indices - 1) : growing' = [want |-> want, cap |-> 1]
    BY <1>3 DEF Reserve
  <2>2. 1 \in 0..(Indices - 1) /\ want \in 0..(Indices - 1)
    BY <1>1
  <2>3. QED
    BY <2>1, <2>2 DEF GrowthInv
<1>4. CASE Double
  <2>1. PICK w \in 0..(Indices - 1), c \in 0..(Indices - 1) :
            growing = [want |-> w, cap |-> c]
    BY DEF GrowthInv
  <2>2. (c * 2) % Indices \in 0..(Indices - 1)
    BY <1>1
  <2>3. growing' = [want |-> w, cap |-> (c * 2) % Indices]
    BY <1>4, <2>1 DEF Double
  <2>4. QED
    BY <2>2, <2>3 DEF GrowthInv
<1>5. CASE Reserved
  <2>1. 0 \in 0..(Indices - 1)
    BY <1>1
  <2>2. QED
    BY <1>5, <2>1 DEF Reserved, Idle, GrowthInv
<1>6. CASE UNCHANGED vars
  BY <1>6 DEF vars, GrowthInv
<1>7. QED
  BY <1>2, <1>3, <1>4, <1>5, <1>6 DEF Next

LEMMA InvImpliesTypeOK == Inv /\ GrowthInv => TypeOK
<1> SUFFICES ASSUME Inv, GrowthInv PROVE TypeOK
  OBVIOUS
<1>1. TypeInv /\ acts \in Seq(Activation) /\ DOMAIN acts = 1..Len(acts)
  BY LenProperties DEF Inv, TypeInv, Stack
<1>2. \A i \in DOMAIN acts : acts[i].k \in DOMAIN First /\ acts[i].depth \in 0..MaxDepth
  <2>1. ASSUME NEW i \in 1..Len(acts) PROVE acts[i] \in Activation
    BY <1>1, ElementOfSeq
  <2>2. QED
    BY <1>1, <2>1 DEF Activation
<1>3. {i \in DOMAIN acts : acts[i].k \in Calls} = CallsOf(acts)
  BY <1>1 DEF CallsOf
<1>4. QED
  BY <1>1, <1>2, <1>3 DEF TypeOK, TypeInv, Flows, GrowthInv

\* Every counter of the interpreter has its type, and constexprCallDepth is the
\* number of calls on the stack, on every way in and out of a call, whatever the
\* limits are and wherever they are hit.
THEOREM TypeCorrect == Spec => []TypeOK
<1>1. Init => GrowthInv
  <2>1. 0 \in 0..(Indices - 1)
    BY ControlAssumption
  <2>2. QED
    BY <2>1 DEF Init, Idle, GrowthInv
<1>2. QED
  BY <1>1, InitInv, InvStep, GrowthStep, InvImpliesTypeOK, PTL DEF Spec

\* No constant comes out of an evaluation in which something has failed, whatever
\* expressions of statements, conditions and loops call: a fold keeps m_ctFailed until
\* it is over; the interpretation for a compile_time.if loses it at most when what has
\* failed was the first part of a for, or a callback of a condition or last part.
THEOREM ConstantsAreEarned == Spec => []ValueIsEarned
<1>1. Inv => ValueIsEarned
  BY DEF Inv
<1>2. QED
  BY <1>1, InitInv, InvStep, PTL DEF Spec

\* break, continue and return end the loop or the call they belong to, from any
\* depth of blocks, branches and inner loops, or the evaluation has failed.
THEOREM JumpsLandWhereTheyShould == Spec => JumpsLand
<1>1. Inv /\ [Next]_vars =>
          [flow' # flow /\ flow \in {"break", "continue", "return"} =>
               failed \/ Landed]_vars
  BY InvStep DEF Lands
<1>2. QED
  BY <1>1, InitInv, InvStep, PTL DEF Spec, JumpsLand
===============================================================================
