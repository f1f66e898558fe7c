-------------------------- MODULE DefiniteInitProofs --------------------------
(***************************************************************************)
(* Theorems about DefiniteInit, for any names, any expressions and         *)
(* functions of any size: the walk is well formed (TypeCorrect), W3003 and *)
(* W3001 are sound, and W3001 is precise until a jump.                     *)
(***************************************************************************)
EXTENDS DefiniteInit, FiniteSetTheorems, SequenceTheorems, WellFoundedInduction, TLAPS

-------------------------------------------------------------------------------
(* Positions and sequences.                                                *)

\* A set of positions that is not empty has a first one.
LEMMA FirstExists ==
    ASSUME NEW S \in SUBSET Nat, S # {}
    PROVE  \E i \in S : \A j \in S : i <= j
<1> DEFINE Below == {p \in Nat \X Nat : p[1] < p[2]}
<1>1. IsWellFoundedOn(Below, Nat)
  <2>1. Below = OpToRel(<, Nat)
    BY Zenon DEF OpToRel
  <2>2. QED
    BY <2>1, NatLessThanWellFounded
<1>2. PICK i \in S : \A j \in S : <<j, i>> \notin Below
  <2> HIDE DEF Below
  <2>1. QED
    BY <1>1, WFMin
<1>3. ASSUME NEW j \in S
      PROVE  i <= j
  <2>1. <<j, i>> \in Nat \X Nat /\ <<j, i>> \notin Below
    BY <1>2
  <2>2. ~(j < i)
    BY <2>1
  <2>3. QED
    BY <2>2
<1>4. QED
  BY <1>3

\* A set of positions in 1..n that is not empty has a last one.
LEMMA LastExists ==
    ASSUME NEW n \in Nat, NEW S \in SUBSET (1..n), S # {}
    PROVE  \E i \in S : \A j \in S : j <= i
<1> DEFINE T == {m \in Nat : m <= n /\ n - m \in S}
<1>1. T \in SUBSET Nat
  OBVIOUS
<1>2. T # {}
  <2>1. PICK i \in S : TRUE
    OBVIOUS
  <2>2. i \in 1..n
    BY <2>1
  <2>3. n - i \in Nat /\ n - i <= n /\ n - (n - i) = i
    BY <2>2
  <2>4. n - i \in T
    BY <2>1, <2>3
  <2>5. QED
    BY <2>4
<1>3. PICK m \in T : \A l \in T : m <= l
  <2> HIDE DEF T
  <2>1. QED
    BY <1>1, <1>2, FirstExists
<1>4. ASSUME NEW j \in S
      PROVE  j <= n - m
  <2>1. j \in 1..n
    OBVIOUS
  <2>2. n - j \in Nat /\ n - j <= n /\ n - (n - j) = j
    BY <2>1
  <2>3. n - j \in T
    BY <2>2
  <2>4. m <= n - j
    BY <1>3, <2>3
  <2>5. QED
    BY <2>1, <2>4, <1>1
<1>5. QED
  BY <1>3, <1>4

\* A sequence without its last element.
LEMMA FrontFacts ==
    ASSUME NEW S, NEW s \in Seq(S), Len(s) \in Nat \ {0},
           NEW t, t = Front(s)
    PROVE  /\ t \in Seq(S) /\ Len(t) = Len(s) - 1
           /\ \A i \in 1..(Len(s) - 1) : t[i] = s[i]
<1>1. PICK n \in Nat : n = Len(s) - 1
  OBVIOUS
<1>2. \A i \in 1..n : s[i] \in S
  BY <1>1, ElementOfSeq
<1>3. /\ t \in Seq(S) /\ Len(t) = IF 1 <= n THEN n - 1 + 1 ELSE 0
      /\ \A i \in 1..(n - 1 + 1) : t[i] = s[1 + i - 1]
  <2>1. t = SubSeq(s, 1, n)
    BY <1>1 DEF Front
  <2>2. QED
    BY <1>2, <2>1, SubSeqProperties
<1>4. Len(t) = n
  BY <1>3
<1>5. ASSUME NEW i \in 1..n
      PROVE  t[i] = s[i]
  <2>1. i \in 1..(n - 1 + 1) /\ 1 + i - 1 = i
    OBVIOUS
  <2>2. t[i] = s[1 + i - 1]
    BY <1>3, <2>1
  <2>3. QED
    BY <2>1, <2>2
<1>6. QED
  BY <1>1, <1>3, <1>4, <1>5

-------------------------------------------------------------------------------
(* Frames.                                                                  *)

\* Frames do not outgrow their type when more statements are visited.
LEMMA FramesGrow ==
    ASSUME NEW m \in Nat, NEW n \in Nat, m <= n
    PROVE  /\ StatesUpTo(m) \subseteq StatesUpTo(n)
           /\ FramesUpTo(m) \subseteq FramesUpTo(n)
           /\ Seq(FramesUpTo(m)) \subseteq Seq(FramesUpTo(n))
<1>1. 1..m \subseteq 1..n
  OBVIOUS
<1>2. Names \X (1..m) \subseteq Names \X (1..n)
  BY <1>1
<1>3. StatesUpTo(m) \subseteq StatesUpTo(n)
  BY <1>2 DEF StatesUpTo
<1>4. FramesUpTo(m) \subseteq FramesUpTo(n)
  BY <1>3 DEF FramesUpTo
<1>5. QED
  BY <1>3, <1>4, SeqMonotonic

LEMMA FrameType ==
    ASSUME NEW n \in Nat, NEW k \in Kinds,
           NEW phase \in {"body", "init", "cond", "after", "cases"},
           NEW s \in SUBSET Names, NEW P \in SUBSET StatesUpTo(n)
    PROVE  Frame(k, phase, s, P) \in FramesUpTo(n)
BY DEF Frame, FramesUpTo

\* What Complete does to the innermost frame, and leaves alone.
LEMMA CompleteFacts ==
    ASSUME NEW n \in Nat, NEW c \in Seq(FramesUpTo(n)), NEW t \in BOOLEAN,
           Len(c) \in Nat \ {0}, NEW d, d = Complete(c, t)
    PROVE  /\ d \in Seq(FramesUpTo(n)) /\ Len(d) = Len(c)
           /\ \A i \in 1..Len(c) :
                 /\ i # Len(c) => d[i] = c[i]
                 /\ d[i].k = c[i].k /\ d[i].state = c[i].state
                 /\ d[i].paths = c[i].paths /\ d[i].exits = c[i].exits
                 /\ d[i].conts = c[i].conts
           /\ c[Len(c)].k = "block" =>
                 /\ d[Len(c)].last = t /\ d[Len(c)].phase = c[Len(c)].phase
                 /\ d[Len(c)].over = (c[Len(c)].over \/ t)
           /\ c[Len(c)].k = "switch" => d[Len(c)] = c[Len(c)]
           /\ c[Len(c)].k \notin {"block", "switch"} =>
                 /\ d[Len(c)].last = t /\ d[Len(c)].over = c[Len(c)].over
                 /\ d[Len(c)].phase = IF c[Len(c)].phase = "init" THEN "cond"
                                                                  ELSE "after"
<1> DEFINE N == Len(c)
           f == c[N]
           g == CASE f.k = "block" -> [f EXCEPT !.last = t, !.over = @ \/ t]
                  [] f.k = "switch" -> f
                  [] OTHER -> [f EXCEPT !.last = t,
                                   !.phase = IF @ = "init" THEN "cond" ELSE "after"]
<1>1. N \in 1..N /\ f \in FramesUpTo(n)
  BY ElementOfSeq
<1>2. g \in FramesUpTo(n)
  BY <1>1 DEF FramesUpTo
<1>3. d = [c EXCEPT ![N] = g]
  <2>1. CASE f.k = "block"
    BY <2>1, <1>1 DEF Complete
  <2>2. CASE f.k = "switch"
    BY <2>2, <1>1 DEF Complete
  <2>3. CASE f.k \notin {"block", "switch"}
    BY <2>3, <1>1 DEF Complete
  <2>4. QED
    BY <2>1, <2>2, <2>3
<1>4. /\ g.k = f.k /\ g.state = f.state /\ g.paths = f.paths
      /\ g.exits = f.exits /\ g.conts = f.conts
  BY <1>1 DEF FramesUpTo
<1>5. /\ f.k = "block" => /\ g.last = t /\ g.phase = f.phase
                          /\ g.over = (f.over \/ t)
      /\ f.k = "switch" => g = f
      /\ f.k \notin {"block", "switch"} =>
            /\ g.last = t /\ g.over = f.over
            /\ g.phase = IF f.phase = "init" THEN "cond" ELSE "after"
  BY <1>1 DEF FramesUpTo
<1>6. /\ d \in Seq(FramesUpTo(n)) /\ Len(d) = N /\ d[N] = g
      /\ \A i \in 1..N : i # N => d[i] = c[i]
  <2> HIDE DEF g
  <2>1. QED
    BY <1>1, <1>2, <1>3, ExceptSeq
<1>7. QED
  <2> HIDE DEF g
  <2>1. QED
    BY <1>4, <1>5, <1>6

\* One frame more or less.
LEMMA OpenedAppend ==
    ASSUME NEW S, NEW c \in Seq(S), NEW f \in S
    PROVE  /\ IsFiniteSet(ScopesOpened(c)) /\ Cardinality(ScopesOpened(c)) \in Nat
           /\ Cardinality(ScopesOpened(Append(c, f))) =
                  Cardinality(ScopesOpened(c)) +
                      (IF f.k \in {"block", "for"} THEN 1 ELSE 0)
<1> DEFINE N == Len(c)
           d == Append(c, f)
<1>1. /\ N \in Nat /\ DOMAIN c = 1..N /\ DOMAIN d = 1..(N + 1)
      /\ \A i \in 1..N : d[i] = c[i]
      /\ d[N + 1] = f
  BY LenProperties, AppendProperties
<1>2. IsFiniteSet(ScopesOpened(c)) /\ Cardinality(ScopesOpened(c)) \in Nat
  <2>1. IsFiniteSet(1..N)
    BY <1>1, FS_Interval
  <2>2. ScopesOpened(c) \subseteq 1..N
    BY <1>1 DEF ScopesOpened
  <2>3. QED
    BY <2>1, <2>2, FS_Subset, FS_CardinalityType
<1>3. CASE f.k \in {"block", "for"}
  <2>1. ScopesOpened(d) = ScopesOpened(c) \cup {N + 1}
    <3> HIDE DEF d
    <3>1. QED
      BY <1>1, <1>3 DEF ScopesOpened
  <2>2. N + 1 \notin ScopesOpened(c)
    BY <1>1 DEF ScopesOpened
  <2>3. QED
    BY <1>2, <1>3, <2>1, <2>2, FS_AddElement
<1>4. CASE f.k \notin {"block", "for"}
  <2>1. ScopesOpened(d) = ScopesOpened(c)
    <3> HIDE DEF d
    <3>1. QED
      BY <1>1, <1>4 DEF ScopesOpened
  <2>2. QED
    BY <1>2, <1>4, <2>1
<1>5. QED
  BY <1>2, <1>3, <1>4

LEMMA OpenedFront ==
    ASSUME NEW S, NEW c \in Seq(S), Len(c) \in Nat \ {0}
    PROVE  /\ Cardinality(ScopesOpened(Front(c))) \in Nat
           /\ Cardinality(ScopesOpened(c)) =
                  Cardinality(ScopesOpened(Front(c))) +
                      (IF c[Len(c)].k \in {"block", "for"} THEN 1 ELSE 0)
<1> DEFINE N == Len(c)
           d == Front(c)
           f == c[N]
<1>1. /\ N \in Nat \ {0} /\ d \in Seq(S) /\ Len(d) = N - 1 /\ f \in S
      /\ \A i \in 1..(N - 1) : d[i] = c[i]
  BY FrontFacts, ElementOfSeq
<1>2. c = Append(d, f)
  <2> HIDE DEF d
  <2>1. /\ Append(d, f) \in Seq(S) /\ Len(Append(d, f)) = N
        /\ Append(d, f)[N] = f
        /\ \A i \in 1..(N - 1) : Append(d, f)[i] = d[i]
    BY <1>1, AppendProperties
  <2>2. \A i \in 1..N : c[i] = Append(d, f)[i]
    BY <1>1, <2>1
  <2>3. QED
    BY <1>1, <2>1, <2>2, SeqEqual
<1>3. /\ Cardinality(ScopesOpened(d)) \in Nat
      /\ Cardinality(ScopesOpened(Append(d, f))) =
             Cardinality(ScopesOpened(d)) + (IF f.k \in {"block", "for"} THEN 1 ELSE 0)
  <2> HIDE DEF d, f
  <2>1. QED
    BY <1>1, OpenedAppend
<1>4. QED
  BY <1>2, <1>3

\* Changing frames does not, as long as they stay of their kinds.
LEMMA OpenedSame ==
    ASSUME NEW S, NEW T, NEW c \in Seq(S), NEW d \in Seq(T), Len(c) = Len(d),
           \A i \in 1..Len(c) : c[i].k = d[i].k
    PROVE  ScopesOpened(c) = ScopesOpened(d)
<1>1. DOMAIN c = 1..Len(c) /\ DOMAIN d = 1..Len(c)
  BY LenProperties
<1>2. QED
  BY <1>1 DEF ScopesOpened

-------------------------------------------------------------------------------
(* What names mean.                                                         *)

ScopesOK == visited \in Nat /\ scopes \in Seq([Names -> 0..visited])

LEMMA ResolveFacts ==
    ASSUME ScopesOK, NEW x \in Names
    PROVE  /\ Resolve(x) \in 0..visited
           /\ Resolve(x) = 0 => \A i \in DOMAIN scopes : scopes[i][x] = 0
           /\ Resolve(x) # 0 => \E i \in DOMAIN scopes : Resolve(x) = scopes[i][x]
<1> DEFINE S == {i \in DOMAIN scopes : scopes[i][x] # 0}
           m == CHOOSE i \in S : \A j \in S : j <= i
<1>1. Len(scopes) \in Nat /\ DOMAIN scopes = 1..Len(scopes)
  BY LenProperties DEF ScopesOK
<1>2. \A i \in DOMAIN scopes : scopes[i][x] \in 0..visited
  <2>1. \A i \in DOMAIN scopes : scopes[i] \in [Names -> 0..visited]
    BY <1>1, ElementOfSeq DEF ScopesOK
  <2>2. QED
    BY <2>1
<1>3. CASE S = {}
  BY <1>3 DEF Resolve, ScopesOK
<1>4. CASE S # {}
  <2>1. S \in SUBSET (1..Len(scopes))
    BY <1>1
  <2>2. m \in S
    <3> HIDE DEF S
    <3>1. QED
      BY <1>1, <1>4, <2>1, LastExists, Zenon
  <2>3. Resolve(x) = scopes[m][x]
    BY <1>4 DEF Resolve
  <2>4. QED
    BY <1>2, <2>2, <2>3
<1>5. QED
  BY <1>3, <1>4

LEMMA InnermostFacts ==
    ASSUME Len(ctl) \in Nat, DOMAIN ctl = 1..Len(ctl),
           NEW K, \E i \in DOMAIN ctl : ctl[i].k \in K
    PROVE  /\ Innermost(K) \in 1..Len(ctl)
           /\ ctl[Innermost(K)].k \in K
           /\ \A j \in DOMAIN ctl : ctl[j].k \in K => j <= Innermost(K)
<1> DEFINE S == {i \in DOMAIN ctl : ctl[i].k \in K}
<1>1. S \in SUBSET (1..Len(ctl)) /\ S # {}
  OBVIOUS
<1>2. \E i \in S : \A j \in S : j <= i
  <2> HIDE DEF S
  <2>1. QED
    BY <1>1, LastExists
<1>3. \E i \in DOMAIN ctl :
         ctl[i].k \in K /\ \A j \in DOMAIN ctl : ctl[j].k \in K => j <= i
  BY <1>2
<1>4. QED
  BY <1>3, Zenon DEF Innermost

-------------------------------------------------------------------------------
(* What expressions do.                                                     *)

LEMMA AccessType ==
    ASSUME NEW e \in Expr
    PROVE  /\ e.kind \in {"then", "and", "ternary"}
           /\ \A a \in {e.test, e.left, e.right} :
                 /\ a.reads \in SUBSET Names /\ a.writes \in SUBSET Names
                 /\ a.exposes \in SUBSET Names /\ a.unseen \in SUBSET Names
           /\ e.kind # "ternary" => /\ e.right.reads = {} /\ e.right.writes = {}
                                    /\ e.right.exposes = {} /\ e.right.unseen = {}
BY DEF Expr, Access, Nothing, Acc

LEMMA AfterType ==
    ASSUME ScopesOK, NEW W \in SUBSET Names, NEW a, a.writes = W,
           NEW p \in StatesUpTo(visited)
    PROVE  After(a, p) \in StatesUpTo(visited)
<1>1. \A x \in W : Resolve(x) # 0 => Resolve(x) \in 1..visited
  BY ResolveFacts DEF ScopesOK
<1>2. QED
  BY <1>1 DEF After, StatesUpTo

LEMMA OutcomesType ==
    ASSUME ScopesOK, NEW e \in Expr, NEW P \in SUBSET StatesUpTo(visited)
    PROVE  Outcomes(e, P) \in SUBSET StatesUpTo(visited)
<1> SUFFICES ASSUME NEW p \in P
             PROVE  Runs(e, p) \subseteq StatesUpTo(visited)
  BY DEF Outcomes
<1>1. p \in StatesUpTo(visited)
  OBVIOUS
<1>2. After(e.test, p) \in StatesUpTo(visited)
  BY <1>1, AccessType, AfterType
<1>3. After(e.left, After(e.test, p)) \in StatesUpTo(visited)
  BY <1>2, AccessType, AfterType
<1>4. After(e.right, After(e.test, p)) \in StatesUpTo(visited)
  BY <1>2, AccessType, AfterType
<1>5. QED
  BY <1>2, <1>3, <1>4, AccessType DEF Runs

LEMMA WalkType ==
    ASSUME NEW e \in Expr, NEW s \in SUBSET Names
    PROVE  /\ Walked(e, s) \in SUBSET Names /\ Assigned(e) \in SUBSET Names
           /\ Walked(e, s) \subseteq s \cup Assigned(e) /\ s \subseteq Walked(e, s)
           /\ Suspect(e, s) \subseteq locals
           /\ Unsure(e) \in SUBSET Names
           /\ \A p : BadReads(e, p) \in SUBSET Names
<1>1. /\ Walked(e, s) \in SUBSET Names /\ Assigned(e) \in SUBSET Names
      /\ Walked(e, s) \subseteq s \cup Assigned(e) /\ s \subseteq Walked(e, s)
  BY AccessType DEF Walked, Assigned, Written
<1>2. Suspect(e, s) \subseteq locals
  BY DEF Suspect
<1>3. Unsure(e) \in SUBSET Names
  BY AccessType DEF Unsure, Doubtful
<1>4. ASSUME NEW p
      PROVE  BadReads(e, p) \in SUBSET Names
  BY AccessType DEF BadReads, Missing
<1>5. QED
  BY <1>1, <1>2, <1>3, <1>4

-------------------------------------------------------------------------------
(* Types.                                                                   *)

\* The function's body is at the bottom, and every statement above a frame is
\* its body or one of its cases.
WellNested(c) ==
    /\ Len(c) \in Nat \ {0}
    /\ c[1].k = "block"
    /\ \A i \in 1..Len(c) :
          /\ c[i].k = "block" => c[i].phase = "body"
          /\ c[i].k = "switch" <=> c[i].phase = "cases"
          /\ i < Len(c) => c[i].phase \in {"body", "cases"}

TypeInv == TypeOK /\ WellNested(ctl)

\* c is a walk after n statements with m scopes open.
Walk(c, n, m) ==
    /\ c \in Seq(FramesUpTo(n)) /\ WellNested(c)
    /\ m \in Nat /\ m = Cardinality(ScopesOpened(c))

LEMMA TypeFacts ==
    ASSUME TypeInv
    PROVE  /\ ScopesOK /\ visited \in Nat
           /\ Len(ctl) \in Nat \ {0} /\ DOMAIN ctl = 1..Len(ctl)
           /\ Top \in FramesUpTo(visited) /\ Top = ctl[Len(ctl)]
           /\ \A i \in 1..Len(ctl) : ctl[i] \in FramesUpTo(visited)
           /\ Len(scopes) \in Nat /\ DOMAIN scopes = 1..Len(scopes)
           /\ \A i \in 1..Len(scopes) : scopes[i] \in [Names -> 0..visited]
           /\ Cardinality(ScopesOpened(ctl)) \in Nat
           /\ Top.k # "block" => Len(ctl) >= 2
<1>1. ScopesOK /\ visited \in Nat
  BY ConstantsAssumption DEF TypeInv, TypeOK, ScopesOK
<1>2. ctl \in Seq(FramesUpTo(visited)) /\ Len(ctl) \in Nat \ {0} /\ ctl[1].k = "block"
  BY DEF TypeInv, TypeOK, WellNested
<1>3. /\ DOMAIN ctl = 1..Len(ctl)
      /\ \A i \in 1..Len(ctl) : ctl[i] \in FramesUpTo(visited)
  BY <1>2, LenProperties, ElementOfSeq
<1>4. /\ Len(scopes) \in Nat /\ DOMAIN scopes = 1..Len(scopes)
      /\ \A i \in 1..Len(scopes) : scopes[i] \in [Names -> 0..visited]
  BY <1>1, LenProperties, ElementOfSeq DEF ScopesOK
<1>5. Cardinality(ScopesOpened(ctl)) \in Nat
  BY <1>2, OpenedFront
<1>6. QED
  BY <1>1, <1>2, <1>3, <1>4, <1>5 DEF Top

\* The walk at hand, also with other contents in its frames.
LEMMA LikeWalk ==
    ASSUME TypeInv, NEW n \in Nat, visited <= n,
           NEW c \in Seq(FramesUpTo(n)), Len(c) = Len(ctl),
           \A i \in 1..Len(ctl) : c[i].k = ctl[i].k /\ c[i].phase = ctl[i].phase
    PROVE  Walk(c, n, Len(scopes))
<1>1. /\ ctl \in Seq(FramesUpTo(visited)) /\ WellNested(ctl)
      /\ Len(scopes) \in Nat /\ Len(scopes) = Cardinality(ScopesOpened(ctl))
  BY TypeFacts DEF TypeInv, TypeOK
<1>2. ScopesOpened(ctl) = ScopesOpened(c)
  BY <1>1, OpenedSame
<1>3. QED
  BY <1>1, <1>2 DEF Walk, WellNested

LEMMA ThisWalk ==
    ASSUME TypeInv, NEW n \in Nat, visited <= n
    PROVE  Walk(ctl, n, Len(scopes))
<1>1. ctl \in Seq(FramesUpTo(n))
  BY TypeFacts, FramesGrow DEF TypeInv, TypeOK
<1>2. QED
  BY <1>1, LikeWalk

\* A statement is entered.
LEMMA PushWalk ==
    ASSUME NEW n \in Nat, NEW m, NEW c, Walk(c, n, m),
           c[Len(c)].phase \in {"body", "cases"},
           NEW f \in FramesUpTo(n), f.k = "block" => f.phase = "body",
           f.k = "switch" <=> f.phase = "cases"
    PROVE  /\ Walk(Append(c, f), n, m + (IF f.k \in {"block", "for"} THEN 1 ELSE 0))
           /\ Len(Append(c, f)) = Len(c) + 1
           /\ \A i \in 1..Len(c) : Append(c, f)[i] = c[i]
           /\ Append(c, f)[Len(c) + 1] = f
<1> DEFINE d == Append(c, f)
           N == Len(c)
<1>1. /\ N \in Nat \ {0} /\ c \in Seq(FramesUpTo(n)) /\ WellNested(c)
      /\ m \in Nat /\ m = Cardinality(ScopesOpened(c))
  BY DEF Walk, WellNested
<1>2. /\ d \in Seq(FramesUpTo(n)) /\ Len(d) = N + 1 /\ d[N + 1] = f
      /\ \A i \in 1..N : d[i] = c[i]
  BY <1>1, AppendProperties
<1>3. Cardinality(ScopesOpened(d)) =
          m + (IF f.k \in {"block", "for"} THEN 1 ELSE 0)
  BY <1>1, OpenedAppend
<1>4. WellNested(d)
  <2> HIDE DEF d
  <2>1. d[1].k = "block"
    BY <1>1, <1>2 DEF WellNested
  <2>2. ASSUME NEW i \in 1..(N + 1)
        PROVE  /\ d[i].k = "block" => d[i].phase = "body"
               /\ d[i].k = "switch" <=> d[i].phase = "cases"
               /\ i < N + 1 => d[i].phase \in {"body", "cases"}
    <3>1. CASE i = N + 1
      BY <3>1, <1>2
    <3>2. CASE i # N + 1
      <4>1. i \in 1..N
        BY <1>1, <3>2
      <4>2. QED
        BY <1>1, <1>2, <4>1 DEF WellNested
    <3>3. QED
      BY <3>1, <3>2
  <2>3. QED
    BY <1>1, <1>2, <2>1, <2>2 DEF WellNested
<1>5. QED
  BY <1>1, <1>2, <1>3, <1>4 DEF Walk

\* A child of the innermost statement is done.
LEMMA StayWalk ==
    ASSUME NEW n \in Nat, NEW m, NEW c, Walk(c, n, m), NEW t \in BOOLEAN
    PROVE  Walk(Complete(c, t), n, m)
<1> DEFINE d == Complete(c, t)
           N == Len(c)
<1>1. /\ N \in Nat \ {0} /\ c \in Seq(FramesUpTo(n)) /\ WellNested(c)
      /\ m \in Nat /\ m = Cardinality(ScopesOpened(c))
  BY DEF Walk, WellNested
<1>2. /\ d \in Seq(FramesUpTo(n)) /\ Len(d) = N
      /\ \A i \in 1..N : i # N => d[i] = c[i]
      /\ \A i \in 1..N : d[i].k = c[i].k
      /\ c[N].k = "block" => d[N].phase = c[N].phase
      /\ c[N].k = "switch" => d[N] = c[N]
      /\ c[N].k \notin {"block", "switch"} => d[N].phase \in {"cond", "after"}
  <2> HIDE DEF d
  <2>1. QED
    BY <1>1, CompleteFacts DEF d
<1> HIDE DEF d
<1>3. ScopesOpened(c) = ScopesOpened(d)
  BY <1>1, <1>2, OpenedSame
<1>4. WellNested(d)
  BY <1>1, <1>2 DEF WellNested
<1>5. QED
  BY <1>1, <1>2, <1>3, <1>4 DEF Walk, d

\* A statement is left.
LEMMA FrontWalk ==
    ASSUME TypeInv, Len(ctl) >= 2
    PROVE  /\ Walk(Front(ctl), visited,
                   Len(scopes) - (IF Top.k \in {"block", "for"} THEN 1 ELSE 0))
           /\ Len(Front(ctl)) = Len(ctl) - 1
           /\ \A i \in 1..(Len(ctl) - 1) : Front(ctl)[i] = ctl[i]
           /\ Front(ctl)[Len(Front(ctl))].phase \in {"body", "cases"}
<1> DEFINE N == Len(ctl)
           c == Front(ctl)
<1>1. /\ N \in Nat \ {0} /\ ctl \in Seq(FramesUpTo(visited))
      /\ Len(scopes) = Cardinality(ScopesOpened(ctl))
      /\ Top = ctl[N]
  BY TypeFacts DEF TypeInv, TypeOK
<1>2. /\ c \in Seq(FramesUpTo(visited)) /\ Len(c) = N - 1
      /\ \A i \in 1..(N - 1) : c[i] = ctl[i]
  BY <1>1, FrontFacts
<1>3. /\ Cardinality(ScopesOpened(c)) \in Nat
      /\ Len(scopes) = Cardinality(ScopesOpened(c)) +
                          (IF Top.k \in {"block", "for"} THEN 1 ELSE 0)
  BY <1>1, OpenedFront
<1>4. WellNested(c) /\ c[N - 1].phase \in {"body", "cases"}
  <2> HIDE DEF c
  <2>1. QED
    BY <1>1, <1>2 DEF TypeInv, WellNested
<1>5. QED
  BY <1>1, <1>2, <1>3, <1>4 DEF Walk

\* The scopes after a step.
ScopesNext == scopes' \in Seq([Names -> 0..visited'])

LEMMA ScopesGrow ==
    ASSUME TypeInv, visited' \in Nat, visited <= visited'
    PROVE  /\ UNCHANGED scopes => ScopesNext /\ Len(scopes') = Len(scopes)
           /\ OpenScope => ScopesNext /\ Len(scopes') = Len(scopes) + 1
           /\ CloseScope /\ Len(scopes) # 0 =>
                 ScopesNext /\ Len(scopes') = Len(scopes) - 1
<1>1. /\ visited \in Nat /\ scopes \in Seq([Names -> 0..visited])
      /\ Len(scopes) \in Nat
  BY TypeFacts DEF ScopesOK
<1>2. [Names -> 0..visited] \subseteq [Names -> 0..visited']
  BY <1>1
<1>3. scopes \in Seq([Names -> 0..visited'])
  BY <1>1, <1>2, SeqMonotonic
<1>4. Unbound \in [Names -> 0..visited']
  BY DEF Unbound
<1>5. OpenScope => ScopesNext /\ Len(scopes') = Len(scopes) + 1
  BY <1>3, <1>4, AppendProperties DEF OpenScope, ScopesNext
<1>6. CloseScope /\ Len(scopes) # 0 => ScopesNext /\ Len(scopes') = Len(scopes) - 1
  BY <1>1, <1>3, FrontFacts DEF CloseScope, ScopesNext
<1>7. QED
  BY <1>3, <1>5, <1>6 DEF ScopesNext

\* The sets of names and states after a step.
FlowNext ==
    /\ state' \in SUBSET Names /\ warned' \in SUBSET locals
    /\ reach' \in SUBSET StatesUpTo(visited') /\ uninit' \in SUBSET Names
    /\ named' \in SUBSET Names /\ blind' \in SUBSET Names /\ coarse' \in SUBSET Names

LEMMA EvaluateType ==
    ASSUME TypeInv, NEW e \in Expr, NEW P \in SUBSET StatesUpTo(visited),
           NEW B \in SUBSET Names, Evaluate(e, P, B)
    PROVE  /\ warned' \in SUBSET locals /\ uninit' \in SUBSET Names
           /\ named' \in SUBSET Names /\ blind' \in SUBSET Names
           /\ Walked(e, state) \in SUBSET Names /\ Unfounded(e) \in SUBSET Names
           /\ Outcomes(e, P) \in SUBSET StatesUpTo(visited)
<1>1. /\ state \in SUBSET Names /\ warned \in SUBSET locals /\ locals \in SUBSET Names
      /\ uninit \in SUBSET Names /\ named \in SUBSET Names /\ blind \in SUBSET Names
  BY DEF TypeInv, TypeOK
<1>2. /\ Walked(e, state) \in SUBSET Names /\ Assigned(e) \in SUBSET Names
      /\ Suspect(e, state) \subseteq locals /\ Unsure(e) \in SUBSET Names
      /\ \A p : BadReads(e, p) \in SUBSET Names
  BY <1>1, WalkType
<1>3. UNION {BadReads(e, p) : p \in P} \in SUBSET Names
  BY <1>2
<1>4. Outcomes(e, P) \in SUBSET StatesUpTo(visited)
  BY TypeFacts, OutcomesType
<1>5. Unfounded(e) \in SUBSET Names
  BY <1>1, <1>2 DEF Unfounded
<1>6. QED
  BY <1>1, <1>2, <1>3, <1>4, <1>5 DEF Evaluate

\* What remains to be shown of a step.
LEMMA TypeOfStep ==
    ASSUME visited' \in 0..MaxStmts, locals' = locals, locals \in SUBSET Names,
           ScopesNext, Walk(ctl', visited', Len(scopes')), FlowNext
    PROVE  TypeInv'
BY DEF TypeInv, TypeOK, ScopesNext, Walk, FlowNext

LEMMA InitType == Init => TypeInv
<1> SUFFICES ASSUME Init PROVE TypeInv
  OBVIOUS
<1> DEFINE f == Frame("block", "body", {}, {})
<1>1. /\ ctl = <<f>> /\ scopes = <<Unbound>> /\ visited = 0
      /\ locals \in SUBSET Names /\ state \in SUBSET locals
      /\ warned = {} /\ reach = {{}} /\ uninit = {} /\ named = state
      /\ blind = {} /\ coarse = {}
  BY DEF Init
<1>2. f \in FramesUpTo(0) /\ f.k = "block" /\ f.phase = "body"
  BY DEF Frame, FramesUpTo, Kinds
<1>3. ctl \in Seq(FramesUpTo(0)) /\ Len(ctl) = 1 /\ ctl[1] = f /\ DOMAIN ctl = 1..1
  <2> HIDE DEF f
  <2>1. QED
    BY <1>1, <1>2
<1>4. ScopesOpened(ctl) = {1}
  <2> HIDE DEF f
  <2>1. QED
    BY <1>2, <1>3 DEF ScopesOpened
<1>5. Cardinality(ScopesOpened(ctl)) = 1
  BY <1>4, FS_Singleton
<1>6. scopes \in Seq([Names -> 0..0]) /\ Len(scopes) = 1
  BY <1>1 DEF Unbound
<1>7. WellNested(ctl)
  <2> HIDE DEF f
  <2>1. QED
    BY <1>2, <1>3 DEF WellNested
<1>8. reach \in SUBSET StatesUpTo(0)
  BY <1>1 DEF StatesUpTo
<1>9. 0 \in 0..MaxStmts
  BY ConstantsAssumption
<1>10. QED
  BY <1>1, <1>3, <1>5, <1>6, <1>7, <1>8, <1>9 DEF TypeInv, TypeOK

LEMMA VisitFacts ==
    ASSUME TypeInv
    PROVE  /\ Visit => /\ visited' \in 0..MaxStmts /\ visited' = visited + 1
                       /\ visited' \in Nat /\ locals' = locals
           /\ Statement => Visit /\ Top.phase = "body" /\ Top.k # "switch"
           /\ Simple => Visit /\ Top.k # "switch"
           /\ InnerSteps => /\ visited' \in 0..MaxStmts /\ visited' = visited
                            /\ locals' = locals
           /\ locals \in SUBSET Names
<1>1. visited \in 0..MaxStmts /\ locals \in SUBSET Names /\ MaxStmts \in Nat
  BY ConstantsAssumption DEF TypeInv, TypeOK
<1>2. Visit => /\ visited' \in 0..MaxStmts /\ visited' = visited + 1
               /\ visited' \in Nat /\ locals' = locals
  BY <1>1 DEF Visit
<1>3. /\ Top.k = "block" => Top.phase = "body"
      /\ Top.k = "switch" <=> Top.phase = "cases"
  BY TypeFacts DEF TypeInv, WellNested
<1>4. QED
  BY <1>1, <1>2, <1>3 DEF Statement, Simple, InnerSteps

\* The contents of the innermost frame.
LEMMA TopType ==
    ASSUME TypeInv
    PROVE  /\ Top.state \in SUBSET Names /\ Top.last \in BOOLEAN /\ Top.over \in BOOLEAN
           /\ Top.paths \in SUBSET StatesUpTo(visited)
           /\ Top.exits \in SUBSET StatesUpTo(visited)
           /\ Top.conts \in SUBSET StatesUpTo(visited)
           /\ state \in SUBSET Names /\ reach \in SUBSET StatesUpTo(visited)
           /\ warned \in SUBSET locals /\ uninit \in SUBSET Names
           /\ named \in SUBSET Names /\ blind \in SUBSET Names /\ coarse \in SUBSET Names
BY TypeFacts DEF FramesUpTo, TypeInv, TypeOK

\* Steps that enter a statement: a frame more.
LEMMA TypePush ==
    ASSUME TypeInv, Statement \/ (Visit /\ Top.k = "switch"),
           NEW c \in Seq(FramesUpTo(visited)), Len(c) = Len(ctl),
           \A i \in 1..Len(ctl) : c[i].k = ctl[i].k /\ c[i].phase = ctl[i].phase,
           NEW f \in FramesUpTo(visited'), f.k = "block" => f.phase = "body",
           f.k = "switch" <=> f.phase = "cases",
           ctl' = Append(c, f),
           IF f.k \in {"block", "for"} THEN OpenScope ELSE UNCHANGED scopes,
           FlowNext
    PROVE  TypeInv'
<1>1. /\ visited' \in 0..MaxStmts /\ visited' \in Nat /\ visited <= visited'
      /\ locals' = locals /\ locals \in SUBSET Names
      /\ Top.phase \in {"body", "cases"} /\ visited \in Nat
  <2>1. Top.k = "switch" => Top.phase = "cases"
    BY TypeFacts DEF TypeInv, WellNested
  <2>2. QED
    BY <2>1, VisitFacts, TypeFacts
<1>2. c \in Seq(FramesUpTo(visited'))
  BY <1>1, FramesGrow
<1>3. Walk(c, visited', Len(scopes)) /\ c[Len(c)].phase \in {"body", "cases"}
  BY <1>1, <1>2, LikeWalk, TypeFacts
<1>4. Walk(ctl', visited', Len(scopes) + (IF f.k \in {"block", "for"} THEN 1 ELSE 0))
  BY <1>1, <1>3, PushWalk
<1>5. ScopesNext /\ Len(scopes') = Len(scopes) + (IF f.k \in {"block", "for"} THEN 1 ELSE 0)
  <2>1. Len(scopes) \in Nat
    BY TypeFacts
  <2>2. QED
    BY <1>1, <2>1, ScopesGrow
<1>6. QED
  BY <1>1, <1>4, <1>5, TypeOfStep

\* Steps that visit a statement without parts.
LEMMA TypeStay ==
    ASSUME TypeInv, Visit, ScopesNext, Len(scopes') = Len(scopes), FlowNext,
           NEW c \in Seq(FramesUpTo(visited)), Len(c) = Len(ctl),
           \A i \in 1..Len(ctl) : c[i].k = ctl[i].k /\ c[i].phase = ctl[i].phase,
           NEW t \in BOOLEAN, ctl' = Complete(c, t)
    PROVE  TypeInv'
<1>1. /\ visited' \in 0..MaxStmts /\ visited' \in Nat /\ visited <= visited'
      /\ locals' = locals /\ locals \in SUBSET Names /\ visited \in Nat
  BY VisitFacts, TypeFacts
<1>2. c \in Seq(FramesUpTo(visited'))
  BY <1>1, FramesGrow
<1>3. Walk(c, visited', Len(scopes))
  BY <1>1, <1>2, LikeWalk
<1>4. Walk(ctl', visited', Len(scopes))
  BY <1>1, <1>3, StayWalk
<1>5. QED
  BY <1>1, <1>4, TypeOfStep

\* Steps that leave a statement.
LEMMA TypeFinish ==
    ASSUME TypeInv, InnerSteps, Len(ctl) >= 2, NEW t \in BOOLEAN, Finish(t),
           IF Top.k \in {"block", "for"} THEN CloseScope ELSE UNCHANGED scopes,
           FlowNext
    PROVE  TypeInv'
<1>1. /\ visited' \in 0..MaxStmts /\ visited' = visited /\ visited \in Nat
      /\ locals' = locals /\ locals \in SUBSET Names
  BY VisitFacts, TypeFacts
<1> DEFINE m == Len(scopes) - (IF Top.k \in {"block", "for"} THEN 1 ELSE 0)
<1>2. Walk(Front(ctl), visited, m)
  BY FrontWalk
<1>3. Walk(ctl', visited', m)
  <2> HIDE DEF m
  <2>1. QED
    BY <1>1, <1>2, StayWalk DEF Finish
<1>4. ScopesNext /\ Len(scopes') = m
  <2>1. m \in Nat /\ Len(scopes) \in Nat
    BY <1>2, TypeFacts DEF Walk
  <2>2. QED
    BY <1>1, <2>1, ScopesGrow
<1>5. QED
  <2> HIDE DEF m
  <2>1. QED
    BY <1>1, <1>3, <1>4, TypeOfStep

\* Steps that go on to another part of the statement.
LEMMA TypeReplace ==
    ASSUME TypeInv, InnerSteps, Len(ctl) >= 2, UNCHANGED scopes, FlowNext,
           NEW f \in FramesUpTo(visited), f.k \notin {"block", "switch"},
           f.k = "for" <=> Top.k = "for", Top.k # "block",
           f.phase = "body", ctl' = Append(Front(ctl), f)
    PROVE  TypeInv'
<1>1. /\ visited' \in 0..MaxStmts /\ visited' = visited /\ visited \in Nat
      /\ locals' = locals /\ locals \in SUBSET Names
  BY VisitFacts, TypeFacts
<1> DEFINE m == Len(scopes) - (IF Top.k \in {"block", "for"} THEN 1 ELSE 0)
           c == Front(ctl)
<1>2. Walk(c, visited, m) /\ c[Len(c)].phase \in {"body", "cases"}
  BY FrontWalk
<1>3. Walk(ctl', visited', m + (IF f.k \in {"block", "for"} THEN 1 ELSE 0))
  <2> HIDE DEF m, c
  <2>1. ctl' = Append(c, f)
    BY DEF c
  <2>2. QED
    BY <1>1, <1>2, <2>1, PushWalk
<1>4. ScopesNext /\ Len(scopes') = Len(scopes)
  BY <1>1, ScopesGrow
<1>5. m + (IF f.k \in {"block", "for"} THEN 1 ELSE 0) = Len(scopes)
  BY TypeFacts
<1>6. QED
  <2> HIDE DEF m
  <2>1. QED
    BY <1>1, <1>3, <1>4, <1>5, TypeOfStep

\* Walking an expression here keeps the flow typed, with ctl and scopes aside.
LEMMA HereType ==
    ASSUME TypeInv, NEW e \in Expr, Here(e), visited <= visited', visited' \in Nat
    PROVE  FlowNext
<1>1. /\ warned' \in SUBSET locals /\ uninit' \in SUBSET Names
      /\ named' \in SUBSET Names /\ blind' \in SUBSET Names
      /\ state' \in SUBSET Names /\ Unfounded(e) \in SUBSET Names
      /\ reach' \in SUBSET StatesUpTo(visited)
  BY TopType, EvaluateType DEF Here
<1>2. coarse' \in SUBSET Names
  BY <1>1, TopType DEF Here
<1>3. StatesUpTo(visited) \subseteq StatesUpTo(visited')
  BY FramesGrow, TypeFacts
<1>4. QED
  BY <1>1, <1>2, <1>3 DEF FlowNext

\* A step that changes at most state and reach, and coarse.
LEMMA FlowSame ==
    ASSUME TypeInv, visited <= visited', visited' \in Nat,
           UNCHANGED <<warned, uninit, named, blind>>,
           state' \in SUBSET Names, coarse' \in SUBSET Names,
           reach' \in SUBSET StatesUpTo(visited)
    PROVE  FlowNext
<1>1. StatesUpTo(visited) \subseteq StatesUpTo(visited')
  BY FramesGrow, TypeFacts
<1>2. QED
  BY <1>1, TopType DEF FlowNext

\* A frame pushed by a statement that has a condition.
LEMMA TestType ==
    ASSUME TypeInv, NEW k \in {"if", "while"}, NEW e \in Expr, Test(k, e)
    PROVE  TypeInv'
<1>1. /\ Statement /\ Visit /\ Here(e) /\ UNCHANGED scopes
      /\ ctl' = Append(ctl, Frame(k, "body", state', reach'))
  BY VisitFacts DEF Test, Push
<1>2. visited' \in Nat /\ visited <= visited' /\ visited' = visited + 1
  BY <1>1, VisitFacts, TypeFacts
<1>3. FlowNext
  BY <1>1, <1>2, HereType
<1> DEFINE f == Frame(k, "body", state', reach')
<1>4. f \in FramesUpTo(visited')
  BY <1>2, <1>3, FrameType DEF FlowNext, Kinds, Loops
<1>5. /\ f.k \notin {"block", "for", "switch"} /\ f.phase = "body"
  BY DEF Frame
<1>6. ctl \in Seq(FramesUpTo(visited))
  BY DEF TypeInv, TypeOK
<1>7. QED
  <2> HIDE DEF f
  <2>1. ctl' = Append(ctl, f)
    BY <1>1 DEF f
  <2>2. QED
    BY <1>1, <1>3, <1>4, <1>5, <1>6, <2>1, TypePush

LEMMA JumpType ==
    ASSUME TypeInv, Jump,
           NEW i \in 1..Len(ctl), NEW E \in SUBSET StatesUpTo(visited),
           NEW C \in SUBSET StatesUpTo(visited),
           ctl' = Complete([ctl EXCEPT ![i].exits = E, ![i].conts = C], TRUE)
    PROVE  TypeInv'
<1> DEFINE f == [ctl[i] EXCEPT !.exits = E, !.conts = C]
           c == [ctl EXCEPT ![i] = f]
<1>1. /\ Statement /\ Visit /\ UNCHANGED scopes /\ NoFlow
      /\ reach' = {} /\ coarse' = Names /\ UNCHANGED <<state, blind>>
  BY VisitFacts DEF Jump
<1>2. visited' \in Nat /\ visited <= visited' /\ visited \in Nat
  BY <1>1, VisitFacts, TypeFacts
<1>3. FlowNext
  BY <1>1, <1>2, FlowSame, TopType DEF NoFlow
<1>4. /\ ctl \in Seq(FramesUpTo(visited)) /\ ctl[i] \in FramesUpTo(visited)
  BY TypeFacts DEF TypeInv, TypeOK
<1>5. /\ f \in FramesUpTo(visited) /\ f.k = ctl[i].k /\ f.phase = ctl[i].phase
  BY <1>4 DEF FramesUpTo
<1>6. /\ c \in Seq(FramesUpTo(visited)) /\ Len(c) = Len(ctl)
      /\ \A j \in 1..Len(ctl) : c[j].k = ctl[j].k /\ c[j].phase = ctl[j].phase
  <2> HIDE DEF f
  <2>1. /\ c \in Seq(FramesUpTo(visited)) /\ Len(c) = Len(ctl) /\ c[i] = f
        /\ \A j \in 1..Len(ctl) : j # i => c[j] = ctl[j]
    BY <1>4, <1>5, ExceptSeq
  <2>2. QED
    BY <1>5, <2>1
<1>7. ctl' = Complete(c, TRUE)
  OBVIOUS
<1>8. ScopesNext /\ Len(scopes') = Len(scopes)
  BY <1>1, <1>2, ScopesGrow
<1>9. QED
  <2> HIDE DEF c
  <2>1. QED
    BY <1>1, <1>3, <1>6, <1>7, <1>8, TypeStay

\* Every step keeps the walk typed: one step of the proof for each action.
LEMMA TypeStep ==
    ASSUME TypeInv, Next
    PROVE  TypeInv'
<1>0. /\ ctl \in Seq(FramesUpTo(visited)) /\ visited \in Nat /\ MaxStmts \in Nat
      /\ visited \in 0..MaxStmts
      /\ \A e \in Exprs \cup Tests : e \in Expr
  BY TypeFacts, ConstantsAssumption DEF TypeInv, TypeOK
<1>1. CASE OpenBlock
  <2> DEFINE f == Frame("block", "body", {}, {})
  <2>1. /\ Statement /\ ctl' = Append(ctl, f) /\ OpenScope /\ UNCHANGED flowVars
    BY <1>1 DEF OpenBlock, Push
  <2>2. f \in FramesUpTo(visited') /\ f.k = "block" /\ f.phase = "body"
    BY <2>1, VisitFacts, FrameType DEF Kinds, Frame
  <2>3. FlowNext
    BY <1>0, <2>1, VisitFacts, FlowSame, TopType DEF flowVars
  <2>4. QED
    <3> HIDE DEF f
    <3>1. QED
      BY <1>0, <2>1, <2>2, <2>3, TypePush
<1>2. CASE CloseBlock
  <2>1. /\ Len(ctl) >= 2 /\ Top.k = "block" /\ Finish(Top.last) /\ CloseScope
        /\ InnerSteps
    BY <1>2, TypeFacts DEF CloseBlock
  <2>2. state' \in SUBSET Names
    <3>1. ctl[Len(ctl) - 1] \in FramesUpTo(visited)
      BY <2>1, TypeFacts
    <3>2. ctl[Len(ctl) - 1].state \in SUBSET Names
      BY <3>1 DEF FramesUpTo
    <3>3. QED
      BY <1>2, <3>2, TopType DEF CloseBlock
  <2>3. FlowNext
    BY <1>0, <1>2, <2>1, <2>2, VisitFacts, FlowSame, TopType DEF CloseBlock, NoFlow
  <2>4. QED
    BY <2>1, <2>3, TopType, TypeFinish
<1>3. CASE ExprStmt
  <2>1. PICK e \in Exprs : /\ Simple /\ Here(e) /\ ctl' = Complete(ctl, FALSE)
                           /\ UNCHANGED scopes
    BY <1>3 DEF ExprStmt
  <2>2. Visit /\ visited' \in Nat /\ visited <= visited'
    BY <1>0, <2>1, VisitFacts
  <2>3. FlowNext
    BY <1>0, <2>1, <2>2, HereType
  <2>4. ScopesNext /\ Len(scopes') = Len(scopes)
    BY <2>1, <2>2, ScopesGrow
  <2>5. QED
    BY <1>0, <2>1, <2>2, <2>3, <2>4, TypeStay
<1>4. CASE Declare
  <2>1. PICK x \in locals, initialised \in BOOLEAN :
           /\ Simple
           /\ scopes' = [scopes EXCEPT ![Len(scopes)][x] = visited']
           /\ state' = IF initialised THEN state \cup {x} ELSE state
           /\ reach' = IF initialised THEN {p \cup {<<x, visited'>>} : p \in reach}
                                     ELSE reach
           /\ ctl' = Complete(ctl, FALSE)
           /\ named' = named \cup {x}
           /\ blind' = IF x \in named THEN blind \cup {x} ELSE blind
           /\ UNCHANGED <<warned, uninit, coarse>>
    BY <1>4 DEF Declare
  <2>2. /\ Visit /\ visited' \in Nat /\ visited' = visited + 1 /\ x \in Names
    BY <1>0, <2>1, VisitFacts
  <2>3. reach' \in SUBSET StatesUpTo(visited')
    <3>1. reach \in SUBSET StatesUpTo(visited')
      BY <1>0, <2>2, TopType, FramesGrow
    <3>2. \A p \in StatesUpTo(visited') : p \cup {<<x, visited'>>} \in StatesUpTo(visited')
      BY <1>0, <2>2 DEF StatesUpTo
    <3>3. QED
      BY <2>1, <3>1, <3>2
  <2>4. FlowNext
    BY <2>1, <2>2, <2>3, TopType DEF FlowNext
  <2>5. ScopesNext /\ Len(scopes') = Len(scopes)
    <3> DEFINE n == Len(scopes)
               s == [scopes[n] EXCEPT ![x] = visited']
    <3>1. scopes \in Seq([Names -> 0..visited']) /\ n \in 1..n
      <4>1. UNCHANGED scopes => ScopesNext
        BY <1>0, <2>2, ScopesGrow
      <4>2. [Names -> 0..visited] \subseteq [Names -> 0..visited']
        BY <1>0, <2>2
      <4>3. scopes \in Seq([Names -> 0..visited'])
        BY <4>2, TypeFacts, SeqMonotonic DEF ScopesOK
      <4>4. n \in Nat /\ n = Cardinality(ScopesOpened(ctl)) /\ n # 0
        <5>1. 1 \in ScopesOpened(ctl)
          BY TypeFacts DEF ScopesOpened, TypeInv, WellNested
        <5>2. IsFiniteSet(ScopesOpened(ctl))
          BY <1>0, TypeFacts, OpenedAppend
        <5>3. Cardinality(ScopesOpened(ctl)) # 0
          BY <5>1, <5>2, FS_EmptySet
        <5>4. QED
          BY <5>3, TypeFacts DEF TypeInv, TypeOK
      <4>5. QED
        BY <4>3, <4>4
    <3>2. s \in [Names -> 0..visited']
      BY <1>0, <2>2, <3>1, ElementOfSeq
    <3>3. scopes' = [scopes EXCEPT ![n] = s]
      BY <2>1
    <3>4. QED
      <4> HIDE DEF s, n
      <4>1. QED
        BY <3>1, <3>2, <3>3, ExceptSeq DEF ScopesNext, n
  <2>6. QED
    BY <1>0, <2>1, <2>2, <2>4, <2>5, TypeStay
<1>5. CASE DeferStmt
  <2>1. Visit /\ UNCHANGED <<ctl, scopes, flowVars>>
    BY <1>5 DEF DeferStmt
  <2>2. visited' \in Nat /\ visited <= visited'
    BY <1>0, <2>1, VisitFacts
  <2>3. FlowNext
    BY <2>1, <2>2, FlowSame, TopType DEF flowVars
  <2>4. Walk(ctl', visited', Len(scopes'))
    BY <2>1, <2>2, ThisWalk
  <2>5. ScopesNext
    BY <2>1, <2>2, ScopesGrow
  <2>6. QED
    BY <2>1, <2>3, <2>4, <2>5, VisitFacts, TypeOfStep
<1>6. CASE ReturnStmt
  <2>1. PICK e \in Tests :
           /\ Statement /\ Evaluate(e, reach, {}) /\ state' = Walked(e, state)
           /\ reach' = {} /\ coarse' = Names /\ ctl' = Complete(ctl, TRUE)
           /\ UNCHANGED scopes
    BY <1>6 DEF ReturnStmt
  <2>2. Visit /\ visited' \in Nat /\ visited <= visited'
    BY <1>0, <2>1, VisitFacts
  <2>3. FlowNext
    <3>1. /\ warned' \in SUBSET locals /\ uninit' \in SUBSET Names
          /\ named' \in SUBSET Names /\ blind' \in SUBSET Names
          /\ Walked(e, state) \in SUBSET Names
      BY <1>0, <2>1, TopType, EvaluateType
    <3>2. QED
      BY <2>1, <3>1 DEF FlowNext
  <2>4. ScopesNext /\ Len(scopes') = Len(scopes)
    BY <2>1, <2>2, ScopesGrow
  <2>5. QED
    BY <1>0, <2>1, <2>2, <2>3, <2>4, TypeStay
<1>7. CASE BreakStmt
  <2> DEFINE i == Innermost(Loops \cup {"switch"})
             E == ctl[i].exits \cup reach
  <2>1. /\ Jump /\ i \in 1..Len(ctl)
        /\ ctl' = Complete([ctl EXCEPT ![i].exits = E], TRUE)
    BY <1>7, TypeFacts, InnermostFacts DEF BreakStmt
  <2>2. /\ ctl[i] \in FramesUpTo(visited)
        /\ ctl[i].conts \in SUBSET StatesUpTo(visited)
        /\ E \in SUBSET StatesUpTo(visited)
    <3> HIDE DEF i
    <3>1. ctl[i] \in FramesUpTo(visited)
      BY <2>1, TypeFacts
    <3>2. QED
      BY <3>1, TopType DEF FramesUpTo
  <2>3. ctl' = Complete([ctl EXCEPT ![i].exits = E, ![i].conts = ctl[i].conts], TRUE)
    <3> HIDE DEF i
    <3>1. [ctl EXCEPT ![i].exits = E, ![i].conts = ctl[i].conts]
             = [ctl EXCEPT ![i].exits = E]
      BY <1>0, <2>1, <2>2, TypeFacts DEF FramesUpTo
    <3>2. QED
      BY <2>1, <3>1
  <2>4. QED
    <3> HIDE DEF i, E
    <3>1. QED
      BY <2>1, <2>2, <2>3, JumpType
<1>8. CASE ContinueStmt
  <2> DEFINE i == Innermost(Loops)
             C == ctl[i].conts \cup reach
  <2>1. /\ Jump /\ i \in 1..Len(ctl)
        /\ ctl' = Complete([ctl EXCEPT ![i].conts = C], TRUE)
    BY <1>8, TypeFacts, InnermostFacts DEF ContinueStmt
  <2>2. /\ ctl[i] \in FramesUpTo(visited)
        /\ ctl[i].exits \in SUBSET StatesUpTo(visited)
        /\ C \in SUBSET StatesUpTo(visited)
    <3> HIDE DEF i
    <3>1. ctl[i] \in FramesUpTo(visited)
      BY <2>1, TypeFacts
    <3>2. QED
      BY <3>1, TopType DEF FramesUpTo
  <2>3. ctl' = Complete([ctl EXCEPT ![i].exits = ctl[i].exits, ![i].conts = C], TRUE)
    <3> HIDE DEF i
    <3>1. [ctl EXCEPT ![i].exits = ctl[i].exits, ![i].conts = C]
             = [ctl EXCEPT ![i].conts = C]
      BY <1>0, <2>1, <2>2, TypeFacts DEF FramesUpTo
    <3>2. QED
      BY <2>1, <3>1
  <2>4. QED
    <3> HIDE DEF i, C
    <3>1. QED
      BY <2>1, <2>2, <2>3, JumpType
<1>9. CASE IfStmt
  BY <1>0, <1>9, TestType DEF IfStmt
<1>10. CASE WhileStmt
  BY <1>0, <1>10, TestType DEF WhileStmt
<1>11. CASE ElseBranch
  <2> DEFINE g == Frame("else", "body", state, reach)
             f == [g EXCEPT !.over = Top.last]
  <2>1. /\ Top.k = "if" /\ ctl' = Append(Front(ctl), f) /\ state' = Top.state
        /\ reach' = Top.paths /\ InnerSteps /\ NoFlow
        /\ UNCHANGED <<scopes, blind, coarse>>
    BY <1>11 DEF ElseBranch
  <2>2. /\ f \in FramesUpTo(visited) /\ f.k = "else" /\ f.phase = "body"
    BY <1>0, TopType DEF Frame, FramesUpTo, Kinds
  <2>3. FlowNext
    BY <1>0, <2>1, VisitFacts, FlowSame, TopType DEF NoFlow
  <2>4. QED
    <3> HIDE DEF f
    <3>1. QED
      BY <2>1, <2>2, <2>3, TypeFacts, TypeReplace
<1>12. CASE EndIf
  <2>1. /\ Top.k \in {"if", "else"} /\ Finish(BothTransfer) /\ InnerSteps
        /\ UNCHANGED scopes /\ Len(ctl) >= 2
    BY <1>12, TypeFacts DEF EndIf
  <2>2. FlowNext
    BY <1>0, <1>12, <2>1, VisitFacts, FlowSame, TopType DEF EndIf, NoFlow, Joined
  <2>3. BothTransfer \in BOOLEAN
    BY DEF BothTransfer
  <2>4. QED
    BY <2>1, <2>2, <2>3, TypeFinish
<1>13. CASE EndWhile
  <2>1. /\ Top.k = "while" /\ Finish(FALSE) /\ InnerSteps
        /\ UNCHANGED scopes /\ Len(ctl) >= 2
    BY <1>13, TypeFacts DEF EndWhile
  <2>2. FlowNext
    BY <1>0, <1>13, <2>1, VisitFacts, FlowSame, TopType DEF EndWhile, NoFlow
  <2>3. QED
    BY <2>1, <2>2, TypeFinish
<1>14. CASE DoWhileStmt
  <2> DEFINE f == Frame("do", "body", state, {})
  <2>1. /\ Statement /\ ctl' = Append(ctl, f) /\ UNCHANGED <<scopes, flowVars>>
    BY <1>14 DEF DoWhileStmt, Push
  <2>2. f \in FramesUpTo(visited') /\ f.k = "do" /\ f.phase = "body"
    BY <2>1, VisitFacts, TopType, FrameType DEF Kinds, Loops, Frame
  <2>3. FlowNext
    BY <1>0, <2>1, VisitFacts, FlowSame, TopType DEF flowVars
  <2>4. QED
    <3> HIDE DEF f
    <3>1. QED
      BY <1>0, <2>1, <2>2, <2>3, TypePush
<1>15. CASE EndDoWhile
  <2>1. PICK e \in Tests :
           /\ Top.k = "do"
           /\ Evaluate(e, reach \cup Top.conts,
                       JumpedOver(Walked(e, state), Top.exits \cup Top.conts))
           /\ state' = Walked(e, state)
           /\ reach' = Outcomes(e, reach \cup Top.conts) \cup Top.exits
           /\ coarse' = coarse \cup Unfounded(e)
           /\ Finish(FALSE) /\ InnerSteps /\ UNCHANGED scopes
    BY <1>15 DEF EndDoWhile
  <2>2. JumpedOver(Walked(e, state), Top.exits \cup Top.conts) \in SUBSET Names
    BY <1>0, TopType, WalkType DEF JumpedOver
  <2>3. reach \cup Top.conts \in SUBSET StatesUpTo(visited)
    BY TopType
  <2>4. FlowNext
    <3>1. /\ warned' \in SUBSET locals /\ uninit' \in SUBSET Names
          /\ named' \in SUBSET Names /\ blind' \in SUBSET Names
          /\ Walked(e, state) \in SUBSET Names /\ Unfounded(e) \in SUBSET Names
          /\ Outcomes(e, reach \cup Top.conts) \in SUBSET StatesUpTo(visited)
      BY <1>0, <2>1, <2>2, <2>3, EvaluateType
    <3>2. visited' = visited
      BY <2>1, VisitFacts
    <3>3. QED
      BY <2>1, <3>1, <3>2, TopType DEF FlowNext
  <2>5. QED
    BY <2>1, <2>4, TypeFacts, TypeFinish
<1>16. CASE ForStmt
  <2> DEFINE f == Frame("for", "init", {}, {})
  <2>1. /\ Statement /\ ctl' = Append(ctl, f) /\ OpenScope /\ UNCHANGED flowVars
    BY <1>16 DEF ForStmt, Push
  <2>2. f \in FramesUpTo(visited') /\ f.k = "for" /\ f.phase = "init"
    BY <2>1, VisitFacts, FrameType DEF Kinds, Loops, Frame
  <2>3. FlowNext
    BY <1>0, <2>1, VisitFacts, FlowSame, TopType DEF flowVars
  <2>4. QED
    <3> HIDE DEF f
    <3>1. QED
      BY <1>0, <2>1, <2>2, <2>3, TypePush
<1>17. CASE ForCond
  <2>1. PICK e \in Tests :
           /\ Top.k = "for" /\ Here(e)
           /\ ctl' = Append(Front(ctl), Frame("for", "body", state', reach'))
           /\ InnerSteps /\ UNCHANGED scopes
    BY <1>17 DEF ForCond
  <2> DEFINE f == Frame("for", "body", state', reach')
  <2>2. visited' = visited
    BY <2>1, VisitFacts
  <2>3. FlowNext
    BY <1>0, <2>1, <2>2, HereType
  <2>4. f \in FramesUpTo(visited) /\ f.k = "for" /\ f.phase = "body"
    BY <1>0, <2>2, <2>3, FrameType DEF FlowNext, Kinds, Loops, Frame
  <2>5. QED
    <3>1. ctl' = Append(Front(ctl), f)
      BY <2>1
    <3> HIDE DEF f
    <3>2. QED
      BY <2>1, <2>3, <2>4, <3>1, TypeFacts, TypeReplace
<1>18. CASE EndFor
  <2>1. PICK e \in Tests :
           /\ Top.k = "for"
           /\ Evaluate(e, reach \cup Top.conts, JumpedOver(state, Top.conts))
           /\ state' = Top.state
           /\ reach' = Top.paths \cup Top.exits
                         \cup Outcomes(e, reach \cup Top.conts)
           /\ coarse' = coarse \cup Unfounded(e)
           /\ Finish(FALSE) /\ CloseScope /\ InnerSteps
    BY <1>18 DEF EndFor
  <2>2. JumpedOver(state, Top.conts) \in SUBSET Names
    BY TopType DEF JumpedOver
  <2>3. reach \cup Top.conts \in SUBSET StatesUpTo(visited)
    BY TopType
  <2>4. FlowNext
    <3>1. /\ warned' \in SUBSET locals /\ uninit' \in SUBSET Names
          /\ named' \in SUBSET Names /\ blind' \in SUBSET Names
          /\ Unfounded(e) \in SUBSET Names
          /\ Outcomes(e, reach \cup Top.conts) \in SUBSET StatesUpTo(visited)
      BY <1>0, <2>1, <2>2, <2>3, EvaluateType
    <3>2. visited' = visited
      BY <2>1, VisitFacts
    <3>3. QED
      BY <2>1, <3>1, <3>2, TopType DEF FlowNext
  <2>5. QED
    BY <2>1, <2>4, TypeFacts, TypeFinish
<1>19. CASE SwitchStmt
  <2>1. PICK e \in Tests :
           /\ Statement /\ Evaluate(e, reach, {}) /\ state' = Walked(e, state)
           /\ reach' = {} /\ coarse' = coarse \cup Unfounded(e)
           /\ ctl' = Append(ctl, Frame("switch", "cases", state', Outcomes(e, reach)))
           /\ UNCHANGED scopes
    BY <1>19 DEF SwitchStmt, Push
  <2> DEFINE f == Frame("switch", "cases", state', Outcomes(e, reach))
  <2>2. /\ warned' \in SUBSET locals /\ uninit' \in SUBSET Names
        /\ named' \in SUBSET Names /\ blind' \in SUBSET Names
        /\ Walked(e, state) \in SUBSET Names /\ Unfounded(e) \in SUBSET Names
        /\ Outcomes(e, reach) \in SUBSET StatesUpTo(visited)
    BY <1>0, <2>1, TopType, EvaluateType
  <2>3. visited' \in Nat /\ visited <= visited'
    BY <1>0, <2>1, VisitFacts DEF Statement
  <2>4. Outcomes(e, reach) \in SUBSET StatesUpTo(visited')
    BY <1>0, <2>2, <2>3, FramesGrow
  <2>5. FlowNext
    BY <2>1, <2>2, TopType DEF FlowNext
  <2>6. f \in FramesUpTo(visited') /\ f.k = "switch" /\ f.phase = "cases"
    BY <2>1, <2>2, <2>3, <2>4, FrameType DEF Kinds, Frame
  <2>7. QED
    <3>1. ctl' = Append(ctl, f)
      BY <2>1
    <3> HIDE DEF f
    <3>2. QED
      BY <1>0, <2>1, <2>5, <2>6, <3>1, TypePush
<1>20. CASE CaseLabel
  <2>1. PICK default \in BOOLEAN :
           /\ Visit /\ Top.k = "switch"
           /\ ctl' = Append([ctl EXCEPT ![Len(ctl)].over = @ \/ default],
                            Frame("block", "body", {}, {}))
           /\ OpenScope /\ state' = Top.state /\ reach' = reach \cup Top.paths
           /\ NoFlow /\ UNCHANGED <<blind, coarse>>
    BY <1>20 DEF CaseLabel
  <2> DEFINE f == Frame("block", "body", {}, {})
             n == Len(ctl)
             g == [Top EXCEPT !.over = @ \/ default]
             c == [ctl EXCEPT ![n] = g]
  <2>2. f \in FramesUpTo(visited') /\ f.k = "block" /\ f.phase = "body"
    BY <2>1, VisitFacts, FrameType DEF Kinds, Frame
  <2>3. FlowNext
    BY <1>0, <2>1, VisitFacts, FlowSame, TopType DEF NoFlow
  <2>4. g \in FramesUpTo(visited) /\ g.k = Top.k /\ g.phase = Top.phase
    BY TypeFacts DEF FramesUpTo
  <2>5. /\ c \in Seq(FramesUpTo(visited)) /\ Len(c) = Len(ctl)
        /\ \A i \in 1..Len(ctl) : c[i].k = ctl[i].k /\ c[i].phase = ctl[i].phase
    <3>1. n \in 1..n /\ Top = ctl[n]
      BY TypeFacts
    <3> HIDE DEF g, n
    <3>2. /\ c \in Seq(FramesUpTo(visited)) /\ Len(c) = Len(ctl) /\ c[n] = g
          /\ \A i \in 1..Len(ctl) : i # n => c[i] = ctl[i]
      BY <1>0, <2>4, <3>1, ExceptSeq DEF n
    <3>3. QED
      BY <2>4, <3>1, <3>2
  <2>6. ctl' = Append(c, f)
    <3>1. c = [ctl EXCEPT ![Len(ctl)].over = @ \/ default]
      BY TypeFacts
    <3>2. QED
      BY <2>1, <3>1
  <2>7. QED
    <3> HIDE DEF c, f
    <3>1. QED
      BY <2>1, <2>2, <2>3, <2>5, <2>6, TypePush
<1>21. CASE EndSwitch
  <2>1. /\ Top.k = "switch" /\ Finish(FALSE) /\ InnerSteps
        /\ UNCHANGED scopes /\ Len(ctl) >= 2
    BY <1>21, TypeFacts DEF EndSwitch
  <2>2. /\ state' \in SUBSET Names /\ coarse' \in SUBSET Names
        /\ reach' \in SUBSET StatesUpTo(visited)
    BY <1>21, TopType DEF EndSwitch
  <2>3. FlowNext
    BY <1>0, <1>21, <2>1, <2>2, VisitFacts, FlowSame DEF EndSwitch, NoFlow
  <2>4. QED
    BY <2>1, <2>3, TypeFinish
<1>22. QED
  BY <1>1, <1>2, <1>3, <1>4, <1>5, <1>6, <1>7, <1>8, <1>9, <1>10, <1>11, <1>12,
     <1>13, <1>14, <1>15, <1>16, <1>17, <1>18, <1>19, <1>20, <1>21 DEF Next

LEMMA WalkIsTyped == Spec => []TypeInv
<1>1. ASSUME TypeInv, [Next]_vars
      PROVE  TypeInv'
  <2>1. CASE Next
    BY <1>1, <2>1, TypeStep
  <2>2. CASE UNCHANGED vars
    BY <1>1, <2>2 DEF vars, progVars, flowVars, TypeInv, TypeOK, WellNested,
                      ScopesOpened
  <2>3. QED
    BY <1>1, <2>1, <2>2
<1>2. QED
  BY InitType, <1>1, PTL DEF Spec

\* TypeOK: the walk of any function opens and closes its scopes in pairs, and
\* what it records refers to declarations it has visited.
THEOREM TypeCorrect == Spec => []TypeOK
<1>1. TypeInv => TypeOK
  BY DEF TypeInv
<1>2. QED
  BY WalkIsTyped, <1>1, PTL

-------------------------------------------------------------------------------
(* Why W3003 is sound.                                                      *)

\* The executions frame f holds back.
Held(f) == f.paths \cup f.exits \cup f.conts

DeadInv ==
    /\ UnreachableIsDead
    /\ \A i \in DOMAIN ctl : ctl[i].k = "block" =>
          /\ ctl[i].last => ctl[i].over
          /\ ctl[i].over => \A j \in DOMAIN ctl : i < j => Held(ctl[j]) = {}
    /\ \A i \in DOMAIN ctl : ctl[i].k = "else" /\ ctl[i].over => ctl[i].paths = {}
    /\ Top.phase = "after" /\ Top.last => reach = {}

-------------------------------------------------------------------------------
(* The frames after a step, by the shape of the step.                       *)

LEMMA PushFrames ==
    ASSUME TypeInv, NEW c \in Seq(FramesUpTo(visited)), Len(c) = Len(ctl), NEW f,
           ctl' = Append(c, f)
    PROVE  /\ Len(ctl') = Len(ctl) + 1 /\ DOMAIN ctl' = 1..(Len(ctl) + 1)
           /\ \A i \in 1..Len(ctl) : ctl'[i] = c[i]
           /\ ctl'[Len(ctl) + 1] = f /\ Top' = f
<1>1. Len(ctl) \in Nat
  BY TypeFacts
<1>2. /\ Len(ctl') = Len(ctl) + 1 /\ DOMAIN ctl' = 1..(Len(ctl) + 1)
      /\ \A i \in 1..Len(ctl) : ctl'[i] = c[i]
      /\ ctl'[Len(ctl) + 1] = f
  BY <1>1
<1>3. QED
  BY <1>1, <1>2 DEF Top

LEMMA ReplaceFrames ==
    ASSUME TypeInv, Len(ctl) >= 2, NEW f, ctl' = Append(Front(ctl), f)
    PROVE  /\ Len(ctl') = Len(ctl) /\ DOMAIN ctl' = 1..Len(ctl)
           /\ \A i \in 1..(Len(ctl) - 1) : ctl'[i] = ctl[i]
           /\ ctl'[Len(ctl)] = f /\ Top' = f
<1> DEFINE c == Front(ctl)
<1>1. /\ Len(ctl) \in Nat /\ c \in Seq(FramesUpTo(visited)) /\ Len(c) = Len(ctl) - 1
      /\ \A i \in 1..(Len(ctl) - 1) : c[i] = ctl[i]
  BY TypeFacts, FrontWalk DEF Walk
<1>2. /\ Len(ctl') = Len(ctl) /\ DOMAIN ctl' = 1..Len(ctl)
      /\ \A i \in 1..(Len(ctl) - 1) : ctl'[i] = c[i]
      /\ ctl'[Len(ctl)] = f
  <2>1. ctl' = Append(c, f)
    OBVIOUS
  <2> HIDE DEF c
  <2>2. QED
    BY <1>1, <2>1
<1>3. QED
  BY <1>1, <1>2 DEF Top

\* Complete, where the innermost statement is waiting for a child.
LEMMA CompleteFrames ==
    ASSUME NEW c, NEW n \in Nat, c \in Seq(FramesUpTo(n)), Len(c) \in Nat \ {0},
           NEW t \in BOOLEAN, ctl' = Complete(c, t)
    PROVE  /\ Len(ctl') = Len(c) /\ DOMAIN ctl' = 1..Len(c)
           /\ \A i \in 1..Len(c) :
                 /\ i # Len(c) => ctl'[i] = c[i]
                 /\ ctl'[i].k = c[i].k /\ ctl'[i].state = c[i].state
                 /\ ctl'[i].paths = c[i].paths /\ Held(ctl'[i]) = Held(c[i])
           /\ Top' = ctl'[Len(c)]
           /\ Top'.k = "block" =>
                 /\ Top'.last = t /\ Top'.phase = c[Len(c)].phase
                 /\ Top'.over = (c[Len(c)].over \/ t)
           /\ Top'.k = "switch" => Top' = c[Len(c)]
           /\ Top'.k \notin {"block", "switch"} =>
                 /\ Top'.last = t /\ Top'.over = c[Len(c)].over
                 /\ Top'.phase = IF c[Len(c)].phase = "init" THEN "cond" ELSE "after"
<1> DEFINE d == ctl'
<1>1. /\ d \in Seq(FramesUpTo(n)) /\ Len(d) = Len(c)
      /\ \A i \in 1..Len(c) :
            /\ i # Len(c) => d[i] = c[i]
            /\ d[i].k = c[i].k /\ d[i].state = c[i].state
            /\ d[i].paths = c[i].paths /\ d[i].exits = c[i].exits
            /\ d[i].conts = c[i].conts
      /\ c[Len(c)].k = "block" =>
            /\ d[Len(c)].last = t /\ d[Len(c)].phase = c[Len(c)].phase
            /\ d[Len(c)].over = (c[Len(c)].over \/ t)
      /\ c[Len(c)].k = "switch" => d[Len(c)] = c[Len(c)]
      /\ c[Len(c)].k \notin {"block", "switch"} =>
            /\ d[Len(c)].last = t /\ d[Len(c)].over = c[Len(c)].over
            /\ d[Len(c)].phase = IF c[Len(c)].phase = "init" THEN "cond" ELSE "after"
  BY CompleteFacts
<1>2. DOMAIN d = 1..Len(c) /\ Len(c) \in 1..Len(c)
  BY <1>1, LenProperties
<1>3. Top' = d[Len(c)]
  BY <1>1 DEF Top
<1>4. \A i \in 1..Len(c) : Held(d[i]) = Held(c[i])
  BY <1>1 DEF Held
<1>5. QED
  <2> HIDE DEF d
  <2>1. /\ Len(d) = Len(c) /\ DOMAIN d = 1..Len(c)
        /\ \A i \in 1..Len(c) :
              /\ i # Len(c) => d[i] = c[i]
              /\ d[i].k = c[i].k /\ d[i].state = c[i].state
              /\ d[i].paths = c[i].paths /\ Held(d[i]) = Held(c[i])
    BY <1>1, <1>2, <1>4
  <2>2. Top'.k = c[Len(c)].k
    BY <1>1, <1>2, <1>3
  <2>3. QED
    BY <1>1, <1>3, <2>1, <2>2 DEF d

LEMMA FinishFrames ==
    ASSUME TypeInv, Len(ctl) >= 2, NEW t \in BOOLEAN, Finish(t),
           NEW n, n = Len(ctl) - 1
    PROVE  /\ n \in Nat \ {0} /\ n < Len(ctl)
           /\ Len(ctl') = n /\ DOMAIN ctl' = 1..n
           /\ \A i \in 1..n :
                 /\ i # n => ctl'[i] = ctl[i]
                 /\ ctl'[i].k = ctl[i].k /\ ctl'[i].state = ctl[i].state
                 /\ ctl'[i].paths = ctl[i].paths /\ Held(ctl'[i]) = Held(ctl[i])
           /\ Top' = ctl'[n]
           /\ Top'.k = "block" =>
                 /\ Top'.last = t /\ Top'.phase = "body"
                 /\ Top'.over = (ctl[n].over \/ t)
           /\ Top'.k = "switch" => Top' = ctl[n]
           /\ Top'.k \notin {"block", "switch"} =>
                 /\ Top'.last = t /\ Top'.over = ctl[n].over
                 /\ Top'.phase = "after"
<1> DEFINE c == Front(ctl)
<1>1. /\ visited \in Nat /\ c \in Seq(FramesUpTo(visited)) /\ Len(c) = n
      /\ n \in Nat \ {0} /\ n < Len(ctl)
      /\ \A i \in 1..n : c[i] = ctl[i]
      /\ c[n].phase \in {"body", "cases"} /\ WellNested(c)
  BY TypeFacts, FrontWalk DEF Walk
<1>2. ctl' = Complete(c, t)
  BY DEF Finish
<1>3. /\ c[n].k = "block" => c[n].phase = "body"
      /\ c[n].phase # "init"
  BY <1>1 DEF WellNested
<1> HIDE DEF c
<1>4. /\ Len(ctl') = n /\ DOMAIN ctl' = 1..n
      /\ \A i \in 1..n :
            /\ i # n => ctl'[i] = c[i]
            /\ ctl'[i].k = c[i].k /\ ctl'[i].state = c[i].state
            /\ ctl'[i].paths = c[i].paths /\ Held(ctl'[i]) = Held(c[i])
      /\ Top' = ctl'[n]
      /\ Top'.k = "block" =>
            /\ Top'.last = t /\ Top'.phase = c[n].phase
            /\ Top'.over = (c[n].over \/ t)
      /\ Top'.k = "switch" => Top' = c[n]
      /\ Top'.k \notin {"block", "switch"} =>
            /\ Top'.last = t /\ Top'.over = c[n].over
            /\ Top'.phase = IF c[n].phase = "init" THEN "cond" ELSE "after"
  BY <1>1, <1>2, CompleteFrames
<1>5. Top'.k = c[n].k /\ n \in 1..n
  BY <1>1, <1>4
<1>6. QED
  BY <1>1, <1>3, <1>4, <1>5

-------------------------------------------------------------------------------
(* W3003.                                                                   *)

\* One of the first n statements is a block whose rest is unreachable.
DeadAt(n) == \E i \in 1..n : ctl[i].k = "block" /\ ctl[i].over

LEMMA DeadFacts ==
    ASSUME TypeInv, DeadInv
    PROVE  /\ DeadAt(Len(ctl)) => reach = {}
           /\ DeadAt(Len(ctl) - 1) => DeadAt(Len(ctl)) /\ Held(Top) = {}
           /\ Top.k # "block" => (DeadAt(Len(ctl)) => DeadAt(Len(ctl) - 1))
<1> DEFINE N == Len(ctl)
<1>1. /\ N \in Nat \ {0} /\ DOMAIN ctl = 1..N /\ Top = ctl[N] /\ N \in 1..N
  BY TypeFacts
<1>2. \A i \in 1..N : ctl[i].k = "block" /\ ctl[i].over =>
          reach = {} /\ \A j \in 1..N : i < j => Held(ctl[j]) = {}
  BY <1>1 DEF DeadInv, UnreachableIsDead
<1> HIDE DEF N
<1>3. ASSUME NEW i \in 1..(N - 1)
      PROVE  i \in 1..N /\ i < N
  BY <1>1
<1>4. ASSUME NEW i \in 1..N, i # N
      PROVE  i \in 1..(N - 1)
  BY <1>1, <1>4
<1>5. DeadAt(N) => reach = {}
  BY <1>2 DEF DeadAt
<1>6. DeadAt(N - 1) => DeadAt(N) /\ Held(Top) = {}
  BY <1>1, <1>2, <1>3 DEF DeadAt
<1>7. Top.k # "block" => (DeadAt(N) => DeadAt(N - 1))
  BY <1>1, <1>4 DEF DeadAt
<1>8. QED
  BY <1>5, <1>6, <1>7 DEF N

LEMMA DeadPush ==
    ASSUME TypeInv, DeadInv,
           NEW c \in Seq(FramesUpTo(visited)), Len(c) = Len(ctl),
           \A i \in 1..Len(ctl) : /\ c[i].k = ctl[i].k /\ Held(c[i]) = Held(ctl[i])
                                  /\ ctl[i].k # "switch" => c[i] = ctl[i],
           NEW f, f.k # "else", ~f.last, ~f.over, ctl' = Append(c, f),
           DeadAt(Len(ctl)) => reach' = {} /\ Held(f) = {}
    PROVE  DeadInv'
<1> DEFINE N == Len(ctl)
<1>1. /\ N \in Nat /\ DOMAIN ctl = 1..N
      /\ Len(ctl') = N + 1 /\ DOMAIN ctl' = 1..(N + 1)
      /\ \A i \in 1..N : ctl'[i] = c[i]
      /\ ctl'[N + 1] = f /\ Top' = f
  BY TypeFacts, PushFrames
<1>2. \A i \in 1..(N + 1) : i = N + 1 \/ i \in 1..N
  BY TypeFacts
<1>3. /\ DeadAt(N) => reach' = {} /\ Held(f) = {}
      /\ \A i \in 1..N : /\ c[i].k = ctl[i].k /\ Held(c[i]) = Held(ctl[i])
                          /\ ctl[i].k # "switch" => c[i] = ctl[i]
  OBVIOUS
<1> HIDE DEF N
<1>4. \A i \in 1..N : /\ ctl'[i].k = ctl[i].k /\ Held(ctl'[i]) = Held(ctl[i])
                      /\ ctl[i].k # "switch" => ctl'[i] = ctl[i]
  BY <1>3, <1>1
<1>5. ASSUME NEW i \in 1..(N + 1), ctl'[i].k = "block"
      PROVE  /\ ctl'[i].last => ctl'[i].over
             /\ ctl'[i].over =>
                   /\ reach' = {}
                   /\ \A j \in 1..(N + 1) : i < j => Held(ctl'[j]) = {}
  <2>1. CASE i = N + 1
    BY <1>1, <2>1
  <2>2. CASE i \in 1..N
    <3>1. ctl'[i] = ctl[i]
      BY <1>4, <1>5, <2>2
    <3>2. ctl[i].last => ctl[i].over
      BY <1>1, <1>5, <2>2, <3>1 DEF DeadInv
    <3>3. ASSUME ctl[i].over
          PROVE  /\ reach' = {}
                 /\ \A j \in 1..(N + 1) : i < j => Held(ctl'[j]) = {}
      <4>1. DeadAt(N)
        BY <1>5, <2>2, <3>1, <3>3 DEF DeadAt
      <4>2. \A j \in 1..N : i < j => Held(ctl[j]) = {}
        BY <1>1, <1>5, <2>2, <3>1, <3>3 DEF DeadInv
      <4>3. ASSUME NEW j \in 1..(N + 1), i < j
            PROVE  Held(ctl'[j]) = {}
        <5>1. CASE j = N + 1
          BY <1>3, <1>1, <4>1, <5>1
        <5>2. CASE j \in 1..N
          BY <1>4, <4>2, <4>3, <5>2
        <5>3. QED
          BY <1>2, <4>3, <5>1, <5>2
      <4>4. QED
        BY <1>3, <4>1, <4>3
    <3>4. QED
      BY <3>1, <3>2, <3>3
  <2>3. QED
    BY <1>2, <1>5, <2>1, <2>2
<1>6. \A i \in 1..(N + 1) : ctl'[i].k = "else" /\ ctl'[i].over => ctl'[i].paths = {}
  <2>1. \A i \in 1..N : ctl[i].k = "else" /\ ctl[i].over => ctl[i].paths = {}
    BY <1>1 DEF DeadInv
  <2>2. QED
    BY <1>1, <1>4, <2>1
<1>7. QED
  BY <1>1, <1>5, <1>6 DEF DeadInv, UnreachableIsDead

LEMMA DeadComplete ==
    ASSUME TypeInv, DeadInv, NEW n \in Nat, NEW c \in Seq(FramesUpTo(n)),
           Len(c) \in 1..Len(ctl),
           \A i \in 1..Len(c) : /\ c[i].k = ctl[i].k /\ c[i].last = ctl[i].last
                                /\ c[i].over = ctl[i].over
                                /\ c[i].paths = ctl[i].paths,
           DeadAt(Len(c)) => /\ reach' = {}
                             /\ \A i \in 1..Len(c) : Held(c[i]) = Held(ctl[i]),
           NEW t \in BOOLEAN, t => reach' = {}, ctl' = Complete(c, t),
           c[Len(c)].phase # "cases" => c[Len(c)].k # "switch",
           c[Len(c)].k = "block" => c[Len(c)].phase # "after",
           c[Len(c)].k = "switch" => c[Len(c)].phase # "after"
    PROVE  DeadInv'
<1> DEFINE N == Len(c)
<1>1. /\ N \in Nat \ {0} /\ DOMAIN ctl = 1..Len(ctl) /\ Len(ctl) \in Nat
      /\ Len(ctl') = N /\ DOMAIN ctl' = 1..N
      /\ \A i \in 1..N :
            /\ i # N => ctl'[i] = c[i]
            /\ ctl'[i].k = c[i].k /\ ctl'[i].paths = c[i].paths
            /\ Held(ctl'[i]) = Held(c[i])
      /\ Top' = ctl'[N]
      /\ Top'.k = "block" =>
            /\ Top'.last = t /\ Top'.phase = c[N].phase /\ Top'.over = (c[N].over \/ t)
      /\ Top'.k = "switch" => Top' = c[N]
      /\ Top'.k \notin {"block", "switch"} => Top'.last = t /\ Top'.over = c[N].over
  BY TypeFacts, CompleteFrames
<1>0. /\ N \in 1..Len(ctl) /\ \A i \in 1..N : i \in 1..Len(ctl)
      /\ \A i \in 1..N : /\ c[i].k = ctl[i].k /\ c[i].last = ctl[i].last
                          /\ c[i].over = ctl[i].over
                          /\ c[i].paths = ctl[i].paths
      /\ DeadAt(N) => /\ reach' = {}
                      /\ \A i \in 1..N : Held(c[i]) = Held(ctl[i])
      /\ c[N].phase # "cases" => c[N].k # "switch"
      /\ c[N].k = "block" => c[N].phase # "after"
      /\ c[N].k = "switch" => c[N].phase # "after"
  <2>1. \A i \in 1..N : i \in 1..Len(ctl)
    <3> HIDE DEF N
    <3>1. N \in 1..Len(ctl)
      BY DEF N
    <3>2. QED
      BY <1>1, <3>1
  <2>2. QED
    BY <2>1
<1> HIDE DEF N
<1>2. ASSUME NEW i \in 1..N, ctl'[i].k = "block"
      PROVE  /\ ctl'[i].last => ctl'[i].over
             /\ ctl'[i].over =>
                   /\ reach' = {}
                   /\ \A j \in 1..N : i < j => Held(ctl'[j]) = {}
  <2>1. /\ ctl[i].k = "block" /\ i \in 1..Len(ctl)
        /\ ctl[i].last => ctl[i].over
    BY <1>0, <1>1, <1>2 DEF DeadInv
  <2>2. ASSUME ctl[i].over
        PROVE  /\ reach' = {}
               /\ \A j \in 1..N : i < j => Held(ctl'[j]) = {}
    <3>1. DeadAt(N)
      BY <2>1, <2>2 DEF DeadAt
    <3>2. \A j \in 1..N : i < j => Held(ctl[j]) = {}
      BY <1>0, <1>1, <2>1, <2>2 DEF DeadInv
    <3>3. \A j \in 1..N : Held(ctl'[j]) = Held(ctl[j])
      BY <1>0, <1>1, <3>1
    <3>4. QED
      BY <1>0, <3>1, <3>2, <3>3
  <2>3. CASE i = N
    <3>1. /\ ctl'[i].last = t /\ ctl'[i].over = (c[i].over \/ t)
      BY <1>0, <1>1, <1>2, <2>3
    <3>2. \A j \in 1..N : ~(i < j)
      BY <1>1, <2>3
    <3>3. c[i].over = ctl[i].over
      BY <1>0
    <3>4. t => reach' = {}
      OBVIOUS
    <3>5. QED
      BY <2>2, <2>3, <3>1, <3>2, <3>3, <3>4
  <2>4. CASE i # N
    <3>1. ctl'[i].last = ctl[i].last /\ ctl'[i].over = ctl[i].over
      BY <1>0, <1>1, <2>4
    <3>2. QED
      BY <2>1, <2>2, <3>1
  <2>5. QED
    BY <2>3, <2>4
<1>3. \A i \in 1..N : ctl'[i].k = "else" /\ ctl'[i].over => ctl'[i].paths = {}
  <2>1. \A i \in 1..N : ctl[i].k = "else" /\ ctl[i].over => ctl[i].paths = {}
    BY <1>0, <1>1 DEF DeadInv
  <2>2. \A i \in 1..N : ctl'[i].k = "else" => ctl'[i].over = c[i].over
    BY <1>0, <1>1
  <2>3. QED
    BY <1>0, <1>1, <2>1, <2>2
<1>4. Top'.phase = "after" /\ Top'.last => reach' = {}
  BY <1>0, <1>1
<1>5. QED
  BY <1>1, <1>2, <1>3, <1>4 DEF DeadInv, UnreachableIsDead

\* Steps that visit a statement without parts.
LEMMA DeadStay ==
    ASSUME TypeInv, DeadInv, NEW t \in BOOLEAN, t => reach' = {},
           DeadAt(Len(ctl)) => reach' = {}, ctl' = Complete(ctl, t)
    PROVE  DeadInv'
<1>1. /\ visited \in Nat /\ ctl \in Seq(FramesUpTo(visited))
      /\ Len(ctl) \in 1..Len(ctl)
      /\ ctl[Len(ctl)].k = "switch" <=> ctl[Len(ctl)].phase = "cases"
      /\ ctl[Len(ctl)].k = "block" => ctl[Len(ctl)].phase # "after"
  BY TypeFacts DEF TypeInv, TypeOK, WellNested
<1>2. QED
  BY <1>1, DeadComplete

\* Steps that leave a statement.
LEMMA DeadFinish ==
    ASSUME TypeInv, DeadInv, Len(ctl) >= 2, NEW t \in BOOLEAN, Finish(t),
           t => reach' = {}, DeadAt(Len(ctl) - 1) => reach' = {}
    PROVE  DeadInv'
<1> DEFINE n == Len(ctl) - 1
           c == Front(ctl)
<1>1. /\ visited \in Nat /\ c \in Seq(FramesUpTo(visited)) /\ Len(c) = n
      /\ n \in Nat \ {0} /\ n \in 1..Len(ctl) /\ WellNested(c)
      /\ \A i \in 1..n : c[i] = ctl[i]
      /\ ctl' = Complete(c, t)
  <2>1. Len(ctl) \in Nat
    BY TypeFacts
  <2>2. n \in Nat \ {0} /\ n \in 1..Len(ctl)
    <3>1. \A N \in Nat : N >= 2 => N - 1 \in Nat \ {0} /\ N - 1 \in 1..N
      OBVIOUS
    <3>2. QED
      BY <2>1, <3>1
  <2>3. /\ c \in Seq(FramesUpTo(visited)) /\ Len(c) = n /\ WellNested(c)
        /\ \A i \in 1..n : c[i] = ctl[i]
    BY FrontWalk DEF Walk
  <2>4. QED
    BY <2>2, <2>3, TypeFacts DEF Finish
<1>2. /\ DeadAt(n) => reach' = {}
      /\ t => reach' = {}
  OBVIOUS
<1> HIDE DEF n, c
<1>3. /\ c[n].k = "switch" <=> c[n].phase = "cases"
      /\ c[n].k = "block" => c[n].phase # "after"
  BY <1>1 DEF WellNested
<1>4. QED
  BY <1>1, <1>2, <1>3, DeadComplete

\* Steps that go on to another part of the statement.
LEMMA DeadReplace ==
    ASSUME TypeInv, DeadInv, Len(ctl) >= 2, NEW f, f.k # "block",
           f.k = "else" /\ f.over => f.paths = {}, f.phase # "after",
           ctl' = Append(Front(ctl), f),
           DeadAt(Len(ctl) - 1) => reach' = {} /\ Held(f) = {}
    PROVE  DeadInv'
<1> DEFINE n == Len(ctl) - 1
<1>1. /\ n \in Nat /\ DOMAIN ctl = 1..(n + 1) /\ DOMAIN ctl' = 1..(n + 1)
      /\ \A i \in 1..n : ctl'[i] = ctl[i]
      /\ ctl'[n + 1] = f /\ Top' = f
      /\ \A i \in 1..(n + 1) : i = n + 1 \/ i \in 1..n
  <2>1. Len(ctl) \in Nat /\ n \in Nat /\ n + 1 = Len(ctl)
    BY TypeFacts
  <2>2. /\ DOMAIN ctl = 1..(n + 1) /\ DOMAIN ctl' = 1..(n + 1)
        /\ \A i \in 1..n : ctl'[i] = ctl[i]
        /\ ctl'[n + 1] = f /\ Top' = f
    BY <2>1, TypeFacts, ReplaceFrames
  <2> HIDE DEF n
  <2>3. \A i \in 1..(n + 1) : i = n + 1 \/ i \in 1..n
    BY <2>1
  <2>4. QED
    BY <2>1, <2>2, <2>3
<1>2. DeadAt(n) => reach' = {} /\ Held(f) = {}
  OBVIOUS
<1> HIDE DEF n
<1>3. ASSUME NEW i \in 1..(n + 1), ctl'[i].k = "block"
      PROVE  /\ ctl'[i].last => ctl'[i].over
             /\ ctl'[i].over =>
                   /\ reach' = {}
                   /\ \A j \in 1..(n + 1) : i < j => Held(ctl'[j]) = {}
  <2>1. i \in 1..n /\ ctl'[i] = ctl[i] /\ i \in DOMAIN ctl
    BY <1>1, <1>3
  <2>2. /\ ctl[i].last => ctl[i].over
        /\ ctl[i].over => \A j \in 1..(n + 1) : i < j => Held(ctl[j]) = {}
    BY <1>1, <1>3, <2>1 DEF DeadInv
  <2>3. ctl[i].over => DeadAt(n)
    BY <1>3, <2>1 DEF DeadAt
  <2>4. QED
    BY <1>1, <1>2, <2>1, <2>2, <2>3
<1>4. \A i \in 1..(n + 1) : ctl'[i].k = "else" /\ ctl'[i].over => ctl'[i].paths = {}
  <2>1. \A i \in 1..n : ctl[i].k = "else" /\ ctl[i].over => ctl[i].paths = {}
    BY <1>1 DEF DeadInv
  <2>2. QED
    BY <1>1, <2>1
<1>5. QED
  BY <1>1, <1>3, <1>4 DEF DeadInv, UnreachableIsDead

\* A jump: the executions wait in an outer frame.
LEMMA DeadJump ==
    ASSUME TypeInv, DeadInv, reach' = {}, NEW i \in 1..Len(ctl),
           NEW E \in SUBSET StatesUpTo(visited), NEW C \in SUBSET StatesUpTo(visited),
           reach = {} => E = ctl[i].exits /\ C = ctl[i].conts,
           ctl' = Complete([ctl EXCEPT ![i].exits = E, ![i].conts = C], TRUE)
    PROVE  DeadInv'
<1> DEFINE N == Len(ctl)
           f == [ctl[i] EXCEPT !.exits = E, !.conts = C]
           c == [ctl EXCEPT ![i] = f]
<1>1. /\ ctl \in Seq(FramesUpTo(visited)) /\ ctl[i] \in FramesUpTo(visited)
      /\ visited \in Nat /\ N \in 1..N /\ N \in Nat
  BY TypeFacts DEF TypeInv, TypeOK
<1>2. /\ f \in FramesUpTo(visited) /\ f.k = ctl[i].k /\ f.phase = ctl[i].phase
      /\ f.last = ctl[i].last /\ f.over = ctl[i].over /\ f.paths = ctl[i].paths
      /\ f.exits = E /\ f.conts = C
  BY <1>1 DEF FramesUpTo
<1> HIDE DEF f
<1>3. /\ c \in Seq(FramesUpTo(visited)) /\ Len(c) = N /\ c[i] = f
      /\ \A j \in 1..N : j # i => c[j] = ctl[j]
  BY <1>1, <1>2, ExceptSeq
<1>4. ctl' = Complete(c, TRUE)
  BY DEF f
<1> HIDE DEF c
<1>5. \A j \in 1..N : /\ c[j].k = ctl[j].k /\ c[j].phase = ctl[j].phase
                      /\ c[j].last = ctl[j].last /\ c[j].over = ctl[j].over
                      /\ c[j].paths = ctl[j].paths
  BY <1>2, <1>3
<1>6. DeadAt(N) => \A j \in 1..N : Held(c[j]) = Held(ctl[j])
  <2>1. DeadAt(N) => Held(f) = Held(ctl[i])
    BY <1>2, DeadFacts DEF Held
  <2>2. QED
    BY <1>3, <2>1
<1>7. /\ c[N].phase # "cases" => c[N].k # "switch"
      /\ c[N].k = "block" => c[N].phase # "after"
      /\ c[N].k = "switch" => c[N].phase # "after"
  BY <1>1, <1>5 DEF TypeInv, WellNested
<1>8. /\ visited \in Nat /\ c \in Seq(FramesUpTo(visited)) /\ Len(c) \in 1..Len(ctl)
      /\ \A j \in 1..Len(c) : /\ c[j].k = ctl[j].k /\ c[j].last = ctl[j].last
                              /\ c[j].over = ctl[j].over /\ c[j].paths = ctl[j].paths
      /\ DeadAt(Len(c)) => \A j \in 1..Len(c) : Held(c[j]) = Held(ctl[j])
      /\ c[Len(c)].phase # "cases" => c[Len(c)].k # "switch"
      /\ c[Len(c)].k = "block" => c[Len(c)].phase # "after"
      /\ c[Len(c)].k = "switch" => c[Len(c)].phase # "after"
  BY <1>1, <1>3, <1>5, <1>6, <1>7
<1> HIDE DEF N
<1>9. QED
  BY <1>4, <1>8, DeadComplete

\* No execution evaluates an expression that none reaches.
LEMMA NoOutcomes == \A e : Outcomes(e, {}) = {}
BY DEF Outcomes

\* What a frame just pushed holds.
LEMMA FrameHolds ==
    \A k, phase, s, P :
        LET f == Frame(k, phase, s, P)
        IN  /\ f.k = k /\ f.phase = phase /\ f.state = s /\ f.paths = P
            /\ Held(f) = P /\ ~f.last /\ ~f.over
BY DEF Frame, Held

\* Every step keeps it so: one step of the proof for each action.
LEMMA DeadStep ==
    ASSUME TypeInv, DeadInv, Next
    PROVE  DeadInv'
<1>0. /\ ctl \in Seq(FramesUpTo(visited)) /\ Len(ctl) \in Nat
      /\ \A i \in 1..Len(ctl) : /\ ctl[i].k = ctl[i].k /\ Held(ctl[i]) = Held(ctl[i])
                                /\ ctl[i].k # "switch" => ctl[i] = ctl[i]
  BY TypeFacts DEF TypeInv, TypeOK
<1>1. CASE OpenBlock
  <2> DEFINE f == Frame("block", "body", {}, {})
  <2>1. ctl' = Append(ctl, f) /\ reach' = reach
    BY <1>1 DEF OpenBlock, Push, flowVars
  <2>2. f.k # "else" /\ ~f.last /\ ~f.over /\ Held(f) = {}
    BY FrameHolds
  <2>3. QED
    <3> HIDE DEF f
    <3>1. QED
      BY <1>0, <2>1, <2>2, DeadFacts, DeadPush
<1>2. CASE CloseBlock
  <2>1. /\ Len(ctl) >= 2 /\ Top.k = "block" /\ Finish(Top.last) /\ reach' = reach
    BY <1>2, TypeFacts DEF CloseBlock
  <2>2. Top.last => reach = {}
    BY <2>1, TypeFacts DEF DeadInv, UnreachableIsDead
  <2>3. QED
    BY <2>1, <2>2, TopType, DeadFacts, DeadFinish
<1>3. CASE ExprStmt
  <2>1. PICK e \in Exprs : Here(e) /\ ctl' = Complete(ctl, FALSE)
    BY <1>3 DEF ExprStmt
  <2>2. reach = {} => reach' = {}
    BY <2>1, NoOutcomes DEF Here
  <2>3. QED
    BY <2>1, <2>2, DeadFacts, DeadStay
<1>4. CASE Declare
  <2>1. (reach = {} => reach' = {}) /\ ctl' = Complete(ctl, FALSE)
    BY <1>4 DEF Declare
  <2>2. QED
    BY <2>1, DeadFacts, DeadStay
<1>5. CASE DeferStmt
  BY <1>5 DEF DeferStmt, flowVars, DeadInv, UnreachableIsDead, Top, Held
<1>6. CASE ReturnStmt
  <2>1. reach' = {} /\ ctl' = Complete(ctl, TRUE)
    BY <1>6 DEF ReturnStmt
  <2>2. QED
    BY <2>1, DeadStay
<1>7. CASE BreakStmt
  <2> DEFINE i == Innermost(Loops \cup {"switch"})
             E == ctl[i].exits \cup reach
             C == ctl[i].conts
  <2>1. /\ reach' = {} /\ i \in 1..Len(ctl)
        /\ ctl' = Complete([ctl EXCEPT ![i].exits = E], TRUE)
    BY <1>7, TypeFacts, InnermostFacts DEF BreakStmt, Jump
  <2>2. /\ E \in SUBSET StatesUpTo(visited) /\ C \in SUBSET StatesUpTo(visited)
        /\ [ctl EXCEPT ![i].exits = E, ![i].conts = C] = [ctl EXCEPT ![i].exits = E]
    <3> HIDE DEF i
    <3>1. ctl[i] \in FramesUpTo(visited)
      BY <2>1, TypeFacts
    <3>2. E \in SUBSET StatesUpTo(visited) /\ C \in SUBSET StatesUpTo(visited)
      BY <3>1, TopType DEF FramesUpTo
    <3>3. QED
      BY <1>0, <2>1, <3>1, <3>2, TypeFacts DEF FramesUpTo
  <2>3. reach = {} => E = ctl[i].exits
    OBVIOUS
  <2>4. QED
    <3> HIDE DEF i, E
    <3>1. QED
      BY <2>1, <2>2, <2>3, DeadJump
<1>8. CASE ContinueStmt
  <2> DEFINE i == Innermost(Loops)
             E == ctl[i].exits
             C == ctl[i].conts \cup reach
  <2>1. /\ reach' = {} /\ i \in 1..Len(ctl)
        /\ ctl' = Complete([ctl EXCEPT ![i].conts = C], TRUE)
    BY <1>8, TypeFacts, InnermostFacts DEF ContinueStmt, Jump
  <2>2. /\ E \in SUBSET StatesUpTo(visited) /\ C \in SUBSET StatesUpTo(visited)
        /\ [ctl EXCEPT ![i].exits = E, ![i].conts = C] = [ctl EXCEPT ![i].conts = C]
    <3> HIDE DEF i
    <3>1. ctl[i] \in FramesUpTo(visited)
      BY <2>1, TypeFacts
    <3>2. E \in SUBSET StatesUpTo(visited) /\ C \in SUBSET StatesUpTo(visited)
      BY <3>1, TopType DEF FramesUpTo
    <3>3. QED
      BY <1>0, <2>1, <3>1, <3>2, TypeFacts DEF FramesUpTo
  <2>3. reach = {} => C = ctl[i].conts
    OBVIOUS
  <2>4. QED
    <3> HIDE DEF i, C
    <3>1. QED
      BY <2>1, <2>2, <2>3, DeadJump
<1>9. ASSUME NEW k \in {"if", "while"}, NEW e \in Tests, Test(k, e)
      PROVE  DeadInv'
  <2> DEFINE f == Frame(k, "body", state', reach')
  <2>1. /\ ctl' = Append(ctl, f) /\ reach' = Outcomes(e, reach)
    BY <1>9 DEF Test, Push, Here
  <2>2. f.k # "else" /\ ~f.last /\ ~f.over /\ Held(f) = reach'
    BY FrameHolds
  <2>3. reach = {} => reach' = {}
    BY <2>1, NoOutcomes
  <2>4. QED
    <3> HIDE DEF f
    <3>1. QED
      BY <1>0, <2>1, <2>2, <2>3, DeadFacts, DeadPush
<1>10. CASE IfStmt \/ WhileStmt
  BY <1>9, <1>10 DEF IfStmt, WhileStmt
<1>11. CASE ElseBranch
  <2> DEFINE g == Frame("else", "body", state, reach)
             f == [g EXCEPT !.over = Top.last]
  <2>1. /\ Top.k = "if" /\ Top.phase = "after" /\ ctl' = Append(Front(ctl), f)
        /\ reach' = Top.paths /\ Len(ctl) >= 2
    BY <1>11, TypeFacts DEF ElseBranch
  <2>2. /\ f.k = "else" /\ f.over = Top.last /\ f.paths = reach
        /\ f.phase = "body" /\ Held(f) = reach
    BY DEF Frame, Held
  <2>3. /\ Top.last => reach = {}
        /\ DeadAt(Len(ctl) - 1) => reach = {} /\ Held(Top) = {}
    BY <2>1, DeadFacts DEF DeadInv
  <2>4. Held(Top) = {} => Top.paths = {}
    BY DEF Held
  <2>5. QED
    <3> HIDE DEF f
    <3>1. QED
      BY <2>1, <2>2, <2>3, <2>4, DeadReplace
<1>12. CASE EndIf
  <2>1. /\ Top.k \in {"if", "else"} /\ Top.phase = "after" /\ Finish(BothTransfer)
        /\ reach' = reach \cup Top.paths /\ Len(ctl) >= 2
    BY <1>12, TypeFacts DEF EndIf
  <2>2. BothTransfer \in BOOLEAN
    BY DEF BothTransfer
  <2>3. BothTransfer => reach = {} /\ Top.paths = {}
    <3>1. Top.k = "else" /\ Top.over => Top.paths = {}
      BY TypeFacts DEF DeadInv
    <3>2. Top.last => reach = {}
      BY <2>1 DEF DeadInv
    <3>3. QED
      BY <3>1, <3>2 DEF BothTransfer
  <2>4. DeadAt(Len(ctl) - 1) => reach = {} /\ Top.paths = {}
    BY DeadFacts DEF Held
  <2>5. QED
    BY <2>1, <2>2, <2>3, <2>4, DeadFinish
<1>13. CASE EndWhile \/ EndDoWhile \/ EndFor \/ EndSwitch
  <2>1. Top.k # "block" /\ Finish(FALSE)
    BY <1>13 DEF EndWhile, EndDoWhile, EndFor, EndSwitch, Loops
  <2>2. reach = {} /\ Held(Top) = {} => reach' = {}
    <3>1. Held(Top) = {} => Top.paths = {} /\ Top.exits = {} /\ Top.conts = {}
      BY DEF Held
    <3>2. EndWhile \/ EndSwitch => (reach = {} /\ Held(Top) = {} => reach' = {})
      BY <3>1 DEF EndWhile, EndSwitch
    <3>3. EndDoWhile \/ EndFor => (reach = {} /\ Held(Top) = {} => reach' = {})
      <4>1. ASSUME NEW e, reach = {}, Top.conts = {}
            PROVE  Outcomes(e, reach \cup Top.conts) = {}
        BY <4>1, NoOutcomes
      <4>2. QED
        BY <3>1, <4>1 DEF EndDoWhile, EndFor
    <3>4. QED
      BY <1>13, <3>2, <3>3
  <2>3. DeadAt(Len(ctl) - 1) => reach' = {}
    BY <2>2, DeadFacts
  <2>4. QED
    BY <2>1, <2>3, TypeFacts, DeadFinish
<1>14. CASE DoWhileStmt
  <2> DEFINE f == Frame("do", "body", state, {})
  <2>1. ctl' = Append(ctl, f) /\ reach' = reach
    BY <1>14 DEF DoWhileStmt, Push, flowVars
  <2>2. f.k # "else" /\ ~f.last /\ ~f.over /\ Held(f) = {}
    BY FrameHolds
  <2>3. QED
    <3> HIDE DEF f
    <3>1. QED
      BY <1>0, <2>1, <2>2, DeadFacts, DeadPush
<1>15. CASE ForStmt
  <2> DEFINE f == Frame("for", "init", {}, {})
  <2>1. ctl' = Append(ctl, f) /\ reach' = reach
    BY <1>15 DEF ForStmt, Push, flowVars
  <2>2. f.k # "else" /\ ~f.last /\ ~f.over /\ Held(f) = {}
    BY FrameHolds
  <2>3. QED
    <3> HIDE DEF f
    <3>1. QED
      BY <1>0, <2>1, <2>2, DeadFacts, DeadPush
<1>16. CASE ForCond
  <2> DEFINE f == Frame("for", "body", state', reach')
  <2>1. PICK e \in Tests :
           Top.k = "for" /\ reach' = Outcomes(e, reach) /\ ctl' = Append(Front(ctl), f)
    BY <1>16 DEF ForCond, Here
  <2>2. f.k = "for" /\ f.phase = "body" /\ Held(f) = reach'
    BY FrameHolds
  <2>3. DeadAt(Len(ctl) - 1) => reach' = {}
    BY <2>1, DeadFacts, NoOutcomes
  <2>4. QED
    <3> HIDE DEF f
    <3>1. QED
      BY <2>1, <2>2, <2>3, TypeFacts, DeadReplace
<1>17. CASE SwitchStmt
  <2>1. PICK e \in Tests :
           /\ reach' = {}
           /\ ctl' = Append(ctl, Frame("switch", "cases", state', Outcomes(e, reach)))
    BY <1>17 DEF SwitchStmt, Push
  <2> DEFINE f == Frame("switch", "cases", state', Outcomes(e, reach))
  <2>2. f.k # "else" /\ ~f.last /\ ~f.over /\ Held(f) = Outcomes(e, reach)
    BY FrameHolds
  <2>3. reach = {} => Outcomes(e, reach) = {}
    BY NoOutcomes
  <2>4. ctl' = Append(ctl, f)
    BY <2>1
  <2>5. QED
    <3> HIDE DEF f
    <3>1. QED
      BY <1>0, <2>1, <2>2, <2>3, <2>4, DeadFacts, DeadPush
<1>18. CASE CaseLabel
  <2> DEFINE f == Frame("block", "body", {}, {})
             n == Len(ctl)
  <2>1. PICK default \in BOOLEAN :
           /\ Top.k = "switch" /\ reach' = reach \cup Top.paths
           /\ ctl' = Append([ctl EXCEPT ![n].over = @ \/ default], f)
    BY <1>18 DEF CaseLabel
  <2> DEFINE g == [Top EXCEPT !.over = @ \/ default]
             c == [ctl EXCEPT ![n] = g]
  <2>2. f.k # "else" /\ ~f.last /\ ~f.over /\ Held(f) = {}
    BY FrameHolds
  <2>3. g \in FramesUpTo(visited) /\ g.k = Top.k /\ Held(g) = Held(Top)
    BY TypeFacts DEF FramesUpTo, Held
  <2>4. /\ c \in Seq(FramesUpTo(visited)) /\ Len(c) = Len(ctl)
        /\ \A i \in 1..Len(ctl) : /\ c[i].k = ctl[i].k /\ Held(c[i]) = Held(ctl[i])
                                  /\ ctl[i].k # "switch" => c[i] = ctl[i]
    <3>1. n \in 1..n /\ Top = ctl[n]
      BY TypeFacts
    <3> HIDE DEF g, n
    <3>2. /\ c \in Seq(FramesUpTo(visited)) /\ Len(c) = Len(ctl) /\ c[n] = g
          /\ \A i \in 1..Len(ctl) : i # n => c[i] = ctl[i]
      BY <1>0, <2>3, <3>1, ExceptSeq DEF n
    <3>3. QED
      BY <2>1, <2>3, <3>1, <3>2
  <2>5. ctl' = Append(c, f)
    <3>1. c = [ctl EXCEPT ![n].over = @ \/ default]
      BY TypeFacts
    <3>2. QED
      BY <2>1, <3>1
  <2>6. DeadAt(n) => reach' = {}
    <3>1. Held(Top) = {} => Top.paths = {}
      BY DEF Held
    <3>2. QED
      BY <2>1, <3>1, DeadFacts
  <2>7. QED
    <3> HIDE DEF c, f
    <3>1. QED
      BY <2>2, <2>4, <2>5, <2>6, DeadPush
<1>19. QED
  BY <1>1, <1>2, <1>3, <1>4, <1>5, <1>6, <1>7, <1>8, <1>10, <1>11, <1>12,
     <1>13, <1>14, <1>15, <1>16, <1>17, <1>18 DEF Next

\* UnreachableIsDead: in no function is a statement that W3003 reports as
\* unreachable reached by an execution.
THEOREM UnreachableCodeIsDead == Spec => []UnreachableIsDead
<1>1. Init => DeadInv
  BY DEF Init, Frame, DeadInv, UnreachableIsDead, Top, Held
<1>2. ASSUME TypeInv, DeadInv, [Next]_vars
      PROVE  DeadInv'
  <2>1. CASE Next
    BY <1>2, <2>1, DeadStep
  <2>2. CASE UNCHANGED vars
    BY <1>2, <2>2 DEF vars, progVars, flowVars, DeadInv, UnreachableIsDead, Top, Held
  <2>3. QED
    BY <1>2, <2>1, <2>2
<1>3. DeadInv => UnreachableIsDead
  BY DEF DeadInv
<1>4. QED
  BY WalkIsTyped, <1>1, <1>2, <1>3, PTL DEF Spec
-------------------------------------------------------------------------------
(* W3001: a variable that an execution reads without a value is reported, if *)
(* the analysis does not overestimate its assignments by design (`blind`).   *)

\* On every path in P the names in S \ B have a value, whatever they mean in sc.
Good(S, P, B, sc) ==
    \A x \in S \ B, p \in P, i \in DOMAIN sc :
        sc[i][x] # 0 => <<x, sc[i][x]>> \in p

\* A declared name is a local name that has meant something.
Known(sc, N, L) == \A i \in DOMAIN sc, x \in Names : sc[i][x] # 0 => x \in N \cap L

\* A name outside B means one variable.
Single(sc, B) ==
    \A x \in Names \ B, i, j \in DOMAIN sc : sc[i][x] # 0 /\ sc[j][x] # 0 => i = j

\* Statements at whose end the state is the one saved, or may be compared to it;
\* frames that have saved the state to resume with.
Restores(f) == f.k \in Loops \cup {"switch"}
Keeps(f)    == f.k # "block" /\ f.phase \notin {"init", "cond"}

\* Such a statement was entered with no more names assigned than there are now.
Nest(c, s) ==
    \A i \in DOMAIN c : Restores(c[i]) =>
        /\ c[i].state \subseteq s
        /\ \A j \in DOMAIN c : i < j /\ Keeps(c[j]) => c[i].state \subseteq c[j].state

SoundInv ==
    /\ NoSilentRead
    /\ state \subseteq named
    /\ Known(scopes, named, locals)
    /\ Single(scopes, blind)
    /\ Nest(ctl, state)
    /\ Good(state, reach, blind, scopes)
    /\ \A i \in DOMAIN ctl : /\ ctl[i].state \subseteq named
                             /\ Good(ctl[i].state, Held(ctl[i]), blind, scopes)

-------------------------------------------------------------------------------
(* Facts about Good, and about scopes that come and go.                     *)

\* The scopes of sc2 declare nothing that those of sc do not, names in D aside.
Fewer(sc2, sc, D) ==
    \A i \in DOMAIN sc2, x \in Names \ D :
        sc2[i][x] # 0 => i \in DOMAIN sc /\ sc[i][x] = sc2[i][x]

LEMMA GoodKept ==
    ASSUME NEW S, NEW P, NEW B, NEW sc, Good(S, P, B, sc),
           NEW T, T \subseteq S \cap Names, NEW Q, \A q \in Q : \E p \in P : p \subseteq q,
           NEW B2, B \subseteq B2, NEW sc2, NEW D, Fewer(sc2, sc, D), T \cap D \subseteq B2
    PROVE  Good(T, Q, B2, sc2)
<1> SUFFICES ASSUME NEW x \in T \ B2, NEW q \in Q, NEW i \in DOMAIN sc2, sc2[i][x] # 0
             PROVE  <<x, sc2[i][x]>> \in q
  BY DEF Good
<1>1. i \in DOMAIN sc /\ sc[i][x] = sc2[i][x] /\ x \in S \ B
  BY DEF Fewer
<1>2. PICK p \in P : p \subseteq q
  OBVIOUS
<1>3. <<x, sc[i][x]>> \in p
  BY <1>1 DEF Good
<1>4. QED
  BY <1>1, <1>2, <1>3

\* With the scopes as they are.
LEMMA GoodLess ==
    ASSUME NEW S, NEW P, NEW B, NEW sc, Good(S, P, B, sc),
           NEW T, NEW Q \in SUBSET P, NEW B2, T \ B2 \subseteq S \ B
    PROVE  Good(T, Q, B2, sc)
BY DEF Good

LEMMA GoodUnion ==
    ASSUME NEW S, NEW P, NEW Q, NEW B, NEW sc
    PROVE  Good(S, P \cup Q, B, sc) <=> Good(S, P, B, sc) /\ Good(S, Q, B, sc)
BY DEF Good

LEMMA ScopesFewer ==
    ASSUME TypeInv, OpenScope \/ (CloseScope /\ Len(scopes) # 0) \/ UNCHANGED scopes
    PROVE  Fewer(scopes', scopes, {})
<1>1. /\ Len(scopes) \in Nat /\ DOMAIN scopes = 1..Len(scopes)
      /\ scopes \in Seq([Names -> 0..visited])
  BY TypeFacts DEF ScopesOK
<1>2. CASE OpenScope
  <2> DEFINE n == Len(scopes)
  <2>1. /\ DOMAIN scopes' = 1..(n + 1) /\ scopes'[n + 1] = Unbound
        /\ \A i \in 1..n : scopes'[i] = scopes[i]
    BY <1>1, <1>2 DEF OpenScope
  <2> HIDE DEF n
  <2>2. \A i \in 1..(n + 1) : i = n + 1 \/ i \in 1..n
    BY <1>1 DEF n
  <2>3. \A x \in Names : scopes'[n + 1][x] = 0
    BY <2>1 DEF Unbound
  <2>4. QED
    BY <1>1, <2>1, <2>2, <2>3 DEF Fewer, n
<1>3. CASE CloseScope /\ Len(scopes) # 0
  <2>1. /\ Len(scopes') = Len(scopes) - 1 /\ scopes' \in Seq([Names -> 0..visited])
        /\ \A i \in 1..(Len(scopes) - 1) : scopes'[i] = scopes[i]
    <3>1. Len(scopes) \in Nat \ {0} /\ scopes' = Front(scopes)
      BY <1>1, <1>3 DEF CloseScope
    <3> DEFINE S == [Names -> 0..visited]
               t == Front(scopes)
    <3>2. scopes \in Seq(S) /\ scopes' = t
      BY <1>1, <3>1
    <3> HIDE DEF S
    <3>3. t \in Seq(S) /\ Len(t) = Len(scopes) - 1
          /\ \A i \in 1..(Len(scopes) - 1) : t[i] = scopes[i]
      BY <3>1, <3>2, FrontFacts
    <3> HIDE DEF t
    <3>4. QED
      BY <3>2, <3>3 DEF S
  <2>2. DOMAIN scopes' = 1..(Len(scopes) - 1)
    BY <2>1, LenProperties
  <2>3. \A i \in 1..(Len(scopes) - 1) : i \in 1..Len(scopes)
    BY <1>1
  <2>4. QED
    BY <1>1, <2>1, <2>2, <2>3 DEF Fewer
<1>4. CASE UNCHANGED scopes
  BY <1>4 DEF Fewer
<1>5. QED
  BY <1>2, <1>3, <1>4

LEMMA FewerScopes ==
    ASSUME NEW sc, NEW sc2, Fewer(sc2, sc, {}), NEW N, NEW L, Known(sc, N, L),
           NEW B, Single(sc, B), NEW N2, N \subseteq N2, NEW B2, B \subseteq B2
    PROVE  Known(sc2, N2, L) /\ Single(sc2, B2)
<1>1. Known(sc2, N2, L)
  BY DEF Known, Fewer
<1>2. Single(sc2, B2)
  BY DEF Single, Fewer
<1>3. QED
  BY <1>1, <1>2

-------------------------------------------------------------------------------
(* An expression.                                                           *)

\* A name outside `blind` that means a variable means the one it resolves to.
LEMMA Meaning ==
    ASSUME TypeInv, SoundInv, NEW x \in Names, NEW p
    PROVE  /\ ~HasValue(x, p) =>
                 x \in locals /\ \E i \in DOMAIN scopes :
                                     scopes[i][x] # 0 /\ <<x, scopes[i][x]>> \notin p
           /\ x \notin blind => \A i \in DOMAIN scopes :
                                  scopes[i][x] # 0 => scopes[i][x] = Resolve(x)
<1>1. /\ Resolve(x) = 0 => \A i \in DOMAIN scopes : scopes[i][x] = 0
      /\ Resolve(x) # 0 => \E i \in DOMAIN scopes : Resolve(x) = scopes[i][x]
  BY TypeFacts, ResolveFacts
<1>2. ~HasValue(x, p) => \E i \in DOMAIN scopes :
                            scopes[i][x] # 0 /\ <<x, scopes[i][x]>> \notin p
  BY <1>1 DEF HasValue
<1>3. \A i \in DOMAIN scopes : scopes[i][x] # 0 => x \in locals
  BY DEF SoundInv, Known
<1>4. x \notin blind => \A i \in DOMAIN scopes :
                         scopes[i][x] # 0 => scopes[i][x] = Resolve(x)
  BY <1>1 DEF SoundInv, Single
<1>5. QED
  BY <1>2, <1>3, <1>4

LEMMA AfterFacts ==
    ASSUME NEW a, NEW p
    PROVE  /\ p \subseteq After(a, p)
           /\ \A x \in a.writes : HasValue(x, After(a, p))
           /\ \A x \in a.writes : Resolve(x) # 0 => <<x, Resolve(x)>> \in After(a, p)
BY DEF After, HasValue

\* What is read without a value is reported.
LEMMA ReadsSound ==
    ASSUME TypeInv, SoundInv, NEW e \in Expr, NEW p, NEW B,
           Good(state, {p}, blind \cup B, scopes)
    PROVE  BadReads(e, p) \subseteq Suspect(e, state) \cup blind \cup Unsure(e) \cup B
<1> DEFINE p1 == After(e.test, p)
           Known2 == blind \cup B
<1>1. /\ \A a \in {e.test, e.left, e.right} :
            /\ a.reads \in SUBSET Names /\ a.unseen \in SUBSET Names
            /\ a.writes \in SUBSET Names /\ a.exposes \in SUBSET Names
  BY AccessType
<1>2. \A a \in {e.test, e.left, e.right} : a.unseen \cup a.exposes \subseteq Unsure(e)
  BY DEF Unsure, Doubtful
<1>3. ASSUME NEW x \in Names, NEW q, p \subseteq q, ~HasValue(x, q)
      PROVE  x \in locals /\ (x \in state => x \in Known2)
  <2>1. x \in locals
    BY <1>3, Meaning
  <2>2. PICK i \in DOMAIN scopes : scopes[i][x] # 0 /\ <<x, scopes[i][x]>> \notin q
    BY <1>3, Meaning
  <2>3. QED
    BY <1>3, <2>1, <2>2 DEF Good
<1>4. ASSUME NEW x \in Missing(e.test, p)
      PROVE  x \in Suspect(e, state) \cup Known2 \cup Unsure(e)
  BY <1>1, <1>2, <1>3 DEF Missing, Suspect, SeenIn
<1>5. ASSUME NEW a \in {e.left, e.right}, NEW x \in Missing(a, p1)
      PROVE  x \in Suspect(e, state) \cup Known2 \cup Unsure(e)
  <2>1. /\ x \in a.reads \cup a.unseen /\ ~HasValue(x, p1) /\ x \in Names
    BY <1>1 DEF Missing
  <2>2. p \subseteq p1 /\ x \notin e.test.writes
    BY <2>1, AfterFacts
  <2>3. x \in locals /\ (x \in state => x \in Known2)
    BY <1>3, <2>1, <2>2
  <2>4. CASE x \in a.unseen \cup e.test.exposes
    BY <1>2, <2>4
  <2>5. CASE x \notin a.unseen \cup e.test.exposes /\ x \notin state
    BY <2>1, <2>2, <2>3, <2>5 DEF Suspect, SeenIn, Written
  <2>6. QED
    BY <2>3, <2>4, <2>5
<1>6. QED
  BY <1>4, <1>5 DEF BadReads

\* What is taken to be assigned after e has a value.
LEMMA WalkSound ==
    ASSUME TypeInv, SoundInv, NEW e \in Expr, NEW P, NEW B,
           Good(state, P, blind \cup B, scopes)
    PROVE  Good(Walked(e, state), Outcomes(e, P), blind \cup Unsure(e) \cup B, scopes)
<1> DEFINE B2 == blind \cup Unsure(e) \cup B
<1> SUFFICES ASSUME NEW x \in Walked(e, state) \ B2, NEW p \in P, NEW q \in Runs(e, p),
                    NEW i \in DOMAIN scopes, scopes[i][x] # 0
             PROVE  <<x, scopes[i][x]>> \in q
  BY DEF Good, Outcomes
<1> DEFINE p1 == After(e.test, p)
<1>1. /\ x \in Names /\ state \in SUBSET Names
      /\ e.kind \in {"then", "and", "ternary"}
      /\ e.kind # "ternary" => e.right.writes = {} /\ e.right.exposes = {}
  BY TopType, WalkType, AccessType
<1>2. scopes[i][x] = Resolve(x) /\ Resolve(x) # 0
  BY <1>1, Meaning
<1>3. /\ x \notin e.test.exposes /\ x \notin e.left.exposes /\ x \notin e.right.exposes
      /\ e.kind = "and" => x \notin e.left.writes
  BY DEF Unsure, Doubtful
<1>4. p \subseteq p1 /\ p1 \subseteq q
  BY <1>1, AfterFacts DEF Runs
<1>5. CASE x \in state
  BY <1>4, <1>5 DEF Good
<1>6. CASE x \in e.test.writes
  BY <1>2, <1>4, <1>6, AfterFacts
<1>7. CASE x \notin state /\ x \notin e.test.writes
  <2>1. /\ e.kind # "ternary" => e.kind = "then" /\ x \in e.left.writes
        /\ e.kind = "ternary" => x \in e.left.writes /\ x \in e.right.writes
    BY <1>1, <1>3, <1>7 DEF Walked, Written
  <2>2. \/ q = After(e.left, p1) /\ x \in e.left.writes
        \/ q = After(e.right, p1) /\ x \in e.right.writes
    BY <1>1, <2>1 DEF Runs
  <2>3. QED
    BY <1>2, <2>2, AfterFacts
<1>8. QED
  BY <1>5, <1>6, <1>7

LEMMA EvaluateSound ==
    ASSUME TypeInv, SoundInv, NEW e \in Expr, NEW P, NEW B, Evaluate(e, P, B),
           Good(state, P, blind \cup B, scopes)
    PROVE  /\ uninit' \subseteq warned' \cup blind'
           /\ blind \subseteq blind' /\ B \subseteq blind' /\ named \subseteq named'
           /\ Good(Walked(e, state), Outcomes(e, P), blind', scopes)
           /\ Walked(e, state) \subseteq named' /\ state \subseteq Walked(e, state)
<1>1. /\ warned' = warned \cup Suspect(e, state)
      /\ uninit' = uninit \cup UNION {BadReads(e, p) : p \in P}
      /\ named'  = named \cup Assigned(e)
      /\ blind'  = blind \cup Unsure(e) \cup B
  BY DEF Evaluate
<1>2. ASSUME NEW p \in P
      PROVE  BadReads(e, p) \subseteq warned' \cup blind'
  <2>1. Good(state, {p}, blind \cup B, scopes)
    BY DEF Good
  <2>2. QED
    BY <1>1, <2>1, ReadsSound
<1>3. uninit \subseteq warned \cup blind
  BY DEF SoundInv, NoSilentRead
<1>4. Good(Walked(e, state), Outcomes(e, P), blind', scopes)
  BY <1>1, WalkSound
<1>5. Walked(e, state) \subseteq named' /\ state \subseteq Walked(e, state)
  BY <1>1, TopType, WalkType DEF SoundInv
<1>6. QED
  BY <1>1, <1>2, <1>3, <1>4, <1>5

-------------------------------------------------------------------------------
(* A step, by what it does to the frames.                                   *)

\* What a step does beside the frames.
FlowSound ==
    /\ uninit' \subseteq warned' \cup blind'
    /\ state' \subseteq named' /\ named \subseteq named' /\ locals' = locals
    /\ Known(scopes', named', locals) /\ Single(scopes', blind')
    /\ Good(state', reach', blind', scopes')

\* The first m statements were entered with no more than is assigned now.
Within(m, s) == \A i \in 1..m : Restores(ctl[i]) => ctl[i].state \subseteq s

\* The first m frames have not changed.
Same(m, d) ==
    \A i \in 1..m :
        /\ d[i].k = ctl[i].k /\ d[i].state = ctl[i].state
        /\ Keeps(d[i]) => Keeps(ctl[i])

LEMMA SoundFrames ==
    ASSUME TypeInv, SoundInv, FlowSound, NEW m \in Nat, m <= Len(ctl), NEW n,
           n = m \/ n = m + 1, DOMAIN ctl' = 1..n, Same(m, ctl'), Within(m, state'),
           \A i \in 1..m : Good(ctl[i].state, Held(ctl'[i]), blind', scopes'),
           n = m + 1 => LET f == ctl'[n]
                        IN  /\ Restores(f) => f.state \subseteq state'
                            /\ Keeps(f) => Within(m, f.state)
                            /\ f.state \subseteq named'
                            /\ Good(f.state, Held(f), blind', scopes')
    PROVE  SoundInv'
<1>1. /\ Len(ctl) \in Nat /\ DOMAIN ctl = 1..Len(ctl)
      /\ \A i \in 1..m : i \in DOMAIN ctl
      /\ \A i \in 1..n : i \in 1..m \/ (i = n /\ n = m + 1)
  <2>1. Len(ctl) \in Nat /\ DOMAIN ctl = 1..Len(ctl)
    BY TypeFacts
  <2>2. QED
    BY <2>1
<1>2. \A i \in 1..n : /\ ctl'[i].state \subseteq named'
                      /\ Good(ctl'[i].state, Held(ctl'[i]), blind', scopes')
  <2>1. \A i \in 1..m : ctl'[i].state = ctl[i].state /\ ctl[i].state \subseteq named'
    BY <1>1 DEF SoundInv, FlowSound, Same
  <2>2. QED
    BY <1>1, <2>1
<1>3. Nest(ctl', state')
  <2> SUFFICES ASSUME NEW i \in 1..n, Restores(ctl'[i])
               PROVE  /\ ctl'[i].state \subseteq state'
                      /\ \A j \in 1..n : i < j /\ Keeps(ctl'[j]) =>
                                             ctl'[i].state \subseteq ctl'[j].state
    BY DEF Nest
  <2>1. CASE i \in 1..m
    <3>1. /\ Restores(ctl[i]) /\ ctl'[i].state = ctl[i].state
          /\ ctl[i].state \subseteq state'
      BY <2>1 DEF Restores, Same, Within
    <3>2. ASSUME NEW j \in 1..n, i < j, Keeps(ctl'[j])
          PROVE  ctl[i].state \subseteq ctl'[j].state
      <4>1. CASE j \in 1..m
        <5>1. Keeps(ctl[j]) /\ ctl'[j].state = ctl[j].state
          BY <3>2, <4>1 DEF Same
        <5>2. QED
          BY <1>1, <2>1, <3>1, <3>2, <4>1, <5>1 DEF SoundInv, Nest
      <4>2. CASE j = n /\ n = m + 1
        BY <2>1, <3>1, <3>2, <4>2 DEF Within
      <4>3. QED
        BY <1>1, <3>2, <4>1, <4>2
    <3>3. QED
      BY <3>1, <3>2
  <2>2. CASE i = n /\ n = m + 1
    <3>1. \A j \in 1..n : ~(i < j)
      BY <2>2
    <3>2. QED
      BY <2>2, <3>1
  <2>3. QED
    BY <1>1, <2>1, <2>2
<1>4. QED
  BY <1>2, <1>3 DEF SoundInv, NoSilentRead, FlowSound

\* The frames stay good while the scopes do.
LEMMA HeldSound ==
    ASSUME TypeInv, SoundInv, Fewer(scopes', scopes, {}), blind \subseteq blind'
    PROVE  \A i \in 1..Len(ctl) :
              /\ Good(ctl[i].state, Held(ctl[i]), blind', scopes')
              /\ ctl[i].state \in SUBSET Names /\ ctl[i].state \subseteq named
<1> SUFFICES ASSUME NEW i \in 1..Len(ctl)
             PROVE  /\ Good(ctl[i].state, Held(ctl[i]), blind', scopes')
                    /\ ctl[i].state \in SUBSET Names /\ ctl[i].state \subseteq named
  OBVIOUS
<1>1. /\ i \in DOMAIN ctl /\ ctl[i] \in FramesUpTo(visited)
  BY TypeFacts
<1>2. ctl[i].state \in SUBSET Names
  BY <1>1 DEF FramesUpTo
<1>3. Good(ctl[i].state, Held(ctl[i]), blind, scopes) /\ ctl[i].state \subseteq named
  BY <1>1 DEF SoundInv
<1>4. Good(ctl[i].state, Held(ctl[i]), blind', scopes')
  BY <1>2, <1>3, GoodKept
<1>5. QED
  BY <1>2, <1>3, <1>4

LEMMA SoundPush ==
    ASSUME TypeInv, SoundInv, FlowSound, Fewer(scopes', scopes, {}), blind \subseteq blind',
           NEW c \in Seq(FramesUpTo(visited)), Len(c) = Len(ctl),
           \A i \in 1..Len(ctl) : /\ c[i].k = ctl[i].k /\ c[i].phase = ctl[i].phase
                                  /\ c[i].state = ctl[i].state /\ Held(c[i]) = Held(ctl[i]),
           Within(Len(ctl), state'),
           NEW f, ctl' = Append(c, f), Restores(f) => f.state \subseteq state',
           Keeps(f) => f.state = state', f.state \subseteq named',
           Good(f.state, Held(f), blind', scopes')
    PROVE  SoundInv'
<1> DEFINE m == Len(ctl)
<1>1. /\ m \in Nat /\ DOMAIN ctl' = 1..(m + 1) /\ ctl'[m + 1] = f
      /\ \A i \in 1..m : ctl'[i] = c[i]
  BY TypeFacts, PushFrames
<1>2. \A i \in 1..m : Good(ctl[i].state, Held(ctl'[i]), blind', scopes')
  BY <1>1, HeldSound
<1>3. Same(m, ctl')
  BY <1>1 DEF Same, Keeps
<1>4. Keeps(f) => Within(m, f.state)
  OBVIOUS
<1>5. QED
  BY <1>1, <1>2, <1>3, <1>4, SoundFrames

LEMMA SoundStay ==
    ASSUME TypeInv, SoundInv, FlowSound, Top.phase # "cond",
           NEW c \in Seq(FramesUpTo(visited)), Len(c) = Len(ctl),
           \A i \in 1..Len(ctl) : /\ c[i].k = ctl[i].k /\ c[i].phase = ctl[i].phase
                                  /\ c[i].state = ctl[i].state
                                  /\ Good(ctl[i].state, Held(c[i]), blind', scopes'),
           NEW t \in BOOLEAN, ctl' = Complete(c, t), Within(Len(ctl), state')
    PROVE  SoundInv'
<1> DEFINE m == Len(ctl)
<1>1. m \in Nat \ {0} /\ m \in 1..m /\ visited \in Nat /\ Top = ctl[m]
  BY TypeFacts
<1>2. /\ DOMAIN ctl' = 1..m /\ Top' = ctl'[m]
      /\ \A i \in 1..m :
            /\ i # m => ctl'[i] = c[i]
            /\ ctl'[i].k = c[i].k /\ ctl'[i].state = c[i].state
            /\ Held(ctl'[i]) = Held(c[i])
      /\ Top'.k = "switch" => Top' = c[m]
      /\ Top'.k \notin {"block", "switch"} =>
            Top'.phase = IF c[m].phase = "init" THEN "cond" ELSE "after"
  BY <1>1, CompleteFrames
<1>3. \A i \in 1..m : /\ c[i].k = ctl[i].k /\ c[i].phase = ctl[i].phase
                      /\ c[i].state = ctl[i].state
                      /\ Good(ctl[i].state, Held(c[i]), blind', scopes')
  OBVIOUS
<1> HIDE DEF m
<1>4. Keeps(ctl'[m]) => Keeps(ctl[m])
  BY <1>1, <1>2, <1>3 DEF Keeps
<1>5. Same(m, ctl')
  BY <1>2, <1>3, <1>4 DEF Same, Keeps
<1>6. \A i \in 1..m : Good(ctl[i].state, Held(ctl'[i]), blind', scopes')
  BY <1>2, <1>3
<1>7. QED
  BY <1>1, <1>2, <1>5, <1>6, SoundFrames DEF m

LEMMA SoundFinish ==
    ASSUME TypeInv, SoundInv, FlowSound, Fewer(scopes', scopes, {}), blind \subseteq blind',
           Len(ctl) >= 2, NEW t \in BOOLEAN, Finish(t), Within(Len(ctl) - 1, state')
    PROVE  SoundInv'
<1> DEFINE m == Len(ctl) - 1
<1>1. /\ m \in Nat \ {0} /\ m < Len(ctl) /\ DOMAIN ctl' = 1..m
      /\ \A i \in 1..m :
            /\ i # m => ctl'[i] = ctl[i]
            /\ ctl'[i].k = ctl[i].k /\ ctl'[i].state = ctl[i].state
            /\ Held(ctl'[i]) = Held(ctl[i])
  BY FinishFrames
<1>2. Within(m, state')
  OBVIOUS
<1> HIDE DEF m
<1>3. \A i \in 1..m : i \in 1..Len(ctl) /\ i < Len(ctl)
  BY <1>1, TypeFacts
<1>4. Keeps(ctl'[m]) => Keeps(ctl[m])
  <2>1. m \in 1..Len(ctl) /\ m < Len(ctl) /\ m \in 1..m
    BY <1>1, <1>3
  <2>2. ctl[m].phase \in {"body", "cases"}
    BY <2>1 DEF TypeInv, WellNested
  <2>3. QED
    BY <1>1, <2>1, <2>2 DEF Keeps
<1>5. Same(m, ctl')
  BY <1>1, <1>4 DEF Same
<1>6. \A i \in 1..m : Good(ctl[i].state, Held(ctl'[i]), blind', scopes')
  BY <1>1, <1>3, HeldSound
<1>7. m <= Len(ctl) /\ m \in Nat
  BY <1>1, TypeFacts
<1>8. QED
  BY <1>1, <1>2, <1>5, <1>6, <1>7, SoundFrames

LEMMA SoundReplace ==
    ASSUME TypeInv, SoundInv, FlowSound, Fewer(scopes', scopes, {}), blind \subseteq blind',
           Len(ctl) >= 2, NEW f, ctl' = Append(Front(ctl), f),
           Within(Len(ctl) - 1, state'), Within(Len(ctl) - 1, f.state),
           Restores(f) => f.state \subseteq state', f.state \subseteq named',
           Good(f.state, Held(f), blind', scopes')
    PROVE  SoundInv'
<1> DEFINE m == Len(ctl) - 1
<1>1. m \in Nat /\ m <= Len(ctl) /\ m + 1 = Len(ctl)
  BY TypeFacts
<1>2. /\ DOMAIN ctl' = 1..(m + 1) /\ ctl'[m + 1] = f
      /\ \A i \in 1..m : ctl'[i] = ctl[i]
  BY <1>1, ReplaceFrames
<1>3. Within(m, state') /\ Within(m, f.state)
  OBVIOUS
<1> HIDE DEF m
<1>4. Same(m, ctl')
  BY <1>2 DEF Same
<1>5. \A i \in 1..m : Good(ctl[i].state, Held(ctl'[i]), blind', scopes')
  <2>1. \A i \in 1..m : i \in 1..Len(ctl)
    BY <1>1, TypeFacts
  <2>2. QED
    BY <1>2, <2>1, HeldSound
<1>6. QED
  BY <1>1, <1>2, <1>3, <1>4, <1>5, SoundFrames

-------------------------------------------------------------------------------
(* The steps.                                                               *)

\* What the invariant says of the innermost frame, and of those around it.
LEMMA TopSound ==
    ASSUME TypeInv, SoundInv
    PROVE  /\ Good(Top.state, Top.paths, blind, scopes)
           /\ Good(Top.state, Top.exits, blind, scopes)
           /\ Good(Top.state, Top.conts, blind, scopes)
           /\ Top.state \subseteq named
           /\ Within(Len(ctl), state)
           /\ Restores(Top) => Top.state \subseteq state
           /\ Keeps(Top) => Within(Len(ctl) - 1, Top.state)
<1>1. /\ Len(ctl) \in DOMAIN ctl /\ Top = ctl[Len(ctl)] /\ DOMAIN ctl = 1..Len(ctl)
  BY TypeFacts
<1>2. Good(Top.state, Held(Top), blind, scopes) /\ Top.state \subseteq named
  BY <1>1 DEF SoundInv
<1>3. /\ Good(Top.state, Top.paths, blind, scopes)
      /\ Good(Top.state, Top.exits, blind, scopes)
      /\ Good(Top.state, Top.conts, blind, scopes)
  BY <1>2 DEF Held, Good
<1>4. Within(Len(ctl), state) /\ (Restores(Top) => Top.state \subseteq state)
  BY <1>1 DEF Within, SoundInv, Nest
<1>5. Keeps(Top) => Within(Len(ctl) - 1, Top.state)
  <2>1. \A i \in 1..(Len(ctl) - 1) : i \in DOMAIN ctl /\ i < Len(ctl)
    BY TypeFacts
  <2>2. QED
    BY <1>1, <2>1 DEF Within, SoundInv, Nest
<1>6. QED
  BY <1>2, <1>3, <1>4, <1>5

LEMMA WithinMore ==
    ASSUME TypeInv
    PROVE  /\ \A m, s, s2 : Within(m, s) /\ s \subseteq s2 => Within(m, s2)
           /\ \A s : Within(Len(ctl), s) => Within(Len(ctl) - 1, s)
<1>1. \A i \in 1..(Len(ctl) - 1) : i \in 1..Len(ctl)
  BY TypeFacts
<1>2. QED
  BY <1>1 DEF Within

\* A step that reports nothing and evaluates nothing.
LEMMA QuietSound ==
    ASSUME TypeInv, SoundInv, UNCHANGED <<warned, uninit, named, blind>>, locals' = locals,
           OpenScope \/ (CloseScope /\ Len(scopes) # 0) \/ UNCHANGED scopes,
           state' \in SUBSET Names, state' \subseteq named,
           Good(state', reach', blind, scopes)
    PROVE  FlowSound /\ Fewer(scopes', scopes, {}) /\ blind \subseteq blind'
<1>1. Fewer(scopes', scopes, {}) /\ blind' = blind /\ named' = named
  BY ScopesFewer
<1>2. Known(scopes', named', locals) /\ Single(scopes', blind')
  BY <1>1, FewerScopes DEF SoundInv
<1>3. Good(state', reach', blind', scopes')
  BY <1>1, GoodKept
<1>4. uninit' \subseteq warned' \cup blind'
  BY DEF SoundInv, NoSilentRead
<1>5. QED
  BY <1>1, <1>2, <1>3, <1>4 DEF FlowSound

\* A step that evaluates e, from a state that holds on P.
LEMMA EvaluatesSound ==
    ASSUME TypeInv, SoundInv, NEW e \in Expr, NEW P, NEW B, Evaluate(e, P, B),
           Good(state, P, blind \cup B, scopes), locals' = locals,
           (CloseScope /\ Len(scopes) # 0) \/ UNCHANGED scopes,
           state' \subseteq Walked(e, state), state' \in SUBSET Names,
           Good(state', Outcomes(e, P), blind', scopes) => Good(state', reach', blind', scopes)
    PROVE  FlowSound /\ Fewer(scopes', scopes, {}) /\ blind \subseteq blind'
<1>1. /\ uninit' \subseteq warned' \cup blind'
      /\ blind \subseteq blind' /\ named \subseteq named'
      /\ Good(Walked(e, state), Outcomes(e, P), blind', scopes)
      /\ Walked(e, state) \subseteq named'
  BY EvaluateSound
<1>2. Fewer(scopes', scopes, {})
  BY ScopesFewer
<1>3. Known(scopes', named', locals) /\ Single(scopes', blind')
  BY <1>1, <1>2, FewerScopes DEF SoundInv
<1>4. Good(state', reach', blind', scopes)
  BY <1>1 DEF Good
<1>5. Good(state', reach', blind', scopes')
  BY <1>2, <1>4, GoodKept
<1>6. QED
  BY <1>1, <1>2, <1>3, <1>5 DEF FlowSound

LEMMA HereSound ==
    ASSUME TypeInv, SoundInv, NEW e \in Expr, Here(e), locals' = locals, UNCHANGED scopes
    PROVE  /\ FlowSound /\ Fewer(scopes', scopes, {}) /\ blind \subseteq blind'
           /\ state \subseteq state' /\ Good(state', reach', blind', scopes')
<1>1. /\ Evaluate(e, reach, {}) /\ state' = Walked(e, state) /\ reach' = Outcomes(e, reach)
  BY DEF Here
<1>2. Good(state, reach, blind \cup {}, scopes)
  BY DEF SoundInv
<1>3. state \subseteq state' /\ state' \in SUBSET Names
  BY <1>1, TopType, WalkType
<1>4. FlowSound /\ Fewer(scopes', scopes, {}) /\ blind \subseteq blind'
  BY <1>1, <1>2, <1>3, EvaluatesSound
<1>5. QED
  BY <1>3, <1>4 DEF FlowSound

\* A frame that holds nothing back.
LEMMA NothingHeld == \A S, B, sc : Good(S, {}, B, sc)
BY DEF Good

\* The open scopes of a statement that has one.
LEMMA ScopeToClose ==
    ASSUME TypeInv, Len(ctl) >= 2, Top.k \in {"block", "for"}
    PROVE  Len(scopes) # 0
<1>1. Len(scopes) - 1 \in Nat
  BY FrontWalk DEF Walk
<1>2. QED
  BY <1>1, TypeFacts

LEMMA SoundJump ==
    ASSUME TypeInv, SoundInv, Jump, NEW i \in 1..Len(ctl), Restores(ctl[i]),
           NEW E \in SUBSET StatesUpTo(visited), NEW C \in SUBSET StatesUpTo(visited),
           E \cup C \subseteq ctl[i].exits \cup ctl[i].conts \cup reach,
           ctl' = Complete([ctl EXCEPT ![i].exits = E, ![i].conts = C], TRUE)
    PROVE  SoundInv'
<1> DEFINE f == [ctl[i] EXCEPT !.exits = E, !.conts = C]
           c == [ctl EXCEPT ![i] = f]
<1>1. /\ reach' = {} /\ UNCHANGED <<warned, uninit, named, blind, state, scopes>>
      /\ locals' = locals /\ Top.phase = "body"
  BY VisitFacts DEF Jump, NoFlow
<1>2. FlowSound /\ Fewer(scopes', scopes, {}) /\ blind \subseteq blind'
  <2>1. Good(state', reach', blind, scopes)
    BY <1>1, NothingHeld
  <2>2. state' \in SUBSET Names /\ state' \subseteq named
    BY <1>1, TopType DEF SoundInv
  <2>3. QED
    BY <1>1, <2>1, <2>2, QuietSound
<1>3. /\ ctl \in Seq(FramesUpTo(visited)) /\ ctl[i] \in FramesUpTo(visited)
      /\ DOMAIN ctl = 1..Len(ctl)
  BY TypeFacts DEF TypeInv, TypeOK
<1>4. /\ f \in FramesUpTo(visited) /\ f.k = ctl[i].k /\ f.phase = ctl[i].phase
      /\ f.state = ctl[i].state /\ f.paths = ctl[i].paths /\ f.exits = E /\ f.conts = C
  BY <1>3 DEF FramesUpTo
<1>5. Held(f) \subseteq Held(ctl[i]) \cup reach
  BY <1>4 DEF Held
<1>6. ctl' = Complete([ctl EXCEPT ![i] = f], TRUE)
  OBVIOUS
<1> HIDE DEF f
<1>7. /\ c \in Seq(FramesUpTo(visited)) /\ Len(c) = Len(ctl) /\ c[i] = f
      /\ \A j \in 1..Len(ctl) : j # i => c[j] = ctl[j]
  BY <1>3, <1>4, ExceptSeq
<1> HIDE DEF c
<1>8. Good(f.state, Held(f), blind', scopes')
  <2>1. ctl[i].state \subseteq state
    BY <1>3 DEF SoundInv, Nest
  <2>2. Good(ctl[i].state, Held(ctl[i]), blind', scopes')
    BY <1>2, HeldSound
  <2>3. Good(state, reach, blind', scopes')
    BY <1>1 DEF SoundInv
  <2>4. QED
    BY <1>4, <1>5, <2>1, <2>2, <2>3 DEF Good
<1>9. \A j \in 1..Len(ctl) : Good(ctl[j].state, Held(c[j]), blind', scopes')
  <2>1. \A j \in 1..Len(ctl) : Good(ctl[j].state, Held(ctl[j]), blind', scopes')
    BY <1>2, HeldSound
  <2>2. QED
    BY <1>4, <1>7, <1>8, <2>1
<1>10. \A j \in 1..Len(ctl) : /\ c[j].k = ctl[j].k /\ c[j].phase = ctl[j].phase
                              /\ c[j].state = ctl[j].state
  BY <1>4, <1>7
<1>11. Within(Len(ctl), state')
  BY <1>1, TopSound
<1>12. QED
  BY <1>1, <1>2, <1>6, <1>7, <1>9, <1>10, <1>11, SoundStay DEF c

\* A frame pushed over the frames as they are.
LEMMA SoundEnter ==
    ASSUME TypeInv, SoundInv, FlowSound, Fewer(scopes', scopes, {}), blind \subseteq blind',
           NEW f, ctl' = Append(ctl, f), state \subseteq state',
           Keeps(f) \/ Restores(f) => f.state = state', f.state \subseteq named',
           Good(f.state, Held(f), blind', scopes')
    PROVE  SoundInv'
<1>1. ctl \in Seq(FramesUpTo(visited))
  BY DEF TypeInv, TypeOK
<1>2. Within(Len(ctl), state')
  BY TopSound, WithinMore
<1>3. QED
  BY <1>1, <1>2, SoundPush

\* A statement without parts: the frames hold what they held.
LEMMA SoundLeaf ==
    ASSUME TypeInv, SoundInv, FlowSound, Fewer(scopes', scopes, {}), blind \subseteq blind',
           state \subseteq state', Top.phase # "cond",
           NEW t \in BOOLEAN, ctl' = Complete(ctl, t)
    PROVE  SoundInv'
<1>1. ctl \in Seq(FramesUpTo(visited))
  BY DEF TypeInv, TypeOK
<1>2. Within(Len(ctl), state')
  BY TopSound, WithinMore
<1>3. \A i \in 1..Len(ctl) : Good(ctl[i].state, Held(ctl[i]), blind', scopes')
  BY HeldSound
<1>4. QED
  BY <1>1, <1>2, <1>3, SoundStay

LEMMA SimplePhase ==
    ASSUME TypeInv, Simple
    PROVE  Visit /\ Top.phase # "cond" /\ locals' = locals
<1>1. Top.k = "block" => Top.phase = "body"
  BY TypeFacts DEF TypeInv, WellNested
<1>2. QED
  BY <1>1, VisitFacts DEF Simple

LEMMA SoundDeclare ==
    ASSUME TypeInv, SoundInv, Declare
    PROVE  SoundInv'
<1>1. PICK x \in locals, initialised \in BOOLEAN :
         /\ Simple
         /\ scopes[Len(scopes)][x] = 0
         /\ scopes' = [scopes EXCEPT ![Len(scopes)][x] = visited']
         /\ state' = IF initialised THEN state \cup {x} ELSE state
         /\ reach' = IF initialised THEN {p \cup {<<x, visited'>>} : p \in reach}
                                   ELSE reach
         /\ ctl' = Complete(ctl, FALSE)
         /\ named' = named \cup {x}
         /\ blind' = IF x \in named THEN blind \cup {x} ELSE blind
         /\ UNCHANGED <<warned, uninit, coarse>>
  BY DEF Declare
<1>2. /\ locals' = locals /\ Top.phase # "cond" /\ x \in Names /\ visited' \in Nat
      /\ visited' # 0 /\ state \in SUBSET Names
  BY <1>1, SimplePhase, VisitFacts, TypeFacts, TopType
<1>3. blind \subseteq blind' /\ (x \in named => x \in blind')
  BY <1>1
<1>4. /\ DOMAIN scopes' = DOMAIN scopes
      /\ \A i \in DOMAIN scopes, y \in Names : y # x => scopes'[i][y] = scopes[i][y]
      /\ \A i \in DOMAIN scopes : i # Len(scopes) => scopes'[i][x] = scopes[i][x]
      /\ Len(scopes) \in DOMAIN scopes => scopes'[Len(scopes)][x] = visited'
  <2>1. \A i \in DOMAIN scopes : scopes[i] \in [Names -> 0..visited]
    BY TypeFacts
  <2>2. QED
    BY <1>1, <1>2, <2>1
<1>5. ASSUME x \notin blind'
      PROVE  /\ x \notin named
             /\ \A i \in DOMAIN scopes : scopes'[i][x] # 0 =>
                    i = Len(scopes) /\ scopes'[i][x] = visited'
  <2>1. x \notin named
    BY <1>3, <1>5
  <2>2. \A i \in DOMAIN scopes : scopes[i][x] = 0
    BY <1>2, <2>1 DEF SoundInv, Known
  <2>3. QED
    BY <1>4, <2>1, <2>2
<1>6. Fewer(scopes', scopes, {x})
  BY <1>4 DEF Fewer
<1>7. Known(scopes', named', locals)
  BY <1>1, <1>4 DEF Known, SoundInv
<1>8. Single(scopes', blind')
  BY <1>3, <1>4, <1>5 DEF Single, SoundInv
<1>9. Good(state', reach', blind', scopes')
  <2> SUFFICES ASSUME NEW y \in state' \ blind', NEW q \in reach', NEW i \in DOMAIN scopes',
                      scopes'[i][y] # 0
               PROVE  <<y, scopes'[i][y]>> \in q
    BY DEF Good
  <2>1. CASE y = x
    <3>1. initialised /\ scopes'[i][y] = visited'
      BY <1>1, <1>4, <1>5, <2>1 DEF SoundInv
    <3>2. QED
      BY <1>1, <2>1, <3>1
  <2>2. CASE y # x
    <3>1. y \in state \ blind /\ scopes[i][y] = scopes'[i][y] /\ i \in DOMAIN scopes
      BY <1>1, <1>2, <1>3, <1>4, <2>2
    <3>2. PICK p \in reach : p \subseteq q
      BY <1>1
    <3>3. <<y, scopes[i][y]>> \in p
      BY <3>1 DEF SoundInv, Good
    <3>4. QED
      BY <3>1, <3>2, <3>3
  <2>3. QED
    BY <2>1, <2>2
<1>10. FlowSound
  BY <1>1, <1>2, <1>3, <1>7, <1>8, <1>9 DEF FlowSound, SoundInv, NoSilentRead
<1>11. ASSUME NEW i \in 1..Len(ctl)
       PROVE  Good(ctl[i].state, Held(ctl[i]), blind', scopes')
  <2>1. i \in DOMAIN ctl /\ ctl[i] \in FramesUpTo(visited)
    BY TypeFacts
  <2>2. /\ ctl[i].state \in SUBSET Names /\ ctl[i].state \subseteq named
        /\ Good(ctl[i].state, Held(ctl[i]), blind, scopes)
    BY <2>1 DEF FramesUpTo, SoundInv
  <2>3. ctl[i].state \cap {x} \subseteq blind'
    BY <1>3, <2>2
  <2>4. QED
    BY <1>3, <1>6, <2>2, <2>3, GoodKept
<1>12. Within(Len(ctl), state') /\ ctl \in Seq(FramesUpTo(visited))
  BY <1>1, TopSound, WithinMore DEF TypeInv, TypeOK
<1>13. QED
  BY <1>1, <1>2, <1>10, <1>11, <1>12, SoundStay

\* Every step keeps it so: one step of the proof for each action.
LEMMA SoundStep ==
    ASSUME TypeInv, SoundInv, Next
    PROVE  SoundInv'
<1>0. /\ ctl \in Seq(FramesUpTo(visited)) /\ state \in SUBSET Names
      /\ state \subseteq named /\ Good(state, reach, blind, scopes)
      /\ \A e \in Exprs \cup Tests : e \in Expr
      /\ Top.state \in SUBSET Names
  BY TopType, ConstantsAssumption DEF TypeInv, TypeOK, SoundInv
<1>1. CASE OpenBlock
  <2> DEFINE f == Frame("block", "body", {}, {})
  <2>1. /\ ctl' = Append(ctl, f) /\ OpenScope /\ UNCHANGED flowVars /\ locals' = locals
    BY <1>1, VisitFacts DEF OpenBlock, Push
  <2>2. FlowSound /\ Fewer(scopes', scopes, {}) /\ blind \subseteq blind'
    BY <1>0, <2>1, QuietSound DEF flowVars
  <2>3. ~Keeps(f) /\ ~Restores(f) /\ f.state = {} /\ Held(f) = {}
    BY FrameHolds DEF Keeps, Restores, Loops
  <2>4. state \subseteq state'
    BY <2>1 DEF flowVars
  <2>5. QED
    <3> HIDE DEF f
    <3>1. QED
      BY <2>1, <2>2, <2>3, <2>4, NothingHeld, SoundEnter
<1>2. CASE CloseBlock
  <2> DEFINE m == Len(ctl) - 1
  <2>1. /\ Len(ctl) >= 2 /\ Top.k = "block" /\ Finish(Top.last) /\ CloseScope
        /\ state' = IF ctl[m].k = "switch" THEN ctl[m].state ELSE state
        /\ reach' = reach /\ UNCHANGED <<warned, uninit, named, blind>>
        /\ locals' = locals /\ Top.last \in BOOLEAN
    BY <1>2, TypeFacts, VisitFacts, TopType DEF CloseBlock, NoFlow
  <2>2. /\ m \in 1..Len(ctl) /\ m \in DOMAIN ctl /\ DOMAIN ctl = 1..Len(ctl)
        /\ \A i \in 1..m : i = m \/ (i \in DOMAIN ctl /\ i < m)
    <3>1. \A N \in Nat : N >= 2 => /\ N - 1 \in 1..N
                                   /\ \A i \in 1..(N - 1) : i = N - 1 \/ (i \in 1..N /\ i < N - 1)
      OBVIOUS
    <3>2. Len(ctl) \in Nat /\ DOMAIN ctl = 1..Len(ctl)
      BY TypeFacts
    <3>3. QED
      BY <2>1, <3>1, <3>2
  <2>3. /\ ctl[m].k = "switch" => Restores(ctl[m]) /\ Keeps(ctl[m])
    BY <2>2 DEF Restores, Keeps, TypeInv, WellNested
  <2>4. state' \subseteq state
    BY <2>1, <2>2, <2>3 DEF SoundInv, Nest
  <2>5. Within(m, state')
    <3>1. CASE ctl[m].k = "switch"
      BY <2>1, <2>2, <2>3, <3>1 DEF Within, SoundInv, Nest
    <3>2. CASE ctl[m].k # "switch"
      BY <2>1, <3>2, TopSound, WithinMore
    <3>3. QED
      BY <3>1, <3>2
  <2>6. Good(state', reach', blind, scopes)
    BY <1>0, <2>1, <2>4 DEF Good
  <2>7. FlowSound /\ Fewer(scopes', scopes, {}) /\ blind \subseteq blind'
    BY <1>0, <2>1, <2>4, <2>6, ScopeToClose, QuietSound
  <2>8. QED
    BY <2>1, <2>5, <2>7, SoundFinish
<1>3. CASE ExprStmt
  <2>1. PICK e \in Exprs : /\ Simple /\ Here(e) /\ ctl' = Complete(ctl, FALSE)
                           /\ UNCHANGED scopes
    BY <1>3 DEF ExprStmt
  <2>2. locals' = locals /\ Top.phase # "cond"
    BY <2>1, SimplePhase
  <2>3. QED
    BY <1>0, <2>1, <2>2, HereSound, SoundLeaf
<1>4. CASE Declare
  BY <1>4, SoundDeclare
<1>5. CASE DeferStmt
  BY <1>5, VisitFacts DEF DeferStmt, flowVars, SoundInv, NoSilentRead, Held
<1>6. CASE ReturnStmt
  <2>1. PICK e \in Tests :
           /\ Statement /\ Evaluate(e, reach, {}) /\ state' = Walked(e, state)
           /\ reach' = {} /\ ctl' = Complete(ctl, TRUE) /\ UNCHANGED scopes
    BY <1>6 DEF ReturnStmt
  <2>2. /\ locals' = locals /\ Top.phase # "cond"
        /\ state \subseteq state' /\ state' \in SUBSET Names
    BY <1>0, <2>1, VisitFacts, WalkType
  <2>3. FlowSound /\ Fewer(scopes', scopes, {}) /\ blind \subseteq blind'
    BY <1>0, <2>1, <2>2, NothingHeld, EvaluatesSound
  <2>4. QED
    BY <2>1, <2>2, <2>3, SoundLeaf
<1>7. CASE BreakStmt
  <2> DEFINE i == Innermost(Loops \cup {"switch"})
             E == ctl[i].exits \cup reach
             C == ctl[i].conts
  <2>1. /\ Jump /\ i \in 1..Len(ctl) /\ Restores(ctl[i])
        /\ ctl' = Complete([ctl EXCEPT ![i].exits = E], TRUE)
    BY <1>7, TypeFacts, InnermostFacts DEF BreakStmt, Restores
  <2>2. /\ E \in SUBSET StatesUpTo(visited) /\ C \in SUBSET StatesUpTo(visited)
        /\ [ctl EXCEPT ![i].exits = E, ![i].conts = C] = [ctl EXCEPT ![i].exits = E]
    <3> HIDE DEF i
    <3>1. ctl[i] \in FramesUpTo(visited)
      BY <2>1, TypeFacts
    <3>2. E \in SUBSET StatesUpTo(visited) /\ C \in SUBSET StatesUpTo(visited)
      BY <3>1, TopType DEF FramesUpTo
    <3>3. QED
      BY <1>0, <2>1, <3>1, <3>2, TypeFacts DEF FramesUpTo
  <2>3. E \cup C \subseteq ctl[i].exits \cup ctl[i].conts \cup reach
    OBVIOUS
  <2>4. QED
    <3> HIDE DEF i, E, C
    <3>1. QED
      BY <2>1, <2>2, <2>3, SoundJump
<1>8. CASE ContinueStmt
  <2> DEFINE i == Innermost(Loops)
             E == ctl[i].exits
             C == ctl[i].conts \cup reach
  <2>1. /\ Jump /\ i \in 1..Len(ctl) /\ Restores(ctl[i])
        /\ ctl' = Complete([ctl EXCEPT ![i].conts = C], TRUE)
    BY <1>8, TypeFacts, InnermostFacts DEF ContinueStmt, Restores
  <2>2. /\ E \in SUBSET StatesUpTo(visited) /\ C \in SUBSET StatesUpTo(visited)
        /\ [ctl EXCEPT ![i].exits = E, ![i].conts = C] = [ctl EXCEPT ![i].conts = C]
    <3> HIDE DEF i
    <3>1. ctl[i] \in FramesUpTo(visited)
      BY <2>1, TypeFacts
    <3>2. E \in SUBSET StatesUpTo(visited) /\ C \in SUBSET StatesUpTo(visited)
      BY <3>1, TopType DEF FramesUpTo
    <3>3. QED
      BY <1>0, <2>1, <3>1, <3>2, TypeFacts DEF FramesUpTo
  <2>3. E \cup C \subseteq ctl[i].exits \cup ctl[i].conts \cup reach
    OBVIOUS
  <2>4. QED
    <3> HIDE DEF i, E, C
    <3>1. QED
      BY <2>1, <2>2, <2>3, SoundJump
<1>9. ASSUME NEW k \in {"if", "while"}, NEW e \in Tests, Test(k, e)
      PROVE  SoundInv'
  <2> DEFINE f == Frame(k, "body", state', reach')
  <2>1. /\ ctl' = Append(ctl, f) /\ Here(e) /\ UNCHANGED scopes /\ locals' = locals
    BY <1>9, VisitFacts DEF Test, Push
  <2>2. /\ FlowSound /\ Fewer(scopes', scopes, {}) /\ blind \subseteq blind'
        /\ state \subseteq state' /\ Good(state', reach', blind', scopes')
    BY <1>0, <2>1, HereSound
  <2>3. f.state = state' /\ Held(f) = reach'
    BY FrameHolds
  <2>4. state' \subseteq named'
    BY <2>2 DEF FlowSound
  <2>5. QED
    <3> HIDE DEF f
    <3>1. QED
      BY <2>1, <2>2, <2>3, <2>4, SoundEnter
<1>10. CASE IfStmt \/ WhileStmt
  BY <1>9, <1>10 DEF IfStmt, WhileStmt
<1>11. CASE ElseBranch
  <2> DEFINE g == Frame("else", "body", state, reach)
             f == [g EXCEPT !.over = Top.last]
  <2>1. /\ Top.k = "if" /\ Top.phase = "after" /\ ctl' = Append(Front(ctl), f)
        /\ state' = Top.state /\ reach' = Top.paths /\ Len(ctl) >= 2
        /\ UNCHANGED <<warned, uninit, named, blind, scopes>> /\ locals' = locals
    BY <1>11, TypeFacts, VisitFacts DEF ElseBranch, NoFlow
  <2>2. f.k = "else" /\ f.state = state /\ Held(f) = reach
    BY DEF Frame, Held
  <2>3. FlowSound /\ Fewer(scopes', scopes, {}) /\ blind \subseteq blind'
    BY <1>0, <2>1, TopSound, QuietSound
  <2>4. Within(Len(ctl) - 1, state') /\ Within(Len(ctl) - 1, state)
    BY <2>1, TopSound, WithinMore DEF Keeps
  <2>5. Good(state, reach, blind', scopes') /\ state \subseteq named'
    BY <1>0, <2>1
  <2>6. QED
    <3> HIDE DEF f
    <3>1. QED
      BY <2>1, <2>2, <2>3, <2>4, <2>5, SoundReplace DEF Restores, Loops
<1>12. CASE EndIf
  <2>1. /\ Top.k \in {"if", "else"} /\ Top.phase = "after" /\ Finish(BothTransfer)
        /\ state' = state \cap Top.state /\ reach' = reach \cup Top.paths
        /\ Len(ctl) >= 2 /\ BothTransfer \in BOOLEAN
        /\ UNCHANGED <<warned, uninit, named, blind, scopes>> /\ locals' = locals
    BY <1>12, TypeFacts, VisitFacts DEF EndIf, NoFlow, Joined, BothTransfer
  <2>2. Good(state', reach', blind, scopes)
    BY <1>0, <2>1, TopSound DEF Good
  <2>3. FlowSound /\ Fewer(scopes', scopes, {}) /\ blind \subseteq blind'
    BY <1>0, <2>1, <2>2, QuietSound
  <2>4. Within(Len(ctl) - 1, state')
    <3>1. Within(Len(ctl) - 1, state) /\ Within(Len(ctl) - 1, Top.state)
      BY <2>1, TopSound, WithinMore DEF Keeps
    <3>2. QED
      BY <2>1, <3>1 DEF Within
  <2>5. QED
    BY <2>1, <2>3, <2>4, SoundFinish
<1>13. CASE EndWhile \/ EndSwitch
  <2>1. /\ Top.k \in {"while", "switch"} /\ Top.phase \notin {"init", "cond"}
        /\ state' = Top.state /\ Finish(FALSE) /\ Len(ctl) >= 2
        /\ reach' \subseteq reach \cup Top.paths \cup Top.exits \cup Top.conts
        /\ UNCHANGED <<warned, uninit, named, blind, scopes>> /\ locals' = locals
    <3>1. Top.k = "switch" => Top.phase = "cases"
      BY TypeFacts DEF TypeInv, WellNested
    <3>2. QED
      BY <1>13, <3>1, TypeFacts, VisitFacts DEF EndWhile, EndSwitch, NoFlow
  <2>2. Top.state \subseteq state /\ Within(Len(ctl) - 1, Top.state)
    BY <2>1, TopSound DEF Restores, Keeps, Loops
  <2>3. Good(state', reach', blind, scopes)
    BY <1>0, <2>1, <2>2, TopSound DEF Good
  <2>4. FlowSound /\ Fewer(scopes', scopes, {}) /\ blind \subseteq blind'
    BY <1>0, <2>1, <2>3, TopSound, QuietSound
  <2>5. QED
    BY <2>1, <2>2, <2>4, SoundFinish
<1>14. CASE DoWhileStmt
  <2> DEFINE f == Frame("do", "body", state, {})
  <2>1. /\ ctl' = Append(ctl, f) /\ UNCHANGED <<scopes, flowVars>> /\ locals' = locals
    BY <1>14, VisitFacts DEF DoWhileStmt, Push
  <2>2. FlowSound /\ Fewer(scopes', scopes, {}) /\ blind \subseteq blind'
    BY <1>0, <2>1, QuietSound DEF flowVars
  <2>3. f.state = state /\ Held(f) = {}
    BY FrameHolds
  <2>4. state' = state /\ named' = named
    BY <2>1 DEF flowVars
  <2>5. QED
    <3> HIDE DEF f
    <3>1. QED
      BY <1>0, <2>1, <2>2, <2>3, <2>4, NothingHeld, SoundEnter
<1>15. CASE EndDoWhile
  <2>1. PICK e \in Tests :
           /\ Top.k = "do" /\ Top.phase = "after"
           /\ Evaluate(e, reach \cup Top.conts,
                       JumpedOver(Walked(e, state), Top.exits \cup Top.conts))
           /\ state' = Walked(e, state)
           /\ reach' = Outcomes(e, reach \cup Top.conts) \cup Top.exits
           /\ Finish(FALSE) /\ InnerSteps /\ UNCHANGED scopes
    BY <1>15 DEF EndDoWhile
  <2> DEFINE P == reach \cup Top.conts
             B == JumpedOver(Walked(e, state), Top.exits \cup Top.conts)
  <2>2. /\ state \subseteq state' /\ state' \in SUBSET Names /\ Len(ctl) >= 2
        /\ locals' = locals /\ Restores(Top) /\ Keeps(Top)
    BY <1>0, <2>1, WalkType, TypeFacts, VisitFacts DEF Restores, Keeps, Loops
  <2>3. /\ Top.conts # {} => state \ Top.state \subseteq B
        /\ Top.exits # {} => state' \ Top.state \subseteq B
    BY <2>1, <2>2 DEF JumpedOver
  <2>4. Good(state, P, blind \cup B, scopes)
    <3>1. Good(state, Top.conts, blind \cup B, scopes)
      BY <2>3, TopSound DEF Good
    <3>2. Good(state, reach, blind \cup B, scopes)
      BY <1>0 DEF Good
    <3>3. QED
      BY <3>1, <3>2, GoodUnion
  <2>5. Evaluate(e, P, B)
    BY <2>1
  <2> HIDE DEF B
  <2>6. B \subseteq blind' /\ blind \subseteq blind'
    BY <1>0, <2>4, <2>5, EvaluateSound
  <2>7. Good(state', Outcomes(e, P), blind', scopes) => Good(state', reach', blind', scopes)
    <3>1. Good(state', Top.exits, blind', scopes)
      BY <2>3, <2>6, TopSound DEF Good
    <3>2. reach' = Outcomes(e, P) \cup Top.exits
      BY <2>1
    <3> HIDE DEF P
    <3>3. QED
      BY <3>1, <3>2, GoodUnion
  <2>8. FlowSound /\ Fewer(scopes', scopes, {}) /\ blind \subseteq blind'
    <3> HIDE DEF P
    <3>1. QED
      BY <1>0, <2>1, <2>2, <2>4, <2>5, <2>7, EvaluatesSound
  <2>9. Within(Len(ctl) - 1, state')
    BY <2>2, TopSound, WithinMore
  <2>10. QED
    BY <2>1, <2>2, <2>8, <2>9, SoundFinish
<1>16. CASE ForStmt
  <2> DEFINE f == Frame("for", "init", {}, {})
  <2>1. /\ ctl' = Append(ctl, f) /\ OpenScope /\ UNCHANGED flowVars /\ locals' = locals
    BY <1>16, VisitFacts DEF ForStmt, Push
  <2>2. FlowSound /\ Fewer(scopes', scopes, {}) /\ blind \subseteq blind'
    BY <1>0, <2>1, QuietSound DEF flowVars
  <2>3. ~Keeps(f) /\ f.state = {} /\ Held(f) = {}
    BY FrameHolds DEF Keeps
  <2>4. state' = state
    BY <2>1 DEF flowVars
  <2>5. Within(Len(ctl), state')
    BY <2>4, TopSound
  <2>6. QED
    <3> HIDE DEF f
    <3>1. QED
      BY <1>0, <2>1, <2>2, <2>3, <2>4, <2>5, NothingHeld, SoundPush
<1>17. CASE ForCond
  <2> DEFINE f == Frame("for", "body", state', reach')
  <2>1. PICK e \in Tests :
           /\ Top.k = "for" /\ Here(e) /\ ctl' = Append(Front(ctl), f)
           /\ InnerSteps /\ UNCHANGED scopes
    BY <1>17 DEF ForCond
  <2>2. locals' = locals /\ Len(ctl) >= 2
    BY <2>1, VisitFacts, TypeFacts
  <2>3. /\ FlowSound /\ Fewer(scopes', scopes, {}) /\ blind \subseteq blind'
        /\ state \subseteq state' /\ Good(state', reach', blind', scopes')
    BY <1>0, <2>1, <2>2, HereSound
  <2>4. f.state = state' /\ Held(f) = reach'
    BY FrameHolds
  <2>5. Within(Len(ctl) - 1, state') /\ state' \subseteq named'
    BY <2>3, TopSound, WithinMore DEF FlowSound
  <2>6. QED
    <3> HIDE DEF f
    <3>1. QED
      BY <2>1, <2>2, <2>3, <2>4, <2>5, SoundReplace
<1>18. CASE EndFor
  <2>1. PICK e \in Tests :
           /\ Top.k = "for" /\ Top.phase = "after"
           /\ Evaluate(e, reach \cup Top.conts, JumpedOver(state, Top.conts))
           /\ state' = Top.state
           /\ reach' = Top.paths \cup Top.exits \cup Outcomes(e, reach \cup Top.conts)
           /\ Finish(FALSE) /\ CloseScope /\ InnerSteps
    BY <1>18 DEF EndFor
  <2> DEFINE P == reach \cup Top.conts
             B == JumpedOver(state, Top.conts)
  <2>2. /\ Len(ctl) >= 2 /\ locals' = locals /\ Restores(Top) /\ Keeps(Top)
    BY <2>1, TypeFacts, VisitFacts DEF Restores, Keeps, Loops
  <2>3. Top.state \subseteq state /\ state \subseteq Walked(e, state)
    BY <1>0, <2>2, TopSound, WalkType
  <2>4. Good(state, P, blind \cup B, scopes)
    <3>1. Good(state, Top.conts, blind \cup B, scopes)
      BY TopSound DEF Good, JumpedOver
    <3>2. Good(state, reach, blind \cup B, scopes)
      BY <1>0 DEF Good
    <3>3. QED
      BY <3>1, <3>2, GoodUnion
  <2>5. Evaluate(e, P, B)
    BY <2>1
  <2> HIDE DEF B
  <2>6. blind \subseteq blind'
    BY <1>0, <2>4, <2>5, EvaluateSound
  <2>7. Good(state', Outcomes(e, P), blind', scopes) => Good(state', reach', blind', scopes)
    <3>1. Good(state', Top.paths \cup Top.exits, blind', scopes)
      BY <2>1, <2>6, TopSound DEF Good
    <3>2. reach' = (Top.paths \cup Top.exits) \cup Outcomes(e, P)
      BY <2>1
    <3> HIDE DEF P
    <3>3. QED
      BY <3>1, <3>2, GoodUnion
  <2>8. FlowSound /\ Fewer(scopes', scopes, {}) /\ blind \subseteq blind'
    <3>1. Len(scopes) # 0
      BY <2>1, <2>2, ScopeToClose
    <3>2. state' \subseteq Walked(e, state) /\ state' \in SUBSET Names
      BY <1>0, <2>1, <2>3
    <3> HIDE DEF P
    <3>3. QED
      BY <1>0, <2>1, <2>2, <2>4, <2>5, <2>7, <3>1, <3>2, EvaluatesSound
  <2>9. Within(Len(ctl) - 1, state')
    BY <2>1, <2>2, TopSound
  <2>10. QED
    BY <2>1, <2>2, <2>8, <2>9, SoundFinish
<1>19. CASE SwitchStmt
  <2>1. PICK e \in Tests :
           /\ Statement /\ Evaluate(e, reach, {}) /\ state' = Walked(e, state)
           /\ reach' = {} /\ UNCHANGED scopes
           /\ ctl' = Append(ctl, Frame("switch", "cases", state', Outcomes(e, reach)))
    BY <1>19 DEF SwitchStmt, Push
  <2> DEFINE f == Frame("switch", "cases", state', Outcomes(e, reach))
  <2>2. /\ locals' = locals /\ state \subseteq state' /\ state' \in SUBSET Names
        /\ ctl' = Append(ctl, f)
    BY <1>0, <2>1, VisitFacts, WalkType
  <2>3. FlowSound /\ Fewer(scopes', scopes, {}) /\ blind \subseteq blind'
    BY <1>0, <2>1, <2>2, NothingHeld, EvaluatesSound
  <2>4. f.state = state' /\ Held(f) = Outcomes(e, reach)
    BY FrameHolds
  <2>5. Good(state', Outcomes(e, reach), blind', scopes') /\ state' \subseteq named'
    <3>1. Good(state, reach, blind \cup {}, scopes)
      BY <1>0
    <3>2. QED
      BY <1>0, <2>1, <3>1, EvaluateSound
  <2>6. QED
    <3> HIDE DEF f
    <3>1. QED
      BY <2>2, <2>3, <2>4, <2>5, SoundEnter
<1>20. CASE CaseLabel
  <2> DEFINE f == Frame("block", "body", {}, {})
             n == Len(ctl)
  <2>1. PICK default \in BOOLEAN :
           /\ Top.k = "switch" /\ OpenScope
           /\ state' = Top.state /\ reach' = reach \cup Top.paths
           /\ ctl' = Append([ctl EXCEPT ![n].over = @ \/ default], f)
           /\ UNCHANGED <<warned, uninit, named, blind>> /\ locals' = locals
    BY <1>20, VisitFacts DEF CaseLabel, NoFlow
  <2> DEFINE g == [Top EXCEPT !.over = @ \/ default]
             c == [ctl EXCEPT ![n] = g]
  <2>2. ~Keeps(f) /\ ~Restores(f) /\ f.state = {} /\ Held(f) = {}
    BY FrameHolds DEF Keeps, Restores, Loops
  <2>3. /\ g \in FramesUpTo(visited) /\ g.k = Top.k /\ g.phase = Top.phase
        /\ g.state = Top.state /\ Held(g) = Held(Top)
    BY TypeFacts DEF FramesUpTo, Held
  <2>4. /\ c \in Seq(FramesUpTo(visited)) /\ Len(c) = Len(ctl)
        /\ \A i \in 1..Len(ctl) : /\ c[i].k = ctl[i].k /\ c[i].phase = ctl[i].phase
                                  /\ c[i].state = ctl[i].state /\ Held(c[i]) = Held(ctl[i])
    <3>1. n \in 1..n /\ Top = ctl[n]
      BY TypeFacts
    <3> HIDE DEF g, n
    <3>2. /\ c \in Seq(FramesUpTo(visited)) /\ Len(c) = Len(ctl) /\ c[n] = g
          /\ \A i \in 1..Len(ctl) : i # n => c[i] = ctl[i]
      BY <1>0, <2>3, <3>1, ExceptSeq DEF n
    <3>3. QED
      BY <2>3, <3>1, <3>2
  <2>5. ctl' = Append(c, f)
    <3>1. c = [ctl EXCEPT ![n].over = @ \/ default]
      BY TypeFacts
    <3>2. QED
      BY <2>1, <3>1
  <2>6. Top.state \subseteq state /\ Within(n, Top.state)
    <3>1. Restores(Top) /\ Keeps(Top) /\ Top = ctl[n] /\ n \in Nat
      BY <2>1, TypeFacts DEF Restores, Keeps, TypeInv, WellNested
    <3>2. Top.state \subseteq state /\ Within(n - 1, Top.state)
      BY <3>1, TopSound
    <3> HIDE DEF n
    <3>3. \A i \in 1..n : i = n \/ i \in 1..(n - 1)
      BY <3>1
    <3>4. QED
      BY <3>1, <3>2, <3>3 DEF Within
  <2>7. Good(state', reach', blind, scopes)
    BY <1>0, <2>1, <2>6, TopSound DEF Good
  <2>8. FlowSound /\ Fewer(scopes', scopes, {}) /\ blind \subseteq blind'
    BY <1>0, <2>1, <2>7, TopSound, QuietSound
  <2>9. Within(Len(ctl), state')
    BY <2>1, <2>6
  <2>10. f.state \subseteq named' /\ Good(f.state, Held(f), blind', scopes')
    BY <2>2, NothingHeld
  <2>11. QED
    <3> HIDE DEF c, f
    <3>1. QED
      BY <2>2, <2>4, <2>5, <2>8, <2>9, <2>10, SoundPush
<1>21. QED
  BY <1>1, <1>2, <1>3, <1>4, <1>5, <1>6, <1>7, <1>8, <1>10, <1>11, <1>12,
     <1>13, <1>14, <1>15, <1>16, <1>17, <1>18, <1>19, <1>20 DEF Next

\* NoSilentRead: in no function does an execution read a variable without a value
\* unless W3001 reports it, or its name is one the analysis is blind to.
THEOREM ReadsAreReported == Spec => []NoSilentRead
<1>1. Init => SoundInv
  <2> SUFFICES ASSUME Init
               PROVE  SoundInv
    OBVIOUS
  <2>1. /\ Len(ctl) = 1 /\ DOMAIN ctl = {1} /\ ctl[1].k = "block"
        /\ ctl[1].state = {} /\ Held(ctl[1]) = {}
    BY DEF Init, Frame, Held
  <2>2. /\ DOMAIN scopes = {1} /\ \A x \in Names : scopes[1][x] = 0
        /\ state \in SUBSET Names /\ state = named /\ uninit = {}
    BY DEF Init, Unbound
  <2>3. Known(scopes, named, locals) /\ Single(scopes, blind) /\ Nest(ctl, state)
    BY <2>1, <2>2 DEF Known, Single, Nest, Restores, Loops
  <2>4. Good(state, reach, blind, scopes) /\ Good({}, {}, blind, scopes)
    BY <2>2 DEF Good
  <2>5. QED
    BY <2>1, <2>2, <2>3, <2>4 DEF SoundInv, NoSilentRead
<1>2. ASSUME TypeInv, SoundInv, [Next]_vars
      PROVE  SoundInv'
  <2>1. CASE Next
    BY <1>2, <2>1, SoundStep
  <2>2. CASE UNCHANGED vars
    BY <1>2, <2>2 DEF vars, progVars, flowVars, SoundInv, NoSilentRead, Held
  <2>3. QED
    BY <1>2, <2>1, <2>2
<1>3. SoundInv => NoSilentRead
  BY DEF SoundInv
<1>4. QED
  BY WalkIsTyped, <1>1, <1>2, <1>3, PTL DEF Spec

-------------------------------------------------------------------------------
(* Why W3001 is precise: to every point that is walked some execution comes, *)
(* and each name that is not taken to be assigned lacks a value in one of    *)
(* them (`coarse` aside, which is everything after a jump).                  *)

\* On some path in P a name outside S and C lacks a value, whatever it means in sc.
Lacking(S, P, C, sc) ==
    /\ P = {} => Names \subseteq C
    /\ \A x \in Names \ (S \cup C), i \in DOMAIN sc :
          sc[i][x] # 0 => \E p \in P : <<x, sc[i][x]>> \notin p

\* Frames that keep executions for later together with the state they are in.
Waits(f) == Keeps(f) /\ f.k # "do"

PreciseInv ==
    /\ NoFalseAlarm
    /\ Top.k # "switch" => Lacking(state, reach, coarse, scopes)
    /\ \A i \in DOMAIN ctl :
          Waits(ctl[i]) => Lacking(ctl[i].state, ctl[i].paths, coarse, scopes)

LEMMA LackingMore ==
    ASSUME NEW S, NEW P, NEW C, NEW sc, Lacking(S, P, C, sc),
           NEW T, S \subseteq T, NEW Q, P \subseteq Q, NEW D, C \subseteq D,
           NEW sc2, Fewer(sc2, sc, {})
    PROVE  Lacking(T, Q, D, sc2)
<1>1. Q = {} => Names \subseteq D
  BY DEF Lacking
<1>2. ASSUME NEW x \in Names \ (T \cup D), NEW i \in DOMAIN sc2, sc2[i][x] # 0
      PROVE  \E p \in Q : <<x, sc2[i][x]>> \notin p
  <2>1. i \in DOMAIN sc /\ sc[i][x] = sc2[i][x] /\ x \in Names \ (S \cup C)
    BY <1>2 DEF Fewer
  <2>2. \E p \in P : <<x, sc[i][x]>> \notin p
    BY <1>2, <2>1 DEF Lacking
  <2>3. QED
    BY <2>1, <2>2
<1>3. QED
  BY <1>1, <1>2 DEF Lacking

\* The join of two branches.
LEMMA LackingJoin ==
    ASSUME NEW S, NEW P, NEW T, NEW Q, NEW C, NEW sc,
           Lacking(S, P, C, sc), Lacking(T, Q, C, sc)
    PROVE  Lacking(S \cap T, P \cup Q, C, sc)
<1>1. P \cup Q = {} => Names \subseteq C
  BY DEF Lacking
<1>2. ASSUME NEW x \in Names \ ((S \cap T) \cup C), NEW i \in DOMAIN sc, sc[i][x] # 0
      PROVE  \E p \in P \cup Q : <<x, sc[i][x]>> \notin p
  <2>1. CASE x \notin S
    <3>1. \E p \in P : <<x, sc[i][x]>> \notin p
      BY <1>2, <2>1 DEF Lacking
    <3>2. QED
      BY <3>1
  <2>2. CASE x \notin T
    <3>1. \E p \in Q : <<x, sc[i][x]>> \notin p
      BY <1>2, <2>2 DEF Lacking
    <3>2. QED
      BY <3>1
  <2>3. QED
    BY <2>1, <2>2
<1>3. QED
  BY <1>1, <1>2 DEF Lacking

\* A name that an access does not write is left as it was.
LEMMA AfterLacks ==
    ASSUME NEW a, NEW p, NEW x, x \notin a.writes, NEW d, <<x, d>> \notin p
    PROVE  <<x, d>> \notin After(a, p)
BY DEF After

\* An expression.
LEMMA LackingOutcomes ==
    ASSUME NEW e \in Expr, NEW S, NEW P, NEW C, NEW sc, Lacking(S, P, C, sc)
    PROVE  Lacking(Walked(e, S), Outcomes(e, P), C, sc)
<1>1. ASSUME NEW p
      PROVE  Runs(e, p) # {}
  BY AccessType DEF Runs
<1>2. Outcomes(e, P) = {} => P = {}
  BY <1>1 DEF Outcomes
<1>3. ASSUME NEW x \in Names \ (Walked(e, S) \cup C), NEW i \in DOMAIN sc, sc[i][x] # 0
      PROVE  \E q \in Outcomes(e, P) : <<x, sc[i][x]>> \notin q
  <2>1. PICK d : d = sc[i][x]
    OBVIOUS
  <2>2. x \notin S /\ x \notin e.test.writes
    BY <1>3 DEF Walked, Written
  <2>3. PICK p \in P : <<x, d>> \notin p
    BY <1>3, <2>1, <2>2 DEF Lacking
  <2>4. PICK p1 : p1 = After(e.test, p)
    OBVIOUS
  <2>5. <<x, d>> \notin p1
    BY <2>2, <2>3, <2>4, AfterLacks
  <2>6. \E q \in Runs(e, p) : <<x, d>> \notin q
    <3>1. CASE e.kind = "then"
      <4>1. x \notin e.left.writes
        BY <1>3, <3>1 DEF Walked, Written
      <4>2. <<x, d>> \notin After(e.left, p1)
        BY <2>5, <4>1, AfterLacks
      <4>3. After(e.left, p1) \in Runs(e, p)
        BY <2>4, <3>1 DEF Runs
      <4>4. QED
        BY <4>2, <4>3
    <3>2. CASE e.kind = "and"
      <4>1. p1 \in Runs(e, p)
        BY <2>4, <3>2 DEF Runs
      <4>2. QED
        BY <2>5, <4>1
    <3>3. CASE e.kind = "ternary"
      <4>1. After(e.left, p1) \in Runs(e, p) /\ After(e.right, p1) \in Runs(e, p)
        BY <2>4, <3>3 DEF Runs
      <4>2. x \notin e.left.writes \/ x \notin e.right.writes
        BY <1>3, <3>3 DEF Walked, Written
      <4>3. <<x, d>> \notin After(e.left, p1) \/ <<x, d>> \notin After(e.right, p1)
        BY <2>5, <4>2, AfterLacks
      <4>4. QED
        BY <4>1, <4>3
    <3>4. QED
      BY <3>1, <3>2, <3>3, AccessType
  <2>7. QED
    BY <2>1, <2>6 DEF Outcomes
<1>4. QED
  BY <1>2, <1>3 DEF Lacking

\* What is reported is read without a value, or means a global, or is only touched.
LEMMA EvaluatePrecise ==
    ASSUME TypeInv, PreciseInv, NEW e \in Expr, NEW P, NEW B, Evaluate(e, P, B),
           Lacking(state, P, coarse, scopes), coarse \cup Unfounded(e) \subseteq coarse'
    PROVE  NoFalseAlarm'
<1>1. /\ warned' = warned \cup Suspect(e, state) /\ warned \subseteq uninit \cup coarse
      /\ uninit' = uninit \cup UNION {BadReads(e, p) : p \in P}
  BY DEF Evaluate, PreciseInv, NoFalseAlarm
<1>2. ASSUME NEW x \in Suspect(e, state), x \notin coarse'
      PROVE  x \in uninit'
  <2>1. /\ x \in Names /\ x \notin coarse /\ Resolve(x) # 0 /\ x \notin state
        /\ x \notin Touched(e)
    <3>1. x \in locals /\ x \notin state
      BY DEF Suspect
    <3>2. x \in Names
      BY <3>1 DEF TypeInv, TypeOK
    <3>3. QED
      BY <1>2, <3>1, <3>2 DEF Unfounded
  <2>2. PICK i \in DOMAIN scopes : Resolve(x) = scopes[i][x]
    BY <2>1, TypeFacts, ResolveFacts
  <2>3. PICK p \in P : <<x, scopes[i][x]>> \notin p
    BY <2>1, <2>2 DEF Lacking
  <2>4. <<x, Resolve(x)>> \notin p
    BY <2>2, <2>3
  <2>5. x \in BadReads(e, p)
    <3>1. CASE x \in e.test.reads
      <4>1. ~HasValue(x, p)
        BY <2>1, <2>4 DEF HasValue
      <4>2. QED
        BY <3>1, <4>1 DEF BadReads, Missing
    <3>2. CASE x \notin e.test.reads
      <4>1. x \in e.left.reads \cup e.right.reads /\ x \notin e.test.writes
        BY <2>1, <3>2 DEF Suspect, SeenIn, Touched, Written
      <4>2. PICK p1 : p1 = After(e.test, p)
        OBVIOUS
      <4>3. <<x, Resolve(x)>> \notin p1
        BY <2>4, <4>1, <4>2, AfterLacks
      <4>4. ~HasValue(x, p1)
        BY <2>1, <4>3 DEF HasValue
      <4>5. QED
        BY <4>1, <4>2, <4>4 DEF BadReads, Missing
    <3>3. QED
      BY <3>1, <3>2
  <2>6. QED
    BY <1>1, <2>5
<1>3. QED
  BY <1>1, <1>2 DEF NoFalseAlarm

-------------------------------------------------------------------------------
(* A step, by what it does to the frames.                                   *)

\* What a step does beside the frames, and that those as they are may stay.
FlowPrecise ==
    /\ NoFalseAlarm'
    /\ Top'.k # "switch" => Lacking(state', reach', coarse', scopes')
    /\ \A i \in 1..Len(ctl) :
          Waits(ctl[i]) => Lacking(ctl[i].state, ctl[i].paths, coarse', scopes')

\* After a jump nothing is claimed.
LEMMA AllCoarse ==
    ASSUME TypeInv', Names \subseteq coarse'
    PROVE  PreciseInv'
<1>1. NoFalseAlarm'
  BY DEF NoFalseAlarm, TypeInv, TypeOK
<1>2. \A S, P : Lacking(S, P, coarse', scopes')
  BY DEF Lacking
<1>3. QED
  BY <1>1, <1>2 DEF PreciseInv

\* The first m frames have not changed in what they wait for.
Waiting(m, d) ==
    \A i \in 1..m : Waits(d[i]) =>
        Waits(ctl[i]) /\ d[i].state = ctl[i].state /\ d[i].paths = ctl[i].paths

LEMMA PreciseFrames ==
    ASSUME FlowPrecise, NEW m \in Nat, m <= Len(ctl), Len(ctl) \in Nat, NEW n,
           n = m \/ n = m + 1, DOMAIN ctl' = 1..n, Waiting(m, ctl'),
           n = m + 1 /\ Waits(ctl'[n]) =>
               Lacking(ctl'[n].state, ctl'[n].paths, coarse', scopes')
    PROVE  PreciseInv'
<1>1. ASSUME NEW i \in 1..n, Waits(ctl'[i])
      PROVE  Lacking(ctl'[i].state, ctl'[i].paths, coarse', scopes')
  <2>1. CASE i \in 1..m
    <3>1. /\ i \in 1..Len(ctl) /\ Waits(ctl[i])
          /\ ctl'[i].state = ctl[i].state /\ ctl'[i].paths = ctl[i].paths
      BY <1>1, <2>1 DEF Waiting
    <3>2. QED
      BY <3>1 DEF FlowPrecise
  <2>2. CASE i \notin 1..m
    <3>1. i = n /\ n = m + 1
      BY <2>2
    <3>2. QED
      BY <1>1, <3>1
  <2>3. QED
    BY <2>1, <2>2
<1>2. QED
  BY <1>1 DEF FlowPrecise, PreciseInv

\* The frames wait for no less while no scope opens with new names.
LEMMA FramesPrecise ==
    ASSUME TypeInv, PreciseInv, Fewer(scopes', scopes, {}), coarse \subseteq coarse'
    PROVE  \A i \in 1..Len(ctl) :
              Waits(ctl[i]) => Lacking(ctl[i].state, ctl[i].paths, coarse', scopes')
<1> SUFFICES ASSUME NEW i \in 1..Len(ctl), Waits(ctl[i])
             PROVE  Lacking(ctl[i].state, ctl[i].paths, coarse', scopes')
  OBVIOUS
<1>1. PICK S, P : S = ctl[i].state /\ P = ctl[i].paths
  OBVIOUS
<1>2. Lacking(S, P, coarse, scopes)
  BY <1>1, TypeFacts DEF PreciseInv
<1>3. Lacking(S, P, coarse', scopes')
  BY <1>2, LackingMore
<1>4. QED
  BY <1>1, <1>3

LEMMA PrecisePush ==
    ASSUME TypeInv, FlowPrecise,
           NEW c \in Seq(FramesUpTo(visited)), Len(c) = Len(ctl),
           \A i \in 1..Len(ctl) : /\ c[i].k = ctl[i].k /\ c[i].phase = ctl[i].phase
                                  /\ c[i].state = ctl[i].state /\ c[i].paths = ctl[i].paths,
           NEW f, ctl' = Append(c, f),
           Waits(f) => Lacking(f.state, f.paths, coarse', scopes')
    PROVE  PreciseInv'
<1>1. PICK m \in Nat : m = Len(ctl)
  BY TypeFacts
<1>2. /\ DOMAIN ctl' = 1..(m + 1) /\ ctl'[m + 1] = f
      /\ \A i \in 1..m : ctl'[i] = c[i]
  BY <1>1, PushFrames
<1>3. Waiting(m, ctl')
  BY <1>1, <1>2 DEF Waiting, Waits, Keeps
<1>4. QED
  BY <1>1, <1>2, <1>3, PreciseFrames

LEMMA PreciseEnter ==
    ASSUME TypeInv, FlowPrecise, NEW f, ctl' = Append(ctl, f),
           Waits(f) => Lacking(f.state, f.paths, coarse', scopes')
    PROVE  PreciseInv'
<1>1. ctl \in Seq(FramesUpTo(visited))
  BY DEF TypeInv, TypeOK
<1>2. QED
  BY <1>1, PrecisePush

LEMMA PreciseLeaf ==
    ASSUME TypeInv, FlowPrecise, Top.phase # "cond",
           NEW t \in BOOLEAN, ctl' = Complete(ctl, t)
    PROVE  PreciseInv'
<1>1. PICK m : m = Len(ctl)
  OBVIOUS
<1>2. /\ ctl \in Seq(FramesUpTo(visited)) /\ m \in Nat \ {0} /\ visited \in Nat
      /\ Top = ctl[m] /\ m \in 1..m
  BY <1>1, TypeFacts DEF TypeInv, TypeOK
<1>3. /\ DOMAIN ctl' = 1..m /\ Top' = ctl'[m]
      /\ \A i \in 1..m :
            /\ i # m => ctl'[i] = ctl[i]
            /\ ctl'[i].k = ctl[i].k /\ ctl'[i].state = ctl[i].state
            /\ ctl'[i].paths = ctl[i].paths
      /\ Top'.k = "switch" => Top' = ctl[m]
      /\ Top'.k \notin {"block", "switch"} =>
            Top'.phase = IF ctl[m].phase = "init" THEN "cond" ELSE "after"
  BY <1>1, <1>2, CompleteFrames
<1>4. Waits(ctl'[m]) => Waits(ctl[m])
  BY <1>2, <1>3 DEF Waits, Keeps
<1>5. Waiting(m, ctl')
  BY <1>3, <1>4 DEF Waiting
<1>6. QED
  BY <1>1, <1>2, <1>3, <1>5, PreciseFrames

LEMMA PreciseFinish ==
    ASSUME TypeInv, FlowPrecise, Len(ctl) >= 2, NEW t \in BOOLEAN, Finish(t)
    PROVE  PreciseInv'
<1>1. PICK m : m = Len(ctl) - 1
  OBVIOUS
<1>2. /\ m \in Nat \ {0} /\ m < Len(ctl) /\ DOMAIN ctl' = 1..m
      /\ \A i \in 1..m :
            /\ i # m => ctl'[i] = ctl[i]
            /\ ctl'[i].k = ctl[i].k /\ ctl'[i].state = ctl[i].state
            /\ ctl'[i].paths = ctl[i].paths
  BY <1>1, FinishFrames
<1>3. Waits(ctl'[m]) => Waits(ctl[m])
  <2>1. m \in 1..Len(ctl) /\ m < Len(ctl) /\ m \in 1..m
    BY <1>2, TypeFacts
  <2>2. ctl[m].phase \in {"body", "cases"}
    BY <2>1 DEF TypeInv, WellNested
  <2>3. QED
    BY <1>2, <2>1, <2>2 DEF Waits, Keeps
<1>4. Waiting(m, ctl')
  BY <1>2, <1>3 DEF Waiting
<1>5. m \in Nat /\ m <= Len(ctl) /\ Len(ctl) \in Nat
  BY <1>2, TypeFacts
<1>6. QED
  BY <1>2, <1>4, <1>5, PreciseFrames

LEMMA PreciseReplace ==
    ASSUME TypeInv, FlowPrecise, Len(ctl) >= 2, NEW f, ctl' = Append(Front(ctl), f),
           Waits(f) => Lacking(f.state, f.paths, coarse', scopes')
    PROVE  PreciseInv'
<1>0. PICK n : n = Len(ctl)
  OBVIOUS
<1>1. n \in Nat /\ n >= 2 /\ DOMAIN ctl' = 1..n /\ ctl'[n] = f
      /\ \A i \in 1..(n - 1) : ctl'[i] = ctl[i]
  BY <1>0, TypeFacts, ReplaceFrames
<1>2. PICK m \in Nat : m = n - 1 /\ n = m + 1
  BY <1>1
<1>3. Waiting(m, ctl')
  BY <1>1, <1>2 DEF Waiting
<1>4. Waits(ctl'[n]) => Lacking(ctl'[n].state, ctl'[n].paths, coarse', scopes')
  BY <1>1
<1>5. m <= Len(ctl) /\ Len(ctl) \in Nat
  BY <1>0, <1>1, <1>2
<1>6. QED
  BY <1>1, <1>2, <1>3, <1>4, <1>5, PreciseFrames

-------------------------------------------------------------------------------
(* The steps.                                                               *)

\* A step that reports nothing and evaluates nothing.
LEMMA QuietPrecise ==
    ASSUME TypeInv, PreciseInv, UNCHANGED <<warned, uninit>>, coarse \subseteq coarse',
           OpenScope \/ (CloseScope /\ Len(scopes) # 0) \/ UNCHANGED scopes,
           NEW S \in SUBSET Names, NEW P, Top'.k # "switch" => Lacking(S, P, coarse, scopes),
           S \subseteq state', P \subseteq reach'
    PROVE  FlowPrecise
<1>1. Fewer(scopes', scopes, {})
  BY ScopesFewer
<1>2. NoFalseAlarm'
  BY DEF PreciseInv, NoFalseAlarm
<1>3. Top'.k # "switch" => Lacking(state', reach', coarse', scopes')
  BY <1>1, LackingMore
<1>4. QED
  BY <1>1, <1>2, <1>3, FramesPrecise DEF FlowPrecise

\* A step that evaluates e on the paths in P, and goes on with the state of others.
LEMMA EvaluatesPrecise ==
    ASSUME TypeInv, PreciseInv, NEW e \in Expr, NEW P, NEW B, Evaluate(e, P, B),
           reach \subseteq P, Lacking(state, reach, coarse, scopes),
           coarse' = coarse \cup Unfounded(e),
           (CloseScope /\ Len(scopes) # 0) \/ UNCHANGED scopes,
           NEW S, NEW Q, S \subseteq state', Q \subseteq reach',
           Lacking(Walked(e, state), Outcomes(e, P), coarse, scopes) =>
               Top'.k = "switch" \/ Lacking(S, Q, coarse, scopes)
    PROVE  FlowPrecise
<1>1. Fewer(scopes', scopes, {}) /\ Fewer(scopes, scopes, {})
  BY ScopesFewer DEF Fewer
<1>2. Lacking(state, P, coarse, scopes)
  BY <1>1, LackingMore
<1>3. NoFalseAlarm'
  BY <1>2, EvaluatePrecise
<1>4. Lacking(Walked(e, state), Outcomes(e, P), coarse, scopes)
  BY <1>2, LackingOutcomes
<1>5. Top'.k # "switch" => Lacking(state', reach', coarse', scopes')
  BY <1>1, <1>4, LackingMore
<1>6. QED
  BY <1>1, <1>3, <1>5, FramesPrecise DEF FlowPrecise

LEMMA HerePrecise ==
    ASSUME TypeInv, PreciseInv, NEW e \in Expr, Here(e), UNCHANGED scopes, Top.k # "switch"
    PROVE  FlowPrecise /\ Lacking(state', reach', coarse', scopes')
<1>1. /\ Evaluate(e, reach, {}) /\ coarse' = coarse \cup Unfounded(e)
      /\ state' = Walked(e, state) /\ reach' = Outcomes(e, reach)
      /\ Lacking(state, reach, coarse, scopes)
  BY DEF Here, PreciseInv
<1>2. Lacking(Walked(e, state), Outcomes(e, reach), coarse, scopes)
  BY <1>1, LackingOutcomes
<1>3. Fewer(scopes', scopes, {})
  BY DEF Fewer
<1>4. Lacking(state', reach', coarse', scopes')
  BY <1>1, <1>2, <1>3, LackingMore
<1>5. FlowPrecise
  BY <1>1, <1>3, <1>4, EvaluatePrecise, FramesPrecise DEF FlowPrecise
<1>6. QED
  BY <1>4, <1>5

\* The executions in P give the variable v, named x, a value.
Giving(P, x, v) == {p \cup {<<x, v>>} : p \in P}

\* A declaration: nothing that was saved or is under way has a value for it yet.
LEMMA DeclareLacks ==
    ASSUME TypeInv, NEW x \in Names, NEW v, v = visited + 1,
           scopes' = [scopes EXCEPT ![Len(scopes)][x] = v],
           NEW S, NEW P \in SUBSET StatesUpTo(visited), Lacking(S, P, coarse, scopes),
           NEW T, T = S \cup {x}, NEW Q, Q = Giving(P, x, v)
    PROVE  Lacking(S, P, coarse, scopes') /\ Lacking(T, Q, coarse, scopes')
<1>1. /\ DOMAIN scopes' = DOMAIN scopes
      /\ \A i \in DOMAIN scopes, y \in Names :
            scopes'[i][y] = scopes[i][y] \/ (y = x /\ scopes'[i][y] = v)
  <2>1. \A i \in DOMAIN scopes : scopes[i] \in [Names -> 0..visited]
    BY TypeFacts
  <2>2. QED
    BY <2>1
<1>2. \A p \in P : <<x, v>> \notin p
  <2>1. v \notin 1..visited
    BY TypeFacts
  <2>2. QED
    BY <2>1 DEF StatesUpTo
<1>3. ASSUME NEW y \in Names \ (S \cup coarse), NEW i \in DOMAIN scopes, scopes'[i][y] # 0
      PROVE  \E p \in P : <<y, scopes'[i][y]>> \notin p
  <2>1. CASE scopes'[i][y] = scopes[i][y]
    BY <1>3, <2>1 DEF Lacking
  <2>2. CASE y = x /\ scopes'[i][y] = v
    <3>1. P # {}
      BY <1>3 DEF Lacking
    <3>2. QED
      BY <1>2, <2>2, <3>1
  <2>3. QED
    BY <1>1, <2>1, <2>2
<1>4. Lacking(S, P, coarse, scopes')
  BY <1>1, <1>3 DEF Lacking
<1>6. Q = {} => Names \subseteq coarse
  BY DEF Lacking, Giving
<1>7. ASSUME NEW y \in Names \ ((S \cup {x}) \cup coarse), NEW i \in DOMAIN scopes',
             scopes'[i][y] # 0
      PROVE  \E q \in Q : <<y, scopes'[i][y]>> \notin q
  <2>1. PICK d : d = scopes'[i][y]
    OBVIOUS
  <2>2. PICK p \in P : <<y, d>> \notin p
    BY <1>1, <1>3, <1>7, <2>1
  <2>3. <<y, d>> \notin p \cup {<<x, v>>}
    BY <1>7, <2>2
  <2>4. QED
    BY <2>1, <2>2, <2>3 DEF Giving
<1>8. Lacking(T, Q, coarse, scopes')
  BY <1>6, <1>7 DEF Lacking
<1>9. QED
  BY <1>4, <1>8

LEMMA PreciseDeclare ==
    ASSUME TypeInv, PreciseInv, Declare
    PROVE  PreciseInv'
<1>1. PICK x \in locals, initialised \in BOOLEAN :
         /\ Simple
         /\ scopes' = [scopes EXCEPT ![Len(scopes)][x] = visited']
         /\ state' = IF initialised THEN state \cup {x} ELSE state
         /\ reach' = IF initialised THEN {p \cup {<<x, visited'>>} : p \in reach}
                                   ELSE reach
         /\ ctl' = Complete(ctl, FALSE)
         /\ UNCHANGED <<warned, uninit, coarse>>
  BY DEF Declare
<1>2. /\ Top.phase # "cond" /\ x \in Names /\ Top.k # "switch"
      /\ visited' = visited + 1 /\ coarse' = coarse
  BY <1>1, SimplePhase, VisitFacts
<1>3. PICK v : v = visited'
  OBVIOUS
<1>4. v = visited + 1 /\ scopes' = [scopes EXCEPT ![Len(scopes)][x] = v]
  BY <1>1, <1>2, <1>3
<1>5. Lacking(state', reach', coarse', scopes')
  <2>1. Lacking(state, reach, coarse, scopes) /\ reach \in SUBSET StatesUpTo(visited)
    BY <1>2, TopType DEF PreciseInv
  <2>2. PICK P : P = Giving(reach, x, v)
    OBVIOUS
  <2>3. /\ Lacking(state, reach, coarse, scopes')
        /\ Lacking(state \cup {x}, P, coarse, scopes')
    <3>1. v = visited + 1 /\ scopes' = [scopes EXCEPT ![Len(scopes)][x] = v] /\ x \in Names
      BY <1>2, <1>4
    <3>2. reach \in SUBSET StatesUpTo(visited) /\ state \in SUBSET Names
      BY <2>1, TopType
    <3>3. PICK S, R, T : S = state /\ R = reach /\ T = S \cup {x}
      OBVIOUS
    <3>4. R \in SUBSET StatesUpTo(visited) /\ S \in SUBSET Names /\ Lacking(S, R, coarse, scopes)
      BY <2>1, <3>2, <3>3
    <3>5. P = Giving(R, x, v)
      BY <2>2, <3>3
    <3>6. Lacking(S, R, coarse, scopes') /\ Lacking(T, P, coarse, scopes')
      <4>1. R \in SUBSET StatesUpTo(visited) /\ Lacking(S, R, coarse, scopes)
        BY <3>4
      <4>2. T = S \cup {x}
        BY <3>3
      <4>3. QED
        BY <1>2, <1>4, <3>5, <4>1, <4>2, DeclareLacks
    <3>7. QED
      BY <3>3, <3>6
  <2>4. CASE initialised
    <3>1. state' = state \cup {x} /\ reach' = P /\ coarse' = coarse
      BY <1>1, <1>2, <1>3, <2>2, <2>4 DEF Giving
    <3>2. QED
      BY <2>3, <3>1
  <2>5. CASE ~initialised
    BY <1>1, <1>2, <2>3, <2>5
  <2>6. QED
    BY <2>4, <2>5
<1>6. ASSUME NEW i \in 1..Len(ctl), Waits(ctl[i])
      PROVE  Lacking(ctl[i].state, ctl[i].paths, coarse', scopes')
  <2>1. PICK S, P : S = ctl[i].state /\ P = ctl[i].paths
    OBVIOUS
  <2>2. Lacking(S, P, coarse, scopes) /\ P \in SUBSET StatesUpTo(visited)
    BY <1>6, <2>1, TypeFacts DEF PreciseInv, FramesUpTo
  <2>3. PICK Q : Q = Giving(P, x, v)
    OBVIOUS
  <2>4. PICK T : T = S \cup {x}
    OBVIOUS
  <2>5. Lacking(S, P, coarse, scopes')
    BY <1>2, <1>4, <2>2, <2>3, <2>4, DeclareLacks
  <2>6. QED
    BY <1>2, <2>1, <2>5
<1>7. NoFalseAlarm'
  BY <1>1 DEF PreciseInv, NoFalseAlarm
<1>8. FlowPrecise
  BY <1>5, <1>6, <1>7 DEF FlowPrecise
<1>9. QED
  BY <1>1, <1>2, <1>8, PreciseLeaf

-------------------------------------------------------------------------------
LEMMA TopPrecise ==
    ASSUME TypeInv, PreciseInv, Waits(Top)
    PROVE  Lacking(Top.state, Top.paths, coarse, scopes)
BY TypeFacts DEF PreciseInv

LEMMA PreciseJump ==
    ASSUME TypeInv, Next, Names \subseteq coarse'
    PROVE  PreciseInv'
BY TypeStep, AllCoarse

\* Every step keeps it so: one step of the proof for each action.
LEMMA PreciseStep ==
    ASSUME TypeInv, PreciseInv, Next
    PROVE  PreciseInv'
<1>0. /\ ctl \in Seq(FramesUpTo(visited)) /\ state \in SUBSET Names
      /\ Top.k # "switch" => Lacking(state, reach, coarse, scopes)
      /\ \A e \in Exprs \cup Tests : e \in Expr
      /\ Top.state \in SUBSET Names
  BY TopType, ConstantsAssumption DEF TypeInv, TypeOK, PreciseInv
<1>1. ASSUME NEW k \in {"block", "for"}, NEW phase, k = "for" => phase = "init",
             Statement, ctl' = Append(ctl, Frame(k, phase, {}, {})),
             OpenScope, UNCHANGED flowVars
      PROVE  PreciseInv'
  <2>1. Lacking(state, reach, coarse, scopes)
    BY <1>0, <1>1, VisitFacts
  <2>2. FlowPrecise
    BY <1>0, <1>1, <2>1, QuietPrecise DEF flowVars
  <2>3. PICK f : f = Frame(k, phase, {}, {})
    OBVIOUS
  <2>4. ~Waits(f)
    BY <1>1, <2>3, FrameHolds DEF Waits, Keeps
  <2>5. QED
    BY <1>1, <2>2, <2>3, <2>4, PreciseEnter
<1>2. CASE OpenBlock \/ ForStmt
  BY <1>1, <1>2 DEF OpenBlock, ForStmt, Push
<1>3. CASE CloseBlock
  <2>1. PICK m : m = Len(ctl) - 1
    OBVIOUS
  <2>2. /\ Len(ctl) >= 2 /\ Top.k = "block" /\ Finish(Top.last) /\ CloseScope
        /\ ctl[m].k # "switch" => state' = state
        /\ reach' = reach /\ UNCHANGED <<warned, uninit, coarse>>
        /\ Top.last \in BOOLEAN
    BY <1>3, <2>1, TypeFacts, TopType DEF CloseBlock, NoFlow
  <2>3. m \in 1..m /\ Top' = ctl'[m] /\ ctl'[m].k = ctl[m].k
    BY <2>1, <2>2, FinishFrames
  <2>4. Len(scopes) # 0 /\ Lacking(state, reach, coarse, scopes)
    BY <1>0, <2>2, ScopeToClose
  <2>5. FlowPrecise
    <3>1. CASE ctl[m].k = "switch"
      <4>1. Top'.k = "switch"
        BY <2>3, <3>1
      <4>2. /\ {} \in SUBSET Names /\ {} \subseteq state' /\ {} \subseteq reach'
            /\ coarse \subseteq coarse'
        BY <2>2
      <4>3. QED
        BY <2>2, <2>4, <4>1, <4>2, QuietPrecise
    <3>2. CASE ctl[m].k # "switch"
      BY <1>0, <2>2, <2>4, <3>2, QuietPrecise
    <3>3. QED
      BY <3>1, <3>2
  <2>6. QED
    BY <2>2, <2>5, PreciseFinish
<1>4. CASE ExprStmt
  <2>1. PICK e \in Exprs : /\ Simple /\ Here(e) /\ ctl' = Complete(ctl, FALSE)
                           /\ UNCHANGED scopes
    BY <1>4 DEF ExprStmt
  <2>2. Top.k # "switch" /\ Top.phase # "cond"
    BY <2>1, SimplePhase, VisitFacts
  <2>3. QED
    BY <1>0, <2>1, <2>2, HerePrecise, PreciseLeaf
<1>5. CASE Declare
  BY <1>5, PreciseDeclare
<1>6. CASE DeferStmt
  BY <1>6 DEF DeferStmt, flowVars, PreciseInv, NoFalseAlarm
<1>7. CASE ReturnStmt \/ BreakStmt \/ ContinueStmt
  BY <1>7, PreciseJump DEF ReturnStmt, BreakStmt, ContinueStmt, Jump
<1>8. ASSUME NEW k \in {"if", "while"}, NEW e \in Tests, Test(k, e)
      PROVE  PreciseInv'
  <2> DEFINE f == Frame(k, "body", state', reach')
  <2>1. /\ ctl' = Append(ctl, f) /\ Here(e) /\ UNCHANGED scopes /\ Top.k # "switch"
    BY <1>8, VisitFacts DEF Test, Push
  <2>2. FlowPrecise /\ Lacking(state', reach', coarse', scopes')
    BY <1>0, <2>1, HerePrecise
  <2>3. f.state = state' /\ f.paths = reach'
    BY FrameHolds
  <2>4. QED
    <3> HIDE DEF f
    <3>1. QED
      BY <2>1, <2>2, <2>3, PreciseEnter
<1>9. CASE IfStmt \/ WhileStmt
  BY <1>8, <1>9 DEF IfStmt, WhileStmt
<1>10. CASE ElseBranch
  <2> DEFINE g == Frame("else", "body", state, reach)
             f == [g EXCEPT !.over = Top.last]
  <2>1. /\ Top.k = "if" /\ Top.phase = "after" /\ ctl' = Append(Front(ctl), f)
        /\ state' = Top.state /\ reach' = Top.paths /\ Len(ctl) >= 2
        /\ UNCHANGED <<warned, uninit, coarse, scopes>>
    BY <1>10, TypeFacts DEF ElseBranch, NoFlow
  <2>2. f.state = state /\ f.paths = reach
    BY DEF Frame
  <2>3. Waits(Top)
    BY <2>1 DEF Waits, Keeps
  <2>4. Lacking(Top.state, Top.paths, coarse, scopes)
    BY <2>3, TopPrecise
  <2>5. FlowPrecise
    BY <1>0, <2>1, <2>4, QuietPrecise
  <2>6. Lacking(state, reach, coarse', scopes')
    BY <1>0, <2>1
  <2>7. QED
    <3> HIDE DEF f
    <3>1. QED
      BY <2>1, <2>2, <2>5, <2>6, PreciseReplace
<1>11. CASE EndIf
  <2>1. /\ Top.k \in {"if", "else"} /\ Top.phase = "after" /\ Finish(BothTransfer)
        /\ state' = state \cap Top.state /\ reach' = reach \cup Top.paths
        /\ Len(ctl) >= 2 /\ BothTransfer \in BOOLEAN
        /\ UNCHANGED <<warned, uninit, coarse, scopes>>
    BY <1>11, TypeFacts DEF EndIf, NoFlow, Joined, BothTransfer
  <2>2. Waits(Top)
    BY <2>1 DEF Waits, Keeps
  <2>3. Lacking(Top.state, Top.paths, coarse, scopes)
    BY <2>2, TopPrecise
  <2>4. Lacking(state, reach, coarse, scopes)
    BY <1>0, <2>1
  <2>5. Lacking(state', reach', coarse, scopes)
    BY <2>1, <2>3, <2>4, LackingJoin
  <2>6. state' \in SUBSET Names
    BY <1>0, <2>1
  <2>7. FlowPrecise
    BY <2>1, <2>5, <2>6, QuietPrecise
  <2>8. QED
    BY <2>1, <2>7, PreciseFinish
<1>12. CASE EndWhile \/ (EndSwitch /\ ~Top.over)
  <2>1. /\ Top.k \in {"while", "switch"} /\ Top.phase \notin {"init", "cond"}
        /\ state' = Top.state /\ Finish(FALSE) /\ Len(ctl) >= 2
        /\ Top.paths \subseteq reach'
        /\ UNCHANGED <<warned, uninit, coarse, scopes>>
    <3>1. Top.k = "switch" => Top.phase = "cases"
      BY TypeFacts DEF TypeInv, WellNested
    <3>2. QED
      BY <1>12, <3>1, TypeFacts DEF EndWhile, EndSwitch, NoFlow
  <2>2. Waits(Top)
    BY <2>1 DEF Waits, Keeps
  <2>3. Lacking(Top.state, Top.paths, coarse, scopes)
    BY <2>2, TopPrecise
  <2>4. FlowPrecise
    BY <1>0, <2>1, <2>3, QuietPrecise
  <2>5. QED
    BY <2>1, <2>4, PreciseFinish
<1>13. CASE EndSwitch /\ Top.over
  BY <1>13, PreciseJump DEF EndSwitch
<1>14. CASE DoWhileStmt
  <2> DEFINE f == Frame("do", "body", state, {})
  <2>1. /\ ctl' = Append(ctl, f) /\ UNCHANGED <<scopes, flowVars>> /\ Top.k # "switch"
    BY <1>14, VisitFacts DEF DoWhileStmt, Push
  <2>2. FlowPrecise
    BY <1>0, <2>1, QuietPrecise DEF flowVars
  <2>3. ~Waits(f)
    BY FrameHolds DEF Waits
  <2>4. QED
    <3> HIDE DEF f
    <3>1. QED
      BY <2>1, <2>2, <2>3, PreciseEnter
<1>15. CASE EndDoWhile
  <2>1. PICK e \in Tests :
           /\ Top.k = "do" /\ Top.phase = "after"
           /\ Evaluate(e, reach \cup Top.conts,
                       JumpedOver(Walked(e, state), Top.exits \cup Top.conts))
           /\ state' = Walked(e, state)
           /\ reach' = Outcomes(e, reach \cup Top.conts) \cup Top.exits
           /\ coarse' = coarse \cup Unfounded(e)
           /\ Finish(FALSE) /\ UNCHANGED scopes
    BY <1>15 DEF EndDoWhile
  <2>2. Len(ctl) >= 2 /\ Lacking(state, reach, coarse, scopes)
    BY <1>0, <2>1, TypeFacts
  <2>3. PICK P : P = reach \cup Top.conts
    OBVIOUS
  <2>4. PICK B : B = JumpedOver(Walked(e, state), Top.exits \cup Top.conts)
    OBVIOUS
  <2>5. PICK S : S = Walked(e, state)
    OBVIOUS
  <2>6. PICK Q : Q = Outcomes(e, P)
    OBVIOUS
  <2>7. /\ Evaluate(e, P, B) /\ reach \subseteq P
        /\ S \subseteq state' /\ Q \subseteq reach'
        /\ Lacking(Walked(e, state), Outcomes(e, P), coarse, scopes) =>
               Top'.k = "switch" \/ Lacking(S, Q, coarse, scopes)
    BY <2>1, <2>3, <2>4, <2>5, <2>6
  <2>8. FlowPrecise
    BY <1>0, <2>1, <2>2, <2>7, EvaluatesPrecise
  <2>9. QED
    BY <2>1, <2>2, <2>8, PreciseFinish
<1>16. CASE ForCond
  <2> DEFINE f == Frame("for", "body", state', reach')
  <2>1. PICK e \in Tests :
           /\ Top.k = "for" /\ Here(e) /\ ctl' = Append(Front(ctl), f)
           /\ UNCHANGED scopes
    BY <1>16 DEF ForCond
  <2>2. Len(ctl) >= 2
    BY <2>1, TypeFacts
  <2>3. FlowPrecise /\ Lacking(state', reach', coarse', scopes')
    BY <1>0, <2>1, HerePrecise
  <2>4. f.state = state' /\ f.paths = reach'
    BY FrameHolds
  <2>5. QED
    <3> HIDE DEF f
    <3>1. QED
      BY <2>1, <2>2, <2>3, <2>4, PreciseReplace
<1>17. CASE EndFor
  <2>1. PICK e \in Tests :
           /\ Top.k = "for" /\ Top.phase = "after"
           /\ Evaluate(e, reach \cup Top.conts, JumpedOver(state, Top.conts))
           /\ state' = Top.state
           /\ reach' = Top.paths \cup Top.exits \cup Outcomes(e, reach \cup Top.conts)
           /\ coarse' = coarse \cup Unfounded(e)
           /\ Finish(FALSE) /\ CloseScope
    BY <1>17 DEF EndFor
  <2>2. Len(ctl) >= 2 /\ Lacking(state, reach, coarse, scopes) /\ Waits(Top)
    BY <1>0, <2>1, TypeFacts DEF Waits, Keeps
  <2>3. PICK P : P = reach \cup Top.conts
    OBVIOUS
  <2>4. PICK B : B = JumpedOver(state, Top.conts)
    OBVIOUS
  <2>5. PICK S : S = Top.state
    OBVIOUS
  <2>6. PICK Q : Q = Top.paths
    OBVIOUS
  <2>7. /\ Evaluate(e, P, B) /\ reach \subseteq P
        /\ S \subseteq state' /\ Q \subseteq reach'
        /\ Lacking(Walked(e, state), Outcomes(e, P), coarse, scopes) =>
               Top'.k = "switch" \/ Lacking(S, Q, coarse, scopes)
    BY <2>1, <2>2, <2>3, <2>4, <2>5, <2>6, TopPrecise
  <2>8. Len(scopes) # 0
    BY <2>1, <2>2, ScopeToClose
  <2>9. FlowPrecise
    BY <1>0, <2>1, <2>2, <2>7, <2>8, EvaluatesPrecise
  <2>10. QED
    BY <2>1, <2>2, <2>9, PreciseFinish
<1>18. CASE SwitchStmt
  <2>1. PICK e \in Tests :
           /\ Statement /\ Evaluate(e, reach, {}) /\ state' = Walked(e, state)
           /\ coarse' = coarse \cup Unfounded(e) /\ UNCHANGED scopes
           /\ ctl' = Append(ctl, Frame("switch", "cases", state', Outcomes(e, reach)))
    BY <1>18 DEF SwitchStmt, Push
  <2>2. Lacking(state, reach, coarse, scopes)
    BY <1>0, <2>1, VisitFacts
  <2>3. PICK f : f = Frame("switch", "cases", state', Outcomes(e, reach))
    OBVIOUS
  <2>4. /\ ctl' = Append(ctl, f) /\ f.k = "switch"
        /\ f.state = state' /\ f.paths = Outcomes(e, reach)
    BY <2>1, <2>3, FrameHolds
  <2>5. Top'.k = "switch"
    BY <1>0, <2>4, PushFrames
  <2>6. FlowPrecise
    <3>1. {} \subseteq state' /\ {} \subseteq reach' /\ reach \subseteq reach
      OBVIOUS
    <3>2. QED
      BY <1>0, <2>1, <2>2, <2>5, <3>1, EvaluatesPrecise
  <2>7. Lacking(state', Outcomes(e, reach), coarse', scopes')
    <3>1. Lacking(Walked(e, state), Outcomes(e, reach), coarse, scopes)
      BY <1>0, <2>2, LackingOutcomes
    <3>2. Fewer(scopes', scopes, {}) /\ coarse \subseteq coarse'
      BY <2>1 DEF Fewer
    <3>3. PICK Q : Q = Outcomes(e, reach)
      OBVIOUS
    <3>4. Lacking(state', Q, coarse, scopes)
      BY <2>1, <3>1, <3>3
    <3>5. Lacking(state', Q, coarse', scopes')
      BY <3>2, <3>4, LackingMore
    <3>6. QED
      BY <3>3, <3>5
  <2>8. Lacking(f.state, f.paths, coarse', scopes')
    BY <2>4, <2>7
  <2>9. QED
    BY <2>4, <2>6, <2>8, PreciseEnter
<1>19. CASE CaseLabel
  <2> DEFINE n == Len(ctl)
  <2>1. PICK default \in BOOLEAN :
           /\ Top.k = "switch" /\ OpenScope
           /\ state' = Top.state /\ reach' = reach \cup Top.paths
           /\ ctl' = Append([ctl EXCEPT ![n].over = @ \/ default],
                            Frame("block", "body", {}, {}))
           /\ UNCHANGED <<warned, uninit, coarse>>
    BY <1>19 DEF CaseLabel, NoFlow
  <2>2. PICK f : f = Frame("block", "body", {}, {})
    OBVIOUS
  <2> DEFINE g == [Top EXCEPT !.over = @ \/ default]
             c == [ctl EXCEPT ![n] = g]
  <2>3. ~Waits(f)
    BY <2>2, FrameHolds DEF Waits, Keeps
  <2>4. /\ g \in FramesUpTo(visited) /\ g.k = Top.k /\ g.phase = Top.phase
        /\ g.state = Top.state /\ g.paths = Top.paths
    BY TypeFacts DEF FramesUpTo
  <2>5. /\ c \in Seq(FramesUpTo(visited)) /\ Len(c) = Len(ctl)
        /\ \A i \in 1..Len(ctl) : /\ c[i].k = ctl[i].k /\ c[i].phase = ctl[i].phase
                                  /\ c[i].state = ctl[i].state /\ c[i].paths = ctl[i].paths
    <3>1. n \in 1..n /\ Top = ctl[n]
      BY TypeFacts
    <3> HIDE DEF g, n
    <3>2. /\ c \in Seq(FramesUpTo(visited)) /\ Len(c) = Len(ctl) /\ c[n] = g
          /\ \A i \in 1..Len(ctl) : i # n => c[i] = ctl[i]
      BY <1>0, <2>4, <3>1, ExceptSeq DEF n
    <3>3. QED
      BY <2>4, <3>1, <3>2
  <2>6. ctl' = Append(c, f)
    <3>1. c = [ctl EXCEPT ![n].over = @ \/ default]
      BY TypeFacts
    <3>2. QED
      BY <2>1, <2>2, <3>1
  <2>7. Waits(Top)
    <3>1. Top.phase = "cases"
      BY <2>1, TypeFacts DEF TypeInv, WellNested
    <3>2. QED
      BY <2>1, <3>1 DEF Waits, Keeps
  <2>8. FlowPrecise
    <3>1. Lacking(Top.state, Top.paths, coarse, scopes)
      BY <2>7, TopPrecise
    <3>2. Top.state \subseteq state' /\ Top.paths \subseteq reach'
      BY <2>1
    <3>3. QED
      BY <1>0, <2>1, <3>1, <3>2, QuietPrecise
  <2>9. QED
    <3> HIDE DEF c
    <3>1. QED
      BY <2>3, <2>5, <2>6, <2>8, PrecisePush
<1>20. QED
  BY <1>2, <1>3, <1>4, <1>5, <1>6, <1>7, <1>9, <1>10, <1>11, <1>12, <1>13,
     <1>14, <1>15, <1>16, <1>17, <1>18, <1>19 DEF Next

\* NoFalseAlarm: no function has a read that W3001 reports and that no execution
\* makes without a value, but for the names the walk (initRead) cannot tell apart,
\* for what only passes an address (the object of a method call, an array as an
\* argument, &x.m) and for the code after a jump.
THEOREM AlarmsAreReal == Spec => []NoFalseAlarm
<1>1. Init => PreciseInv
  <2> SUFFICES ASSUME Init
               PROVE  PreciseInv
    OBVIOUS
  <2>1. /\ DOMAIN ctl = {1} /\ ctl[1].k = "block" /\ reach = {{}} /\ warned = {}
        /\ DOMAIN scopes = {1} /\ \A x \in Names : scopes[1][x] = 0
    BY DEF Init, Frame, Unbound
  <2>2. Lacking(state, reach, coarse, scopes)
    BY <2>1 DEF Lacking
  <2>3. QED
    BY <2>1, <2>2 DEF PreciseInv, NoFalseAlarm, Waits, Keeps
<1>2. ASSUME TypeInv, PreciseInv, [Next]_vars
      PROVE  PreciseInv'
  <2>1. CASE Next
    BY <1>2, <2>1, PreciseStep
  <2>2. CASE UNCHANGED vars
    BY <1>2, <2>2 DEF vars, progVars, flowVars, PreciseInv, NoFalseAlarm, Top
  <2>3. QED
    BY <1>2, <2>1, <2>2
<1>3. PreciseInv => NoFalseAlarm
  BY DEF PreciseInv
<1>4. QED
  BY WalkIsTyped, <1>1, <1>2, <1>3, PTL DEF Spec
===============================================================================
