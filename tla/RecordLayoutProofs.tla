--------------------------- MODULE RecordLayoutProofs ---------------------------
(***************************************************************************)
(* The layout of records, for any scalars, alignments, widths and numbers  *)
(* of fields and types: bit-fields stay inside their units and apart       *)
(* (BitFieldsFit); the list the loop makes leads LLVM to the places and    *)
(* the size the loop has counted (PaddingMeetsTargets), in every later     *)
(* build too (LaterBuildsAgree); no members overlap (MembersStayApart).    *)
(***************************************************************************)
EXTENDS RecordLayout, SequenceTheorems, WellFoundedInduction, TLAPS

-------------------------------------------------------------------------------
(* Positions and sequences.                                                *)

\* A set of positions that is not empty has a first one.
LEMMA FirstExists ==
    ASSUME NEW S \in SUBSET Nat, S # {}
    PROVE  \E i \in S : \A j \in S : i <= j
<1> DEFINE Below == {p \in Nat \X Nat : p[1] < p[2]}
<1>1. IsWellFoundedOn(Below, Nat)
  <2>1. Below = OpToRel(<, Nat)
    BY Zenon DEF OpToRel
  <2>2. QED
    BY <2>1, NatLessThanWellFounded
<1>2. PICK i \in S : \A j \in S : <<j, i>> \notin Below
  <2> HIDE DEF Below
  <2>1. QED
    BY <1>1, WFMin
<1>3. ASSUME NEW j \in S
      PROVE  i <= j
  <2>1. <<j, i>> \in Nat \X Nat /\ <<j, i>> \notin Below
    BY <1>2
  <2>2. ~(j < i)
    BY <2>1
  <2>3. QED
    BY <2>2
<1>4. QED
  BY <1>3

LEMMA FunctionIsSeq ==
    ASSUME NEW S, NEW n \in Nat, NEW s \in [1..n -> S]
    PROVE  s \in Seq(S) /\ Len(s) = n
<1>1. s \in Seq(S)
  BY SeqDef
<1>2. DOMAIN s = 1..n /\ DOMAIN s = 1..Len(s) /\ Len(s) \in Nat
  BY <1>1
<1>3. QED
  BY <1>1, <1>2

LEMMA ConcatFacts ==
    ASSUME NEW S, NEW s \in Seq(S), NEW t \in Seq(S), NEW u, u = s \o t
    PROVE  /\ u \in Seq(S) /\ Len(u) = Len(s) + Len(t)
           /\ \A i \in 1..Len(s) : u[i] = s[i]
           /\ \A i \in 1..Len(t) : u[Len(s) + i] = t[i]
<1>1. PICK n \in Nat : n = Len(s)
  OBVIOUS
<1>2. PICK m \in Nat : m = Len(t)
  OBVIOUS
<1>3. /\ u \in Seq(S) /\ Len(u) = n + m
      /\ \A i \in 1..(n + m) : u[i] = IF i <= n THEN s[i] ELSE t[i - n]
  BY <1>1, <1>2, ConcatProperties
<1>4. \A i \in 1..n : u[i] = s[i]
  BY <1>3
<1>5. ASSUME NEW i \in 1..m
      PROVE  u[n + i] = t[i]
  <2>1. n + i \in 1..(n + m) /\ ~(n + i <= n) /\ n + i - n = i
    OBVIOUS
  <2>2. PICK j : j = n + i
    OBVIOUS
  <2>3. j \in 1..(n + m) /\ ~(j <= n) /\ j - n = i
    BY <2>1, <2>2
  <2>4. u[j] = IF j <= n THEN s[j] ELSE t[j - n]
    BY <1>3, <2>3
  <2>5. QED
    BY <2>2, <2>3, <2>4
<1>6. QED
  BY <1>1, <1>2, <1>3, <1>4, <1>5

\* A sequence, of whatever.
IsList(s) == \E S : s \in Seq(S)

\* Append, with its results in one place.
LEMMA AppendFacts ==
    ASSUME NEW s, IsList(s), NEW e
    PROVE  /\ IsList(Append(s, e))
           /\ Len(s) \in Nat /\ DOMAIN s = 1..Len(s)
           /\ Len(Append(s, e)) = Len(s) + 1
           /\ DOMAIN Append(s, e) = 1..(Len(s) + 1)
           /\ \A k \in 1..Len(s) : Append(s, e)[k] = s[k]
           /\ Append(s, e)[Len(s) + 1] = e
<1>1. PICK S : s \in Seq(S)
  BY DEF IsList
<1>2. s \in Seq(S \cup {e}) /\ e \in S \cup {e}
  <2>1. \A i \in 1..Len(s) : s[i] \in S
    BY <1>1
  <2>2. QED
    BY <1>1, <2>1
<1>3. Append(s, e) \in Seq(S \cup {e})
  BY <1>2
<1>4. QED
  BY <1>2, <1>3 DEF IsList

-------------------------------------------------------------------------------
(* What holds of the loop of buildAggregate.                                *)

IsBuild(b) ==
    /\ b = [x \in DOMAIN b |-> b[x]]
    /\ DOMAIN b = {"cursor", "align", "padded", "unit", "used", "region", "pending", "bits"}

ShapeInv(b) ==
    /\ IsBuild(b) /\ IsList(b.padded)
    /\ b.unit \in 0..Len(b.padded) /\ b.used \in Nat
    /\ b.region \in Nat \cup {NoRegion}

\* The bit-fields that have a place: i of the fields fs.
PlaceInv(b, fs, i) ==
    LET u == b.bits[i]
    IN  /\ i \in DOMAIN fs /\ fs[i].n \in Nat
        /\ u.unit \in 1..Len(b.padded) /\ u.offset \in Nat /\ u.bits \in Nat
        /\ u.bits = 8 * SizeOf(b.padded[u.unit].type)
        /\ u.offset + fs[i].n <= u.bits
        /\ u.unit = b.unit => u.offset + fs[i].n <= b.used
        /\ \A j \in DOMAIN b.bits :
              i < j /\ b.bits[j].unit = u.unit => u.offset + fs[i].n <= b.bits[j].offset

\* And those of a region that is still open.
PendingInv(b, fs, i) ==
    /\ i \in DOMAIN fs /\ fs[i].n \in Nat /\ b.pending[i] \in Nat
    /\ b.pending[i] + fs[i].n <= b.region
    /\ \A j \in DOMAIN b.pending : i < j => b.pending[i] + fs[i].n <= b.pending[j]

BuildInv(b, fs) ==
    /\ ShapeInv(b) /\ IsList(fs)
    /\ \A i \in DOMAIN b.bits : PlaceInv(b, fs, i)
    /\ \A i \in DOMAIN b.pending : PendingInv(b, fs, i)

\* A field more changes nothing for those before it.
LEMMA FieldAdded ==
    ASSUME NEW b, NEW fs, BuildInv(b, fs), NEW f
    PROVE  /\ BuildInv(b, Append(fs, f))
           /\ Append(fs, f)[Len(fs) + 1] = f /\ Len(fs) \in Nat
           /\ DOMAIN Append(fs, f) = 1..(Len(fs) + 1)
           /\ \A i \in DOMAIN b.bits \cup DOMAIN b.pending : i \in 1..Len(fs)
<1> DEFINE gs == Append(fs, f)
<1>1. /\ IsList(gs) /\ Len(fs) \in Nat /\ DOMAIN fs = 1..Len(fs)
      /\ DOMAIN gs = 1..(Len(fs) + 1) /\ gs[Len(fs) + 1] = f
      /\ \A k \in 1..Len(fs) : gs[k] = fs[k]
  BY AppendFacts DEF BuildInv
<1> HIDE DEF gs
<1>2. ASSUME NEW i \in DOMAIN fs
      PROVE  i \in DOMAIN gs /\ gs[i] = fs[i]
  BY <1>1
<1>3. ASSUME NEW i \in DOMAIN b.bits
      PROVE  i \in DOMAIN fs /\ PlaceInv(b, gs, i)
  <2>1. PlaceInv(b, fs, i)
    BY DEF BuildInv
  <2>2. QED
    BY <1>2, <2>1 DEF PlaceInv
<1>4. ASSUME NEW i \in DOMAIN b.pending
      PROVE  i \in DOMAIN fs /\ PendingInv(b, gs, i)
  <2>1. PendingInv(b, fs, i)
    BY DEF BuildInv
  <2>2. QED
    BY <1>2, <2>1 DEF PendingInv
<1>5. QED
  BY <1>1, <1>3, <1>4 DEF BuildInv, gs

\* Nor does an entry more, whatever it is.
LEMMA LongerKeeps ==
    ASSUME NEW b, NEW fs, BuildInv(b, fs), NEW c,
           IsBuild(c), IsList(c.padded), Len(c.padded) \in Nat,
           Len(b.padded) \in Nat, Len(c.padded) >= Len(b.padded),
           \A k \in 1..Len(b.padded) : c.padded[k] = b.padded[k],
           c.unit = b.unit, c.used = b.used, c.region = b.region,
           c.pending = b.pending, c.bits = b.bits
    PROVE  BuildInv(c, fs)
<1>1. ShapeInv(c)
  BY DEF BuildInv, ShapeInv
<1>2. ASSUME NEW i \in DOMAIN c.bits
      PROVE  PlaceInv(c, fs, i)
  <2>1. PlaceInv(b, fs, i)
    BY DEF BuildInv
  <2>2. QED
    BY <2>1 DEF PlaceInv
<1>3. ASSUME NEW i \in DOMAIN c.pending
      PROVE  PendingInv(c, fs, i)
  BY DEF BuildInv, PendingInv
<1>4. QED
  BY <1>1, <1>2, <1>3 DEF BuildInv

\* Padding is an entry behind the others, or nothing.
LEMMA PaddedFacts ==
    ASSUME NEW b, IsList(b.padded), NEW off
    PROVE  LET q == PaddedTo(b, off)
           IN  /\ IsList(q) /\ Len(b.padded) \in Nat /\ Len(q) \in Nat
               /\ Len(q) >= Len(b.padded)
               /\ \A k \in 1..Len(b.padded) : q[k] = b.padded[k]
<1> DEFINE q == PaddedTo(b, off)
<1>1. CASE off = b.cursor
  <2>1. q = b.padded
    BY <1>1 DEF PaddedTo
  <2>2. QED
    BY <2>1, AppendFacts
<1>2. CASE off # b.cursor
  <2>1. q = Append(b.padded, Entry(0, Bytes(off - b.cursor), b.cursor))
    BY <1>2 DEF PaddedTo
  <2> HIDE DEF q
  <2>2. QED
    BY <2>1, AppendFacts DEF q
<1>3. QED
  BY <1>1, <1>2

\* A new entry is the last one, and the bit-fields stay where they are.
LEMMA PushedFacts ==
    ASSUME NEW b, NEW fs, BuildInv(b, fs), NEW f, NEW t, NEW off
    PROVE  LET p == Pushed(b, f, t, off)
           IN  /\ BuildInv(p, fs)
               /\ Len(b.padded) \in Nat /\ Len(p.padded) \in Nat
               /\ Len(p.padded) > Len(b.padded)
               /\ p.padded[Len(p.padded)].type = t
               /\ \A k \in 1..Len(b.padded) : p.padded[k] = b.padded[k]
               /\ p.unit = b.unit /\ p.used = b.used /\ p.region = b.region
               /\ p.pending = b.pending /\ p.bits = b.bits
<1> DEFINE p == Pushed(b, f, t, off)
           q == PaddedTo(b, off)
<1>1. /\ IsList(q) /\ Len(b.padded) \in Nat /\ Len(q) \in Nat /\ Len(q) >= Len(b.padded)
      /\ \A k \in 1..Len(b.padded) : q[k] = b.padded[k]
  BY PaddedFacts DEF BuildInv, ShapeInv
<1>2. /\ p.padded = Append(q, Entry(f, t, off)) /\ IsBuild(p)
      /\ p.unit = b.unit /\ p.used = b.used /\ p.region = b.region
      /\ p.pending = b.pending /\ p.bits = b.bits
  BY DEF BuildInv, ShapeInv, IsBuild, Pushed
<1>3. Entry(f, t, off).type = t
  BY DEF Entry
<1> HIDE DEF p, q
<1>4. /\ IsList(p.padded) /\ Len(p.padded) = Len(q) + 1
      /\ p.padded[Len(q) + 1] = Entry(f, t, off)
      /\ \A k \in 1..Len(q) : p.padded[k] = q[k]
  BY <1>1, <1>2, AppendFacts
<1>5. \A k \in 1..Len(b.padded) : p.padded[k] = b.padded[k]
  BY <1>1, <1>4
<1>6. BuildInv(p, fs)
  <2>1. Len(p.padded) \in Nat /\ Len(p.padded) >= Len(b.padded)
    BY <1>1, <1>4
  <2>2. QED
    BY <1>1, <1>2, <1>4, <1>5, <2>1, LongerKeeps
<1>7. Len(p.padded) = Len(q) + 1 /\ p.padded[Len(p.padded)].type = t
  BY <1>3, <1>4
<1>8. QED
  BY <1>1, <1>2, <1>5, <1>6, <1>7 DEF p

LEMMA RaisedKeeps ==
    ASSUME NEW b, NEW fs, BuildInv(b, fs), NEW a
    PROVE  BuildInv(RaisedTo(b, a), fs) /\ RaisedTo(b, a).padded = b.padded
<1> DEFINE c == RaisedTo(b, a)
<1>1. /\ IsBuild(c) /\ c.padded = b.padded /\ c.unit = b.unit /\ c.used = b.used
      /\ c.region = b.region /\ c.pending = b.pending /\ c.bits = b.bits
  BY DEF BuildInv, ShapeInv, IsBuild, RaisedTo
<1> HIDE DEF c
<1>2. IsList(b.padded) /\ Len(b.padded) \in Nat
  BY AppendFacts DEF BuildInv, ShapeInv
<1>3. QED
  BY <1>1, <1>2, LongerKeeps DEF c

\* The padding at the end.
LEMMA ClosedKeeps ==
    ASSUME NEW b, NEW fs, BuildInv(b, fs)
    PROVE  BuildInv(Closed(b), fs)
<1> DEFINE c == Closed(b)
           total == AlignUp(b.cursor, MaxOf(b.align, notes.forced))
           q == PaddedTo(b, total)
<1>1. /\ IsList(q) /\ Len(b.padded) \in Nat /\ Len(q) \in Nat /\ Len(q) >= Len(b.padded)
      /\ \A k \in 1..Len(b.padded) : q[k] = b.padded[k]
  BY PaddedFacts DEF BuildInv, ShapeInv
<1>2. /\ IsBuild(c) /\ c.padded = q /\ c.unit = b.unit /\ c.used = b.used
      /\ c.region = b.region /\ c.pending = b.pending /\ c.bits = b.bits
  BY DEF BuildInv, ShapeInv, IsBuild, Closed
<1> HIDE DEF c, q
<1>3. QED
  BY <1>1, <1>2, LongerKeeps DEF c

\* Without a current unit there is nothing to keep room for.
LEMMA FlushKeeps ==
    ASSUME NEW b, NEW fs, BuildInv(b, fs)
    PROVE  BuildInv(FlushUnit(b), fs)
<1> DEFINE c == FlushUnit(b)
<1>1. /\ IsBuild(c) /\ c.padded = b.padded /\ c.unit = 0 /\ c.used = 0
      /\ c.region = b.region /\ c.pending = b.pending /\ c.bits = b.bits
  BY DEF BuildInv, ShapeInv, IsBuild, FlushUnit
<1> HIDE DEF c
<1>2. Len(b.padded) \in Nat
  BY AppendFacts DEF BuildInv, ShapeInv
<1>3. ASSUME NEW i \in DOMAIN c.bits
      PROVE  PlaceInv(c, fs, i)
  <2>1. PlaceInv(b, fs, i)
    BY <1>1 DEF BuildInv
  <2>2. QED
    BY <1>1, <1>2, <2>1 DEF PlaceInv
<1>4. QED
  BY <1>1, <1>2, <1>3 DEF BuildInv, ShapeInv, PendingInv, c

\* The bytes of a region hold its bits.
LEMMA BytesHoldBits ==
    ASSUME NEW r \in Nat
    PROVE  LET n == MaxOf((r + 7) \div 8, 1) IN n \in Nat /\ r <= 8 * n
  BY DEF MaxOf

\* When a region is closed its bit-fields get their places: in an entry in which
\* no other bit-field is.
LEMMA CloseKeeps ==
    ASSUME NEW b, NEW fs, BuildInv(b, fs)
    PROVE  LET c == CloseRegion(b)
           IN  BuildInv(c, fs) /\ c.region = NoRegion /\ c.unit = b.unit
<1>1. CASE b.region = NoRegion
  BY <1>1 DEF CloseRegion
<1>2. CASE b.region # NoRegion
  <2> DEFINE n == MaxOf((b.region + 7) \div 8, 1)
             p == Pushed(b, 0, Bytes(n), b.cursor)
             c == CloseRegion(b)
             last == Len(p.padded)
  <2>1. b.region \in Nat
    BY <1>2 DEF BuildInv, ShapeInv
  <2>2. n \in Nat /\ b.region <= 8 * n
    BY <2>1, BytesHoldBits
  <2>3. /\ ShapeInv(p) /\ Len(b.padded) \in Nat /\ last \in Nat /\ last > Len(b.padded)
        /\ p.padded[last].type = Bytes(n)
        /\ \A k \in 1..Len(b.padded) : p.padded[k] = b.padded[k]
        /\ p.unit = b.unit /\ p.used = b.used /\ p.pending = b.pending /\ p.bits = b.bits
    BY PushedFacts DEF BuildInv
  <2>4. /\ IsBuild(c) /\ c.padded = p.padded /\ c.unit = p.unit /\ c.used = p.used
        /\ c.region = NoRegion /\ c.pending = NoBits
        /\ c.bits = [i \in DOMAIN b.bits \cup DOMAIN b.pending |->
                       IF i \in DOMAIN b.pending
                       THEN [unit |-> last, offset |-> b.pending[i], bits |-> n * 8]
                       ELSE b.bits[i]]
    BY <1>2, <2>3 DEF CloseRegion, ShapeInv, IsBuild
  <2>5. SizeOf(Bytes(n)) = n
    BY DEF SizeOf, Bytes
  <2> HIDE DEF n, p, c
  <2>6. ShapeInv(c)
    BY <2>3, <2>4 DEF ShapeInv, NoRegion
  <2>7. ASSUME NEW i \in DOMAIN b.pending
        PROVE  /\ c.bits[i].unit = last /\ c.bits[i].offset = b.pending[i]
               /\ c.bits[i].bits = n * 8
    BY <2>4
  <2>12. ASSUME NEW i \in DOMAIN b.pending
         PROVE  PendingInv(b, fs, i)
    BY DEF BuildInv
  <2>8. ASSUME NEW i \in DOMAIN b.bits, i \notin DOMAIN b.pending
        PROVE  /\ c.bits[i] = b.bits[i] /\ PlaceInv(b, fs, i)
               /\ c.bits[i].unit \in 1..Len(b.padded) /\ c.bits[i].unit # last
    <3>1. c.bits[i] = b.bits[i] /\ PlaceInv(b, fs, i)
      BY <2>4, <2>8 DEF BuildInv
    <3>2. QED
      BY <2>3, <3>1 DEF PlaceInv
  <2>9. ASSUME NEW i \in DOMAIN c.bits
        PROVE  PlaceInv(c, fs, i)
    <3>1. CASE i \in DOMAIN b.pending
      <4>1. /\ c.bits[i].unit = last /\ c.bits[i].offset = b.pending[i]
            /\ c.bits[i].bits = n * 8
        BY <2>7, <3>1
      <4>2. /\ i \in DOMAIN fs /\ fs[i].n \in Nat /\ b.pending[i] \in Nat
            /\ b.pending[i] + fs[i].n <= b.region
        BY <2>12, <3>1 DEF PendingInv
      <4>3. c.unit # last
        BY <2>3, <2>4 DEF BuildInv, ShapeInv
      <4>4. ASSUME NEW j \in DOMAIN c.bits, i < j, c.bits[j].unit = last
            PROVE  b.pending[i] + fs[i].n <= c.bits[j].offset
        <5>1. j \in DOMAIN b.pending
          BY <2>4, <2>8, <4>4
        <5>2. c.bits[j].offset = b.pending[j]
          BY <2>7, <5>1
        <5>3. QED
          BY <2>12, <3>1, <4>4, <5>1, <5>2 DEF PendingInv
      <4>5. c.padded[last].type = Bytes(n)
        BY <2>3, <2>4
      <4>6. n * 8 = 8 * SizeOf(c.padded[last].type) /\ n * 8 \in Nat
        BY <2>2, <2>5, <4>5
      <4>7. b.pending[i] + fs[i].n <= n * 8
        BY <2>1, <2>2, <4>2
      <4>8. last \in 1..Len(c.padded)
        BY <2>3, <2>4
      <4>9. QED
        BY <4>1, <4>2, <4>3, <4>4, <4>6, <4>7, <4>8 DEF PlaceInv
    <3>2. CASE i \notin DOMAIN b.pending
      <4>1. i \in DOMAIN b.bits
        BY <2>4, <3>2
      <4>2. /\ c.bits[i] = b.bits[i] /\ PlaceInv(b, fs, i)
            /\ c.bits[i].unit \in 1..Len(b.padded) /\ c.bits[i].unit # last
        BY <2>8, <3>2, <4>1
      <4>3. ASSUME NEW j \in DOMAIN c.bits, i < j, c.bits[j].unit = c.bits[i].unit
            PROVE  b.bits[i].offset + fs[i].n <= c.bits[j].offset
        <5>1. j \notin DOMAIN b.pending
          BY <2>7, <4>2, <4>3
        <5>2. j \in DOMAIN b.bits /\ c.bits[j] = b.bits[j]
          BY <2>4, <2>8, <5>1
        <5>3. QED
          BY <4>2, <4>3, <5>2 DEF PlaceInv
      <4>4. c.padded[c.bits[i].unit] = b.padded[c.bits[i].unit]
        BY <2>3, <2>4, <4>2
      <4>5. c.unit = b.unit /\ c.used = b.used /\ Len(c.padded) = last
        BY <2>3, <2>4
      <4>6. QED
        BY <2>3, <4>2, <4>3, <4>4, <4>5 DEF PlaceInv
    <3>3. QED
      BY <3>1, <3>2
  <2>10. DOMAIN c.pending = {}
    BY <2>4 DEF NoBits
  <2>11. QED
    BY <2>3, <2>4, <2>6, <2>9, <2>10 DEF BuildInv, c
<1>3. QED
  BY <1>1, <1>2

\* A named bit-field gets the place behind the used bits of the current unit, and
\* an unnamed one takes the room only: c is b after that.
LEMMA PlacedKeeps ==
    ASSUME NEW b, NEW fs, BuildInv(b, fs), NEW f, f.n \in Nat,
           b.unit # 0, b.used + f.n <= 8 * SizeOf(b.padded[b.unit].type),
           SizeOf(b.padded[b.unit].type) \in Nat,
           NEW named \in BOOLEAN, NEW c, IsBuild(c), c.padded = b.padded,
           c.unit = b.unit, c.used = b.used + f.n, c.region = b.region,
           c.pending = b.pending,
           ~named => c.bits = b.bits,
           named => c.bits = With(b.bits, Len(fs) + 1,
                        [unit |-> b.unit, offset |-> b.used,
                         bits |-> 8 * SizeOf(b.padded[b.unit].type)])
    PROVE  BuildInv(c, Append(fs, f))
<1> DEFINE gs  == Append(fs, f)
           new == Len(fs) + 1
<1>1. /\ BuildInv(b, gs) /\ gs[new] = f /\ Len(fs) \in Nat /\ DOMAIN gs = 1..new
      /\ \A i \in DOMAIN b.bits \cup DOMAIN b.pending : i \in 1..Len(fs)
  BY FieldAdded
<1> HIDE DEF gs
<1>2. ShapeInv(b) /\ IsList(gs) /\ Len(b.padded) \in Nat
  BY <1>1, AppendFacts DEF BuildInv, ShapeInv
<1>3. ShapeInv(c)
  BY <1>2 DEF ShapeInv
<1>4. ASSUME NEW i \in DOMAIN b.bits
      PROVE  PlaceInv(b, gs, i) /\ i \in 1..Len(fs) /\ i # new
  BY <1>1 DEF BuildInv
<1>5. ASSUME NEW i \in DOMAIN c.pending
      PROVE  PendingInv(c, gs, i)
  BY <1>1 DEF BuildInv, PendingInv
<1>6. ASSUME NEW i \in DOMAIN c.bits
      PROVE  PlaceInv(c, gs, i)
  <2>1. CASE ~named
    <3>1. c.bits = b.bits
      BY <2>1
    <3>2. PlaceInv(b, gs, i)
      BY <1>4, <3>1
    <3>3. QED
      BY <1>2, <3>1, <3>2 DEF PlaceInv, ShapeInv
  <2>2. CASE named
    <3>1. /\ DOMAIN c.bits = DOMAIN b.bits \cup {new}
          /\ c.bits[new].unit = b.unit /\ c.bits[new].offset = b.used
          /\ c.bits[new].bits = 8 * SizeOf(b.padded[b.unit].type)
          /\ \A j \in DOMAIN b.bits : j # new => c.bits[j] = b.bits[j]
      BY <2>2 DEF With
    <3>2. CASE i = new
      <4>1. \A j \in DOMAIN c.bits : ~(new < j)
        BY <1>1, <1>4, <3>1
      <4>2. b.unit \in 1..Len(b.padded) /\ b.used \in Nat
        BY <1>2 DEF ShapeInv
      <4>3. new \in DOMAIN gs /\ gs[new].n \in Nat /\ gs[new].n = f.n
        BY <1>1
      <4>4. c.bits[new].offset + gs[new].n <= c.bits[new].bits
        BY <3>1, <4>3
      <4>5. c.bits[new].offset + gs[new].n = c.used /\ c.used <= c.used
        BY <3>1, <4>2, <4>3
      <4>6. /\ c.bits[new].unit \in 1..Len(c.padded) /\ c.bits[new].offset \in Nat
            /\ c.bits[new].bits \in Nat
            /\ c.bits[new].bits = 8 * SizeOf(c.padded[c.bits[new].unit].type)
        BY <3>1, <4>2
      <4>7. QED
        BY <3>2, <4>1, <4>3, <4>4, <4>5, <4>6 DEF PlaceInv
    <3>3. CASE i # new
      <4>1. i \in DOMAIN b.bits /\ c.bits[i] = b.bits[i] /\ PlaceInv(b, gs, i)
        BY <1>4, <3>1, <3>3
      <4>2. ASSUME NEW j \in DOMAIN c.bits, i < j, c.bits[j].unit = c.bits[i].unit
            PROVE  b.bits[i].offset + gs[i].n <= c.bits[j].offset
        <5>1. CASE j = new
          BY <3>1, <4>1, <4>2, <5>1 DEF PlaceInv
        <5>2. CASE j # new
          BY <3>1, <4>1, <4>2, <5>2 DEF PlaceInv
        <5>3. QED
          BY <5>1, <5>2
      <4>3. b.used \in Nat
        BY <1>2 DEF ShapeInv
      <4>4. QED
        BY <4>1, <4>2, <4>3 DEF PlaceInv
    <3>4. QED
      BY <3>2, <3>3
  <2>3. QED
    BY <2>1, <2>2
<1>7. QED
  BY <1>2, <1>3, <1>5, <1>6 DEF BuildInv, gs

-------------------------------------------------------------------------------
(* The theorem.                                                             *)

Inv == phase # "union" => BuildInv(build, fields)

\* The locations are those of the fields.
LEMMA InvImplies == Inv => BitsInUnits
<1> SUFFICES ASSUME Inv, phase # "union", NEW i \in DOMAIN build.bits
             PROVE  LET u == build.bits[i]
                    IN  /\ u.unit \in DOMAIN build.padded
                        /\ u.bits = 8 * SizeOf(build.padded[u.unit].type)
                        /\ u.offset + fields[i].n <= u.bits
                        /\ \A j \in DOMAIN build.bits :
                              i < j /\ build.bits[j].unit = u.unit =>
                                  u.offset + fields[i].n <= build.bits[j].offset
  BY DEF BitsInUnits
<1>1. PlaceInv(build, fields, i) /\ DOMAIN build.padded = 1..Len(build.padded)
  BY AppendFacts DEF Inv, BuildInv, ShapeInv
<1>2. QED
  BY <1>1 DEF PlaceInv

\* The loop at its beginning.
LEMMA FreshInv ==
    ASSUME NEW b,
           b = [cursor |-> 0, align |-> 1, padded |-> <<>>, unit |-> 0, used |-> 0,
                region |-> NoRegion, pending |-> NoBits, bits |-> NoBits]
    PROVE  BuildInv(b, <<>>)
<1>1. IsBuild(b) /\ b.unit = 0 /\ b.used = 0 /\ b.region = NoRegion /\ b.padded = <<>>
  BY DEF IsBuild
<1>2. IsList(<<>>) /\ Len(<<>>) = 0
  <2>1. <<>> \in Seq({})
    OBVIOUS
  <2>2. QED
    BY <2>1 DEF IsList
<1>3. DOMAIN b.bits = {} /\ DOMAIN b.pending = {}
  BY DEF NoBits
<1>4. QED
  BY <1>1, <1>2, <1>3 DEF BuildInv, ShapeInv

LEMMA InitInv == Init => Inv
  BY FreshInv DEF Init, Inv

LEMMA BeginInv ==
    ASSUME NEW packed, NEW forced, NEW base, Begin(packed, forced, base)
    PROVE  Inv'
<1> DEFINE fresh == [cursor |-> 0, align |-> 1, padded |-> <<>>, unit |-> 0, used |-> 0,
                     region |-> NoRegion, pending |-> NoBits, bits |-> NoBits]
           based == Pushed(fresh, 0, base, 0)
<1>1. BuildInv(fresh, <<>>)
  BY FreshInv
<1> HIDE DEF fresh
<1>2. BuildInv(based, <<>>)
  BY <1>1, PushedFacts
<1> HIDE DEF based
<1>3. BuildInv(RaisedTo(based, AlignOf(base)), <<>>)
  BY <1>2, RaisedKeeps
<1>4. /\ fields' = <<>>
      /\ build' \in {fresh, based, RaisedTo(based, AlignOf(base))}
  BY DEF Begin, fresh, based
<1>5. QED
  BY <1>1, <1>2, <1>3, <1>4 DEF Inv

\* An ordinary field ends the region and the unit before it.
LEMMA OrdinaryInv ==
    ASSUME Inv, NEW t, NEW a, Ordinary(t, a)
    PROVE  Inv'
<1> DEFINE b == FlushUnit(CloseRegion(build))
           p == Pushed(b, This, t, AlignUp(b.cursor, FieldAlign(t, a)))
           f == [kind |-> "field", type |-> t, n |-> a]
<1>1. BuildInv(build, fields)
  BY DEF Inv, Ordinary, Field
<1>2. BuildInv(CloseRegion(build), fields)
  BY <1>1, CloseKeeps
<1>3. BuildInv(b, fields)
  BY <1>2, FlushKeeps
<1> HIDE DEF b
<1>4. BuildInv(p, fields)
  BY <1>3, PushedFacts
<1> HIDE DEF p
<1>5. BuildInv(RaisedTo(p, FieldAlign(t, a)), fields)
  BY <1>4, RaisedKeeps
<1>6. /\ fields' = Append(fields, f)
      /\ build' \in {p, RaisedTo(p, FieldAlign(t, a))}
  BY DEF Ordinary, Field, b, p
<1> HIDE DEF f
<1>7. BuildInv(build', fields)
  BY <1>4, <1>5, <1>6
<1>8. BuildInv(build', fields')
  BY <1>6, <1>7, FieldAdded
<1>9. QED
  BY <1>8 DEF Inv

\* A bit-field in a region takes the bits behind those of the others.
LEMMA PackedBitsInv ==
    ASSUME Inv, NEW t, NEW w \in Nat, NEW named \in BOOLEAN, PackedBits(t, w, named)
    PROVE  Inv'
<1> DEFINE f == [kind |-> IF named THEN "bits" ELSE "unnamed", type |-> t, n |-> w]
           at == MaxOf(build.region, 0)
           new == Len(fields) + 1
<1>1. BuildInv(build, fields) /\ fields' = Append(fields, f) /\ f.n = w
  BY DEF Inv, PackedBits, Field
<1> HIDE DEF f
<1>2. /\ BuildInv(build, fields') /\ fields'[new] = f /\ Len(fields) \in Nat
      /\ DOMAIN fields' = 1..new
      /\ \A i \in DOMAIN build.bits \cup DOMAIN build.pending : i \in 1..Len(fields)
  BY <1>1, FieldAdded
<1>3. at \in Nat /\ build.region <= at
  BY <1>1 DEF BuildInv, ShapeInv, MaxOf, NoRegion
<1>4. /\ IsBuild(build') /\ build'.padded = build.padded /\ build'.unit = build.unit
      /\ build'.used = build.used /\ build'.region = at + w /\ build'.bits = build.bits
      /\ build'.pending = IF named THEN With(build.pending, new, at) ELSE build.pending
  BY <1>1 DEF PackedBits, This, BuildInv, ShapeInv, IsBuild
<1> HIDE DEF at
<1>5. ShapeInv(build')
  BY <1>1, <1>3, <1>4 DEF BuildInv, ShapeInv
<1>6. ASSUME NEW i \in DOMAIN build'.bits
      PROVE  PlaceInv(build', fields', i)
  BY <1>2, <1>4 DEF BuildInv, PlaceInv
<1>7. ASSUME NEW i \in DOMAIN build.pending
      PROVE  /\ i \in 1..Len(fields) /\ i # new /\ PendingInv(build, fields', i)
  BY <1>2 DEF BuildInv
<1>8. build.region \in Int
  BY <1>1 DEF BuildInv, ShapeInv, NoRegion
<1>9. ASSUME NEW i \in DOMAIN build'.pending
      PROVE  PendingInv(build', fields', i)
  <2>1. CASE ~named
    BY <1>3, <1>4, <1>7, <1>8, <2>1 DEF PendingInv
  <2>2. CASE named
    <3>1. /\ DOMAIN build'.pending = DOMAIN build.pending \cup {new}
          /\ build'.pending[new] = at
          /\ \A j \in DOMAIN build.pending : j # new =>
                build'.pending[j] = build.pending[j]
      BY <1>4, <2>2 DEF With
    <3>2. CASE i = new
      <4>1. \A j \in DOMAIN build'.pending : ~(new < j)
        BY <1>2, <1>7, <3>1
      <4>2. new \in DOMAIN fields' /\ fields'[new].n = w
        BY <1>1, <1>2
      <4>3. QED
        BY <1>3, <1>4, <3>1, <3>2, <4>1, <4>2 DEF PendingInv
    <3>3. CASE i # new
      <4>1. /\ i \in DOMAIN build.pending /\ build'.pending[i] = build.pending[i]
            /\ PendingInv(build, fields', i)
        BY <1>7, <3>1, <3>3
      <4>2. build.pending[i] + fields'[i].n <= at
        BY <1>3, <1>8, <4>1 DEF PendingInv
      <4>3. ASSUME NEW j \in DOMAIN build'.pending, i < j
            PROVE  build.pending[i] + fields'[i].n <= build'.pending[j]
        <5>1. CASE j = new
          BY <3>1, <4>2, <5>1
        <5>2. CASE j # new
          BY <3>1, <4>1, <4>3, <5>2 DEF PendingInv
        <5>3. QED
          BY <5>1, <5>2
      <4>4. build.pending[i] + fields'[i].n <= build'.region
        BY <1>3, <1>4, <4>1, <4>2 DEF PendingInv
      <4>5. QED
        BY <4>1, <4>3, <4>4 DEF PendingInv
    <3>4. QED
      BY <3>2, <3>3
  <2>3. QED
    BY <2>1, <2>2
<1>10. IsList(fields')
  BY <1>2 DEF BuildInv
<1>11. QED
  BY <1>5, <1>6, <1>9, <1>10 DEF Inv, BuildInv

\* A bit-field of another record: the unit is one that has room, or a new one.
LEMMA UnitBitsInv ==
    ASSUME Inv, NEW t \in Scalars, NEW w \in Nat, NEW named \in BOOLEAN,
           UnitBits(t, w, named)
    PROVE  Inv'
<1> DEFINE f == [kind |-> IF named THEN "bits" ELSE "unnamed", type |-> t, n |-> w]
           q == Pushed(build, 0, t, AlignUp(build.cursor, AlignOf(t)))
           p == RaisedTo(q, AlignOf(t))
           b == IF NeedsNew(t, w) THEN [p EXCEPT !.unit = Len(p.padded), !.used = 0]
                ELSE build
           located == [unit |-> b.unit, offset |-> b.used, bits |-> 8 * SizeOf(t)]
           new == Len(fields) + 1
<1>1. BuildInv(build, fields) /\ fields' = Append(fields, f) /\ f.n = w
  BY DEF Inv, UnitBits, Field
<1>2. SizeOf(t) \in Nat /\ w <= 8 * SizeOf(t)
  BY LayoutAssumption DEF SizeOf, UnitBits
<1>3. /\ BuildInv(b, fields) /\ b.unit # 0 /\ SizeOf(b.padded[b.unit].type) = SizeOf(t)
      /\ b.used + w <= 8 * SizeOf(t)
  <2>1. CASE NeedsNew(t, w)
    <3>1. /\ BuildInv(q, fields) /\ Len(build.padded) \in Nat /\ Len(q.padded) \in Nat
          /\ Len(q.padded) > Len(build.padded) /\ q.padded[Len(q.padded)].type = t
          /\ q.bits = build.bits
      BY <1>1, PushedFacts
    <3> HIDE DEF q
    <3>2. BuildInv(p, fields) /\ p.padded = q.padded /\ p.bits = q.bits
      BY <3>1, RaisedKeeps DEF RaisedTo, BuildInv, ShapeInv, IsBuild
    <3> HIDE DEF p
    <3>3. /\ IsBuild(b) /\ b.padded = p.padded /\ b.unit = Len(p.padded) /\ b.used = 0
          /\ b.region = p.region /\ b.pending = p.pending /\ b.bits = p.bits
      BY <2>1, <3>2 DEF BuildInv, ShapeInv, IsBuild
    <3> HIDE DEF b
    <3>4. ShapeInv(b)
      BY <3>1, <3>2, <3>3 DEF BuildInv, ShapeInv
    <3>5. ASSUME NEW i \in DOMAIN b.bits
          PROVE  PlaceInv(b, fields, i)
      <4>1. PlaceInv(p, fields, i) /\ PlaceInv(build, fields, i)
        BY <1>1, <3>1, <3>2, <3>3 DEF BuildInv
      <4>2. b.bits[i].unit # b.unit
        BY <3>1, <3>2, <3>3, <4>1 DEF PlaceInv
      <4>3. QED
        BY <3>3, <4>1, <4>2 DEF PlaceInv
    <3>6. BuildInv(b, fields)
      BY <3>2, <3>3, <3>4, <3>5 DEF BuildInv, PendingInv
    <3>7. QED
      BY <1>2, <3>1, <3>2, <3>3, <3>6
  <2>2. CASE ~NeedsNew(t, w)
    <3>1. b = build
      BY <2>2
    <3>2. build.used \in Nat
      BY <1>1 DEF BuildInv, ShapeInv
    <3>3. QED
      BY <1>1, <1>2, <2>2, <3>1, <3>2 DEF NeedsNew
  <2>3. QED
    BY <2>1, <2>2
<1>4. build' = [b EXCEPT !.used = @ + w, !.bits = IF named THEN With(@, This, located) ELSE @]
  BY DEF UnitBits
<1> HIDE DEF b, f
<1>5. /\ IsBuild(build') /\ build'.padded = b.padded /\ build'.unit = b.unit
      /\ build'.used = b.used + w /\ build'.region = b.region
      /\ build'.pending = b.pending
      /\ build'.bits = IF named THEN With(b.bits, new, located) ELSE b.bits
  BY <1>3, <1>4 DEF BuildInv, ShapeInv, IsBuild, This
<1>6. BuildInv(build', fields')
  BY <1>1, <1>2, <1>3, <1>5, PlacedKeeps
<1>7. QED
  BY <1>6 DEF Inv

\* Alignment only adds bits to a region.
LEMMA AlignUpGrows ==
    ASSUME NEW v \in Nat, NEW a \in Nat \ {0}
    PROVE  AlignUp(v, a) \in Nat /\ v <= AlignUp(v, a)
  BY DEF AlignUp

LEMMA ZeroWidthInv ==
    ASSUME Inv, NEW t \in Scalars, ZeroWidth(t)
    PROVE  Inv'
<1> DEFINE f == [kind |-> "zero", type |-> t, n |-> 0]
           up == AlignUp(MaxOf(build.region, 0), 8 * SizeOf(t))
<1>1. BuildInv(build, fields) /\ fields' = Append(fields, f)
  BY DEF Inv, ZeroWidth, Field
<1> HIDE DEF f
<1>2. CASE notes.packed
  <2>1. SizeOf(t) \in Nat \ {0}
    BY LayoutAssumption DEF SizeOf
  <2>2. /\ MaxOf(build.region, 0) \in Nat /\ build.region <= MaxOf(build.region, 0)
        /\ build.region \in Int
    BY <1>1 DEF BuildInv, ShapeInv, MaxOf, NoRegion
  <2>3. up \in Nat /\ build.region <= up
    BY <2>1, <2>2, AlignUpGrows
  <2>4. /\ IsBuild(build') /\ build'.padded = build.padded /\ build'.unit = build.unit
        /\ build'.used = build.used /\ build'.region = up /\ build'.bits = build.bits
        /\ build'.pending = build.pending
    BY <1>1, <1>2 DEF ZeroWidth, BuildInv, ShapeInv, IsBuild
  <2> HIDE DEF up
  <2>5. ShapeInv(build')
    BY <1>1, <2>3, <2>4 DEF BuildInv, ShapeInv
  <2>6. ASSUME NEW i \in DOMAIN build'.bits
        PROVE  PlaceInv(build', fields, i)
    BY <1>1, <2>4 DEF BuildInv, PlaceInv
  <2>7. ASSUME NEW i \in DOMAIN build'.pending
        PROVE  PendingInv(build', fields, i)
    BY <1>1, <2>2, <2>3, <2>4 DEF BuildInv, PendingInv
  <2>8. BuildInv(build', fields)
    BY <1>1, <2>5, <2>6, <2>7 DEF BuildInv
  <2>9. QED
    BY <1>1, <2>8, FieldAdded DEF Inv
<1>3. CASE ~notes.packed
  <2>1. build' = FlushUnit(build)
    BY <1>3 DEF ZeroWidth
  <2>2. BuildInv(build', fields)
    BY <1>1, <2>1, FlushKeeps
  <2>3. QED
    BY <1>1, <2>2, FieldAdded DEF Inv
<1>4. QED
  BY <1>2, <1>3

LEMMA FinishInv ==
    ASSUME Inv, Finish
    PROVE  Inv'
<1>1. BuildInv(build, fields) /\ build' = Closed(CloseRegion(build)) /\ fields' = fields
  BY DEF Inv, Finish
<1>2. BuildInv(CloseRegion(build), fields)
  BY <1>1, CloseKeeps
<1>3. BuildInv(build', fields')
  BY <1>1, <1>2, ClosedKeeps
<1>4. QED
  BY <1>3 DEF Inv

LEMMA NextInv ==
    ASSUME Inv, [Next]_vars
    PROVE  Inv'
<1>1. ASSUME NEW p \in BOOLEAN, NEW a, NEW t, Begin(p, a, t)
      PROVE  Inv'
  BY <1>1, BeginInv
<1>2. ASSUME NEW t, NEW a, Ordinary(t, a)
      PROVE  Inv'
  BY <1>2, OrdinaryInv
<1>3. ASSUME NEW t \in Scalars, NEW w \in Widths, NEW n \in BOOLEAN, PackedBits(t, w, n)
      PROVE  Inv'
  <2>1. w \in Nat
    BY LayoutAssumption
  <2>2. QED
    BY <1>3, <2>1, PackedBitsInv
<1>4. ASSUME NEW t \in Scalars, NEW w \in Widths, NEW n \in BOOLEAN, UnitBits(t, w, n)
      PROVE  Inv'
  <2>1. w \in Nat
    BY LayoutAssumption
  <2>2. QED
    BY <1>4, <2>1, UnitBitsInv
<1>5. ASSUME NEW t \in Scalars, ZeroWidth(t)
      PROVE  Inv'
  BY <1>5, ZeroWidthInv
<1>6. CASE Finish
  BY <1>6, FinishInv
<1>7. ASSUME NEW s, NEW t, NEW w, NEW a, MakeUnion(s, t, w, a)
      PROVE  Inv'
  BY <1>7 DEF MakeUnion, Inv
<1>8. CASE UNCHANGED vars
  BY <1>8 DEF vars, Inv
<1>9. QED
  BY <1>1, <1>2, <1>3, <1>4, <1>5, <1>6, <1>7, <1>8 DEF Next

\* LayoutBuilder.cpp:182-208 and 124-143: whatever the fields of a record are, and
\* however many, a bit-field is inside the unit or region it is loaded from and
\* does not overlap those declared before it.
THEOREM BitFieldsFit == Spec => []BitsInUnits
<1>1. Init => Inv
  BY InitInv
<1>2. Inv /\ [Next]_vars => Inv'
  BY NextInv
<1>3. Inv => BitsInUnits
  BY InvImplies
<1>4. QED
  BY <1>1, <1>2, <1>3, PTL DEF Spec

-------------------------------------------------------------------------------
(* Alignments.                                                              *)

LEMMA DivisionIs ==
    ASSUME NEW v \in Nat, NEW a \in Nat \ {0}
    PROVE  \E q, r \in Nat : /\ v = a * q + r /\ r < a
                             /\ v \div a = q /\ v % a = r
<1>1. v \div a \in Nat /\ v % a \in 0..(a - 1) /\ v = a * (v \div a) + (v % a)
  OBVIOUS
<1>2. QED
  BY <1>1

LEMMA MultipleIs ==
    ASSUME NEW q \in Nat, NEW a \in Nat \ {0}
    PROVE  (a * q) % a = 0 /\ (a * q) \div a = q
OBVIOUS

LEMMA DividesIs ==
    ASSUME NEW v \in Nat, NEW a \in Nat \ {0}, v % a = 0
    PROVE  \E q \in Nat : v = a * q
<1>1. PICK q, r \in Nat : v = a * q + r /\ v % a = r
  BY DivisionIs
<1>2. v = a * q + 0
  BY <1>1
<1>3. v = a * q
  BY <1>2
<1>4. QED
  BY <1>3

LEMMA DividesTrans ==
    ASSUME NEW a \in Nat \ {0}, NEW b \in Nat \ {0}, NEW c \in Nat, b % a = 0, c % b = 0
    PROVE  c % a = 0
<1>1. PICK m \in Nat : b = a * m
  BY DividesIs
<1>2. PICK n \in Nat : c = b * n
  BY DividesIs
<1>3. PICK k \in Nat : k = m * n
  OBVIOUS
<1>4. c = a * k
  BY <1>1, <1>2, <1>3
<1>5. QED
  BY <1>4, MultipleIs

\* The next multiple.
LEMMA AlignUpFacts ==
    ASSUME NEW v \in Nat, NEW a \in Nat \ {0}
    PROVE  /\ AlignUp(v, a) \in Nat /\ v <= AlignUp(v, a)
           /\ AlignUp(v, a) % a = 0
           /\ v % a = 0 => AlignUp(v, a) = v
<1>1. PICK w \in Nat : w = v + a - 1
  OBVIOUS
<1>2. PICK q, r \in Nat : w = a * q + r /\ r < a /\ w \div a = q
  BY DivisionIs
<1>3. AlignUp(v, a) = a * q
  BY <1>1, <1>2 DEF AlignUp
<1>4. PICK u \in Nat : u = a * q
  BY <1>2
<1>5. u \in Nat /\ v <= u
  BY <1>1, <1>2, <1>4
<1>6. u % a = 0
  BY <1>4, MultipleIs
<1>7. ASSUME v % a = 0
      PROVE  u = v
  <2>1. PICK p \in Nat : v = a * p
    BY <1>7, DividesIs
  <2>2. w = a * p + (a - 1)
    BY <1>1, <2>1
  <2>3. p = q
    <3>1. CASE p < q
      <4>1. a * (p + 1) <= a * q
        BY <3>1
      <4>2. QED
        BY <1>2, <2>2, <4>1
    <3>2. CASE q < p
      <4>1. a * (q + 1) <= a * p
        BY <3>2
      <4>2. QED
        BY <1>2, <2>2, <4>1
    <3>3. QED
      BY <3>1, <3>2
  <2>4. QED
    BY <1>4, <2>1, <2>3
<1>8. QED
  BY <1>3, <1>4, <1>5, <1>6, <1>7

LEMMA AlignmentFacts == Alignments \subseteq Nat \ {0} /\ 1 \in Alignments
<1>1. \A t \in Scalars : t[2] \in Nat \ {0} /\ t[4] \in Nat \ {0}
  BY LayoutAssumption
<1>2. \A a \in Aligns : a \in Nat \ {0}
  BY LayoutAssumption
<1>3. QED
  BY <1>1, <1>2 DEF Alignments

\* Of two alignments the smaller one divides the other.
LEMMA SmallerDivides ==
    ASSUME NEW a \in Alignments, NEW b \in Alignments, a <= b
    PROVE  b % a = 0
<1>1. a \in Nat \ {0} /\ b \in Nat \ {0}
  BY AlignmentFacts
<1>2. CASE b % a = 0
  BY <1>2
<1>3. CASE a % b = 0
  <2>1. PICK q \in Nat : a = b * q
    BY <1>1, <1>3, DividesIs
  <2>2. q # 0
    BY <1>1, <2>1
  <2>3. CASE q = 1
    <3>1. a = b * 1
      BY <2>1, <2>3
    <3>2. QED
      BY <1>1, <3>1, MultipleIs
  <2>4. CASE q > 1
    <3>1. b * 2 <= b * q
      BY <1>1, <2>4
    <3>2. QED
      BY <1>1, <2>1, <3>1
  <2>5. QED
    BY <2>2, <2>3, <2>4
<1>4. \A x, y \in Alignments : x % y = 0 \/ y % x = 0
  BY LayoutAssumption
<1>5. QED
  BY <1>2, <1>3, <1>4

-------------------------------------------------------------------------------
(* What LLVM makes of a list.                                               *)

\* A type has a size and an alignment in both data layouts.
IsType(t) ==
    \A dl \in {0, 1} : /\ SizeIn(t, dl) \in Nat \ {0} /\ AlignIn(t, dl) \in Alignments
                       /\ SizeIn(t, dl) % AlignIn(t, dl) = 0

LEMMA TypeParts ==
    ASSUME NEW t
    PROVE  /\ SizeIn(t, 0) = SizeOf(t) /\ AlignIn(t, 0) = AlignOf(t)
           /\ SizeIn(t, 1) = t[3] /\ AlignIn(t, 1) = t[4]
<1>1. 2 * 0 + 1 = 1 /\ 2 * 0 + 2 = 2 /\ 2 * 1 + 1 = 3 /\ 2 * 1 + 2 = 4
  OBVIOUS
<1>2. QED
  BY <1>1 DEF SizeIn, AlignIn, SizeOf, AlignOf

LEMMA ScalarIsType ==
    ASSUME NEW t \in Scalars
    PROVE  IsType(t)
<1>1. /\ t[1] \in Nat \ {0} /\ t[3] \in Nat \ {0} /\ t[2] \in Alignments /\ t[4] \in Alignments
      /\ t[1] % t[2] = 0 /\ t[3] % t[4] = 0
  BY LayoutAssumption DEF Alignments
<1>2. QED
  BY <1>1, TypeParts DEF IsType, SizeOf, AlignOf

LEMMA BytesIsType ==
    ASSUME NEW n \in Nat \ {0}
    PROVE  IsType(Bytes(n)) /\ SizeOf(Bytes(n)) = n /\ AlignOf(Bytes(n)) = 1
<1>1. /\ Bytes(n)[1] = n /\ Bytes(n)[2] = 1 /\ Bytes(n)[3] = n /\ Bytes(n)[4] = 1
  BY DEF Bytes
<1>2. n % 1 = 0
  OBVIOUS
<1>3. QED
  BY <1>1, <1>2, TypeParts, AlignmentFacts DEF IsType, SizeOf, AlignOf

\* The ends of the elements, one after the other; al has their alignments.
Ends(list, al, dl, g) ==
    g = [k \in 0..Len(list) |->
            IF k = 0 THEN 0 ELSE AlignUp(g[k - 1], al[k]) + SizeIn(list[k].type, dl)]

LEMMA EndsExist ==
    ASSUME NEW list, Len(list) \in Nat, NEW al, NEW dl
    PROVE  \E g : Ends(list, al, dl, g)
<1>1. PICK n \in Nat : n = Len(list)
  OBVIOUS
<1> DEFINE Done(g, m) ==
             /\ g = [k \in 0..n |-> g[k]]
             /\ \A k \in 0..m : g[k] = IF k = 0 THEN 0
                                       ELSE AlignUp(g[k - 1], al[k]) + SizeIn(list[k].type, dl)
           Bad == {m \in 0..n : ~(\E g : Done(g, m))}
<1>2. Bad = {}
  <2>1. SUFFICES ASSUME Bad # {} PROVE FALSE
    OBVIOUS
  <2>2. Bad \in SUBSET Nat
    BY <1>1
  <2>3. PICK m \in Bad : \A j \in Bad : m <= j
    <3> HIDE DEF Bad
    <3>1. QED
      BY <2>1, <2>2, FirstExists
  <2>4. m \in 0..n /\ m \in Nat
    BY <1>1
  <2>5. CASE m = 0
    <3>1. PICK g : g = [k \in 0..n |-> 0]
      OBVIOUS
    <3>2. g = [k \in 0..n |-> g[k]] /\ g[0] = 0
      BY <1>1, <3>1
    <3>3. Done(g, m)
      BY <2>5, <3>2
    <3>4. QED
      BY <3>3
  <2>6. CASE m > 0
    <3>1. m - 1 \in 0..n /\ m - 1 \notin Bad
      BY <1>1, <2>3, <2>4, <2>6
    <3>2. PICK g : Done(g, m - 1)
      BY <1>1, <3>1
    <3>3. PICK w : w = AlignUp(g[m - 1], al[m]) + SizeIn(list[m].type, dl)
      OBVIOUS
    <3>4. PICK h : h = [k \in 0..n |-> IF k = m THEN w ELSE g[k]]
      OBVIOUS
    <3>5. h = [k \in 0..n |-> h[k]] /\ h[m] = w
      BY <2>4, <3>4
    <3>6. \A k \in 0..(m - 1) : h[k] = g[k]
      BY <2>4, <3>4
    <3>7. ASSUME NEW k \in 0..m
          PROVE  h[k] = IF k = 0 THEN 0
                        ELSE AlignUp(h[k - 1], al[k]) + SizeIn(list[k].type, dl)
      <4>1. CASE k = m
        <5>1. m - 1 \in 0..(m - 1)
          BY <2>4, <2>6
        <5>2. h[m - 1] = g[m - 1]
          BY <3>6, <5>1
        <5>3. QED
          BY <2>6, <3>3, <3>5, <4>1, <5>2
      <4>2. CASE k # m
        <5>1. k \in 0..(m - 1) /\ (k # 0 => k - 1 \in 0..(m - 1))
          BY <2>4, <4>2
        <5>2. h[k] = g[k] /\ (k # 0 => h[k - 1] = g[k - 1])
          BY <3>6, <5>1
        <5>3. g[k] = IF k = 0 THEN 0
                     ELSE AlignUp(g[k - 1], al[k]) + SizeIn(list[k].type, dl)
          BY <3>2, <5>1
        <5>4. QED
          BY <5>2, <5>3
      <4>3. QED
        BY <4>1, <4>2
    <3>8. Done(h, m)
      BY <3>5, <3>7
    <3>9. QED
      BY <3>8
  <2>7. QED
    BY <2>4, <2>5, <2>6
<1>3. PICK g : Done(g, n)
  <2>1. n \in 0..n /\ n \notin Bad
    BY <1>1, <1>2
  <2>2. QED
    BY <2>1
<1>4. g = [k \in 0..n |-> IF k = 0 THEN 0
                          ELSE AlignUp(g[k - 1], al[k]) + SizeIn(list[k].type, dl)]
  BY <1>3
<1>5. QED
  BY <1>1, <1>4 DEF Ends

LEMMA EndsOfIs ==
    ASSUME NEW list, NEW n \in Nat, n = Len(list), NEW al, NEW dl, NEW g, g = EndsOf(list, al, dl)
    PROVE  Ends(list, al, dl, g)
<1>1. \E h : Ends(list, al, dl, h)
  BY EndsExist
<1>2. g = CHOOSE h : Ends(list, al, dl, h)
  BY DEF EndsOf, Ends
<1>3. QED
  BY <1>1, <1>2

\* The greatest of the alignments.
LEMMA MaxIs ==
    ASSUME NEW n \in Nat, NEW al \in [1..n -> Alignments], NEW m,
           m = Max({1} \cup Range(al))
    PROVE  /\ m \in {1} \cup Range(al) /\ m \in Alignments /\ 1 <= m
           /\ \A k \in 1..n : al[k] <= m
<1> DEFINE Bad == {i \in 0..n : ~(\E x \in {1} \cup Range(al) :
                                     1 <= x /\ \A k \in 1..i : al[k] <= x)}
<1>0. /\ Range(al) = {al[k] : k \in 1..n}
      /\ \A k \in 1..n : al[k] \in Range(al) /\ al[k] \in Nat \ {0}
  BY AlignmentFacts DEF Range
<1>1. Bad = {}
  <2>1. SUFFICES ASSUME Bad # {} PROVE FALSE
    OBVIOUS
  <2>2. Bad \in SUBSET Nat
    OBVIOUS
  <2>3. PICK i \in Bad : \A j \in Bad : i <= j
    <3> HIDE DEF Bad
    <3>1. QED
      BY <2>1, <2>2, FirstExists
  <2>4. i \in 0..n /\ i \in Nat
    OBVIOUS
  <2>5. i # 0
    <3>1. 1 \in {1} \cup Range(al) /\ 1 <= 1 /\ \A k \in 1..0 : al[k] <= 1
      OBVIOUS
    <3>2. 0 \notin Bad
      BY <3>1
    <3>3. QED
      BY <3>2
  <2>6. i - 1 \in 0..n /\ i - 1 \notin Bad
    <3>1. i - 1 \in 0..n /\ ~(i <= i - 1)
      BY <2>4, <2>5
    <3>2. QED
      BY <2>3, <3>1
  <2>7. PICK x \in {1} \cup Range(al) : 1 <= x /\ \A k \in 1..(i - 1) : al[k] <= x
    BY <2>6
  <2>8. i \in 1..n /\ \A k \in 1..i : k = i \/ k \in 1..(i - 1)
    BY <2>4, <2>5
  <2>9. x \in Nat
    BY <1>0, <2>7
  <2>13. ~(\E y \in {1} \cup Range(al) : 1 <= y /\ \A k \in 1..i : al[k] <= y)
    OBVIOUS
  <2>10. CASE al[i] <= x
    <3>1. \A k \in 1..i : al[k] <= x
      BY <2>7, <2>8, <2>10
    <3>2. QED
      BY <2>7, <2>13, <3>1
  <2>11. CASE x < al[i]
    <3>1. ASSUME NEW k \in 1..i
          PROVE  al[k] <= al[i]
      <4>1. al[i] \in Nat /\ al[k] \in Nat
        BY <1>0, <2>4, <2>8
      <4>2. CASE k = i
        BY <4>1, <4>2
      <4>3. CASE k \in 1..(i - 1)
        BY <2>7, <2>9, <2>11, <4>1, <4>3
      <4>4. QED
        BY <2>8, <4>2, <4>3
    <3>2. al[i] \in {1} \cup Range(al) /\ 1 <= al[i]
      BY <1>0, <2>8
    <3>3. QED
      BY <2>13, <3>1, <3>2
  <2>12. QED
    BY <1>0, <2>8, <2>9, <2>10, <2>11
<1>2. PICK x \in {1} \cup Range(al) : 1 <= x /\ \A k \in 1..n : al[k] <= x
  <2>1. n \notin Bad
    <3> HIDE DEF Bad
    <3>1. QED
      BY <1>1
  <2>2. n \in 0..n
    OBVIOUS
  <2>3. QED
    BY <2>1, <2>2
<1>3. \A y \in {1} \cup Range(al) : x >= y
  BY <1>0, <1>2
<1>4. m \in {1} \cup Range(al) /\ \A y \in {1} \cup Range(al) : m >= y
  BY <1>3 DEF Max
<1>5. m \in Alignments
  BY <1>0, <1>4, AlignmentFacts
<1>6. QED
  BY <1>0, <1>4, <1>5, AlignmentFacts

\* A list of entries of types.
IsTyped(list) == IsList(list) /\ \A k \in 1..Len(list) : IsType(list[k].type)

\* l is the layout of a list whose elements end at g.
LaidAt(list, packed, dl, l, g) ==
    /\ g[0] = 0 /\ \A k \in 0..Len(list) : g[k] \in Nat
    /\ DOMAIN l.at = DOMAIN list
    /\ l.align \in Alignments /\ (packed => l.align = 1)
    /\ l.align # 1 => \E k \in 1..Len(list) : l.align = AlignIn(list[k].type, dl)
    /\ \A k \in 1..Len(list) :
          /\ l.at[k] \in Nat /\ g[k - 1] <= l.at[k]
          /\ l.at[k] = AlignUp(g[k - 1], IF packed THEN 1 ELSE AlignIn(list[k].type, dl))
          /\ g[k] = l.at[k] + SizeIn(list[k].type, dl)
          /\ ~packed => AlignIn(list[k].type, dl) <= l.align
    /\ l.size = AlignUp(g[Len(list)], l.align) /\ l.size \in Nat
    /\ g[Len(list)] <= l.size /\ l.size % l.align = 0

\* n elements, with their alignments, and the ends of them.
Elements(list, n, al, dl) ==
    /\ n \in Nat /\ n = Len(list) /\ dl \in {0, 1} /\ al \in [1..n -> Alignments]
    /\ \A k \in 1..n : SizeIn(list[k].type, dl) \in Nat
Ended(list, n, al, dl, g) ==
    /\ g[0] = 0 /\ \A k \in 0..n : g[k] \in Nat
    /\ \A k \in 1..n : g[k] = AlignUp(g[k - 1], al[k]) + SizeIn(list[k].type, dl)

LEMMA EndsAreNat ==
    ASSUME NEW list, NEW n, NEW al, NEW dl, NEW g, Elements(list, n, al, dl), Ends(list, al, dl, g)
    PROVE  Ended(list, n, al, dl, g)
<1>0. /\ n \in Nat /\ n = Len(list) /\ dl \in {0, 1} /\ al \in [1..n -> Alignments]
      /\ \A k \in 1..n : SizeIn(list[k].type, dl) \in Nat
  BY DEF Elements
<1>1. /\ g[0] = 0
      /\ \A k \in 1..n : g[k] = AlignUp(g[k - 1], al[k]) + SizeIn(list[k].type, dl)
  BY <1>0 DEF Ends
<1> DEFINE Bad == {k \in 0..n : g[k] \notin Nat}
<1>2. Bad = {}
  <2>1. SUFFICES ASSUME Bad # {} PROVE FALSE
    OBVIOUS
  <2>2. Bad \in SUBSET Nat
    BY <1>0
  <2>3. PICK i \in Bad : \A j \in Bad : i <= j
    <3> HIDE DEF Bad
    <3>1. QED
      BY <2>1, <2>2, FirstExists
  <2>4. i \in 0..n /\ i \in Nat /\ g[i] \notin Nat /\ i # 0
    BY <1>0, <1>1
  <2>5. i - 1 \in 0..n /\ i - 1 \notin Bad /\ i \in 1..n
    BY <1>0, <2>3, <2>4
  <2>6. g[i - 1] \in Nat
    BY <2>5
  <2>7. AlignUp(g[i - 1], al[i]) \in Nat
    <3>1. PICK v, a : v = g[i - 1] /\ a = al[i]
      OBVIOUS
    <3>2. v \in Nat /\ a \in Nat \ {0}
      BY <1>0, <2>5, <2>6, <3>1, AlignmentFacts
    <3>3. AlignUp(v, a) \in Nat
      BY <3>2, AlignUpFacts
    <3>4. QED
      BY <3>1, <3>3
  <2>8. g[i] \in Nat
    BY <1>0, <1>1, <2>5, <2>7
  <2>9. QED
    BY <2>4, <2>8
<1>3. QED
  BY <1>1, <1>2 DEF Ended

LEMMA LaidOutIs ==
    ASSUME NEW list, IsTyped(list), NEW packed \in BOOLEAN, NEW dl \in {0, 1},
           NEW l, l = LaidOut(list, packed, dl)
    PROVE  \E g : LaidAt(list, packed, dl, l, g)
<1>1. PICK n \in Nat : n = Len(list) /\ DOMAIN list = 1..n
  BY AppendFacts DEF IsTyped
<1>2. PICK al : al = [k \in DOMAIN list |-> IF packed THEN 1 ELSE AlignIn(list[k].type, dl)]
  OBVIOUS
<1>3. \A k \in 1..n : /\ SizeIn(list[k].type, dl) \in Nat
                      /\ AlignIn(list[k].type, dl) \in Alignments
  BY <1>1 DEF IsTyped, IsType
<1>4. al \in [1..n -> Alignments]
  BY <1>1, <1>2, <1>3, AlignmentFacts
<1>5. PICK g : /\ Ends(list, al, dl, g)
               /\ l = [at    |-> [k \in DOMAIN list |-> AlignUp(g[k - 1], al[k])],
                       size  |-> AlignUp(g[Len(list)], Max({1} \cup Range(al))),
                       align |-> Max({1} \cup Range(al))]
  <2>1. PICK g : g = EndsOf(list, al, dl)
    OBVIOUS
  <2>2. Ends(list, al, dl, g)
    BY <1>1, <2>1, EndsOfIs
  <2>3. l = [at    |-> [k \in DOMAIN list |-> AlignUp(EndsOf(list, al, dl)[k - 1], al[k])],
             size  |-> AlignUp(EndsOf(list, al, dl)[Len(list)], Max({1} \cup Range(al))),
             align |-> Max({1} \cup Range(al))]
    BY <1>2, Zenon DEF LaidOut
  <2>4. QED
    BY <2>1, <2>2, <2>3
<1>6. /\ g[0] = 0 /\ \A k \in 0..n : g[k] \in Nat
      /\ \A k \in 1..n : g[k] = AlignUp(g[k - 1], al[k]) + SizeIn(list[k].type, dl)
  <2>1. Ends(list, al, dl, g)
    BY <1>5
  <2>2. Elements(list, n, al, dl)
    BY <1>1, <1>3, <1>4 DEF Elements
  <2>3. Ended(list, n, al, dl, g)
    BY <2>1, <2>2, EndsAreNat
  <2>4. QED
    BY <2>3 DEF Ended
<1>7. PICK m : m = Max({1} \cup Range(al))
  OBVIOUS
<1>8. /\ m \in {1} \cup Range(al) /\ m \in Alignments /\ 1 <= m
      /\ \A k \in 1..n : al[k] <= m
  BY <1>4, <1>7, MaxIs
<1>9. /\ l.align = m /\ l.size = AlignUp(g[n], m) /\ DOMAIN l.at = DOMAIN list
      /\ \A k \in 1..n : l.at[k] = AlignUp(g[k - 1], al[k])
  BY <1>1, <1>5, <1>7
<1>10. packed => m = 1
  <2>1. packed => Range(al) \subseteq {1}
    BY <1>2 DEF Range
  <2>2. QED
    BY <1>8, <2>1
<1>11. ASSUME NEW k \in 1..n
       PROVE  /\ l.at[k] \in Nat /\ g[k - 1] <= l.at[k]
              /\ l.at[k] = AlignUp(g[k - 1], IF packed THEN 1 ELSE AlignIn(list[k].type, dl))
              /\ g[k] = l.at[k] + SizeIn(list[k].type, dl)
              /\ ~packed => AlignIn(list[k].type, dl) <= l.align
  <2>1. k - 1 \in 0..n
    OBVIOUS
  <2>2. PICK v, a : v = g[k - 1] /\ a = al[k]
    OBVIOUS
  <2>3. v \in Nat /\ a \in Nat \ {0}
    BY <1>4, <1>6, <2>1, <2>2, AlignmentFacts
  <2>4. AlignUp(v, a) \in Nat /\ v <= AlignUp(v, a)
    BY <2>3, AlignUpFacts
  <2>5. a = IF packed THEN 1 ELSE AlignIn(list[k].type, dl)
    BY <1>1, <1>2, <2>2
  <2>6. l.at[k] = AlignUp(v, a) /\ g[k] = l.at[k] + SizeIn(list[k].type, dl) /\ a <= m
    BY <1>6, <1>8, <1>9, <2>2
  <2>7. QED
    BY <1>9, <2>2, <2>4, <2>5, <2>6
<1>12. l.size \in Nat /\ g[n] <= l.size /\ l.size % m = 0
  <2>1. PICK v : v = g[n]
    OBVIOUS
  <2>2. v \in Nat /\ m \in Nat \ {0}
    BY <1>1, <1>6, <1>8, <2>1, AlignmentFacts
  <2>3. AlignUp(v, m) \in Nat /\ v <= AlignUp(v, m) /\ AlignUp(v, m) % m = 0
    BY <2>2, AlignUpFacts
  <2>4. QED
    BY <1>9, <2>1, <2>3
<1>13. m # 1 => \E k \in 1..n : m = AlignIn(list[k].type, dl)
  <2>1. m # 1 => m \in Range(al)
    BY <1>8
  <2>2. m \in Range(al) => \E k \in 1..n : m = al[k]
    BY <1>4 DEF Range
  <2>3. QED
    BY <1>1, <1>2, <1>10, <2>1, <2>2
<1>14. QED
  BY <1>1, <1>6, <1>8, <1>9, <1>10, <1>11, <1>12, <1>13 DEF LaidAt

\* Elements do not overlap, and end before the end.
LEMMA LaidApart ==
    ASSUME NEW list, IsTyped(list), NEW packed \in BOOLEAN, NEW dl \in {0, 1},
           NEW l, NEW g, LaidAt(list, packed, dl, l, g)
    PROVE  /\ \A i, j \in 1..Len(list) : i < j => l.at[i] + SizeIn(list[i].type, dl) <= l.at[j]
           /\ \A i \in 1..Len(list) : l.at[i] + SizeIn(list[i].type, dl) <= l.size
<1>1. PICK n \in Nat : n = Len(list)
  BY AppendFacts DEF IsTyped
<1>2. \A k \in 1..n : SizeIn(list[k].type, dl) \in Nat
  BY <1>1 DEF IsTyped, IsType
<1>3. /\ \A k \in 0..n : g[k] \in Nat
      /\ \A k \in 1..n : /\ l.at[k] \in Nat /\ g[k - 1] <= l.at[k]
                         /\ g[k] = l.at[k] + SizeIn(list[k].type, dl)
      /\ g[n] <= l.size /\ l.size \in Nat
  BY <1>1 DEF LaidAt
<1>4. \A k \in 1..n : g[k - 1] <= g[k]
  <2>1. ASSUME NEW k \in 1..n
        PROVE  g[k - 1] <= g[k]
    <3>1. g[k - 1] \in Nat /\ g[k] \in Nat
      BY <1>3
    <3>2. QED
      BY <1>2, <1>3, <3>1
  <2>2. QED
    BY <2>1
<1>5. ASSUME NEW i \in 0..n
      PROVE  \A j \in 0..n : i <= j => g[i] <= g[j]
  <2> DEFINE Bad == {j \in 0..n : i <= j /\ ~(g[i] <= g[j])}
  <2>1. Bad = {}
    <3>1. SUFFICES ASSUME Bad # {} PROVE FALSE
      OBVIOUS
    <3>2. Bad \in SUBSET Nat
      OBVIOUS
    <3>3. PICK j \in Bad : \A k \in Bad : j <= k
      <4> HIDE DEF Bad
      <4>1. QED
        BY <3>1, <3>2, FirstExists
    <3>4. j \in 0..n /\ i <= j /\ ~(g[i] <= g[j])
      OBVIOUS
    <3>5. g[i] \in Nat /\ g[j] \in Nat
      BY <1>3, <3>4
    <3>6. j # i
      BY <3>4, <3>5
    <3>7. j \in 1..n /\ j - 1 \in 0..n /\ i <= j - 1 /\ j - 1 \notin Bad
      BY <3>3, <3>4, <3>6
    <3>8. g[i] <= g[j - 1] /\ g[j - 1] \in Nat
      BY <1>3, <3>7
    <3>9. g[j - 1] <= g[j]
      BY <1>4, <3>7
    <3>10. QED
      BY <3>4, <3>5, <3>8, <3>9
  <2>2. QED
    BY <2>1
<1>6. ASSUME NEW i \in 1..n, NEW j \in 1..n, i < j
      PROVE  l.at[i] + SizeIn(list[i].type, dl) <= l.at[j]
  <2>1. i \in 0..n /\ j - 1 \in 0..n /\ i <= j - 1
    BY <1>6
  <2>2. g[i] <= g[j - 1] /\ g[i] \in Nat /\ g[j - 1] \in Nat
    BY <1>3, <1>5, <2>1
  <2>3. g[j - 1] <= l.at[j] /\ l.at[j] \in Nat /\ g[i] = l.at[i] + SizeIn(list[i].type, dl)
    BY <1>3
  <2>4. QED
    BY <2>2, <2>3
<1>7. ASSUME NEW i \in 1..n
      PROVE  l.at[i] + SizeIn(list[i].type, dl) <= l.size
  <2>1. i \in 0..n /\ n \in 0..n /\ i <= n
    OBVIOUS
  <2>2. g[i] <= g[n] /\ g[i] \in Nat /\ g[n] \in Nat
    BY <1>3, <1>5, <2>1
  <2>3. QED
    BY <1>3, <2>2
<1>8. QED
  BY <1>1, <1>6, <1>7

\* What LLVM makes of a list is a type.
LEMMA LaidIsType ==
    ASSUME NEW list, IsTyped(list), list # <<>>, NEW packed \in BOOLEAN,
           NEW here, here = LaidOut(list, packed, 0),
           NEW there, there = LaidOut(list, packed, 1)
    PROVE  IsType(<<here.size, here.align, there.size, there.align>>)
<1>1. PICK t : t = <<here.size, here.align, there.size, there.align>>
  OBVIOUS
<1>2. t[1] = here.size /\ t[2] = here.align /\ t[3] = there.size /\ t[4] = there.align
  BY <1>1
<1>3. ASSUME NEW dl \in {0, 1}, NEW l, l = LaidOut(list, packed, dl)
      PROVE  l.size \in Nat \ {0} /\ l.align \in Alignments /\ l.size % l.align = 0
  <2>1. PICK g : LaidAt(list, packed, dl, l, g)
    BY <1>3, LaidOutIs
  <2>2. Len(list) \in Nat /\ Len(list) # 0
    <3>1. PICK S : list \in Seq(S)
      BY DEF IsTyped, IsList
    <3>2. QED
      BY <3>1
  <2>3. 1 \in 1..Len(list) /\ l.at[1] + SizeIn(list[1].type, dl) <= l.size
    BY <2>1, <2>2, LaidApart
  <2>4. l.at[1] \in Nat /\ SizeIn(list[1].type, dl) \in Nat \ {0}
    BY <2>1, <2>3 DEF LaidAt, IsTyped, IsType
  <2>5. l.size \in Nat /\ l.align \in Alignments /\ l.size % l.align = 0
    BY <2>1 DEF LaidAt
  <2>6. QED
    BY <2>3, <2>4, <2>5
<1>4. /\ here.size \in Nat \ {0} /\ here.align \in Alignments /\ here.size % here.align = 0
      /\ there.size \in Nat \ {0} /\ there.align \in Alignments
      /\ there.size % there.align = 0
  BY <1>3
<1>5. IsType(t)
  BY <1>2, <1>4, TypeParts DEF IsType, SizeOf, AlignOf
<1>6. QED
  BY <1>1, <1>5

-------------------------------------------------------------------------------
(* The entries of the loop, and the members in them.                       *)

\* The entries of a list adjoin, from 0 to cursor, and each is aligned as its type
\* asks, unless they are packed.
EndOf(list, k) == IF k = 0 THEN 0 ELSE list[k].at + SizeOf(list[k].type)
EntryFits(list, packed, align, k) ==
    /\ list[k].at \in Nat /\ list[k].at = EndOf(list, k - 1)
    /\ ~packed => list[k].at % AlignOf(list[k].type) = 0 /\ AlignOf(list[k].type) <= align
Adjoining(list, packed, cursor, align) ==
    /\ IsTyped(list) /\ cursor \in Nat /\ align \in Alignments
    /\ \A k \in 1..Len(list) : EntryFits(list, packed, align, k)
    /\ cursor = EndOf(list, Len(list))

LEMMA TypeFacts ==
    ASSUME NEW t, IsType(t)
    PROVE  /\ SizeOf(t) \in Nat \ {0} /\ AlignOf(t) \in Alignments
           /\ AlignOf(t) \in Nat \ {0} /\ SizeOf(t) % AlignOf(t) = 0
<1>1. /\ SizeIn(t, 0) \in Nat \ {0} /\ AlignIn(t, 0) \in Alignments
      /\ SizeIn(t, 0) % AlignIn(t, 0) = 0
  BY DEF IsType
<1>2. QED
  BY <1>1, TypeParts, AlignmentFacts

\* Another entry, at the end of the last one.
LEMMA AdjoinAppend ==
    ASSUME NEW list, NEW packed, NEW cursor, NEW align, Adjoining(list, packed, cursor, align),
           NEW e, IsType(e.type), e.at = cursor, NEW most \in Alignments, align <= most,
           ~packed => cursor % AlignOf(e.type) = 0 /\ AlignOf(e.type) <= most
    PROVE  Adjoining(Append(list, e), packed, cursor + SizeOf(e.type), most)
<1>0. PICK new : new = Append(list, e)
  OBVIOUS
<1>1. PICK n \in Nat : n = Len(list)
  BY AppendFacts DEF Adjoining, IsTyped
<1>2. /\ IsList(new) /\ Len(new) = n + 1 /\ new[n + 1] = e
      /\ \A k \in 1..n : new[k] = list[k]
  BY <1>0, <1>1, AppendFacts DEF Adjoining, IsTyped
<1>3. \A k \in 1..(n + 1) : k \in 1..n \/ k = n + 1
  BY <1>1
<1>4. IsTyped(new)
  BY <1>1, <1>2, <1>3 DEF Adjoining, IsTyped
<1>5. cursor \in Nat /\ SizeOf(e.type) \in Nat /\ align \in Nat /\ most \in Nat
  BY TypeFacts, AlignmentFacts DEF Adjoining
<1>6. \A k \in 0..n : EndOf(new, k) = EndOf(list, k)
  BY <1>1, <1>2 DEF EndOf
<1>7. ASSUME NEW k \in 1..(n + 1)
      PROVE  EntryFits(new, packed, most, k)
  <2>1. k - 1 \in 0..n
    BY <1>1
  <2>2. CASE k = n + 1
    <3>1. new[k] = e /\ k - 1 = n
      BY <1>1, <1>2, <2>2
    <3>2. EndOf(new, k - 1) = cursor
      BY <1>1, <1>6, <2>1, <3>1 DEF Adjoining
    <3>3. QED
      BY <1>5, <3>1, <3>2 DEF EntryFits
  <2>3. CASE k \in 1..n
    <3>1. new[k] = list[k] /\ EntryFits(list, packed, align, k)
      BY <1>1, <1>2, <2>3 DEF Adjoining
    <3>2. IsType(list[k].type)
      BY <1>1, <2>3 DEF Adjoining, IsTyped
    <3>3. AlignOf(list[k].type) \in Nat
      BY <3>2, TypeFacts
    <3>4. QED
      BY <1>5, <1>6, <2>1, <3>1, <3>3 DEF EntryFits
  <2>4. QED
    BY <1>3, <2>2, <2>3
<1>8. EndOf(new, n + 1) = cursor + SizeOf(e.type)
  BY <1>1, <1>2 DEF EndOf
<1>9. QED
  BY <1>0, <1>1, <1>2, <1>4, <1>5, <1>7, <1>8 DEF Adjoining

\* Padding up to off.
LEMMA AdjoinPadded ==
    ASSUME NEW b, NEW packed, Adjoining(b.padded, packed, b.cursor, b.align),
           NEW off \in Nat, b.cursor <= off
    PROVE  Adjoining(PaddedTo(b, off), packed, off, b.align)
<1>1. b.cursor \in Nat /\ b.align \in Alignments /\ b.align \in Nat \ {0}
  BY AlignmentFacts DEF Adjoining
<1>2. CASE off = b.cursor
  BY <1>2 DEF PaddedTo
<1>3. CASE off # b.cursor
  <2>1. PICK n \in Nat \ {0} : n = off - b.cursor
    BY <1>1, <1>3
  <2>2. PICK e : e = Entry(0, Bytes(n), b.cursor)
    OBVIOUS
  <2>3. e.type = Bytes(n) /\ e.at = b.cursor
    BY <2>2 DEF Entry
  <2>4. IsType(e.type) /\ SizeOf(e.type) = n /\ AlignOf(e.type) = 1
    BY <2>3, BytesIsType
  <2>5. b.cursor % 1 = 0 /\ 1 <= b.align /\ b.align <= b.align
    BY <1>1
  <2>6. Adjoining(Append(b.padded, e), packed, b.cursor + SizeOf(e.type), b.align)
    BY <1>1, <2>3, <2>4, <2>5, AdjoinAppend
  <2>7. PaddedTo(b, off) = Append(b.padded, e) /\ b.cursor + SizeOf(e.type) = off
    BY <1>1, <1>3, <2>1, <2>2, <2>4 DEF PaddedTo
  <2>8. QED
    BY <2>6, <2>7
<1>4. QED
  BY <1>2, <1>3

\* An entry of type t may be put at off, and most is an alignment after that.
MayPush(b, packed, t, off, most) ==
    /\ IsBuild(b) /\ Adjoining(b.padded, packed, b.cursor, b.align)
    /\ IsType(t) /\ off \in Nat /\ b.cursor <= off
    /\ most \in Alignments /\ b.align <= most
    /\ ~packed => off % AlignOf(t) = 0 /\ AlignOf(t) <= most

LEMMA AdjoinPushed ==
    ASSUME NEW b, NEW packed, NEW t, NEW off, NEW most, MayPush(b, packed, t, off, most),
           NEW f, NEW p, p = Pushed(b, f, t, off)
    PROVE  Adjoining(p.padded, packed, p.cursor, most)
<1>0. /\ IsBuild(b) /\ Adjoining(b.padded, packed, b.cursor, b.align)
      /\ IsType(t) /\ off \in Nat /\ b.cursor <= off
      /\ most \in Alignments /\ b.align <= most
      /\ ~packed => off % AlignOf(t) = 0 /\ AlignOf(t) <= most
  BY DEF MayPush
<1>1. PICK q : q = PaddedTo(b, off)
  OBVIOUS
<1>2. PICK e : e = Entry(f, t, off)
  OBVIOUS
<1>3. p.padded = Append(q, e) /\ p.cursor = off + SizeOf(t) /\ p.align = b.align
  BY <1>0, <1>1, <1>2 DEF IsBuild, Pushed
<1>4. e.type = t /\ e.at = off
  BY <1>2 DEF Entry
<1>5. Adjoining(q, packed, off, b.align)
  BY <1>0, <1>1, AdjoinPadded
<1>6. Adjoining(Append(q, e), packed, off + SizeOf(e.type), most)
  BY <1>0, <1>4, <1>5, AdjoinAppend
<1>7. QED
  BY <1>3, <1>4, <1>6

\* LLVM puts every entry of such a list where it should be, and the size is the
\* cursor if that is aligned.
LEMMA LaidExact ==
    ASSUME NEW list, NEW packed \in BOOLEAN, NEW cursor, NEW align,
           Adjoining(list, packed, cursor, align), cursor % align = 0,
           NEW l, l = LaidOut(list, packed, 0)
    PROVE  /\ \A k \in 1..Len(list) : l.at[k] = list[k].at
           /\ l.size = cursor /\ l.align \in Alignments /\ align % l.align = 0
<1>1. IsTyped(list) /\ cursor \in Nat /\ align \in Alignments
  BY DEF Adjoining
<1>2. PICK g : LaidAt(list, packed, 0, l, g)
  BY <1>1, LaidOutIs
<1>3. PICK n \in Nat : n = Len(list)
  BY <1>1, AppendFacts DEF IsTyped
<1>4. ASSUME NEW k \in 1..n, g[k - 1] = EndOf(list, k - 1)
      PROVE  l.at[k] = list[k].at /\ g[k] = EndOf(list, k)
  <2>1. PICK t : t = list[k].type
    OBVIOUS
  <2>2. IsType(t) /\ SizeIn(t, 0) = SizeOf(t) /\ AlignIn(t, 0) = AlignOf(t)
    BY <1>1, <1>3, <2>1, TypeParts DEF IsTyped
  <2>3. EntryFits(list, packed, align, k)
    BY <1>3 DEF Adjoining
  <2>4. PICK a : a = IF packed THEN 1 ELSE AlignOf(t)
    OBVIOUS
  <2>5. PICK v : v = list[k].at
    OBVIOUS
  <2>6. v \in Nat /\ a \in Nat \ {0} /\ v % a = 0 /\ g[k - 1] = v
    BY <1>4, <2>1, <2>2, <2>3, <2>4, <2>5, TypeFacts DEF EntryFits
  <2>7. AlignUp(v, a) = v
    BY <2>6, AlignUpFacts
  <2>8. l.at[k] = AlignUp(g[k - 1], a) /\ g[k] = l.at[k] + SizeOf(t)
    BY <1>2, <1>3, <2>1, <2>2, <2>4 DEF LaidAt
  <2>9. l.at[k] = v
    BY <2>6, <2>7, <2>8
  <2>10. QED
    BY <2>1, <2>5, <2>8, <2>9 DEF EndOf
<1> DEFINE Bad == {k \in 0..n : g[k] # EndOf(list, k)}
<1>5. Bad = {}
  <2>1. SUFFICES ASSUME Bad # {} PROVE FALSE
    OBVIOUS
  <2>2. Bad \in SUBSET Nat
    OBVIOUS
  <2>3. PICK k \in Bad : \A j \in Bad : k <= j
    <3> HIDE DEF Bad
    <3>1. QED
      BY <2>1, <2>2, FirstExists
  <2>4. k \in 0..n /\ g[k] # EndOf(list, k)
    OBVIOUS
  <2>5. k # 0
    BY <1>2, <2>4 DEF LaidAt, EndOf
  <2>6. k \in 1..n /\ k - 1 \in 0..n /\ k - 1 \notin Bad
    BY <2>3, <2>4, <2>5
  <2>7. g[k - 1] = EndOf(list, k - 1)
    BY <2>6
  <2>8. QED
    BY <1>4, <2>4, <2>6, <2>7
<1>6. \A k \in 0..n : g[k] = EndOf(list, k)
  <2> HIDE DEF Bad
  <2>1. \A k \in 0..n : g[k] # EndOf(list, k) => k \in Bad
    BY DEF Bad
  <2>2. QED
    BY <1>5, <2>1
<1>7. \A k \in 1..n : l.at[k] = list[k].at
  <2>1. \A k \in 1..n : k - 1 \in 0..n
    OBVIOUS
  <2>2. QED
    BY <1>4, <1>6, <2>1
<1>8. l.align \in Alignments /\ l.align <= align
  <2>1. l.align \in Alignments /\ align \in Nat \ {0}
    BY <1>1, <1>2, AlignmentFacts DEF LaidAt
  <2>2. CASE l.align = 1
    BY <2>1, <2>2
  <2>3. CASE l.align # 1
    <3>1. PICK k \in 1..n : l.align = AlignIn(list[k].type, 0)
      BY <1>2, <1>3, <2>3 DEF LaidAt
    <3>2. ~packed
      BY <1>2, <2>3 DEF LaidAt
    <3>3. EntryFits(list, packed, align, k)
      BY <1>3 DEF Adjoining
    <3>4. QED
      BY <2>1, <3>1, <3>2, <3>3, TypeParts DEF EntryFits
  <2>4. QED
    BY <2>2, <2>3
<1>9. PICK m : m = l.align
  OBVIOUS
<1>10. align % m = 0 /\ m \in Nat \ {0} /\ align \in Nat \ {0}
  BY <1>1, <1>8, <1>9, SmallerDivides, AlignmentFacts
<1>11. cursor % m = 0
  BY <1>1, <1>10, DividesTrans
<1>12. g[n] = cursor
  BY <1>3, <1>6 DEF Adjoining
<1>13. l.size = AlignUp(cursor, m)
  BY <1>2, <1>3, <1>9, <1>12 DEF LaidAt
<1>14. AlignUp(cursor, m) = cursor
  BY <1>1, <1>10, <1>11, AlignUpFacts
<1>15. QED
  BY <1>3, <1>7, <1>8, <1>9, <1>10, <1>13, <1>14

-------------------------------------------------------------------------------
(* Where the members are in the list.                                       *)

FieldsTyped(fs) ==
    IsList(fs) /\ \A i \in 1..Len(fs) : IsType(fs[i].type) /\ fs[i].n \in Nat

\* FieldAlign, for the annotations nt.
Asked(nt, t, a) == MaxOf(IF nt.packed THEN 1 ELSE AlignOf(t), a)

\* Entry k of the list is that of an ordinary field, or of none.
OwnerIs(b, fs, nt, k) ==
    LET e == b.padded[k]
    IN  /\ e.of \in 0..Len(fs)
        /\ e.of # 0 => /\ fs[e.of].kind = "field" /\ fs[e.of].type = e.type
                       /\ e.at % Asked(nt, e.type, fs[e.of].n) = 0
\* Ordinary fields have an entry each, in their order.
Owners(b, fs, nt) ==
    /\ \A k \in 1..Len(b.padded) : OwnerIs(b, fs, nt, k)
    /\ \A k, l \in 1..Len(b.padded) :
          k < l /\ b.padded[k].of # 0 /\ b.padded[l].of # 0 => b.padded[k].of < b.padded[l].of
    /\ \A i \in 1..Len(fs) :
          fs[i].kind = "field" => \E k \in 1..Len(b.padded) : b.padded[k].of = i

\* Entry u is behind the ordinary fields before i, and before those behind i.
Beside(b, i, u) ==
    \A k \in 1..Len(b.padded) : LET j == b.padded[k].of
                                IN  j # 0 => (j < i /\ k < u) \/ (i < j /\ u < k)
UnitIs(b, fs, i) ==
    /\ i \in 1..Len(fs) /\ fs[i].kind = "bits"
    /\ b.bits[i].unit \in 1..Len(b.padded) /\ Beside(b, i, b.bits[i].unit)
    /\ \A j \in DOMAIN b.bits : i < j => b.bits[i].unit <= b.bits[j].unit
WaitsLast(b, fs, i) ==
    /\ i \in 1..Len(fs) /\ fs[i].kind = "bits"
    /\ \A k \in 1..Len(b.padded) : b.padded[k].of < i
    /\ \A j \in DOMAIN b.bits : j < i
\* Bit-fields have a unit in their order, or wait behind all others for one.
Units(b, fs) ==
    /\ \A i \in 1..Len(fs) : fs[i].kind = "bits" => i \in DOMAIN b.bits \cup DOMAIN b.pending
    /\ \A i \in DOMAIN b.bits : UnitIs(b, fs, i)
    /\ \A i \in DOMAIN b.pending : WaitsLast(b, fs, i)
    /\ b.region = NoRegion => DOMAIN b.pending = {}

\* The base is the first entry, and no bit-field's unit.
BaseFirst(b, nt) ==
    nt.base # <<>> =>
        /\ 1 \in 1..Len(b.padded) /\ b.padded[1].of = 0 /\ b.padded[1].type = nt.base
        /\ \A i \in DOMAIN b.bits : b.bits[i].unit # 1

Placed(b, fs, nt) == Owners(b, fs, nt) /\ Units(b, fs) /\ BaseFirst(b, nt)

\* c has more entries than b, but not of fields.
Extended(c, b) ==
    /\ Len(b.padded) \in Nat /\ Len(c.padded) \in Nat /\ Len(b.padded) <= Len(c.padded)
    /\ \A k \in 1..Len(b.padded) : c.padded[k] = b.padded[k]
    /\ \A k \in 1..Len(c.padded) : k \in 1..Len(b.padded) \/ c.padded[k].of = 0
    /\ c.bits = b.bits /\ c.pending = b.pending /\ c.region = b.region

LEMMA ExtendedPlaced ==
    ASSUME NEW b, NEW fs, NEW nt, Placed(b, fs, nt), Len(fs) \in Nat,
           NEW c, Extended(c, b)
    PROVE  Placed(c, fs, nt)
<1>1. PICK n \in Nat : n = Len(b.padded)
  BY DEF Extended
<1>2. PICK m \in Nat : m = Len(c.padded)
  BY DEF Extended
<1>3. /\ n <= m /\ \A k \in 1..n : c.padded[k] = b.padded[k]
      /\ \A k \in 1..m : k \in 1..n \/ c.padded[k].of = 0
      /\ c.bits = b.bits /\ c.pending = b.pending /\ c.region = b.region
  BY <1>1, <1>2 DEF Extended
<1>4. Owners(b, fs, nt) /\ Units(b, fs) /\ BaseFirst(b, nt)
  BY DEF Placed
<1>5. Owners(c, fs, nt)
  <2>1. ASSUME NEW k \in 1..m
        PROVE  OwnerIs(c, fs, nt, k)
    <3>1. CASE k \in 1..n
      <4>1. OwnerIs(b, fs, nt, k) /\ c.padded[k] = b.padded[k]
        BY <1>1, <1>3, <1>4, <3>1 DEF Owners
      <4>2. QED
        BY <4>1 DEF OwnerIs
    <3>2. CASE c.padded[k].of = 0
      BY <3>2 DEF OwnerIs
    <3>3. QED
      BY <1>3, <3>1, <3>2
  <2>2. ASSUME NEW k \in 1..m, NEW l \in 1..m,
               k < l, c.padded[k].of # 0, c.padded[l].of # 0
        PROVE  c.padded[k].of < c.padded[l].of
    <3>1. k \in 1..n /\ l \in 1..n /\ c.padded[k] = b.padded[k] /\ c.padded[l] = b.padded[l]
      BY <1>3, <2>2
    <3>2. QED
      BY <1>1, <1>4, <2>2, <3>1 DEF Owners
  <2>3. ASSUME NEW i \in 1..Len(fs), fs[i].kind = "field"
        PROVE  \E k \in 1..m : c.padded[k].of = i
    <3>1. PICK k \in 1..n : b.padded[k].of = i
      BY <1>1, <1>4, <2>3 DEF Owners
    <3>2. k \in 1..m /\ c.padded[k].of = i
      BY <1>3, <3>1
    <3>3. QED
      BY <3>2
  <2>4. QED
    BY <1>2, <2>1, <2>2, <2>3 DEF Owners
<1>6. ASSUME NEW i, NEW u, Beside(b, i, u)
      PROVE  Beside(c, i, u)
  <2>1. ASSUME NEW k \in 1..m, c.padded[k].of # 0
        PROVE  k \in 1..n /\ c.padded[k] = b.padded[k]
    BY <1>3, <2>1
  <2>2. QED
    BY <1>1, <1>2, <1>6, <2>1 DEF Beside
<1>7. Units(c, fs)
  <2>1. ASSUME NEW i \in DOMAIN c.bits
        PROVE  UnitIs(c, fs, i)
    <3>1. UnitIs(b, fs, i) /\ c.bits = b.bits
      BY <1>3, <1>4 DEF Units
    <3>2. b.bits[i].unit \in 1..n /\ Beside(b, i, b.bits[i].unit)
      BY <1>1, <3>1 DEF UnitIs
    <3>3. b.bits[i].unit \in 1..m /\ Beside(c, i, b.bits[i].unit)
      BY <1>3, <1>6, <3>2
    <3>4. QED
      BY <1>2, <3>1, <3>3 DEF UnitIs
  <2>2. ASSUME NEW i \in DOMAIN c.pending
        PROVE  WaitsLast(c, fs, i)
    <3>1. WaitsLast(b, fs, i)
      BY <1>3, <1>4 DEF Units
    <3>2. i \in 1..Len(fs) /\ 0 < i
      BY <3>1 DEF WaitsLast
    <3>3. \A k \in 1..m : c.padded[k].of < i
      BY <1>1, <1>3, <3>1, <3>2 DEF WaitsLast
    <3>4. QED
      BY <1>2, <1>3, <3>1, <3>3 DEF WaitsLast
  <2>3. QED
    BY <1>3, <1>4, <2>1, <2>2 DEF Units
<1>8. BaseFirst(c, nt)
  BY <1>1, <1>2, <1>3, <1>4 DEF BaseFirst
<1>9. QED
  BY <1>5, <1>7, <1>8 DEF Placed

\* A field that is not a member.
LEMMA UnnamedPlaced ==
    ASSUME NEW b, NEW fs, NEW nt, Placed(b, fs, nt), IsList(fs),
           NEW f, f.kind \notin {"field", "bits"}, NEW gs, gs = Append(fs, f)
    PROVE  Placed(b, gs, nt)
<1>1. PICK n \in Nat : n = Len(fs)
  BY AppendFacts
<1>2. /\ Len(gs) = n + 1 /\ gs[n + 1] = f
      /\ \A i \in 1..n : gs[i] = fs[i] /\ i \in 1..(n + 1)
      /\ \A i \in 1..(n + 1) : i \in 1..n \/ i = n + 1
  BY <1>1, AppendFacts
<1>3. Owners(b, fs, nt) /\ Units(b, fs) /\ BaseFirst(b, nt)
  BY DEF Placed
<1>4. ASSUME NEW k \in 1..Len(b.padded)
      PROVE  OwnerIs(b, gs, nt, k)
  <2>1. OwnerIs(b, fs, nt, k)
    BY <1>3 DEF Owners
  <2>2. b.padded[k].of \in 0..n
    BY <1>1, <2>1 DEF OwnerIs
  <2>3. b.padded[k].of \in 0..(n + 1)
    BY <1>1, <2>2
  <2>4. b.padded[k].of # 0 => gs[b.padded[k].of] = fs[b.padded[k].of]
    BY <1>1, <1>2, <2>2
  <2>5. QED
    BY <1>2, <2>1, <2>3, <2>4 DEF OwnerIs
<1>5. ASSUME NEW i \in 1..(n + 1), gs[i].kind \in {"field", "bits"}
      PROVE  i \in 1..n /\ gs[i] = fs[i]
  BY <1>1, <1>2, <1>5
<1>6. Owners(b, gs, nt)
  <2>1. ASSUME NEW i \in 1..(n + 1), gs[i].kind = "field"
        PROVE  \E k \in 1..Len(b.padded) : b.padded[k].of = i
    <3>1. i \in 1..n /\ gs[i] = fs[i]
      BY <1>5, <2>1
    <3>2. QED
      BY <1>1, <1>3, <2>1, <3>1 DEF Owners
  <2>2. QED
    BY <1>2, <1>3, <1>4, <2>1 DEF Owners
<1>7. Units(b, gs)
  <2>1. ASSUME NEW i \in DOMAIN b.bits
        PROVE  UnitIs(b, gs, i)
    <3>1. UnitIs(b, fs, i)
      BY <1>3 DEF Units
    <3>2. i \in 1..n /\ gs[i] = fs[i] /\ i \in 1..Len(gs)
      BY <1>1, <1>2, <3>1 DEF UnitIs
    <3>3. QED
      BY <3>1, <3>2 DEF UnitIs
  <2>2. ASSUME NEW i \in DOMAIN b.pending
        PROVE  WaitsLast(b, gs, i)
    <3>1. WaitsLast(b, fs, i)
      BY <1>3 DEF Units
    <3>2. i \in 1..n /\ gs[i] = fs[i] /\ i \in 1..Len(gs)
      BY <1>1, <1>2, <3>1 DEF WaitsLast
    <3>3. QED
      BY <3>1, <3>2 DEF WaitsLast
  <2>3. ASSUME NEW i \in 1..Len(gs), gs[i].kind = "bits"
        PROVE  i \in DOMAIN b.bits \cup DOMAIN b.pending
    <3>1. i \in 1..n /\ gs[i] = fs[i]
      BY <1>2, <1>5, <2>3
    <3>2. QED
      BY <1>1, <1>3, <2>3, <3>1 DEF Units
  <2>4. QED
    BY <1>3, <2>1, <2>2, <2>3 DEF Units
<1>8. QED
  BY <1>3, <1>6, <1>7 DEF Placed

\* An ordinary field, and its entry behind all others.
MayOwn(b, fs, nt, f, e) ==
    /\ Placed(b, fs, nt) /\ IsList(fs) /\ IsList(b.padded) /\ DOMAIN b.pending = {}
    /\ f.kind = "field" /\ e.of = Len(fs) + 1 /\ e.type = f.type
    /\ e.at % Asked(nt, e.type, f.n) = 0

LEMMA OwnedPlaced ==
    ASSUME NEW b, NEW fs, NEW nt, NEW f, NEW e, MayOwn(b, fs, nt, f, e),
           NEW gs, gs = Append(fs, f),
           NEW c, c.padded = Append(b.padded, e), c.bits = b.bits, c.pending = b.pending
    PROVE  Placed(c, gs, nt)
<1>0. /\ Placed(b, fs, nt) /\ IsList(fs) /\ IsList(b.padded) /\ DOMAIN b.pending = {}
      /\ f.kind = "field" /\ e.of = Len(fs) + 1 /\ e.type = f.type
      /\ e.at % Asked(nt, e.type, f.n) = 0
  BY DEF MayOwn
<1>1. PICK n \in Nat : n = Len(fs)
  BY <1>0, AppendFacts
<1>2. /\ Len(gs) = n + 1 /\ gs[n + 1] = f
      /\ \A i \in 1..n : gs[i] = fs[i] /\ i \in 1..(n + 1)
      /\ \A i \in 1..(n + 1) : i \in 1..n \/ i = n + 1
  BY <1>0, <1>1, AppendFacts
<1>3. PICK m \in Nat : m = Len(b.padded)
  BY <1>0, AppendFacts
<1>4. /\ Len(c.padded) = m + 1 /\ c.padded[m + 1] = e
      /\ \A k \in 1..m : c.padded[k] = b.padded[k] /\ k \in 1..(m + 1)
      /\ \A k \in 1..(m + 1) : k \in 1..m \/ k = m + 1
  BY <1>0, <1>3, AppendFacts
<1>5. Owners(b, fs, nt) /\ Units(b, fs) /\ BaseFirst(b, nt)
  BY <1>0 DEF Placed
<1>6. ASSUME NEW k \in 1..m
      PROVE  b.padded[k].of \in 0..n /\ OwnerIs(b, fs, nt, k)
  <2>1. OwnerIs(b, fs, nt, k)
    BY <1>3, <1>5 DEF Owners
  <2>2. QED
    BY <1>1, <2>1 DEF OwnerIs
<1>7. Owners(c, gs, nt)
  <2>1. ASSUME NEW k \in 1..(m + 1)
        PROVE  OwnerIs(c, gs, nt, k)
    <3>1. CASE k = m + 1
      <4>1. c.padded[k] = e /\ e.of = n + 1 /\ e.of \in 0..(n + 1)
        BY <1>0, <1>1, <1>4, <3>1
      <4>2. gs[e.of] = f
        BY <1>2, <4>1
      <4>3. QED
        BY <1>0, <1>2, <4>1, <4>2 DEF OwnerIs
    <3>2. CASE k \in 1..m
      <4>1. b.padded[k].of \in 0..n /\ OwnerIs(b, fs, nt, k) /\ c.padded[k] = b.padded[k]
        BY <1>4, <1>6, <3>2
      <4>2. b.padded[k].of \in 0..(n + 1)
        BY <1>1, <4>1
      <4>3. b.padded[k].of # 0 => gs[b.padded[k].of] = fs[b.padded[k].of]
        BY <1>1, <1>2, <4>1
      <4>4. QED
        BY <1>2, <4>1, <4>2, <4>3 DEF OwnerIs
    <3>3. QED
      BY <1>4, <3>1, <3>2
  <2>2. ASSUME NEW k \in 1..(m + 1), NEW l \in 1..(m + 1),
               k < l, c.padded[k].of # 0, c.padded[l].of # 0
        PROVE  c.padded[k].of < c.padded[l].of
    <3>1. k \in 1..m /\ c.padded[k] = b.padded[k] /\ b.padded[k].of \in 0..n
      BY <1>3, <1>4, <1>6, <2>2
    <3>2. CASE l = m + 1
      BY <1>0, <1>1, <1>4, <3>1, <3>2
    <3>3. CASE l \in 1..m
      BY <1>3, <1>4, <1>5, <2>2, <3>1, <3>3 DEF Owners
    <3>4. QED
      BY <1>4, <3>2, <3>3
  <2>3. ASSUME NEW i \in 1..(n + 1), gs[i].kind = "field"
        PROVE  \E k \in 1..(m + 1) : c.padded[k].of = i
    <3>1. CASE i = n + 1
      <4>1. m + 1 \in 1..(m + 1) /\ c.padded[m + 1].of = i
        BY <1>0, <1>1, <1>3, <1>4, <3>1
      <4>2. QED
        BY <4>1
    <3>2. CASE i \in 1..n
      <4>1. PICK k \in 1..m : b.padded[k].of = i
        BY <1>1, <1>2, <1>3, <1>5, <2>3, <3>2 DEF Owners
      <4>2. k \in 1..(m + 1) /\ c.padded[k].of = i
        BY <1>4, <4>1
      <4>3. QED
        BY <4>2
    <3>3. QED
      BY <1>2, <3>1, <3>2
  <2>4. QED
    BY <1>2, <1>4, <2>1, <2>2, <2>3 DEF Owners
<1>8. ASSUME NEW i \in 1..n, NEW u \in 1..m, Beside(b, i, u)
      PROVE  Beside(c, i, u)
  <2>1. ASSUME NEW k \in 1..(m + 1), c.padded[k].of # 0
        PROVE  \/ c.padded[k].of < i /\ k < u
               \/ i < c.padded[k].of /\ u < k
    <3>1. CASE k = m + 1
      <4>1. c.padded[k].of = n + 1
        BY <1>0, <1>1, <1>4, <3>1
      <4>2. QED
        BY <3>1, <4>1
    <3>2. CASE k \in 1..m
      BY <1>3, <1>4, <1>8, <2>1, <3>2 DEF Beside
    <3>3. QED
      BY <1>4, <3>1, <3>2
  <2>2. QED
    BY <1>4, <2>1 DEF Beside
<1>9. Units(c, gs)
  <2>1. ASSUME NEW i \in DOMAIN c.bits
        PROVE  UnitIs(c, gs, i)
    <3>1. UnitIs(b, fs, i)
      BY <1>5 DEF Units
    <3>2. /\ i \in 1..n /\ gs[i] = fs[i] /\ i \in 1..Len(gs)
          /\ b.bits[i].unit \in 1..m /\ Beside(b, i, b.bits[i].unit)
      BY <1>1, <1>2, <1>3, <3>1 DEF UnitIs
    <3>3. Beside(c, i, b.bits[i].unit) /\ b.bits[i].unit \in 1..Len(c.padded)
      BY <1>4, <1>8, <3>2
    <3>4. QED
      BY <3>1, <3>2, <3>3 DEF UnitIs
  <2>2. ASSUME NEW i \in 1..Len(gs), gs[i].kind = "bits"
        PROVE  i \in DOMAIN b.bits \cup DOMAIN b.pending
    <3>1. i \in 1..n /\ gs[i] = fs[i]
      BY <1>0, <1>2, <2>2
    <3>2. QED
      BY <1>0, <1>1, <1>5, <2>2, <3>1 DEF Units
  <2>3. QED
    BY <1>0, <2>1, <2>2 DEF Units
<1>10. BaseFirst(c, nt)
  BY <1>3, <1>4, <1>5 DEF BaseFirst
<1>11. QED
  BY <1>7, <1>9, <1>10 DEF Placed

\* The last entry, without an owner, is where a field behind all others may be.
LEMMA LastIsBeside ==
    ASSUME NEW b, NEW fs, NEW nt, Owners(b, fs, nt), Len(fs) \in Nat, Len(b.padded) \in Nat,
           b.padded[Len(b.padded)].of = 0
    PROVE  Beside(b, Len(fs) + 1, Len(b.padded))
<1>1. ASSUME NEW k \in 1..Len(b.padded), b.padded[k].of # 0
      PROVE  b.padded[k].of < Len(fs) + 1 /\ k < Len(b.padded)
  <2>1. OwnerIs(b, fs, nt, k)
    BY DEF Owners
  <2>2. b.padded[k].of \in 0..Len(fs)
    BY <2>1 DEF OwnerIs
  <2>3. k # Len(b.padded)
    BY <1>1
  <2>4. QED
    BY <2>2, <2>3
<1>2. QED
  BY <1>1 DEF Beside

\* A bit-field in the last entry.
LEMMA UnitPlaced ==
    ASSUME NEW b, NEW fs, NEW nt, Placed(b, fs, nt), IsList(fs), Len(b.padded) \in Nat,
           NEW u, u = Len(b.padded), u # 0, b.padded[u].of = 0, nt.base # <<>> => u # 1,
           DOMAIN b.pending = {},
           NEW f, f.kind = "bits", NEW gs, gs = Append(fs, f),
           NEW x, x.unit = u,
           NEW c, c.padded = b.padded, c.bits = With(b.bits, Len(fs) + 1, x),
           c.pending = b.pending
    PROVE  Placed(c, gs, nt)
<1>1. PICK n \in Nat : n = Len(fs)
  BY AppendFacts
<1>2. /\ Len(gs) = n + 1 /\ gs[n + 1] = f
      /\ \A i \in 1..n : gs[i] = fs[i] /\ i \in 1..(n + 1)
      /\ \A i \in 1..(n + 1) : i \in 1..n \/ i = n + 1
  BY <1>1, AppendFacts
<1>3. Owners(b, fs, nt) /\ Units(b, fs) /\ BaseFirst(b, nt)
  BY DEF Placed
<1>4. /\ DOMAIN c.bits = DOMAIN b.bits \cup {n + 1} /\ c.bits[n + 1] = x
      /\ \A i \in DOMAIN b.bits : i # n + 1 => c.bits[i] = b.bits[i]
  BY <1>1 DEF With
<1>5. ASSUME NEW i \in DOMAIN b.bits
      PROVE  i \in 1..n /\ i # n + 1 /\ UnitIs(b, fs, i) /\ c.bits[i] = b.bits[i]
  <2>1. UnitIs(b, fs, i)
    BY <1>3 DEF Units
  <2>2. i \in 1..n
    BY <1>1, <2>1 DEF UnitIs
  <2>3. i # n + 1
    BY <1>1, <2>2
  <2>4. QED
    BY <1>4, <2>1, <2>2, <2>3
<1>6. Owners(c, gs, nt)
  <2>1. ASSUME NEW k \in 1..Len(b.padded)
        PROVE  OwnerIs(c, gs, nt, k)
    <3>1. OwnerIs(b, fs, nt, k)
      BY <1>3 DEF Owners
    <3>2. b.padded[k].of \in 0..n
      BY <1>1, <3>1 DEF OwnerIs
    <3>3. b.padded[k].of \in 0..(n + 1)
      BY <1>1, <3>2
    <3>4. b.padded[k].of # 0 => gs[b.padded[k].of] = fs[b.padded[k].of]
      BY <1>1, <1>2, <3>2
    <3>5. QED
      BY <1>2, <3>1, <3>3, <3>4 DEF OwnerIs
  <2>2. ASSUME NEW i \in 1..(n + 1), gs[i].kind = "field"
        PROVE  \E k \in 1..Len(b.padded) : b.padded[k].of = i
    <3>1. i \in 1..n /\ gs[i] = fs[i]
      BY <1>2, <2>2
    <3>2. QED
      BY <1>1, <1>3, <2>2, <3>1 DEF Owners
  <2>3. QED
    BY <1>2, <1>3, <2>1, <2>2 DEF Owners
<1>7. u \in 1..Len(c.padded)
  OBVIOUS
<1>8. ASSUME NEW i \in DOMAIN c.bits
      PROVE  UnitIs(c, gs, i)
  <2>1. CASE i = n + 1
    <3>1. \A j \in DOMAIN c.bits : ~(i < j)
      BY <1>1, <1>4, <1>5, <2>1
    <3>2. Beside(b, n + 1, u)
      BY <1>1, <1>3, LastIsBeside
    <3>3. Beside(c, i, u)
      BY <2>1, <3>2 DEF Beside
    <3>4. i \in 1..Len(gs) /\ gs[i].kind = "bits"
      BY <1>1, <1>2, <2>1
    <3>5. c.bits[i].unit = u
      BY <1>4, <2>1
    <3>6. QED
      BY <1>7, <3>1, <3>3, <3>4, <3>5 DEF UnitIs
  <2>2. CASE i \in DOMAIN b.bits
    <3>1. i \in 1..n /\ UnitIs(b, fs, i) /\ c.bits[i] = b.bits[i]
      BY <1>5, <2>2
    <3>2. b.bits[i].unit \in 1..Len(b.padded) /\ b.bits[i].unit <= u
      BY <3>1 DEF UnitIs
    <3>3. ASSUME NEW j \in DOMAIN c.bits, i < j
          PROVE  c.bits[i].unit <= c.bits[j].unit
      <4>1. CASE j = n + 1
        BY <1>4, <3>1, <3>2, <4>1
      <4>2. CASE j \in DOMAIN b.bits
        BY <1>5, <3>1, <3>3, <4>2 DEF UnitIs
      <4>3. QED
        BY <1>4, <4>1, <4>2
    <3>4. i \in 1..Len(gs) /\ gs[i].kind = "bits"
      BY <1>2, <3>1 DEF UnitIs
    <3>5. Beside(c, i, c.bits[i].unit) /\ c.bits[i].unit \in 1..Len(c.padded)
      BY <3>1 DEF UnitIs, Beside
    <3>6. QED
      BY <3>3, <3>4, <3>5 DEF UnitIs
  <2>3. QED
    BY <1>4, <2>1, <2>2
<1>9. ASSUME NEW i \in 1..Len(gs), gs[i].kind = "bits"
      PROVE  i \in DOMAIN c.bits \cup DOMAIN c.pending
  <2>1. CASE i = n + 1
    BY <1>4, <2>1
  <2>2. CASE i \in 1..n
    BY <1>1, <1>2, <1>3, <1>4, <1>9, <2>2 DEF Units
  <2>3. QED
    BY <1>2, <2>1, <2>2
<1>10. Units(c, gs)
  BY <1>8, <1>9 DEF Units
<1>11. BaseFirst(c, nt)
  <2>1. ASSUME nt.base # <<>>, NEW i \in DOMAIN c.bits
        PROVE  c.bits[i].unit # 1
    BY <1>3, <1>4, <1>5, <2>1 DEF BaseFirst
  <2>2. QED
    BY <1>3, <2>1 DEF BaseFirst
<1>12. QED
  BY <1>6, <1>10, <1>11 DEF Placed

\* A bit-field of a region waits for its unit.
LEMMA WaitingPlaced ==
    ASSUME NEW b, NEW fs, NEW nt, Placed(b, fs, nt), IsList(fs),
           NEW f, f.kind = "bits", NEW gs, gs = Append(fs, f), NEW x,
           NEW c, c.padded = b.padded, c.bits = b.bits,
           c.pending = With(b.pending, Len(fs) + 1, x), c.region # NoRegion
    PROVE  Placed(c, gs, nt)
<1>1. PICK n \in Nat : n = Len(fs)
  BY AppendFacts
<1>2. /\ Len(gs) = n + 1 /\ gs[n + 1] = f
      /\ \A i \in 1..n : gs[i] = fs[i] /\ i \in 1..(n + 1)
      /\ \A i \in 1..(n + 1) : i \in 1..n \/ i = n + 1
  BY <1>1, AppendFacts
<1>3. Owners(b, fs, nt) /\ Units(b, fs) /\ BaseFirst(b, nt)
  BY DEF Placed
<1>4. DOMAIN c.pending = DOMAIN b.pending \cup {n + 1}
  BY <1>1 DEF With
<1>5. ASSUME NEW k \in 1..Len(b.padded)
      PROVE  OwnerIs(c, gs, nt, k) /\ b.padded[k].of < n + 1
  <2>1. OwnerIs(b, fs, nt, k)
    BY <1>3 DEF Owners
  <2>2. b.padded[k].of \in 0..n
    BY <1>1, <2>1 DEF OwnerIs
  <2>3. b.padded[k].of \in 0..(n + 1)
    BY <1>1, <2>2
  <2>4. b.padded[k].of # 0 => gs[b.padded[k].of] = fs[b.padded[k].of]
    BY <1>1, <1>2, <2>2
  <2>5. QED
    BY <1>2, <2>1, <2>2, <2>3, <2>4 DEF OwnerIs
<1>6. Owners(c, gs, nt)
  <2>1. ASSUME NEW i \in 1..(n + 1), gs[i].kind = "field"
        PROVE  \E k \in 1..Len(b.padded) : b.padded[k].of = i
    <3>1. i \in 1..n /\ gs[i] = fs[i]
      BY <1>2, <2>1
    <3>2. QED
      BY <1>1, <1>3, <2>1, <3>1 DEF Owners
  <2>2. QED
    BY <1>2, <1>3, <1>5, <2>1 DEF Owners
<1>7. ASSUME NEW i \in DOMAIN c.bits
      PROVE  UnitIs(c, gs, i) /\ i \in 1..n
  <2>1. UnitIs(b, fs, i)
    BY <1>3 DEF Units
  <2>2. i \in 1..n /\ i \in 1..Len(gs) /\ gs[i] = fs[i]
    BY <1>1, <1>2, <2>1 DEF UnitIs
  <2>3. Beside(c, i, c.bits[i].unit)
    BY <2>1 DEF UnitIs, Beside
  <2>4. QED
    BY <2>1, <2>2, <2>3 DEF UnitIs
<1>8. ASSUME NEW i \in DOMAIN c.pending
      PROVE  WaitsLast(c, gs, i)
  <2>1. CASE i = n + 1
    <3>1. i \in 1..Len(gs) /\ gs[i].kind = "bits"
      BY <1>1, <1>2, <2>1
    <3>2. /\ \A k \in 1..Len(c.padded) : c.padded[k].of < i
          /\ \A j \in DOMAIN c.bits : j < i
      BY <1>1, <1>5, <1>7, <2>1
    <3>3. QED
      BY <3>1, <3>2 DEF WaitsLast
  <2>2. CASE i \in DOMAIN b.pending
    <3>1. WaitsLast(b, fs, i)
      BY <1>3, <2>2 DEF Units
    <3>2. i \in 1..n /\ i \in 1..Len(gs) /\ gs[i] = fs[i]
      BY <1>1, <1>2, <3>1 DEF WaitsLast
    <3>3. QED
      BY <3>1, <3>2 DEF WaitsLast
  <2>3. QED
    BY <1>4, <2>1, <2>2
<1>9. ASSUME NEW i \in 1..Len(gs), gs[i].kind = "bits"
      PROVE  i \in DOMAIN c.bits \cup DOMAIN c.pending
  <2>1. CASE i = n + 1
    BY <1>4, <2>1
  <2>2. CASE i \in 1..n
    BY <1>1, <1>2, <1>3, <1>4, <1>9, <2>2 DEF Units
  <2>3. QED
    BY <1>2, <2>1, <2>2
<1>10. Units(c, gs)
  BY <1>7, <1>8, <1>9 DEF Units
<1>11. BaseFirst(c, nt)
  BY <1>3 DEF BaseFirst
<1>12. QED
  BY <1>6, <1>10, <1>11 DEF Placed

\* A region is closed: those that wait get the new last entry, of p, as their unit.
LEMMA RegionPlaced ==
    ASSUME NEW b, NEW fs, NEW nt, Placed(b, fs, nt), Len(fs) \in Nat,
           NEW p, Extended(p, b), NEW u, u = Len(p.padded), Len(b.padded) < u,
           NEW c, c.padded = p.padded, DOMAIN c.pending = {},
           DOMAIN c.bits = DOMAIN b.bits \cup DOMAIN b.pending,
           \A i \in DOMAIN b.pending : c.bits[i].unit = u,
           \A i \in DOMAIN b.bits : i \notin DOMAIN b.pending => c.bits[i] = b.bits[i]
    PROVE  Placed(c, fs, nt)
<1>1. Placed(p, fs, nt) /\ p.bits = b.bits /\ p.pending = b.pending
  BY ExtendedPlaced DEF Extended
<1>2. Owners(p, fs, nt) /\ Units(p, fs) /\ BaseFirst(p, nt)
  BY <1>1 DEF Placed
<1>3. PICK m \in Nat : m = Len(b.padded)
  BY DEF Extended
<1>4. u \in Nat /\ m < u /\ u \notin 1..m /\ u \in 1..u /\ p.padded[u].of = 0
  <2>1. u \in Nat /\ m < u
    BY <1>3 DEF Extended
  <2>2. u \in 1..u /\ u \notin 1..m
    BY <1>3, <2>1
  <2>3. QED
    BY <1>3, <2>1, <2>2 DEF Extended
<1>5. Owners(c, fs, nt)
  BY <1>2 DEF Owners, OwnerIs
<1>6. ASSUME NEW i \in DOMAIN b.pending
      PROVE  /\ i \in 1..Len(fs) /\ fs[i].kind = "bits" /\ c.bits[i].unit = u
             /\ \A k \in 1..u : p.padded[k].of < i
             /\ \A j \in DOMAIN b.bits : j < i
  <2>1. WaitsLast(p, fs, i)
    BY <1>1, <1>2 DEF Units
  <2>2. QED
    BY <1>1, <2>1 DEF WaitsLast
<1>7. ASSUME NEW i \in DOMAIN b.bits
      PROVE  UnitIs(p, fs, i) /\ i \notin DOMAIN b.pending /\ c.bits[i] = b.bits[i] /\ i \in Nat
  <2>1. UnitIs(p, fs, i)
    BY <1>1, <1>2 DEF Units
  <2>2. i \in Nat
    BY <2>1 DEF UnitIs
  <2>3. i \notin DOMAIN b.pending
    BY <1>6, <2>2
  <2>4. QED
    BY <2>1, <2>2, <2>3
<1>8. ASSUME NEW i \in DOMAIN c.bits
      PROVE  UnitIs(c, fs, i)
  <2>1. CASE i \in DOMAIN b.pending
    <3>1. ASSUME NEW k \in 1..u, p.padded[k].of # 0
          PROVE  p.padded[k].of < i /\ k < u
      <4>1. k # u
        BY <1>4, <3>1
      <4>2. QED
        BY <1>4, <1>6, <2>1, <4>1
    <3>2. Beside(c, i, u)
      BY <3>1 DEF Beside
    <3>3. ASSUME NEW j \in DOMAIN c.bits, i < j
          PROVE  c.bits[i].unit <= c.bits[j].unit
      <4>1. CASE j \in DOMAIN b.pending
        BY <1>4, <1>6, <2>1, <4>1
      <4>2. CASE j \in DOMAIN b.bits
        <5>1. j < i /\ i \in 1..Len(fs) /\ j \in Nat
          BY <1>6, <1>7, <2>1, <4>2
        <5>2. QED
          BY <3>3, <5>1
      <4>3. QED
        BY <4>1, <4>2
    <3>4. QED
      BY <1>4, <1>6, <2>1, <3>2, <3>3 DEF UnitIs
  <2>2. CASE i \in DOMAIN b.bits
    <3>1. UnitIs(p, fs, i) /\ c.bits[i] = b.bits[i]
      BY <1>7, <2>2
    <3>2. /\ i \in 1..Len(fs) /\ fs[i].kind = "bits" /\ b.bits[i].unit \in 1..u
          /\ Beside(p, i, b.bits[i].unit)
          /\ \A j \in DOMAIN b.bits : i < j => b.bits[i].unit <= b.bits[j].unit
      BY <1>1, <3>1 DEF UnitIs
    <3>3. Beside(c, i, c.bits[i].unit) /\ c.bits[i].unit \in 1..u
      BY <3>1, <3>2 DEF Beside
    <3>4. ASSUME NEW j \in DOMAIN c.bits, i < j
          PROVE  c.bits[i].unit <= c.bits[j].unit
      <4>1. CASE j \in DOMAIN b.pending
        BY <1>4, <1>6, <3>3, <4>1
      <4>2. CASE j \in DOMAIN b.bits
        BY <1>7, <3>1, <3>2, <3>4, <4>2
      <4>3. QED
        BY <4>1, <4>2
    <3>5. QED
      BY <3>2, <3>3, <3>4 DEF UnitIs
  <2>3. QED
    BY <2>1, <2>2
<1>9. Units(c, fs)
  <2>1. ASSUME NEW i \in 1..Len(fs), fs[i].kind = "bits"
        PROVE  i \in DOMAIN c.bits \cup DOMAIN c.pending
    BY <1>1, <1>2, <2>1 DEF Units
  <2>2. QED
    BY <1>8, <2>1 DEF Units
<1>10. BaseFirst(c, nt)
  <2>1. SUFFICES ASSUME nt.base # <<>>
                 PROVE  /\ 1 \in 1..Len(p.padded) /\ p.padded[1].of = 0
                        /\ p.padded[1].type = nt.base
                        /\ \A i \in DOMAIN c.bits : c.bits[i].unit # 1
    BY DEF BaseFirst
  <2>2. 1 \in 1..Len(b.padded)
    BY <2>1 DEF Placed, BaseFirst
  <2>3. u # 1
    BY <1>3, <1>4, <2>2
  <2>4. ASSUME NEW i \in DOMAIN c.bits
        PROVE  c.bits[i].unit # 1
    <3>1. CASE i \in DOMAIN b.pending
      BY <1>6, <2>3, <3>1
    <3>2. CASE i \in DOMAIN b.bits
      BY <1>1, <1>2, <1>7, <2>1, <3>2 DEF BaseFirst
    <3>3. QED
      BY <3>1, <3>2
  <2>5. QED
    BY <1>2, <2>1, <2>4 DEF BaseFirst
<1>11. QED
  BY <1>5, <1>9, <1>10 DEF Placed

-------------------------------------------------------------------------------
(* The loop, from field to field.                                           *)

Loop(b, fs, nt) ==
    /\ IsBuild(b) /\ b.bits = [i \in DOMAIN b.bits |-> b.bits[i]]
    /\ b.region \in Nat \cup {NoRegion} /\ (~nt.packed => b.region = NoRegion)
    /\ Adjoining(b.padded, nt.packed, b.cursor, b.align)
    /\ FieldsTyped(fs) /\ Placed(b, fs, nt)

\* The unit that may take another bit-field is the last entry.
UnitLast(b, nt) ==
    b.unit # 0 => /\ b.unit = Len(b.padded) /\ b.padded[b.unit].of = 0
                  /\ nt.base # <<>> => b.unit # 1

LEMMA LoopFacts ==
    ASSUME NEW b, NEW fs, NEW nt, Loop(b, fs, nt)
    PROVE  /\ IsList(b.padded) /\ Len(b.padded) \in Nat /\ IsList(fs) /\ Len(fs) \in Nat
           /\ b.cursor \in Nat /\ b.align \in Alignments /\ b.align \in Nat \ {0}
           /\ Units(b, fs) /\ (b.region = NoRegion => DOMAIN b.pending = {})
<1>1. IsList(b.padded) /\ IsList(fs) /\ b.cursor \in Nat /\ b.align \in Alignments
  BY DEF Loop, Adjoining, IsTyped, FieldsTyped
<1>2. Len(b.padded) \in Nat /\ Len(fs) \in Nat
  BY <1>1, AppendFacts
<1>3. Units(b, fs)
  BY DEF Loop, Placed
<1>4. QED
  BY <1>1, <1>2, <1>3, AlignmentFacts DEF Units

LEMMA TypedAppend ==
    ASSUME NEW fs, FieldsTyped(fs), NEW f, IsType(f.type), f.n \in Nat
    PROVE  FieldsTyped(Append(fs, f))
<1>1. PICK n \in Nat : n = Len(fs)
  BY AppendFacts DEF FieldsTyped
<1>2. PICK gs : gs = Append(fs, f)
  OBVIOUS
<1>3. IsList(gs) /\ Len(gs) = n + 1 /\ gs[n + 1] = f /\ \A i \in 1..n : gs[i] = fs[i]
  BY <1>1, <1>2, AppendFacts DEF FieldsTyped
<1>4. \A i \in 1..(n + 1) : i \in 1..n \/ i = n + 1
  BY <1>1
<1>5. QED
  BY <1>1, <1>2, <1>3, <1>4 DEF FieldsTyped

\* Padding has no owner.
LEMMA PaddedOwners ==
    ASSUME NEW b, IsList(b.padded), NEW off, NEW q, q = PaddedTo(b, off)
    PROVE  /\ IsList(q) /\ Len(b.padded) \in Nat /\ Len(q) \in Nat /\ Len(b.padded) <= Len(q)
           /\ \A k \in 1..Len(b.padded) : q[k] = b.padded[k]
           /\ \A k \in 1..Len(q) : k \in 1..Len(b.padded) \/ q[k].of = 0
<1>1. CASE off = b.cursor
  <2>1. q = b.padded
    BY <1>1 DEF PaddedTo
  <2>2. QED
    BY <2>1, AppendFacts
<1>2. CASE off # b.cursor
  <2>1. PICK e : e = Entry(0, Bytes(off - b.cursor), b.cursor)
    OBVIOUS
  <2>2. q = Append(b.padded, e) /\ e.of = 0
    BY <1>2, <2>1 DEF PaddedTo, Entry
  <2>3. /\ IsList(q) /\ Len(b.padded) \in Nat /\ Len(q) = Len(b.padded) + 1
        /\ q[Len(b.padded) + 1] = e /\ \A k \in 1..Len(b.padded) : q[k] = b.padded[k]
    BY <2>2, AppendFacts
  <2>4. \A k \in 1..Len(q) : k \in 1..Len(b.padded) \/ k = Len(b.padded) + 1
    BY <2>3
  <2>5. QED
    BY <2>2, <2>3, <2>4
<1>3. QED
  BY <1>1, <1>2

\* A new entry, of field f or of none (0).
LEMMA PushedParts ==
    ASSUME NEW b, IsBuild(b), IsList(b.padded), NEW f, NEW t, NEW off,
           NEW p, p = Pushed(b, f, t, off)
    PROVE  /\ IsBuild(p) /\ p.padded = Append(PaddedTo(b, off), Entry(f, t, off))
           /\ p.cursor = off + SizeOf(t) /\ p.align = b.align /\ p.unit = b.unit
           /\ p.used = b.used /\ p.region = b.region /\ p.pending = b.pending
           /\ p.bits = b.bits
BY DEF IsBuild, Pushed

LEMMA PushedExtends ==
    ASSUME NEW b, IsBuild(b), IsList(b.padded), NEW t, NEW off,
           NEW p, p = Pushed(b, 0, t, off)
    PROVE  /\ Extended(p, b) /\ Len(b.padded) < Len(p.padded)
           /\ p.padded[Len(p.padded)].of = 0 /\ p.padded[Len(p.padded)].type = t
<1>1. PICK q : q = PaddedTo(b, off)
  OBVIOUS
<1>2. PICK e : e = Entry(0, t, off)
  OBVIOUS
<1>3. /\ IsList(q) /\ Len(b.padded) \in Nat /\ Len(q) \in Nat /\ Len(b.padded) <= Len(q)
      /\ \A k \in 1..Len(b.padded) : q[k] = b.padded[k]
      /\ \A k \in 1..Len(q) : k \in 1..Len(b.padded) \/ q[k].of = 0
  BY <1>1, PaddedOwners
<1>4. /\ p.padded = Append(q, e) /\ p.region = b.region /\ p.pending = b.pending
      /\ p.bits = b.bits
  BY <1>1, <1>2, PushedParts
<1>5. e.of = 0 /\ e.type = t
  BY <1>2 DEF Entry
<1>6. /\ Len(p.padded) = Len(q) + 1 /\ p.padded[Len(q) + 1] = e
      /\ \A k \in 1..Len(q) : p.padded[k] = q[k]
  BY <1>3, <1>4, AppendFacts
<1>7. \A k \in 1..(Len(q) + 1) : k \in 1..Len(q) \/ k = Len(q) + 1
  BY <1>3
<1>8. \A k \in 1..Len(p.padded) : k \in 1..Len(b.padded) \/ p.padded[k].of = 0
  BY <1>3, <1>5, <1>6, <1>7
<1>9. \A k \in 1..Len(b.padded) : p.padded[k] = b.padded[k]
  BY <1>3, <1>6
<1>10. QED
  BY <1>3, <1>4, <1>5, <1>6, <1>8, <1>9 DEF Extended

\* closeRegion.
LEMMA CloseLoop ==
    ASSUME NEW b, NEW fs, NEW nt, nt.packed \in BOOLEAN, Loop(b, fs, nt),
           NEW c, c = CloseRegion(b)
    PROVE  Loop(c, fs, nt) /\ c.region = NoRegion /\ DOMAIN c.pending = {}
<1>1. CASE b.region = NoRegion
  <2>1. c = b
    BY <1>1 DEF CloseRegion
  <2>2. QED
    BY <1>1, <2>1, LoopFacts
<1>2. CASE b.region # NoRegion
  <2>1. PICK n : n = MaxOf((b.region + 7) \div 8, 1)
    OBVIOUS
  <2>2. n \in Nat \ {0} /\ nt.packed
    BY <1>2, <2>1 DEF Loop, MaxOf
  <2>3. PICK p : p = Pushed(b, 0, Bytes(n), b.cursor)
    OBVIOUS
  <2>4. IsBuild(b) /\ IsList(b.padded) /\ b.cursor \in Nat /\ b.align \in Alignments /\ b.align \in Nat
    BY LoopFacts DEF Loop
  <2>5. /\ IsBuild(p) /\ p.align = b.align /\ p.unit = b.unit /\ p.used = b.used
        /\ Extended(p, b) /\ Len(b.padded) < Len(p.padded)
    BY <2>3, <2>4, PushedParts, PushedExtends
  <2>6. Adjoining(p.padded, nt.packed, p.cursor, b.align)
    <3>1. IsType(Bytes(n)) /\ b.cursor <= b.cursor /\ b.align <= b.align
      BY <2>2, <2>4, BytesIsType
    <3>2. Adjoining(b.padded, nt.packed, b.cursor, b.align)
      BY DEF Loop
    <3>3. MayPush(b, nt.packed, Bytes(n), b.cursor, b.align)
      BY <2>2, <2>4, <3>1, <3>2 DEF MayPush
    <3>4. QED
      BY <2>3, <3>3, AdjoinPushed
  <2>7. /\ IsBuild(c) /\ c.padded = p.padded /\ c.cursor = p.cursor /\ c.align = p.align
        /\ c.region = NoRegion /\ c.pending = NoBits
        /\ c.bits = [i \in DOMAIN p.bits \cup DOMAIN b.pending |->
                       IF i \in DOMAIN b.pending
                       THEN [unit |-> Len(p.padded), offset |-> b.pending[i], bits |-> n * 8]
                       ELSE p.bits[i]]
    BY <1>2, <2>1, <2>3, <2>5 DEF CloseRegion, IsBuild
  <2>8. p.bits = b.bits
    BY <2>5 DEF Extended
  <2>9. /\ DOMAIN c.bits = DOMAIN b.bits \cup DOMAIN b.pending
        /\ c.bits = [i \in DOMAIN c.bits |-> c.bits[i]]
        /\ \A i \in DOMAIN b.pending : c.bits[i].unit = Len(p.padded)
        /\ \A i \in DOMAIN b.bits : i \notin DOMAIN b.pending => c.bits[i] = b.bits[i]
        /\ DOMAIN c.pending = {}
    BY <2>7, <2>8 DEF NoBits
  <2>10. Placed(b, fs, nt) /\ Len(fs) \in Nat /\ FieldsTyped(fs)
    BY LoopFacts DEF Loop
  <2>11. Placed(c, fs, nt)
    <3>1. PICK u : u = Len(p.padded)
      OBVIOUS
    <3>2. Len(b.padded) < u /\ \A i \in DOMAIN b.pending : c.bits[i].unit = u
      BY <2>5, <2>9, <3>1
    <3>3. /\ Extended(p, b) /\ c.padded = p.padded /\ DOMAIN c.pending = {}
          /\ DOMAIN c.bits = DOMAIN b.bits \cup DOMAIN b.pending
          /\ \A i \in DOMAIN b.bits : i \notin DOMAIN b.pending => c.bits[i] = b.bits[i]
      BY <2>5, <2>7, <2>9
    <3>4. QED
      BY <2>10, <3>1, <3>2, <3>3, RegionPlaced
  <2>12. QED
    BY <2>2, <2>5, <2>6, <2>7, <2>9, <2>10, <2>11 DEF Loop
<1>3. QED
  BY <1>1, <1>2

\* An alignment w suits a type, and a place off behind v is one for it.
Suits(w, t, packed) ==
    /\ w \in Alignments /\ w \in Nat \ {0}
    /\ ~packed => AlignOf(t) <= w /\ w % AlignOf(t) = 0
IsPlace(off, v, w, t, packed) ==
    /\ off \in Nat /\ v <= off /\ off % w = 0
    /\ ~packed => off % AlignOf(t) = 0

\* The alignment that a type, or an align(N), asks for.
LEMMA AskedFacts ==
    ASSUME NEW t, IsType(t), NEW a \in Aligns \cup {0}, NEW nt, nt.packed \in BOOLEAN,
           NEW w, w = Asked(nt, t, a)
    PROVE  Suits(w, t, nt.packed)
<1>1. AlignOf(t) \in Alignments /\ AlignOf(t) \in Nat \ {0}
  BY TypeFacts
<1>2. a \in Nat /\ (a # 0 => a \in Alignments)
  BY LayoutAssumption DEF Alignments
<1>3. 1 \in Alignments
  BY AlignmentFacts
<1>4. w \in Alignments /\ (~nt.packed => AlignOf(t) <= w)
  BY <1>1, <1>2, <1>3 DEF Asked, MaxOf
<1>5. ~nt.packed => w % AlignOf(t) = 0
  BY <1>1, <1>4, SmallerDivides
<1>6. QED
  BY <1>4, <1>5, AlignmentFacts DEF Suits

\* The next place that is aligned so.
LEMMA AlignedPlace ==
    ASSUME NEW v \in Nat, NEW t, IsType(t), NEW w, NEW packed, Suits(w, t, packed),
           NEW off, off = AlignUp(v, w)
    PROVE  IsPlace(off, v, w, t, packed)
<1>0. w \in Nat \ {0} /\ (~packed => w % AlignOf(t) = 0)
  BY DEF Suits
<1>1. off \in Nat /\ v <= off /\ off % w = 0
  BY <1>0, AlignUpFacts
<1>2. AlignOf(t) \in Nat \ {0}
  BY TypeFacts
<1>3. ASSUME ~packed
      PROVE  off % AlignOf(t) = 0
  BY <1>0, <1>1, <1>2, <1>3, DividesTrans
<1>4. QED
  BY <1>1, <1>3 DEF IsPlace

\* An ordinary field.
LEMMA FieldLoop ==
    ASSUME NEW b, NEW fs, NEW nt, nt.packed \in BOOLEAN, Loop(b, fs, nt),
           b.region = NoRegion, DOMAIN b.pending = {},
           NEW t, IsType(t), NEW a \in Aligns \cup {0}, NEW w, w = Asked(nt, t, a),
           NEW p, p = Pushed(b, Len(fs) + 1, t, AlignUp(b.cursor, w)),
           NEW c, IsBuild(c), c.padded = p.padded, c.cursor = p.cursor, c.bits = p.bits,
           c.region = p.region, c.pending = p.pending,
           c.align = IF nt.packed /\ a = 0 THEN b.align ELSE MaxOf(b.align, w),
           NEW f, f.kind = "field", f.type = t, f.n = a
    PROVE  Loop(c, Append(fs, f), nt)
<1>1. /\ IsBuild(b) /\ IsList(b.padded) /\ b.cursor \in Nat /\ b.align \in Alignments
      /\ b.align \in Nat \ {0} /\ Len(fs) \in Nat /\ IsList(fs)
      /\ Adjoining(b.padded, nt.packed, b.cursor, b.align)
      /\ Placed(b, fs, nt) /\ FieldsTyped(fs) /\ b.bits = [i \in DOMAIN b.bits |-> b.bits[i]]
  BY LoopFacts DEF Loop
<1>0. PICK pk \in BOOLEAN : pk = nt.packed
  OBVIOUS
<1>2. Suits(w, t, pk) /\ w \in Alignments /\ w \in Nat \ {0} /\ (~pk => AlignOf(t) <= w)
  <2>1. Suits(w, t, nt.packed)
    BY AskedFacts
  <2>2. QED
    BY <1>0, <2>1 DEF Suits
<1>3. PICK off : off = AlignUp(b.cursor, w)
  OBVIOUS
<1>4. /\ off \in Nat /\ b.cursor <= off /\ off % w = 0
      /\ ~nt.packed => off % AlignOf(t) = 0
  <2>1. PICK v : v = b.cursor
    OBVIOUS
  <2>2. v \in Nat /\ off = AlignUp(v, w)
    BY <1>1, <1>3, <2>1
  <2>3. IsPlace(off, v, w, t, pk)
    BY <1>2, <2>2, AlignedPlace
  <2>4. QED
    BY <1>0, <2>1, <2>3 DEF IsPlace
<1>5. PICK most : most = c.align
  OBVIOUS
<1>6. /\ most \in Alignments /\ b.align <= most /\ (~nt.packed => AlignOf(t) <= most)
  <2>1. AlignOf(t) \in Nat
    BY TypeFacts
  <2>2. QED
    BY <1>0, <1>1, <1>2, <1>5, <2>1 DEF MaxOf
<1>7. PICK new : new = Len(fs) + 1
  OBVIOUS
<1>8. p = Pushed(b, new, t, off)
  BY <1>3, <1>7
<1>9. Adjoining(p.padded, nt.packed, p.cursor, most)
  <2>1. ~pk => off % AlignOf(t) = 0 /\ AlignOf(t) <= most
    BY <1>0, <1>4, <1>6
  <2>2. Adjoining(b.padded, pk, b.cursor, b.align)
    BY <1>0, <1>1
  <2>3. Adjoining(p.padded, pk, p.cursor, most)
    <3>1. /\ IsBuild(b) /\ IsType(t) /\ off \in Nat /\ b.cursor <= off
          /\ most \in Alignments /\ b.align <= most
      BY <1>1, <1>4, <1>6
    <3>2. MayPush(b, pk, t, off, most)
      BY <2>1, <2>2, <3>1 DEF MayPush
    <3>3. QED
      BY <1>8, <3>2, AdjoinPushed
  <2>4. QED
    BY <1>0, <2>3
<1>10. /\ p.padded = Append(PaddedTo(b, off), Entry(new, t, off))
       /\ p.region = b.region /\ p.pending = b.pending /\ p.bits = b.bits
  BY <1>1, <1>8, PushedParts
<1>11. PICK q : q = [padded |-> PaddedTo(b, off), bits |-> b.bits, pending |-> b.pending,
                     region |-> b.region]
  OBVIOUS
<1>12. /\ q.padded = PaddedTo(b, off) /\ q.bits = b.bits /\ q.pending = b.pending
       /\ q.region = b.region
  BY <1>11
<1>13. Extended(q, b) /\ IsList(q.padded)
  BY <1>1, <1>12, PaddedOwners DEF Extended
<1>14. Placed(q, fs, nt)
  BY <1>1, <1>13, ExtendedPlaced
<1>15. PICK e : e = Entry(new, t, off)
  OBVIOUS
<1>16. /\ e.of = Len(fs) + 1 /\ e.type = f.type /\ e.at = off
       /\ Asked(nt, e.type, f.n) = w
  BY <1>7, <1>15 DEF Entry
<1>17. PICK gs : gs = Append(fs, f)
  OBVIOUS
<1>18. Placed(c, gs, nt)
  <2>1. e.at % Asked(nt, e.type, f.n) = 0
    BY <1>4, <1>16
  <2>2. /\ c.padded = Append(q.padded, e) /\ c.bits = q.bits /\ c.pending = q.pending
        /\ DOMAIN q.pending = {}
    BY <1>10, <1>12, <1>15
  <2>3. Placed(q, fs, nt) /\ IsList(fs) /\ IsList(q.padded) /\ f.kind = "field"
    BY <1>1, <1>13, <1>14
  <2>4. e.of = Len(fs) + 1 /\ e.type = f.type /\ gs = Append(fs, f)
    BY <1>16, <1>17
  <2>5. MayOwn(q, fs, nt, f, e)
    BY <2>1, <2>2, <2>3, <2>4 DEF MayOwn
  <2>6. QED
    BY <2>2, <2>4, <2>5, OwnedPlaced
<1>19. FieldsTyped(gs)
  <2>1. f.n \in Nat /\ IsType(f.type)
    BY LayoutAssumption
  <2>2. QED
    BY <1>1, <1>17, <2>1, TypedAppend
<1>20. /\ Adjoining(c.padded, nt.packed, c.cursor, c.align)
       /\ c.region = NoRegion /\ c.bits = [i \in DOMAIN c.bits |-> c.bits[i]]
  BY <1>1, <1>5, <1>9, <1>10
<1>21. QED
  BY <1>17, <1>18, <1>19, <1>20 DEF Loop

\* A field that is no member, and changes the region at most.
LEMMA UnnamedLoop ==
    ASSUME NEW b, NEW fs, NEW nt, Loop(b, fs, nt),
           NEW f, f.kind \notin {"field", "bits"}, IsType(f.type), f.n \in Nat,
           NEW c, IsBuild(c), c.padded = b.padded, c.cursor = b.cursor, c.align = b.align,
           c.bits = b.bits, c.pending = b.pending,
           c.region \in Nat \cup {NoRegion}, c.region # b.region => nt.packed,
           c.region = NoRegion => b.region = NoRegion
    PROVE  Loop(c, Append(fs, f), nt)
<1>1. PICK gs : gs = Append(fs, f)
  OBVIOUS
<1>2. Placed(b, fs, nt) /\ IsList(fs) /\ FieldsTyped(fs)
  BY LoopFacts DEF Loop
<1>3. Placed(b, gs, nt)
  BY <1>1, <1>2, UnnamedPlaced
<1>4. Placed(c, gs, nt)
  <2>1. Owners(c, gs, nt)
    <3>1. Owners(b, gs, nt)
      BY <1>3 DEF Placed
    <3>2. \A k : OwnerIs(c, gs, nt, k) = OwnerIs(b, gs, nt, k)
      BY DEF OwnerIs
    <3>3. QED
      BY <3>1, <3>2 DEF Owners
  <2>2. Units(c, gs)
    BY <1>3 DEF Placed, Units, UnitIs, Beside, WaitsLast
  <2>3. BaseFirst(c, nt)
    BY <1>3 DEF Placed, BaseFirst
  <2>4. QED
    BY <2>1, <2>2, <2>3 DEF Placed
<1>5. FieldsTyped(gs)
  BY <1>1, <1>2, TypedAppend
<1>6. ~nt.packed => c.region = NoRegion
  BY DEF Loop
<1>7. QED
  BY <1>1, <1>4, <1>5, <1>6 DEF Loop

\* A bit-field of a packed record.
LEMMA WaitLoop ==
    ASSUME NEW b, NEW fs, NEW nt, Loop(b, fs, nt), nt.packed,
           NEW f, f.kind = "bits", IsType(f.type), f.n \in Nat, NEW x,
           NEW c, IsBuild(c), c.padded = b.padded, c.cursor = b.cursor, c.align = b.align,
           c.bits = b.bits, c.pending = With(b.pending, Len(fs) + 1, x), c.region \in Nat
    PROVE  Loop(c, Append(fs, f), nt)
<1>1. PICK gs : gs = Append(fs, f)
  OBVIOUS
<1>2. Placed(b, fs, nt) /\ IsList(fs) /\ FieldsTyped(fs)
  BY LoopFacts DEF Loop
<1>3. c.region # NoRegion
  BY DEF NoRegion
<1>4. Placed(c, gs, nt)
  BY <1>1, <1>2, <1>3, WaitingPlaced
<1>5. FieldsTyped(gs)
  BY <1>1, <1>2, TypedAppend
<1>6. QED
  BY <1>1, <1>4, <1>5 DEF Loop

\* A new storage unit.
LEMMA NewUnitLoop ==
    ASSUME NEW b, NEW fs, NEW nt, nt.packed \in BOOLEAN, Loop(b, fs, nt),
           NEW t, IsType(t),
           NEW p, p = Pushed(b, 0, t, AlignUp(b.cursor, AlignOf(t))),
           NEW c, IsBuild(c), c.padded = p.padded, c.cursor = p.cursor, c.bits = p.bits,
           c.region = p.region, c.pending = p.pending, c.unit = Len(p.padded),
           c.align = MaxOf(b.align, AlignOf(t))
    PROVE  Loop(c, fs, nt) /\ UnitLast(c, nt)
<1>1. /\ IsBuild(b) /\ IsList(b.padded) /\ b.cursor \in Nat /\ b.align \in Alignments
      /\ b.align \in Nat \ {0} /\ Len(fs) \in Nat /\ Len(b.padded) \in Nat
      /\ Adjoining(b.padded, nt.packed, b.cursor, b.align)
      /\ Placed(b, fs, nt) /\ FieldsTyped(fs) /\ b.bits = [i \in DOMAIN b.bits |-> b.bits[i]]
  BY LoopFacts DEF Loop
<1>2. AlignOf(t) \in Alignments /\ AlignOf(t) \in Nat \ {0}
  BY TypeFacts
<1>3. PICK off : off = AlignUp(b.cursor, AlignOf(t))
  OBVIOUS
<1>4. off \in Nat /\ b.cursor <= off /\ off % AlignOf(t) = 0
  <2>1. PICK v, a : v = b.cursor /\ a = AlignOf(t)
    OBVIOUS
  <2>2. v \in Nat /\ a \in Nat \ {0}
    BY <1>1, <1>2, <2>1
  <2>3. AlignUp(v, a) \in Nat /\ v <= AlignUp(v, a) /\ AlignUp(v, a) % a = 0
    BY <2>2, AlignUpFacts
  <2>4. QED
    BY <1>3, <2>1, <2>3
<1>5. PICK most : most = c.align
  OBVIOUS
<1>6. most \in Alignments /\ b.align <= most /\ AlignOf(t) <= most
  BY <1>1, <1>2, <1>5 DEF MaxOf
<1>7. p = Pushed(b, 0, t, off)
  BY <1>3
<1>8. PICK pk \in BOOLEAN : pk = nt.packed
  OBVIOUS
<1>9. MayPush(b, pk, t, off, most)
  BY <1>1, <1>4, <1>6, <1>8 DEF MayPush
<1>10. Adjoining(p.padded, pk, p.cursor, most)
  BY <1>7, <1>9, AdjoinPushed
<1>11. /\ Extended(p, b) /\ Len(b.padded) < Len(p.padded)
       /\ p.padded[Len(p.padded)].of = 0
  BY <1>1, <1>7, PushedExtends
<1>12. /\ p.bits = b.bits /\ p.region = b.region /\ p.pending = b.pending
       /\ Len(p.padded) \in Nat
  BY <1>11 DEF Extended
<1>13. Extended(c, b)
  BY <1>11 DEF Extended
<1>14. Placed(c, fs, nt)
  BY <1>1, <1>13, ExtendedPlaced
<1>15. /\ Adjoining(c.padded, nt.packed, c.cursor, c.align)
       /\ c.bits = [i \in DOMAIN c.bits |-> c.bits[i]]
       /\ c.region \in Nat \cup {NoRegion} /\ (~nt.packed => c.region = NoRegion)
  BY <1>1, <1>5, <1>8, <1>10, <1>12 DEF Loop
<1>16. Loop(c, fs, nt)
  BY <1>1, <1>14, <1>15 DEF Loop
<1>17. UnitLast(c, nt)
  <2>1. nt.base # <<>> => 1 \in 1..Len(b.padded)
    BY <1>1 DEF Placed, BaseFirst
  <2>2. nt.base # <<>> => c.unit # 1
    BY <1>1, <1>11, <1>12, <2>1
  <2>3. QED
    BY <1>11, <2>2 DEF UnitLast
<1>18. QED
  BY <1>16, <1>17

\* A bit-field in the last unit.
LEMMA BitsLoop ==
    ASSUME NEW b, NEW fs, NEW nt, Loop(b, fs, nt), UnitLast(b, nt),
           b.unit # 0, b.region = NoRegion,
           NEW f, f.kind = "bits", IsType(f.type), f.n \in Nat,
           NEW x, x.unit = b.unit,
           NEW c, IsBuild(c), c.padded = b.padded, c.cursor = b.cursor, c.align = b.align,
           c.bits = With(b.bits, Len(fs) + 1, x), c.pending = b.pending, c.region = b.region
    PROVE  Loop(c, Append(fs, f), nt)
<1>1. PICK gs : gs = Append(fs, f)
  OBVIOUS
<1>2. /\ Placed(b, fs, nt) /\ IsList(fs) /\ FieldsTyped(fs) /\ Len(b.padded) \in Nat
      /\ DOMAIN b.pending = {}
  BY LoopFacts DEF Loop
<1>3. PICK u : u = b.unit
  OBVIOUS
<1>4. /\ u = Len(b.padded) /\ u # 0 /\ b.padded[u].of = 0 /\ (nt.base # <<>> => u # 1)
      /\ x.unit = u
  BY <1>3 DEF UnitLast
<1>5. Placed(c, gs, nt)
  BY <1>1, <1>2, <1>4, UnitPlaced
<1>6. FieldsTyped(gs)
  BY <1>1, <1>2, TypedAppend
<1>7. c.bits = [i \in DOMAIN c.bits |-> c.bits[i]]
  BY DEF With
<1>8. QED
  BY <1>1, <1>5, <1>6, <1>7 DEF Loop

-------------------------------------------------------------------------------
(* The loop in the steps.                                                   *)

NotesTyped(nt) ==
    /\ nt.packed \in BOOLEAN /\ nt.forced \in Aligns \cup {0}
    /\ nt.base # <<>> => IsType(nt.base)
MadeTyped == IsList(made) /\ \A k \in 1..Len(made) : IsType(made[k])
LoopInv ==
    /\ phase # "union" => Loop(build, fields, notes)
    /\ phase = "open" => UnitLast(build, notes)

LEMMA TypesTyped ==
    ASSUME MadeTyped
    PROVE  /\ \A t \in Types : IsType(t)
           /\ \A t \in Range(made) : IsType(t)
<1>1. PICK n \in Nat : n = Len(made) /\ DOMAIN made = 1..n
  BY AppendFacts DEF MadeTyped
<1>2. \A t \in Range(made) : \E k \in 1..n : t = made[k]
  BY <1>1 DEF Range
<1>3. \A t \in Range(made) : IsType(t)
  BY <1>1, <1>2 DEF MadeTyped
<1>4. \A t \in Scalars : IsType(t)
  BY ScalarIsType
<1>5. QED
  BY <1>3, <1>4 DEF Types

\* The beginning, without a base and with one.
LEMMA FreshLoop ==
    ASSUME NEW nt, nt.packed \in BOOLEAN, nt.base = <<>>,
           NEW b,
           b = [cursor |-> 0, align |-> 1, padded |-> <<>>, unit |-> 0, used |-> 0,
                region |-> NoRegion, pending |-> NoBits, bits |-> NoBits]
    PROVE  Loop(b, <<>>, nt) /\ UnitLast(b, nt)
<1>1. /\ IsBuild(b) /\ b.unit = 0 /\ b.region = NoRegion /\ b.padded = <<>>
      /\ b.cursor = 0 /\ b.align = 1 /\ b.bits = <<>> /\ b.pending = <<>>
  BY DEF IsBuild, NoBits
<1>2. IsList(<<>>) /\ Len(<<>>) = 0
  <2>1. <<>> \in Seq({})
    OBVIOUS
  <2>2. QED
    BY <2>1 DEF IsList
<1>3. DOMAIN b.bits = {} /\ DOMAIN b.pending = {} /\ b.bits = [i \in DOMAIN b.bits |-> b.bits[i]]
  BY <1>1
<1>4. Adjoining(b.padded, nt.packed, b.cursor, b.align)
  BY <1>1, <1>2, AlignmentFacts DEF Adjoining, IsTyped, EndOf
<1>5. FieldsTyped(<<>>)
  BY <1>2 DEF FieldsTyped
<1>6. Placed(b, <<>>, nt)
  <2>1. Owners(b, <<>>, nt)
    BY <1>1, <1>2 DEF Owners
  <2>2. Units(b, <<>>)
    BY <1>2, <1>3 DEF Units
  <2>3. QED
    BY <2>1, <2>2 DEF Placed, BaseFirst
<1>7. QED
  BY <1>1, <1>3, <1>4, <1>5, <1>6 DEF Loop, UnitLast

LEMMA BasedLoop ==
    ASSUME NEW nt, nt.packed \in BOOLEAN, IsType(nt.base),
           NEW fresh,
           fresh = [cursor |-> 0, align |-> 1, padded |-> <<>>, unit |-> 0, used |-> 0,
                    region |-> NoRegion, pending |-> NoBits, bits |-> NoBits],
           NEW p, p = Pushed(fresh, 0, nt.base, 0),
           NEW b, IsBuild(b), b.padded = p.padded, b.cursor = p.cursor, b.bits = p.bits,
           b.region = p.region, b.pending = p.pending, b.unit = p.unit,
           b.align = IF nt.packed THEN 1 ELSE MaxOf(1, AlignOf(nt.base))
    PROVE  Loop(b, <<>>, nt) /\ UnitLast(b, nt)
<1>1. /\ IsBuild(fresh) /\ fresh.unit = 0 /\ fresh.region = NoRegion /\ fresh.padded = <<>>
      /\ fresh.cursor = 0 /\ fresh.align = 1 /\ fresh.bits = <<>> /\ fresh.pending = <<>>
  BY DEF IsBuild, NoBits
<1>2. IsList(<<>>) /\ Len(<<>>) = 0
  <2>1. <<>> \in Seq({})
    OBVIOUS
  <2>2. QED
    BY <2>1 DEF IsList
<1>3. PICK e : e = Entry(0, nt.base, 0)
  OBVIOUS
<1>4. e.of = 0 /\ e.type = nt.base
  BY <1>3 DEF Entry
<1>5. /\ p.padded = Append(<<>>, e) /\ p.unit = 0 /\ p.region = NoRegion
      /\ p.pending = <<>> /\ p.bits = <<>>
  <2>1. PaddedTo(fresh, 0) = <<>>
    BY <1>1 DEF PaddedTo
  <2>2. QED
    BY <1>1, <1>2, <1>3, <2>1, PushedParts
<1>6. Len(b.padded) = 1 /\ b.padded[1] = e
  <2>1. PICK s : s = <<>>
    OBVIOUS
  <2>2. Len(Append(s, e)) = Len(s) + 1 /\ Append(s, e)[Len(s) + 1] = e
    BY <1>2, <2>1, AppendFacts
  <2>3. b.padded = Append(s, e) /\ Len(s) + 1 = 1
    BY <1>2, <1>5, <2>1
  <2>4. QED
    BY <2>2, <2>3
<1>7. PICK most : most = b.align
  OBVIOUS
<1>8. AlignOf(nt.base) \in Alignments /\ AlignOf(nt.base) \in Nat \ {0} /\ 1 \in Alignments
  BY TypeFacts, AlignmentFacts
<1>9. most \in Alignments /\ 1 <= most /\ (~nt.packed => AlignOf(nt.base) <= most)
  BY <1>7, <1>8 DEF MaxOf
<1>10. Adjoining(fresh.padded, nt.packed, fresh.cursor, fresh.align)
  BY <1>1, <1>2, AlignmentFacts DEF Adjoining, IsTyped, EndOf
<1>11. PICK pk \in BOOLEAN : pk = nt.packed
  OBVIOUS
<1>12. PICK t : t = nt.base
  OBVIOUS
<1>13. MayPush(fresh, pk, t, 0, most)
  <2>1. 0 % AlignOf(t) = 0
    BY <1>8, <1>12
  <2>2. QED
    BY <1>1, <1>9, <1>10, <1>11, <1>12, <2>1 DEF MayPush
<1>14. Adjoining(p.padded, pk, p.cursor, most)
  BY <1>12, <1>13, AdjoinPushed
<1>15. DOMAIN b.bits = {} /\ DOMAIN b.pending = {} /\ b.bits = [i \in DOMAIN b.bits |-> b.bits[i]]
  BY <1>5
<1>16. FieldsTyped(<<>>)
  BY <1>2 DEF FieldsTyped
<1>17. Placed(b, <<>>, nt)
  <2>1. Owners(b, <<>>, nt)
    BY <1>2, <1>4, <1>6 DEF Owners, OwnerIs
  <2>2. Units(b, <<>>)
    BY <1>2, <1>15 DEF Units
  <2>3. BaseFirst(b, nt)
    BY <1>4, <1>6, <1>15 DEF BaseFirst
  <2>4. QED
    BY <2>1, <2>2, <2>3 DEF Placed
<1>18. Loop(b, <<>>, nt)
  BY <1>5, <1>7, <1>11, <1>14, <1>15, <1>16, <1>17 DEF Loop
<1>19. UnitLast(b, nt)
  BY <1>5 DEF UnitLast
<1>20. QED
  BY <1>18, <1>19

LEMMA BeginLoop ==
    ASSUME MadeTyped, NEW packed \in BOOLEAN, NEW forced \in Aligns \cup {0},
           NEW base \in Range(made) \cup {<<>>}, Begin(packed, forced, base)
    PROVE  LoopInv' /\ NotesTyped(notes')
<1> DEFINE fresh == [cursor |-> 0, align |-> 1, padded |-> <<>>, unit |-> 0, used |-> 0,
                     region |-> NoRegion, pending |-> NoBits, bits |-> NoBits]
           p == Pushed(fresh, 0, base, 0)
<1>1. PICK nt : nt = notes'
  OBVIOUS
<1>2. /\ nt.packed = packed /\ nt.forced = forced /\ nt.base = base
      /\ fields' = <<>> /\ phase' = "open"
      /\ build' = IF base = <<>> THEN fresh
                  ELSE IF packed THEN p ELSE RaisedTo(p, AlignOf(base))
  BY <1>1 DEF Begin
<1>3. base # <<>> => IsType(base)
  BY TypesTyped
<1>4. NotesTyped(nt)
  BY <1>2, <1>3 DEF NotesTyped
<1>5. Loop(build', <<>>, nt) /\ UnitLast(build', nt)
  <2>1. CASE base = <<>>
    BY <1>2, <2>1, FreshLoop
  <2>2. CASE base # <<>>
    <3>1. IsBuild(fresh) /\ fresh.align = 1 /\ IsList(fresh.padded)
      <4>1. <<>> \in Seq({})
        OBVIOUS
      <4>2. QED
        BY <4>1 DEF IsBuild, IsList
    <3>2. PICK q : q = p
      OBVIOUS
    <3>3. IsBuild(q) /\ q.align = 1
      BY <3>1, <3>2, PushedParts
    <3>4. PICK b : b = build'
      OBVIOUS
    <3>5. b = IF packed THEN q ELSE RaisedTo(q, AlignOf(base))
      BY <1>2, <2>2, <3>2, <3>4
    <3>6. /\ IsBuild(b) /\ b.padded = q.padded /\ b.cursor = q.cursor /\ b.bits = q.bits
          /\ b.region = q.region /\ b.pending = q.pending /\ b.unit = q.unit
          /\ b.align = IF nt.packed THEN 1 ELSE MaxOf(1, AlignOf(nt.base))
      BY <1>2, <3>3, <3>5 DEF IsBuild, RaisedTo
    <3>7. PICK fr : fr = fresh
      OBVIOUS
    <3>8. q = Pushed(fr, 0, nt.base, 0) /\ IsType(nt.base) /\ nt.packed \in BOOLEAN
      BY <1>2, <1>3, <2>2, <3>2, <3>7
    <3> HIDE DEF fresh, p
    <3>9. Loop(b, <<>>, nt) /\ UnitLast(b, nt)
      BY <3>6, <3>7, <3>8, BasedLoop DEF fresh
    <3>10. QED
      BY <3>4, <3>9
  <2>3. QED
    BY <2>1, <2>2
<1>6. QED
  BY <1>1, <1>2, <1>4, <1>5 DEF LoopInv

LEMMA OrdinaryLoop ==
    ASSUME MadeTyped, NotesTyped(notes), LoopInv,
           NEW t \in Types, NEW a \in Aligns \cup {0}, Ordinary(t, a)
    PROVE  LoopInv'
<1>1. /\ Loop(build, fields, notes) /\ notes.packed \in BOOLEAN
      /\ phase' = "open" /\ notes' = notes
      /\ fields' = Append(fields, [kind |-> "field", type |-> t, n |-> a])
  BY DEF LoopInv, NotesTyped, Ordinary, Field
<1>2. IsType(t)
  BY TypesTyped
<1>3. PICK c : c = CloseRegion(build)
  OBVIOUS
<1>4. Loop(c, fields, notes) /\ c.region = NoRegion /\ DOMAIN c.pending = {}
  BY <1>1, <1>3, CloseLoop
<1>5. PICK b : b = FlushUnit(c)
  OBVIOUS
<1>6. /\ IsBuild(b) /\ b.padded = c.padded /\ b.cursor = c.cursor /\ b.align = c.align
      /\ b.bits = c.bits /\ b.pending = c.pending /\ b.region = c.region
      /\ b.unit = 0
  BY <1>4, <1>5 DEF FlushUnit, Loop, IsBuild
<1>7. Loop(b, fields, notes)
  <2>1. Owners(b, fields, notes)
    <3>1. Owners(c, fields, notes)
      BY <1>4 DEF Loop, Placed
    <3>2. \A k : OwnerIs(b, fields, notes, k) = OwnerIs(c, fields, notes, k)
      BY <1>6 DEF OwnerIs
    <3>3. QED
      BY <1>6, <3>1, <3>2 DEF Owners
  <2>2. Units(b, fields)
    BY <1>4, <1>6 DEF Loop, Placed, Units, UnitIs, Beside, WaitsLast
  <2>3. BaseFirst(b, notes)
    BY <1>4, <1>6 DEF Loop, Placed, BaseFirst
  <2>4. QED
    BY <1>4, <1>6, <2>1, <2>2, <2>3 DEF Loop, Placed
<1>8. PICK w : w = Asked(notes, t, a)
  OBVIOUS
<1>9. PICK new : new = Len(fields) + 1
  OBVIOUS
<1>10. PICK p : p = Pushed(b, new, t, AlignUp(b.cursor, w))
  OBVIOUS
<1>11. IsBuild(b) /\ IsList(b.padded)
  BY <1>7, LoopFacts DEF Loop
<1>12. IsBuild(p) /\ p.align = b.align /\ p.unit = 0
  BY <1>6, <1>10, <1>11, PushedParts
<1>13. PICK d : d = build'
  OBVIOUS
<1>14. d = IF notes.packed /\ a = 0 THEN p ELSE RaisedTo(p, w)
  <2>1. FieldAlign(t, a) = w
    BY <1>8 DEF FieldAlign, Asked
  <2>2. This = new
    BY <1>9 DEF This
  <2>3. QED
    BY <1>3, <1>5, <1>10, <1>13, <2>1, <2>2 DEF Ordinary
<1>15. /\ IsBuild(d) /\ d.padded = p.padded /\ d.cursor = p.cursor /\ d.bits = p.bits
       /\ d.region = p.region /\ d.pending = p.pending /\ d.unit = 0
       /\ d.align = IF notes.packed /\ a = 0 THEN b.align ELSE MaxOf(b.align, w)
  BY <1>12, <1>14 DEF IsBuild, RaisedTo
<1>16. PICK f : f = [kind |-> "field", type |-> t, n |-> a]
  OBVIOUS
<1>17. f.kind = "field" /\ f.type = t /\ f.n = a
  BY <1>16
<1>18. b.region = NoRegion /\ DOMAIN b.pending = {}
  BY <1>4, <1>6
<1>19. p = Pushed(b, Len(fields) + 1, t, AlignUp(b.cursor, w))
  BY <1>9, <1>10
<1>20. Loop(d, Append(fields, f), notes)
  BY <1>1, <1>2, <1>7, <1>8, <1>15, <1>17, <1>18, <1>19, FieldLoop
<1>21. Loop(build', fields', notes')
  BY <1>1, <1>13, <1>16, <1>20
<1>22. UnitLast(build', notes')
  BY <1>13, <1>15 DEF UnitLast
<1>23. QED
  BY <1>21, <1>22 DEF LoopInv

LEMMA PackedBitsLoop ==
    ASSUME LoopInv, NEW t \in Scalars, NEW w \in Nat, NEW named \in BOOLEAN,
           PackedBits(t, w, named)
    PROVE  LoopInv'
<1>1. PICK f : f = [kind |-> IF named THEN "bits" ELSE "unnamed", type |-> t, n |-> w]
  OBVIOUS
<1>2. /\ Loop(build, fields, notes) /\ UnitLast(build, notes) /\ notes.packed
      /\ phase' = "open" /\ notes' = notes /\ fields' = Append(fields, f)
  BY <1>1 DEF LoopInv, PackedBits, Field
<1>3. f.type = t /\ f.n = w /\ IsType(f.type) /\ f.n \in Nat
  BY <1>1, ScalarIsType
<1>4. PICK at : at = MaxOf(build.region, 0)
  OBVIOUS
<1>5. at \in Nat
  BY <1>2, <1>4 DEF Loop, MaxOf, NoRegion
<1>6. PICK c : c = build'
  OBVIOUS
<1>7. /\ IsBuild(c) /\ c.padded = build.padded /\ c.cursor = build.cursor
      /\ c.align = build.align /\ c.bits = build.bits /\ c.unit = build.unit
      /\ c.region = at + w
      /\ c.pending = IF named THEN With(build.pending, Len(fields) + 1, at) ELSE build.pending
  BY <1>2, <1>4, <1>6 DEF PackedBits, This, Loop, IsBuild
<1>8. c.region \in Nat
  BY <1>5, <1>7
<1>9. Loop(c, Append(fields, f), notes)
  <2>1. CASE named
    <3>1. f.kind = "bits" /\ c.pending = With(build.pending, Len(fields) + 1, at)
      BY <1>1, <1>7, <2>1
    <3>2. QED
      BY <1>2, <1>3, <1>7, <1>8, <3>1, WaitLoop
  <2>2. CASE ~named
    <3>1. f.kind \notin {"field", "bits"} /\ c.pending = build.pending
      BY <1>1, <1>7, <2>2
    <3>2. c.region \in Nat \cup {NoRegion} /\ c.region # NoRegion
      BY <1>8 DEF NoRegion
    <3>3. QED
      BY <1>2, <1>3, <1>7, <3>1, <3>2, UnnamedLoop
  <2>3. QED
    BY <2>1, <2>2
<1>10. QED
  BY <1>2, <1>6, <1>7, <1>9 DEF LoopInv, UnitLast

LEMMA UnitBitsLoop ==
    ASSUME LoopInv, NotesTyped(notes), NEW t \in Scalars, NEW w \in Nat, NEW named \in BOOLEAN,
           UnitBits(t, w, named)
    PROVE  LoopInv'
<1>1. PICK f : f = [kind |-> IF named THEN "bits" ELSE "unnamed", type |-> t, n |-> w]
  OBVIOUS
<1>2. /\ Loop(build, fields, notes) /\ UnitLast(build, notes) /\ ~notes.packed
      /\ phase' = "open" /\ notes' = notes /\ fields' = Append(fields, f)
      /\ notes.packed \in BOOLEAN
  BY <1>1 DEF LoopInv, UnitBits, Field, NotesTyped
<1>3. f.type = t /\ f.n = w /\ IsType(f.type) /\ f.n \in Nat /\ IsType(t)
  BY <1>1, ScalarIsType
<1>4. PICK q : q = Pushed(build, 0, t, AlignUp(build.cursor, AlignOf(t)))
  OBVIOUS
<1>5. IsBuild(build) /\ IsList(build.padded)
  BY <1>2, LoopFacts DEF Loop
<1>6. IsBuild(q) /\ q.align = build.align
  BY <1>4, <1>5, PushedParts
<1>7. PICK p : p = RaisedTo(q, AlignOf(t))
  OBVIOUS
<1>8. PICK b : b = IF NeedsNew(t, w) THEN [p EXCEPT !.unit = Len(p.padded), !.used = 0]
                   ELSE build
  OBVIOUS
<1>9. IsBuild(b) /\ Loop(b, fields, notes) /\ UnitLast(b, notes) /\ b.unit # 0
  <2>1. CASE NeedsNew(t, w)
    <3>1. /\ IsBuild(p) /\ p.padded = q.padded /\ p.cursor = q.cursor /\ p.bits = q.bits
          /\ p.region = q.region /\ p.pending = q.pending
          /\ p.align = MaxOf(build.align, AlignOf(t))
      BY <1>6, <1>7 DEF RaisedTo, IsBuild
    <3>2. /\ IsBuild(b) /\ b.padded = q.padded /\ b.cursor = q.cursor /\ b.bits = q.bits
          /\ b.region = q.region /\ b.pending = q.pending /\ b.unit = Len(q.padded)
          /\ b.align = MaxOf(build.align, AlignOf(t))
      BY <1>8, <2>1, <3>1 DEF IsBuild
    <3>3. Loop(b, fields, notes) /\ UnitLast(b, notes)
      BY <1>2, <1>3, <1>4, <3>2, NewUnitLoop
    <3>4. b.unit # 0
      <4>1. Len(build.padded) \in Nat /\ Len(build.padded) < Len(q.padded)
        BY <1>4, <1>5, PushedExtends, AppendFacts
      <4>2. QED
        BY <3>2, <4>1
    <3>5. QED
      BY <3>2, <3>3, <3>4
  <2>2. CASE ~NeedsNew(t, w)
    BY <1>2, <1>5, <1>8, <2>2 DEF NeedsNew
  <2>3. QED
    BY <2>1, <2>2
<1>10. PICK x : x = [unit |-> b.unit, offset |-> b.used, bits |-> 8 * SizeOf(t)]
  OBVIOUS
<1>11. x.unit = b.unit
  BY <1>10
<1>12. PICK c : c = build'
  OBVIOUS
<1>13. c = [b EXCEPT !.used = @ + w, !.bits = IF named THEN With(@, Len(fields) + 1, x) ELSE @]
  BY <1>4, <1>7, <1>8, <1>10, <1>12 DEF UnitBits, This
<1>14. /\ IsBuild(c) /\ c.padded = b.padded /\ c.cursor = b.cursor /\ c.align = b.align
       /\ c.pending = b.pending /\ c.region = b.region /\ c.unit = b.unit
       /\ c.bits = IF named THEN With(b.bits, Len(fields) + 1, x) ELSE b.bits
  BY <1>9, <1>13 DEF IsBuild
<1>15. b.region = NoRegion
  BY <1>2, <1>9 DEF Loop
<1>16. Loop(c, Append(fields, f), notes)
  <2>1. CASE named
    <3>1. f.kind = "bits" /\ c.bits = With(b.bits, Len(fields) + 1, x)
      BY <1>1, <1>14, <2>1
    <3>2. QED
      BY <1>3, <1>9, <1>11, <1>14, <1>15, <3>1, BitsLoop
  <2>2. CASE ~named
    <3>1. f.kind \notin {"field", "bits"} /\ c.bits = b.bits
      BY <1>1, <1>14, <2>2
    <3>2. c.region \in Nat \cup {NoRegion} /\ b.region = NoRegion /\ c.region = b.region
      BY <1>14, <1>15
    <3>3. QED
      BY <1>3, <1>9, <1>14, <3>1, <3>2, UnnamedLoop
  <2>3. QED
    BY <2>1, <2>2
<1>17. QED
  BY <1>2, <1>9, <1>12, <1>14, <1>16 DEF LoopInv, UnitLast

LEMMA ZeroWidthLoop ==
    ASSUME LoopInv, NotesTyped(notes), NEW t \in Scalars, ZeroWidth(t)
    PROVE  LoopInv'
<1>1. PICK f : f = [kind |-> "zero", type |-> t, n |-> 0]
  OBVIOUS
<1>2. /\ Loop(build, fields, notes) /\ UnitLast(build, notes)
      /\ phase' = "open" /\ notes' = notes /\ fields' = Append(fields, f)
      /\ notes.packed \in BOOLEAN
  BY <1>1 DEF LoopInv, ZeroWidth, Field, NotesTyped
<1>3. IsType(f.type) /\ f.n \in Nat /\ f.kind \notin {"field", "bits"}
  BY <1>1, ScalarIsType
<1>4. PICK r : r = AlignUp(MaxOf(build.region, 0), 8 * SizeOf(t))
  OBVIOUS
<1>5. r \in Nat
  <2>1. PICK v, a : v = MaxOf(build.region, 0) /\ a = 8 * SizeOf(t)
    OBVIOUS
  <2>2. SizeOf(t) \in Nat \ {0}
    BY ScalarIsType, TypeFacts
  <2>3. v \in Nat
    BY <1>2, <2>1 DEF Loop, MaxOf, NoRegion
  <2>4. a \in Nat \ {0}
    BY <2>1, <2>2
  <2>5. AlignUp(v, a) \in Nat
    BY <2>3, <2>4, AlignUpFacts
  <2>6. QED
    BY <1>4, <2>1, <2>5
<1>6. PICK c : c = build'
  OBVIOUS
<1>7. /\ IsBuild(c) /\ c.padded = build.padded /\ c.cursor = build.cursor
      /\ c.align = build.align /\ c.bits = build.bits /\ c.pending = build.pending
      /\ c.region = IF notes.packed THEN r ELSE build.region
      /\ c.unit = IF notes.packed THEN build.unit ELSE 0
  BY <1>2, <1>4, <1>6 DEF ZeroWidth, FlushUnit, Loop, IsBuild
<1>8. /\ c.region \in Nat \cup {NoRegion} /\ (c.region # build.region => notes.packed)
      /\ (c.region = NoRegion => build.region = NoRegion)
  BY <1>2, <1>5, <1>7 DEF Loop, NoRegion
<1>9. Loop(c, Append(fields, f), notes)
  BY <1>2, <1>3, <1>7, <1>8, UnnamedLoop
<1>10. QED
  BY <1>2, <1>6, <1>7, <1>9 DEF LoopInv, UnitLast

-------------------------------------------------------------------------------
(* Records that are finished.                                               *)

Finished ==
    IsRecord =>
        /\ flds = IF Materialized THEN build.padded ELSE OwnFields
        /\ laid = <<LaidOut(Slots, notes.packed, 0), LaidOut(Slots, notes.packed, 1)>>
        /\ Last(made) = <<Layout(0).size, Layout(0).align, Layout(1).size, Layout(1).align>>
        /\ build.region = NoRegion /\ build.cursor % build.align = 0

\* The list of a record that is not materialised: its base and its fields.
PlainList(s, nt, fs) ==
    LET first == IF nt.base = <<>> THEN 0 ELSE 1
    IN  /\ IsList(s) /\ Len(s) = Len(fs) + first
        /\ \A i \in 1..Len(fs) : s[first + i] = Entry(i, fs[i].type, 0)
        /\ nt.base # <<>> => s[1] = Entry(0, nt.base, 0)

LEMMA PlainListIs ==
    ASSUME IsList(fields), NEW s, s = BaseSlot \o OwnFields, notes.base # <<>>
    PROVE  PlainList(s, notes, fields)
<1>1. PICK n \in Nat : n = Len(fields) /\ DOMAIN fields = 1..n
  BY AppendFacts
<1>2. PICK own : own = OwnFields
  OBVIOUS
<1>3. own = [i \in 1..n |-> Entry(i, fields[i].type, 0)]
  BY <1>1, <1>2 DEF OwnFields
<1>4. PICK e : e = Entry(0, notes.base, 0)
  OBVIOUS
<1>5. PICK S : S = {e} \cup {own[i] : i \in 1..n}
  OBVIOUS
<1>6. own \in [1..n -> S]
  BY <1>3, <1>5
<1>7. own \in Seq(S) /\ Len(own) = n
  BY <1>6, FunctionIsSeq
<1>8. PICK h : h = <<e>>
  OBVIOUS
<1>9. h \in Seq(S) /\ Len(h) = 1 /\ h[1] = e
  BY <1>5, <1>8
<1>10. s = h \o own
  BY <1>2, <1>4, <1>8 DEF BaseSlot
<1>11. /\ s \in Seq(S) /\ Len(s) = Len(h) + Len(own)
       /\ \A i \in 1..Len(h) : s[i] = h[i]
       /\ \A i \in 1..Len(own) : s[Len(h) + i] = own[i]
  <2>1. h \in Seq(S) /\ own \in Seq(S)
    BY <1>7, <1>9
  <2>2. QED
    BY <1>10, <2>1, ConcatFacts
<1>12. Len(s) = n + 1 /\ s[1] = e /\ \A i \in 1..n : s[1 + i] = Entry(i, fields[i].type, 0)
  <2>1. 1 \in 1..Len(h) /\ \A i \in 1..n : i \in 1..Len(own)
    BY <1>7, <1>9
  <2>2. Len(s) = n + 1 /\ s[1] = e
    BY <1>7, <1>9, <1>11, <2>1
  <2>3. \A i \in 1..n : s[1 + i] = own[i]
    BY <1>9, <1>11, <2>1
  <2>4. QED
    BY <1>3, <2>2, <2>3
<1>13. IsList(s)
  BY <1>11 DEF IsList
<1>14. QED
  BY <1>1, <1>4, <1>12, <1>13 DEF PlainList

LEMMA OwnListIs ==
    ASSUME IsList(fields), NEW s, s = OwnFields, notes.base = <<>>
    PROVE  PlainList(s, notes, fields)
<1>1. PICK n \in Nat : n = Len(fields) /\ DOMAIN fields = 1..n
  BY AppendFacts
<1>2. s = [i \in 1..n |-> Entry(i, fields[i].type, 0)]
  BY <1>1 DEF OwnFields
<1>3. PICK S : S = {s[i] : i \in 1..n}
  OBVIOUS
<1>4. s \in [1..n -> S]
  BY <1>2, <1>3
<1>5. s \in Seq(S) /\ Len(s) = n
  BY <1>4, FunctionIsSeq
<1>6. IsList(s)
  BY <1>5 DEF IsList
<1>7. \A i \in 1..n : s[0 + i] = Entry(i, fields[i].type, 0)
  BY <1>2
<1>8. Len(s) = n + 0
  BY <1>5
<1>9. QED
  BY <1>1, <1>6, <1>7, <1>8 DEF PlainList

LEMMA PlainSlots ==
    ASSUME IsList(fields), ~Materialized, NEW s, s = FieldTypes(OwnFields, TRUE)
    PROVE  PlainList(s, notes, fields)
<1>1. s = BaseSlot \o OwnFields
  BY DEF FieldTypes
<1>2. CASE notes.base # <<>>
  BY <1>1, <1>2, PlainListIs
<1>3. CASE notes.base = <<>>
  <2>1. PICK n \in Nat : n = Len(fields) /\ DOMAIN fields = 1..n
    BY AppendFacts
  <2>2. PICK own : own = OwnFields
    OBVIOUS
  <2>3. PlainList(own, notes, fields)
    BY <1>3, <2>2, OwnListIs
  <2>4. PICK S : own \in Seq(S)
    BY <2>3 DEF PlainList, IsList
  <2>5. <<>> \o own = own
    BY <2>4
  <2>6. s = own
    BY <1>1, <1>3, <2>2, <2>5 DEF BaseSlot
  <2>7. QED
    BY <2>3, <2>6
<1>4. QED
  BY <1>2, <1>3

LEMMA PlainTyped ==
    ASSUME NEW nt, NotesTyped(nt), NEW fs, FieldsTyped(fs), NEW s, PlainList(s, nt, fs)
    PROVE  IsTyped(s)
<1>1. PICK n \in Nat : n = Len(fs)
  BY AppendFacts DEF FieldsTyped
<1>2. PICK o \in {0, 1} : o = IF nt.base = <<>> THEN 0 ELSE 1
  OBVIOUS
<1>3. /\ IsList(s) /\ Len(s) = n + o
      /\ \A i \in 1..n : s[o + i] = Entry(i, fs[i].type, 0)
      /\ nt.base # <<>> => s[1] = Entry(0, nt.base, 0)
  BY <1>1, <1>2 DEF PlainList
<1>4. ASSUME NEW k \in 1..(n + o)
      PROVE  IsType(s[k].type)
  <2>1. CASE k <= o
    <3>1. k = 1 /\ o = 1 /\ nt.base # <<>>
      BY <1>2, <2>1
    <3>2. s[k] = Entry(0, nt.base, 0) /\ IsType(nt.base)
      BY <1>3, <3>1 DEF NotesTyped
    <3>3. QED
      BY <3>2 DEF Entry
  <2>2. CASE k > o
    <3>1. PICK i \in 1..n : k = o + i
      <4>1. k - o \in 1..n /\ k = o + (k - o)
        BY <1>1, <2>2
      <4>2. QED
        BY <4>1
    <3>2. s[k] = Entry(i, fs[i].type, 0) /\ IsType(fs[i].type)
      BY <1>1, <1>3, <3>1 DEF FieldsTyped
    <3>3. QED
      BY <3>2 DEF Entry
  <2>3. QED
    BY <2>1, <2>2
<1>5. QED
  BY <1>3, <1>4 DEF IsTyped

\* The padding at the end.
LEMMA ClosedLoop ==
    ASSUME NEW b, NEW fs, NotesTyped(notes), Loop(b, fs, notes), NEW c, c = Closed(b)
    PROVE  /\ Loop(c, fs, notes) /\ c.region = b.region
           /\ c.cursor % c.align = 0 /\ c.bits = b.bits /\ c.pending = b.pending
<1>1. /\ IsBuild(b) /\ IsList(b.padded) /\ b.cursor \in Nat /\ b.align \in Alignments
      /\ b.align \in Nat \ {0} /\ Len(fs) \in Nat
      /\ Adjoining(b.padded, notes.packed, b.cursor, b.align)
      /\ Placed(b, fs, notes) /\ FieldsTyped(fs)
  BY LoopFacts DEF Loop
<1>2. PICK aligned : aligned = MaxOf(b.align, notes.forced)
  OBVIOUS
<1>3. notes.forced \in Nat /\ (notes.forced # 0 => notes.forced \in Alignments)
  <2>1. PICK a \in Aligns \cup {0} : a = notes.forced
    BY DEF NotesTyped
  <2>2. a \in Nat /\ (a # 0 => a \in Alignments)
    BY LayoutAssumption DEF Alignments
  <2>3. QED
    BY <2>1, <2>2
<1>4. aligned \in Alignments /\ b.align <= aligned
  BY <1>1, <1>2, <1>3 DEF MaxOf
<1>5. PICK total : total = AlignUp(b.cursor, aligned)
  OBVIOUS
<1>6. aligned \in Nat \ {0}
  BY <1>4, AlignmentFacts
<1>7. total \in Nat /\ b.cursor <= total /\ total % aligned = 0
  <2>1. PICK v : v = b.cursor
    OBVIOUS
  <2>2. v \in Nat
    BY <1>1, <2>1
  <2>3. AlignUp(v, aligned) \in Nat /\ v <= AlignUp(v, aligned) /\ AlignUp(v, aligned) % aligned = 0
    BY <1>6, <2>2, AlignUpFacts
  <2>4. QED
    BY <1>5, <2>1, <2>3
<1>8. PICK q : q = PaddedTo(b, total)
  OBVIOUS
<1>9. /\ IsBuild(c) /\ c.padded = q /\ c.cursor = total /\ c.align = aligned
      /\ c.bits = b.bits /\ c.pending = b.pending /\ c.region = b.region
  <2>1. c = [b EXCEPT !.align = aligned, !.padded = q, !.cursor = total]
    BY <1>2, <1>5, <1>8 DEF Closed
  <2>2. QED
    BY <1>1, <2>1 DEF IsBuild
<1>10. Adjoining(q, notes.packed, total, b.align)
  BY <1>1, <1>7, <1>8, AdjoinPadded
<1>11. Adjoining(q, notes.packed, total, aligned)
  <2>1. ASSUME NEW k \in 1..Len(q)
        PROVE  EntryFits(q, notes.packed, aligned, k)
    <3>1. EntryFits(q, notes.packed, b.align, k) /\ IsType(q[k].type)
      BY <1>10 DEF Adjoining, IsTyped
    <3>2. AlignOf(q[k].type) \in Nat
      BY <3>1, TypeFacts
    <3>3. QED
      BY <1>1, <1>4, <1>6, <3>1, <3>2 DEF EntryFits
  <2>2. QED
    BY <1>4, <1>10, <2>1 DEF Adjoining
<1>12. Extended(c, b)
  BY <1>1, <1>8, <1>9, PaddedOwners DEF Extended
<1>13. Placed(c, fs, notes)
  BY <1>1, <1>12, ExtendedPlaced
<1>14. /\ c.region \in Nat \cup {NoRegion} /\ (~notes.packed => c.region = NoRegion)
       /\ c.bits = [i \in DOMAIN c.bits |-> c.bits[i]]
  BY <1>9 DEF Loop
<1>15. Loop(c, fs, notes)
  BY <1>1, <1>9, <1>11, <1>13, <1>14 DEF Loop
<1>16. QED
  BY <1>7, <1>9, <1>15

\* The list of the record that is finished.
Ready ==
    /\ IsRecord /\ Finished /\ NotesTyped(notes)
    /\ Loop(build, fields, notes) /\ BuildInv(build, fields)
\* The entry a member is in.
InEntry(s, b, fs, i, k) ==
    /\ k \in 1..Len(s)
    /\ IF fs[i].kind = "field" THEN s[k].of = i
       ELSE i \in DOMAIN b.bits /\ b.bits[i].unit = k
Ordered(s, b, fs, i, j) ==
    \A k, l \in 1..Len(s) :
        InEntry(s, b, fs, i, k) /\ InEntry(s, b, fs, j, l) /\ i < j =>
            k < l \/ (k = l /\ fs[i].kind # "field" /\ fs[j].kind # "field")
Entered(s, b, fs, nt, i) ==
    /\ \E k \in 1..Len(s) : InEntry(s, b, fs, i, k)
    /\ \A k \in 1..Len(s) :
          InEntry(s, b, fs, i, k) =>
              /\ fs[i].kind = "field" => /\ s[k].type = fs[i].type
                                         /\ \A l \in 1..Len(s) : s[l].of = i => l = k
              /\ nt.base # <<>> => 1 < k /\ s[1].type = nt.base
IsMember(fs, i) == i \in 1..Len(fs) /\ fs[i].kind \in {"field", "bits"}

\* In the longer list.
LEMMA PaddedEntered ==
    ASSUME NEW b, NEW fs, NEW nt, Loop(b, fs, nt), DOMAIN b.pending = {},
           NEW i, IsMember(fs, i)
    PROVE  /\ Entered(b.padded, b, fs, nt, i)
           /\ \A j : IsMember(fs, j) => Ordered(b.padded, b, fs, i, j)
<1>1. PICK s : s = b.padded
  OBVIOUS
<1>2. PICK m \in Nat : m = Len(s)
  BY <1>1, LoopFacts
<1>3. PICK n \in Nat : n = Len(fs)
  BY LoopFacts
<1>4. Owners(b, fs, nt) /\ Units(b, fs) /\ BaseFirst(b, nt)
  BY DEF Loop, Placed
<1>5. ASSUME NEW k \in 1..m
      PROVE  s[k].of \in 0..n /\ (s[k].of # 0 => fs[s[k].of].kind = "field"
                                               /\ fs[s[k].of].type = s[k].type)
  <2>1. OwnerIs(b, fs, nt, k)
    BY <1>1, <1>2, <1>4 DEF Owners
  <2>2. QED
    BY <1>1, <1>3, <2>1 DEF OwnerIs
<1>6. \A k, l \in 1..m : k < l /\ s[k].of # 0 /\ s[l].of # 0 => s[k].of < s[l].of
  BY <1>1, <1>2, <1>4 DEF Owners
<1>7. ASSUME NEW j \in DOMAIN b.bits
      PROVE  /\ j \in 1..n /\ fs[j].kind = "bits" /\ b.bits[j].unit \in 1..m
             /\ \A k \in 1..m : s[k].of # 0 => \/ s[k].of < j /\ k < b.bits[j].unit
                                               \/ j < s[k].of /\ b.bits[j].unit < k
             /\ \A l \in DOMAIN b.bits : j < l => b.bits[j].unit <= b.bits[l].unit
  <2>1. UnitIs(b, fs, j)
    BY <1>4 DEF Units
  <2>2. QED
    BY <1>1, <1>2, <1>3, <2>1 DEF UnitIs, Beside
<1>8. i \in 1..n /\ fs[i].kind \in {"field", "bits"} /\ i # 0
  <2>1. i \in 1..n /\ fs[i].kind \in {"field", "bits"}
    BY <1>3 DEF IsMember
  <2>2. QED
    BY <2>1
<1>9. \E k \in 1..m : InEntry(s, b, fs, i, k)
  <2>1. CASE fs[i].kind = "field"
    <3>1. PICK k \in 1..m : s[k].of = i
      BY <1>1, <1>2, <1>3, <1>4, <1>8, <2>1 DEF Owners
    <3>2. QED
      BY <1>2, <2>1, <3>1 DEF InEntry
  <2>2. CASE fs[i].kind = "bits"
    <3>1. i \in DOMAIN b.bits
      BY <1>3, <1>4, <1>8, <2>2 DEF Units
    <3>2. b.bits[i].unit \in 1..m
      BY <1>7, <3>1
    <3>3. InEntry(s, b, fs, i, b.bits[i].unit)
      BY <1>2, <2>2, <3>1, <3>2 DEF InEntry
    <3>4. QED
      BY <3>2, <3>3
  <2>3. QED
    BY <1>8, <2>1, <2>2
<1>10. ASSUME NEW k \in 1..m, InEntry(s, b, fs, i, k)
       PROVE  /\ fs[i].kind = "field" => /\ s[k].type = fs[i].type
                                         /\ \A l \in 1..m : s[l].of = i => l = k
              /\ nt.base # <<>> => 1 < k /\ s[1].type = nt.base
  <2>1. ASSUME fs[i].kind = "field"
        PROVE  s[k].type = fs[i].type /\ s[k].of = i /\ \A l \in 1..m : s[l].of = i => l = k
    <3>1. s[k].of = i /\ s[k].type = fs[i].type
      BY <1>5, <1>8, <1>10, <2>1 DEF InEntry
    <3>2. ASSUME NEW l \in 1..m, s[l].of = i
          PROVE  l = k
      <4>1. ~(s[k].of < s[l].of) /\ ~(s[l].of < s[k].of)
        BY <1>8, <3>1, <3>2
      <4>2. ~(k < l) /\ ~(l < k)
        BY <1>6, <1>8, <3>1, <3>2, <4>1
      <4>3. QED
        BY <4>2
    <3>3. QED
      BY <3>1, <3>2
  <2>2. ASSUME nt.base # <<>>
        PROVE  1 < k /\ s[1].type = nt.base
    <3>1. /\ s[1].of = 0 /\ s[1].type = nt.base
          /\ \A j \in DOMAIN b.bits : b.bits[j].unit # 1
      BY <1>1, <1>4, <2>2 DEF BaseFirst
    <3>2. k # 1
      BY <1>8, <1>10, <2>1, <3>1 DEF InEntry
    <3>3. QED
      BY <3>1, <3>2
  <2>3. QED
    BY <2>1, <2>2
<1>11. ASSUME NEW j, IsMember(fs, j), NEW k \in 1..m, NEW l \in 1..m,
              InEntry(s, b, fs, i, k), InEntry(s, b, fs, j, l), i < j
       PROVE  k < l \/ (k = l /\ fs[i].kind # "field" /\ fs[j].kind # "field")
  <2>1. j \in 1..n /\ j # 0
    BY <1>3, <1>11 DEF IsMember
  <2>2. CASE fs[i].kind = "field" /\ fs[j].kind = "field"
    <3>1. s[k].of = i /\ s[l].of = j
      BY <1>11, <2>2 DEF InEntry
    <3>2. k # l /\ ~(l < k)
      BY <1>6, <1>8, <1>11, <2>1, <3>1
    <3>3. QED
      BY <3>2
  <2>3. CASE fs[i].kind = "field" /\ fs[j].kind # "field"
    <3>1. s[k].of = i /\ j \in DOMAIN b.bits /\ b.bits[j].unit = l
      BY <1>11, <2>3 DEF InEntry
    <3>2. QED
      BY <1>7, <1>8, <1>11, <2>1, <3>1
  <2>4. CASE fs[i].kind # "field" /\ fs[j].kind = "field"
    <3>1. s[l].of = j /\ i \in DOMAIN b.bits /\ b.bits[i].unit = k
      BY <1>11, <2>4 DEF InEntry
    <3>2. QED
      BY <1>7, <1>8, <1>11, <2>1, <3>1
  <2>5. CASE fs[i].kind # "field" /\ fs[j].kind # "field"
    <3>1. /\ i \in DOMAIN b.bits /\ b.bits[i].unit = k
          /\ j \in DOMAIN b.bits /\ b.bits[j].unit = l
      BY <1>11, <2>5 DEF InEntry
    <3>2. k <= l
      BY <1>7, <1>11, <3>1
    <3>3. QED
      BY <2>5, <3>2
  <2>6. QED
    BY <2>2, <2>3, <2>4, <2>5
<1>12. Entered(s, b, fs, nt, i)
  BY <1>2, <1>9, <1>10 DEF Entered
<1>13. \A j : IsMember(fs, j) => Ordered(s, b, fs, i, j)
  BY <1>2, <1>11 DEF Ordered
<1>14. QED
  BY <1>1, <1>12, <1>13

\* In the list of fields.
LEMMA PlainEntered ==
    ASSUME NEW b, NEW fs, NEW nt, NEW s, PlainList(s, nt, fs), IsList(fs),
           \A j \in 1..Len(fs) : fs[j].kind = "field",
           NEW i, IsMember(fs, i)
    PROVE  /\ Entered(s, b, fs, nt, i)
           /\ \A j : IsMember(fs, j) => Ordered(s, b, fs, i, j)
<1>1. PICK n \in Nat : n = Len(fs)
  BY AppendFacts
<1>2. PICK o \in {0, 1} : o = IF nt.base = <<>> THEN 0 ELSE 1
  OBVIOUS
<1>3. /\ Len(s) = n + o
      /\ \A j \in 1..n : s[o + j] = Entry(j, fs[j].type, 0)
      /\ nt.base # <<>> => s[1] = Entry(0, nt.base, 0)
  BY <1>1, <1>2 DEF PlainList
<1>4. /\ \A j \in 1..n : s[o + j].of = j /\ s[o + j].type = fs[j].type
      /\ nt.base # <<>> => o = 1 /\ s[1].of = 0 /\ s[1].type = nt.base
  <2>1. ASSUME NEW j \in 1..n
        PROVE  s[o + j].of = j /\ s[o + j].type = fs[j].type
    <3>1. s[o + j] = Entry(j, fs[j].type, 0)
      BY <1>3
    <3>2. QED
      BY <3>1 DEF Entry
  <2>2. ASSUME nt.base # <<>>
        PROVE  o = 1 /\ s[1].of = 0 /\ s[1].type = nt.base
    <3>1. s[1] = Entry(0, nt.base, 0) /\ o = 1
      BY <1>2, <1>3, <2>2
    <3>2. QED
      BY <3>1 DEF Entry
  <2>3. QED
    BY <2>1, <2>2
<1>5. ASSUME NEW j \in 1..n, NEW k \in 1..(n + o)
      PROVE  s[k].of = j <=> k = o + j
  <2>1. CASE k <= o
    <3>1. k = 1 /\ o = 1 /\ nt.base # <<>>
      BY <1>2, <2>1
    <3>2. QED
      BY <1>4, <3>1
  <2>2. CASE k > o
    <3>1. k - o \in 1..n /\ k = o + (k - o)
      BY <2>2
    <3>2. s[k].of = k - o
      BY <1>4, <3>1
    <3>3. QED
      BY <3>2
  <2>3. QED
    BY <2>1, <2>2
<1>6. ASSUME NEW j, IsMember(fs, j), NEW k \in 1..(n + o)
      PROVE  j \in 1..n /\ (InEntry(s, b, fs, j, k) <=> k = o + j)
  <2>1. j \in 1..n /\ fs[j].kind = "field"
    BY <1>1, <1>6 DEF IsMember
  <2>2. QED
    BY <1>3, <1>5, <2>1 DEF InEntry
<1>7. i \in 1..n /\ o + i \in 1..(n + o)
  BY <1>1 DEF IsMember
<1>8. Entered(s, b, fs, nt, i)
  <2>1. InEntry(s, b, fs, i, o + i)
    BY <1>6, <1>7
  <2>2. ASSUME NEW k \in 1..(n + o), InEntry(s, b, fs, i, k)
        PROVE  /\ s[k].type = fs[i].type
               /\ \A l \in 1..(n + o) : s[l].of = i => l = k
               /\ nt.base # <<>> => 1 < k /\ s[1].type = nt.base
    <3>1. k = o + i
      BY <1>6, <2>2
    <3>2. s[k].type = fs[i].type /\ \A l \in 1..(n + o) : s[l].of = i => l = k
      BY <1>4, <1>5, <1>7, <3>1
    <3>3. nt.base # <<>> => 1 < k /\ s[1].type = nt.base
      BY <1>4, <1>7, <3>1
    <3>4. QED
      BY <3>2, <3>3
  <2>3. QED
    BY <1>3, <1>7, <2>1, <2>2 DEF Entered
<1>9. ASSUME NEW j, IsMember(fs, j)
      PROVE  Ordered(s, b, fs, i, j)
  <2>1. ASSUME NEW k \in 1..(n + o), NEW l \in 1..(n + o),
               InEntry(s, b, fs, i, k), InEntry(s, b, fs, j, l), i < j
        PROVE  k < l
    <3>1. k = o + i /\ l = o + j /\ j \in 1..n
      BY <1>6, <1>9, <2>1
    <3>2. QED
      BY <1>7, <2>1, <3>1
  <2>2. QED
    BY <1>3, <2>1 DEF Ordered
<1>10. QED
  BY <1>8, <1>9

LEMMA SlotsAre ==
    ASSUME Ready
    PROVE  /\ IsTyped(Slots) /\ IsList(fields) /\ notes.packed \in BOOLEAN
           /\ DOMAIN fields = 1..Len(fields) /\ Len(fields) \in Nat
           /\ Layout(0) = LaidOut(Slots, notes.packed, 0)
           /\ Layout(1) = LaidOut(Slots, notes.packed, 1)
           /\ Materialized => Slots = build.padded /\ flds = build.padded
           /\ ~Materialized => PlainList(Slots, notes, fields)
           /\ DOMAIN build.pending = {}
           /\ \A i : i \in Members <=> IsMember(fields, i)
<1>1. /\ flds = IF Materialized THEN build.padded ELSE OwnFields
      /\ laid = <<LaidOut(Slots, notes.packed, 0), LaidOut(Slots, notes.packed, 1)>>
      /\ build.region = NoRegion /\ NotesTyped(notes) /\ Loop(build, fields, notes)
  BY DEF Ready, Finished
<1>2. /\ IsList(fields) /\ Len(fields) \in Nat /\ DOMAIN fields = 1..Len(fields)
      /\ FieldsTyped(fields) /\ IsTyped(build.padded) /\ DOMAIN build.pending = {}
  <2>1. IsList(fields) /\ DOMAIN build.pending = {}
    BY <1>1, LoopFacts
  <2>2. FieldsTyped(fields) /\ IsTyped(build.padded)
    BY <1>1 DEF Loop, Adjoining
  <2>3. QED
    BY <2>1, <2>2, AppendFacts
<1>3. Layout(0) = LaidOut(Slots, notes.packed, 0) /\ Layout(1) = LaidOut(Slots, notes.packed, 1)
  <2>1. 0 + 1 = 1 /\ 1 + 1 = 2
    OBVIOUS
  <2>2. PICK x : x = LaidOut(Slots, notes.packed, 0)
    OBVIOUS
  <2>3. PICK y : y = LaidOut(Slots, notes.packed, 1)
    OBVIOUS
  <2>4. laid = <<x, y>>
    BY <1>1, <2>2, <2>3
  <2>5. laid[1] = x /\ laid[2] = y
    BY <2>4
  <2>6. QED
    BY <2>1, <2>2, <2>3, <2>5 DEF Layout
<1>4. Materialized => Slots = build.padded /\ flds = build.padded
  BY <1>1 DEF Slots, FieldTypes
<1>5. ASSUME ~Materialized
      PROVE  PlainList(Slots, notes, fields)
  <2>1. Slots = FieldTypes(OwnFields, TRUE)
    BY <1>1, <1>5 DEF Slots
  <2>2. QED
    BY <1>2, <1>5, <2>1, PlainSlots
<1>6. IsTyped(Slots)
  BY <1>1, <1>2, <1>4, <1>5, PlainTyped
<1>7. \A i : i \in Members <=> IsMember(fields, i)
  BY <1>2 DEF Members, IsMember
<1>8. notes.packed \in BOOLEAN
  BY <1>1 DEF NotesTyped
<1>9. QED
  BY <1>2, <1>3, <1>4, <1>5, <1>6, <1>7, <1>8

LEMMA MembersEntered ==
    ASSUME Ready, NEW i \in Members
    PROVE  /\ Entered(Slots, build, fields, notes, i)
           /\ \A j \in Members : Ordered(Slots, build, fields, i, j)
           /\ fields[i].kind # "field" => Materialized
<1>1. Loop(build, fields, notes) /\ DOMAIN build.pending = {} /\ IsMember(fields, i)
  BY SlotsAre DEF Ready
<1>2. i \in DOMAIN fields /\ (fields[i].kind # "field" => Materialized)
  BY DEF Members, Materialized, HasBits
<1>3. CASE Materialized
  <2>1. PICK s : s = build.padded
    OBVIOUS
  <2>2. s = Slots
    BY <1>3, <2>1, SlotsAre
  <2>3. /\ Entered(s, build, fields, notes, i)
        /\ \A j : IsMember(fields, j) => Ordered(s, build, fields, i, j)
    BY <1>1, <2>1, PaddedEntered
  <2>4. QED
    BY <1>2, <2>2, <2>3, SlotsAre
<1>4. CASE ~Materialized
  <2>1. PICK s : s = Slots
    OBVIOUS
  <2>2. PlainList(s, notes, fields) /\ IsList(fields) /\ DOMAIN fields = 1..Len(fields)
    BY <1>4, <2>1, SlotsAre
  <2>3. \A j \in 1..Len(fields) : fields[j].kind = "field"
    BY <1>4, <2>2 DEF Materialized, HasBits
  <2>4. /\ Entered(s, build, fields, notes, i)
        /\ \A j : IsMember(fields, j) => Ordered(s, build, fields, i, j)
    BY <1>1, <2>2, <2>3, PlainEntered
  <2>5. QED
    BY <1>2, <2>1, <2>4, SlotsAre
<1>5. QED
  BY <1>3, <1>4

\* The bits of a member are in its entry.
Inside(i, k) ==
    /\ MemberBits(i, 0)[1] \in Nat /\ MemberBits(i, 0)[2] \in Nat
    /\ 8 * Layout(0).at[k] <= MemberBits(i, 0)[1]
    /\ MemberBits(i, 0)[2] <= 8 * (Layout(0).at[k] + SizeOf(Slots[k].type))

LEMMA MemberInside ==
    ASSUME Ready, NEW i \in Members, NEW k, InEntry(Slots, build, fields, i, k)
    PROVE  /\ Inside(i, k) /\ (fields[i].kind = "field" => SlotOf(i) = k)
           /\ fields[i].kind # "field" =>
                 /\ i \in DOMAIN build.bits /\ build.bits[i].unit = k
                 /\ MemberBits(i, 0)[1] = 8 * Layout(0).at[k] + build.bits[i].offset
                 /\ MemberBits(i, 0)[2] =
                       8 * Layout(0).at[k] + build.bits[i].offset + fields[i].n
<1>1. IsTyped(Slots) /\ Layout(0) = LaidOut(Slots, notes.packed, 0) /\ notes.packed \in BOOLEAN
  BY SlotsAre
<1>2. k \in 1..Len(Slots) /\ DOMAIN Slots = 1..Len(Slots)
  BY <1>1, AppendFacts DEF IsTyped, InEntry
<1>3. PICK at : at = Layout(0).at[k]
  OBVIOUS
<1>4. at \in Nat
  <2>1. PICK g : LaidAt(Slots, notes.packed, 0, Layout(0), g)
    BY <1>1, LaidOutIs
  <2>2. QED
    BY <1>2, <1>3, <2>1 DEF LaidAt
<1>5. IsType(Slots[k].type)
  BY <1>1, <1>2 DEF IsTyped
<1>6. PICK size : size = SizeOf(Slots[k].type)
  OBVIOUS
<1>7. size \in Nat
  BY <1>5, <1>6, TypeFacts
<1>8. CASE fields[i].kind = "field"
  <2>1. Entered(Slots, build, fields, notes, i)
    BY MembersEntered
  <2>2. /\ Slots[k].type = fields[i].type
        /\ \A l \in 1..Len(Slots) : Slots[l].of = i => l = k
    BY <1>2, <1>8, <2>1 DEF Entered
  <2>3. Slots[k].of = i
    BY <1>8 DEF InEntry
  <2>4. SlotOf(i) = k
    BY <1>2, <2>2, <2>3 DEF SlotOf
  <2>5. SizeIn(fields[i].type, 0) = size
    BY <1>6, <2>2, TypeParts
  <2>6. MemberBits(i, 0) = <<8 * at, 8 * at + 8 * size>>
    BY <1>3, <1>8, <2>4, <2>5 DEF MemberBits
  <2>7. MemberBits(i, 0)[1] = 8 * at /\ MemberBits(i, 0)[2] = 8 * at + 8 * size
    BY <2>6
  <2>8. QED
    BY <1>3, <1>4, <1>6, <1>7, <1>8, <2>4, <2>7 DEF Inside
<1>9. CASE fields[i].kind # "field"
  <2>1. i \in DOMAIN build.bits /\ build.bits[i].unit = k
    BY <1>9 DEF InEntry
  <2>2. Slots = build.padded
    BY <1>9, MembersEntered, SlotsAre
  <2>3. PlaceInv(build, fields, i)
    BY <2>1 DEF Ready, BuildInv
  <2>4. PICK off, n : off = build.bits[i].offset /\ n = fields[i].n
    OBVIOUS
  <2>5. off \in Nat /\ n \in Nat /\ off + n <= 8 * size
    BY <1>6, <2>1, <2>2, <2>3, <2>4 DEF PlaceInv
  <2>6. MemberBits(i, 0) = <<8 * at + off, 8 * at + off + n>>
    BY <1>3, <1>9, <2>1, <2>4 DEF MemberBits
  <2>7. MemberBits(i, 0)[1] = 8 * at + off /\ MemberBits(i, 0)[2] = 8 * at + off + n
    BY <2>6
  <2>8. Inside(i, k)
    BY <1>3, <1>4, <1>6, <1>7, <2>5, <2>7 DEF Inside
  <2>9. QED
    BY <1>3, <1>9, <2>1, <2>4, <2>7, <2>8
<1>10. QED
  BY <1>8, <1>9

LEMMA ApartHolds ==
    ASSUME Ready
    PROVE  RecordsApart
<1>1. /\ IsTyped(Slots) /\ notes.packed \in BOOLEAN
      /\ Layout(0) = LaidOut(Slots, notes.packed, 0)
  BY SlotsAre
<1>2. PICK L : L = Layout(0)
  OBVIOUS
<1>3. PICK g : LaidAt(Slots, notes.packed, 0, L, g)
  BY <1>1, <1>2, LaidOutIs
<1>4. PICK m \in Nat : m = Len(Slots)
  BY <1>1, AppendFacts DEF IsTyped
<1>5. ASSUME NEW k \in 1..m
      PROVE  /\ L.at[k] \in Nat /\ SizeOf(Slots[k].type) \in Nat
             /\ L.at[k] + SizeOf(Slots[k].type) <= L.size /\ L.size \in Nat
             /\ \A l \in 1..m : k < l => L.at[k] + SizeOf(Slots[k].type) <= L.at[l]
  <2>1. L.at[k] \in Nat /\ L.size \in Nat
    BY <1>3, <1>4 DEF LaidAt
  <2>2. SizeOf(Slots[k].type) \in Nat /\ SizeIn(Slots[k].type, 0) = SizeOf(Slots[k].type)
    BY <1>1, <1>4, TypeFacts, TypeParts DEF IsTyped
  <2>3. /\ L.at[k] + SizeIn(Slots[k].type, 0) <= L.size
        /\ \A l \in 1..m : k < l => L.at[k] + SizeIn(Slots[k].type, 0) <= L.at[l]
    BY <1>1, <1>3, <1>4, LaidApart
  <2>4. QED
    BY <2>1, <2>2, <2>3
<1>6. ASSUME NEW i \in Members
      PROVE  \E k \in 1..m : InEntry(Slots, build, fields, i, k)
  <2>1. Entered(Slots, build, fields, notes, i)
    BY MembersEntered
  <2>2. QED
    BY <1>4, <2>1 DEF Entered
<1>7. ASSUME NEW i \in Members
      PROVE  MemberBits(i, 0)[2] <= 8 * L.size
  <2>1. PICK k \in 1..m : InEntry(Slots, build, fields, i, k)
    BY <1>6
  <2>2. Inside(i, k)
    BY <2>1, MemberInside
  <2>3. PICK a, z : a = L.at[k] /\ z = SizeOf(Slots[k].type)
    OBVIOUS
  <2>4. a \in Nat /\ z \in Nat /\ a + z <= L.size /\ L.size \in Nat
    BY <1>5, <2>3
  <2>5. MemberBits(i, 0)[2] \in Nat /\ MemberBits(i, 0)[2] <= 8 * (a + z)
    BY <1>2, <2>2, <2>3 DEF Inside
  <2>6. QED
    BY <2>4, <2>5
<1>8. ASSUME NEW i \in Members, notes.base # <<>>
      PROVE  MemberBits(i, 0)[1] >= 8 * SizeOf(notes.base)
  <2>1. PICK k \in 1..m : InEntry(Slots, build, fields, i, k)
    BY <1>6
  <2>2. 1 < k /\ Slots[1].type = notes.base
    <3>1. Entered(Slots, build, fields, notes, i)
      BY MembersEntered
    <3>2. QED
      BY <1>4, <1>8, <2>1, <3>1 DEF Entered
  <2>3. Inside(i, k)
    BY <2>1, MemberInside
  <2>4. 1 \in 1..m
    BY <2>2
  <2>5. PICK a, z, c : a = L.at[1] /\ z = SizeOf(notes.base) /\ c = L.at[k]
    OBVIOUS
  <2>6. a \in Nat /\ z \in Nat /\ c \in Nat /\ a + z <= c
    BY <1>5, <2>2, <2>4, <2>5
  <2>7. MemberBits(i, 0)[1] \in Nat /\ 8 * c <= MemberBits(i, 0)[1]
    BY <1>2, <2>3, <2>5 DEF Inside
  <2>8. QED
    BY <2>5, <2>6, <2>7
<1>9. ASSUME NEW i \in Members, NEW j \in Members, i < j
      PROVE  MemberBits(i, 0)[2] <= MemberBits(j, 0)[1]
  <2>1. PICK k \in 1..m : InEntry(Slots, build, fields, i, k)
    BY <1>6
  <2>2. PICK l \in 1..m : InEntry(Slots, build, fields, j, l)
    BY <1>6
  <2>3. k < l \/ (k = l /\ fields[i].kind # "field" /\ fields[j].kind # "field")
    <3>1. Ordered(Slots, build, fields, i, j)
      BY MembersEntered
    <3>2. QED
      BY <1>4, <1>9, <2>1, <2>2, <3>1 DEF Ordered
  <2>4. Inside(i, k) /\ Inside(j, l)
    BY <2>1, <2>2, MemberInside
  <2>5. PICK a, z, c : a = L.at[k] /\ z = SizeOf(Slots[k].type) /\ c = L.at[l]
    OBVIOUS
  <2>6. a \in Nat /\ z \in Nat /\ c \in Nat /\ (k < l => a + z <= c)
    BY <1>5, <2>5
  <2>7. /\ MemberBits(i, 0)[2] \in Nat /\ MemberBits(i, 0)[2] <= 8 * (a + z)
        /\ MemberBits(j, 0)[1] \in Nat /\ 8 * c <= MemberBits(j, 0)[1]
    BY <1>2, <2>4, <2>5 DEF Inside
  <2>8. CASE k < l
    BY <2>6, <2>7, <2>8
  <2>9. CASE k = l /\ fields[i].kind # "field" /\ fields[j].kind # "field"
    <3>1. /\ i \in DOMAIN build.bits /\ build.bits[i].unit = k
          /\ MemberBits(i, 0)[2] = 8 * L.at[k] + build.bits[i].offset + fields[i].n
      BY <1>2, <2>1, <2>9, MemberInside
    <3>2. /\ j \in DOMAIN build.bits /\ build.bits[j].unit = k
          /\ MemberBits(j, 0)[1] = 8 * L.at[k] + build.bits[j].offset
      BY <1>2, <2>2, <2>9, MemberInside
    <3>3. PlaceInv(build, fields, i) /\ PlaceInv(build, fields, j)
      BY <3>1, <3>2 DEF Ready, BuildInv
    <3>4. PICK p, n, q : p = build.bits[i].offset /\ n = fields[i].n /\ q = build.bits[j].offset
      OBVIOUS
    <3>5. p \in Nat /\ n \in Nat /\ q \in Nat /\ p + n <= q
      BY <1>9, <3>1, <3>2, <3>3, <3>4 DEF PlaceInv
    <3>6. QED
      BY <2>5, <2>6, <3>1, <3>2, <3>4, <3>5
  <2>10. QED
    BY <2>3, <2>8, <2>9
<1>10. ASSUME build.bits # NoBits
       PROVE  Slots = build.padded
  <2>1. build.bits = [i \in DOMAIN build.bits |-> build.bits[i]]
    BY DEF Ready, Loop
  <2>2. DOMAIN build.bits # {}
    <3>1. SUFFICES ASSUME DOMAIN build.bits = {} PROVE FALSE
      OBVIOUS
    <3>2. build.bits = [i \in {} |-> build.bits[i]]
      BY <2>1, <3>1
    <3>3. build.bits \in [1..0 -> {}]
      BY <3>2
    <3>4. build.bits \in Seq({}) /\ Len(build.bits) = 0
      BY <3>3, FunctionIsSeq
    <3>5. QED
      BY <1>10, <3>4 DEF NoBits
  <2>3. PICK i \in DOMAIN build.bits : TRUE
    BY <2>2
  <2>4. UnitIs(build, fields, i)
    BY DEF Ready, Loop, Placed, Units
  <2>5. i \in DOMAIN fields /\ fields[i].kind # "field"
    BY <2>4, SlotsAre DEF UnitIs
  <2>6. Materialized
    BY <2>5 DEF Materialized, HasBits
  <2>7. QED
    BY <2>6, SlotsAre
<1>11. QED
  BY <1>2, <1>7, <1>8, <1>9, <1>10 DEF RecordsApart

LEMMA TargetsHold ==
    ASSUME Ready
    PROVE  TargetsMet /\ RebuildAgrees
<1> SUFFICES ASSUME Materialized PROVE TargetsMet /\ RebuildAgrees
  BY DEF TargetsMet, RebuildAgrees
<1>1. /\ IsTyped(Slots) /\ notes.packed \in BOOLEAN
      /\ Layout(0) = LaidOut(Slots, notes.packed, 0)
      /\ Slots = build.padded /\ flds = build.padded
  BY SlotsAre
<1>2. PICK L : L = Layout(0)
  OBVIOUS
<1>3. Adjoining(build.padded, notes.packed, build.cursor, build.align)
  BY DEF Ready, Loop
<1>4. build.cursor % build.align = 0
  BY DEF Ready, Finished
<1>5. /\ \A k \in 1..Len(build.padded) : L.at[k] = build.padded[k].at
      /\ L.size = build.cursor /\ L.align \in Alignments /\ build.align % L.align = 0
  <2>1. PICK list, cursor, align : list = build.padded /\ cursor = build.cursor /\ align = build.align
    OBVIOUS
  <2>2. /\ Adjoining(list, notes.packed, cursor, align) /\ cursor % align = 0
        /\ L = LaidOut(list, notes.packed, 0)
    BY <1>1, <1>2, <1>3, <1>4, <2>1
  <2>3. /\ \A k \in 1..Len(list) : L.at[k] = list[k].at
        /\ L.size = cursor /\ L.align \in Alignments /\ align % L.align = 0
    BY <1>1, <2>2, LaidExact
  <2>4. QED
    BY <2>1, <2>3
<1>6. DOMAIN flds = 1..Len(build.padded)
  BY <1>1, AppendFacts DEF IsTyped
<1>7. ASSUME NEW i \in DOMAIN fields, fields[i].kind = "field"
      PROVE  L.at[SlotOf(i)] % FieldAlign(fields[i].type, fields[i].n) = 0
  <2>1. i \in Members /\ i # 0
    BY <1>7, SlotsAre DEF Members
  <2>2. PICK k \in 1..Len(Slots) : InEntry(Slots, build, fields, i, k)
    BY <2>1, MembersEntered DEF Entered
  <2>3. SlotOf(i) = k
    BY <1>7, <2>1, <2>2, MemberInside
  <2>4. Slots[k].of = i
    BY <1>7, <2>2 DEF InEntry
  <2>5. OwnerIs(build, fields, notes, k)
    BY <1>1, <2>2 DEF Ready, Loop, Placed, Owners
  <2>6. /\ fields[i].type = build.padded[k].type
        /\ build.padded[k].at % Asked(notes, build.padded[k].type, fields[i].n) = 0
    BY <1>1, <2>1, <2>4, <2>5 DEF OwnerIs
  <2>7. Asked(notes, build.padded[k].type, fields[i].n)
            = FieldAlign(fields[i].type, fields[i].n)
    BY <2>6 DEF Asked, FieldAlign
  <2>8. L.at[k] = build.padded[k].at
    BY <1>1, <1>5, <2>2
  <2>9. QED
    BY <2>3, <2>6, <2>7, <2>8
<1>8. TargetsMet
  BY <1>1, <1>2, <1>4, <1>5, <1>6, <1>7 DEF TargetsMet
<1>9. SizeOf(Last(made)) = L.size /\ AlignOf(Last(made)) = L.align
  <2>1. Last(made) = <<Layout(0).size, Layout(0).align, Layout(1).size, Layout(1).align>>
    BY DEF Ready, Finished
  <2>2. QED
    BY <1>2, <2>1 DEF SizeOf, AlignOf
<1>10. ASSUME NEW resolves \in BOOLEAN
       PROVE  LET again == LaidOut(FieldTypes(flds, resolves), notes.packed, 0)
              IN  /\ \A k \in DOMAIN flds : again.at[k] = flds[k].at
                  /\ again.size = SizeOf(Last(made)) /\ again.align = AlignOf(Last(made))
  <2>1. FieldTypes(flds, resolves) = Slots
    BY <1>1 DEF FieldTypes
  <2>2. LaidOut(FieldTypes(flds, resolves), notes.packed, 0) = L
    BY <1>1, <1>2, <2>1
  <2>3. QED
    BY <1>1, <1>5, <1>6, <1>9, <2>2
<1>11. RebuildAgrees
  BY <1>10 DEF RebuildAgrees
<1>12. QED
  BY <1>8, <1>11

-------------------------------------------------------------------------------
(* The steps that finish a type.                                            *)

LEMMA MadeLonger ==
    ASSUME MadeTyped, NEW t, IsType(t), made' = Append(made, t)
    PROVE  MadeTyped' /\ Last(made)' = t
<1>1. PICK n \in Nat : n = Len(made)
  BY AppendFacts DEF MadeTyped
<1>2. /\ IsList(made') /\ Len(made') = n + 1 /\ made'[n + 1] = t
      /\ \A k \in 1..n : made'[k] = made[k]
  BY <1>1, AppendFacts DEF MadeTyped
<1>3. \A k \in 1..(n + 1) : k \in 1..n \/ k = n + 1
  BY <1>1
<1>4. QED
  BY <1>1, <1>2, <1>3 DEF MadeTyped, Last

LEMMA FinishLoop ==
    ASSUME MadeTyped, NotesTyped(notes), LoopInv, Finish
    PROVE  MadeTyped' /\ LoopInv' /\ Finished'
<1>1. /\ Loop(build, fields, notes) /\ notes.packed \in BOOLEAN
      /\ phase' = "record" /\ notes' = notes /\ fields' = fields
  BY DEF LoopInv, NotesTyped, Finish
<1>2. PICK c : c = CloseRegion(build)
  OBVIOUS
<1>3. Loop(c, fields, notes) /\ c.region = NoRegion
  BY <1>1, <1>2, CloseLoop
<1>4. PICK b : b = Closed(c)
  OBVIOUS
<1>5. Loop(b, fields, notes) /\ b.region = NoRegion /\ b.cursor % b.align = 0
  BY <1>3, <1>4, ClosedLoop
<1>6. PICK list : list = IF Materialized THEN b.padded ELSE OwnFields
  OBVIOUS
<1>7. PICK slots : slots = FieldTypes(list, TRUE)
  OBVIOUS
<1>8. PICK here : here = LaidOut(slots, notes.packed, 0)
  OBVIOUS
<1>9. PICK there : there = LaidOut(slots, notes.packed, 1)
  OBVIOUS
<1>10. PICK t : t = <<here.size, here.align, there.size, there.align>>
  OBVIOUS
<1>11. /\ slots # <<>> /\ build' = b /\ flds' = list /\ laid' = <<here, there>>
       /\ made' = Append(made, t)
  BY <1>2, <1>4, <1>6, <1>7, <1>8, <1>9, <1>10 DEF Finish
<1>12. IsTyped(slots)
  <2>1. CASE Materialized
    <3>1. slots = b.padded
      BY <1>6, <1>7, <2>1 DEF FieldTypes
    <3>2. QED
      BY <1>5, <3>1 DEF Loop, Adjoining
  <2>2. CASE ~Materialized
    <3>1. slots = FieldTypes(OwnFields, TRUE)
      BY <1>6, <1>7, <2>2
    <3>2. IsList(fields) /\ FieldsTyped(fields)
      BY <1>1 DEF Loop, FieldsTyped
    <3>3. PlainList(slots, notes, fields)
      BY <2>2, <3>1, <3>2, PlainSlots
    <3>4. QED
      BY <3>2, <3>3, PlainTyped
  <2>3. QED
    BY <2>1, <2>2
<1>13. IsType(t)
  BY <1>1, <1>8, <1>9, <1>10, <1>11, <1>12, LaidIsType
<1>14. MadeTyped' /\ Last(made)' = t
  BY <1>11, <1>13, MadeLonger
<1>15. LoopInv'
  BY <1>1, <1>5, <1>11 DEF LoopInv
<1>16. Materialized' = Materialized /\ OwnFields' = OwnFields /\ BaseSlot' = BaseSlot
  BY <1>1 DEF Materialized, HasBits, Annotated, OwnFields, BaseSlot
<1>17. Slots' = slots
  BY <1>7, <1>11, <1>16 DEF Slots, FieldTypes
<1>18. flds' = IF Materialized' THEN build'.padded ELSE OwnFields'
  BY <1>6, <1>11, <1>16
<1>19. laid' = <<LaidOut(Slots', notes'.packed, 0), LaidOut(Slots', notes'.packed, 1)>>
  BY <1>1, <1>8, <1>9, <1>11, <1>17
<1>20. Layout(0)' = here /\ Layout(1)' = there
  <2>1. 0 + 1 = 1 /\ 1 + 1 = 2
    OBVIOUS
  <2>2. laid'[1] = here /\ laid'[2] = there
    BY <1>11
  <2>3. QED
    BY <2>1, <2>2 DEF Layout
<1>21. Last(made)' = <<Layout(0)'.size, Layout(0)'.align, Layout(1)'.size, Layout(1)'.align>>
  BY <1>10, <1>14, <1>20
<1>22. build'.region = NoRegion /\ build'.cursor % build'.align = 0
  BY <1>5, <1>11
<1>23. Finished'
  BY <1>18, <1>19, <1>21, <1>22 DEF Finished
<1>24. QED
  BY <1>14, <1>15, <1>23

\* The greater of two.
LEMMA MaxOfTwo ==
    ASSUME NEW a \in Nat, NEW b \in Nat, NEW m, m = Max({a, b})
    PROVE  m \in {a, b} /\ a <= m /\ b <= m
<1>1. \E x \in {a, b} : \A y \in {a, b} : x >= y
  OBVIOUS
<1>2. QED
  BY <1>1 DEF Max

\* A list of two.
LEMMA TwoIsList ==
    ASSUME NEW S, NEW e \in S, NEW f \in S
    PROVE  <<e, f>> \in Seq(S)
  OBVIOUS

LEMMA UnionStep ==
    ASSUME MadeTyped, NEW s \in Types, NEW t \in Types, NEW w \in Nat,
           NEW forced \in Aligns \cup {0}, MakeUnion(s, t, w, forced)
    PROVE  MadeTyped' /\ NotesTyped(notes') /\ UnionHolds'
<1>1. IsType(s) /\ IsType(t)
  BY TypesTyped
<1>2. PICK members :
        members = <<[kind |-> "field", type |-> s, n |-> 0],
                    [kind |-> IF w = 0 THEN "field" ELSE "bits", type |-> t, n |-> w]>>
  OBVIOUS
<1>3. /\ DOMAIN members = {1, 2} /\ members[1].type = s /\ members[2].type = t
      /\ members[1].kind = "field" /\ members[2].n = w
  BY <1>2
<1>4. PICK a, b : a = AlignOf(s) /\ b = AlignOf(t)
  OBVIOUS
<1>5. PICK x, y : x = SizeOf(s) /\ y = SizeOf(t)
  OBVIOUS
<1>6. /\ a \in Nat \ {0} /\ b \in Nat \ {0} /\ x \in Nat \ {0} /\ y \in Nat \ {0}
      /\ x % a = 0 /\ y % b = 0
  BY <1>1, <1>4, <1>5, TypeFacts
<1>7. PICK block : block = UnionBlock(members)
  OBVIOUS
<1>8. IsType(block) /\ a <= AlignOf(block) /\ b <= AlignOf(block) /\ block \in {s, t}
  <2>1. PICK S : S = {AlignOf(members[i].type) : i \in DOMAIN members}
    OBVIOUS
  <2>2. S = {a, b}
    BY <1>3, <1>4, <2>1
  <2>3. PICK most : most = Max(S)
    OBVIOUS
  <2>4. most \in {a, b} /\ a <= most /\ b <= most
    BY <1>6, <2>2, <2>3, MaxOfTwo
  <2>5. PICK T : T = {j \in DOMAIN members : AlignOf(members[j].type) = most}
    OBVIOUS
  <2>6. T \subseteq {1, 2} /\ T # {} /\ \A j \in T : AlignOf(members[j].type) = most
    BY <1>3, <1>4, <2>4, <2>5
  <2>7. PICK i : i = Min(T)
    OBVIOUS
  <2>8. i \in T
    <3>1. CASE 1 \in T
      <4>1. \A v \in T : 1 <= v
        BY <2>6
      <4>2. QED
        BY <2>7, <3>1, <4>1 DEF Min
    <3>2. CASE 1 \notin T
      <4>1. T = {2}
        BY <2>6, <3>2
      <4>2. \E u \in T : \A v \in T : u <= v
        BY <4>1
      <4>3. QED
        BY <2>7, <4>2 DEF Min
    <3>3. QED
      BY <3>1, <3>2
  <2>9. block = members[i].type
    BY <1>7, <2>1, <2>3, <2>5, <2>7 DEF UnionBlock
  <2>10. AlignOf(block) = most /\ i \in {1, 2}
    BY <2>6, <2>8, <2>9
  <2>11. block \in {s, t}
    BY <1>3, <2>9, <2>10
  <2>12. QED
    BY <1>1, <2>4, <2>10, <2>11
<1>9. PICK size : size = UnionSize(members, forced)
  OBVIOUS
<1>10. size \in Nat /\ x <= size /\ y <= size
  <2>1. PICK S : S = {SizeOf(members[i].type) : i \in DOMAIN members}
    OBVIOUS
  <2>2. S = {x, y}
    BY <1>3, <1>5, <2>1
  <2>3. PICK largest : largest = Max(S)
    OBVIOUS
  <2>4. largest \in Nat /\ x <= largest /\ y <= largest
    BY <1>6, <2>2, <2>3, MaxOfTwo
  <2>5. size = IF forced = 0 THEN largest ELSE AlignUp(largest, forced)
    BY <1>9, <2>1, <2>3 DEF UnionSize
  <2>6. forced # 0 => AlignUp(largest, forced) \in Nat /\ largest <= AlignUp(largest, forced)
    <3>1. forced # 0 => forced \in Nat \ {0}
      BY LayoutAssumption
    <3>2. QED
      BY <2>4, <3>1, AlignUpFacts
  <2>7. CASE forced = 0
    BY <2>4, <2>5, <2>7
  <2>8. CASE forced # 0
    <3>1. PICK v : v = AlignUp(largest, forced)
      OBVIOUS
    <3>2. v \in Nat /\ largest <= v /\ size = v
      BY <2>5, <2>6, <2>8, <3>1
    <3>3. QED
      BY <1>6, <2>4, <3>2
  <2>9. QED
    BY <2>7, <2>8
<1>11. PICK z : z = SizeOf(block)
  OBVIOUS
<1>12. z \in Nat \ {0} /\ z <= size
  BY <1>5, <1>6, <1>8, <1>10, <1>11
<1>13. PICK rest \in Nat : rest = size - z
  BY <1>10, <1>12
<1>14. PICK e : e = Entry(0, block, 0)
  OBVIOUS
<1>15. PICK f : f = Entry(0, Bytes(rest), z)
  OBVIOUS
<1>16. PICK list : list = <<e>> \o (IF rest = 0 THEN <<>> ELSE <<f>>)
  OBVIOUS
<1>17. e.type = block /\ f.type = Bytes(rest)
  BY <1>14, <1>15 DEF Entry
<1>18. list = IF rest = 0 THEN <<e>> ELSE <<e, f>>
  BY <1>16
<1>19. /\ IsList(list) /\ list[1] = e /\ Len(list) = IF rest = 0 THEN 1 ELSE 2
       /\ rest # 0 => list[2] = f
  <2>1. CASE rest = 0
    <3>1. list = <<e>>
      BY <1>18, <2>1
    <3>2. list \in Seq({e})
      BY <3>1
    <3>3. QED
      BY <2>1, <3>1, <3>2 DEF IsList
  <2>2. CASE rest # 0
    <3>1. list = <<e, f>>
      BY <1>18, <2>2
    <3>2. /\ Len(list) = 2 /\ list[1] = e /\ list[2] = f
          /\ DOMAIN list = 1..2
      BY <3>1
    <3>3. PICK S : e \in S /\ f \in S
      <4>1. e \in {e, f} /\ f \in {e, f}
        OBVIOUS
      <4>2. QED
        BY <4>1
    <3>4. list \in Seq(S)
      BY <3>1, <3>3, TwoIsList
    <3>5. QED
      BY <2>2, <3>2, <3>4 DEF IsList
  <2>3. QED
    BY <2>1, <2>2
<1>20. IsTyped(list)
  <2>1. ASSUME NEW k \in 1..Len(list)
        PROVE  IsType(list[k].type)
    <3>1. CASE k = 1
      BY <1>8, <1>17, <1>19, <3>1
    <3>2. CASE k # 1
      <4>1. k = 2 /\ rest \in Nat \ {0}
        BY <1>19, <3>2
      <4>2. QED
        BY <1>17, <1>19, <4>1, BytesIsType
    <3>3. QED
      BY <3>1, <3>2
  <2>2. QED
    BY <1>19, <2>1 DEF IsTyped
<1>21. PICK here : here = LaidOut(list, FALSE, 0)
  OBVIOUS
<1>22. PICK there : there = LaidOut(list, FALSE, 1)
  OBVIOUS
<1>23. PICK u : u = <<here.size, here.align, there.size, there.align>>
  OBVIOUS
<1>24. /\ fields' = members /\ laid' = <<here, there>> /\ made' = Append(made, u)
       /\ phase' = "union" /\ w <= 8 * SizeOf(t)
       /\ notes' = [packed |-> FALSE, forced |-> forced, base |-> <<>>]
  BY <1>2, <1>7, <1>9, <1>11, <1>13, <1>14, <1>15, <1>16, <1>21, <1>22, <1>23 DEF MakeUnion
<1>25. list # <<>>
  BY <1>19
<1>26. IsType(u)
  BY <1>20, <1>21, <1>22, <1>23, <1>25, LaidIsType
<1>27. MadeTyped'
  BY <1>24, <1>26, MadeLonger
<1>28. NotesTyped(notes')
  BY <1>24 DEF NotesTyped
<1>29. size <= here.size /\ here.size \in Nat
  <2>1. PICK g : LaidAt(list, FALSE, 0, here, g)
    BY <1>20, <1>21, LaidOutIs
  <2>2. 1 \in 1..Len(list) /\ here.at[1] \in Nat /\ here.size \in Nat
    BY <1>19, <2>1 DEF LaidAt
  <2>3. /\ \A i, j \in 1..Len(list) : i < j => here.at[i] + SizeIn(list[i].type, 0) <= here.at[j]
        /\ \A i \in 1..Len(list) : here.at[i] + SizeIn(list[i].type, 0) <= here.size
    BY <1>20, <2>1, LaidApart
  <2>4. SizeIn(list[1].type, 0) = z
    BY <1>11, <1>17, <1>19, TypeParts
  <2>5. CASE rest = 0
    BY <1>10, <1>12, <1>13, <2>2, <2>3, <2>4, <2>5
  <2>6. CASE rest # 0
    <3>1. 2 \in 1..Len(list) /\ list[2] = f /\ 1 < 2
      BY <1>19, <2>6
    <3>2. SizeIn(list[2].type, 0) = rest
      BY <1>13, <1>17, <2>6, <3>1, BytesIsType, TypeParts
    <3>3. here.at[2] \in Nat
      BY <2>1, <3>1 DEF LaidAt
    <3>4. here.at[1] + z <= here.at[2] /\ here.at[2] + rest <= here.size
      BY <2>2, <2>3, <2>4, <3>1, <3>2
    <3>5. QED
      BY <1>10, <1>12, <1>13, <2>2, <3>3, <3>4
  <2>7. QED
    BY <2>5, <2>6
<1>30. Layout(0)'.size = here.size
  <2>1. 0 + 1 = 1 /\ laid'[1] = here
    BY <1>24
  <2>2. QED
    BY <2>1 DEF Layout
<1>31. AlignOf(block) <= z
  <2>1. PICK c : c = AlignOf(block)
    OBVIOUS
  <2>2. c \in Nat \ {0} /\ z % c = 0
    BY <1>8, <1>11, <2>1, TypeFacts
  <2>3. PICK q \in Nat : z = c * q
    BY <1>12, <2>2, DividesIs
  <2>4. q # 0
    BY <1>12, <2>2, <2>3
  <2>5. c * 1 <= c * q
    BY <2>2, <2>4
  <2>6. QED
    BY <2>1, <2>2, <2>3, <2>5
<1>32. ASSUME NEW i \in DOMAIN members
       PROVE  /\ SizeOf(members[i].type) <= here.size
              /\ members[i].kind = "bits" /\ AlignOf(members[i].type) = SizeOf(members[i].type) =>
                    members[i].n <= 8 * z
  <2>1. CASE i = 1
    BY <1>3, <1>5, <1>6, <1>10, <1>29, <2>1
  <2>2. CASE i = 2
    <3>1. members[i].type = t /\ members[i].n = w /\ y <= here.size
      BY <1>3, <1>6, <1>10, <1>29, <2>2
    <3>2. b = y => w <= 8 * z
      <4>1. AlignOf(block) \in Nat
        BY <1>8, TypeFacts
      <4>2. QED
        BY <1>4, <1>5, <1>6, <1>8, <1>12, <1>24, <1>31, <4>1
    <3>3. QED
      BY <1>4, <1>5, <3>1, <3>2
  <2>3. QED
    BY <1>3, <2>1, <2>2
<1>33. UnionBlock(fields') = block
  BY <1>7, <1>24
<1>34. UnionHolds'
  BY <1>11, <1>24, <1>30, <1>32, <1>33 DEF UnionHolds
<1>35. QED
  BY <1>27, <1>28, <1>34

-------------------------------------------------------------------------------
(* The invariant: the types made so far are types; the entries of the loop  *)
(* adjoin, and each member is in the entry it has been given; a record that *)
(* is finished has been laid out of the list it was given.                  *)

LayoutInv ==
    /\ Inv /\ MadeTyped /\ NotesTyped(notes)
    /\ LoopInv /\ Finished /\ UnionHolds

LEMMA InitLayout == Init => LayoutInv
<1> SUFFICES ASSUME Init PROVE LayoutInv
  OBVIOUS
<1>1. /\ made = <<>> /\ phase = "record" /\ fields = <<>>
      /\ notes = [packed |-> FALSE, forced |-> 0, base |-> <<>>]
      /\ build = [cursor |-> 0, align |-> 1, padded |-> <<>>, unit |-> 0, used |-> 0,
                  region |-> NoRegion, pending |-> NoBits, bits |-> NoBits]
  BY DEF Init
<1>2. notes.packed = FALSE /\ notes.forced = 0 /\ notes.base = <<>>
  BY <1>1
<1>3. Inv
  BY InitInv
<1>4. MadeTyped
  <2>1. made \in Seq({}) /\ Len(made) = 0
    BY <1>1
  <2>2. QED
    BY <2>1 DEF MadeTyped, IsList
<1>5. NotesTyped(notes)
  BY <1>2 DEF NotesTyped
<1>6. LoopInv
  <2>1. PICK nt, b : nt = notes /\ b = build
    OBVIOUS
  <2>2. /\ nt.packed \in BOOLEAN /\ nt.base = <<>>
        /\ b = [cursor |-> 0, align |-> 1, padded |-> <<>>, unit |-> 0, used |-> 0,
                region |-> NoRegion, pending |-> NoBits, bits |-> NoBits]
    BY <1>1, <1>2, <2>1
  <2>3. Loop(b, <<>>, nt) /\ UnitLast(b, nt)
    BY <2>2, FreshLoop
  <2>4. QED
    BY <1>1, <2>1, <2>3 DEF LoopInv
<1>7. Finished /\ UnionHolds
  BY <1>1 DEF Finished, IsRecord, UnionHolds
<1>8. QED
  BY <1>3, <1>4, <1>5, <1>6, <1>7 DEF LayoutInv

\* While a record is open, nothing is finished and nothing is a union.
LEMMA StillOpen ==
    ASSUME LayoutInv, LoopInv', phase' = "open", notes' = notes, made' = made, Inv'
    PROVE  LayoutInv'
<1>1. MadeTyped' /\ NotesTyped(notes')
  BY DEF LayoutInv, MadeTyped, NotesTyped
<1>2. Finished' /\ UnionHolds'
  BY DEF Finished, IsRecord, UnionHolds
<1>3. QED
  BY <1>1, <1>2 DEF LayoutInv

LEMMA NextLayout == LayoutInv /\ [Next]_vars => LayoutInv'
<1> SUFFICES ASSUME LayoutInv, [Next]_vars PROVE LayoutInv'
  OBVIOUS
<1>1. MadeTyped /\ NotesTyped(notes) /\ LoopInv /\ Finished /\ UnionHolds
  BY DEF LayoutInv
<1>2. Inv'
  BY NextInv DEF LayoutInv
<1>3. ASSUME NEW p \in BOOLEAN, NEW a \in Aligns \cup {0},
             NEW t \in Range(made) \cup {<<>>}, Begin(p, a, t)
      PROVE  LayoutInv'
  <2>1. LoopInv' /\ NotesTyped(notes')
    BY <1>1, <1>3, BeginLoop
  <2>2. phase' = "open" /\ made' = made
    BY <1>3 DEF Begin
  <2>3. MadeTyped'
    BY <1>1, <2>2 DEF MadeTyped
  <2>4. Finished' /\ UnionHolds'
    BY <2>2 DEF Finished, IsRecord, UnionHolds
  <2>5. QED
    BY <1>2, <2>1, <2>3, <2>4 DEF LayoutInv
<1>4. ASSUME NEW t \in Types, NEW a \in Aligns \cup {0}, Ordinary(t, a)
      PROVE  LayoutInv'
  <2>1. LoopInv'
    BY <1>1, <1>4, OrdinaryLoop
  <2>2. phase' = "open" /\ notes' = notes /\ made' = made
    BY <1>1, <1>4 DEF Ordinary, Field
  <2>3. QED
    BY <1>2, <2>1, <2>2, StillOpen
<1>5. ASSUME NEW t \in Scalars, NEW w \in Widths, NEW n \in BOOLEAN, PackedBits(t, w, n)
      PROVE  LayoutInv'
  <2>1. w \in Nat
    BY LayoutAssumption
  <2>2. LoopInv'
    BY <1>1, <1>5, <2>1, PackedBitsLoop
  <2>3. phase' = "open" /\ notes' = notes /\ made' = made
    BY <1>5 DEF PackedBits, Field
  <2>4. QED
    BY <1>2, <2>2, <2>3, StillOpen
<1>6. ASSUME NEW t \in Scalars, NEW w \in Widths, NEW n \in BOOLEAN, UnitBits(t, w, n)
      PROVE  LayoutInv'
  <2>1. w \in Nat
    BY LayoutAssumption
  <2>2. LoopInv'
    BY <1>1, <1>6, <2>1, UnitBitsLoop
  <2>3. phase' = "open" /\ notes' = notes /\ made' = made
    BY <1>6 DEF UnitBits, Field
  <2>4. QED
    BY <1>2, <2>2, <2>3, StillOpen
<1>7. ASSUME NEW t \in Scalars, ZeroWidth(t)
      PROVE  LayoutInv'
  <2>1. LoopInv'
    BY <1>1, <1>7, ZeroWidthLoop
  <2>2. phase' = "open" /\ notes' = notes /\ made' = made
    BY <1>7 DEF ZeroWidth, Field
  <2>3. QED
    BY <1>2, <2>1, <2>2, StillOpen
<1>8. CASE Finish
  <2>1. MadeTyped' /\ LoopInv' /\ Finished'
    BY <1>1, <1>8, FinishLoop
  <2>2. phase' = "record" /\ notes' = notes
    BY <1>8 DEF Finish
  <2>3. NotesTyped(notes') /\ UnionHolds'
    BY <1>1, <2>2 DEF NotesTyped, UnionHolds
  <2>4. QED
    BY <1>2, <2>1, <2>3 DEF LayoutInv
<1>9. ASSUME NEW s \in Types, NEW t \in Types, NEW w \in Widths \cup {0},
             NEW a \in Aligns \cup {0}, MakeUnion(s, t, w, a)
      PROVE  LayoutInv'
  <2>1. w \in Nat
    BY LayoutAssumption
  <2>2. MadeTyped' /\ NotesTyped(notes') /\ UnionHolds'
    BY <1>1, <1>9, <2>1, UnionStep
  <2>3. phase' = "union"
    BY <1>9 DEF MakeUnion
  <2>4. LoopInv' /\ Finished'
    BY <2>3 DEF LoopInv, Finished, IsRecord
  <2>5. QED
    BY <1>2, <2>2, <2>4 DEF LayoutInv
<1>10. CASE UNCHANGED vars
  <2>1. /\ made' = made /\ phase' = phase /\ notes' = notes /\ fields' = fields
        /\ build' = build /\ flds' = flds /\ laid' = laid
    BY <1>10 DEF vars
  <2>2. MadeTyped' /\ NotesTyped(notes') /\ LoopInv'
    BY <1>1, <2>1 DEF MadeTyped, NotesTyped, LoopInv
  <2>3. Materialized' = Materialized /\ OwnFields' = OwnFields
    BY <2>1 DEF Materialized, HasBits, Annotated, OwnFields
  <2>4. Slots' = Slots /\ Layout(0)' = Layout(0) /\ Layout(1)' = Layout(1)
    BY <2>1, <2>3 DEF Slots, FieldTypes, BaseSlot, Layout
  <2>5. Finished'
    BY <1>1, <2>1, <2>3, <2>4 DEF Finished, IsRecord
  <2>6. UnionHolds'
    BY <1>1, <2>1, <2>4 DEF UnionHolds
  <2>7. QED
    BY <1>2, <2>2, <2>5, <2>6 DEF LayoutInv
<1>11. QED
  BY <1>3, <1>4, <1>5, <1>6, <1>7, <1>8, <1>9, <1>10 DEF Next

LEMMA LayoutReady == LayoutInv /\ IsRecord => Ready
<1> SUFFICES ASSUME LayoutInv, IsRecord PROVE Ready
  OBVIOUS
<1>1. phase # "union"
  BY DEF IsRecord
<1>2. QED
  BY <1>1 DEF LayoutInv, Inv, LoopInv, Ready

LEMMA LayoutImplies == LayoutInv => MembersApart /\ TargetsMet /\ RebuildAgrees
<1> SUFFICES ASSUME LayoutInv PROVE MembersApart /\ TargetsMet /\ RebuildAgrees
  OBVIOUS
<1>1. IsRecord => RecordsApart /\ TargetsMet /\ RebuildAgrees
  BY LayoutReady, ApartHolds, TargetsHold
<1>2. RecordsApart /\ TargetsMet /\ RebuildAgrees
  <2>1. ~IsRecord => RecordsApart
    BY DEF RecordsApart
  <2>2. ~IsRecord => TargetsMet
    BY DEF TargetsMet
  <2>3. ~IsRecord => RebuildAgrees
    BY DEF RebuildAgrees
  <2>4. QED
    BY <1>1, <2>1, <2>2, <2>3
<1>3. BitsInUnits /\ UnionHolds
  BY InvImplies DEF LayoutInv
<1>4. QED
  BY <1>2, <1>3 DEF MembersApart

\* LayoutBuilder.cpp:84-317 and 339-399: whatever a record is made of, LLVM puts no
\* two of its members, nor one and the base, on a common bit, and all inside of it;
\* and a union holds each of its members.
THEOREM MembersStayApart == Spec => []MembersApart
<1>1. Init => LayoutInv
  BY InitLayout
<1>2. LayoutInv /\ [Next]_vars => LayoutInv'
  BY NextLayout
<1>3. LayoutInv => MembersApart
  BY LayoutImplies
<1>4. QED
  BY <1>1, <1>2, <1>3, PTL DEF Spec

\* LayoutBuilder.cpp:319-335: what the self-check of buildAggregate asks for (and its
\* condition keeps it from checking) is so for every record: the padding makes LLVM
\* put each entry where the loop has counted it to be, aligned as the field asks.
THEOREM PaddingMeetsTargets == Spec => []TargetsMet
<1>1. Init => LayoutInv
  BY InitLayout
<1>2. LayoutInv /\ [Next]_vars => LayoutInv'
  BY NextLayout
<1>3. LayoutInv => TargetsMet
  BY LayoutImplies
<1>4. QED
  BY <1>1, <1>2, <1>3, PTL DEF Spec

\* LayoutBuilder.cpp:84-87 and 259-277: a later build of a record, by codegen or for an
\* offset, starts from the padded list, and gives the same places and the same size.
THEOREM LaterBuildsAgree == Spec => []RebuildAgrees
<1>1. Init => LayoutInv
  BY InitLayout
<1>2. LayoutInv /\ [Next]_vars => LayoutInv'
  BY NextLayout
<1>3. LayoutInv => RebuildAgrees
  BY LayoutImplies
<1>4. QED
  BY <1>1, <1>2, <1>3, PTL DEF Spec
===============================================================================
