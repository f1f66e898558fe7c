--------------------------- MODULE HashTableProofs ---------------------------
(***************************************************************************)
(* Theorems about HashTable, for any keys, values, hash functions and      *)
(* capacities: what std::HashMap and std::HashSet are to their caller.     *)
(*                                                                         *)
(* First probing, then put_raw, remove and rehash, one lemma each about    *)
(* the table they leave, and last the actions.                             *)
(***************************************************************************)
EXTENDS HashTable, Integers, FiniteSetTheorems, WellFoundedInduction, TLAPS

-------------------------------------------------------------------------------
(* Tables.                                                                  *)

\* A table whose fields are all there.
HasFields(t) == /\ t = [f \in DOMAIN t |-> t[f]]
                /\ DOMAIN t = {"cap", "len", "tombstones", "slots"}

ASlot == [state : 0..2, key : Keys \cup {None}, value : Values \cup {None}]

\* The caller has a hash function; a set stores no values.
Caller == hash_fn \in [Keys -> Nat] /\ kind \in {"map", "set"}

LiveOf(t) == {i \in 0..(t.cap - 1) : t.slots[i].state = 1}
DeadOf(t) == {i \in 0..(t.cap - 1) : t.slots[i].state = 2}

IsTable(t) ==
    /\ HasFields(t)
    /\ t.cap \in Nat /\ t.len \in Nat /\ t.tombstones \in Nat
    /\ t.slots \in [0..(t.cap - 1) -> ASlot]
    /\ \A i \in LiveOf(t) : t.slots[i].key \in Keys

Counted(t) == t.len = Cardinality(LiveOf(t)) /\ t.tombstones = Cardinality(DeadOf(t))

\* No slot before a live one on the way of its key is empty.
Chained(t) ==
    \A i \in LiveOf(t) : \A n \in Probes(t) :
        (\A m \in 0..n : At(t, t.slots[i].key, m) # i)
            => Slot(t, t.slots[i].key, n).state # 0

Good(t) == IsTable(t) /\ Counted(t) /\ Chained(t)

Unique(t) == \A i, j \in LiveOf(t) : t.slots[i].key = t.slots[j].key => i = j

\* Key k is in the table, with value v.
Entry(t, k, v) == \E i \in LiveOf(t) : t.slots[i].key = k /\ t.slots[i].value = v

-------------------------------------------------------------------------------
(* Probing.                                                                 *)

LEMMA LeastExists ==
    ASSUME NEW S \in SUBSET Nat, S # {}
    PROVE  \E i \in S : \A j \in S : i <= j
<1> DEFINE Below == {p \in Nat \X Nat : p[1] < p[2]}
<1>1. IsWellFoundedOn(Below, Nat)
  <2>1. Below = OpToRel(<, Nat)
    BY Zenon DEF OpToRel
  <2>2. QED
    BY <2>1, NatLessThanWellFounded
<1>2. PICK i \in S : \A j \in S : <<j, i>> \notin Below
  <2> HIDE DEF Below
  <2>1. QED
    BY <1>1, WFMin
<1>3. ASSUME NEW j \in S
      PROVE  i <= j
  <2>1. <<j, i>> \in Nat \X Nat /\ <<j, i>> \notin Below
    BY <1>2
  <2>2. QED
    BY <2>1
<1>4. QED
  BY <1>3

\* An index up to twice the capacity wraps around once at most.
LEMMA WrapsOnce ==
    ASSUME NEW c \in Nat \ {0}, NEW x \in Nat, x < 2 * c
    PROVE  x % c = IF x < c THEN x ELSE x - c
<1>1. CASE x < c
  BY <1>1
<1>2. CASE x >= c
  BY <1>2
<1>3. QED
  BY <1>1, <1>2

\* A probe is a slot.
LEMMA ProbeInRange ==
    ASSUME Caller, NEW t, IsTable(t), NEW k \in Keys, NEW n \in Probes(t)
    PROVE  /\ At(t, k, n) \in 0..(t.cap - 1)
           /\ Slot(t, k, n) = t.slots[At(t, k, n)]
           /\ Slot(t, k, n) \in ASlot
<1>1. PICK c \in Nat \ {0} : c = t.cap /\ n \in 0..(c - 1)
  BY DEF IsTable, Probes
<1>2. PICK x \in Nat : x = (hash_fn[k] % c) + n
  <2>1. hash_fn[k] \in Nat
    BY DEF Caller
  <2>2. hash_fn[k] % c \in Nat
    BY <2>1
  <2>3. QED
    BY <1>1, <2>2
<1>3. At(t, k, n) = x % c /\ x % c \in 0..(c - 1)
  BY <1>1, <1>2 DEF At
<1>4. QED
  BY <1>1, <1>3 DEF IsTable, Slot

\* The probes for a key meet every slot.
LEMMA EverySlotProbed ==
    ASSUME Caller, NEW t, IsTable(t), NEW k \in Keys, NEW i \in 0..(t.cap - 1)
    PROVE  \E n \in Probes(t) : At(t, k, n) = i
<1>1. PICK c \in Nat \ {0} : c = t.cap /\ i \in 0..(c - 1)
  BY DEF IsTable
<1>2. PICK h \in 0..(c - 1) : h = hash_fn[k] % c
  <2>1. hash_fn[k] \in Nat
    BY DEF Caller
  <2>2. hash_fn[k] % c \in 0..(c - 1)
    BY <2>1
  <2>3. QED
    BY <2>2
<1>3. PICK n \in 0..(c - 1) : n = IF i >= h THEN i - h ELSE i + c - h
  BY <1>1
<1>4. PICK x \in Nat : x = h + n /\ x < 2 * c /\ x = IF i >= h THEN i ELSE i + c
  BY <1>1, <1>3
<1>5. x % c = i
  <2>1. x % c = IF x < c THEN x ELSE x - c
    BY <1>4, WrapsOnce
  <2>2. QED
    BY <1>1, <1>4, <2>1
<1>6. At(t, k, n) = i
  BY <1>1, <1>2, <1>4, <1>5 DEF At
<1>7. QED
  BY <1>1, <1>6 DEF Probes

\* The first of the probes in stops, if there is one.
LEMMA FirstProbeIs ==
    ASSUME NEW t, t.cap \in Nat, NEW stops \in SUBSET Probes(t),
           NEW n, n = FirstProbe(t, stops)
    PROVE  /\ n \in 0..t.cap
           /\ n < t.cap => n \in stops /\ \A m \in stops : n <= m
           /\ n = t.cap => stops = {}
<1>1. PICK c \in Nat : c = t.cap /\ stops \in SUBSET (0..(c - 1)) /\ stops \in SUBSET Nat
  BY DEF Probes
<1>2. \E m \in stops \cup {c} : \A j \in stops : m <= j
  <2>1. CASE stops = {}
    BY <2>1
  <2>2. CASE stops # {}
    <3>1. PICK m \in stops : \A j \in stops : m <= j
      BY <1>1, <2>2, LeastExists
    <3>2. QED
      BY <3>1
  <2>3. QED
    BY <2>1, <2>2
<1>3. n \in stops \cup {c} /\ \A j \in stops : n <= j
  BY <1>1, <1>2 DEF FirstProbe
<1>4. c \notin stops
  BY <1>1
<1>5. QED
  BY <1>1, <1>3, <1>4

-------------------------------------------------------------------------------
(* Search.                                                                  *)

\* Probe n is the first that meets key k.
FirstHeld(t, k, n) ==
    /\ n \in Probes(t) /\ Holds(Slot(t, k, n), k)
    /\ \A m \in Probes(t) : m < n => ~Holds(Slot(t, k, m), k)

\* A slot that a probe meets and that holds the key is live and has the key.
LEMMA HeldIsLive ==
    ASSUME Caller, NEW t, IsTable(t), NEW k \in Keys, NEW n \in Probes(t),
           Holds(Slot(t, k, n), k)
    PROVE  At(t, k, n) \in LiveOf(t) /\ t.slots[At(t, k, n)].key = k
BY ProbeInRange DEF Holds, LiveOf

\* A live slot is met by a probe for its key, and some probe is the first.
LEMMA LiveIsHeld ==
    ASSUME Caller, NEW t, IsTable(t), NEW i \in LiveOf(t),
           NEW k \in Keys, t.slots[i].key = k
    PROVE  \E n \in Probes(t) : FirstHeld(t, k, n)
<1>1. i \in 0..(t.cap - 1) /\ t.slots[i].state = 1
  BY DEF LiveOf
<1>2. PICK n \in Probes(t) : At(t, k, n) = i
  BY <1>1, EverySlotProbed
<1>3. PICK held \in SUBSET Probes(t) :
          held = {m \in Probes(t) : Holds(Slot(t, k, m), k)}
  OBVIOUS
<1>4. n \in held
  BY <1>1, <1>2, <1>3 DEF Holds, Slot
<1>5. held \in SUBSET Nat
  BY DEF Probes
<1>6. PICK m \in held : \A j \in held : m <= j
  BY <1>4, <1>5, LeastExists
<1>7. ASSUME NEW j \in Probes(t), j < m
      PROVE  ~Holds(Slot(t, k, j), k)
  <2>1. j \in Int /\ m \in Int
    BY <1>5, <1>6 DEF Probes
  <2>2. ~(m <= j)
    BY <1>7, <2>1
  <2>3. QED
    BY <1>3, <1>6, <2>2
<1>8. QED
  BY <1>3, <1>6, <1>7 DEF FirstHeld

\* The search finds the first probe that meets the key.
LEMMA SearchFinds ==
    ASSUME Caller, NEW t, Good(t), NEW k \in Keys, NEW n, FirstHeld(t, k, n)
    PROVE  Search(t, k) = At(t, k, n)
<1>1. PICK c \in Nat : c = t.cap /\ n \in 0..(c - 1) /\ IsTable(t)
  BY DEF FirstHeld, Good, IsTable, Probes
<1>2. PICK stops \in SUBSET Probes(t) :
          stops = {i \in Probes(t) : Slot(t, k, i).state = 0 \/ Holds(Slot(t, k, i), k)}
  OBVIOUS
<1>3. n \in stops
  BY <1>2 DEF FirstHeld
<1>4. PICK f : f = FirstProbe(t, stops)
  OBVIOUS
<1>5. /\ f \in 0..t.cap
      /\ f < t.cap => f \in stops /\ \A m \in stops : f <= m
      /\ f = t.cap => stops = {}
  BY <1>1, <1>4, FirstProbeIs
<1>6. f < c /\ f \in stops /\ f <= n /\ f \in Nat
  BY <1>1, <1>3, <1>5
<1>7. f = n
  <2>1. SUFFICES ASSUME f < n PROVE FALSE
    BY <1>1, <1>6
  <2>2. Slot(t, k, f).state = 0 /\ f \in Probes(t)
    BY <1>2, <1>6, <2>1 DEF FirstHeld
  <2>3. PICK i : i = At(t, k, n)
    OBVIOUS
  <2>4. i \in LiveOf(t) /\ t.slots[i].key = k
    BY <1>1, <2>3, HeldIsLive DEF FirstHeld
  <2>5. ASSUME NEW m \in 0..f
        PROVE  At(t, k, m) # i
    <3>1. m \in Probes(t) /\ m < n
      BY <1>1, <1>6, <2>1 DEF Probes
    <3>2. ~Holds(Slot(t, k, m), k)
      BY <3>1 DEF FirstHeld
    <3>3. QED
      BY <2>4, <3>2 DEF Holds, Slot, LiveOf
  <2>6. QED
    BY <2>2, <2>4, <2>5 DEF Good, Chained
<1>8. QED
  BY <1>1, <1>2, <1>4, <1>6, <1>7 DEF Search, FirstHeld

\* Nothing is found when no live slot has the key.
LEMMA SearchMisses ==
    ASSUME Caller, NEW t, IsTable(t), NEW k \in Keys,
           \A i \in LiveOf(t) : t.slots[i].key # k
    PROVE  Search(t, k) = None
<1>1. PICK stops \in SUBSET Probes(t) :
          stops = {i \in Probes(t) : Slot(t, k, i).state = 0 \/ Holds(Slot(t, k, i), k)}
  OBVIOUS
<1>2. PICK f : f = FirstProbe(t, stops)
  OBVIOUS
<1>3. f < t.cap => f \in stops
  BY <1>2, FirstProbeIs DEF IsTable
<1>4. ASSUME f < t.cap, Holds(Slot(t, k, f), k)
      PROVE  FALSE
  BY <1>1, <1>3, <1>4, HeldIsLive
<1>5. QED
  BY <1>1, <1>2, <1>4 DEF Search

\* What the search returns.
Missed(t, k, s) == s = None /\ \A i \in LiveOf(t) : t.slots[i].key # k
Found(t, k, s)  == /\ s \in LiveOf(t) /\ s # None /\ t.slots[s].key = k
                   /\ \E n : FirstHeld(t, k, n) /\ s = At(t, k, n)

LEMMA SearchCases ==
    ASSUME Caller, NEW t, Good(t), NEW k \in Keys
    PROVE  Missed(t, k, Search(t, k)) \/ Found(t, k, Search(t, k))
<1>1. IsTable(t)
  BY DEF Good
<1>2. CASE \A i \in LiveOf(t) : t.slots[i].key # k
  BY <1>1, <1>2, SearchMisses DEF Missed
<1>3. CASE \E i \in LiveOf(t) : t.slots[i].key = k
  <2>1. PICK n \in Probes(t) : FirstHeld(t, k, n)
    BY <1>1, <1>3, LiveIsHeld
  <2>2. Search(t, k) = At(t, k, n)
    BY <2>1, SearchFinds
  <2>3. At(t, k, n) \in LiveOf(t) /\ t.slots[At(t, k, n)].key = k
    BY <1>1, <2>1, HeldIsLive DEF FirstHeld
  <2>4. At(t, k, n) # None
    BY <2>3, TableAssumption DEF LiveOf
  <2>5. QED
    BY <2>1, <2>2, <2>3, <2>4 DEF Found
<1>4. QED
  BY <1>2, <1>3

-------------------------------------------------------------------------------
(* put_raw.                                                                 *)

\* The loop of put_raw stops at a slot, and there first at probe n.
Stops(t, k, n)   == \/ Slot(t, k, n).state # 1
                    \/ kind = "map" /\ Holds(Slot(t, k, n), k)
StopsAt(t, k, n) == /\ n \in Probes(t) /\ Stops(t, k, n)
                    /\ \A m \in Probes(t) : m < n => ~Stops(t, k, m)

\* q is t with the entry stored where probe n stops.
Stored(t, q, k, v, i) ==
    /\ HasFields(q) /\ q.cap = t.cap
    /\ q.slots = [t.slots EXCEPT ![i] = Live(k, v)]
    /\ q.len = IF t.slots[i].state = 1 THEN t.len ELSE t.len + 1
    /\ q.tombstones = IF t.slots[i].state = 2 THEN t.tombstones - 1 ELSE t.tombstones

LEMMA PutRawCases ==
    ASSUME Caller, NEW t, IsTable(t), NEW k \in Keys, NEW v, NEW q, q = PutRaw(t, k, v)
    PROVE  \/ q = t /\ \A n \in Probes(t) : ~Stops(t, k, n)
           \/ \E n : StopsAt(t, k, n) /\ Stored(t, q, k, v, At(t, k, n))
<1>1. PICK c \in Nat : c = t.cap
  BY DEF IsTable
<1>2. PICK stops \in SUBSET Probes(t) : stops = {i \in Probes(t) : Stops(t, k, i)}
  OBVIOUS
<1>3. PICK n : n = RawStop(t, k) /\ n = FirstProbe(t, stops)
  BY <1>2 DEF RawStop, Stops
<1>4. /\ n \in 0..t.cap
      /\ n < t.cap => n \in stops /\ \A m \in stops : n <= m
      /\ n = t.cap => stops = {}
  BY <1>1, <1>3, FirstProbeIs
<1>5. CASE n = t.cap
  <2>1. q = t
    BY <1>3, <1>5 DEF PutRaw
  <2>2. QED
    BY <1>2, <1>4, <1>5, <2>1
<1>6. CASE n # t.cap
  <2>1. n < t.cap /\ n \in stops
    BY <1>1, <1>4, <1>6
  <2>2. ASSUME NEW m \in Probes(t), m < n
        PROVE  ~Stops(t, k, m)
    <3>1. m \in Int /\ n \in Int
      BY <1>4, <1>1 DEF Probes
    <3>2. m \notin stops
      BY <1>4, <2>1, <2>2, <3>1
    <3>3. QED
      BY <1>2, <3>2
  <2>3. StopsAt(t, k, n)
    BY <1>2, <2>1, <2>2 DEF StopsAt
  <2>4. PICK i : i = At(t, k, n)
    OBVIOUS
  <2>5. q = [t EXCEPT !.slots[i] = Live(k, v),
                      !.len = IF t.slots[i].state = 1 THEN @ ELSE @ + 1,
                      !.tombstones = IF t.slots[i].state = 2 THEN @ - 1 ELSE @]
    BY <1>3, <1>6, <2>4 DEF PutRaw
  <2>6. Stored(t, q, k, v, i)
    BY <2>5 DEF Stored, IsTable, HasFields
  <2>7. QED
    BY <2>3, <2>4, <2>6
<1>7. QED
  BY <1>5, <1>6

\* A table is finite, and so are the slots of either kind.
LEMMA SlotsFinite ==
    ASSUME NEW t, t.cap \in Nat
    PROVE  /\ IsFiniteSet(0..(t.cap - 1)) /\ Cardinality(0..(t.cap - 1)) = t.cap
           /\ IsFiniteSet(LiveOf(t)) /\ Cardinality(LiveOf(t)) \in Nat
           /\ Cardinality(LiveOf(t)) <= t.cap
           /\ Cardinality(LiveOf(t)) = t.cap => LiveOf(t) = 0..(t.cap - 1)
           /\ IsFiniteSet(DeadOf(t)) /\ Cardinality(DeadOf(t)) \in Nat
           /\ Cardinality(DeadOf(t)) <= t.cap
<1>1. PICK c \in Nat : c = t.cap
  OBVIOUS
<1>2. PICK all : all = 0..(c - 1)
  OBVIOUS
<1>3. IsFiniteSet(all) /\ Cardinality(all) = c
  <2>1. 0 \in Int /\ c - 1 \in Int
    OBVIOUS
  <2>2. IsFiniteSet(0..(c - 1)) /\ Cardinality(0..(c - 1)) = IF 0 > c - 1 THEN 0 ELSE c - 1 - 0 + 1
    BY <2>1, FS_Interval
  <2>3. QED
    BY <1>2, <2>2
<1>4. LiveOf(t) \in SUBSET all /\ DeadOf(t) \in SUBSET all
  BY <1>1, <1>2 DEF LiveOf, DeadOf
<1>5. /\ IsFiniteSet(LiveOf(t)) /\ Cardinality(LiveOf(t)) <= Cardinality(all)
      /\ Cardinality(all) = Cardinality(LiveOf(t)) => all = LiveOf(t)
      /\ IsFiniteSet(DeadOf(t)) /\ Cardinality(DeadOf(t)) <= Cardinality(all)
  BY <1>3, <1>4, FS_Subset
<1>6. Cardinality(LiveOf(t)) \in Nat /\ Cardinality(DeadOf(t)) \in Nat
  BY <1>5, FS_CardinalityType
<1>7. QED
  BY <1>1, <1>2, <1>3, <1>5, <1>6

\* Storing an entry leaves the table in order.
LEMMA StoredSlots ==
    ASSUME Caller, NEW t, IsTable(t), NEW k \in Keys, NEW v \in Values \cup {None},
           NEW i \in 0..(t.cap - 1), NEW q, Stored(t, q, k, v, i)
    PROVE  /\ q.slots \in [0..(t.cap - 1) -> ASlot]
           /\ q.slots[i].state = 1 /\ q.slots[i].key = k /\ q.slots[i].value = v
           /\ \A j \in 0..(t.cap - 1) : j # i => q.slots[j] = t.slots[j]
           /\ LiveOf(q) = LiveOf(t) \cup {i}
           /\ DeadOf(q) = DeadOf(t) \ {i}
<1>1. PICK s : s = Live(k, v)
  OBVIOUS
<1>2. s \in ASlot /\ s.state = 1 /\ s.key = k /\ s.value = v
  BY <1>1 DEF Live, ASlot
<1>3. q.cap = t.cap /\ q.slots = [t.slots EXCEPT ![i] = s] /\ t.slots \in [0..(t.cap - 1) -> ASlot]
  BY <1>1 DEF Stored, IsTable
<1>4. /\ q.slots \in [0..(t.cap - 1) -> ASlot] /\ q.slots[i] = s
      /\ \A j \in 0..(t.cap - 1) : j # i => q.slots[j] = t.slots[j]
  BY <1>2, <1>3
<1>5. LiveOf(q) = LiveOf(t) \cup {i}
  BY <1>2, <1>3, <1>4 DEF LiveOf
<1>6. DeadOf(q) = DeadOf(t) \ {i}
  BY <1>2, <1>3, <1>4 DEF DeadOf
<1>7. QED
  BY <1>2, <1>4, <1>5, <1>6

LEMMA StoredCounted ==
    ASSUME Caller, NEW t, IsTable(t), Counted(t), NEW k \in Keys,
           NEW v \in Values \cup {None},
           NEW i \in 0..(t.cap - 1), NEW q, Stored(t, q, k, v, i)
    PROVE  IsTable(q) /\ Counted(q)
<1>1. /\ q.slots \in [0..(t.cap - 1) -> ASlot]
      /\ q.slots[i].state = 1 /\ q.slots[i].key = k
      /\ \A j \in 0..(t.cap - 1) : j # i => q.slots[j] = t.slots[j]
      /\ LiveOf(q) = LiveOf(t) \cup {i}
      /\ DeadOf(q) = DeadOf(t) \ {i}
  BY StoredSlots
<1>2. /\ t.cap \in Nat /\ t.len \in Nat /\ t.tombstones \in Nat
      /\ t.len = Cardinality(LiveOf(t)) /\ t.tombstones = Cardinality(DeadOf(t))
  BY DEF IsTable, Counted
<1>3. IsFiniteSet(LiveOf(t)) /\ IsFiniteSet(DeadOf(t))
  BY <1>2, SlotsFinite
<1>4. (i \in LiveOf(t) <=> t.slots[i].state = 1) /\ (i \in DeadOf(t) <=> t.slots[i].state = 2)
  BY DEF LiveOf, DeadOf
<1>5. Cardinality(LiveOf(q)) = IF i \in LiveOf(t) THEN t.len ELSE t.len + 1
  <2>1. PICK D : D = LiveOf(t)
    OBVIOUS
  <2>2. IsFiniteSet(D)
    BY <1>3, <2>1
  <2>3. Cardinality(D \cup {i}) = IF i \in D THEN Cardinality(D) ELSE Cardinality(D) + 1
    BY <2>2, FS_AddElement
  <2>4. QED
    BY <1>1, <1>2, <2>1, <2>3
<1>6. Cardinality(DeadOf(q)) = IF i \in DeadOf(t) THEN t.tombstones - 1 ELSE t.tombstones
  <2>1. PICK D : D = DeadOf(t)
    OBVIOUS
  <2>2. IsFiniteSet(D)
    BY <1>3, <2>1
  <2>3. Cardinality(D \ {i}) = IF i \in D THEN Cardinality(D) - 1 ELSE Cardinality(D)
    BY <2>2, FS_RemoveElement
  <2>4. QED
    BY <1>1, <1>2, <2>1, <2>3
<1>7. Counted(q)
  BY <1>4, <1>5, <1>6 DEF Counted, Stored
<1>8. IsFiniteSet(LiveOf(q)) /\ IsFiniteSet(DeadOf(q))
  BY <1>1, <1>3, FS_AddElement, FS_RemoveElement
<1>9. q.len \in Nat /\ q.tombstones \in Nat
  BY <1>7, <1>8, FS_CardinalityType DEF Counted
<1>10. \A j \in LiveOf(q) : q.slots[j].key \in Keys
  BY <1>1 DEF IsTable, LiveOf
<1>11. QED
  BY <1>1, <1>2, <1>7, <1>9, <1>10 DEF IsTable, Stored

LEMMA StoredChained ==
    ASSUME Caller, NEW t, Good(t), NEW k \in Keys, NEW v \in Values \cup {None},
           NEW n, StopsAt(t, k, n), NEW q, Stored(t, q, k, v, At(t, k, n))
    PROVE  Chained(q)
<1>1. PICK c \in Nat : c = t.cap /\ q.cap = c /\ n \in 0..(c - 1) /\ n \in Probes(t)
  BY DEF StopsAt, Stored, Good, IsTable, Probes
<1>2. PICK i \in 0..(t.cap - 1) : i = At(t, k, n)
  BY <1>1, ProbeInRange DEF Good
<1>3. /\ q.slots[i].state = 1 /\ q.slots[i].key = k
      /\ \A j \in 0..(t.cap - 1) : j # i => q.slots[j] = t.slots[j]
      /\ LiveOf(q) = LiveOf(t) \cup {i}
  BY <1>2, StoredSlots DEF Good
<1>4. \A x, m : At(q, x, m) = At(t, x, m)
  BY <1>1 DEF At
<1>5. SUFFICES ASSUME NEW j \in LiveOf(q), NEW l \in Probes(q), NEW x, x = q.slots[j].key,
                      \A m \in 0..l : At(q, x, m) # j
               PROVE  Slot(q, x, l).state # 0
  BY DEF Chained
<1>6. l \in Probes(t) /\ l \in 0..(c - 1)
  BY <1>1, <1>5 DEF Probes
<1>7. x \in Keys
  BY <1>3, <1>5 DEF Good, IsTable, LiveOf
<1>8. PICK p \in 0..(t.cap - 1) : p = At(t, x, l) /\ p = At(q, x, l)
  BY <1>4, <1>6, <1>7, ProbeInRange DEF Good
<1>9. CASE p = i
  BY <1>3, <1>8, <1>9 DEF Slot
<1>10. CASE p # i
  <2>1. q.slots[p] = t.slots[p]
    BY <1>3, <1>10
  <2>2. CASE j = i
    <3>1. x = k /\ \A m \in 0..l : At(t, k, m) # At(t, k, n)
      BY <1>2, <1>3, <1>4, <1>5, <2>2
    <3>2. l < n
      BY <1>1, <1>6, <3>1
    <3>3. ~Stops(t, k, l)
      BY <1>6, <3>2 DEF StopsAt
    <3>4. Slot(t, k, l).state = 1
      BY <3>3 DEF Stops
    <3>5. Slot(q, x, l) = q.slots[p] /\ Slot(t, k, l) = t.slots[p]
      BY <1>8, <3>1 DEF Slot
    <3>6. QED
      BY <2>1, <3>4, <3>5
  <2>3. CASE j # i
    <3>1. j \in LiveOf(t) /\ x = t.slots[j].key
      BY <1>3, <1>5, <2>3 DEF LiveOf
    <3>2. \A m \in 0..l : At(t, x, m) # j
      BY <1>4, <1>5
    <3>3. Slot(t, x, l).state # 0
      BY <1>6, <3>1, <3>2 DEF Good, Chained
    <3>4. QED
      BY <1>8, <2>1, <3>3 DEF Slot
  <2>4. QED
    BY <2>2, <2>3
<1>11. QED
  BY <1>9, <1>10

\* A table that is not full has a slot where put_raw stops.
LEMMA RoomStops ==
    ASSUME Caller, NEW t, Good(t), t.len < t.cap, NEW k \in Keys
    PROVE  \E n \in Probes(t) : Stops(t, k, n)
<1>1. IsTable(t) /\ t.cap \in Nat /\ t.len \in Nat /\ t.len = Cardinality(LiveOf(t))
  BY DEF Good, IsTable, Counted
<1>2. LiveOf(t) # 0..(t.cap - 1)
  BY <1>1, SlotsFinite
<1>3. PICK i \in 0..(t.cap - 1) : i \notin LiveOf(t)
  BY <1>2 DEF LiveOf
<1>4. PICK n \in Probes(t) : At(t, k, n) = i
  BY <1>1, EverySlotProbed
<1>5. t.slots[i].state # 1
  BY <1>3 DEF LiveOf
<1>6. QED
  BY <1>4, <1>5 DEF Stops, Slot

\* So there is a first one, and put_raw stores the entry there.
LEMMA RoomStored ==
    ASSUME Caller, NEW t, Good(t), t.len < t.cap, NEW k \in Keys,
           NEW v \in Values \cup {None}, NEW q, q = PutRaw(t, k, v)
    PROVE  \E n : StopsAt(t, k, n) /\ Stored(t, q, k, v, At(t, k, n))
<1>1. \/ q = t /\ \A n \in Probes(t) : ~Stops(t, k, n)
      \/ \E n : StopsAt(t, k, n) /\ Stored(t, q, k, v, At(t, k, n))
  BY PutRawCases DEF Good
<1>2. QED
  BY <1>1, RoomStops

\* What put_raw leaves is in order, has at most one entry more, and no new tombstone.
LEMMA PutRawGood ==
    ASSUME Caller, NEW t, Good(t), NEW k \in Keys, NEW v \in Values \cup {None},
           NEW q, q = PutRaw(t, k, v)
    PROVE  /\ Good(q) /\ q.cap = t.cap /\ q.len <= t.len + 1
           /\ DeadOf(q) \subseteq DeadOf(t)
<1>1. IsTable(t) /\ Counted(t) /\ t.len \in Nat
  BY DEF Good, IsTable
<1>2. CASE q = t
  BY <1>1, <1>2
<1>3. CASE q # t
  <2>1. PICK n : StopsAt(t, k, n) /\ Stored(t, q, k, v, At(t, k, n))
    BY <1>1, <1>3, PutRawCases
  <2>2. PICK i \in 0..(t.cap - 1) : i = At(t, k, n)
    BY <1>1, <2>1, ProbeInRange DEF StopsAt
  <2>3. IsTable(q) /\ Counted(q)
    BY <1>1, <2>1, <2>2, StoredCounted
  <2>4. Chained(q)
    BY <2>1, StoredChained
  <2>5. DeadOf(q) = DeadOf(t) \ {i}
    BY <1>1, <2>1, <2>2, StoredSlots
  <2>6. QED
    BY <1>1, <2>1, <2>3, <2>4, <2>5 DEF Good, Stored
<1>4. QED
  BY <1>2, <1>3

\* Two tables that differ in one slot, in which neither holds key x, are the same
\* to a search for x.
DifferAt(t, q, i) ==
    /\ q.cap = t.cap /\ i \in 0..(t.cap - 1)
    /\ \A p \in 0..(t.cap - 1) : p # i => q.slots[p] = t.slots[p]

LEMMA SameForOthers ==
    ASSUME Caller, NEW t, Good(t), NEW q, Good(q), NEW i, DifferAt(t, q, i),
           NEW x \in Keys, ~Holds(t.slots[i], x), ~Holds(q.slots[i], x)
    PROVE  /\ Search(q, x) = Search(t, x)
           /\ Search(t, x) # None => Lookup(q, x) = Lookup(t, x)
<1>1. /\ IsTable(t) /\ IsTable(q) /\ q.cap = t.cap /\ i \in 0..(t.cap - 1)
      /\ Probes(q) = Probes(t) /\ \A m : At(q, x, m) = At(t, x, m)
  BY DEF Good, DifferAt, Probes, At
<1>2. \A p \in 0..(t.cap - 1) : Holds(q.slots[p], x) <=> Holds(t.slots[p], x)
  BY DEF DifferAt
<1>3. CASE Missed(t, x, Search(t, x))
  <2>1. ASSUME NEW p \in LiveOf(q), q.slots[p].key = x
        PROVE  FALSE
    <3>1. p \in 0..(t.cap - 1) /\ Holds(q.slots[p], x)
      BY <1>1, <2>1 DEF LiveOf, Holds
    <3>2. Holds(t.slots[p], x)
      BY <1>2, <3>1
    <3>3. p \in LiveOf(t) /\ t.slots[p].key = x
      BY <3>1, <3>2 DEF LiveOf, Holds
    <3>4. QED
      BY <1>3, <3>3 DEF Missed
  <2>2. Search(q, x) = None
    BY <1>1, <2>1, SearchMisses
  <2>3. QED
    BY <1>3, <2>2 DEF Missed
<1>4. CASE Found(t, x, Search(t, x))
  <2>1. PICK n : FirstHeld(t, x, n) /\ Search(t, x) = At(t, x, n)
    BY <1>4 DEF Found
  <2>2. PICK s : s = At(t, x, n) /\ s \in 0..(t.cap - 1) /\ Holds(t.slots[s], x)
    BY <1>1, <2>1, ProbeInRange DEF FirstHeld
  <2>3. \A m \in Probes(t) : Holds(Slot(q, x, m), x) <=> Holds(Slot(t, x, m), x)
    <3>1. SUFFICES ASSUME NEW m \in Probes(t)
                   PROVE  Holds(Slot(q, x, m), x) <=> Holds(Slot(t, x, m), x)
      OBVIOUS
    <3>2. At(t, x, m) \in 0..(t.cap - 1) /\ At(q, x, m) = At(t, x, m)
      BY <1>1, ProbeInRange
    <3>3. QED
      BY <1>2, <3>2 DEF Slot
  <2>4. FirstHeld(q, x, n)
    BY <1>1, <2>1, <2>3 DEF FirstHeld
  <2>5. Search(q, x) = s
    BY <1>1, <2>2, <2>4, SearchFinds
  <2>6. s # i /\ q.slots[s] = t.slots[s]
    BY <2>2 DEF DifferAt
  <2>7. QED
    BY <2>1, <2>2, <2>5, <2>6 DEF Lookup
<1>5. QED
  BY <1>3, <1>4, SearchCases

-------------------------------------------------------------------------------
(* What the table holds for its caller.                                     *)

ContentsOf(t) == [x \in {y \in Keys : Search(t, y) # None} |-> Lookup(t, x)]

\* Contents c with value v for key k, and without key k.
With(c, k, v) == [x \in DOMAIN c \cup {k} |-> IF x = k THEN v ELSE c[x]]
Without(c, k) == [x \in DOMAIN c \ {k} |-> c[x]]

\* Storing an entry: the key gets the value.
LEMMA PutContents ==
    ASSUME Caller, NEW t, Good(t), t.len < t.cap, NEW k \in Keys,
           NEW v \in Values \cup {None}, NEW q, q = PutRaw(t, k, v),
           kind = "map" \/ \A i \in LiveOf(t) : t.slots[i].key # k
    PROVE  ContentsOf(q) = With(ContentsOf(t), k, v)
<1>1. PICK n : StopsAt(t, k, n) /\ Stored(t, q, k, v, At(t, k, n))
  BY RoomStored
<1>2. Good(q) /\ IsTable(t)
  BY PutRawGood DEF Good
<1>3. PICK i \in 0..(t.cap - 1) : i = At(t, k, n)
  BY <1>1, <1>2, ProbeInRange DEF StopsAt
<1>4. /\ q.slots[i].state = 1 /\ q.slots[i].key = k /\ q.slots[i].value = v
      /\ DifferAt(t, q, i)
  <2>1. Stored(t, q, k, v, i)
    BY <1>1, <1>3
  <2>2. /\ q.slots[i].state = 1 /\ q.slots[i].key = k /\ q.slots[i].value = v
        /\ \A j \in 0..(t.cap - 1) : j # i => q.slots[j] = t.slots[j]
    BY <1>2, <2>1, StoredSlots
  <2>3. q.cap = t.cap
    BY <2>1 DEF Stored
  <2>4. QED
    BY <2>2, <2>3 DEF DifferAt
<1>5. \A m : At(q, k, m) = At(t, k, m)
  BY <1>4 DEF At, DifferAt
<1>6. FirstHeld(q, k, n)
  <2>1. n \in Probes(q) /\ Probes(q) = Probes(t)
    BY <1>1, <1>4 DEF StopsAt, DifferAt, Probes
  <2>2. Holds(Slot(q, k, n), k)
    BY <1>3, <1>4, <1>5 DEF Holds, Slot
  <2>3. ASSUME NEW m \in Probes(t), m < n
        PROVE  ~Holds(Slot(q, k, m), k)
    <3>1. ~Stops(t, k, m) /\ Stops(t, k, n)
      BY <1>1, <2>3 DEF StopsAt
    <3>2. PICK p \in 0..(t.cap - 1) : p = At(t, k, m) /\ Slot(t, k, m) = t.slots[p]
      BY <1>2, <2>3, ProbeInRange
    <3>3. p # i
      BY <1>3, <3>1, <3>2 DEF Stops, Slot
    <3>4. Slot(q, k, m) = t.slots[p]
      BY <1>4, <1>5, <3>2, <3>3 DEF DifferAt, Slot
    <3>5. CASE kind = "map"
      BY <3>1, <3>2, <3>4, <3>5 DEF Stops
    <3>6. CASE \A j \in LiveOf(t) : t.slots[j].key # k
      BY <3>2, <3>4, <3>6 DEF Holds, LiveOf
    <3>7. QED
      BY <3>5, <3>6
  <2>4. QED
    BY <2>1, <2>2, <2>3 DEF FirstHeld
<1>7. Search(q, k) = i /\ i # None /\ Lookup(q, k) = v
  <2>1. Search(q, k) = i
    BY <1>2, <1>3, <1>5, <1>6, SearchFinds
  <2>2. i # None
    BY <1>3, TableAssumption
  <2>3. QED
    BY <1>4, <2>1, <2>2 DEF Lookup
<1>8. ASSUME NEW x \in Keys, x # k
      PROVE  /\ Search(q, x) = Search(t, x)
             /\ Search(t, x) # None => Lookup(q, x) = Lookup(t, x)
  <2>1. ~Holds(q.slots[i], x)
    BY <1>4, <1>8 DEF Holds
  <2>2. ~Holds(t.slots[i], x)
    BY <1>1, <1>3, <1>8 DEF StopsAt, Stops, Slot, Holds
  <2>3. QED
    BY <1>2, <1>4, <2>1, <2>2, SameForOthers
<1>9. {y \in Keys : Search(q, y) # None} = {y \in Keys : Search(t, y) # None} \cup {k}
  BY <1>7, <1>8
<1>10. DOMAIN ContentsOf(t) = {y \in Keys : Search(t, y) # None}
  BY DEF ContentsOf
<1>11. \A x \in DOMAIN ContentsOf(t) : ContentsOf(t)[x] = Lookup(t, x) /\ x \in Keys
                                        /\ Search(t, x) # None
  BY DEF ContentsOf
<1>12. \A x \in DOMAIN ContentsOf(t) \cup {k} :
           Lookup(q, x) = IF x = k THEN v ELSE ContentsOf(t)[x]
  BY <1>7, <1>8, <1>11
<1>13. PICK D : D = DOMAIN ContentsOf(t) \cup {k}
  OBVIOUS
<1>14. ContentsOf(q) = [x \in D |-> Lookup(q, x)]
  BY <1>9, <1>10, <1>13 DEF ContentsOf
<1>15. \A x \in D : Lookup(q, x) = IF x = k THEN v ELSE ContentsOf(t)[x]
  BY <1>12, <1>13
<1>16. [x \in D |-> Lookup(q, x)] = [x \in D |-> IF x = k THEN v ELSE ContentsOf(t)[x]]
  BY <1>15
<1>17. QED
  BY <1>13, <1>14, <1>16 DEF With

-------------------------------------------------------------------------------
(* Keys that are in the table once.                                         *)

\* Without tombstones put_raw meets the key before it meets a free slot.
LEMMA NoKeyBehindFree ==
    ASSUME Caller, NEW t, Good(t), DeadOf(t) = {}, NEW k \in Keys,
           kind = "map" \/ \A i \in LiveOf(t) : t.slots[i].key # k,
           NEW n, StopsAt(t, k, n), Slot(t, k, n).state # 1
    PROVE  \A j \in LiveOf(t) : t.slots[j].key # k
<1>1. SUFFICES ASSUME NEW j \in LiveOf(t), t.slots[j].key = k, kind = "map"
               PROVE  FALSE
  OBVIOUS
<1>2. IsTable(t) /\ n \in Probes(t) /\ n \in 0..(t.cap - 1)
  BY DEF Good, StopsAt, Probes
<1>3. PICK i \in 0..(t.cap - 1) : i = At(t, k, n) /\ Slot(t, k, n) = t.slots[i]
  BY <1>2, ProbeInRange
<1>4. t.slots[i].state = 0
  <2>1. t.slots[i].state \in 0..2
    BY <1>2, <1>3 DEF IsTable, ASlot
  <2>2. t.slots[i].state # 2
    BY <1>3 DEF DeadOf
  <2>3. t.slots[i].state # 1
    BY <1>3
  <2>4. QED
    BY <2>1, <2>2, <2>3
<1>5. ASSUME NEW m \in 0..n
      PROVE  At(t, k, m) # j
  <2>1. CASE m = n
    BY <1>3, <1>4, <1>1, <2>1 DEF LiveOf
  <2>2. CASE m # n
    <3>1. m \in Probes(t) /\ m < n
      BY <1>2, <2>2 DEF Probes, IsTable
    <3>2. ~Holds(Slot(t, k, m), k)
      BY <1>1, <3>1 DEF StopsAt, Stops
    <3>3. QED
      BY <1>1, <3>2 DEF Holds, Slot, LiveOf
  <2>3. QED
    BY <2>1, <2>2
<1>6. Slot(t, k, n).state # 0
  BY <1>1, <1>2, <1>5 DEF Good, Chained
<1>7. QED
  BY <1>3, <1>4, <1>6

LEMMA PutUnique ==
    ASSUME Caller, NEW t, Good(t), Unique(t), DeadOf(t) = {}, NEW k \in Keys,
           NEW v \in Values \cup {None}, NEW q, q = PutRaw(t, k, v),
           kind = "map" \/ \A i \in LiveOf(t) : t.slots[i].key # k
    PROVE  Unique(q)
<1>1. CASE q = t
  BY <1>1
<1>2. CASE q # t
  <2>1. PICK n : StopsAt(t, k, n) /\ Stored(t, q, k, v, At(t, k, n))
    BY <1>2, PutRawCases DEF Good
  <2>2. IsTable(t)
    BY DEF Good
  <2>3. PICK i \in 0..(t.cap - 1) : i = At(t, k, n) /\ Slot(t, k, n) = t.slots[i]
    BY <2>1, <2>2, ProbeInRange DEF StopsAt
  <2>4. /\ q.slots[i].key = k /\ LiveOf(q) = LiveOf(t) \cup {i}
        /\ \A j \in 0..(t.cap - 1) : j # i => q.slots[j] = t.slots[j]
    <3>1. Stored(t, q, k, v, i)
      BY <2>1, <2>3
    <3>2. QED
      BY <2>2, <3>1, StoredSlots
  <2>5. \A j \in LiveOf(t) : j \in 0..(t.cap - 1)
    BY DEF LiveOf
  <2>6. CASE t.slots[i].state = 1
    <3>1. t.slots[i].key = k /\ i \in LiveOf(t)
      BY <2>1, <2>3, <2>6 DEF StopsAt, Stops, Holds, LiveOf
    <3>2. QED
      BY <2>4, <2>5, <3>1 DEF Unique
  <2>7. CASE t.slots[i].state # 1
    <3>1. \A j \in LiveOf(t) : t.slots[j].key # k
      BY <2>1, <2>3, <2>7, NoKeyBehindFree
    <3>2. i \notin LiveOf(t)
      BY <2>7 DEF LiveOf
    <3>3. QED
      BY <2>4, <2>5, <3>1, <3>2 DEF Unique
  <2>8. QED
    BY <2>6, <2>7
<1>3. QED
  BY <1>1, <1>2

\* A key that was not there comes to the entries.
LEMMA PutEntries ==
    ASSUME Caller, NEW t, Good(t), t.len < t.cap, NEW k \in Keys,
           NEW v \in Values \cup {None}, NEW q, q = PutRaw(t, k, v),
           \A i \in LiveOf(t) : t.slots[i].key # k
    PROVE  \A x, w : Entry(q, x, w) <=> Entry(t, x, w) \/ (x = k /\ w = v)
<1>1. PICK n : StopsAt(t, k, n) /\ Stored(t, q, k, v, At(t, k, n))
  BY RoomStored
<1>2. IsTable(t)
  BY DEF Good
<1>3. PICK i \in 0..(t.cap - 1) : i = At(t, k, n) /\ Slot(t, k, n) = t.slots[i]
  BY <1>1, <1>2, ProbeInRange DEF StopsAt
<1>4. /\ q.slots[i].key = k /\ q.slots[i].value = v /\ LiveOf(q) = LiveOf(t) \cup {i}
      /\ \A j \in 0..(t.cap - 1) : j # i => q.slots[j] = t.slots[j]
  <2>1. Stored(t, q, k, v, i)
    BY <1>1, <1>3
  <2>2. QED
    BY <1>2, <2>1, StoredSlots
<1>5. i \notin LiveOf(t)
  BY <1>1, <1>3 DEF StopsAt, Stops, Holds, LiveOf
<1>6. \A j \in LiveOf(t) : q.slots[j] = t.slots[j]
  BY <1>4, <1>5 DEF LiveOf
<1>7. ASSUME NEW x, NEW w
      PROVE  Entry(q, x, w) <=> Entry(t, x, w) \/ (x = k /\ w = v)
  BY <1>4, <1>6 DEF Entry
<1>8. QED
  BY <1>7

LEMMA PutNewUnique ==
    ASSUME Caller, NEW t, Good(t), Unique(t), t.len < t.cap, NEW k \in Keys,
           NEW v \in Values \cup {None}, NEW q, q = PutRaw(t, k, v),
           \A i \in LiveOf(t) : t.slots[i].key # k
    PROVE  Unique(q)
<1>1. PICK n : StopsAt(t, k, n) /\ Stored(t, q, k, v, At(t, k, n))
  BY RoomStored
<1>2. IsTable(t)
  BY DEF Good
<1>3. PICK i \in 0..(t.cap - 1) : i = At(t, k, n) /\ Slot(t, k, n) = t.slots[i]
  BY <1>1, <1>2, ProbeInRange DEF StopsAt
<1>4. /\ q.slots[i].key = k /\ LiveOf(q) = LiveOf(t) \cup {i}
      /\ \A j \in 0..(t.cap - 1) : j # i => q.slots[j] = t.slots[j]
  <2>1. Stored(t, q, k, v, i)
    BY <1>1, <1>3
  <2>2. QED
    BY <1>2, <2>1, StoredSlots
<1>5. i \notin LiveOf(t)
  BY <1>1, <1>3 DEF StopsAt, Stops, Holds, LiveOf
<1>6. \A j \in LiveOf(t) : q.slots[j] = t.slots[j]
  BY <1>4, <1>5 DEF LiveOf
<1>7. QED
  BY <1>4, <1>6 DEF Unique

\* With every key once, the entries are what the caller sees.
LEMMA EntriesFound ==
    ASSUME Caller, NEW t, Good(t), Unique(t), NEW x \in Keys
    PROVE  /\ Search(t, x) # None <=> \E w : Entry(t, x, w)
           /\ \A w : Entry(t, x, w) => Lookup(t, x) = w
<1>1. CASE Missed(t, x, Search(t, x))
  BY <1>1 DEF Missed, Entry
<1>2. CASE Found(t, x, Search(t, x))
  <2>1. PICK s \in LiveOf(t) : s = Search(t, x) /\ s # None /\ t.slots[s].key = x
    BY <1>2 DEF Found
  <2>2. \A i \in LiveOf(t) : t.slots[i].key = x => i = s
    BY <2>1 DEF Unique
  <2>3. QED
    BY <2>1, <2>2 DEF Entry, Lookup
<1>3. QED
  BY <1>1, <1>2, SearchCases

LEMMA SameEntriesSameContents ==
    ASSUME Caller, NEW t, Good(t), Unique(t), NEW q, Good(q), Unique(q),
           \A x, w : Entry(q, x, w) <=> Entry(t, x, w)
    PROVE  ContentsOf(q) = ContentsOf(t)
<1>1. ASSUME NEW x \in Keys
      PROVE  /\ Search(q, x) # None <=> Search(t, x) # None
             /\ Search(t, x) # None => Lookup(q, x) = Lookup(t, x)
  <2>1. /\ Search(t, x) # None <=> \E w : Entry(t, x, w)
        /\ \A w : Entry(t, x, w) => Lookup(t, x) = w
    BY EntriesFound
  <2>2. /\ Search(q, x) # None <=> \E w : Entry(q, x, w)
        /\ \A w : Entry(q, x, w) => Lookup(q, x) = w
    BY EntriesFound
  <2>3. QED
    BY <2>1, <2>2
<1>2. PICK D : D = {y \in Keys : Search(t, y) # None}
  OBVIOUS
<1>3. D = {y \in Keys : Search(q, y) # None}
  BY <1>1, <1>2
<1>4. \A x \in D : Lookup(q, x) = Lookup(t, x)
  BY <1>1, <1>2
<1>5. ContentsOf(q) = [x \in D |-> Lookup(q, x)] /\ ContentsOf(t) = [x \in D |-> Lookup(t, x)]
  BY <1>2, <1>3 DEF ContentsOf
<1>6. QED
  BY <1>4, <1>5

-------------------------------------------------------------------------------
(* remove, and new tables.                                                  *)

LEMMA RemovedFacts ==
    ASSUME Caller, NEW t, Good(t), NEW i \in LiveOf(t), NEW q, q = Removed(t, i)
    PROVE  /\ Good(q) /\ q.cap = t.cap /\ q.len = t.len - 1
           /\ DifferAt(t, q, i) /\ q.slots[i].state = 2
           /\ LiveOf(q) = LiveOf(t) \ {i}
<1>1. PICK s : s = Tombstone
  OBVIOUS
<1>2. s \in ASlot /\ s.state = 2
  BY <1>1 DEF Tombstone, ASlot
<1>3. /\ IsTable(t) /\ Counted(t) /\ Chained(t) /\ i \in 0..(t.cap - 1)
      /\ t.cap \in Nat /\ t.len \in Nat /\ t.tombstones \in Nat
      /\ t.slots \in [0..(t.cap - 1) -> ASlot] /\ t.slots[i].state = 1
  BY DEF Good, IsTable, LiveOf
<1>4. /\ HasFields(q) /\ q.cap = t.cap /\ q.len = t.len - 1
      /\ q.tombstones = t.tombstones + 1 /\ q.slots = [t.slots EXCEPT ![i] = s]
  BY <1>1, <1>3 DEF Removed, IsTable, HasFields
<1>5. /\ q.slots \in [0..(t.cap - 1) -> ASlot] /\ q.slots[i] = s
      /\ \A p \in 0..(t.cap - 1) : p # i => q.slots[p] = t.slots[p]
  BY <1>2, <1>3, <1>4
<1>6. DifferAt(t, q, i)
  BY <1>3, <1>4, <1>5 DEF DifferAt
<1>7. LiveOf(q) = LiveOf(t) \ {i} /\ DeadOf(q) = DeadOf(t) \cup {i}
  BY <1>2, <1>3, <1>4, <1>5 DEF LiveOf, DeadOf
<1>8. Counted(q)
  <2>1. PICK L, D : L = LiveOf(t) /\ D = DeadOf(t)
    OBVIOUS
  <2>2. IsFiniteSet(L) /\ IsFiniteSet(D)
    BY <1>3, <2>1, SlotsFinite
  <2>3. i \in L /\ i \notin D
    BY <1>3, <2>1 DEF DeadOf
  <2>4. Cardinality(L \ {i}) = IF i \in L THEN Cardinality(L) - 1 ELSE Cardinality(L)
    BY <2>2, FS_RemoveElement
  <2>5. Cardinality(D \cup {i}) = IF i \in D THEN Cardinality(D) ELSE Cardinality(D) + 1
    BY <2>2, FS_AddElement
  <2>6. QED
    BY <1>3, <1>4, <1>7, <2>1, <2>3, <2>4, <2>5 DEF Counted
<1>9. IsTable(q)
  <2>1. IsFiniteSet(LiveOf(q)) /\ Cardinality(LiveOf(q)) \in Nat
    BY <1>3, <1>4, SlotsFinite
  <2>2. q.len \in Nat /\ q.tombstones \in Nat
    BY <1>3, <1>4, <1>8, <2>1 DEF Counted
  <2>3. \A p \in LiveOf(q) : q.slots[p].key \in Keys
    BY <1>3, <1>5, <1>7 DEF IsTable, LiveOf
  <2>4. QED
    BY <1>3, <1>4, <1>5, <2>2, <2>3 DEF IsTable
<1>10. Chained(q)
  <2>1. SUFFICES ASSUME NEW j \in LiveOf(q), NEW l \in Probes(q), NEW x, x = q.slots[j].key,
                        \A m \in 0..l : At(q, x, m) # j
                 PROVE  Slot(q, x, l).state # 0
    BY DEF Chained
  <2>2. \A m : At(q, x, m) = At(t, x, m)
    BY <1>4 DEF At
  <2>3. j \in LiveOf(t) /\ x = t.slots[j].key /\ x \in Keys /\ l \in Probes(t)
    BY <1>3, <1>4, <1>5, <1>7, <2>1 DEF LiveOf, IsTable, Probes
  <2>4. Slot(t, x, l).state # 0
    BY <1>3, <2>1, <2>2, <2>3 DEF Chained
  <2>5. PICK p \in 0..(t.cap - 1) : p = At(t, x, l) /\ p = At(q, x, l)
    BY <1>3, <2>2, <2>3, ProbeInRange
  <2>6. QED
    BY <1>2, <1>5, <2>4, <2>5 DEF Slot
<1>11. QED
  BY <1>4, <1>2, <1>5, <1>6, <1>7, <1>8, <1>9, <1>10 DEF Good

\* A key that was in the table once is not any more.
LEMMA RemovedContents ==
    ASSUME Caller, NEW t, Good(t), Unique(t), NEW k \in Keys, NEW i,
           Found(t, k, i), NEW q, q = Removed(t, i)
    PROVE  ContentsOf(q) = Without(ContentsOf(t), k)
<1>1. i \in LiveOf(t) /\ t.slots[i].key = k
  BY DEF Found
<1>2. /\ Good(q) /\ DifferAt(t, q, i) /\ q.slots[i].state = 2
      /\ LiveOf(q) = LiveOf(t) \ {i}
  BY <1>1, RemovedFacts
<1>3. Search(q, k) = None
  <2>1. ASSUME NEW j \in LiveOf(q), q.slots[j].key = k
        PROVE  FALSE
    <3>1. j \in LiveOf(t) /\ j # i /\ q.slots[j] = t.slots[j]
      BY <1>2, <2>1 DEF DifferAt, LiveOf
    <3>2. QED
      BY <1>1, <2>1, <3>1 DEF Unique
  <2>2. QED
    BY <1>2, <2>1, SearchMisses DEF Good
<1>4. ASSUME NEW x \in Keys, x # k
      PROVE  /\ Search(q, x) = Search(t, x)
             /\ Search(t, x) # None => Lookup(q, x) = Lookup(t, x)
  <2>1. ~Holds(q.slots[i], x) /\ ~Holds(t.slots[i], x)
    BY <1>1, <1>2, <1>4 DEF Holds
  <2>2. QED
    BY <1>2, <2>1, SameForOthers
<1>5. PICK D : D = {y \in Keys : Search(t, y) # None} \ {k}
  OBVIOUS
<1>6. D = {y \in Keys : Search(q, y) # None}
  BY <1>3, <1>4, <1>5
<1>7. DOMAIN ContentsOf(t) = {y \in Keys : Search(t, y) # None}
  BY DEF ContentsOf
<1>8. \A x \in D : ContentsOf(t)[x] = Lookup(q, x)
  BY <1>4, <1>5 DEF ContentsOf
<1>9. ContentsOf(q) = [x \in D |-> Lookup(q, x)]
  BY <1>6 DEF ContentsOf
<1>10. [x \in D |-> Lookup(q, x)] = [x \in D |-> ContentsOf(t)[x]]
  BY <1>8
<1>11. D = DOMAIN ContentsOf(t) \ {k}
  BY <1>5, <1>7
<1>12. QED
  BY <1>9, <1>10, <1>11 DEF Without

LEMMA NewTableFacts ==
    ASSUME Caller, NEW n \in Nat, NEW t, t = NewTable(n)
    PROVE  /\ Good(t) /\ t.cap = n /\ t.len = 0 /\ LiveOf(t) = {} /\ DeadOf(t) = {}
           /\ Unique(t)
<1>1. PICK s : s = Empty
  OBVIOUS
<1>2. s \in ASlot /\ s.state = 0
  BY <1>1 DEF Empty, ASlot
<1>3. /\ t.cap = n /\ t.len = 0 /\ t.tombstones = 0 /\ t.slots = [i \in 0..(n - 1) |-> s]
      /\ HasFields(t)
  BY <1>1 DEF NewTable, HasFields
<1>4. t.slots \in [0..(n - 1) -> ASlot] /\ \A i \in 0..(n - 1) : t.slots[i] = s
  BY <1>2, <1>3
<1>5. LiveOf(t) = {} /\ DeadOf(t) = {}
  BY <1>2, <1>3, <1>4 DEF LiveOf, DeadOf
<1>6. Counted(t)
  BY <1>3, <1>5, FS_EmptySet DEF Counted
<1>7. IsTable(t) /\ Chained(t) /\ Unique(t)
  BY <1>3, <1>4, <1>5 DEF IsTable, Chained, Unique
<1>8. QED
  BY <1>3, <1>5, <1>6, <1>7 DEF Good

-------------------------------------------------------------------------------
(* rehash.                                                                  *)

\* The live slots that the loop of rehash has passed before slot i.
LiveBelow(t, i) == {j \in LiveOf(t) : j < i}

\* What m is when the loop has come to slot i.
MovedSoFar(t, n, i, m) ==
    /\ Good(m) /\ m.cap = n /\ DeadOf(m) = {}
    /\ m.len <= Cardinality(LiveBelow(t, i))
    /\ Unique(t) /\ t.len < n =>
          /\ Unique(m)
          /\ \A x, w : Entry(m, x, w) <=> \E j \in LiveBelow(t, i) :
                                             t.slots[j].key = x /\ t.slots[j].value = w

LEMMA BelowFinite ==
    ASSUME NEW t, Good(t), NEW i \in Nat
    PROVE  /\ IsFiniteSet(LiveBelow(t, i)) /\ Cardinality(LiveBelow(t, i)) \in Nat
           /\ Cardinality(LiveBelow(t, i)) <= t.len
<1>1. t.cap \in Nat /\ t.len = Cardinality(LiveOf(t))
  BY DEF Good, IsTable, Counted
<1>2. PICK L, B : L = LiveOf(t) /\ B = LiveBelow(t, i)
  OBVIOUS
<1>3. IsFiniteSet(L) /\ B \in SUBSET L
  BY <1>1, <1>2, SlotsFinite DEF LiveBelow
<1>4. IsFiniteSet(B) /\ Cardinality(B) <= Cardinality(L)
  BY <1>3, FS_Subset
<1>5. Cardinality(B) \in Nat
  BY <1>4, FS_CardinalityType
<1>6. QED
  BY <1>1, <1>2, <1>4, <1>5

LEMMA MovedStep ==
    ASSUME Caller, NEW t, Good(t), NEW n \in Nat, NEW i \in 0..(t.cap - 1),
           NEW m, MovedSoFar(t, n, i, m), NEW q, q = Moved(m, t.slots[i])
    PROVE  MovedSoFar(t, n, i + 1, q)
<1>1. /\ i \in Nat /\ i + 1 \in Nat /\ IsTable(t) /\ t.slots[i] \in ASlot
      /\ t.cap \in Nat /\ t.len \in Nat
  BY DEF Good, IsTable
<1>2. /\ IsFiniteSet(LiveBelow(t, i)) /\ Cardinality(LiveBelow(t, i)) \in Nat
      /\ Cardinality(LiveBelow(t, i)) <= t.len
  BY <1>1, BelowFinite
<1>3. /\ Cardinality(LiveBelow(t, i + 1)) \in Nat
      /\ Cardinality(LiveBelow(t, i + 1)) <= t.len
  BY <1>1, BelowFinite
<1>4. LiveBelow(t, i + 1) = IF t.slots[i].state = 1 THEN LiveBelow(t, i) \cup {i}
                            ELSE LiveBelow(t, i)
  BY <1>1 DEF LiveBelow, LiveOf
<1>5. CASE t.slots[i].state # 1
  <2>1. q = m /\ LiveBelow(t, i + 1) = LiveBelow(t, i)
    BY <1>4, <1>5 DEF Moved
  <2>2. QED
    BY <2>1 DEF MovedSoFar
<1>6. CASE t.slots[i].state = 1
  <2>1. PICK k \in Keys, v \in Values \cup {None} :
            k = t.slots[i].key /\ v = t.slots[i].value /\ i \in LiveOf(t)
    BY <1>1, <1>6 DEF IsTable, LiveOf, ASlot
  <2>2. q = PutRaw(m, k, v)
    BY <1>6, <2>1 DEF Moved
  <2>3. /\ Good(m) /\ m.cap = n /\ DeadOf(m) = {} /\ m.len \in Nat
        /\ m.len <= Cardinality(LiveBelow(t, i))
    BY DEF MovedSoFar, Good, IsTable
  <2>4. Good(q) /\ q.cap = m.cap /\ q.len <= m.len + 1 /\ DeadOf(q) \subseteq DeadOf(m)
    BY <2>2, <2>3, PutRawGood
  <2>5. q.len \in Nat
    BY <2>4 DEF Good, IsTable
  <2>6. i \notin LiveBelow(t, i) /\ LiveBelow(t, i + 1) = LiveBelow(t, i) \cup {i}
    BY <1>1, <1>4, <1>6 DEF LiveBelow
  <2>7. Cardinality(LiveBelow(t, i + 1)) = Cardinality(LiveBelow(t, i)) + 1
    <3>1. PICK B : B = LiveBelow(t, i)
      OBVIOUS
    <3>2. Cardinality(B \cup {i}) = IF i \in B THEN Cardinality(B) ELSE Cardinality(B) + 1
      BY <1>2, <3>1, FS_AddElement
    <3>3. QED
      BY <2>6, <3>1, <3>2
  <2>8. q.len <= Cardinality(LiveBelow(t, i + 1))
    BY <1>2, <2>3, <2>4, <2>5, <2>7
  <2>9. ASSUME Unique(t), t.len < n
        PROVE  /\ Unique(q)
               /\ \A x, w : Entry(q, x, w) <=> \E j \in LiveBelow(t, i + 1) :
                                                  t.slots[j].key = x /\ t.slots[j].value = w
    <3>1. /\ Unique(m)
          /\ \A x, w : Entry(m, x, w) <=> \E j \in LiveBelow(t, i) :
                                             t.slots[j].key = x /\ t.slots[j].value = w
      BY <2>9 DEF MovedSoFar
    <3>2. \A j \in LiveOf(m) : m.slots[j].key # k
      <4>1. SUFFICES ASSUME NEW j \in LiveOf(m), m.slots[j].key = k PROVE FALSE
        OBVIOUS
      <4>2. Entry(m, k, m.slots[j].value)
        BY <4>1 DEF Entry
      <4>3. PICK l \in LiveBelow(t, i) : t.slots[l].key = k
        BY <3>1, <4>2
      <4>4. l \in LiveOf(t) /\ l # i
        BY <1>1, <2>6, <4>3 DEF LiveBelow
      <4>5. QED
        BY <2>1, <2>9, <4>3, <4>4 DEF Unique
    <3>3. m.len < m.cap
      BY <1>1, <1>2, <2>3, <2>9
    <3>4. Unique(q)
      BY <2>2, <2>3, <3>1, <3>2, PutUnique
    <3>5. \A x, w : Entry(q, x, w) <=> Entry(m, x, w) \/ (x = k /\ w = v)
      BY <2>2, <2>3, <3>2, <3>3, PutEntries
    <3>6. QED
      BY <2>1, <2>6, <3>1, <3>4, <3>5
  <2>10. QED
    BY <2>3, <2>4, <2>8, <2>9 DEF MovedSoFar
<1>7. QED
  BY <1>5, <1>6

\* The tables that the loop of rehash goes through.
Moves(t, n, g) ==
    g = [i \in 0..t.cap |-> IF i = 0 THEN NewTable(n) ELSE Moved(g[i - 1], t.slots[i - 1])]

LEMMA MovesExist ==
    ASSUME NEW t, t.cap \in Nat, NEW n
    PROVE  \E g : Moves(t, n, g)
<1>1. PICK c \in Nat : c = t.cap
  OBVIOUS
<1> DEFINE Done(g, m) == /\ g = [i \in 0..c |-> g[i]]
                         /\ \A i \in 0..m : g[i] = IF i = 0 THEN NewTable(n)
                                                   ELSE Moved(g[i - 1], t.slots[i - 1])
           Bad == {m \in 0..c : ~(\E g : Done(g, m))}
<1>2. Bad = {}
  <2>1. SUFFICES ASSUME Bad # {} PROVE FALSE
    OBVIOUS
  <2>2. Bad \in SUBSET Nat
    BY <1>1
  <2>3. PICK m \in Bad : \A j \in Bad : m <= j
    <3> HIDE DEF Bad
    <3>1. QED
      BY <2>1, <2>2, LeastExists
  <2>4. m \in 0..c /\ m \in Nat
    BY <1>1
  <2>5. CASE m = 0
    <3>1. PICK g : g = [i \in 0..c |-> NewTable(n)]
      OBVIOUS
    <3>2. g = [i \in 0..c |-> g[i]] /\ g[0] = NewTable(n)
      BY <1>1, <3>1
    <3>3. Done(g, m)
      BY <2>5, <3>2
    <3>4. QED
      BY <3>3
  <2>6. CASE m > 0
    <3>1. m - 1 \in 0..c /\ m - 1 \notin Bad
      BY <1>1, <2>3, <2>4, <2>6
    <3>2. PICK g : Done(g, m - 1)
      BY <1>1, <3>1
    <3>3. PICK w : w = Moved(g[m - 1], t.slots[m - 1])
      OBVIOUS
    <3>4. PICK h : h = [i \in 0..c |-> IF i = m THEN w ELSE g[i]]
      OBVIOUS
    <3>5. h = [i \in 0..c |-> h[i]] /\ h[m] = w
      BY <2>4, <3>4
    <3>6. \A i \in 0..(m - 1) : h[i] = g[i]
      BY <2>4, <3>4
    <3>7. ASSUME NEW i \in 0..m
          PROVE  h[i] = IF i = 0 THEN NewTable(n) ELSE Moved(h[i - 1], t.slots[i - 1])
      <4>1. CASE i = m
        <5>1. m - 1 \in 0..(m - 1)
          BY <2>4, <2>6
        <5>2. h[m - 1] = g[m - 1]
          BY <3>6, <5>1
        <5>3. QED
          BY <2>6, <3>3, <3>5, <4>1, <5>2
      <4>2. CASE i # m
        <5>1. i \in 0..(m - 1) /\ (i # 0 => i - 1 \in 0..(m - 1))
          BY <2>4, <4>2
        <5>2. h[i] = g[i] /\ (i # 0 => h[i - 1] = g[i - 1])
          BY <3>6, <5>1
        <5>3. g[i] = IF i = 0 THEN NewTable(n) ELSE Moved(g[i - 1], t.slots[i - 1])
          BY <3>2, <5>1
        <5>4. QED
          BY <5>2, <5>3
      <4>3. QED
        BY <4>1, <4>2
    <3>8. Done(h, m)
      BY <3>5, <3>7
    <3>9. QED
      BY <3>8
  <2>7. QED
    BY <2>4, <2>5, <2>6
<1>3. PICK g : Done(g, c)
  <2>1. c \in 0..c /\ c \notin Bad
    BY <1>1, <1>2
  <2>2. QED
    BY <2>1
<1>4. g = [i \in 0..c |-> IF i = 0 THEN NewTable(n) ELSE Moved(g[i - 1], t.slots[i - 1])]
  BY <1>3
<1>5. QED
  BY <1>1, <1>4 DEF Moves

\* What rehash leaves.
LEMMA RehashFacts ==
    ASSUME Caller, NEW t, Good(t), NEW n \in Nat, NEW r, r = Rehash(t, n)
    PROVE  /\ Good(r) /\ r.cap = n /\ DeadOf(r) = {} /\ r.len <= t.len
           /\ Unique(t) /\ t.len < n =>
                 Unique(r) /\ \A x, w : Entry(r, x, w) <=> Entry(t, x, w)
<1>1. PICK c \in Nat : c = t.cap /\ t.len \in Nat
  BY DEF Good, IsTable
<1>2. PICK g : g = CHOOSE h : Moves(t, n, h)
  OBVIOUS
<1>3. Moves(t, n, g)
  BY <1>1, <1>2, MovesExist
<1>4. r = g[c]
  BY <1>1, <1>2 DEF Rehash, Moves
<1>5. /\ g[0] = NewTable(n)
      /\ \A i \in 0..(c - 1) : g[i + 1] = Moved(g[i], t.slots[i])
  <2>1. \A i \in 0..c : g[i] = IF i = 0 THEN NewTable(n) ELSE Moved(g[i - 1], t.slots[i - 1])
    BY <1>1, <1>3 DEF Moves
  <2>2. ASSUME NEW i \in 0..(c - 1)
        PROVE  g[i + 1] = Moved(g[i], t.slots[i])
    <3>1. i + 1 \in 0..c /\ i + 1 # 0 /\ (i + 1) - 1 = i
      BY <1>1
    <3>2. QED
      BY <2>1, <3>1
  <2>3. QED
    BY <1>1, <2>1, <2>2
<1> DEFINE Bad == {i \in 0..c : ~MovedSoFar(t, n, i, g[i])}
<1>6. Bad = {}
  <2>1. SUFFICES ASSUME Bad # {} PROVE FALSE
    OBVIOUS
  <2>2. Bad \in SUBSET Nat
    BY <1>1
  <2>3. PICK m \in Bad : \A j \in Bad : m <= j
    <3> HIDE DEF Bad
    <3>1. QED
      BY <2>1, <2>2, LeastExists
  <2>4. m \in 0..c /\ m \in Nat /\ ~MovedSoFar(t, n, m, g[m])
    BY <1>1
  <2>5. CASE m = 0
    <3>1. /\ Good(g[0]) /\ g[0].cap = n /\ g[0].len = 0 /\ LiveOf(g[0]) = {}
          /\ DeadOf(g[0]) = {} /\ Unique(g[0])
      BY <1>5, NewTableFacts
    <3>2. LiveBelow(t, 0) = {} /\ Cardinality({}) = 0
      BY FS_EmptySet DEF LiveBelow, LiveOf
    <3>3. \A x, w : Entry(g[0], x, w) <=> \E j \in LiveBelow(t, 0) :
                                             t.slots[j].key = x /\ t.slots[j].value = w
      BY <3>1, <3>2 DEF Entry
    <3>4. MovedSoFar(t, n, 0, g[0])
      BY <3>1, <3>2, <3>3 DEF MovedSoFar
    <3>5. QED
      BY <2>4, <2>5, <3>4
  <2>6. CASE m > 0
    <3>1. PICK i \in 0..(c - 1) : m = i + 1
      <4>1. m - 1 \in 0..(c - 1) /\ m = (m - 1) + 1
        BY <1>1, <2>4, <2>6
      <4>2. QED
        BY <4>1
    <3>2. MovedSoFar(t, n, i, g[i])
      <4>1. i \in 0..c /\ ~(m <= i)
        BY <1>1, <3>1
      <4>2. QED
        BY <2>3, <4>1
    <3>3. PICK q : q = g[m] /\ q = Moved(g[i], t.slots[i])
      BY <1>5, <3>1
    <3>4. MovedSoFar(t, n, i + 1, q)
      BY <1>1, <3>2, <3>3, MovedStep
    <3>5. QED
      BY <2>4, <3>1, <3>3, <3>4
  <2>7. QED
    BY <2>4, <2>5, <2>6
<1>7. MovedSoFar(t, n, c, r)
  <2>1. c \in 0..c /\ c \notin Bad
    BY <1>1, <1>6
  <2>2. QED
    BY <1>4, <2>1
<1>8. LiveBelow(t, c) = LiveOf(t)
  BY <1>1 DEF LiveBelow, LiveOf
<1>9. Cardinality(LiveOf(t)) = t.len
  BY DEF Good, Counted
<1>10. QED
  BY <1>7, <1>8, <1>9 DEF MovedSoFar, Entry

-------------------------------------------------------------------------------
(* The invariant.                                                           *)

\* What a table is between two calls.  A set has no key twice and no values; of a
\* map only the first is true, and only as long as it has no tombstones.
HashInv ==
    /\ kind \in {"map", "set"} /\ hash_fn \in Hashes
    /\ Good(table)
    /\ table.cap \in 0..MaxCap
    /\ table.cap > 0 => table.len * 10 < table.cap * 7
    /\ kind = "set" => /\ Unique(table)
                       /\ \A x, w : Entry(table, x, w) => w = None

LEMMA CallerIs == HashInv => Caller
BY TableAssumption DEF HashInv, Caller

\* What one call leaves in the variables is what the facts above say of the table.
LEMMA InvFrom ==
    ASSUME HashInv, hash_fn' = hash_fn, kind' = kind, NEW q, q = table',
           Good(q), q.cap \in 0..MaxCap, q.cap > 0 => q.len * 10 < q.cap * 7,
           kind = "set" => Unique(q) /\ \A x, w : Entry(q, x, w) => w = None
    PROVE  HashInv'
<1>1. kind' \in {"map", "set"} /\ hash_fn' \in Hashes
  BY DEF HashInv
<1>2. LiveOf(table)' = LiveOf(q) /\ DeadOf(table)' = DeadOf(q)
  BY DEF LiveOf, DeadOf
<1>3. IsTable(table)'
  BY <1>2 DEF Good, IsTable, HasFields
<1>4. Counted(table)'
  BY <1>2 DEF Good, Counted
<1>5. \A x, m : At(table, x, m)' = At(q, x, m) /\ Slot(table, x, m)' = Slot(q, x, m)
  BY DEF At, Slot
<1>6. Chained(table)'
  BY <1>2, <1>5 DEF Good, Chained, Probes
<1>7. Good(table)'
  BY <1>3, <1>4, <1>6 DEF Good
<1>8. kind' = "set" => /\ Unique(table)'
                       /\ \A x, w : Entry(table, x, w)' => w = None
  BY <1>2 DEF Unique, Entry
<1>9. QED
  BY <1>1, <1>7, <1>8 DEF HashInv

LEMMA InvInit == Init => HashInv
<1> SUFFICES ASSUME Init PROVE HashInv
  OBVIOUS
<1>1. Caller /\ MaxCap \in Nat
  BY TableAssumption DEF Init, Caller
<1>2. /\ Good(table) /\ table.cap = 0 /\ table.len = 0 /\ LiveOf(table) = {}
      /\ Unique(table)
  BY <1>1, NewTableFacts DEF Init, NoTable
<1>3. QED
  BY <1>1, <1>2 DEF Init, HashInv, Entry

\* The table that put and insert store into: it has room, and it holds what the
\* table held before.
HasRoom(g) == g.cap \in 1..MaxCap /\ (g.len + 1) * 10 < g.cap * 7

LEMMA GrownFacts ==
    ASSUME HashInv, WantedCap(table) <= MaxCap, NEW g, g = Grown
    PROVE  /\ Good(g) /\ HasRoom(g) /\ g.len < g.cap /\ g.len \in Nat
           /\ g = table \/ DeadOf(g) = {}
           /\ Unique(table) => Unique(g) /\ \A x, w : Entry(g, x, w) <=> Entry(table, x, w)
<1>1. PICK c \in Nat, l \in Nat :
          /\ c = table.cap /\ l = table.len /\ c <= MaxCap /\ Good(table)
          /\ c > 0 => l * 10 < c * 7
  BY DEF HashInv, Good, IsTable
<1>2. l <= c
  BY <1>1, SlotsFinite DEF Good, Counted
<1>3. PICK w \in Nat : w = WantedCap(table)
  BY <1>1, TableAssumption DEF WantedCap
<1>4. /\ w \in 1..MaxCap /\ (l + 1) * 10 < w * 7 /\ l < w
      /\ w = c => ~NeedsGrow(table)
  <2>1. CASE c = 0
    <3>1. w = MinCap /\ l = 0 /\ MinCap \in Nat /\ MinCap > 1
      BY <1>1, <1>2, <1>3, <2>1, TableAssumption DEF WantedCap
    <3>2. QED
      BY <1>3, <2>1, <3>1, TableAssumption
  <2>2. CASE c # 0
    <3>1. w = IF (l + 1) * 10 >= c * 7 THEN c * 2 ELSE c
      BY <1>1, <1>3, <2>2 DEF WantedCap, NeedsGrow
    <3>2. MaxCap \in Nat /\ w <= MaxCap /\ l * 10 < c * 7
      BY <1>1, <1>3, <2>2, TableAssumption
    <3>3. CASE (l + 1) * 10 >= c * 7
      BY <3>1, <3>2, <3>3, <2>2
    <3>4. CASE ~((l + 1) * 10 >= c * 7)
      BY <1>1, <3>1, <3>2, <3>4, <2>2 DEF NeedsGrow
    <3>5. QED
      BY <3>3, <3>4
  <2>3. QED
    BY <2>1, <2>2
<1>5. CASE w = c
  <2>1. g = table
    BY <1>1, <1>3, <1>5 DEF Grown
  <2>2. QED
    BY <1>1, <1>4, <1>5, <2>1 DEF HasRoom
<1>6. CASE w # c
  <2>1. g = Rehash(table, w)
    BY <1>1, <1>3, <1>6 DEF Grown
  <2>2. /\ Good(g) /\ g.cap = w /\ DeadOf(g) = {} /\ g.len <= l
        /\ Unique(table) /\ l < w =>
              Unique(g) /\ \A x, v : Entry(g, x, v) <=> Entry(table, x, v)
    BY <1>1, <2>1, CallerIs, RehashFacts
  <2>3. g.len \in Nat
    BY <2>2 DEF Good, IsTable
  <2>4. HasRoom(g) /\ g.len < g.cap
    BY <1>4, <2>2, <2>3 DEF HasRoom
  <2>5. QED
    BY <1>4, <2>2, <2>3, <2>4
<1>7. QED
  BY <1>5, <1>6

\* put_raw into it.
LEMMA RoomUsed ==
    ASSUME HashInv, NEW g, Good(g), HasRoom(g), NEW k \in Keys,
           NEW v \in Values \cup {None}, NEW q, q = PutRaw(g, k, v)
    PROVE  /\ Good(q) /\ q.cap \in 0..MaxCap
           /\ q.cap > 0 => q.len * 10 < q.cap * 7
<1>1. Good(q) /\ q.cap = g.cap /\ q.len <= g.len + 1
  BY CallerIs, PutRawGood
<1>2. q.len \in Nat /\ g.len \in Nat /\ g.cap \in Nat
  BY <1>1 DEF Good, IsTable
<1>3. QED
  BY <1>1, <1>2, TableAssumption DEF HasRoom

LEMMA InvPut ==
    ASSUME HashInv, NEW k \in Keys, NEW v \in Values, Put(k, v)
    PROVE  HashInv'
<1>1. PICK g, q : g = Grown /\ q = table' /\ q = PutRaw(g, k, v)
  BY DEF Put
<1>2. Good(g) /\ HasRoom(g)
  BY <1>1, GrownFacts DEF Put
<1>3. Good(q) /\ q.cap \in 0..MaxCap /\ (q.cap > 0 => q.len * 10 < q.cap * 7)
  BY <1>1, <1>2, RoomUsed
<1>4. kind # "set" /\ kind' = kind /\ hash_fn' = hash_fn
  BY DEF Put
<1>5. QED
  BY <1>1, <1>3, <1>4, InvFrom

LEMMA InvInsert ==
    ASSUME HashInv, NEW k \in Keys, Insert(k)
    PROVE  HashInv'
<1>1. PICK g, q : /\ g = Grown /\ q = table'
                  /\ q = IF Search(g, k) # None THEN g ELSE PutRaw(g, k, None)
  BY DEF Insert
<1>2. kind = "set" /\ kind' = kind /\ hash_fn' = hash_fn /\ Caller
  BY CallerIs DEF Insert
<1>3. Unique(table) /\ \A x, w : Entry(table, x, w) => w = None
  BY <1>2 DEF HashInv
<1>4. /\ Good(g) /\ HasRoom(g) /\ g.len < g.cap /\ g.len \in Nat
      /\ g = table \/ DeadOf(g) = {}
      /\ Unique(g) /\ \A x, w : Entry(g, x, w) <=> Entry(table, x, w)
  BY <1>1, <1>3, GrownFacts DEF Insert
<1>5. CASE Search(g, k) # None
  <2>1. q = g
    BY <1>1, <1>5
  <2>2. g.cap \in Nat /\ MaxCap \in Nat
    BY <1>4, TableAssumption DEF Good, IsTable
  <2>3. q.cap \in 0..MaxCap /\ (q.cap > 0 => q.len * 10 < q.cap * 7)
    BY <1>4, <2>1, <2>2 DEF HasRoom
  <2>4. QED
    BY <1>1, <1>2, <1>3, <1>4, <2>1, <2>3, InvFrom
<1>6. CASE Search(g, k) = None
  <2>1. q = PutRaw(g, k, None) /\ None \in Values \cup {None}
    BY <1>1, <1>6
  <2>2. \A i \in LiveOf(g) : g.slots[i].key # k
    BY <1>2, <1>4, <1>6, SearchCases DEF Found, Missed
  <2>3. Good(q) /\ q.cap \in 0..MaxCap /\ (q.cap > 0 => q.len * 10 < q.cap * 7)
    BY <1>4, <2>1, RoomUsed
  <2>4. \A x, w : Entry(q, x, w) <=> Entry(g, x, w) \/ (x = k /\ w = None)
    BY <1>2, <1>4, <2>1, <2>2, PutEntries
  <2>5. Unique(q)
    BY <1>2, <1>4, <2>1, <2>2, PutNewUnique
  <2>6. QED
    BY <1>1, <1>2, <1>3, <1>4, <2>3, <2>4, <2>5, InvFrom
<1>7. QED
  BY <1>5, <1>6

LEMMA InvRemove ==
    ASSUME HashInv, NEW k \in Keys, Remove(k)
    PROVE  HashInv'
<1>1. PICK i, q : /\ i = Search(table, k) /\ q = table'
                  /\ q = IF i = None THEN table ELSE Removed(table, i)
  BY DEF Remove
<1>2. /\ kind' = kind /\ hash_fn' = hash_fn /\ Caller /\ Good(table)
      /\ table.cap \in 0..MaxCap /\ (table.cap > 0 => table.len * 10 < table.cap * 7)
      /\ table.len \in Nat
      /\ kind = "set" => Unique(table) /\ \A x, w : Entry(table, x, w) => w = None
  BY CallerIs DEF Remove, HashInv, Good, IsTable
<1>3. CASE i = None
  <2>1. q = table
    BY <1>1, <1>3
  <2>2. QED
    BY <1>1, <1>2, <2>1, InvFrom
<1>4. CASE i # None
  <2>1. i \in LiveOf(table) /\ q = Removed(table, i)
    BY <1>1, <1>2, <1>4, SearchCases DEF Found, Missed
  <2>2. /\ Good(q) /\ q.cap = table.cap /\ q.len = table.len - 1
        /\ DifferAt(table, q, i) /\ LiveOf(q) = LiveOf(table) \ {i}
    BY <1>2, <2>1, RemovedFacts
  <2>3. q.cap \in 0..MaxCap /\ (q.cap > 0 => q.len * 10 < q.cap * 7)
    BY <1>2, <2>2, TableAssumption
  <2>4. \A j \in LiveOf(q) : j \in LiveOf(table) /\ q.slots[j] = table.slots[j]
    BY <2>2 DEF DifferAt, LiveOf
  <2>5. kind = "set" => Unique(q) /\ \A x, w : Entry(q, x, w) => w = None
    BY <1>2, <2>4 DEF Unique, Entry
  <2>6. QED
    BY <1>1, <1>2, <2>2, <2>3, <2>5, InvFrom
<1>5. QED
  BY <1>3, <1>4

\* clear and destroy.
LEMMA InvEmptied ==
    ASSUME HashInv, Clear \/ Destroy
    PROVE  HashInv' /\ LiveOf(table') = {}
<1>1. table.cap \in 0..MaxCap /\ MaxCap \in Nat /\ table.cap \in Nat /\ Caller
  BY CallerIs, TableAssumption DEF HashInv, Good, IsTable
<1>2. PICK q : q = table' /\ \E n \in 0..MaxCap : q = NewTable(n)
  BY <1>1 DEF Clear, Destroy, NoTable
<1>9. PICK n \in 0..MaxCap : q = NewTable(n)
  BY <1>2
<1>10. n \in Nat
  BY <1>1, <1>9
<1>3. /\ Good(q) /\ q.cap = n /\ q.len = 0 /\ LiveOf(q) = {} /\ Unique(q)
  BY <1>1, <1>9, <1>10, NewTableFacts
<1>4. q.cap \in 0..MaxCap /\ (q.cap > 0 => q.len * 10 < q.cap * 7)
  BY <1>1, <1>3, <1>9, <1>10
<1>5. kind' = kind /\ hash_fn' = hash_fn
  BY DEF Clear, Destroy
<1>6. \A x, w : ~Entry(q, x, w)
  BY <1>3 DEF Entry
<1>7. HashInv'
  BY <1>2, <1>3, <1>4, <1>5, <1>6, InvFrom
<1>8. QED
  BY <1>2, <1>3, <1>7

LEMMA InvStays ==
    ASSUME HashInv, UNCHANGED <<kind, hash_fn, table>>
    PROVE  HashInv'
<1>1. PICK q : q = table'
  OBVIOUS
<1>2. /\ Good(q) /\ q.cap \in 0..MaxCap /\ (q.cap > 0 => q.len * 10 < q.cap * 7)
      /\ kind = "set" => Unique(q) /\ \A x, w : Entry(q, x, w) => w = None
  <2>1. q = table
    BY <1>1
  <2>2. QED
    BY <2>1 DEF HashInv
<1>3. QED
  BY <1>1, <1>2, InvFrom

LEMMA InvNext == HashInv /\ [Next]_vars => HashInv'
<1> SUFFICES ASSUME HashInv, [Next]_vars PROVE HashInv'
  OBVIOUS
<1>1. ASSUME NEW k \in Keys, NEW v \in Values, Put(k, v) PROVE HashInv'
  BY <1>1, InvPut
<1>2. ASSUME NEW k \in Keys, Insert(k) PROVE HashInv'
  BY <1>2, InvInsert
<1>3. ASSUME NEW k \in Keys, Remove(k) PROVE HashInv'
  BY <1>3, InvRemove
<1>4. CASE OutOfMemory
  BY <1>4, InvStays DEF OutOfMemory
<1>5. CASE Clear \/ Destroy
  BY <1>5, InvEmptied
<1>6. CASE UNCHANGED vars
  BY <1>6, InvStays DEF vars
<1>7. QED
  BY <1>1, <1>2, <1>3, <1>4, <1>5, <1>6 DEF Next

\* A slot, and a table of slots, is what the type invariant says, at all times.
LEMMA InvHolds == Spec => []HashInv
<1>1. QED
  BY InvInit, InvNext, PTL DEF Spec

-------------------------------------------------------------------------------
(* The theorems.                                                            *)

\* len and tombstones are the numbers of live slots and of tombstones, whatever
\* put_raw, remove, rehash and clear did, and less than 70% of a table is live
\* (hashmap.cmm:60-63,105-130,185-209): put always finds a slot, and the unsigned
\* counters never wrap around.
THEOREM CountersAreRight == Spec => []CountersRight
<1>1. HashInv => CountersRight
  <2> SUFFICES ASSUME HashInv PROVE CountersRight
    OBVIOUS
  <2>1. /\ IsTable(table) /\ Counted(table) /\ table.cap \in Nat /\ table.len \in Nat
        /\ table.tombstones \in Nat
        /\ table.slots \in [0..(table.cap - 1) -> ASlot]
    BY DEF HashInv, Good, IsTable
  <2>2. LiveSlots = LiveOf(table)
    BY <2>1 DEF LiveSlots, LiveOf
  <2>3. DeadOf(table) = {i \in DOMAIN table.slots : table.slots[i].state = 2}
    BY <2>1 DEF DeadOf
  <2>4. /\ Cardinality(LiveOf(table)) <= table.cap
        /\ Cardinality(DeadOf(table)) <= table.cap
    BY <2>1, SlotsFinite
  <2>5. /\ table.len = Cardinality(LiveSlots)
        /\ table.tombstones =
              Cardinality({i \in DOMAIN table.slots : table.slots[i].state = 2})
    BY <2>1, <2>2, <2>3 DEF Counted
  <2>6. TypeOK
    BY <2>1, <2>2, <2>4 DEF TypeOK, HashInv, IsTable, Counted, ASlot
  <2>7. QED
    BY <2>5, <2>6 DEF CountersRight
<1>2. QED
  BY <1>1, InvHolds, PTL

\* No live key lies behind a slot that was never used, on the way that the search
\* for it takes (hashmap.cmm:147-168,199-204): a tombstone is never given up as
\* long as a key may have passed it.
THEOREM ChainsHold == Spec => []ProbeChains
<1>1. HashInv => ProbeChains
  <2> SUFFICES ASSUME HashInv PROVE ProbeChains
    OBVIOUS
  <2>1. IsTable(table) /\ Chained(table) /\ LiveSlots = LiveOf(table)
    BY DEF HashInv, Good, IsTable, LiveSlots, LiveOf
  <2>2. QED
    BY <2>1 DEF ProbeChains, Chained, Probes
<1>2. QED
  BY <1>1, InvHolds, PTL

\* A second entry for a key comes only from a put into a map that has tombstones
\* (hashmap.cmm:112-126): never from rehash, from remove, or from a set's insert.
LEMMA DuplicatedIs == HashInv => (Duplicated <=> ~Unique(table))
BY DEF HashInv, Good, IsTable, Duplicated, Unique, LiveSlots, LiveOf

LEMMA PutKeepsUnique ==
    ASSUME HashInv, NEW k \in Keys, NEW v \in Values, Put(k, v), Unique(table),
           DeadOf(table) = {}
    PROVE  Unique(table')
<1>1. PICK g, q : g = Grown /\ q = table' /\ q = PutRaw(g, k, v)
  BY DEF Put
<1>2. Good(g) /\ Unique(g) /\ (g = table \/ DeadOf(g) = {})
  BY <1>1, GrownFacts DEF Put
<1>3. DeadOf(g) = {}
  BY <1>2
<1>4. QED
  BY <1>1, <1>2, <1>3, CallerIs, PutUnique DEF Put

LEMMA RemoveKeepsUnique ==
    ASSUME HashInv, NEW k \in Keys, Remove(k), Unique(table)
    PROVE  Unique(table')
<1>1. PICK i, q : /\ i = Search(table, k) /\ q = table'
                  /\ q = IF i = None THEN table ELSE Removed(table, i)
  BY DEF Remove
<1>2. Caller /\ Good(table)
  BY CallerIs DEF HashInv
<1>3. CASE i = None
  <2>1. q = table
    BY <1>1, <1>3
  <2>2. QED
    BY <1>1, <2>1
<1>4. CASE i # None
  <2>1. i \in LiveOf(table) /\ q = Removed(table, i)
    BY <1>1, <1>2, <1>4, SearchCases DEF Found, Missed
  <2>2. DifferAt(table, q, i) /\ LiveOf(q) = LiveOf(table) \ {i}
    BY <1>2, <2>1, RemovedFacts
  <2>3. \A j \in LiveOf(q) : j \in LiveOf(table) /\ q.slots[j] = table.slots[j]
    BY <2>2 DEF DifferAt, LiveOf
  <2>4. QED
    BY <1>1, <2>3 DEF Unique
<1>5. QED
  BY <1>3, <1>4

LEMMA UniqueStep ==
    HashInv /\ [Next]_vars =>
        [Duplicated' /\ ~Duplicated => kind = "map" /\ table.tombstones > 0]_vars
<1> SUFFICES ASSUME HashInv, Next, Duplicated', ~Duplicated
             PROVE  kind = "map" /\ table.tombstones > 0
  OBVIOUS
<1>1. HashInv'
  BY InvNext
<1>2. Unique(table)
  BY DuplicatedIs
<1>3. ~Unique(table')
  BY <1>1 DEF HashInv, Good, IsTable, Duplicated, Unique, LiveSlots, LiveOf
<1>4. ASSUME NEW k \in Keys, NEW v \in Values, Put(k, v)
      PROVE  kind = "map" /\ table.tombstones > 0
  <2>1. DeadOf(table) # {}
    BY <1>2, <1>3, <1>4, PutKeepsUnique
  <2>2. /\ table.cap \in Nat /\ table.tombstones \in Nat
        /\ table.tombstones = Cardinality(DeadOf(table))
    BY DEF HashInv, Good, IsTable, Counted
  <2>3. IsFiniteSet(DeadOf(table))
    BY <2>2, SlotsFinite
  <2>4. Cardinality(DeadOf(table)) # 0
    BY <2>1, <2>3, FS_EmptySet
  <2>5. QED
    BY <1>4, <2>2, <2>4 DEF Put
<1>5. ASSUME NEW k \in Keys, Insert(k)
      PROVE  FALSE
  <2>1. kind' = "set"
    BY <1>5 DEF Insert
  <2>2. QED
    BY <1>1, <1>3, <2>1 DEF HashInv
<1>6. ASSUME NEW k \in Keys, Remove(k)
      PROVE  FALSE
  BY <1>2, <1>3, <1>6, RemoveKeepsUnique
<1>7. ASSUME OutOfMemory
      PROVE  FALSE
  BY <1>2, <1>3, <1>7 DEF OutOfMemory
<1>8. ASSUME Clear \/ Destroy
      PROVE  FALSE
  BY <1>3, <1>8, InvEmptied DEF Unique
<1>9. QED
  BY <1>4, <1>5, <1>6, <1>7, <1>8 DEF Next

THEOREM SecondEntriesNeedTombstones == Spec => DuplicatesNeedTombstones
<1>1. QED
  BY UniqueStep, InvHolds, PTL DEF Spec, DuplicatesNeedTombstones

-------------------------------------------------------------------------------
(* The refinement of Associative.                                           *)

\* What a step may do to contents c: what M!Next says, of contents and an answer.
MapStep(c, d, a) ==
    \/ \E k \in Keys, v \in Values \cup {None} :
          \/ d = With(c, k, v) /\ a = TRUE
          \/ d = c /\ a = FALSE
    \/ \E k \in Keys : d = Without(c, k) /\ a = (k \in DOMAIN c)
    \/ d = [x \in {} |-> None] /\ a = None

\* The contents of the next state are those of its table.
LEMMA NextContents ==
    ASSUME hash_fn' = hash_fn, NEW q, q = table'
    PROVE  /\ \A x \in Keys : Search(table, x)' = Search(q, x)
           /\ ContentsOf(table)' = ContentsOf(q)
<1>1. ASSUME NEW x \in Keys
      PROVE  Search(table, x)' = Search(q, x)
  <2>1. Probes(table)' = Probes(q)
    BY DEF Probes
  <2>2. \A n : At(table, x, n)' = At(q, x, n) /\ Slot(table, x, n)' = Slot(q, x, n)
    BY DEF At, Slot
  <2>3. \A n : /\ Slot(table, x, n)'.state = Slot(q, x, n).state
               /\ Holds(Slot(table, x, n), x)' = Holds(Slot(q, x, n), x)
    BY <2>2 DEF Holds
  <2>4. {i \in Probes(table) : \/ Slot(table, x, i).state = 0
                               \/ Holds(Slot(table, x, i), x)}' =
        {i \in Probes(q) : \/ Slot(q, x, i).state = 0
                           \/ Holds(Slot(q, x, i), x)}
    BY <2>1, <2>3
  <2>5. QED
    BY <2>2, <2>3, <2>4 DEF Search
<1>2. \A x \in Keys : Lookup(table, x)' = Lookup(q, x)
  BY <1>1 DEF Lookup
<1>3. PICK D : D = {y \in Keys : Search(q, y) # None}
  OBVIOUS
<1>4. ContentsOf(table)' = [x \in D |-> Lookup(table, x)']
  BY <1>1, <1>3 DEF ContentsOf
<1>5. ContentsOf(q) = [x \in D |-> Lookup(q, x)]
  BY <1>3 DEF ContentsOf
<1>6. [x \in D |-> Lookup(table, x)'] = [x \in D |-> Lookup(q, x)]
  BY <1>2, <1>3
<1>7. QED
  BY <1>1, <1>4, <1>5, <1>6

\* A step that changes the contents as MapStep says is one of the map's.
LEMMA MapStepIs ==
    ASSUME MapStep(ContentsOf(table), ContentsOf(table)', answer')
    PROVE  M!Next
BY DEF MapStep, With, Without, ContentsOf, M!Next, M!Put, M!Remove, M!Clear

\* A table without live slots has no contents.
LEMMA NothingLive ==
    ASSUME Caller, NEW t, Good(t), LiveOf(t) = {}
    PROVE  ContentsOf(t) = [x \in {} |-> None]
<1>1. \A x \in Keys : Search(t, x) = None
  BY SearchCases DEF Missed, Found
<1>2. {y \in Keys : Search(t, y) # None} = {}
  BY <1>1
<1>3. QED
  BY <1>2 DEF ContentsOf

LEMMA MapPut ==
    ASSUME HashInv, Unique(table), NEW k \in Keys, NEW v \in Values, Put(k, v)
    PROVE  MapStep(ContentsOf(table), ContentsOf(table)', answer')
<1>1. PICK g, q : g = Grown /\ q = table' /\ q = PutRaw(g, k, v)
  BY DEF Put
<1>2. kind = "map" /\ hash_fn' = hash_fn /\ answer' = TRUE /\ Caller
  BY CallerIs DEF Put
<1>3. /\ Good(g) /\ g.len < g.cap /\ Unique(g)
      /\ \A x, w : Entry(g, x, w) <=> Entry(table, x, w)
  BY <1>1, GrownFacts DEF Put
<1>4. PICK c : c = ContentsOf(table) /\ c = ContentsOf(g)
  <2>1. Good(table)
    BY DEF HashInv
  <2>2. ContentsOf(g) = ContentsOf(table)
    BY <1>2, <1>3, <2>1, SameEntriesSameContents
  <2>3. QED
    BY <2>2
<1>5. ContentsOf(q) = With(c, k, v)
  <2>1. ContentsOf(q) = With(ContentsOf(g), k, v)
    BY <1>1, <1>2, <1>3, PutContents
  <2>2. QED
    BY <1>4, <2>1
<1>6. ContentsOf(table)' = ContentsOf(q)
  BY <1>1, <1>2, NextContents
<1>7. QED
  BY <1>2, <1>4, <1>5, <1>6 DEF MapStep

LEMMA MapInsert ==
    ASSUME HashInv, NEW k \in Keys, Insert(k)
    PROVE  MapStep(ContentsOf(table), ContentsOf(table)', answer')
<1>1. PICK g, q : /\ g = Grown /\ q = table'
                  /\ q = IF Search(g, k) # None THEN g ELSE PutRaw(g, k, None)
  BY DEF Insert
<1>2. kind = "set" /\ hash_fn' = hash_fn /\ answer' = TRUE /\ Caller
  BY CallerIs DEF Insert
<1>3. Unique(table) /\ \A x, w : Entry(table, x, w) => w = None
  BY <1>2 DEF HashInv
<1>4. /\ Good(g) /\ g.len < g.cap /\ Unique(g)
      /\ \A x, w : Entry(g, x, w) <=> Entry(table, x, w)
  BY <1>1, <1>3, GrownFacts DEF Insert
<1>5. PICK c : c = ContentsOf(table) /\ c = ContentsOf(g)
  <2>1. Good(table)
    BY DEF HashInv
  <2>2. ContentsOf(g) = ContentsOf(table)
    BY <1>2, <1>3, <1>4, <2>1, SameEntriesSameContents
  <2>3. QED
    BY <2>2
<1>6. ContentsOf(q) = With(c, k, None)
  <2>1. CASE Search(g, k) # None
    <3>1. \E w : Entry(g, k, w)
      BY <1>2, <1>4, <2>1, EntriesFound
    <3>2. Lookup(g, k) = None
      BY <1>2, <1>3, <1>4, <3>1, EntriesFound
    <3>3. PICK D : D = {y \in Keys : Search(g, y) # None}
      OBVIOUS
    <3>4. c = [x \in D |-> Lookup(g, x)] /\ k \in D
      BY <1>5, <2>1, <3>3 DEF ContentsOf
    <3>5. DOMAIN c \cup {k} = D /\ c[k] = None
      BY <3>2, <3>4
    <3>6. c = [x \in D |-> c[x]]
      BY <3>4
    <3>7. [x \in D |-> c[x]] = [x \in D |-> IF x = k THEN None ELSE c[x]]
      BY <3>5
    <3>8. c = With(c, k, None)
      BY <3>5, <3>6, <3>7 DEF With
    <3>9. QED
      BY <1>1, <1>5, <2>1, <3>8
  <2>2. CASE Search(g, k) = None
    <3>1. \A i \in LiveOf(g) : g.slots[i].key # k
      BY <1>2, <1>4, <2>2, SearchCases DEF Missed, Found
    <3>2. q = PutRaw(g, k, None)
      BY <1>1, <2>2
    <3>3. None \in Values \cup {None}
      OBVIOUS
    <3>4. ContentsOf(q) = With(ContentsOf(g), k, None)
      BY <1>2, <1>4, <3>1, <3>2, <3>3, PutContents
    <3>5. QED
      BY <1>5, <3>4
  <2>3. QED
    BY <2>1, <2>2
<1>7. ContentsOf(table)' = ContentsOf(q)
  BY <1>1, <1>2, NextContents
<1>8. QED
  BY <1>2, <1>5, <1>6, <1>7 DEF MapStep

LEMMA MapRemove ==
    ASSUME HashInv, Unique(table), NEW k \in Keys, Remove(k)
    PROVE  MapStep(ContentsOf(table), ContentsOf(table)', answer')
<1>1. PICK i, q : /\ i = Search(table, k) /\ q = table'
                  /\ q = IF i = None THEN table ELSE Removed(table, i)
  BY DEF Remove
<1>2. hash_fn' = hash_fn /\ answer' = (i # None) /\ Caller /\ Good(table)
  BY <1>1, CallerIs DEF Remove, HashInv
<1>3. PICK c : c = ContentsOf(table)
  OBVIOUS
<1>4. k \in DOMAIN c <=> i # None
  BY <1>1, <1>3 DEF ContentsOf
<1>5. ContentsOf(q) = Without(c, k)
  <2>1. CASE i = None
    <3>1. q = table /\ DOMAIN c \ {k} = DOMAIN c
      BY <1>1, <1>4, <2>1
    <3>2. c = [x \in DOMAIN c |-> c[x]]
      BY <1>3 DEF ContentsOf
    <3>3. c = Without(c, k)
      BY <3>1, <3>2 DEF Without
    <3>4. QED
      BY <1>3, <3>1, <3>3
  <2>2. CASE i # None
    <3>1. Found(table, k, i)
      BY <1>1, <1>2, <2>2, SearchCases DEF Missed
    <3>2. q = Removed(table, i)
      BY <1>1, <2>2
    <3>3. ContentsOf(q) = Without(ContentsOf(table), k)
      BY <1>2, <3>1, <3>2, RemovedContents
    <3>4. QED
      BY <1>3, <3>3
  <2>3. QED
    BY <2>1, <2>2
<1>6. ContentsOf(table)' = ContentsOf(q)
  BY <1>1, <1>2, NextContents
<1>7. QED
  BY <1>2, <1>3, <1>4, <1>5, <1>6 DEF MapStep

LEMMA MapOutOfMemory ==
    ASSUME OutOfMemory
    PROVE  MapStep(ContentsOf(table), ContentsOf(table)', answer')
<1>1. ContentsOf(table)' = ContentsOf(table)
  BY NextContents DEF OutOfMemory
<1>2. PICK k : k \in Keys
  BY TableAssumption
<1>3. answer' = FALSE
  BY DEF OutOfMemory
<1>4. QED
  BY <1>1, <1>2, <1>3 DEF MapStep

LEMMA MapEmptied ==
    ASSUME HashInv, Clear \/ Destroy
    PROVE  MapStep(ContentsOf(table), ContentsOf(table)', answer')
<1>1. hash_fn' = hash_fn /\ answer' = None /\ Caller
  BY CallerIs DEF Clear, Destroy
<1>2. PICK q : q = table' /\ \E n \in Nat : q = NewTable(n)
  BY DEF Clear, Destroy, NoTable, HashInv, Good, IsTable
<1>3. Good(q) /\ LiveOf(q) = {}
  BY <1>1, <1>2, NewTableFacts
<1>4. ContentsOf(q) = [x \in {} |-> None]
  BY <1>1, <1>3, NothingLive
<1>5. ContentsOf(table)' = ContentsOf(q)
  BY <1>1, <1>2, NextContents
<1>6. QED
  BY <1>1, <1>4, <1>5 DEF MapStep

\* While no key is in the table twice, a call does to the contents what it
\* promises its caller.
LEMMA MapStepHolds ==
    ASSUME HashInv, [Next]_vars
    PROVE  [Duplicated \/ M!Next]_<<table, answer>>
<1> SUFFICES ASSUME Next, ~Duplicated PROVE M!Next
  BY DEF vars
<1>1. Unique(table)
  BY DuplicatedIs
<1>2. ASSUME NEW k \in Keys, NEW v \in Values, Put(k, v) PROVE M!Next
  BY <1>1, <1>2, MapPut, MapStepIs
<1>3. ASSUME NEW k \in Keys, Insert(k) PROVE M!Next
  BY <1>3, MapInsert, MapStepIs
<1>4. ASSUME NEW k \in Keys, Remove(k) PROVE M!Next
  BY <1>1, <1>4, MapRemove, MapStepIs
<1>5. CASE OutOfMemory
  BY <1>5, MapOutOfMemory, MapStepIs
<1>6. CASE Clear \/ Destroy
  BY <1>6, MapEmptied, MapStepIs
<1>7. QED
  BY <1>2, <1>3, <1>4, <1>5, <1>6 DEF Next

\* A new table has no contents.
LEMMA MapInit == Init => M!Init
<1> SUFFICES ASSUME Init PROVE M!Init
  OBVIOUS
<1>1. Caller /\ HashInv
  BY InvInit, CallerIs
<1>2. PICK q : q = table /\ q = NewTable(0)
  BY DEF Init, NoTable
<1>3. Good(q) /\ LiveOf(q) = {}
  BY <1>1, <1>2, NewTableFacts
<1>4. ContentsOf(table) = [x \in {} |-> None]
  BY <1>1, <1>2, <1>3, NothingLive
<1>5. answer = None
  BY DEF Init
<1>6. QED
  BY <1>4, <1>5 DEF M!Init, ContentsOf

\* Whatever the keys, the hash function and the capacity: as long as no key is
\* in the table twice, put, insert, remove, clear and destroy do to the contents
\* what a map or a set promises, growing and failing allocations included.
THEOREM TableImplementsMap == Spec => ImplementsMap
<1>1. Init => M!Init
  BY MapInit
<1>2. HashInv /\ [Next]_vars => [Duplicated \/ M!Next]_<<table, answer>>
  BY MapStepHolds
<1>3. QED
  BY <1>1, <1>2, InvHolds, PTL DEF Spec, ImplementsMap
===============================================================================
