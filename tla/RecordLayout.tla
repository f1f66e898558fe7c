------------------------------ MODULE RecordLayout ------------------------------
(***************************************************************************)
(* The layout of records and unions (ast/LayoutBuilder.cpp), for a         *)
(* sequence of types each of which may contain the earlier ones.           *)
(*                                                                         *)
(* buildAggregate turns the fields of a record that has bit-fields or      *)
(* layout annotations into a longer list, once: storage units for bits and *)
(* explicit padding.  Fields are chosen one by one, as its loop comes to   *)
(* them.  What LLVM makes of a list (external) is LaidOut; every later     *)
(* build, of codegen or of an offset query, begins with the longer list.   *)
(*                                                                         *)
(* A type is <<size, alignment, size, alignment>>: in the data layout all  *)
(* builds use, which is LLVM's default one, and in that of the target,     *)
(* which the module gets when the object file is emitted.                  *)
(*                                                                         *)
(* Not modelled: fields without an LLVM type, flexible arrays, records     *)
(* without any field.                                                      *)
(***************************************************************************)
EXTENDS Integers, SequencesExt

CONSTANTS
    Scalars,        \* the types to begin with; integers can hold bit-fields
    Aligns,         \* arguments of align(N), powers of two
    Widths,         \* widths of bit-fields
    MaxFields,      \* bound: fields of a record and types before it
    MaxTypes        \* bound: records and unions

Alignments == {1} \cup Aligns \cup UNION {{t[2], t[4]} : t \in Scalars}

\* The alignments are powers of two: of two, one divides the other.  The size of a
\* scalar is the room it takes in an array.
ASSUME LayoutAssumption ==
    /\ \A t \in Scalars, i \in 1..4 : t[i] \in Nat \ {0}
    /\ \A t \in Scalars : t[1] % t[2] = 0 /\ t[3] % t[4] = 0
    /\ \A a, b \in Alignments : a % b = 0 \/ b % a = 0
    /\ Aligns \subseteq Nat \ {0} /\ Widths \subseteq Nat \ {0}
    /\ MaxFields \in Nat /\ MaxTypes \in Nat

SizeOf(t)     == t[1]
AlignOf(t)    == t[2]
Bytes(n)      == <<n, 1, n, 1>>         \* [n x i8]
MaxOf(a, b)   == IF a > b THEN a ELSE b
AlignUp(v, a) == ((v + a - 1) \div a) * a

VARIABLES
    made,       \* the records and unions that are finished, as types
    phase,      \* "open", "record" or "union": what is being, or was last, laid out
    notes,      \* its annotations: packed, forced (0: no align(N)), and its base
    fields,     \* semanticFields: [kind, type, n], n being the width of a
                \* bit-field and the align(N) of an ordinary field (0: none)
    build,      \* the loop of buildAggregate
    flds,       \* the field list of the type, when it is finished
    laid        \* what LLVM has made of it: in both data layouts

vars == <<made, phase, notes, fields, build, flds, laid>>

Types == Scalars \cup Range(made)

\* build: cursor and structAlign; padded; the current unit (its index in
\* padded, 0 if there is none) and its used bits; regionBitCursor (NoRegion if
\* there is none) and pendingBFs; bitFields, from fields to BitFieldLayout.
NoRegion == -1
NoBits   == <<>>
Entry(f, t, at) == [of |-> f, type |-> t, at |-> at]     \* at: where it should be

PaddedTo(b, off) ==
    IF off = b.cursor THEN b.padded
    ELSE Append(b.padded, Entry(0, Bytes(off - b.cursor), b.cursor))
Pushed(b, f, t, off) ==
    [b EXCEPT !.padded = Append(PaddedTo(b, off), Entry(f, t, off)),
              !.cursor = off + SizeOf(t)]
NotRaised(b, a) == b
RaisedTo(b, a) == [b EXCEPT !.align = MaxOf(@, a)]
FlushUnit(b)   == [b EXCEPT !.unit = 0, !.used = 0]

\* closeRegion: the bit-fields of a packed record share an array of bytes.
CloseRegion(b) ==
    IF b.region = NoRegion THEN b
    ELSE LET n == MaxOf((b.region + 7) \div 8, 1)
             p == Pushed(b, 0, Bytes(n), b.cursor)
             Located(i) == [unit |-> Len(p.padded), offset |-> b.pending[i], bits |-> n * 8]
         IN  [p EXCEPT !.region = NoRegion, !.pending = NoBits,
                       !.bits = [i \in DOMAIN @ \cup DOMAIN b.pending |->
                                   IF i \in DOMAIN b.pending THEN Located(i) ELSE @[i]]]

With(f, i, x) == [j \in DOMAIN f \cup {i} |-> IF j = i THEN x ELSE f[j]]

-------------------------------------------------------------------------------
Init ==
    /\ made = <<>> /\ phase = "record"
    /\ notes = [packed |-> FALSE, forced |-> 0, base |-> <<>>]
    /\ fields = <<>> /\ flds = <<>> /\ laid = <<>>
    /\ build = [cursor |-> 0, align |-> 1, padded |-> <<>>, unit |-> 0, used |-> 0,
                region |-> NoRegion, pending |-> NoBits, bits |-> NoBits]

\* A record begins: its annotations, and its base as the first slot.  Of a base
\* only size and alignment matter, so that it may be any type made so far: a union
\* is laid out as the record of its block and its bytes.  The first build, the one
\* that rewrites the fields, is taken to resolve the base's name, as those of codegen
\* and of layout queries do; the build for an offsetof does not (its resolver
\* answers with null), and the base would get no slot if that came first.
Begin(packed, forced, base) ==
    /\ phase # "open" /\ Len(made) < MaxTypes
    /\ phase' = "open" /\ fields' = <<>> /\ flds' = <<>> /\ laid' = <<>>
    /\ notes' = [packed |-> packed, forced |-> forced, base |-> base]
    /\ LET fresh == [cursor |-> 0, align |-> 1, padded |-> <<>>, unit |-> 0, used |-> 0,
                     region |-> NoRegion, pending |-> NoBits, bits |-> NoBits]
           based == Pushed(fresh, 0, base, 0)
       IN  build' = IF base = <<>> THEN fresh
                    ELSE IF packed THEN based
                    ELSE RaisedTo(based, AlignOf(base))
    /\ UNCHANGED made

Field(kind, t, n) ==
    /\ phase = "open" /\ Len(fields) + Len(made) < MaxFields
    /\ fields' = Append(fields, [kind |-> kind, type |-> t, n |-> n])
    /\ UNCHANGED <<made, phase, notes, flds, laid>>
This == Len(fields) + 1

\* An ordinary field.
FieldAlign(t, a) == MaxOf(IF notes.packed THEN 1 ELSE AlignOf(t), a)
Ordinary(t, a) ==
    /\ Field("field", t, a)
    /\ LET b == FlushUnit(CloseRegion(build))
           p == Pushed(b, This, t, AlignUp(b.cursor, FieldAlign(t, a)))
       IN  build' = IF notes.packed /\ a = 0 THEN p ELSE RaisedTo(p, FieldAlign(t, a))

\* A bit-field of a packed record: bits of the region.
PackedBits(t, w, named) ==
    /\ notes.packed /\ w <= 8 * SizeOf(t)
    /\ Field(IF named THEN "bits" ELSE "unnamed", t, w)
    /\ LET at == MaxOf(build.region, 0)
       IN  build' = [build EXCEPT !.region = at + w,
                        !.pending = IF named THEN With(@, This, at) ELSE @]

\* A bit-field of another record: in the current unit, if it has the type's size
\* and room, or else in one of its own.
NeedsNewIfFull(t, w) == build.unit = 0 \/ build.used + w > 8 * SizeOf(t)
NeedsNew(t, w) ==
    \/ build.unit = 0
    \/ SizeOf(build.padded[build.unit].type) # SizeOf(t)
    \/ build.used + w > 8 * SizeOf(t)
UnitBits(t, w, named) ==
    /\ ~notes.packed /\ w <= 8 * SizeOf(t)
    /\ Field(IF named THEN "bits" ELSE "unnamed", t, w)
    /\ LET p == RaisedTo(Pushed(build, 0, t, AlignUp(build.cursor, AlignOf(t))), AlignOf(t))
           b == IF NeedsNew(t, w) THEN [p EXCEPT !.unit = Len(p.padded), !.used = 0]
                ELSE build
           Located == [unit |-> b.unit, offset |-> b.used, bits |-> 8 * SizeOf(t)]
       IN  build' = [b EXCEPT !.used = @ + w,
                        !.bits = IF named THEN With(@, This, Located) ELSE @]

\* An unnamed bit-field of width 0 aligns the region, or ends the unit.
ZeroWidth(t) ==
    /\ Field("zero", t, 0)
    /\ build' = IF notes.packed
                THEN [build EXCEPT !.region = AlignUp(MaxOf(@, 0), 8 * SizeOf(t))]
                ELSE FlushUnit(build)

-------------------------------------------------------------------------------
(* LLVM's layout of a list (external), in the data layout of the builds (0) *)
(* and in that of the target (1).                                           *)

SizeIn(t, dl)  == t[2 * dl + 1]
AlignIn(t, dl) == t[2 * dl + 2]
EndsOf(list, align, dl) ==
    LET end[k \in 0..Len(list)] ==
            IF k = 0 THEN 0
            ELSE AlignUp(end[k - 1], align[k]) + SizeIn(list[k].type, dl)
    IN  end
LaidOut(list, packed, dl) ==
    LET align == [k \in DOMAIN list |-> IF packed THEN 1 ELSE AlignIn(list[k].type, dl)]
        end   == EndsOf(list, align, dl)
        most  == Max({1} \cup Range(align))
    IN  [at    |-> [k \in DOMAIN list |-> AlignUp(end[k - 1], align[k])],
         size  |-> AlignUp(end[Len(list)], most),
         align |-> most]

\* The two kinds of record: only one with bit-fields or annotations is
\* materialised.  The longer list has entries without a name, so that a later
\* build finds bit-fields in it again.
HasBits   == \E i \in DOMAIN fields : fields[i].kind # "field"
Annotated == \/ notes.packed \/ notes.forced # 0
             \/ \E i \in DOMAIN fields : fields[i].kind = "field" /\ fields[i].n # 0
Materialized == HasBits \/ Annotated
BaseSlot == IF notes.base = <<>> THEN <<>> ELSE <<Entry(0, notes.base, 0)>>
OwnFields == [i \in DOMAIN fields |-> Entry(i, fields[i].type, 0)]

\* What a build makes its LLVM type of: the list, and before it the base if the
\* list does not hold it yet and the builder resolves its name.
BaseTwice(list, resolves) == IF resolves THEN BaseSlot \o list ELSE list
FieldTypes(list, resolves) ==
    IF Materialized \/ ~resolves THEN list ELSE BaseSlot \o list

Closed(b) ==
    LET aligned == MaxOf(b.align, notes.forced)
        total   == AlignUp(b.cursor, aligned)
    IN  [b EXCEPT !.align = aligned, !.padded = PaddedTo(b, total), !.cursor = total]

Finish ==
    /\ phase = "open"
    /\ LET b    == Closed(CloseRegion(build))
           list == IF Materialized THEN b.padded ELSE OwnFields
           slots == FieldTypes(list, TRUE)
           here  == LaidOut(slots, notes.packed, 0)
           there == LaidOut(slots, notes.packed, 1)
       IN  /\ slots # <<>>
           /\ build' = b /\ flds' = list /\ laid' = <<here, there>>
           /\ made' = Append(made, <<here.size, here.align, there.size, there.align>>)
    /\ phase' = "record"
    /\ UNCHANGED <<notes, fields>>

\* buildUnion: the most aligned member, bytes up to the largest.  n of a member
\* is its width if it is a bit-field.
FirstMember(members) == members[1].type
UnionBlock(members) ==
    LET most == Max({AlignOf(members[i].type) : i \in DOMAIN members})
        i    == Min({j \in DOMAIN members : AlignOf(members[j].type) = most})
    IN  members[i].type
UnionSize(members, forced) ==
    LET largest == Max({SizeOf(members[i].type) : i \in DOMAIN members})
    IN  IF forced = 0 THEN largest ELSE AlignUp(largest, forced)
MakeUnion(s, t, w, forced) ==
    /\ phase # "open" /\ Len(made) < MaxTypes /\ w <= 8 * SizeOf(t)
    /\ LET members == <<[kind |-> "field", type |-> s, n |-> 0],
                        [kind |-> IF w = 0 THEN "field" ELSE "bits", type |-> t, n |-> w]>>
           block == UnionBlock(members)
           rest  == UnionSize(members, forced) - SizeOf(block)
           list  == <<Entry(0, block, 0)>> \o
                    (IF rest = 0 THEN <<>> ELSE <<Entry(0, Bytes(rest), SizeOf(block))>>)
           here  == LaidOut(list, FALSE, 0)
           there == LaidOut(list, FALSE, 1)
       IN  /\ fields' = members /\ flds' = list /\ laid' = <<here, there>>
           /\ made' = Append(made, <<here.size, here.align, there.size, there.align>>)
    /\ phase' = "union"
    /\ notes' = [packed |-> FALSE, forced |-> forced, base |-> <<>>]
    /\ UNCHANGED build

Next ==
    \/ \E p \in BOOLEAN, a \in Aligns \cup {0}, t \in Range(made) \cup {<<>>} : Begin(p, a, t)
    \/ \E t \in Types, a \in Aligns \cup {0} : Ordinary(t, a)
    \/ \E t \in Scalars, w \in Widths, n \in BOOLEAN :
          PackedBits(t, w, n) \/ UnitBits(t, w, n)
    \/ \E t \in Scalars : ZeroWidth(t)
    \/ Finish
    \/ \E s, t \in Types, w \in Widths \cup {0}, a \in Aligns \cup {0} :
          (w # 0 => t \in Scalars) /\ MakeUnion(s, t, w, a)

Spec == Init /\ [][Next]_vars

-------------------------------------------------------------------------------
(* Properties.                                                              *)

IsRecord  == phase = "record" /\ made # <<>>
Slots     == FieldTypes(flds, TRUE)
Layout(dl) == laid[dl + 1]
\* fieldOffsets and bitFields: the bits <<from, to>> of the members, in dl.
SlotOf(i) == CHOOSE k \in DOMAIN Slots : Slots[k].of = i
MemberBits(i, dl) ==
    IF fields[i].kind = "field"
    THEN LET from == 8 * Layout(dl).at[SlotOf(i)]
         IN  <<from, from + 8 * SizeIn(fields[i].type, dl)>>
    ELSE LET from == 8 * Layout(dl).at[build.bits[i].unit] + build.bits[i].offset
         IN  <<from, from + fields[i].n>>
Members == {i \in DOMAIN fields : fields[i].kind \in {"field", "bits"}}

\* No two members of a record share a bit, nor a member and the base, and all are
\* inside of it.
RecordsApart ==
    IsRecord =>
        /\ \A i \in Members :
              /\ MemberBits(i, 0)[2] <= 8 * Layout(0).size
              /\ notes.base # <<>> => MemberBits(i, 0)[1] >= 8 * SizeOf(notes.base)
              /\ \A j \in Members : i < j => MemberBits(i, 0)[2] <= MemberBits(j, 0)[1]
        /\ build.bits # NoBits => Slots = build.padded

\* A bit-field is inside the unit that is loaded for it, and behind those declared
\* before it in this unit, from the moment it has been given its place.
BitsInUnits ==
    phase # "union" =>
        \A i \in DOMAIN build.bits :
            LET u == build.bits[i]
            IN  /\ u.unit \in DOMAIN build.padded
                /\ u.bits = 8 * SizeOf(build.padded[u.unit].type)
                /\ u.offset + fields[i].n <= u.bits
                /\ \A j \in DOMAIN build.bits :
                      i < j /\ build.bits[j].unit = u.unit =>
                          u.offset + fields[i].n <= build.bits[j].offset

\* A union holds each of its members, and a bit-field is inside the block that is
\* loaded for it - if its type is aligned to its size.
UnionHolds ==
    phase = "union" =>
        \A i \in DOMAIN fields :
            LET t == fields[i].type
            IN  /\ SizeOf(t) <= Layout(0).size
                /\ fields[i].kind = "bits" /\ AlignOf(t) = SizeOf(t) =>
                      fields[i].n <= 8 * SizeOf(UnionBlock(fields))

\* Together: a store to a member of a record changes no other member and nothing
\* outside, a store to a member of a union stays inside of it.
MembersApart == RecordsApart /\ BitsInUnits /\ UnionHolds

\* The self-check of buildAggregate: the padding it has made is such that LLVM
\* puts every entry where it should be.  So each field is aligned as it asks, and
\* the size is a multiple of the alignment.
TargetsMet ==
    IsRecord /\ Materialized =>
        /\ \A k \in DOMAIN flds : Layout(0).at[k] = flds[k].at
        /\ Layout(0).size = build.cursor
        /\ \A i \in DOMAIN fields : fields[i].kind = "field" =>
              Layout(0).at[SlotOf(i)] % FieldAlign(fields[i].type, fields[i].n) = 0
        /\ build.cursor % build.align = 0 /\ build.align % Layout(0).align = 0

\* A later build of a materialised record, by a builder that resolves base names
\* or one that does not (offsetof), gives what the first has given.
RebuildAgrees ==
    IsRecord /\ Materialized =>
        \A resolves \in BOOLEAN :
            LET again == LaidOut(FieldTypes(flds, resolves), notes.packed, 0)
            IN  /\ \A k \in DOMAIN flds : again.at[k] = flds[k].at
                /\ again.size = SizeOf(Last(made)) /\ again.align = AlignOf(Last(made))

\* sema/CompileTimeEvaluator.cpp:77-78, the data layout of queries "is that of
\* codegen's host target": the bits of a member are those of the object file.
LayoutIsTheTargets ==
    IsRecord => \A i \in Members : MemberBits(i, 0) = MemberBits(i, 1)
===============================================================================
