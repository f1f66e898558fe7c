-------------------------- MODULE ModuleLoaderProofs --------------------------
(***************************************************************************)
(* Theorems about ModuleLoader, for any files, directories, specifiers and *)
(* contents.  What is spliced into a unit is spliced in once (LoadedOnce)  *)
(* because everything on the DFS stack or already loaded is marked in      *)
(* `loaded`, the entry included (OnceInv).  That the unit is complete and  *)
(* in order, that no cycle passes and that the second walk is idle follows *)
(* from what the first walk leaves behind when nothing was wrong           *)
(* (LoadInv).                                                              *)
(***************************************************************************)
EXTENDS ModuleLoader, SequenceTheorems, WellFoundedInduction, TLAPS

-------------------------------------------------------------------------------
(* Positions and sequences.                                                *)

\* A set of positions that is not empty has a first one.
LEMMA FirstExists ==
    ASSUME NEW S \in SUBSET Nat, S # {}
    PROVE  \E i \in S : \A j \in S : i <= j
<1> DEFINE Below == {p \in Nat \X Nat : p[1] < p[2]}
<1>1. IsWellFoundedOn(Below, Nat)
  <2>1. Below = OpToRel(<, Nat)
    BY Zenon DEF OpToRel
  <2>2. QED
    BY <2>1, NatLessThanWellFounded
<1>2. PICK i \in S : \A j \in S : <<j, i>> \notin Below
  <2> HIDE DEF Below
  <2>1. QED
    BY <1>1, WFMin
<1>3. ASSUME NEW j \in S
      PROVE  i <= j
  <2>1. <<j, i>> \in Nat \X Nat /\ <<j, i>> \notin Below
    BY <1>2
  <2>2. ~(j < i)
    BY <2>1
  <2>3. QED
    BY <2>2
<1>4. QED
  BY <1>3

\* A sequence without its last element.
LEMMA FrontFacts ==
    ASSUME NEW S, NEW s \in Seq(S), Len(s) \in Nat \ {0},
           NEW t, t = Front(s)
    PROVE  /\ t \in Seq(S) /\ Len(t) = Len(s) - 1
           /\ \A i \in 1..(Len(s) - 1) : t[i] = s[i]
<1>1. PICK n \in Nat : n = Len(s) - 1
  OBVIOUS
<1>2. \A i \in 1..n : s[i] \in S
  BY <1>1, ElementOfSeq
<1>3. /\ t \in Seq(S) /\ Len(t) = IF 1 <= n THEN n - 1 + 1 ELSE 0
      /\ \A i \in 1..(n - 1 + 1) : t[i] = s[1 + i - 1]
  <2>1. t = SubSeq(s, 1, n)
    BY <1>1 DEF Front
  <2>2. QED
    BY <1>2, <2>1, SubSeqProperties
<1>4. Len(t) = n
  BY <1>3
<1>5. ASSUME NEW i \in 1..n
      PROVE  t[i] = s[i]
  <2>1. i \in 1..(n - 1 + 1) /\ 1 + i - 1 = i
    OBVIOUS
  <2>2. t[i] = s[1 + i - 1]
    BY <1>3, <2>1
  <2>3. QED
    BY <2>1, <2>2
<1>6. QED
  BY <1>1, <1>3, <1>4, <1>5

-------------------------------------------------------------------------------
(* Resolution.                                                              *)

\* Resolution yields a file or nothing.
LEMMA ResolveType ==
    ASSUME NEW s \in Specs, NEW dirs \in Seq(Dirs)
    PROVE  Resolve(s, dirs) \in Files \cup {None}
<1> DEFINE hits == {i \in DOMAIN dirs : At[dirs[i]][s] # None}
           h == CHOOSE i \in hits : \A j \in hits : i <= j
<1>1. CASE s \in Legacy \/ hits = {}
  BY <1>1 DEF Resolve
<1>2. CASE s \notin Legacy /\ hits # {}
  <2>1. hits \in SUBSET Nat
    BY LenProperties
  <2>2. h \in hits
    BY <2>1, <1>2, FirstExists, Zenon
  <2>3. dirs[h] \in Dirs
    BY <2>2, LenProperties, ElementOfSeq
  <2>4. Resolve(s, dirs) = At[dirs[h]][s]
    BY <1>2 DEF Resolve
  <2>5. QED
    BY <2>3, <2>4, LoaderAssumption
<1>3. QED
  BY <1>1, <1>2

\* The search path below a module is a search path.
LEMMA PathsBelowType ==
    ASSUME NEW f \in Files, NEW dirs \in Seq(Dirs)
    PROVE  PathsBelow(f, dirs) \in Seq(Dirs)
<1>1. <<DirOf[f]>> \in Seq(Dirs)
  BY LoaderAssumption
<1>2. QED
  BY <1>1, ConcatProperties DEF PathsBelow

-------------------------------------------------------------------------------
(* Types.                                                                   *)

\* The entry has been read when the compilation begins, and between the two
\* walks no list is being walked.
EntryRead ==
    /\ content[Entry] \in Sources
    /\ Entry \in loaded
    /\ phase = "parse" => stack = <<>>
TypeInv == TypeOK /\ EntryRead

\* The import at hand, and the stack once it has been dealt with.
LEMMA ImportFacts ==
    ASSUME TypeOK, Importing
    PROVE  /\ Len(stack) \in Nat \ {0} /\ Len(active) = Len(stack) - 1
           /\ Top \in Walks /\ Spec1 \in Specs
           /\ Target \in Files \cup {None}
           /\ Next1 \in Seq(Walks) /\ Len(Next1) = Len(stack)
           /\ \A i \in 1..Len(stack) : Next1[i].file = stack[i].file
<1>1. /\ stack \in Seq(Walks) /\ stack # <<>>
      /\ Len(active) \in Nat /\ Len(stack) = Len(active) + 1
  BY LenProperties DEF TypeOK, Importing
<1>2. Len(stack) \in Nat \ {0} /\ Len(active) = Len(stack) - 1
  BY <1>1
<1>3. Top \in Walks
  BY <1>1, <1>2, ElementOfSeq DEF Top
<1>4. /\ Top.todo \in Seq(Specs) /\ Top.dirs \in Seq(Dirs) /\ Top.file \in Files
      /\ Top.todo # <<>>
  BY <1>3 DEF Walks, Importing
<1>5. Spec1 \in Specs /\ Tail(Top.todo) \in Seq(Specs)
  BY <1>4, EmptySeq, ElementOfSeq, HeadTailProperties DEF Spec1
<1>6. Target \in Files \cup {None}
  BY <1>4, <1>5, ResolveType DEF Target
<1> DEFINE next == [Top EXCEPT !.todo = Tail(@)]
<1>7. next \in Walks /\ next.file = Top.file
  BY <1>3, <1>5 DEF Walks
<1>8. Next1 = [stack EXCEPT ![Len(stack)] = next]
  BY DEF Next1, Top
<1>9. /\ Next1 \in Seq(Walks) /\ Len(Next1) = Len(stack)
      /\ \A i \in 1..Len(stack) : Next1[i].file = stack[i].file
  <2> HIDE DEF next
  <2>1. Len(stack) \in 1..Len(stack)
    BY <1>2
  <2>2. QED
    BY <1>1, <1>7, <1>8, <2>1, ExceptSeq DEF Top
<1>10. QED
  BY <1>2, <1>3, <1>5, <1>6, <1>9

\* What a step that only takes the import at hand off its list keeps.
LEMMA Took ==
    ASSUME TypeOK, Importing, stack' = Next1, active' = active
    PROVE  /\ stack' \in Seq(Walks)
           /\ stack' # <<>> => Len(stack') = Len(active') + 1
           /\ stack' = <<>> => active' = <<>>
           /\ \A i \in DOMAIN active' : stack'[i + 1].file = active'[i]
<1>1. /\ Len(stack) \in Nat \ {0} /\ Len(active) = Len(stack) - 1
      /\ Next1 \in Seq(Walks) /\ Len(Next1) = Len(stack)
      /\ \A i \in 1..Len(stack) : Next1[i].file = stack[i].file
  BY ImportFacts
<1>2. active \in Seq(Files) /\ \A i \in DOMAIN active : stack[i + 1].file = active[i]
  BY DEF TypeOK
<1>3. ASSUME NEW i \in DOMAIN active
      PROVE  stack'[i + 1].file = active[i]
  <2>1. i + 1 \in 1..Len(stack)
    BY <1>1, <1>2, LenProperties
  <2>2. QED
    BY <1>1, <1>2, <2>1
<1>4. Next1 # <<>>
  BY <1>1, EmptySeq
<1>5. QED
  BY <1>1, <1>3, <1>4

\* The entry's import list, ready to be walked.
LEMMA EntryWalk ==
    ASSUME TypeOK, content[Entry] \in Sources
    PROVE  /\ <<Walk(Entry, PathsBelow(Entry, SearchDirs))>> \in Seq(Walks)
           /\ Len(<<Walk(Entry, PathsBelow(Entry, SearchDirs))>>) = 1
           /\ <<Walk(Entry, PathsBelow(Entry, SearchDirs))>> # <<>>
<1>1. content[Entry].imports \in Seq(Specs)
  BY LoaderAssumption
<1>2. PathsBelow(Entry, SearchDirs) \in Seq(Dirs)
  BY LoaderAssumption, PathsBelowType
<1>3. Walk(Entry, PathsBelow(Entry, SearchDirs)) \in Walks
  BY <1>1, <1>2, LoaderAssumption DEF Walk, Walks
<1>4. QED
  BY <1>3

\* A new diagnostic about a specifier or a file.
LEMMA ErrorType ==
    ASSUME NEW x \in Files \cup Specs,
           NEW kind \in {"legacy", "unresolved", "cycle", "broken", "name"}
    PROVE  Error(kind, <<x>>) \in Errors
BY DEF Error, Errors

\* The driver starts in a well-typed state.
LEMMA TypeInit == Init => TypeInv
<1> SUFFICES ASSUME Init PROVE TypeInv
  OBVIOUS
<1>1. PICK c \in Sources :
         content = [f \in Files |-> IF f = Entry THEN c ELSE None]
  BY DEF Init
<1>2. content \in [Files -> Sources \cup {None}] /\ content[Entry] = c
  BY <1>1, LoaderAssumption
<1> DEFINE walk == Walk(Entry, PathsBelow(Entry, SearchDirs))
<1>3. walk \in Walks
  <2>1. c.imports \in Seq(Specs)
    BY LoaderAssumption
  <2>2. PathsBelow(Entry, SearchDirs) \in Seq(Dirs)
    BY LoaderAssumption, PathsBelowType
  <2>3. QED
    BY <1>2, <2>1, <2>2, LoaderAssumption DEF Walk, Walks
<1>4. stack = <<walk>> /\ active = <<>>
  BY DEF Init
<1> HIDE DEF walk
<1>5. /\ stack \in Seq(Walks) /\ Len(stack) = Len(active) + 1 /\ stack # <<>>
      /\ \A i \in DOMAIN active : stack[i + 1].file = active[i]
  BY <1>3, <1>4
<1>6. QED
  BY <1>2, <1>5, LoaderAssumption DEF Init, TypeInv, TypeOK, EntryRead, Phases

\* The modules on the DFS stack stay those whose lists are being walked.
LEMMA TypeStep == TypeInv /\ [Next]_vars => TypeInv'
<1> SUFFICES ASSUME TypeInv, [Next]_vars PROVE TypeInv'
  OBVIOUS
<1> USE DEF TypeInv
<1>1. CASE EndPreload
  BY <1>1 DEF EndPreload, TypeOK, EntryRead, Phases
<1>2. CASE ParseEntry
  <2>1. active = <<>> /\ stack = <<>>
    BY <1>2 DEF ParseEntry, TypeOK, EntryRead
  <2>2. /\ parsed' \in [Files -> SUBSET Files]
        /\ UNCHANGED <<content, loaded, active, errors, edges>>
    <3>1. Range(out) \in SUBSET Files
      BY RangeOfSeq DEF TypeOK
    <3>2. QED
      BY <1>2, <3>1, LoaderAssumption DEF ParseEntry, TypeOK
  <2>3. CASE content[Entry].ok
    <3>1. unit' \in Seq(Files) /\ out' \in Seq(Files) /\ phase' \in Phases
      <4>1. Append(out, Entry) \in Seq(Files)
        BY AppendProperties, LoaderAssumption DEF TypeOK
      <4>2. QED
        BY <1>2, <2>3, <4>1 DEF ParseEntry, SecondWalk, Phases
    <3>2. stack' \in Seq(Walks) /\ Len(stack') = 1 /\ stack' # <<>>
      BY <1>2, <2>3, EntryWalk DEF ParseEntry, SecondWalk, EntryRead
    <3>3. phase' # "parse"
      BY <1>2, <2>3 DEF ParseEntry, SecondWalk
    <3>4. QED
      BY <2>1, <2>2, <3>1, <3>2, <3>3 DEF TypeOK, EntryRead
  <2>4. CASE ~content[Entry].ok
    BY <1>2, <2>1, <2>2, <2>4 DEF ParseEntry, TypeOK, EntryRead, Phases
  <2>5. QED
    BY <2>3, <2>4
<1>3. CASE EndProcess
  <2>1. out \o unit \in Seq(Files)
    BY ConcatProperties DEF TypeOK
  <2>2. active = <<>>
    BY <1>3, LenProperties, EmptySeq DEF EndProcess, TypeOK
  <2>3. QED
    BY <1>3, <2>1, <2>2 DEF EndProcess, TypeOK, EntryRead, Phases
<1>4. CASE ImportNothing
  <2>1. Importing /\ stack' = Next1 /\ active' = active /\ stack # <<>>
    BY <1>4 DEF ImportNothing, Importing
  <2>2. errors' \subseteq Errors
    <3>1. Spec1 \in Specs
      BY <2>1, ImportFacts
    <3>2. QED
      BY <1>4, <3>1, ErrorType DEF ImportNothing, Fail, TypeOK
  <2>3. QED
    BY <1>4, <2>1, <2>2, Took DEF ImportNothing, TypeOK, EntryRead
<1>5. CASE ImportCycle
  <2>1. Importing /\ stack' = Next1 /\ active' = active /\ stack # <<>>
    BY <1>5 DEF ImportCycle, Importing
  <2>2. Target \in Files /\ Top.file \in Files
    BY <1>5, <2>1, ImportFacts DEF ImportCycle, Walks
  <2>3. CyclePath \in Seq(Files)
    <3> DEFINE i == CHOOSE k \in DOMAIN active : active[k] = Target
    <3>1. i \in DOMAIN active
      BY <1>5 DEF ImportCycle, OnStack, Range
    <3>2. i \in 1..Len(active) /\ active \in Seq(Files)
      BY <3>1, LenProperties DEF TypeOK
    <3>3. CyclePath = SubSeq(active, i, Len(active))
      BY DEF CyclePath
    <3> HIDE DEF i
    <3>4. \A k \in i..Len(active) : active[k] \in Files
      BY <3>2, ElementOfSeq
    <3>5. QED
      BY <3>2, <3>3, <3>4, LenProperties, SubSeqProperties
  <2>4. Error("cycle", CyclePath) \in Errors
    BY <2>3, SeqMonotonic DEF Error, Errors
  <2>5. QED
    BY <1>5, <2>1, <2>2, <2>4, Took
       DEF ImportCycle, Fail, Resolved, TypeOK, EntryRead
<1>6. CASE ImportAgain
  <2>1. Importing /\ stack' = Next1 /\ active' = active /\ stack # <<>>
    BY <1>6 DEF ImportAgain, Importing
  <2>2. Target \in Files /\ Top.file \in Files
    BY <1>6, <2>1, ImportFacts DEF ImportAgain, Walks
  <2>3. QED
    BY <1>6, <2>1, <2>2, Took DEF ImportAgain, Resolved, TypeOK, EntryRead
<1>7. CASE ImportBroken
  <2>1. Importing /\ stack' = Next1 /\ active' = active /\ stack # <<>>
    BY <1>7 DEF ImportBroken, ReadFile, Importing
  <2>2. Target \in Files /\ Top.file \in Files /\ Target # Entry
    BY <1>7, <2>1, ImportFacts DEF ImportBroken, ReadFile, Walks, EntryRead
  <2>3. PICK c \in Sources :
           /\ content' = [content EXCEPT ![Target] = c]
           /\ Fail(Error(IF c.ok THEN "name" ELSE "broken", <<Target>>))
    BY <1>7 DEF ImportBroken
  <2>4. errors' \subseteq Errors
    BY <2>2, <2>3, ErrorType DEF Fail, TypeOK
  <2>5. /\ content' \in [Files -> Sources \cup {None}]
        /\ content'[Entry] = content[Entry]
    BY <2>2, <2>3, LoaderAssumption DEF TypeOK
  <2>6. QED
    BY <1>7, <2>1, <2>2, <2>4, <2>5, Took
       DEF ImportBroken, ReadFile, Resolved, TypeOK, EntryRead
<1>8. CASE ImportModule
  <2>1. Importing /\ stack # <<>>
    BY <1>8 DEF ImportModule, ReadFile, Importing
  <2>2. /\ Target \in Files /\ Top \in Walks /\ Target # Entry
        /\ Next1 \in Seq(Walks) /\ Len(Next1) = Len(active) + 1
        /\ \A i \in 1..Len(Next1) : Next1[i].file = stack[i].file
    BY <1>8, <2>1, ImportFacts, LenProperties
       DEF ImportModule, ReadFile, EntryRead, TypeOK
  <2>3. PICK c \in Sources :
           /\ content' = [content EXCEPT ![Target] = c]
           /\ stack' = Append(Next1, [file |-> Target, todo |-> c.imports,
                                      dirs |-> PathsBelow(Target, Top.dirs)])
    BY <1>8 DEF ImportModule
  <2> DEFINE walk == [file |-> Target, todo |-> c.imports,
                      dirs |-> PathsBelow(Target, Top.dirs)]
  <2>4. walk \in Walks /\ walk.file = Target
    BY <2>2, PathsBelowType, LoaderAssumption DEF Walks
  <2>5. /\ content' \in [Files -> Sources \cup {None}]
        /\ content'[Entry] = content[Entry]
    BY <2>2, <2>3, LoaderAssumption DEF TypeOK
  <2>6. /\ active' = Append(active, Target) /\ active \in Seq(Files)
        /\ active' \in Seq(Files) /\ Len(active') = Len(active) + 1
        /\ Len(active) \in Nat
    BY <1>8, <2>2, AppendProperties, LenProperties DEF ImportModule, TypeOK
  <2> HIDE DEF walk
  <2>7. stack' \in Seq(Walks) /\ Len(stack') = Len(active') + 1 /\ stack' # <<>>
    BY <2>2, <2>3, <2>4, <2>6, AppendProperties DEF walk
  <2>8. ASSUME NEW i \in DOMAIN active'
        PROVE  stack'[i + 1].file = active'[i]
    <3>1. i \in 1..(Len(active) + 1)
      BY <2>6, LenProperties
    <3>2. CASE i = Len(active) + 1
      <4>1. active'[i] = Target
        BY <2>2, <2>6, <3>2, AppendProperties
      <4>2. stack'[i + 1] = walk
        BY <2>2, <2>3, <2>4, <2>6, <3>2, AppendProperties DEF walk
      <4>3. QED
        BY <2>4, <4>1, <4>2
    <3>3. CASE i \in 1..Len(active)
      <4>1. active'[i] = active[i]
        BY <2>2, <2>6, <3>3, AppendProperties
      <4>2. stack'[i + 1] = Next1[i + 1]
        BY <2>2, <2>3, <2>4, <2>6, <3>3, AppendProperties DEF walk
      <4>3. stack[i + 1].file = active[i]
        BY <2>6, <3>3, LenProperties DEF TypeOK
      <4>4. QED
        BY <2>2, <2>6, <3>3, <4>1, <4>2, <4>3
    <3>4. QED
      BY <2>6, <3>1, <3>2, <3>3
  <2>9. /\ parsed' \in [Files -> SUBSET Files] /\ edges' \subseteq Files \X Files
        /\ loaded' = loaded \cup {Target}
        /\ UNCHANGED <<phase, out, unit, errors>>
    <3>1. Range(out) \in SUBSET Files /\ Range(active) \in SUBSET Files
      BY RangeOfSeq DEF TypeOK
    <3>2. parsed' \in [Files -> SUBSET Files]
      BY <1>8, <3>1 DEF ImportModule, TypeOK
    <3>3. Top.file \in Files
      BY <2>2 DEF Walks
    <3>4. edges' \subseteq Files \X Files
      BY <1>8, <2>2, <3>3 DEF ImportModule, ReadFile, Resolved, TypeOK
    <3>5. QED
      BY <1>8, <3>2, <3>4 DEF ImportModule, ReadFile
  <2>10. QED
    BY <2>1, <2>2, <2>5, <2>6, <2>7, <2>8, <2>9 DEF TypeOK, EntryRead
<1>9. CASE FinishModule
  <2>1. /\ stack \in Seq(Walks) /\ active \in Seq(Files)
        /\ Len(stack) \in Nat /\ Len(active) \in Nat /\ Len(stack) > 1
        /\ Len(stack) = Len(active) + 1
    BY <1>9, LenProperties, EmptySeq DEF FinishModule, TypeOK
  <2>0. Len(stack) \in Nat \ {0} /\ Len(active) \in Nat \ {0}
    BY <2>1
  <2>2. /\ stack' \in Seq(Walks) /\ Len(stack') = Len(stack) - 1
        /\ \A i \in 1..(Len(stack) - 1) : stack'[i] = stack[i]
    BY <1>9, <2>0, <2>1, FrontFacts DEF FinishModule
  <2>3. /\ active' \in Seq(Files) /\ Len(active') = Len(active) - 1
        /\ \A i \in 1..(Len(active) - 1) : active'[i] = active[i]
    BY <1>9, <2>0, <2>1, FrontFacts DEF FinishModule
  <2>4. ASSUME NEW i \in DOMAIN active'
        PROVE  stack'[i + 1].file = active'[i]
    <3>1. i \in 1..(Len(active) - 1)
      BY <2>1, <2>3, LenProperties
    <3>2. stack[i + 1].file = active[i]
      BY <2>1, <3>1, LenProperties DEF TypeOK
    <3>3. QED
      BY <2>1, <2>2, <2>3, <3>1, <3>2
  <2>5. out' \in Seq(Files)
    <3>1. Top.file \in Files
      <4>1. Len(stack) \in 1..Len(stack)
        BY <2>1
      <4>2. Top \in Walks
        BY <2>1, <4>1, ElementOfSeq DEF Top
      <4>3. QED
        BY <4>2 DEF Walks
    <3>2. QED
      BY <1>9, <3>1, AppendProperties DEF FinishModule, TypeOK
  <2>6. stack # <<>> /\ stack' # <<>>
    BY <2>1, <2>2, EmptySeq
  <2>7. QED
    BY <1>9, <2>1, <2>2, <2>3, <2>4, <2>5, <2>6
       DEF FinishModule, TypeOK, EntryRead
<1>10. CASE UNCHANGED vars
  BY <1>10 DEF vars, TypeOK, EntryRead
<1>11. QED
  BY <1>1, <1>2, <1>3, <1>4, <1>5, <1>6, <1>7, <1>8, <1>9, <1>10 DEF Next

\* Every variable has its type, and the recursion of loadModuleFile and the
\* vector `active` that detects cycles describe one path of modules.
THEOREM TypeCorrect == Spec => []TypeOK
<1>1. TypeInv => TypeOK
  BY DEF TypeInv
<1>2. QED
  BY <1>1, TypeInit, TypeStep, PTL DEF Spec

-------------------------------------------------------------------------------
(* Sequences without repetition.                                            *)

\* Appending a file that is not in a list keeps the list free of duplicates.
LEMMA AppendOnce ==
    ASSUME NEW S, NEW s \in Seq(S), NEW x \in S
    PROVE  /\ Range(Append(s, x)) = Range(s) \cup {x}
           /\ IsInjective(s) /\ x \notin Range(s) => IsInjective(Append(s, x))
<1> DEFINE t == Append(s, x)
<1>1. /\ Len(s) \in Nat /\ DOMAIN s = 1..Len(s)
      /\ DOMAIN t = 1..(Len(s) + 1)
      /\ t[Len(s) + 1] = x /\ \A i \in 1..Len(s) : t[i] = s[i]
  BY AppendProperties, LenProperties
<1> HIDE DEF t
<1>2. Range(t) = Range(s) \cup {x}
  <2>1. \A i \in DOMAIN t : i = Len(s) + 1 \/ i \in 1..Len(s)
    BY <1>1
  <2>2. Range(t) \subseteq Range(s) \cup {x}
    BY <1>1, <2>1 DEF Range
  <2>3. Len(s) + 1 \in DOMAIN t /\ \A i \in DOMAIN s : i \in DOMAIN t
    BY <1>1
  <2>4. Range(s) \cup {x} \subseteq Range(t)
    BY <1>1, <2>3 DEF Range
  <2>5. QED
    BY <2>2, <2>4
<1>3. ASSUME IsInjective(s), x \notin Range(s)
      PROVE  IsInjective(t)
  <2>1. \A i \in 1..Len(s) : t[i] # x
    BY <1>1, <1>3 DEF Range
  <2>2. \A i, j \in 1..Len(s) : t[i] = t[j] => i = j
    BY <1>1, <1>3 DEF IsInjective
  <2>3. \A i \in DOMAIN t : i = Len(s) + 1 \/ i \in 1..Len(s)
    BY <1>1
  <2>4. QED
    BY <1>1, <2>1, <2>2, <2>3 DEF IsInjective
<1>4. QED
  BY <1>2, <1>3 DEF t

\* So does taking its last file away; that file is then no longer in it.
LEMMA FrontOnce ==
    ASSUME NEW S, NEW s \in Seq(S), Len(s) \in Nat \ {0}, IsInjective(s),
           NEW t, t = Front(s)
    PROVE  /\ Range(t) = Range(s) \ {s[Len(s)]}
           /\ s[Len(s)] \in Range(s)
           /\ IsInjective(t)
<1>1. /\ t \in Seq(S) /\ Len(t) = Len(s) - 1
      /\ \A i \in 1..(Len(s) - 1) : t[i] = s[i]
  BY FrontFacts
<1>2. DOMAIN s = 1..Len(s) /\ DOMAIN t = 1..(Len(s) - 1)
  BY <1>1, LenProperties
<1>3. \A i \in DOMAIN t : i \in DOMAIN s /\ t[i] = s[i] /\ i # Len(s)
  BY <1>1, <1>2
<1>4. Len(s) \in DOMAIN s /\ \A i \in DOMAIN s : i = Len(s) \/ i \in DOMAIN t
  BY <1>2
<1>5. Range(s) \ {s[Len(s)]} \subseteq Range(t)
  BY <1>3, <1>4 DEF Range
<1>6. Range(t) \subseteq Range(s) \ {s[Len(s)]}
  BY <1>3, <1>4 DEF Range, IsInjective
<1>7. QED
  BY <1>3, <1>4, <1>5, <1>6 DEF Range, IsInjective

\* Two lists without duplicates and without a common file make one.
LEMMA ConcatOnce ==
    ASSUME NEW S, NEW s \in Seq(S), NEW t \in Seq(S),
           IsInjective(s), IsInjective(t), Range(s) \cap Range(t) = {}
    PROVE  IsInjective(s \o t)
<1> DEFINE c == s \o t
           m == Len(s)
           n == Len(t)
<1>1. /\ m \in Nat /\ n \in Nat /\ DOMAIN c = 1..(m + n)
      /\ DOMAIN s = 1..m /\ DOMAIN t = 1..n
      /\ \A i \in 1..(m + n) : c[i] = IF i <= m THEN s[i] ELSE t[i - m]
  BY ConcatProperties, LenProperties
<1> HIDE DEF c, m, n
<1>2. ASSUME NEW i \in DOMAIN c
      PROVE  \/ i \in DOMAIN s /\ c[i] = s[i] /\ c[i] \in Range(s)
             \/ i - m \in DOMAIN t /\ c[i] = t[i - m] /\ c[i] \in Range(t)
  <2>1. CASE i <= m
    <3>1. i \in DOMAIN s /\ c[i] = s[i]
      BY <1>1, <2>1
    <3>2. QED
      BY <3>1 DEF Range
  <2>2. CASE i > m
    <3>1. i - m \in DOMAIN t /\ c[i] = t[i - m]
      BY <1>1, <2>2
    <3>2. QED
      BY <3>1 DEF Range
  <2>3. QED
    BY <1>1, <2>1, <2>2
<1>3. ASSUME NEW i \in DOMAIN c, NEW j \in DOMAIN c, c[i] = c[j]
      PROVE  i = j
  <2>1. CASE i \in DOMAIN s /\ c[i] = s[i] /\ c[i] \in Range(s)
    <3>1. j \in DOMAIN s /\ c[j] = s[j]
      BY <1>2, <1>3, <2>1
    <3>2. QED
      BY <1>3, <2>1, <3>1 DEF IsInjective
  <2>2. CASE i - m \in DOMAIN t /\ c[i] = t[i - m] /\ c[i] \in Range(t)
    <3>1. j - m \in DOMAIN t /\ c[j] = t[j - m]
      BY <1>2, <1>3, <2>2
    <3>2. i - m = j - m
      BY <1>3, <2>2, <3>1 DEF IsInjective
    <3>3. QED
      BY <1>1, <3>2
  <2>3. QED
    BY <1>2, <2>1, <2>2
<1>4. QED
  BY <1>3 DEF IsInjective, c

-------------------------------------------------------------------------------
(* Each module once.                                                        *)

\* Whatever is being loaded or has been loaded is marked, the entry is only
\* spliced in by itself, and no file is in two of the three lists.
OnceInv ==
    /\ Range(active) \subseteq loaded \ {Entry}
    /\ Range(out) \subseteq loaded \ {Entry}
    /\ Range(unit) \subseteq loaded
    /\ IsInjective(active) /\ IsInjective(out) /\ IsInjective(unit)
    /\ Range(out) \cap Range(active) = {}
    /\ Range(out) \cap Range(unit) = {}
    /\ Range(active) \cap Range(unit) = {}
    /\ phase \in {"preload", "parse"} => unit = <<>>

\* The empty list.
LEMMA NothingOnce == Range(<<>>) = {} /\ IsInjective(<<>>)
BY DEF Range, IsInjective

\* Nothing has been loaded when the driver starts.
LEMMA OnceInit == Init => OnceInv
BY NothingOnce DEF Init, OnceInv

\* No step loads a file that is already in a list or on the DFS stack.
LEMMA OnceStep == TypeInv /\ OnceInv /\ [Next]_vars => OnceInv'
<1> SUFFICES ASSUME TypeInv, OnceInv, [Next]_vars PROVE OnceInv'
  OBVIOUS
<1>1. CASE EndPreload
  BY <1>1 DEF EndPreload, OnceInv
<1>2. CASE ParseEntry
  <2>1. CASE content[Entry].ok
    <3>1. /\ unit' = Append(out, Entry) /\ out' = <<>> /\ phase' = "process"
          /\ active' = active /\ loaded' = loaded
      BY <1>2, <2>1 DEF ParseEntry, SecondWalk
    <3>2. active = <<>>
      BY <1>2 DEF ParseEntry, TypeInv, TypeOK, EntryRead
    <3>3. Range(unit') = Range(out) \cup {Entry} /\ IsInjective(unit')
      BY <3>1, AppendOnce, LoaderAssumption DEF TypeInv, TypeOK, OnceInv
    <3>4. QED
      BY <3>1, <3>2, <3>3, NothingOnce DEF TypeInv, EntryRead, OnceInv
  <2>2. CASE ~content[Entry].ok
    BY <1>2, <2>2 DEF ParseEntry, OnceInv
  <2>3. QED
    BY <2>1, <2>2
<1>3. CASE EndProcess
  <2>1. /\ unit' = out \o unit /\ out' = <<>> /\ phase' \notin {"preload", "parse"}
        /\ active' = active /\ loaded' = loaded
    BY <1>3 DEF EndProcess
  <2>2. active = <<>>
    BY <1>3, LenProperties, EmptySeq DEF EndProcess, TypeInv, TypeOK
  <2>3. IsInjective(unit') /\ Range(unit') = Range(out) \cup Range(unit)
    BY <2>1, ConcatOnce, RangeConcatenation DEF TypeInv, TypeOK, OnceInv
  <2>4. QED
    BY <2>1, <2>2, <2>3, NothingOnce DEF OnceInv
<1>4. CASE ImportNothing \/ ImportCycle \/ ImportAgain
  BY <1>4 DEF ImportNothing, ImportCycle, ImportAgain, OnceInv
<1>5. CASE ImportBroken
  BY <1>5 DEF ImportBroken, ReadFile, OnceInv
<1>6. CASE ImportModule
  <2>1. /\ Target \in Files /\ Target \notin loaded
        /\ loaded' = loaded \cup {Target} /\ active' = Append(active, Target)
        /\ UNCHANGED <<phase, out, unit>>
    BY <1>6, ImportFacts DEF ImportModule, ReadFile, TypeInv
  <2>2. Target \notin Range(active)
    BY <2>1 DEF OnceInv
  <2>3. Range(active') = Range(active) \cup {Target} /\ IsInjective(active')
    BY <2>1, <2>2, AppendOnce DEF TypeInv, TypeOK, OnceInv
  <2>4. QED
    BY <2>1, <2>3 DEF TypeInv, EntryRead, OnceInv
<1>7. CASE FinishModule
  <2>1. /\ stack \in Seq(Walks) /\ active \in Seq(Files) /\ out \in Seq(Files)
        /\ Len(stack) = Len(active) + 1 /\ Len(active) \in Nat \ {0}
    <3>1. Len(stack) \in Nat /\ Len(stack) > 1 /\ Len(active) \in Nat
      BY <1>7, LenProperties DEF FinishModule, TypeInv, TypeOK
    <3>2. stack # <<>>
      BY <3>1, EmptySeq
    <3>3. QED
      BY <3>1, <3>2 DEF TypeInv, TypeOK
  <2> DEFINE f == active[Len(active)]
  <2>2. Top.file = f /\ f \in Files
    <3>1. Len(active) \in DOMAIN active /\ Len(active) \in 1..Len(active)
      BY <2>1, LenProperties
    <3>2. stack[Len(active) + 1].file = f
      BY <3>1 DEF TypeInv, TypeOK
    <3>3. QED
      BY <2>1, <3>1, <3>2, ElementOfSeq DEF Top
  <2>3. /\ active' = Front(active) /\ out' = Append(out, f)
        /\ UNCHANGED <<phase, loaded, unit>>
    BY <1>7, <2>2 DEF FinishModule
  <2> HIDE DEF f
  <2>4. /\ Range(active') \subseteq Range(active) \ {f} /\ f \in Range(active)
        /\ IsInjective(active')
    BY <2>1, <2>3, FrontOnce DEF OnceInv, f
  <2>5. f \notin Range(out)
    BY <2>4 DEF OnceInv
  <2>6. Range(out') = Range(out) \cup {f} /\ IsInjective(out')
    BY <2>1, <2>2, <2>3, <2>5, AppendOnce DEF OnceInv
  <2>7. QED
    BY <2>3, <2>4, <2>6 DEF OnceInv
<1>8. CASE UNCHANGED vars
  BY <1>8 DEF vars, OnceInv
<1>9. QED
  BY <1>1, <1>2, <1>3, <1>4, <1>5, <1>6, <1>7, <1>8 DEF Next

\* A module is spliced into the unit once, whatever the import graph is and
\* whatever specifiers its importers use.
THEOREM ModulesLoadedOnce == Spec => []LoadedOnce
<1>1. OnceInv => LoadedOnce
  BY DEF OnceInv, LoadedOnce
<1>2. QED
  BY <1>1, TypeInit, TypeStep, OnceInit, OnceStep, PTL DEF Spec

-------------------------------------------------------------------------------
(* What loading leaves behind when nothing was wrong.                       *)

EntryDirs == PathsBelow(Entry, SearchDirs)
Imports(f) == content[f].imports

\* How many imports of a list have been dealt with, and that the others are left.
Done(w) == Len(Imports(w.file)) - Len(w.todo)
Remains(w) ==
    /\ content[w.file] \in Sources
    /\ Done(w) \in Nat
    /\ \A k \in 1..Len(w.todo) : w.todo[k] = Imports(w.file)[Done(w) + k]

\* The k-th import of f has been resolved to a file of its name.
Imported(f, k) ==
    \E g \in Files : <<f, g>> \in edges /\ \E d \in Dirs : At[d][Imports(f)[k]] = g

Before(q, g, f) == \E i, j \in DOMAIN q : i < j /\ q[i] = g /\ q[j] = f

\* The recursion follows the imports, from the entry's on; what it has come to is
\* marked.
PathInv ==
    /\ phase \in {"preload", "process"} <=> stack # <<>>
    /\ stack # <<>> => stack[1].file = Entry /\ stack[1].dirs = EntryDirs
    /\ \A i \in 1..Len(stack) : Remains(stack[i])
    /\ \A i \in 1..(Len(stack) - 1) : <<stack[i].file, stack[i + 1].file>> \in edges
    /\ \A e \in edges : e[2] \in loaded

\* Without an error, what is marked is loaded or being loaded, and the imports
\* that were dealt with have been resolved.
ResolvedInv ==
    errors = {} =>
        /\ loaded = {Entry} \cup Range(active) \cup Range(out) \cup Range(unit)
        /\ \A i \in 1..Len(stack) : \A k \in 1..Done(stack[i]) :
              Imported(stack[i].file, k)
        /\ \A f \in Range(out) \cup Range(unit) : \A k \in 1..Len(Imports(f)) :
              Imported(f, k)

\* The second walk finds what the first has resolved.
NetInv ==
    /\ phase \in {"parse", "process", "done"} => errors = {}
    /\ phase \in {"process", "done"} =>
          out = <<>> /\ active = <<>> /\ Entry \in Range(unit)
    /\ errors = {} =>
          \A k \in 1..(IF phase = "preload" THEN Done(stack[1])
                       ELSE Len(Imports(Entry))) :
              <<Entry, Resolve(Imports(Entry)[k], EntryDirs)>> \in edges

\* An edge leads to the entry, to a module that is finished before its importer, or
\* to the module that the importer is waiting for.
Settled(e) ==
    \/ e[2] = Entry
    \/ Before(out, e[2], e[1]) \/ Before(unit, e[2], e[1])
    \/ e[2] \in Range(out) /\ e[1] \in {Entry} \cup Range(active)
    \/ \E i \in 1..(Len(stack) - 1) : e = <<stack[i].file, stack[i + 1].file>>
OrderInv == errors = {} => \A e \in edges : Settled(e)

\* What is loaded is reached from the entry, and has been seen by its parser.
Closed(S) == Entry \in S /\ \A e \in edges : e[1] \in S => e[2] \in S
ReachInv ==
    /\ \A S \in SUBSET Files : Closed(S) =>
          Range(active) \cup Range(out) \cup Range(unit) \subseteq S
    /\ phase \in {"process", "done"} =>
          \A e \in edges : e[2] = Entry \/ e[2] \in parsed[Entry]

\* The path of a cycle that is reported is one.
CycleInv ==
    \A err \in errors : err.kind = "cycle" =>
        \A i \in DOMAIN err.path :
            <<err.path[i], err.path[IF i = Len(err.path) THEN 1 ELSE i + 1]>> \in edges

LoadInv == PathInv /\ ResolvedInv /\ NetInv /\ OrderInv /\ ReachInv /\ CycleInv

-------------------------------------------------------------------------------
(* One import.                                                              *)

\* The import at hand is the next of its list; once it has been dealt with, so are
\* all up to it.
LEMMA NextFacts ==
    ASSUME TypeInv, PathInv, Importing,
           NEW n, n = Len(stack)
    PROVE  /\ n \in Nat \ {0} /\ Len(Next1) = n /\ Top = stack[n] /\ Next1 # <<>>
           /\ \A i \in 1..n : /\ Next1[i].file = stack[i].file
                              /\ Next1[i].dirs = stack[i].dirs
           /\ \A i \in 1..(n - 1) : Next1[i] = stack[i]
           /\ Done(Top) \in Nat /\ Done(Top) + 1 \in 1..Len(Imports(Top.file))
           /\ Spec1 = Imports(Top.file)[Done(Top) + 1]
           /\ Done(Next1[n]) = Done(Top) + 1
           /\ \A i \in 1..n : Remains(Next1[i])
<1>1. /\ n \in Nat \ {0} /\ Top \in Walks /\ Next1 \in Seq(Walks) /\ Len(Next1) = n
      /\ stack \in Seq(Walks) /\ Top = stack[n]
  BY ImportFacts DEF TypeInv, TypeOK, Top
<1>2. PICK w : w = [Top EXCEPT !.todo = Tail(@)]
  OBVIOUS
<1>3. /\ w \in Walks /\ w.file = Top.file /\ w.dirs = Top.dirs
      /\ w.todo = Tail(Top.todo) /\ Top.todo \in Seq(Specs) /\ Top.todo # <<>>
  <2>1. Top.todo \in Seq(Specs) /\ Top.todo # <<>>
    BY <1>1 DEF Walks, Importing
  <2>2. Tail(Top.todo) \in Seq(Specs)
    BY <2>1, HeadTailProperties
  <2>3. QED
    BY <1>1, <1>2, <2>1, <2>2 DEF Walks
<1>4. n \in 1..n /\ Next1 = [stack EXCEPT ![n] = w]
  BY <1>1, <1>2 DEF Next1, Top
<1>5. \A i \in 1..n : Next1[i] = IF i = n THEN w ELSE stack[i]
  BY <1>1, <1>3, <1>4, ExceptSeq
<1>6. PICK m \in Nat : m = Len(Top.todo) - 1 /\ Len(Top.todo) = m + 1
  <2>1. PICK t : t = Len(Top.todo)
    OBVIOUS
  <2>2. t \in Nat \ {0}
    BY <1>3, <2>1, EmptySeq, LenProperties
  <2>3. t - 1 \in Nat /\ t = (t - 1) + 1
    BY <2>2
  <2>4. QED
    BY <2>1, <2>3
<1>7. /\ Len(w.todo) = m /\ \A k \in 1..m : w.todo[k] = Top.todo[k + 1]
  BY <1>3, <1>6, HeadTailProperties
<1>8. Remains(Top)
  BY <1>1, <1>4 DEF PathInv
<1>9. PICK l : l = Imports(Top.file)
  OBVIOUS
<1>10. /\ l \in Seq(Specs) /\ Len(l) \in Nat /\ content[Top.file] \in Sources
       /\ Done(Top) = Len(l) - (m + 1) /\ Done(Top) \in Nat
       /\ \A k \in 1..(m + 1) : Top.todo[k] = l[Done(Top) + k]
  <2>1. content[Top.file] \in Sources
    BY <1>8 DEF Remains
  <2>2. l \in Seq(Specs)
    BY <1>9, <2>1, LoaderAssumption DEF Imports
  <2>3. QED
    BY <1>6, <1>8, <1>9, <2>1, <2>2, LenProperties DEF Remains, Done
<1>11. PICK p \in Nat : p = Done(Top) /\ Len(l) = p + (m + 1)
  <2>1. PICK p \in Nat : p = Done(Top)
    BY <1>10
  <2>2. Len(l) = p + (m + 1)
    BY <1>6, <1>10, <2>1
  <2>3. QED
    BY <2>1, <2>2
<1>12. Done(w) = p + 1 /\ Remains(w)
  <2>1. Done(w) = Len(l) - m
    BY <1>3, <1>7, <1>9 DEF Done
  <2>2. Done(w) = p + 1
    BY <1>6, <1>11, <2>1
  <2>3. ASSUME NEW k \in 1..m
        PROVE  w.todo[k] = l[Done(w) + k]
    <3>1. k + 1 \in 1..(m + 1) /\ p + (k + 1) = (p + 1) + k
      BY <1>6, <1>11
    <3>2. Top.todo[k + 1] = l[p + (k + 1)]
      BY <1>10, <1>11, <3>1
    <3>3. QED
      BY <1>7, <2>2, <3>1, <3>2
  <2>4. QED
    BY <1>3, <1>7, <1>9, <1>10, <2>2, <2>3 DEF Remains, Imports
<1>13. \A i \in 1..n : Remains(Next1[i])
  <2>1. \A i \in 1..n : Remains(stack[i])
    BY <1>1 DEF PathInv
  <2>2. QED
    BY <1>5, <1>12, <2>1
<1>14. p + 1 \in 1..Len(l) /\ Spec1 = l[p + 1]
  <2>1. 1 \in 1..(m + 1)
    BY <1>6
  <2>2. Top.todo[1] = l[p + 1]
    BY <1>10, <1>11, <2>1
  <2>3. QED
    BY <1>6, <1>11, <2>2 DEF Spec1
<1>15. /\ \A i \in 1..n : Next1[i].file = stack[i].file /\ Next1[i].dirs = stack[i].dirs
       /\ \A i \in 1..(n - 1) : Next1[i] = stack[i]
  BY <1>1, <1>3, <1>5
<1>16. Done(Next1[n]) = Done(Top) + 1
  BY <1>4, <1>5, <1>11, <1>12
<1>17. Next1 # <<>>
  BY <1>1, EmptySeq
<1>18. QED
  BY <1>1, <1>9, <1>11, <1>13, <1>14, <1>15, <1>16, <1>17

\* A resolved import is of a file of its name.
LEMMA ResolveFinds ==
    ASSUME NEW s \in Specs, NEW dirs \in Seq(Dirs), Resolve(s, dirs) # None
    PROVE  \E d \in Dirs : At[d][s] = Resolve(s, dirs)
<1> DEFINE hits == {i \in DOMAIN dirs : At[dirs[i]][s] # None}
           h == CHOOSE i \in hits : \A j \in hits : i <= j
<1>1. s \notin Legacy /\ hits # {} /\ Resolve(s, dirs) = At[dirs[h]][s]
  BY DEF Resolve
<1>2. h \in hits
  <2>1. hits \in SUBSET Nat
    BY LenProperties
  <2>2. QED
    BY <1>1, <2>1, FirstExists, Zenon
<1>3. dirs[h] \in Dirs
  BY <1>2, LenProperties, ElementOfSeq
<1>4. QED
  BY <1>1, <1>3

\* What the loader has read stays, and so do the edges.
Grows ==
    /\ \A f \in loaded : content'[f] = content[f]
    /\ loaded \subseteq loaded' /\ edges \subseteq edges'

LEMMA ImportedKept ==
    ASSUME Grows, NEW f \in loaded, NEW k, Imported(f, k)
    PROVE  Imported(f, k)'
BY DEF Grows, Imported, Imports

LEMMA ImportedSame ==
    ASSUME content' = content, edges' = edges
    PROVE  /\ \A f : Imports(f)' = Imports(f)
           /\ \A f, k : Imported(f, k) => Imported(f, k)'
<1>1. \A f : Imports(f)' = Imports(f)
  BY DEF Imports
<1>2. ASSUME NEW f, NEW k, Imported(f, k)
      PROVE  Imported(f, k)'
  <2>1. PICK g \in Files : <<f, g>> \in edges /\ \E d \in Dirs : At[d][Imports(f)[k]] = g
    BY <1>2 DEF Imported
  <2>2. <<f, g>> \in edges' /\ \E d \in Dirs : At[d][Imports(f)'[k]] = g
    BY <1>1, <2>1
  <2>3. QED
    BY <2>2 DEF Imported
<1>3. QED
  BY <1>1, <1>2

LEMMA ResolvedSame ==
    ASSUME ResolvedInv, UNCHANGED <<content, loaded, active, out, unit, errors, edges>>,
           \A i \in 1..Len(stack') : i \in 1..Len(stack) /\ stack'[i] = stack[i]
    PROVE  ResolvedInv'
<1> SUFFICES ASSUME errors' = {} PROVE ResolvedInv'
  BY DEF ResolvedInv
<1>1. ASSUME NEW i \in 1..Len(stack'), NEW k \in 1..Done(stack[i])'
      PROVE  Imported(stack[i].file, k)'
  <2>1. PICK w : w = stack[i] /\ stack'[i] = w
    BY <1>1
  <2>2. Done(stack[i])' = Done(w)
    BY <2>1 DEF Done, Imports
  <2>3. Imported(w.file, k)
    BY <1>1, <2>1, <2>2 DEF ResolvedInv
  <2>4. Imported(w.file, k)'
    BY <2>3, ImportedSame
  <2>5. QED
    BY <2>1, <2>4
<1>2. ASSUME NEW f \in Range(out') \cup Range(unit'), NEW k \in 1..Len(Imports(f))'
      PROVE  Imported(f, k)'
  <2>1. Imports(f)' = Imports(f)
    BY ImportedSame
  <2>2. Imported(f, k)
    BY <1>2, <2>1 DEF ResolvedInv
  <2>3. QED
    BY <2>2, ImportedSame
<1>3. loaded' = {Entry} \cup Range(active') \cup Range(out') \cup Range(unit')
  BY DEF ResolvedInv
<1>4. QED
  BY <1>1, <1>2, <1>3 DEF ResolvedInv

LEMMA RemainsKept ==
    ASSUME Grows, NEW w, w.file \in loaded
    PROVE  Done(w)' = Done(w) /\ (Remains(w) => Remains(w)')
BY DEF Grows, Remains, Done, Imports

\* The files of the stack are marked: the entry, then the active modules.
LEMMA StackFacts ==
    ASSUME TypeInv, OnceInv, PathInv
    PROVE  /\ Len(stack) \in Nat /\ Len(active) \in Nat
           /\ \A i \in 1..Len(stack) :
                 /\ stack[i].file \in {Entry} \cup Range(active)
                 /\ stack[i].file \in loaded
<1>1. Len(stack) \in Nat /\ Len(active) \in Nat /\ DOMAIN active = 1..Len(active)
  BY LenProperties DEF TypeInv, TypeOK
<1>2. ASSUME NEW i \in 1..Len(stack)
      PROVE  stack[i].file \in {Entry} \cup Range(active)
  <2>1. stack # <<>>
    BY <1>1, EmptySeq
  <2>2. Len(stack) = Len(active) + 1 /\ stack[1].file = Entry
    BY <2>1 DEF TypeInv, TypeOK, PathInv
  <2>3. CASE i = 1
    BY <2>2, <2>3
  <2>4. CASE i # 1
    <3>1. PICK j \in 1..Len(active) : i = j + 1
      <4>1. i - 1 \in 1..Len(active) /\ i = (i - 1) + 1
        BY <1>1, <2>2, <2>4
      <4>2. QED
        BY <4>1
    <3>2. stack[j + 1].file = active[j]
      BY <1>1, <3>1 DEF TypeInv, TypeOK
    <3>3. QED
      BY <1>1, <3>1, <3>2 DEF Range
  <2>5. QED
    BY <2>3, <2>4
<1>3. \A i \in 1..Len(stack) : stack[i].file \in loaded
  BY <1>2 DEF OnceInv, TypeInv, EntryRead
<1>4. QED
  BY <1>1, <1>2, <1>3

\* The path after a step that only takes the import at hand off its list.
LEMMA PathTook ==
    ASSUME TypeInv, OnceInv, PathInv, Importing, Grows,
           stack' = Next1, phase' = phase, \A e \in edges' : e[2] \in loaded'
    PROVE  PathInv'
<1>1. PICK n : n = Len(stack)
  OBVIOUS
<1>2. /\ n \in Nat \ {0} /\ Len(stack') = n /\ stack' # <<>> /\ stack # <<>>
      /\ \A i \in 1..n : /\ stack'[i].file = stack[i].file
                         /\ stack'[i].dirs = stack[i].dirs
                         /\ Remains(stack'[i]) \/ stack'[i] # Next1[i]
  BY <1>1, NextFacts DEF Importing
<1>3. \A i \in 1..n : stack[i].file \in loaded
  BY <1>1, StackFacts
<1>4. \A i \in 1..n : Remains(stack[i])'
  <2>1. ASSUME NEW i \in 1..n
        PROVE  Remains(stack[i])'
    <3>1. PICK w : w = Next1[i]
      OBVIOUS
    <3>2. Remains(w) /\ w.file = stack[i].file
      BY <1>1, <3>1, NextFacts
    <3>3. Remains(w)'
      BY <1>3, <3>2, RemainsKept
    <3>4. QED
      BY <3>1, <3>3
  <2>2. QED
    BY <2>1
<1>5. \A i \in 1..(n - 1) : <<stack'[i].file, stack'[i + 1].file>> \in edges'
  <2>1. ASSUME NEW i \in 1..(n - 1)
        PROVE  <<stack'[i].file, stack'[i + 1].file>> \in edges'
    <3>1. i \in 1..n /\ i + 1 \in 1..n
      BY <1>2
    <3>2. <<stack[i].file, stack[i + 1].file>> \in edges
      BY <1>1 DEF PathInv
    <3>3. QED
      BY <1>2, <3>1, <3>2 DEF Grows
  <2>2. QED
    BY <2>1
<1>6. stack'[1].file = Entry /\ stack'[1].dirs = EntryDirs /\ EntryDirs' = EntryDirs
  <2>1. 1 \in 1..n
    BY <1>2
  <2>2. QED
    BY <1>2, <2>1 DEF PathInv, EntryDirs
<1>7. phase' \in {"preload", "process"} <=> stack' # <<>>
  BY <1>2 DEF PathInv
<1>8. QED
  BY <1>2, <1>4, <1>5, <1>6, <1>7 DEF PathInv

\* The second walk comes only to what the first has resolved.
LEMMA SecondWalkFinds ==
    ASSUME TypeInv, OnceInv, PathInv, NetInv, Importing, phase = "process"
    PROVE  /\ errors = {} /\ out = <<>> /\ active = <<>>
           /\ Target \in loaded /\ Target # None /\ ~OnStack
           /\ <<Top.file, Target>> \in edges
<1>1. errors = {} /\ out = <<>> /\ active = <<>>
  BY DEF NetInv
<1>2. Len(stack) = 1 /\ Top = stack[1] /\ stack # <<>>
  <2>1. stack # <<>>
    BY DEF Importing
  <2>2. Len(stack) = Len(active) + 1 /\ Len(active) = 0
    BY <1>1, <2>1, EmptySeq DEF TypeInv, TypeOK
  <2>3. QED
    BY <2>1, <2>2 DEF Top
<1>3. Top.file = Entry /\ Top.dirs = EntryDirs
  BY <1>2 DEF PathInv
<1>4. PICK k : k = Done(Top) + 1 /\ k \in 1..Len(Imports(Entry)) /\ Spec1 = Imports(Entry)[k]
  BY <1>3, NextFacts
<1>5. <<Entry, Resolve(Imports(Entry)[k], EntryDirs)>> \in edges
  BY <1>1, <1>4 DEF NetInv
<1>6. <<Top.file, Target>> \in edges
  BY <1>3, <1>4, <1>5 DEF Target
<1>7. Target \in loaded /\ Target # None
  <2>1. PICK e : e = <<Top.file, Target>>
    OBVIOUS
  <2>2. e \in edges /\ e[2] = Target /\ e[2] \in Files
    BY <1>6, <2>1 DEF TypeInv, TypeOK
  <2>3. e[2] \in loaded
    BY <2>2 DEF PathInv
  <2>4. QED
    BY <2>2, <2>3, LoaderAssumption
<1>8. ~OnStack
  BY <1>1 DEF OnStack, Range
<1>9. QED
  BY <1>1, <1>6, <1>7, <1>8

\* Without an error, more imports of the lists have been resolved afterwards.
ImportedThen(f, k) ==
    \E g \in Files : <<f, g>> \in edges' /\ \E d \in Dirs : At[d][content'[f].imports[k]] = g

LEMMA Progress ==
    ASSUME TypeInv, OnceInv, LoadInv, Importing, Target # None, Grows,
           edges' = edges \cup {<<Top.file, Target>>}, errors = {},
           NEW n, n = Len(stack)
    PROVE  /\ \A i \in 1..n : \A k \in 1..Done(Next1[i]) : ImportedThen(stack[i].file, k)
           /\ phase = "preload" => \A k \in 1..Done(Next1[1]) :
                 <<Entry, Resolve(Imports(Entry)[k], EntryDirs)>> \in edges'
<1>1. /\ n \in Nat \ {0} /\ Len(Next1) = n /\ Top = stack[n] /\ Next1 # <<>>
      /\ \A i \in 1..(n - 1) : Next1[i] = stack[i]
      /\ Done(Top) \in Nat /\ Done(Top) + 1 \in 1..Len(Imports(Top.file))
      /\ Spec1 = Imports(Top.file)[Done(Top) + 1]
      /\ Done(Next1[n]) = Done(Top) + 1
  BY NextFacts DEF LoadInv
<1>2. Target \in Files /\ Top \in Walks /\ Spec1 \in Specs
  BY ImportFacts DEF TypeInv
<1>3. \E d \in Dirs : At[d][Spec1] = Target
  BY <1>2, ResolveFinds DEF Target, Walks
<1>4. \A i \in 1..n : stack[i].file \in loaded
  BY StackFacts DEF LoadInv
<1>5. ASSUME NEW i \in 1..n, NEW k \in 1..Done(stack[i])
      PROVE  ImportedThen(stack[i].file, k)
  <2>1. Imported(stack[i].file, k)
    BY <1>5 DEF LoadInv, ResolvedInv
  <2>2. QED
    BY <1>4, <2>1 DEF Imported, ImportedThen, Grows, Imports
<1>6. ImportedThen(Top.file, Done(Top) + 1)
  <2>1. Top.file \in loaded
    BY <1>1, <1>4
  <2>2. content'[Top.file].imports[Done(Top) + 1] = Spec1
    BY <1>1, <2>1 DEF Grows, Imports
  <2>3. QED
    BY <1>2, <1>3, <2>2 DEF ImportedThen
<1>7. PICK p \in Nat : p = Done(Top)
  BY <1>1
<1>8. ASSUME NEW i \in 1..n, NEW k \in 1..Done(Next1[i])
      PROVE  ImportedThen(stack[i].file, k)
  <2>1. CASE i = n
    <3>1. k \in 1..p \/ k = p + 1
      BY <1>1, <1>7, <1>8, <2>1
    <3>2. QED
      BY <1>1, <1>5, <1>6, <1>7, <2>1, <3>1
  <2>2. CASE i # n
    <3>1. i \in 1..(n - 1)
      BY <1>1, <2>2
    <3>2. Next1[i] = stack[i]
      BY <1>1, <3>1
    <3>3. QED
      BY <1>5, <1>8, <3>2
  <2>3. QED
    BY <2>1, <2>2
<1>9. ASSUME phase = "preload", NEW k \in 1..Done(Next1[1])
      PROVE  <<Entry, Resolve(Imports(Entry)[k], EntryDirs)>> \in edges'
  <2>1. CASE k \in 1..Done(stack[1])
    BY <1>9, <2>1 DEF LoadInv, NetInv, Grows
  <2>2. CASE k \notin 1..Done(stack[1])
    <3>1. n = 1
      <4>1. n # 1 => 1 \in 1..(n - 1)
        BY <1>1
      <4>2. n # 1 => Next1[1] = stack[1]
        BY <1>1, <4>1
      <4>3. QED
        BY <1>9, <2>2, <4>2
    <3>2. k = p + 1
      BY <1>1, <1>7, <1>9, <2>2, <3>1
    <3>3. stack # <<>>
      BY DEF Importing
    <3>4. Top.file = Entry /\ Top.dirs = EntryDirs
      BY <1>1, <3>1, <3>3 DEF LoadInv, PathInv
    <3>5. Target = Resolve(Imports(Entry)[k], EntryDirs)
      BY <1>1, <1>7, <3>2, <3>4 DEF Target
    <3>6. QED
      BY <3>4, <3>5
  <2>3. QED
    BY <2>1, <2>2
<1>10. QED
  BY <1>8, <1>9

\* With more edges there are fewer closed sets.
LEMMA FewerClosed ==
    ASSUME NEW S, edges \subseteq edges', Closed(S)'
    PROVE  Closed(S)
BY DEF Closed

-------------------------------------------------------------------------------
(* The steps of the first walk.                                             *)

\* An import that ends with a diagnostic: the compilation ends with the walk.
LEMMA ErringStep ==
    ASSUME TypeInv, OnceInv, LoadInv, Importing, Grows, phase = "preload",
           stack' = Next1, UNCHANGED <<phase, active, out, unit>>,
           errors' # {}, \A e \in edges' : e[2] \in loaded', CycleInv'
    PROVE  LoadInv'
<1>1. PathInv'
  BY PathTook DEF LoadInv
<1>2. ResolvedInv' /\ NetInv' /\ OrderInv'
  BY DEF ResolvedInv, NetInv, OrderInv
<1>3. ReachInv'
  <2>1. ASSUME NEW S \in SUBSET Files, Closed(S)'
        PROVE  Range(active) \cup Range(out) \cup Range(unit) \subseteq S
    <3>1. Closed(S)
      BY <2>1, FewerClosed DEF Grows
    <3>2. QED
      BY <3>1 DEF LoadInv, ReachInv
  <2>2. QED
    BY <2>1 DEF ReachInv
<1>4. QED
  BY <1>1, <1>2, <1>3 DEF LoadInv

\* A cycle that was reported stays one.
LEMMA CycleKept ==
    ASSUME CycleInv, edges \subseteq edges',
           \A err \in errors' : err \in errors \/ err.kind # "cycle"
    PROVE  CycleInv'
BY DEF CycleInv

\* An import is dealt with in one of the walks.
LEMMA WalkPhase ==
    ASSUME PathInv, Importing
    PROVE  phase \in {"preload", "process"}
BY DEF PathInv, Importing

LEMMA ImportNothingStep ==
    ASSUME TypeInv, OnceInv, LoadInv, ImportNothing
    PROVE  LoadInv'
<1>1. /\ Importing /\ Target = None /\ stack' = Next1
      /\ UNCHANGED <<phase, content, loaded, active, out, unit, edges, parsed>>
  BY DEF ImportNothing
<1>2. phase = "preload"
  BY <1>1, SecondWalkFinds, WalkPhase DEF LoadInv
<1>3. errors' # {} /\ CycleInv'
  <2>1. PICK err : errors' = errors \cup {err} /\ err.kind # "cycle"
    <3>1. PICK err : err = Error(IF Spec1 \in Legacy THEN "legacy" ELSE "unresolved",
                                 <<Spec1>>)
      OBVIOUS
    <3>2. err.kind # "cycle"
      BY <3>1 DEF Error
    <3>3. errors' = errors \cup {err}
      BY <3>1, Zenon DEF ImportNothing, Fail
    <3>4. QED
      BY <3>2, <3>3
  <2>2. QED
    BY <1>1, <2>1, CycleKept DEF LoadInv
<1>4. Grows
  BY <1>1 DEF Grows
<1>5. \A e \in edges' : e[2] \in loaded'
  BY <1>1 DEF LoadInv, PathInv
<1>6. QED
  BY <1>1, <1>2, <1>3, <1>4, <1>5, ErringStep

LEMMA ImportBrokenStep ==
    ASSUME TypeInv, OnceInv, LoadInv, ImportBroken
    PROVE  LoadInv'
<1>1. /\ Importing /\ Target # None /\ Target \notin loaded /\ stack' = Next1
      /\ edges' = edges \cup {<<Top.file, Target>>} /\ loaded' = loaded \cup {Target}
      /\ UNCHANGED <<phase, active, out, unit, parsed>>
  BY DEF ImportBroken, ReadFile, Resolved
<1>2. phase = "preload"
  BY <1>1, SecondWalkFinds, WalkPhase DEF LoadInv
<1>3. Grows /\ errors' # {} /\ CycleInv'
  <2>1. PICK c \in Sources :
           /\ content' = [content EXCEPT ![Target] = c]
           /\ Fail(Error(IF c.ok THEN "name" ELSE "broken", <<Target>>))
    BY DEF ImportBroken
  <2>2. Grows
    BY <1>1, <2>1 DEF Grows, TypeInv, TypeOK
  <2>3. PICK err : errors' = errors \cup {err} /\ err.kind # "cycle"
    <3>1. PICK err : err = Error(IF c.ok THEN "name" ELSE "broken", <<Target>>)
      OBVIOUS
    <3>2. err.kind # "cycle"
      BY <3>1 DEF Error
    <3>3. errors' = errors \cup {err}
      BY <2>1, <3>1, Zenon DEF Fail
    <3>4. QED
      BY <3>2, <3>3
  <2>4. QED
    BY <1>1, <2>2, <2>3, CycleKept DEF LoadInv
<1>4. \A e \in edges' : e[2] \in loaded'
  BY <1>1 DEF LoadInv, PathInv
<1>5. QED
  BY <1>1, <1>2, <1>3, <1>4, ErringStep

\* The path that is reported runs from the module on the stack to its importer.
LEMMA ImportCycleStep ==
    ASSUME TypeInv, OnceInv, LoadInv, ImportCycle
    PROVE  LoadInv'
<1>1. /\ Importing /\ Target # None /\ OnStack /\ stack' = Next1
      /\ edges' = edges \cup {<<Top.file, Target>>}
      /\ UNCHANGED <<phase, content, loaded, active, out, unit, parsed>>
  BY DEF ImportCycle, Resolved
<1>2. phase = "preload"
  BY <1>1, SecondWalkFinds, WalkPhase DEF LoadInv
<1>3. Grows
  BY <1>1 DEF Grows
<1>4. PICK err : err = Error("cycle", CyclePath) /\ errors' = errors \cup {err}
  BY Zenon DEF ImportCycle, Fail
<1>5. PICK m \in Nat : /\ m = Len(active) /\ Len(stack) = m + 1 /\ DOMAIN active = 1..m
                       /\ \A i \in 1..m : stack[i + 1].file = active[i]
  <2>1. Len(active) \in Nat /\ DOMAIN active = 1..Len(active)
    BY LenProperties DEF TypeInv, TypeOK
  <2>2. QED
    BY <1>1, <2>1 DEF TypeInv, TypeOK, Importing
<1>6. PICK h \in 1..m : active[h] = Target /\ CyclePath = SubSeq(active, h, m)
  <2>1. PICK h : h = CHOOSE k \in DOMAIN active : active[k] = Target
    OBVIOUS
  <2>2. h \in DOMAIN active /\ active[h] = Target
    BY <1>1, <2>1 DEF OnStack, Range
  <2>3. CyclePath = SubSeq(active, h, m)
    BY <1>5, <2>1 DEF CyclePath
  <2>4. QED
    BY <1>5, <2>2, <2>3
<1>7. PICK q : q = CyclePath
  OBVIOUS
<1>8. PICK l \in Nat \ {0} : /\ l = m - h + 1 /\ Len(q) = l /\ DOMAIN q = 1..l
                             /\ \A i \in 1..l : q[i] = active[h + i - 1]
  <2>1. active \in Seq(Files)
    BY DEF TypeInv, TypeOK
  <2>2. \A k \in h..m : active[k] \in Files
    BY <1>5, <1>6, <2>1, ElementOfSeq
  <2>3. PICK l : l = m - h + 1
    OBVIOUS
  <2>4. l \in Nat \ {0}
    BY <1>6, <2>3
  <2>5. /\ q \in Seq(Files) /\ Len(q) = l
        /\ \A i \in 1..l : q[i] = active[h + i - 1]
    BY <1>5, <1>6, <1>7, <2>1, <2>2, <2>3, SubSeqProperties
  <2>6. DOMAIN q = 1..l
    BY <2>5, LenProperties
  <2>7. QED
    BY <2>3, <2>4, <2>5, <2>6
<1>9. ASSUME NEW i \in 1..l
      PROVE  <<q[i], q[IF i = l THEN 1 ELSE i + 1]>> \in edges'
  <2>1. PICK t \in 1..m : t = h + i - 1
    BY <1>6, <1>8
  <2>2. q[i] = active[t] /\ active[t] = stack[t + 1].file
    BY <1>5, <1>8, <2>1
  <2>3. CASE i = l
    <3>1. t = m
      BY <1>6, <1>8, <2>1, <2>3
    <3>2. active[t] = Top.file
      BY <1>5, <2>2, <3>1 DEF Top
    <3>3. 1 \in 1..l /\ h + 1 - 1 = h
      BY <1>6, <1>8
    <3>4. q[1] = Target
      BY <1>6, <1>8, <3>3
    <3>5. QED
      BY <1>1, <2>2, <2>3, <3>2, <3>4
  <2>4. CASE i # l
    <3>1. i + 1 \in 1..l /\ t + 1 \in 1..m /\ h + (i + 1) - 1 = t + 1
      BY <1>6, <1>8, <2>1, <2>4
    <3>2. q[i + 1] = active[t + 1] /\ active[t + 1] = stack[t + 2].file
      <4>1. q[i + 1] = active[h + (i + 1) - 1]
        BY <1>8, <3>1
      <4>2. active[t + 1] = stack[(t + 1) + 1].file
        BY <1>5, <3>1
      <4>3. QED
        BY <2>1, <3>1, <4>1, <4>2
    <3>3. <<stack[t + 1].file, stack[t + 2].file>> \in edges
      <4>1. t + 1 \in 1..(Len(stack) - 1) /\ t + 2 = (t + 1) + 1
        BY <1>5, <2>1, <3>1
      <4>2. <<stack[t + 1].file, stack[(t + 1) + 1].file>> \in edges
        BY <4>1 DEF LoadInv, PathInv
      <4>3. QED
        BY <4>1, <4>2
    <3>4. QED
      BY <1>1, <2>2, <2>4, <3>2, <3>3
  <2>5. QED
    BY <2>3, <2>4
<1>10. CycleInv'
  <2>1. err.path = q
    BY <1>4, <1>7 DEF Error
  <2>2. \A i \in DOMAIN err.path :
           <<err.path[i], err.path[IF i = Len(err.path) THEN 1 ELSE i + 1]>> \in edges'
    BY <1>8, <1>9, <2>1
  <2>3. edges \subseteq edges'
    BY <1>1
  <2>4. ASSUME NEW e \in errors', e.kind = "cycle", NEW i \in DOMAIN e.path
        PROVE  <<e.path[i], e.path[IF i = Len(e.path) THEN 1 ELSE i + 1]>> \in edges'
    <3>1. CASE e = err
      BY <2>2, <2>4, <3>1
    <3>2. CASE e # err
      <4>1. e \in errors
        BY <1>4, <3>2
      <4>2. <<e.path[i], e.path[IF i = Len(e.path) THEN 1 ELSE i + 1]>> \in edges
        BY <2>4, <4>1 DEF LoadInv, CycleInv
      <4>3. QED
        BY <2>3, <4>2
    <3>3. QED
      BY <3>1, <3>2
  <2>5. QED
    BY <2>4 DEF CycleInv
<1>11. \A e \in edges' : e[2] \in loaded'
  <2>1. Target \in loaded
    BY <1>1 DEF OnStack, OnceInv
  <2>2. QED
    BY <1>1, <2>1 DEF LoadInv, PathInv
<1>12. errors' # {}
  BY <1>4
<1>13. QED
  BY <1>1, <1>2, <1>3, <1>10, <1>11, <1>12, ErringStep

\* An edge stays settled while its importer waits, or has its place.
LEMMA SettledKept ==
    ASSUME NEW e, Settled(e), out' = out, unit' = unit,
           Range(active) \subseteq Range(active'),
           Len(stack) \in Nat, Len(stack') \in Nat, Len(stack) <= Len(stack'),
           \A i \in 1..Len(stack) : stack'[i].file = stack[i].file
    PROVE  Settled(e)'
<1>1. CASE \E i \in 1..(Len(stack) - 1) : e = <<stack[i].file, stack[i + 1].file>>
  <2>1. PICK i \in 1..(Len(stack) - 1) : e = <<stack[i].file, stack[i + 1].file>>
    BY <1>1
  <2>2. i \in 1..Len(stack) /\ i + 1 \in 1..Len(stack) /\ i \in 1..(Len(stack') - 1)
    OBVIOUS
  <2>3. e = <<stack'[i].file, stack'[i + 1].file>>
    BY <2>1, <2>2
  <2>4. QED
    BY <2>2, <2>3 DEF Settled
<1>2. CASE e[2] \in Range(out) /\ e[1] \in {Entry} \cup Range(active)
  BY <1>2 DEF Settled
<1>3. CASE e[2] = Entry \/ Before(out, e[2], e[1]) \/ Before(unit, e[2], e[1])
  BY <1>3 DEF Settled, Before
<1>4. QED
  BY <1>1, <1>2, <1>3 DEF Settled

\* A module that has been reached before is finished, unless it is the entry.
LEMMA ImportAgainStep ==
    ASSUME TypeInv, OnceInv, LoadInv, ImportAgain
    PROVE  LoadInv'
<1>1. /\ Importing /\ Target # None /\ ~OnStack /\ Target \in loaded /\ stack' = Next1
      /\ edges' = edges \cup {<<Top.file, Target>>}
      /\ UNCHANGED <<phase, content, loaded, active, out, unit, errors, parsed>>
  BY DEF ImportAgain, Resolved
<1>2. Grows
  BY <1>1 DEF Grows
<1>3. phase = "process" => edges' = edges
  BY <1>1, SecondWalkFinds DEF LoadInv
<1>4. PICK n : n = Len(stack)
  OBVIOUS
<1>5. /\ n \in Nat \ {0} /\ Len(stack') = n /\ Top = stack[n]
      /\ \A i \in 1..n : stack'[i].file = stack[i].file
  BY <1>1, <1>4, NextFacts DEF LoadInv
<1>6. PathInv'
  <2>1. \A e \in edges' : e[2] \in loaded'
    BY <1>1 DEF LoadInv, PathInv
  <2>2. QED
    BY <1>1, <1>2, <2>1, PathTook DEF LoadInv
<1>7. CycleInv'
  BY <1>1, <1>2, CycleKept DEF LoadInv, Grows
<1>8. ReachInv'
  <2>1. ASSUME NEW S \in SUBSET Files, Closed(S)'
        PROVE  Range(active) \cup Range(out) \cup Range(unit) \subseteq S
    <3>1. Closed(S)
      BY <1>2, <2>1, FewerClosed DEF Grows
    <3>2. QED
      BY <3>1 DEF LoadInv, ReachInv
  <2>2. phase' \in {"process", "done"} =>
            \A e \in edges' : e[2] = Entry \/ e[2] \in parsed'[Entry]
    <3>1. phase' \in {"process", "done"} => phase = "process"
      BY <1>1, WalkPhase DEF LoadInv
    <3>2. QED
      BY <1>1, <1>3, <3>1 DEF LoadInv, ReachInv
  <2>3. QED
    BY <1>1, <2>1, <2>2 DEF ReachInv
<1>9. CASE errors = {}
  <2>1. /\ \A i \in 1..n : \A k \in 1..Done(Next1[i]) : ImportedThen(stack[i].file, k)
        /\ phase = "preload" => \A k \in 1..Done(Next1[1]) :
              <<Entry, Resolve(Imports(Entry)[k], EntryDirs)>> \in edges'
    BY <1>1, <1>2, <1>4, <1>9, Progress
  <2>2. ResolvedInv'
    <3>1. ASSUME NEW i \in 1..Len(stack'), NEW k \in 1..Done(stack[i])'
          PROVE  Imported(stack[i].file, k)'
      <4>1. ImportedThen(stack[i].file, k)
        BY <1>1, <1>5, <2>1, <3>1 DEF Done, Imports
      <4>2. stack'[i].file = stack[i].file
        BY <1>5
      <4>3. QED
        BY <4>1, <4>2 DEF Imported, ImportedThen, Imports
    <3>2. ASSUME NEW f \in Range(out) \cup Range(unit),
                 NEW k \in 1..Len(Imports(f))
          PROVE  Imported(f, k)'
      <4>1. Imported(f, k) /\ f \in loaded
        BY <1>9, <3>2 DEF LoadInv, ResolvedInv, OnceInv
      <4>2. QED
        BY <1>2, <4>1, ImportedKept
    <3>3. \A f : Imports(f)' = Imports(f)
      BY <1>1 DEF Imports
    <3>4. loaded' = {Entry} \cup Range(active') \cup Range(out') \cup Range(unit')
      BY <1>1, <1>9 DEF LoadInv, ResolvedInv
    <3>5. QED
      BY <1>1, <3>1, <3>2, <3>3, <3>4 DEF ResolvedInv
  <2>3. NetInv'
    <3>1. CASE phase = "preload"
      BY <1>1, <2>1, <3>1 DEF NetInv, Done, Imports, EntryDirs
    <3>2. CASE phase # "preload"
      BY <1>1, <1>2, <3>2 DEF LoadInv, NetInv, Imports, EntryDirs, Grows
    <3>3. QED
      BY <3>1, <3>2
  <2>4. OrderInv'
    <3>1. ASSUME NEW e \in edges
          PROVE  Settled(e)'
      <4>1. Settled(e)
        BY <1>9 DEF LoadInv, OrderInv
      <4>2. Len(stack) \in Nat /\ Len(stack') \in Nat /\ Len(stack) <= Len(stack')
        BY <1>4, <1>5
      <4>3. QED
        BY <1>1, <1>4, <1>5, <4>1, <4>2, SettledKept
    <3>2. CASE phase = "process"
      BY <1>3, <3>1, <3>2 DEF OrderInv
    <3>3. CASE phase = "preload"
      <4>1. unit = <<>>
        BY <3>3 DEF OnceInv
      <4>2. Target = Entry \/ Target \in Range(out)
        BY <1>1, <1>9, <4>1, NothingOnce DEF LoadInv, ResolvedInv, OnStack
      <4>3. Top.file \in {Entry} \cup Range(active)
        <5>1. n \in 1..Len(stack)
          BY <1>4, <1>5
        <5>2. QED
          BY <1>5, <5>1, StackFacts DEF LoadInv
      <4>4. PICK e : e = <<Top.file, Target>>
        OBVIOUS
      <4>5. Settled(e)'
        BY <1>1, <4>2, <4>3, <4>4 DEF Settled
      <4>6. QED
        BY <1>1, <3>1, <4>4, <4>5 DEF OrderInv
    <3>4. QED
      BY <1>1, <3>2, <3>3, WalkPhase DEF LoadInv
  <2>5. QED
    BY <1>6, <1>7, <1>8, <2>2, <2>3, <2>4 DEF LoadInv
<1>10. CASE errors # {}
  <2>1. phase = "preload"
    BY <1>1, <1>10, WalkPhase DEF LoadInv, NetInv
  <2>2. ResolvedInv' /\ NetInv' /\ OrderInv'
    BY <1>1, <1>10, <2>1 DEF ResolvedInv, NetInv, OrderInv
  <2>3. QED
    BY <1>6, <1>7, <1>8, <2>2 DEF LoadInv
<1>11. QED
  BY <1>9, <1>10

\* A new module goes on the stack above its importer, with its own imports to do.
LEMMA ImportModuleStep ==
    ASSUME TypeInv, OnceInv, LoadInv, ImportModule
    PROVE  LoadInv'
<1>1. /\ Importing /\ Target # None /\ Target \notin loaded
      /\ edges' = edges \cup {<<Top.file, Target>>} /\ loaded' = loaded \cup {Target}
      /\ active' = Append(active, Target)
      /\ UNCHANGED <<phase, out, unit, errors>>
  BY DEF ImportModule, ReadFile, Resolved
<1>2. phase = "preload"
  BY <1>1, SecondWalkFinds, WalkPhase DEF LoadInv
<1>3. PICK c \in Sources :
         /\ content' = [content EXCEPT ![Target] = c]
         /\ stack' = Append(Next1, [file |-> Target, todo |-> c.imports,
                                    dirs |-> PathsBelow(Target, Top.dirs)])
  BY DEF ImportModule
<1>4. PICK walk : walk = [file |-> Target, todo |-> c.imports,
                          dirs |-> PathsBelow(Target, Top.dirs)]
  OBVIOUS
<1>5. /\ Target \in Files /\ Top \in Walks /\ Next1 \in Seq(Walks)
      /\ content \in [Files -> Sources \cup {None}]
  BY <1>1, ImportFacts DEF TypeInv, TypeOK
<1>6. /\ content'[Target] = c /\ c.imports \in Seq(Specs) /\ walk \in Walks
      /\ walk.file = Target /\ walk.todo = c.imports
  <2>1. content'[Target] = c
    BY <1>3, <1>5
  <2>2. c.imports \in Seq(Specs)
    BY LoaderAssumption
  <2>3. PathsBelow(Target, Top.dirs) \in Seq(Dirs)
    BY <1>5, PathsBelowType DEF Walks
  <2>4. QED
    BY <1>4, <1>5, <2>1, <2>2, <2>3 DEF Walks
<1>7. Grows
  BY <1>1, <1>3, <1>5 DEF Grows
<1>8. PICK n : n = Len(stack)
  OBVIOUS
<1>9. /\ n \in Nat \ {0} /\ Len(Next1) = n /\ Top = stack[n]
      /\ \A i \in 1..n : /\ Next1[i].file = stack[i].file
                         /\ Next1[i].dirs = stack[i].dirs
                         /\ Next1[i].file \in loaded
      /\ \A i \in 1..n : Remains(Next1[i])
  BY <1>1, <1>8, NextFacts, StackFacts DEF LoadInv
<1>10. /\ Len(stack') = n + 1 /\ stack'[n + 1] = walk
       /\ \A i \in 1..n : stack'[i] = Next1[i]
  BY <1>3, <1>4, <1>5, <1>6, <1>9, AppendProperties
<1>11. \A i \in 1..(n + 1) : i \in 1..n \/ i = n + 1
  BY <1>9
<1>12. Done(walk)' = 0 /\ Remains(walk)'
  <2>1. Len(c.imports) \in Nat
    BY <1>6, LenProperties
  <2>2. Done(walk)' = 0
    BY <1>6, <2>1 DEF Done, Imports
  <2>3. \A k \in 1..Len(c.imports) : c.imports[k] = c.imports[0 + k]
    OBVIOUS
  <2>4. QED
    BY <1>6, <2>2, <2>3 DEF Remains, Imports
<1>13. PathInv'
  <2>1. \A i \in 1..Len(stack') : Remains(stack[i])'
    <3>1. ASSUME NEW i \in 1..n
          PROVE  Remains(stack[i])'
      <4>1. PICK w : w = Next1[i]
        OBVIOUS
      <4>2. Remains(w)'
        BY <1>7, <1>9, <4>1, RemainsKept
      <4>3. QED
        BY <1>10, <4>1, <4>2
    <3>2. Remains(stack[n + 1])'
      <4>1. n' = n
        OBVIOUS
      <4>2. QED
        BY <1>10, <1>12, <4>1
    <3>3. QED
      BY <1>10, <1>11, <3>1, <3>2
  <2>2. ASSUME NEW i \in 1..(Len(stack') - 1)
        PROVE  <<stack'[i].file, stack'[i + 1].file>> \in edges'
    <3>1. i \in 1..n /\ Len(stack) = n
      BY <1>8, <1>9, <1>10, <2>2
    <3>2. CASE i = n
      BY <1>1, <1>6, <1>9, <1>10, <3>1, <3>2
    <3>3. CASE i # n
      <4>1. i \in 1..(Len(stack) - 1) /\ i + 1 \in 1..n
        BY <1>9, <3>1, <3>3
      <4>2. <<stack[i].file, stack[i + 1].file>> \in edges
        BY <4>1 DEF LoadInv, PathInv
      <4>3. QED
        BY <1>1, <1>9, <1>10, <3>1, <4>1, <4>2
    <3>4. QED
      BY <3>2, <3>3
  <2>3. \A e \in edges' : e[2] \in loaded'
    BY <1>1 DEF LoadInv, PathInv
  <2>4. stack'[1].file = Entry /\ stack'[1].dirs = EntryDirs /\ stack' # <<>>
    <3>1. stack # <<>> /\ 1 \in 1..n
      BY <1>1, <1>9 DEF Importing
    <3>2. stack[1].file = Entry /\ stack[1].dirs = EntryDirs
      BY <3>1 DEF LoadInv, PathInv
    <3>3. stack' # <<>>
      BY <1>9, <1>10, EmptySeq
    <3>4. QED
      BY <1>9, <1>10, <3>1, <3>2, <3>3
  <2>5. EntryDirs' = EntryDirs
    BY DEF EntryDirs
  <2>6. QED
    BY <1>1, <1>2, <2>1, <2>2, <2>3, <2>4, <2>5 DEF PathInv
<1>14. CycleInv'
  BY <1>1, <1>7, CycleKept DEF LoadInv, Grows
<1>15. active \in Seq(Files) /\ Range(active') = Range(active) \cup {Target}
  BY <1>1, <1>5, AppendOnce DEF TypeInv, TypeOK
<1>16. Top.file \in {Entry} \cup Range(active)
  <2>1. n \in 1..Len(stack)
    BY <1>8, <1>9
  <2>2. QED
    BY <1>9, <2>1, StackFacts DEF LoadInv
<1>17. ReachInv'
  <2>1. ASSUME NEW S \in SUBSET Files, Closed(S)'
        PROVE  Range(active') \cup Range(out) \cup Range(unit) \subseteq S
    <3>1. Closed(S)
      BY <1>7, <2>1, FewerClosed DEF Grows
    <3>2. Range(active) \cup Range(out) \cup Range(unit) \subseteq S /\ Entry \in S
      BY <3>1 DEF LoadInv, ReachInv, Closed
    <3>3. Top.file \in S
      BY <1>16, <3>2
    <3>4. PICK e \in edges' : e = <<Top.file, Target>>
      BY <1>1
    <3>5. Target \in S
      BY <2>1, <3>3, <3>4 DEF Closed
    <3>6. QED
      BY <1>15, <3>2, <3>5
  <2>2. QED
    BY <1>1, <1>2, <2>1 DEF ReachInv
<1>18. CASE errors = {}
  <2>1. /\ \A i \in 1..n : \A k \in 1..Done(Next1[i]) : ImportedThen(stack[i].file, k)
        /\ \A k \in 1..Done(Next1[1]) :
              <<Entry, Resolve(Imports(Entry)[k], EntryDirs)>> \in edges'
    BY <1>1, <1>2, <1>7, <1>8, <1>18, Progress
  <2>2. ASSUME NEW i \in 1..n
        PROVE  Done(stack[i])' = Done(Next1[i])
    <3>1. PICK w : w = Next1[i]
      OBVIOUS
    <3>2. Done(w)' = Done(w)
      BY <1>7, <1>9, <3>1, RemainsKept
    <3>3. QED
      BY <1>10, <3>1, <3>2
  <2>3. ResolvedInv'
    <3>1. ASSUME NEW i \in 1..Len(stack'), NEW k \in 1..Done(stack[i])'
          PROVE  Imported(stack[i].file, k)'
      <4>1. CASE i \in 1..n
        <5>1. ImportedThen(stack[i].file, k)
          BY <2>1, <2>2, <3>1, <4>1
        <5>2. stack'[i].file = stack[i].file
          BY <1>9, <1>10, <4>1
        <5>3. QED
          BY <5>1, <5>2 DEF Imported, ImportedThen, Imports
      <4>2. CASE i = n + 1
        <5>1. Done(stack[i])' = 0
          BY <1>10, <1>12, <4>2
        <5>2. QED
          BY <3>1, <5>1
      <4>3. QED
        BY <1>10, <1>11, <4>1, <4>2
    <3>2. ASSUME NEW f \in Range(out) \cup Range(unit)
          PROVE  \A k \in 1..Len(Imports(f))' : Imported(f, k)'
      <4>1. f \in loaded
        BY <3>2 DEF OnceInv
      <4>2. Imports(f)' = Imports(f)
        BY <1>7, <4>1 DEF Grows, Imports
      <4>3. \A k \in 1..Len(Imports(f)) : Imported(f, k)
        BY <1>18, <3>2 DEF LoadInv, ResolvedInv
      <4>4. QED
        BY <1>7, <4>1, <4>2, <4>3, ImportedKept
    <3>3. loaded' = {Entry} \cup Range(active') \cup Range(out') \cup Range(unit')
      BY <1>1, <1>15, <1>18 DEF LoadInv, ResolvedInv
    <3>4. QED
      BY <1>1, <3>1, <3>2, <3>3 DEF ResolvedInv
  <2>4. NetInv'
    <3>1. Done(stack[1])' = Done(Next1[1])
      BY <1>9, <2>2
    <3>2. Imports(Entry)' = Imports(Entry) /\ EntryDirs' = EntryDirs
      BY <1>7 DEF Grows, Imports, EntryDirs, TypeInv, EntryRead
    <3>3. \A k \in 1..Done(stack[1])' :
             <<Entry, Resolve(Imports(Entry)[k], EntryDirs)>> \in edges'
      BY <2>1, <3>1
    <3>4. QED
      BY <1>1, <1>2, <3>2, <3>3 DEF NetInv
  <2>5. OrderInv'
    <3>1. ASSUME NEW e \in edges
          PROVE  Settled(e)'
      <4>1. Settled(e)
        BY <1>18 DEF LoadInv, OrderInv
      <4>2. Len(stack) \in Nat /\ Len(stack') \in Nat /\ Len(stack) <= Len(stack')
        BY <1>8, <1>9, <1>10
      <4>3. \A i \in 1..Len(stack) : stack'[i].file = stack[i].file
        BY <1>8, <1>9, <1>10
      <4>4. QED
        BY <1>1, <1>15, <4>1, <4>2, <4>3, SettledKept
    <3>2. PICK e : e = <<Top.file, Target>>
      OBVIOUS
    <3>3. Settled(e)'
      <4>1. n \in 1..(Len(stack') - 1) /\ n \in 1..n
        BY <1>9, <1>10
      <4>2. e = <<stack'[n].file, stack'[n + 1].file>>
        BY <1>6, <1>9, <1>10, <3>2, <4>1
      <4>3. QED
        BY <4>1, <4>2 DEF Settled
    <3>4. QED
      BY <1>1, <3>1, <3>2, <3>3 DEF OrderInv
  <2>6. QED
    BY <1>13, <1>14, <1>17, <2>3, <2>4, <2>5 DEF LoadInv
<1>19. CASE errors # {}
  <2>1. ResolvedInv' /\ NetInv' /\ OrderInv'
    BY <1>1, <1>2, <1>19 DEF ResolvedInv, NetInv, OrderInv
  <2>2. QED
    BY <1>13, <1>14, <1>17, <2>1 DEF LoadInv
<1>20. QED
  BY <1>18, <1>19

\* Who stands before whom in a list that grows at its end.
LEMMA BeforeAppend ==
    ASSUME NEW S, NEW s \in Seq(S), NEW x \in S, NEW t, t = Append(s, x)
    PROVE  /\ \A g, f : Before(s, g, f) => Before(t, g, f)
           /\ \A g \in Range(s) : Before(t, g, x)
<1>1. PICK n \in Nat : /\ n = Len(s) /\ DOMAIN s = 1..n /\ DOMAIN t = 1..(n + 1)
                       /\ t[n + 1] = x /\ \A i \in 1..n : t[i] = s[i]
  BY AppendProperties, LenProperties
<1>2. ASSUME NEW g, NEW f, Before(s, g, f)
      PROVE  Before(t, g, f)
  <2>1. PICK i \in 1..n, j \in 1..n : i < j /\ s[i] = g /\ s[j] = f
    BY <1>1, <1>2 DEF Before
  <2>2. i \in DOMAIN t /\ j \in DOMAIN t
    BY <1>1
  <2>3. QED
    BY <1>1, <2>1, <2>2 DEF Before
<1>3. ASSUME NEW g \in Range(s)
      PROVE  Before(t, g, x)
  <2>1. PICK i \in 1..n : s[i] = g
    BY <1>1 DEF Range
  <2>2. i \in DOMAIN t /\ n + 1 \in DOMAIN t /\ i < n + 1
    BY <1>1
  <2>3. QED
    BY <1>1, <2>1, <2>2 DEF Before
<1>4. QED
  BY <1>2, <1>3

\* A module whose imports are all done goes behind them.
LEMMA FinishModuleStep ==
    ASSUME TypeInv, OnceInv, LoadInv, FinishModule
    PROVE  LoadInv'
<1>1. /\ Top.todo = <<>> /\ active' = Front(active) /\ out' = Append(out, Top.file)
      /\ stack' = Front(stack)
      /\ UNCHANGED <<phase, content, loaded, unit, errors, edges, parsed>>
  BY DEF FinishModule
<1>2. PICK n : n = Len(stack)
  OBVIOUS
<1>3. /\ n \in Nat /\ n > 1 /\ Len(active) = n - 1 /\ stack # <<>>
      /\ stack \in Seq(Walks) /\ active \in Seq(Files) /\ out \in Seq(Files)
      /\ DOMAIN active = 1..(n - 1)
      /\ \A i \in 1..(n - 1) : stack[i + 1].file = active[i]
  <2>1. n \in Nat /\ n > 1
    BY <1>2, LenProperties DEF FinishModule, TypeInv, TypeOK
  <2>2. stack # <<>>
    BY <1>2, <2>1, EmptySeq
  <2>3. Len(active) \in Nat /\ DOMAIN active = 1..Len(active)
    BY LenProperties DEF TypeInv, TypeOK
  <2>4. Len(active) = n - 1
    BY <1>2, <2>1, <2>2, <2>3 DEF TypeInv, TypeOK
  <2>5. QED
    BY <2>1, <2>2, <2>3, <2>4 DEF TypeInv, TypeOK
<1>4. PICK m \in Nat \ {0} : m = n - 1 /\ n = m + 1
  <2>1. n - 1 \in Nat \ {0} /\ n = (n - 1) + 1
    BY <1>3
  <2>2. QED
    BY <2>1
<1>5. phase = "preload"
  <2>1. active # <<>>
    BY <1>3, <1>4, EmptySeq
  <2>2. QED
    BY <1>3, <2>1 DEF LoadInv, PathInv, NetInv
<1>6. Len(stack') = m /\ \A i \in 1..m : stack'[i] = stack[i]
  <2>1. Len(stack) \in Nat \ {0}
    BY <1>2, <1>3
  <2>2. QED
    BY <1>1, <1>2, <1>3, <1>4, <2>1, FrontFacts
<1>7. PICK f : f = Top.file /\ f = active[m] /\ f = stack[n].file /\ f \in Files
  <2>1. m \in 1..(n - 1) /\ m \in 1..Len(active)
    BY <1>3, <1>4
  <2>2. stack[m + 1].file = active[m]
    BY <1>3, <2>1
  <2>3. active[m] \in Files
    BY <1>3, <2>1, ElementOfSeq
  <2>4. QED
    BY <1>2, <1>4, <2>2, <2>3 DEF Top
<1>8. Range(active') = Range(active) \ {f} /\ f \in Range(active)
  <2>1. Len(active) \in Nat \ {0} /\ IsInjective(active)
    BY <1>3, <1>4 DEF OnceInv
  <2>2. QED
    BY <1>1, <1>3, <1>4, <1>7, <2>1, FrontOnce
<1>9. Range(out') = Range(out) \cup {f}
  BY <1>1, <1>3, <1>7, AppendOnce
<1>10. PathInv'
  <2>1. 1 \in 1..m /\ Len(stack') # 0 /\ 1 \in 1..n
    BY <1>4, <1>6
  <2>2. \A i \in 1..m : i \in 1..n
    BY <1>4
  <2>3. \A i \in 1..(m - 1) : i \in 1..m /\ i + 1 \in 1..m /\ i \in 1..(n - 1)
    BY <1>4
  <2>4. \A i \in 1..m : Remains(stack[i])'
    <3>1. ASSUME NEW i \in 1..m
          PROVE  Remains(stack[i])'
      <4>1. PICK w : w = stack[i] /\ stack'[i] = w
        BY <1>6
      <4>2. Remains(w)
        BY <1>2, <2>2, <4>1 DEF LoadInv, PathInv
      <4>3. Remains(w)'
        BY <1>1, <4>2 DEF Remains, Done, Imports
      <4>4. QED
        BY <4>1, <4>3
    <3>2. QED
      BY <3>1
  <2>5. \A i \in 1..(m - 1) : <<stack'[i].file, stack'[i + 1].file>> \in edges'
    BY <1>1, <1>2, <1>6, <2>3 DEF LoadInv, PathInv
  <2>6. stack' # <<>> /\ stack'[1].file = Entry /\ stack'[1].dirs = EntryDirs
    BY <1>3, <1>6, <2>1, EmptySeq DEF LoadInv, PathInv
  <2>7. EntryDirs' = EntryDirs /\ \A e \in edges' : e[2] \in loaded'
    BY <1>1 DEF EntryDirs, LoadInv, PathInv
  <2>8. QED
    BY <1>1, <1>5, <1>6, <2>4, <2>5, <2>6, <2>7 DEF PathInv
<1>11. ReachInv'
  <2>1. ASSUME NEW S \in SUBSET Files, Closed(S)'
        PROVE  Range(active') \cup Range(out') \cup Range(unit) \subseteq S
    <3>1. Closed(S)
      BY <1>1, <2>1 DEF Closed
    <3>2. Range(active) \cup Range(out) \cup Range(unit) \subseteq S
      BY <3>1 DEF LoadInv, ReachInv
    <3>3. QED
      BY <1>8, <1>9, <3>2
  <2>2. QED
    BY <1>1, <1>5, <2>1 DEF ReachInv
<1>12. CycleInv'
  BY <1>1, CycleKept DEF LoadInv
<1>13. NetInv'
  <2>1. stack'[1] = stack[1]
    BY <1>4, <1>6
  <2>2. QED
    BY <1>1, <1>5, <2>1 DEF LoadInv, NetInv, Done, Imports, EntryDirs
<1>14. CASE errors = {}
  <2>1. ResolvedInv'
    <3>1. \A i \in 1..m : \A k \in 1..Done(stack[i]) : Imported(stack[i].file, k)
      BY <1>2, <1>4, <1>14 DEF LoadInv, ResolvedInv
    <3>2. ASSUME NEW i \in 1..m, NEW k \in 1..Done(stack[i])'
          PROVE  Imported(stack[i].file, k)'
      <4>1. PICK w : w = stack[i] /\ stack'[i] = w
        BY <1>6
      <4>2. Done(stack[i])' = Done(w)
        BY <1>1, <4>1 DEF Done, Imports
      <4>3. Imported(w.file, k)
        BY <3>1, <3>2, <4>1, <4>2
      <4>4. QED
        BY <1>1, <4>1, <4>3 DEF Imported, Imports
    <3>3. \A k \in 1..Len(Imports(f)) : Imported(f, k)
      <4>1. Done(stack[n]) = Len(Imports(f))
        <5>1. PICK l : l = Imports(f)
          OBVIOUS
        <5>2. n \in 1..Len(stack)
          BY <1>2, <1>3
        <5>3. Remains(stack[n])
          BY <5>2 DEF LoadInv, PathInv
        <5>4. content[f] \in Sources
          BY <1>7, <5>3 DEF Remains
        <5>5. Len(l) \in Nat
          BY <5>1, <5>4, LoaderAssumption, LenProperties DEF Imports
        <5>6. Len(stack[n].todo) = 0
          BY <1>1, <1>2 DEF Top
        <5>7. QED
          BY <1>7, <5>1, <5>5, <5>6 DEF Done
      <4>2. n \in 1..Len(stack)
        BY <1>2, <1>3
      <4>3. \A k \in 1..Done(stack[n]) : Imported(stack[n].file, k)
        BY <1>14, <4>2 DEF LoadInv, ResolvedInv
      <4>4. QED
        BY <1>7, <4>1, <4>3
    <3>4. \A g \in Range(out') \cup Range(unit') :
             \A k \in 1..Len(Imports(g)) : Imported(g, k)
      BY <1>1, <1>9, <1>14, <3>3 DEF LoadInv, ResolvedInv
    <3>5. \A g \in Range(out') \cup Range(unit') :
             \A k \in 1..Len(Imports(g))' : Imported(g, k)'
      BY <1>1, <3>4, ImportedSame
    <3>6. loaded' = {Entry} \cup Range(active') \cup Range(out') \cup Range(unit')
      BY <1>1, <1>8, <1>9, <1>14 DEF LoadInv, ResolvedInv
    <3>7. QED
      BY <1>6, <3>2, <3>5, <3>6 DEF ResolvedInv
  <2>2. OrderInv'
    <3>1. ASSUME NEW e \in edges
          PROVE  Settled(e)'
      <4>1. Settled(e)
        BY <1>14 DEF LoadInv, OrderInv
      <4>2. CASE e[2] = Entry \/ Before(unit, e[2], e[1])
        BY <1>1, <4>2 DEF Settled, Before
      <4>3. CASE Before(out, e[2], e[1])
        <5>1. \A g, h : Before(out, g, h) => Before(out', g, h)
          <6>1. PICK q \in Seq(Files) : q = out
            BY <1>3
          <6>2. PICK t : t = out' /\ t = Append(q, f)
            BY <1>1, <1>7, <6>1
          <6>3. \A g, h : Before(q, g, h) => Before(t, g, h)
            BY <1>7, <6>1, <6>2, BeforeAppend
          <6>4. QED
            BY <6>1, <6>2, <6>3
        <5>2. Before(out', e[2], e[1])
          BY <4>3, <5>1
        <5>3. QED
          BY <5>2 DEF Settled, Before
      <4>4. CASE e[2] \in Range(out) /\ e[1] \in {Entry} \cup Range(active)
        <5>1. CASE e[1] = f
          <6>1. Before(out', e[2], f)
            BY <1>1, <1>3, <1>7, <4>4, BeforeAppend
          <6>2. QED
            BY <5>1, <6>1 DEF Settled, Before
        <5>2. CASE e[1] # f
          BY <1>8, <1>9, <4>4, <5>2 DEF Settled
        <5>3. QED
          BY <5>1, <5>2
      <4>5. CASE \E i \in 1..(Len(stack) - 1) : e = <<stack[i].file, stack[i + 1].file>>
        <5>1. PICK i \in 1..m : e = <<stack[i].file, stack[i + 1].file>>
          BY <1>2, <1>4, <4>5
        <5>2. CASE i = m
          <6>1. e[2] = f
            BY <1>4, <1>7, <5>1, <5>2
          <6>2. e[1] \in {Entry} \cup Range(active')
            <7>1. CASE m = 1
              BY <1>3, <5>1, <5>2, <7>1 DEF LoadInv, PathInv
            <7>2. CASE m # 1
              <8>1. m - 1 \in 1..(n - 1) /\ (m - 1) + 1 = m /\ m \in 1..(n - 1) /\ m - 1 # m
                BY <1>4, <7>2
              <8>2. stack[m].file = active[m - 1]
                BY <1>3, <8>1
              <8>3. active[m - 1] \in Range(active)
                BY <1>3, <8>1 DEF Range
              <8>4. active[m - 1] # active[m]
                BY <1>3, <8>1 DEF OnceInv, IsInjective
              <8>5. QED
                BY <1>7, <1>8, <5>1, <5>2, <8>2, <8>3, <8>4
            <7>3. QED
              BY <7>1, <7>2
          <6>3. QED
            BY <1>9, <6>1, <6>2 DEF Settled
        <5>3. CASE i # m
          <6>1. i \in 1..(Len(stack') - 1) /\ i + 1 \in 1..m
            <7>1. i \in 1..(m - 1) /\ i + 1 \in 1..m
              BY <1>4, <5>3
            <7>2. QED
              BY <1>6, <7>1
          <6>2. e = <<stack'[i].file, stack'[i + 1].file>>
            BY <1>6, <5>1, <6>1
          <6>3. QED
            BY <6>1, <6>2 DEF Settled
        <5>4. QED
          BY <5>2, <5>3
      <4>6. QED
        BY <4>1, <4>2, <4>3, <4>4, <4>5 DEF Settled
    <3>2. QED
      BY <1>1, <3>1 DEF OrderInv
  <2>3. QED
    BY <1>10, <1>11, <1>12, <1>13, <2>1, <2>2 DEF LoadInv
<1>15. CASE errors # {}
  <2>1. ResolvedInv' /\ OrderInv'
    BY <1>1, <1>15 DEF ResolvedInv, OrderInv
  <2>2. QED
    BY <1>10, <1>11, <1>12, <1>13, <2>1 DEF LoadInv
<1>16. QED
  BY <1>14, <1>15

-------------------------------------------------------------------------------
(* The steps between the walks.                                             *)

\* A walk is over when only the entry's list is left, and it is empty.
LEMMA WalkOver ==
    ASSUME TypeInv, PathInv, Len(stack) = 1, Top.todo = <<>>, phase # "parse"
    PROVE  /\ active = <<>> /\ phase \in {"preload", "process"}
           /\ Done(stack[1]) = Len(Imports(Entry))
           /\ \A e : ~\E i \in 1..(Len(stack) - 1) : e = <<stack[i].file, stack[i + 1].file>>
<1>1. stack # <<>>
  BY EmptySeq DEF TypeInv, TypeOK
<1>2. active = <<>>
  BY <1>1, LenProperties, EmptySeq DEF TypeInv, TypeOK
<1>3. stack[1].file = Entry /\ stack[1].todo = <<>>
  BY <1>1 DEF PathInv, Top
<1>4. Len(Imports(Entry)) \in Nat
  <2>1. Imports(Entry) \in Seq(Specs)
    BY LoaderAssumption DEF Imports, TypeInv, EntryRead
  <2>2. QED
    BY <2>1, LenProperties
<1>5. Done(stack[1]) = Len(Imports(Entry))
  BY <1>3, <1>4 DEF Done
<1>6. 1..(Len(stack) - 1) = {}
  OBVIOUS
<1>7. QED
  BY <1>1, <1>2, <1>5, <1>6 DEF PathInv

LEMMA EndPreloadStep ==
    ASSUME TypeInv, OnceInv, LoadInv, EndPreload
    PROVE  LoadInv'
<1>1. /\ phase = "preload" /\ Len(stack) = 1 /\ Top.todo = <<>> /\ stack' = <<>>
      /\ phase' = IF errors = {} THEN "parse" ELSE "failed"
      /\ UNCHANGED <<content, loaded, active, out, unit, errors, edges, parsed>>
  BY DEF EndPreload
<1>2. /\ Done(stack[1]) = Len(Imports(Entry))
      /\ \A e : ~\E i \in 1..(Len(stack) - 1) : e = <<stack[i].file, stack[i + 1].file>>
  BY <1>1, WalkOver DEF LoadInv
<1>3. 1..Len(stack') = {} /\ 1..(Len(stack') - 1) = {}
  BY <1>1
<1>4. PathInv' /\ CycleInv' /\ ReachInv'
  BY <1>1, <1>3 DEF LoadInv, PathInv, CycleInv, ReachInv, Closed
<1>5. ResolvedInv'
  BY <1>1, <1>3, ResolvedSame DEF LoadInv
<1>6. NetInv'
  BY <1>1, <1>2 DEF LoadInv, NetInv, Imports, EntryDirs
<1>7. OrderInv'
  BY <1>1, <1>2 DEF LoadInv, OrderInv, Settled, Before
<1>8. QED
  BY <1>4, <1>5, <1>6, <1>7 DEF LoadInv

\* The entry's imports have been resolved, to files of their names.
LEMMA EntryImported ==
    ASSUME TypeInv, NetInv, errors = {}, phase # "preload"
    PROVE  \A k \in 1..Len(Imports(Entry)) : Imported(Entry, k)
<1> SUFFICES ASSUME NEW k \in 1..Len(Imports(Entry))
             PROVE  Imported(Entry, k)
  OBVIOUS
<1>1. PICK g : g = Resolve(Imports(Entry)[k], EntryDirs) /\ <<Entry, g>> \in edges
  BY DEF NetInv
<1>2. g \in Files /\ g # None
  BY <1>1, LoaderAssumption DEF TypeInv, TypeOK
<1>3. Imports(Entry)[k] \in Specs
  <2>1. Imports(Entry) \in Seq(Specs)
    BY LoaderAssumption DEF Imports, TypeInv, EntryRead
  <2>2. QED
    BY <2>1, LenProperties, ElementOfSeq
<1>4. EntryDirs \in Seq(Dirs)
  BY LoaderAssumption, PathsBelowType DEF EntryDirs
<1>5. \E d \in Dirs : At[d][Imports(Entry)[k]] = g
  BY <1>1, <1>2, <1>3, <1>4, ResolveFinds
<1>6. QED
  BY <1>1, <1>2, <1>5 DEF Imported

\* What has been loaded goes in front of the entry.
LEMMA ParseEntryStep ==
    ASSUME TypeInv, OnceInv, LoadInv, ParseEntry
    PROVE  LoadInv'
<1>1. /\ phase = "parse" /\ parsed' = [parsed EXCEPT ![Entry] = Range(out)]
      /\ UNCHANGED <<content, loaded, active, errors, edges>>
  BY DEF ParseEntry
<1>2. errors = {} /\ stack = <<>> /\ active = <<>> /\ unit = <<>>
  BY <1>1 DEF LoadInv, NetInv, OnceInv, TypeInv, TypeOK, EntryRead
<1>3. CycleInv'
  BY <1>1 DEF LoadInv, CycleInv
<1>4. CASE ~content[Entry].ok
  <2>1. phase' = "failed" /\ UNCHANGED <<stack, unit, out>>
    BY <1>4 DEF ParseEntry
  <2>2. 1..Len(stack') = {} /\ 1..(Len(stack') - 1) = {}
    BY <1>2, <2>1
  <2>3. PathInv' /\ ReachInv'
    BY <1>1, <1>2, <2>1, <2>2 DEF LoadInv, PathInv, ReachInv, Closed
  <2>4. ResolvedInv'
    BY <1>1, <2>1, <2>2, ResolvedSame DEF LoadInv
  <2>5. NetInv'
    BY <1>1, <2>1 DEF LoadInv, NetInv, Imports, EntryDirs
  <2>6. OrderInv'
    BY <1>1, <2>1, <2>2 DEF LoadInv, OrderInv, Settled, Before
  <2>7. QED
    BY <1>3, <2>3, <2>4, <2>5, <2>6 DEF LoadInv
<1>5. CASE content[Entry].ok
  <2>1. PICK w : w = Walk(Entry, EntryDirs)
    OBVIOUS
  <2>2. /\ phase' = "process" /\ unit' = Append(out, Entry) /\ out' = <<>>
        /\ stack' = <<w>>
    BY <1>5, <2>1 DEF ParseEntry, SecondWalk, EntryDirs
  <2>3. /\ w.file = Entry /\ w.dirs = EntryDirs /\ w.todo = Imports(Entry)
        /\ Imports(Entry) \in Seq(Specs) /\ content[Entry] \in Sources
    BY <2>1, LoaderAssumption DEF Walk, Imports, TypeInv, EntryRead
  <2>4. Done(w)' = 0 /\ Remains(w)'
    <3>1. PICK l : l = Imports(Entry) /\ Len(l) \in Nat
      BY <2>3, LenProperties
    <3>2. Imports(Entry)' = l /\ content'[Entry] \in Sources
      BY <1>1, <2>3, <3>1 DEF Imports
    <3>3. Done(w)' = 0
      BY <2>3, <3>1, <3>2 DEF Done
    <3>4. \A k \in 1..Len(l) : l[k] = l[0 + k]
      OBVIOUS
    <3>5. QED
      BY <2>3, <3>1, <3>2, <3>3, <3>4 DEF Remains
  <2>5. /\ Len(stack') = 1 /\ stack' # <<>> /\ stack'[1] = w
        /\ 1..(Len(stack') - 1) = {}
    BY <2>2
  <2>6. PathInv'
    <3>1. \A i \in 1..Len(stack') : i = 1
      BY <2>5
    <3>2. Remains(stack[1])'
      BY <2>4, <2>5
    <3>3. \A i \in 1..Len(stack') : Remains(stack[i])'
      BY <3>1, <3>2
    <3>4. EntryDirs' = EntryDirs /\ \A e \in edges' : e[2] \in loaded'
      BY <1>1 DEF EntryDirs, LoadInv, PathInv
    <3>5. QED
      BY <2>2, <2>3, <2>5, <3>3, <3>4 DEF PathInv
  <2>7. Range(unit') = Range(out) \cup {Entry} /\ Range(out') = {}
    BY <2>2, AppendOnce, NothingOnce, LoaderAssumption DEF TypeInv, TypeOK
  <2>8. Range(active) = {} /\ Range(unit) = {}
    BY <1>2, NothingOnce
  <2>9. ResolvedInv'
    <3>1. \A i \in 1..Len(stack') : \A k \in 1..Done(stack[i])' : FALSE
      <4>1. \A i \in 1..Len(stack') : i = 1
        BY <2>5
      <4>2. Done(stack[1])' = 0
        BY <2>4, <2>5
      <4>3. QED
        BY <4>1, <4>2
    <3>2. \A f \in Range(unit') :
             \A k \in 1..Len(Imports(f)) : Imported(f, k)
      <4>1. \A k \in 1..Len(Imports(Entry)) : Imported(Entry, k)
        BY <1>1, <1>2, EntryImported DEF LoadInv
      <4>2. QED
        BY <1>2, <2>7, <4>1 DEF LoadInv, ResolvedInv
    <3>3. \A f \in Range(unit') :
             \A k \in 1..Len(Imports(f))' : Imported(f, k)'
      BY <1>1, <3>2, ImportedSame
    <3>4. loaded' = {Entry} \cup Range(active') \cup Range(out') \cup Range(unit')
      BY <1>1, <1>2, <2>7, <2>8 DEF LoadInv, ResolvedInv
    <3>5. QED
      BY <2>7, <3>1, <3>3, <3>4 DEF ResolvedInv
  <2>10. NetInv'
    BY <1>1, <1>2, <2>2, <2>7 DEF LoadInv, NetInv, Imports, EntryDirs
  <2>11. OrderInv'
    <3>1. /\ \A g, h : Before(out, g, h) => Before(unit', g, h)
          /\ \A g \in Range(out) : Before(unit', g, Entry)
      <4>1. PICK q \in Seq(Files) : q = out
        BY DEF TypeInv, TypeOK
      <4>2. PICK t : t = unit' /\ t = Append(q, Entry)
        BY <2>2, <4>1
      <4>3. /\ \A g, h : Before(q, g, h) => Before(t, g, h)
            /\ \A g \in Range(q) : Before(t, g, Entry)
        BY <4>1, <4>2, BeforeAppend, LoaderAssumption
      <4>4. QED
        BY <4>1, <4>2, <4>3
    <3>2. ASSUME NEW e \in edges
          PROVE  e[2] = Entry \/ Before(unit', e[2], e[1])
      <4>1. Settled(e)
        BY <1>2 DEF LoadInv, OrderInv
      <4>2. ~Before(unit, e[2], e[1])
        BY <1>2 DEF Before
      <4>3. ~\E i \in 1..(Len(stack) - 1) : e = <<stack[i].file, stack[i + 1].file>>
        BY <1>2
      <4>4. QED
        BY <2>8, <3>1, <4>1, <4>2, <4>3 DEF Settled
    <3>3. \A e \in edges : e[2] = Entry \/ Before(unit, e[2], e[1])'
      BY <3>2 DEF Before
    <3>4. QED
      BY <1>1, <3>3 DEF OrderInv, Settled
  <2>12. ReachInv'
    <3>1. ASSUME NEW S \in SUBSET Files, Closed(S)'
          PROVE  Range(active') \cup Range(out') \cup Range(unit') \subseteq S
      <4>1. Closed(S)
        BY <1>1, <3>1 DEF Closed
      <4>2. Range(out) \subseteq S /\ Entry \in S
        BY <4>1 DEF LoadInv, ReachInv, Closed
      <4>3. QED
        BY <1>1, <2>7, <2>8, <4>2
    <3>2. \A e \in edges' : e[2] = Entry \/ e[2] \in parsed'[Entry]
      <4>1. parsed'[Entry] = Range(out)
        BY <1>1, LoaderAssumption DEF TypeInv, TypeOK
      <4>2. loaded = {Entry} \cup Range(out)
        BY <1>2, <2>8 DEF LoadInv, ResolvedInv
      <4>3. QED
        BY <1>1, <4>1, <4>2 DEF LoadInv, PathInv
    <3>3. QED
      BY <3>1, <3>2 DEF ReachInv
  <2>13. QED
    BY <1>3, <2>6, <2>9, <2>10, <2>11, <2>12 DEF LoadInv
<1>6. QED
  BY <1>4, <1>5

\* The second walk has nothing to add.
LEMMA EndProcessStep ==
    ASSUME TypeInv, OnceInv, LoadInv, EndProcess
    PROVE  LoadInv'
<1>1. /\ phase = "process" /\ Len(stack) = 1 /\ Top.todo = <<>> /\ stack' = <<>>
      /\ unit' = out \o unit /\ out' = <<>>
      /\ UNCHANGED <<content, loaded, active, errors, edges, parsed>>
  BY DEF EndProcess
<1>2. \A e : ~\E i \in 1..(Len(stack) - 1) : e = <<stack[i].file, stack[i + 1].file>>
  BY <1>1, WalkOver DEF LoadInv
<1>3. errors = {} /\ out = <<>> /\ phase' = "done"
  BY <1>1 DEF LoadInv, NetInv, EndProcess
<1>4. unit' = unit /\ out' = out
  BY <1>1, <1>3, ConcatEmptySeq DEF TypeInv, TypeOK
<1>5. 1..Len(stack') = {} /\ 1..(Len(stack') - 1) = {}
  BY <1>1
<1>6. PathInv' /\ CycleInv' /\ ReachInv'
  BY <1>1, <1>3, <1>4, <1>5 DEF LoadInv, PathInv, CycleInv, ReachInv, Closed
<1>7. ResolvedInv'
  BY <1>1, <1>4, <1>5, ResolvedSame DEF LoadInv
<1>8. NetInv'
  BY <1>1, <1>3, <1>4 DEF LoadInv, NetInv, Imports, EntryDirs
<1>9. OrderInv'
  BY <1>1, <1>2, <1>4 DEF LoadInv, OrderInv, Settled, Before
<1>10. QED
  BY <1>6, <1>7, <1>8, <1>9 DEF LoadInv

\* The driver starts with the entry's list before it.
LEMMA LoadInit == Init => LoadInv
<1> SUFFICES ASSUME Init PROVE LoadInv
  OBVIOUS
<1>1. TypeInv
  BY TypeInit
<1>2. PICK w : w = Walk(Entry, EntryDirs)
  OBVIOUS
<1>3. /\ phase = "preload" /\ stack = <<w>> /\ loaded = {Entry} /\ active = <<>>
      /\ out = <<>> /\ unit = <<>> /\ errors = {} /\ edges = {}
  BY <1>2 DEF Init, EntryDirs
<1>4. /\ w.file = Entry /\ w.dirs = EntryDirs /\ w.todo = Imports(Entry)
      /\ Imports(Entry) \in Seq(Specs) /\ content[Entry] \in Sources
  BY <1>1, <1>2, LoaderAssumption DEF Walk, Imports, TypeInv, EntryRead
<1>5. Done(w) = 0 /\ Remains(w)
  <2>1. PICK l : l = Imports(Entry) /\ Len(l) \in Nat
    BY <1>4, LenProperties
  <2>2. Done(w) = 0
    BY <1>4, <2>1 DEF Done
  <2>3. \A k \in 1..Len(l) : l[k] = l[0 + k]
    OBVIOUS
  <2>4. QED
    BY <1>4, <2>1, <2>2, <2>3 DEF Remains
<1>6. /\ Len(stack) = 1 /\ stack # <<>> /\ stack[1] = w
      /\ 1..(Len(stack) - 1) = {} /\ \A i \in 1..Len(stack) : i = 1
      /\ 1..Done(stack[1]) = {}
  BY <1>3, <1>5
<1>7. PathInv
  BY <1>3, <1>4, <1>5, <1>6 DEF PathInv
<1>8. ResolvedInv
  BY <1>3, <1>6, NothingOnce DEF ResolvedInv
<1>9. NetInv /\ OrderInv /\ ReachInv /\ CycleInv
  BY <1>3, <1>6, NothingOnce DEF NetInv, OrderInv, ReachInv, CycleInv
<1>10. QED
  BY <1>7, <1>8, <1>9 DEF LoadInv

LEMMA LoadStep == TypeInv /\ OnceInv /\ LoadInv /\ [Next]_vars => LoadInv'
<1> SUFFICES ASSUME TypeInv, OnceInv, LoadInv, [Next]_vars PROVE LoadInv'
  OBVIOUS
<1>1. CASE UNCHANGED vars
  <2>1. UNCHANGED <<phase, content, stack, loaded, active, out, unit, errors, edges, parsed>>
    BY <1>1 DEF vars
  <2>2. PathInv'
    <3>1. (\A i \in 1..Len(stack) : Remains(stack[i]))'
      BY <2>1 DEF LoadInv, PathInv, Remains, Done, Imports
    <3>2. QED
      BY <2>1, <3>1 DEF LoadInv, PathInv, EntryDirs
  <2>3. ResolvedInv'
    <3>1. \A i \in 1..Len(stack') : i \in 1..Len(stack) /\ stack'[i] = stack[i]
      BY <2>1
    <3>2. QED
      BY <2>1, <3>1, ResolvedSame DEF LoadInv
  <2>4. NetInv'
    BY <2>1 DEF LoadInv, NetInv, Done, Imports, EntryDirs
  <2>5. OrderInv'
    BY <2>1 DEF LoadInv, OrderInv, Settled, Before
  <2>6. ReachInv' /\ CycleInv'
    BY <2>1 DEF LoadInv, ReachInv, CycleInv, Closed
  <2>7. QED
    BY <2>2, <2>3, <2>4, <2>5, <2>6 DEF LoadInv
<1>2. QED
  BY <1>1, EndPreloadStep, ParseEntryStep, EndProcessStep, ImportNothingStep,
     ImportCycleStep, ImportAgainStep, ImportBrokenStep, ImportModuleStep,
     FinishModuleStep DEF Next

-------------------------------------------------------------------------------
(* What it means for the unit.                                              *)

\* Modules that stand behind all that they import are in no cycle.
LEMMA OrderedAcyclic ==
    ASSUME NEW s \in Seq(Files), IsInjective(s), NEW E,
           \A e \in E : Before(s, e[2], e[1])
    PROVE  Acyclic(E)
<1> SUFFICES ASSUME NEW S \in SUBSET Files, S # {}
             PROVE  \E f \in S : \A g \in S : <<f, g>> \notin E
  BY DEF Acyclic
<1>1. DOMAIN s \in SUBSET Nat
  BY LenProperties
<1>2. CASE \E f \in S : f \notin Range(s)
  <2>1. PICK f \in S : f \notin Range(s)
    BY <1>2
  <2>2. ASSUME NEW g \in S, <<f, g>> \in E
        PROVE  FALSE
    <3>1. PICK e \in E : e = <<f, g>>
      BY <2>2
    <3>2. Before(s, e[2], f)
      BY <3>1
    <3>3. QED
      BY <2>1, <3>2 DEF Before, Range
  <2>3. QED
    BY <2>2
<1>3. CASE S \subseteq Range(s)
  <2>1. PICK inside : inside = {i \in DOMAIN s : s[i] \in S}
    OBVIOUS
  <2>2. inside \in SUBSET Nat /\ inside # {}
    BY <1>1, <1>3, <2>1 DEF Range
  <2>3. PICK i \in inside : \A j \in inside : i <= j
    BY <2>2, FirstExists
  <2>4. ASSUME NEW g \in S, <<s[i], g>> \in E
        PROVE  FALSE
    <3>1. PICK e \in E : e = <<s[i], g>>
      BY <2>4
    <3>2. Before(s, g, s[i])
      BY <3>1
    <3>3. PICK k \in DOMAIN s, j \in DOMAIN s : k < j /\ s[k] = g /\ s[j] = s[i]
      BY <3>2 DEF Before
    <3>4. j = i /\ k \in inside
      BY <2>1, <3>3 DEF IsInjective
    <3>5. QED
      BY <2>2, <2>3, <3>3, <3>4
  <2>5. QED
    BY <2>1, <2>4
<1>4. QED
  BY <1>2, <1>3

\* Between and after the walks, nothing is on the stack and every edge is settled.
LEMMA AtRest ==
    ASSUME TypeInv, OnceInv, LoadInv, phase \in {"parse", "process", "done"}
    PROVE  /\ errors = {} /\ active = <<>>
           /\ \A e \in edges : e[2] # Entry =>
                 \/ Before(out, e[2], e[1]) \/ Before(unit, e[2], e[1])
                 \/ e[2] \in Range(out) /\ e[1] = Entry
<1>1. errors = {}
  BY DEF LoadInv, NetInv
<1>2. active = <<>>
  <2>1. phase # "process" => stack = <<>>
    BY DEF LoadInv, PathInv
  <2>2. QED
    BY <2>1 DEF LoadInv, NetInv, TypeInv, TypeOK
<1>3. 1..(Len(stack) - 1) = {}
  <2>1. CASE stack = <<>>
    BY <2>1
  <2>2. CASE stack # <<>>
    <3>1. Len(active) = 0 /\ Len(stack) = Len(active) + 1
      BY <1>2, <2>2 DEF TypeInv, TypeOK
    <3>2. QED
      BY <3>1
  <2>3. QED
    BY <2>1, <2>2
<1>4. Range(active) = {}
  BY <1>2, NothingOnce
<1>5. QED
  BY <1>1, <1>2, <1>3, <1>4 DEF LoadInv, OrderInv, Settled

\* What is marked has been read, whatever it held.
ReadInv == \A f \in loaded : content[f] \in Sources

LEMMA ReadStep == TypeInv /\ ReadInv /\ [Next]_vars => ReadInv'
<1> SUFFICES ASSUME TypeInv, ReadInv, [Next]_vars PROVE ReadInv'
  OBVIOUS
<1>1. CASE ImportBroken \/ ImportModule
  <2>1. Importing /\ Target # None /\ loaded' = loaded \cup {Target}
    BY <1>1 DEF ImportBroken, ImportModule, ReadFile
  <2>2. PICK c \in Sources : content' = [content EXCEPT ![Target] = c]
    BY <1>1 DEF ImportBroken, ImportModule
  <2>3. Target \in Files /\ content \in [Files -> Sources \cup {None}]
    BY <2>1, ImportFacts DEF TypeInv, TypeOK
  <2>4. QED
    BY <2>1, <2>2, <2>3 DEF ReadInv
<1>2. CASE ~(ImportBroken \/ ImportModule)
  <2>1. content' = content /\ loaded' = loaded
    BY <1>2 DEF Next, EndPreload, ParseEntry, EndProcess, ImportNothing, ImportCycle,
                ImportAgain, FinishModule, vars
  <2>2. QED
    BY <2>1 DEF ReadInv
<1>3. QED
  BY <1>1, <1>2

LoaderInv == TypeInv /\ OnceInv /\ LoadInv /\ ReadInv

LEMMA LoaderInvHolds == Spec => []LoaderInv
<1>1. Init => LoaderInv
  <2>1. Init => ReadInv
    BY TypeInit DEF Init, TypeInv, EntryRead, ReadInv
  <2>2. QED
    BY <2>1, TypeInit, OnceInit, LoadInit DEF LoaderInv
<1>2. LoaderInv /\ [Next]_vars => LoaderInv'
  BY TypeStep, OnceStep, LoadStep, ReadStep DEF LoaderInv
<1>3. QED
  BY <1>1, <1>2, PTL DEF Spec

\* "Imports before importers": whatever the import graph is and in whatever order
\* it is walked, a module's declarations stand in the unit behind those of all that
\* it imports, but for the entry.
THEOREM ImportsBeforeImporters == Spec => []DependencyOrder
<1>1. LoaderInv => DependencyOrder
  <2>1. ASSUME LoaderInv, phase = "done", NEW e \in edges, e[2] # Entry
        PROVE  Before(unit, e[2], e[1])
    <3>1. TypeInv /\ OnceInv /\ LoadInv
      BY <2>1 DEF LoaderInv
    <3>2. \/ Before(out, e[2], e[1]) \/ Before(unit, e[2], e[1])
          \/ e[2] \in Range(out) /\ e[1] = Entry
      BY <2>1, <3>1, AtRest
    <3>3. out = <<>>
      BY <2>1, <3>1 DEF LoadInv, NetInv
    <3>4. QED
      BY <3>2, <3>3 DEF Before, Range
  <2>2. QED
    BY <2>1 DEF DependencyOrder, Before
<1>2. QED
  BY <1>1, LoaderInvHolds, PTL

\* The second walk over the entry's imports, the safety net, finds nothing that the
\* first has not loaded, and nothing to complain about.
THEOREM SecondWalkIsIdle == Spec => []SafetyNetIdle
<1>1. LoaderInv => SafetyNetIdle
  BY DEF LoaderInv, LoadInv, NetInv, SafetyNetIdle
<1>2. QED
  BY <1>1, LoaderInvHolds, PTL

\* A compilation that goes on has no cycle of imports among its modules, although
\* every module is looked at once only, and each cycle that was reported is one.
THEOREM CyclesAreReported == Spec => []CyclesReported
<1>1. LoaderInv => CyclesReported
  <2> SUFFICES ASSUME LoaderInv PROVE CyclesReported
    OBVIOUS
  <2>1. TypeInv /\ OnceInv /\ LoadInv
    BY DEF LoaderInv
  <2>2. ASSUME phase \in {"parse", "process", "done"}
        PROVE  Acyclic({e \in edges : Entry \notin {e[1], e[2]}})
    <3>1. PICK E : E = {e \in edges : Entry \notin {e[1], e[2]}}
      OBVIOUS
    <3>2. \A e \in E : Before(out, e[2], e[1]) \/ Before(unit, e[2], e[1])
      BY <2>1, <2>2, <3>1, AtRest
    <3>3. /\ out \in Seq(Files) /\ unit \in Seq(Files)
          /\ IsInjective(out) /\ IsInjective(unit)
      BY <2>1 DEF TypeInv, TypeOK, OnceInv
    <3>4. CASE phase = "parse"
      <4>1. \A e \in E : ~Before(unit, e[2], e[1])
        BY <2>1, <3>4 DEF OnceInv, Before
      <4>2. QED
        BY <3>1, <3>2, <3>3, <4>1, OrderedAcyclic
    <3>5. CASE phase # "parse"
      <4>1. out = <<>>
        BY <2>1, <2>2, <3>5 DEF LoadInv, NetInv
      <4>2. \A e \in E : ~Before(out, e[2], e[1])
        BY <4>1 DEF Before
      <4>3. QED
        BY <3>1, <3>2, <3>3, <4>2, OrderedAcyclic
    <3>6. QED
      BY <3>4, <3>5
  <2>3. QED
    BY <2>1, <2>2 DEF LoadInv, CycleInv, CyclesReported
<1>2. QED
  BY <1>1, LoaderInvHolds, PTL

\* A compilation that goes on has every module that is imported, directly or not, as
\* the file that the specifier names, and no other; and the entry was parsed with the
\* types of all of them.
THEOREM LoadingIsComplete == Spec => []Complete
<1>1. LoaderInv => Complete
  <2> SUFFICES ASSUME LoaderInv, phase = "done" PROVE Complete
    BY DEF Complete
  <2>1. TypeInv /\ OnceInv /\ LoadInv
    BY DEF LoaderInv
  <2>2. errors = {} /\ active = <<>> /\ out = <<>> /\ Entry \in Range(unit)
    BY <2>1, AtRest DEF LoadInv, NetInv
  <2>3. loaded = Range(unit)
    BY <2>1, <2>2, NothingOnce DEF LoadInv, ResolvedInv
  <2>4. ASSUME NEW f \in Range(unit), NEW i \in DOMAIN content[f].imports
        PROVE  \E g \in Range(unit) :
                  /\ <<f, g>> \in edges
                  /\ \E d \in Dirs : At[d][content[f].imports[i]] = g
    <3>1. content[f] \in Sources
      BY <2>3, <2>4 DEF LoaderInv, ReadInv
    <3>2. i \in 1..Len(Imports(f))
      BY <2>4, <3>1, LoaderAssumption, LenProperties DEF Imports
    <3>3. Imported(f, i)
      BY <2>1, <2>2, <3>2 DEF LoadInv, ResolvedInv
    <3>4. PICK g \in Files :
             <<f, g>> \in edges /\ \E d \in Dirs : At[d][content[f].imports[i]] = g
      BY <3>3 DEF Imported, Imports
    <3>5. g \in loaded
      <4>1. PICK e \in edges : e = <<f, g>>
        BY <3>4
      <4>2. e[2] \in loaded
        BY <2>1 DEF LoadInv, PathInv
      <4>3. QED
        BY <4>1, <4>2
    <3>6. QED
      BY <2>3, <3>4, <3>5
  <2>5. ASSUME NEW S \in SUBSET Files, Entry \in S,
               \A e \in edges : e[1] \in S => e[2] \in S
        PROVE  Range(unit) \subseteq S
    BY <2>1, <2>5 DEF LoadInv, ReachInv, Closed
  <2>6. \A e \in edges : e[2] = Entry \/ e[2] \in parsed[Entry]
    BY <2>1 DEF LoadInv, ReachInv
  <2>7. QED
    BY <2>4, <2>5, <2>6 DEF Complete
<1>2. QED
  BY <1>1, LoaderInvHolds, PTL
===============================================================================
