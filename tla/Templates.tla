------------------------------ MODULE Templates ------------------------------
(***************************************************************************)
(* Instantiation of templates: sema/TemplateRegistry.cpp (the table of     *)
(* instances), sema/TemplateInstantiator.cpp (the copy of a body with its  *)
(* parameter replaced) and the parts of sema/SemanticAnalyzer.cpp that     *)
(* ask for instances, analyse them, and drain the queue of the rest.       *)
(*                                                                         *)
(* The three call one another recursively; ctl is that recursion, one      *)
(* frame per call in progress, and ret what the last call returned.        *)
(*                                                                         *)
(* A type is the sequence of its constructors from the outside in: with    *)
(* one parameter per template, A<B<int32>*> is <<"A", "*", "B", "int">>.   *)
(* A type that could not be made ends in "null".                           *)
(***************************************************************************)
EXTENDS Naturals, SequencesExt

CONSTANTS
    Structs,        \* names of class templates,
    Aliases,        \*   of alias templates,
    Functions,      \*   and of function templates
    TextOrder,      \* the order in which the templates stand in the unit
    Programs,       \* the programs: what each template's body uses
    UsePaths,       \* the types named in code that is no template, without "int"
    MaxDepth,       \* kMaxDepth (64)
    MaxUseDepth,    \* kMaxTemplateUseDepth (64)
    MaxUses,        \* bound: uses outside of templates
    MaxCalls        \* bound: calls of function templates, one inside the other

Templates == Structs \cup Aliases \cup Functions
Paths     == Seq(Templates \cup {"*"})
Plain     == <<"int">>
Null      == <<"null">>

\* What a body uses: the type path<leaf> of a field or local variable, or a call
\* f<path<leaf>>(...); v tells apart the types of the call's arguments.
Items == [k : {"type"}, path : Paths, leaf : {"T", "int"}]
         \cup [k : {"call"}, f : Functions, path : Paths, leaf : {"T", "int"}, v : {1, 2}]

\* Fields stand before methods; an alias template is one type.
ASSUME TemplatesAssumption ==
    /\ Structs \cap Aliases = {} /\ Structs \cap Functions = {} /\ Aliases \cap Functions = {}
    /\ {"*", "int", "null"} \cap Templates = {}
    /\ TextOrder \in Seq(Templates)
    /\ \A p \in Programs :
          /\ p \in [Templates -> Seq(Items)]
          /\ \A t \in Structs : \A i, j \in DOMAIN p[t] :
                p[t][i].k = "call" /\ i < j => p[t][j].k = "call"
          /\ \A t \in Aliases : Len(p[t]) = 1 /\ p[t][1].k = "type"
    /\ \A u \in UsePaths : u \in Paths /\ \E i \in DOMAIN u : u[i] # "*"
    /\ MaxDepth \in Nat \ {0} /\ MaxUseDepth \in Nat \ {0} /\ MaxUses \in Nat
    /\ MaxCalls \in Nat \ {0}

VARIABLES
    body,           \* the templates of the program
    phase,          \* of analyze: unit, drain, end
    uses,           \* uses outside of templates so far
    inNamespace,    \* whether namespacePrefix is set
    ctl, ret,       \* the recursion, and the result of the last call
    \* TemplateRegistry
    registered,     \* m_templates
    states,         \* m_states
    decl,           \* m_done: the copies of bodies, as their items after rewriting
    pending,        \* m_pending
    failures,       \* m_errors, as kinds
    depth,          \* m_depth
    \* SemanticAnalyzer
    visited,        \* m_visitedInstances
    useDepth,       \* m_useDepth
    aliasCache,     \* m_aliasCache
    complete,       \* class instances whose type is complete
    scoped,         \* function instances whose name got the namespace's prefix
    defined,        \* definedFunctions
    errors,         \* the diagnostics, as kinds
    emitted,        \* the instances appended to the translation unit
    analysed        \* history: the instances visit was called for

regVars  == <<states, decl, pending, failures, depth>>
semaVars == <<visited, useDepth, aliasCache, complete, scoped, defined, errors, analysed>>
unitVars == <<body, phase, uses, inNamespace, registered, emitted>>
vars     == <<unitVars, ctl, ret, regVars, semaVars>>

-------------------------------------------------------------------------------
(* Types, instances and frames.                                             *)

\* The pointers a type begins with, and what stands behind them.
Outer(path) == LET i == SelectInSeq(path, LAMBDA c : c # "*")
               IN IF i = 0 THEN path ELSE SubSeq(path, 1, i - 1)
Named(path) == SubSeq(path, Len(Outer(path)) + 1, Len(path))

\* instanceName; the key of a function's instance adds the types of the arguments.
Key(name, v)  == [name |-> name, v |-> v]
TemplateOf(k) == Head(k.name)
LeafOf(item, key) == IF item.leaf = "T" THEN Tail(key.name) ELSE Plain

\* The name a declaration has in the symbol table.
NameOf(key) == [t |-> key.name, ns |-> key \in scoped]

\* instanceName leaves a missing argument out, and without one there is no $ in
\* the name, by which ensureInstanceVisited knows an instance.
IsInstance(t) == Head(t) \in Structs
HasDollar(t)  == Tail(t) # Null

Frame(k, path, leaf, key) == [k |-> k, at |-> "enter", path |-> path, leaf |-> leaf,
                              key |-> key, i |-> 1, items |-> <<>>]
Use(path)           == Frame("use", path, Plain, Key(Plain, 0))
Resolve(path, leaf) == Frame("resolve", path, leaf, Key(Plain, 0))
Clone(key)          == Frame("clone", <<>>, Plain, key)
Visit(key)          == Frame("visit", <<>>, Plain, key)
Call(key)           == Frame("call", <<>>, Plain, key)

Top        == Last(ctl)
In(k, at)  == ctl # <<>> /\ Top.k = k /\ Top.at = at
At(at)     == [Top EXCEPT !.at = at]
With(f)    == Append(Front(ctl), f)

Return(t)   == ctl' = Front(ctl) /\ ret' = t
Continue(f) == ctl' = With(f) /\ UNCHANGED ret
Enter(f, g) == ctl' = Append(With(f), g) /\ UNCHANGED ret

\* A type without a template in it is made at once, another one by g.
Evaluate(f, path, leaf, g) ==
    IF Named(path) = <<>> THEN ctl' = With(f) /\ ret' = path \o leaf ELSE Enter(f, g)

-------------------------------------------------------------------------------
(* TemplateRegistry::instantiateByKey, with m_depth at d: an instance is there, *)
(* is refused, or is copied now.                                            *)

Status(key) == IF key \in DOMAIN states THEN states[key] ELSE "none"

Refusal(key, d) ==
    IF Status(key) = "instantiating" THEN {"recursive"}
    ELSE IF d >= MaxDepth THEN {"depth"} ELSE {}

Instantiate(key, d, made, refused) ==
    /\ UNCHANGED <<decl, pending>>
    /\ \/ Status(key) = "done"
          /\ Continue(made) /\ depth' = d /\ UNCHANGED <<states, failures>>
       \/ Status(key) # "done" /\ Refusal(key, d) # {}
          /\ Continue(refused) /\ depth' = d
          /\ failures' = failures \cup Refusal(key, d) /\ UNCHANGED states
       \/ Status(key) # "done" /\ Refusal(key, d) = {}
          /\ Enter(made, Clone(key)) /\ depth' = d + 1
          /\ states' = [k \in DOMAIN states \cup {key} |->
                           IF k = key THEN "instantiating" ELSE states[k]]
          /\ UNCHANGED failures

-------------------------------------------------------------------------------
(* TemplateInstantiator::cloneDecl: the items of a body one after the other. *)

Body == body[TemplateOf(Top.key)]

CloneItem ==
    /\ In("clone", "enter") /\ Top.i <= Len(Body)
    /\ LET item == Body[Top.i]
           leaf == LeafOf(item, Top.key)
       IN Evaluate(At("item"), item.path, leaf, Resolve(item.path, leaf))
    /\ UNCHANGED <<unitVars, regVars, semaVars>>

CloneNext ==
    /\ In("clone", "item")
    /\ LET item == Body[Top.i]
           copy == IF item.k = "type" THEN [k |-> "type", t |-> ret]
                   ELSE [k |-> "call", key |-> Key(<<item.f>> \o ret, item.v)]
       IN Continue([At("enter") EXCEPT !.i = Top.i + 1, !.items = Append(Top.items, copy)])
    /\ UNCHANGED <<unitVars, regVars, semaVars>>

\* Mutant: the instance stays marked as in progress.
CloneStaysOpen ==
    /\ In("clone", "enter") /\ Top.i > Len(Body)
    /\ Return(ret)
    /\ depth' = depth - 1
    /\ decl' = [k \in DOMAIN decl \cup {Top.key} |-> IF k = Top.key THEN Top.items ELSE decl[k]]
    /\ pending' = Append(pending, Top.key)
    /\ UNCHANGED <<unitVars, states, failures, semaVars>>

CloneEnd ==
    /\ In("clone", "enter") /\ Top.i > Len(Body)
    /\ Return(ret)
    /\ depth' = depth - 1
    /\ states' = [states EXCEPT ![Top.key] = "done"]
    /\ decl' = [k \in DOMAIN decl \cup {Top.key} |-> IF k = Top.key THEN Top.items ELSE decl[k]]
    /\ pending' = Append(pending, Top.key)
    /\ UNCHANGED <<unitVars, failures, semaVars>>

-------------------------------------------------------------------------------
(* TemplateRegistry::resolveInstance, for a type in a body that is copied.   *)

ResolveEnter ==
    /\ In("resolve", "enter")
    /\ LET arg == Tail(Named(Top.path)) IN
       IF depth >= MaxDepth
       THEN /\ failures' = failures \cup {"depth"}
            /\ Continue(At("refused")) /\ UNCHANGED depth
       ELSE /\ depth' = depth + 1 /\ UNCHANGED failures
            /\ Evaluate(At("args"), arg, Top.leaf, Resolve(arg, Top.leaf))
    /\ UNCHANGED <<unitVars, states, decl, pending, semaVars>>

\* Only a class template has instances; for an alias or an unknown name there
\* is no type and no entry in m_errors.
ResolveArgs ==
    /\ In("resolve", "args")
    /\ LET name == <<Head(Named(Top.path))>> \o ret IN
       IF Head(name) \in registered \cap Structs
       THEN Instantiate(Key(name, 0), depth - 1,
                        [At("made") EXCEPT !.key = Key(name, 0)], At("refused"))
       ELSE /\ Continue(At("refused")) /\ depth' = depth - 1
            /\ UNCHANGED <<states, decl, pending, failures>>
    /\ UNCHANGED <<unitVars, semaVars>>

\* Mutant: a type that is refused is replaced by its argument.
ResolveDropsTemplate ==
    /\ \/ In("resolve", "made") /\ Return(Outer(Top.path) \o Top.key.name)
       \/ In("resolve", "refused") /\ Return(Outer(Top.path) \o Top.leaf)
    /\ UNCHANGED <<unitVars, regVars, semaVars>>

ResolveEnd ==
    /\ \/ In("resolve", "made") /\ Return(Outer(Top.path) \o Top.key.name)
       \/ In("resolve", "refused") /\ Return(Outer(Top.path) \o Null)
    /\ UNCHANGED <<unitVars, regVars, semaVars>>

-------------------------------------------------------------------------------
(* SemanticAnalyzer::visit for the declaration of an instance.               *)

StartVisit(f, key) ==
    /\ visited' = visited \cup {NameOf(key)}
    /\ analysed' = Append(analysed, key)
    /\ Enter(f, Visit(key))

\* Mutant: an instance that was copied for another one is left to the queue.
LeftToQueue(t, f) == Continue(f) /\ UNCHANGED <<visited, analysed>>

\* ensureInstanceVisited, for the type itself but not for what it points to.
EnsureVisited(t, f) ==
    IF IsInstance(t) /\ HasDollar(t) /\ Key(t, 0) \in DOMAIN decl /\ NameOf(Key(t, 0)) \notin visited
    THEN StartVisit(f, Key(t, 0))
    ELSE Continue(f) /\ UNCHANGED <<visited, analysed>>

Copy         == decl[Top.key]
IsFunction   == TemplateOf(Top.key) \in Functions
NextItem     == [Top EXCEPT !.i = Top.i + 1]
ItemIs(k)    == Top.i <= Len(Copy) /\ Copy[Top.i].k = k

\* visitStructDeclImpl: fields first, then the type is complete, then methods.
VisitField ==
    /\ In("visit", "enter") /\ ~IsFunction /\ ItemIs("type")
    /\ EnsureVisited(Copy[Top.i].t, NextItem)
    /\ UNCHANGED <<unitVars, regVars, useDepth, aliasCache, complete, scoped, defined, errors>>

CompleteStruct ==
    /\ In("visit", "enter") /\ ~IsFunction /\ ~ItemIs("type")
    /\ Continue(At("body"))
    /\ complete' = complete \cup {Top.key.name}
    /\ UNCHANGED <<unitVars, regVars, visited, useDepth, aliasCache, scoped, defined, errors,
                   analysed>>

\* visit(FunctionDeclAST&): tryAnalyzeTemplateCall makes the scope global but
\* leaves the namespace's prefix, and scopedName puts it before the name.
DeclareFunction ==
    /\ In("visit", "enter") /\ IsFunction
    /\ Continue(At("body"))
    /\ scoped' = IF inNamespace THEN scoped \cup {Top.key} ELSE scoped
    /\ LET name == NameOf(Top.key)' IN
       /\ errors' = IF name \in defined THEN errors \cup {"redefinition"} ELSE errors
       /\ defined' = defined \cup {name}
    /\ UNCHANGED <<unitVars, regVars, visited, useDepth, aliasCache, complete, analysed>>

\* Mutant: the loop over the statements stays where it is.
SameLocalAgain ==
    /\ In("visit", "body") /\ ItemIs("type")
    /\ Continue(Top)
    /\ UNCHANGED <<unitVars, regVars, semaVars>>

\* A local variable's type is taken as it is.
VisitLocal ==
    /\ In("visit", "body") /\ ItemIs("type")
    /\ Continue(NextItem)
    /\ UNCHANGED <<unitVars, regVars, semaVars>>

\* Nothing limits the calls but the bound: m_depth counts copies in progress, and
\* that of the caller has ended.
CallsInProgress == {i \in DOMAIN ctl : ctl[i].k = "call"}
VisitCall ==
    /\ In("visit", "body") /\ ItemIs("call")
    /\ Cardinality(CallsInProgress) < MaxCalls
    /\ Enter(NextItem, Call(Copy[Top.i].key))
    /\ UNCHANGED <<unitVars, regVars, semaVars>>

VisitEnd ==
    /\ In("visit", "body") /\ Top.i > Len(Copy)
    /\ Return(ret)
    /\ UNCHANGED <<unitVars, regVars, semaVars>>

-------------------------------------------------------------------------------
(* tryAnalyzeTemplateCall. Two calls with one explicit argument and different *)
(* types of the others have two keys, and two copies, under one name.        *)

CallEnter ==
    /\ In("call", "enter")
    /\ IF TemplateOf(Top.key) \in registered
       THEN Instantiate(Top.key, depth, At("made"), At("refused"))
       ELSE Continue(At("refused")) /\ UNCHANGED regVars
    /\ UNCHANGED <<unitVars, semaVars>>

CallMade ==
    /\ In("call", "made")
    /\ IF [t |-> Top.key.name, ns |-> FALSE] \in visited
       THEN Continue(At("out")) /\ UNCHANGED <<visited, analysed>>
       ELSE StartVisit(At("out"), Top.key)
    /\ UNCHANGED <<unitVars, regVars, useDepth, aliasCache, complete, scoped, defined, errors>>

\* The call then goes the way of any other, by the name of the instance.
Found(t) == \E ns \in {FALSE, inNamespace} : [t |-> t, ns |-> ns] \in defined

CallEnd ==
    /\ In("call", "out") \/ In("call", "refused")
    /\ Return(Plain)
    /\ errors' = IF Top.at = "out" /\ Found(Top.key.name) THEN errors
                 ELSE errors \cup {"unknown function"}
    /\ UNCHANGED <<unitVars, regVars, visited, useDepth, aliasCache, complete, scoped, defined,
                   analysed>>

-------------------------------------------------------------------------------
(* resolveTypeInstance, for a type outside of templates: arguments inside out. *)

Result(at, t) == [At(at) EXCEPT !.leaf = t]

UseEnter ==
    /\ In("use", "enter")
    /\ LET arg == Tail(Named(Top.path)) IN
       IF useDepth >= MaxUseDepth
       THEN /\ errors' = errors \cup {"depth"}
            /\ Return(Outer(Top.path) \o Null) /\ UNCHANGED useDepth
       ELSE /\ useDepth' = useDepth + 1 /\ UNCHANGED errors
            /\ Evaluate(At("args"), arg, Plain, Use(arg))
    /\ UNCHANGED <<unitVars, regVars, visited, aliasCache, complete, scoped, defined, analysed>>

UseAlias ==
    /\ In("use", "args")
    /\ LET name == <<Head(Named(Top.path))>> \o ret
           item == body[Head(name)][1]
           leaf == LeafOf(item, Key(name, 0))
       IN /\ Head(name) \in registered \cap Aliases
          /\ IF name \in DOMAIN aliasCache
             THEN Continue(Result("out", aliasCache[name]))
             ELSE Evaluate([At("alias") EXCEPT !.key = Key(name, 0)],
                           item.path, leaf, Resolve(item.path, leaf))
    /\ UNCHANGED <<unitVars, regVars, semaVars>>

UseExpanded ==
    /\ In("use", "alias")
    /\ aliasCache' = [n \in DOMAIN aliasCache \cup {Top.key.name} |->
                         IF n = Top.key.name THEN ret ELSE aliasCache[n]]
    /\ EnsureVisited(ret, Result("out", ret))
    /\ UNCHANGED <<unitVars, regVars, useDepth, complete, scoped, defined, errors>>

UseClass ==
    /\ In("use", "args")
    /\ LET name == <<Head(Named(Top.path))>> \o ret IN
       /\ Head(name) \notin registered \cap Aliases
       /\ IF Head(name) \in registered \cap Structs
          THEN Instantiate(Key(name, 0), depth, Result("made", name), At("refused"))
          ELSE Continue(At("refused")) /\ UNCHANGED regVars
    /\ UNCHANGED <<unitVars, semaVars>>

UseMade ==
    /\ In("use", "made")
    /\ LET key == Key(Top.leaf, 0) IN
       IF NameOf(key) \in visited
       THEN Continue(At("out")) /\ UNCHANGED <<visited, analysed>>
       ELSE StartVisit(At("out"), key)
    /\ UNCHANGED <<unitVars, regVars, useDepth, aliasCache, complete, scoped, defined, errors>>

\* Mutant: the counter goes down on the successful way out only.
UseEndKeepsDepth ==
    /\ \/ In("use", "out") /\ Return(Outer(Top.path) \o Top.leaf)
          /\ useDepth' = useDepth - 1 /\ UNCHANGED errors
       \/ In("use", "refused") /\ Return(Outer(Top.path) \o Null)
          /\ errors' = errors \cup {"cannot instantiate"} /\ UNCHANGED useDepth
    /\ UNCHANGED <<unitVars, regVars, visited, aliasCache, complete, scoped, defined, analysed>>

UseEnd ==
    /\ \/ In("use", "out") /\ Return(Outer(Top.path) \o Top.leaf) /\ UNCHANGED errors
       \/ In("use", "refused") /\ Return(Outer(Top.path) \o Null)
          /\ errors' = errors \cup {"cannot instantiate"}
    /\ useDepth' = useDepth - 1
    /\ UNCHANGED <<unitVars, regVars, visited, aliasCache, complete, scoped, defined, analysed>>

-------------------------------------------------------------------------------
(* SemanticAnalyzer::analyze: the unit in the order of its text, then the queue. *)

Init ==
    /\ body \in Programs
    /\ phase = "unit" /\ uses = 0 /\ inNamespace = FALSE
    /\ ctl = <<>> /\ ret = Plain
    /\ registered = {} /\ emitted = <<>>
    /\ states = <<>> /\ decl = <<>> /\ pending = <<>> /\ failures = {} /\ depth = 0
    /\ visited = {} /\ useDepth = 0 /\ aliasCache = <<>> /\ complete = {}
    /\ scoped = {} /\ defined = {} /\ errors = {} /\ analysed = <<>>

RegisterTemplate ==
    /\ ctl = <<>> /\ phase = "unit"
    /\ \E i \in DOMAIN TextOrder :
          /\ registered = {TextOrder[j] : j \in 1..(i - 1)}
          /\ registered' = registered \cup {TextOrder[i]}
    /\ UNCHANGED <<body, phase, uses, inNamespace, emitted, ctl, ret, regVars, semaVars>>

\* A declaration or statement outside of templates, in a namespace or not, names
\* a type, or calls a function template.
AnalyseCode(ns) ==
    /\ ctl = <<>> /\ phase = "unit" /\ uses < MaxUses
    /\ uses' = uses + 1
    /\ inNamespace' = ns
    /\ UNCHANGED <<body, phase, registered, emitted, ret, regVars, semaVars>>

UseType(path, ns)      == AnalyseCode(ns) /\ ctl' = <<Use(path)>>
CallFunction(f, v, ns) == AnalyseCode(ns) /\ ctl' = <<Call(Key(<<f>> \o Plain, v))>>

EndOfUnit ==
    /\ ctl = <<>> /\ phase = "unit"
    /\ phase' = "drain" /\ inNamespace' = FALSE
    /\ UNCHANGED <<body, uses, registered, emitted, ctl, ret, regVars, semaVars>>

\* Mutant: every instance of the queue is analysed.
DrainAnalysesAll ==
    /\ ctl = <<>> /\ phase = "drain" /\ pending # <<>>
    /\ emitted' = Append(emitted, Head(pending))
    /\ visited' = visited \cup {NameOf(Head(pending))}
    /\ analysed' = Append(analysed, Head(pending))
    /\ ctl' = <<Visit(Head(pending))>>
    /\ pending' = Tail(pending)
    /\ UNCHANGED <<body, phase, uses, inNamespace, registered, ret, states, decl, failures, depth,
                   useDepth, aliasCache, complete, scoped, defined, errors>>

\* Mutant: the queue is emptied from its end.
DrainLast ==
    /\ ctl = <<>> /\ phase = "drain" /\ pending # <<>>
    /\ LET key == Last(pending) IN
       /\ emitted' = Append(emitted, key)
       /\ IF NameOf(key) \in visited
          THEN UNCHANGED <<visited, analysed, ctl>>
          ELSE /\ visited' = visited \cup {NameOf(key)}
               /\ analysed' = Append(analysed, key)
               /\ ctl' = <<Visit(key)>>
    /\ pending' = Front(pending)
    /\ UNCHANGED <<body, phase, uses, inNamespace, registered, ret, states, decl, failures, depth,
                   useDepth, aliasCache, complete, scoped, defined, errors>>

DrainNext ==
    /\ ctl = <<>> /\ phase = "drain" /\ pending # <<>>
    /\ LET key == Head(pending) IN
       /\ emitted' = Append(emitted, key)
       /\ IF NameOf(key) \in visited
          THEN UNCHANGED <<visited, analysed, ctl>>
          ELSE /\ visited' = visited \cup {NameOf(key)}
               /\ analysed' = Append(analysed, key)
               /\ ctl' = <<Visit(key)>>
    /\ pending' = Tail(pending)
    /\ UNCHANGED <<body, phase, uses, inNamespace, registered, ret, states, decl, failures, depth,
                   useDepth, aliasCache, complete, scoped, defined, errors>>

EndOfDrain ==
    /\ ctl = <<>> /\ phase = "drain" /\ pending = <<>>
    /\ phase' = "end"
    /\ UNCHANGED <<body, uses, inNamespace, registered, emitted, ctl, ret, regVars, semaVars>>

Analyse ==
    \/ VisitField \/ CompleteStruct \/ DeclareFunction \/ VisitLocal \/ VisitCall \/ VisitEnd
    \/ CallEnter \/ CallMade \/ CallEnd
    \/ UseEnter \/ UseAlias \/ UseExpanded \/ UseClass \/ UseMade \/ UseEnd

Instantiation ==
    \/ CloneItem \/ CloneNext \/ CloneEnd
    \/ ResolveEnter \/ ResolveArgs \/ ResolveEnd

Unit ==
    \/ RegisterTemplate
    \/ \E path \in UsePaths, ns \in BOOLEAN : UseType(path, ns)
    \/ \E f \in Functions, v \in {1, 2}, ns \in BOOLEAN : CallFunction(f, v, ns)
    \/ EndOfUnit \/ DrainNext \/ EndOfDrain

Next == Analyse \/ Instantiation \/ Unit

\* One thread runs the analysis to its end.
Spec == Init /\ [][Next]_vars /\ WF_vars(Next)

-------------------------------------------------------------------------------
(* Properties.                                                              *)

\* The calls in progress that have incremented m_depth, and m_useDepth.
Deep(f) == f.k = "clone" \/ (f.k = "resolve" /\ f.at = "args")
Used(f) == f.k = "use" /\ f.at # "enter"

\* The counters and states that guard the recursion follow it: m_depth and
\* m_useDepth count the calls in progress that have incremented them, an instance
\* is Instantiating exactly while its body is copied, and every Done one has a
\* declaration (TemplateRegistry.cpp:83-132,189-248; SemanticAnalyzer.cpp:8619-8633).
TypeOK ==
    /\ depth = Cardinality({i \in DOMAIN ctl : Deep(ctl[i])})
    /\ useDepth = Cardinality({i \in DOMAIN ctl : Used(ctl[i])})
    /\ depth <= MaxDepth /\ useDepth <= MaxUseDepth
    /\ \A k \in DOMAIN states :
          states[k] = IF \E i \in DOMAIN ctl : ctl[i].k = "clone" /\ ctl[i].key = k
                      THEN "instantiating" ELSE "done"
    /\ DOMAIN decl = {k \in DOMAIN states : states[k] = "done"}
    /\ ToSet(pending) \cup ToSet(emitted) = DOMAIN decl

\* No instance is analysed twice, neither from two uses, nor from a use and the
\* queue, nor as two copies under one name -- unless a namespace's prefix has
\* changed its name in between (m_visitedInstances, SemanticAnalyzer.cpp:8717-8719).
AnalysedOnce ==
    \A i, j \in DOMAIN analysed :
        i < j /\ analysed[i].name = analysed[j].name
            => scoped \cap {analysed[i], analysed[j]} # {}

\* What code generation meets first under a name has been analysed, and a class is
\* complete: the copies that m_visitedInstances keeps from being analysed come
\* after the one that was (SemanticAnalyzer.cpp:8560-8579, Decl.cpp:1380).
EmittedIsAnalysed ==
    phase = "end" =>
        \A i \in DOMAIN emitted :
            LET key == emitted[i] IN
            /\ \/ key \in ToSet(analysed)
               \/ \E j \in 1..(i - 1) : emitted[j].name = key.name /\ emitted[j] \in ToSet(analysed)
               \/ \E k \in scoped : k.name = key.name
            /\ IsInstance(key.name) => key.name \in complete

\* When a class instance is complete, so are the instances its fields contain by
\* value (ensureInstanceVisited, SemanticAnalyzer.cpp:7587-7591), and the type of a
\* declaration outside of templates is complete when it has been analysed, also
\* when it was named by an alias or was first made as part of another instance
\* (resolveTypeInstanceUse, SemanticAnalyzer.cpp:8680-8727): every layout is known.
LayoutsKnown ==
    /\ \A key \in DOMAIN decl : key.name \in complete =>
           \A i \in DOMAIN decl[key] :
               LET item == decl[key][i] IN
               item.k = "type" /\ IsInstance(item.t) /\ HasDollar(item.t) => item.t \in complete
    /\ phase = "unit" /\ ctl = <<>> /\ IsInstance(ret) /\ HasDollar(ret) => ret \in complete

Mentions(t) == UNION {ToSet(body[t][i].path) : i \in DOMAIN body[t]}

\* "recursive instantiation" is recorded only for a program in which some class
\* templates lead back to themselves: nesting one instance as the argument of
\* another, or meeting one on two ways, is no recursion (TemplateRegistry.cpp:92-96).
RecursionIsReal ==
    "recursive" \in failures =>
        \E S \in (SUBSET Structs) \ {{}} : \A t \in S : Mentions(t) \cap S # {}

\* What could not be instantiated can be seen: by a diagnostic or, as the registry's
\* own errors are read by no one, by a type missing from a declaration or an alias
\* (TemplateRegistry.cpp:94,98,195; TemplateRegistry.h:58).
FailuresShow ==
    ctl = <<>> /\ failures # {} =>
        \/ errors # {}
        \/ \E n \in DOMAIN aliasCache : Last(aliasCache[n]) = "null"
        \/ \E k \in DOMAIN decl : \E i \in DOMAIN decl[k] :
              LET item == decl[k][i]
              IN Last(IF item.k = "type" THEN item.t ELSE item.key.name) = "null"

\* The analysis ends, whatever the templates make of one another, unless function
\* templates call one another in a circle with larger and larger arguments: then it
\* is at the bound (tryAnalyzeTemplateCall, SemanticAnalyzer.cpp:4738).
Endless ==
    /\ Cardinality(CallsInProgress) = MaxCalls
    /\ \E i, j \in CallsInProgress :
          /\ TemplateOf(ctl[i].key) = TemplateOf(ctl[j].key)
          /\ Len(ctl[i].key.name) < Len(ctl[j].key.name)
Terminates == <>[](phase = "end" \/ Endless)

=============================================================================
