----------------------------- MODULE DefiniteInit -----------------------------
(***************************************************************************)
(* The flow analyses of SemanticAnalyzer.cpp on one function body:         *)
(* definite assignment (W3001: initWalkStmt, initWalkExpr, initRead) and   *)
(* unreachable code (W3003: stmtAlwaysTransfers, visit(CompoundStmtAST)),  *)
(* next to what the body can really do.                                    *)
(*                                                                         *)
(* As in ScopeCodegen the statement tree is not an input: each step visits *)
(* a statement some program could have there, and the behaviours are the   *)
(* analyses of all functions of at most MaxStmts statements.  ctl is the   *)
(* recursion of the walk.  Beside the analysis we collect what executions  *)
(* are in when they come to the point of the walk: `reach` is the set of   *)
(* their states, a state being the set of declarations that have received  *)
(* a value.  No state in reach means that the point cannot be reached.     *)
(* Conditions are not interpreted.  A loop body is passed once: a later    *)
(* iteration is a path that another execution takes in its first, with no  *)
(* more declarations initialised.                                          *)
(*                                                                         *)
(* Expressions are those the analysis tells apart: at most three accesses  *)
(* to local variables, in order, or under &&, or under ?:.  An operator    *)
(* that stands just before the definition it varies and is not used is a   *)
(* plausible mistake in that code, caught by one of the properties.        *)
(***************************************************************************)
EXTENDS Naturals, Sequences, FiniteSets, SequencesExt

CONSTANTS
    Names,        \* names of variables
    Exprs,        \* the expressions of programs,
    Tests,        \* and those of their conditions, increments and returns
    MaxStmts,     \* bound: statements visited
    MaxDepth      \* bound: depth of the statement tree

VARIABLES
    ctl,          \* the statements being walked, outermost first
    scopes,       \* what the names of each open scope mean: a declaration, or 0
    visited,      \* statements visited; also numbers the declarations
    \* definite assignment
    locals,       \* initLocals: names declared anywhere in the body, parameters
    state,        \* the names the analysis takes to be assigned here
    warned,       \* initWarned: the names reported
    \* what executions do
    reach,        \* the states of the executions that come here
    uninit,       \* names some execution has read without a value
    \* where the analysis departs from the executions by construction
    named,        \* names that have meant something: declared, assigned, parameter
    blind,        \* names whose assignments it may overestimate
    coarse        \* names whose assignments it may underestimate, and those it
                  \* has taken to be read where nothing reads them

progVars == <<ctl, scopes, visited, locals>>
flowVars == <<state, warned, reach, uninit, named, blind, coarse>>
vars     == <<progVars, flowVars>>

Top     == ctl[Len(ctl)]
Unbound == [x \in Names |-> 0]

-------------------------------------------------------------------------------
(* Expressions.  An access reads a value, then stores one; `exposes` is a   *)
(* store the analysis assumes (address taken, one member or element set)    *)
(* and that may leave the variable without a value; `unseen` is a read in a *)
(* place initWalkExpr does not visit: the index of an assigned element, a   *)
(* lambda, inline assembly, a compound literal.  `touches` is what          *)
(* initWalkExpr takes for a read and is none, since an address is passed.   *)

Access == [reads : SUBSET Names, writes : SUBSET Names, exposes : SUBSET Names,
           unseen : SUBSET Names, touches : SUBSET Names]
Acc(r, w, e, u) ==
    [reads |-> r, writes |-> w, exposes |-> e, unseen |-> u, touches |-> {}]

Nothing      == Acc({}, {}, {}, {})
Read(x)      == Acc({x}, {}, {}, {})
Assign(x)    == Acc({}, {x}, {}, {})     \* x = literal
Update(x)    == Acc({x}, {x}, {}, {})    \* x += .., ++x, x--, x = x + ..
AddressOf(x) == Acc({}, {}, {x}, {})     \* &x
SetPart(x)   == Acc({}, {}, {x}, {})     \* x.m = .., x[0] = ..
IndexOf(x)   == Acc({}, {}, {}, {x})     \* a[x] = ..
Receiver(x)  == [Nothing EXCEPT !.touches = {x}]    \* x.f(), f(x) of an array, &x.m

\* "then": test, left.  "and": test && left.  "ternary": test ? left : right.
Expr == {e \in [kind : {"then", "and", "ternary"},
                test : Access, left : Access, right : Access] :
            e.kind # "ternary" => e.right = Nothing}

ASSUME ConstantsAssumption ==
    MaxStmts \in Nat /\ MaxDepth \in Nat /\ Exprs \subseteq Expr /\ Tests \subseteq Expr

Written(a) == a.writes \cup a.exposes
Assigned(e) == Written(e.test) \cup Written(e.left) \cup Written(e.right)

-------------------------------------------------------------------------------
(* The analysis of an expression in state s.                                *)

\* initWalkExpr: the state after e.  A binary operator walks both operands.
Walked(e, s) ==
    LET s1 == s \cup Written(e.test)
    IN  IF e.kind = "ternary"
        THEN (s1 \cup Written(e.left)) \cap (s1 \cup Written(e.right))
        ELSE s1 \cup Written(e.left)

\* initRead on every variable e seems to read: those the analysis knows no value of.
SeenIn(a) == a.reads \cup a.touches
SuspectAtOnce(e, s) ==
    locals \cap ((SeenIn(e.test) \cup SeenIn(e.left) \cup SeenIn(e.right)) \ s)
Suspect(e, s) ==
    locals \cap (   (SeenIn(e.test) \ s)
                 \cup ((SeenIn(e.left) \cup SeenIn(e.right))
                           \ (s \cup Written(e.test))))

-------------------------------------------------------------------------------
(* The executions.                                                          *)

\* Scope::lookup; 0 is a parameter or a global, which has a value.
Resolve(x) ==
    LET S == {i \in DOMAIN scopes : scopes[i][x] # 0}
    IN  IF S = {} THEN 0 ELSE scopes[CHOOSE i \in S : \A j \in S : j <= i][x]

HasValue(x, p) == Resolve(x) = 0 \/ <<x, Resolve(x)>> \in p

\* State p after the accesses a.
After(a, p) ==
    p \cup {<<x, Resolve(x)>> : x \in {y \in a.writes : Resolve(y) # 0}}

\* The states after e of an execution that comes to it in p.
Runs(e, p) ==
    LET p1 == After(e.test, p)
    IN  CASE e.kind = "then"    -> {After(e.left, p1)}
          [] e.kind = "and"     -> {p1, After(e.left, p1)}
          [] e.kind = "ternary" -> {After(e.left, p1), After(e.right, p1)}

\* What it reads on the way that has no value.
Missing(a, p) == {x \in a.reads \cup a.unseen : ~HasValue(x, p)}
BadReads(e, p) ==
    LET p1 == After(e.test, p)
    IN  Missing(e.test, p) \cup Missing(e.left, p1) \cup Missing(e.right, p1)

\* Names whose state e may overestimate or whose reads in e it does not see.
Doubtful(a) == a.exposes \cup a.unseen
Unsure(e) == Doubtful(e.test) \cup Doubtful(e.left) \cup Doubtful(e.right)
                 \cup (IF e.kind = "and" THEN e.left.writes ELSE {})

\* Names reported although they mean a global here, or have only been touched.
Touched(e) == e.test.touches \cup e.left.touches \cup e.right.touches
Unfounded(e) == {x \in Suspect(e, state) : Resolve(x) = 0 \/ x \in Touched(e)}

\* The executions in P evaluate e.
Outcomes(e, P) == UNION {Runs(e, p) : p \in P}

\* Expression e is walked, and evaluated by the executions in P.  Names in B
\* have assignments before e that some executions have jumped over.
Evaluate(e, P, B) ==
    /\ warned' = warned \cup Suspect(e, state)
    /\ uninit' = uninit \cup UNION {BadReads(e, p) : p \in P}
    /\ named'  = named \cup Assigned(e)
    /\ blind'  = blind \cup Unsure(e) \cup B

Here(e) ==
    /\ Evaluate(e, reach, {})
    /\ state' = Walked(e, state)
    /\ reach' = Outcomes(e, reach)
    /\ coarse' = coarse \cup Unfounded(e)

-------------------------------------------------------------------------------
(* Frames of the walk.  state and paths are what the frame saved: the state *)
(* of the analysis and of the executions that resume later (at the else, or *)
(* after the statement).  exits and conts are executions that break to the  *)
(* end of the statement or continue to its condition.  last is              *)
(* stmtAlwaysTransfers of the child just visited; over is `terminated` of a *)
(* block, and in an else-frame stmtAlwaysTransfers of the then-branch; in a *)
(* switch it says that a default label was seen.                            *)

Loops == {"while", "do", "for"}
Kinds == {"block", "if", "else", "switch"} \cup Loops
Frame(k, phase, s, P) ==
    [k |-> k, phase |-> phase, state |-> s, paths |-> P,
     exits |-> {}, conts |-> {}, last |-> FALSE, over |-> FALSE]

\* The innermost frame of c has had a child visited; t: it always transfers.
Complete(c, t) ==
    LET i == Len(c)
    IN  CASE c[i].k = "block" ->
                 [c EXCEPT ![i].last = t, ![i].over = @ \/ t]
          [] c[i].k = "switch" -> c
          [] OTHER ->
                 [c EXCEPT ![i].last = t,
                           ![i].phase = IF @ = "init" THEN "cond" ELSE "after"]

Push(k, phase, s, P) ==
    Len(ctl) < MaxDepth /\ ctl' = Append(ctl, Frame(k, phase, s, P))
Finish(t) == ctl' = Complete(Front(ctl), t)
OpenScope == scopes' = Append(scopes, Unbound)
LeaveOpen == UNCHANGED scopes
CloseScope == scopes' = Front(scopes)

\* A statement is visited next.
Visit ==
    /\ visited < MaxStmts
    /\ visited' = visited + 1
    /\ UNCHANGED locals

Statement  == Visit /\ (Top.k = "block" \/ Top.phase = "body")
InnerSteps == UNCHANGED <<visited, locals>>

-------------------------------------------------------------------------------
(* The statements.                                                          *)

\* checkInitialization: some of the body's local names are its parameters.
Init ==
    /\ ctl = <<Frame("block", "body", {}, {})>>
    /\ scopes = <<Unbound>>
    /\ visited = 0
    /\ locals \in SUBSET Names
    /\ state \in SUBSET locals
    /\ warned = {}
    /\ reach = {{}}
    /\ uninit = {}
    /\ named = state
    /\ blind = {}
    /\ coarse = {}

NoFlow == UNCHANGED <<warned, uninit, named>>

OpenBlock ==
    /\ Statement
    /\ Push("block", "body", {}, {})
    /\ OpenScope
    /\ UNCHANGED flowVars

\* The state at the end of a case is dropped, the executions fall through.
CloseBlock ==
    /\ Len(ctl) > 1
    /\ Top.k = "block"
    /\ LET parent == ctl[Len(ctl) - 1]
       IN  state' = IF parent.k = "switch" THEN parent.state ELSE state
    /\ Finish(Top.last)
    /\ CloseScope
    /\ InnerSteps
    /\ NoFlow
    /\ UNCHANGED <<reach, blind, coarse>>

\* Where a declaration or an expression statement may stand.
Simple == Visit /\ (Top.k = "block" \/ Top.phase \in {"body", "init"})

ExprStmt ==
    \E e \in Exprs :
        /\ Simple
        /\ Here(e)
        /\ ctl' = Complete(ctl, FALSE)
        /\ UNCHANGED scopes

\* A local variable; the evaluation of an initialiser is an ExprStmt before it.
\* A bare declaration says nothing, whatever the name has meant before.
Declare ==
    \E x \in locals, initialised \in BOOLEAN :
        /\ Simple
        /\ scopes[Len(scopes)][x] = 0
        /\ scopes' = [scopes EXCEPT ![Len(scopes)][x] = visited']
        /\ state' = IF initialised THEN state \cup {x} ELSE state
        /\ reach' = IF initialised THEN {p \cup {<<x, visited'>>} : p \in reach}
                                  ELSE reach
        /\ ctl' = Complete(ctl, FALSE)
        /\ named' = named \cup {x}
        /\ blind' = IF x \in named THEN blind \cup {x} ELSE blind
        /\ UNCHANGED <<warned, uninit, coarse>>

\* DeferStmtAST: not visited by the walk; it does not end `terminated`.
DeferStmt ==
    /\ Visit
    /\ Top.k = "block"
    /\ UNCHANGED <<ctl, scopes, flowVars>>

ReturnStmt ==
    \E e \in Tests :
        /\ Statement
        /\ Evaluate(e, reach, {})
        /\ state' = Walked(e, state)
        /\ reach' = {}
        /\ coarse' = Names
        /\ ctl' = Complete(ctl, TRUE)
        /\ UNCHANGED scopes

\* The innermost statement of one of the kinds K.
Innermost(K) ==
    CHOOSE i \in DOMAIN ctl :
        /\ ctl[i].k \in K
        /\ \A j \in DOMAIN ctl : ctl[j].k \in K => j <= i

Jump == /\ Statement
        /\ reach' = {}
        /\ coarse' = Names
        /\ NoFlow
        /\ UNCHANGED <<scopes, state, blind>>

BreakStmt ==
    /\ Jump
    /\ \E i \in DOMAIN ctl : ctl[i].k \in Loops \cup {"switch"}
    /\ ctl' = Complete([ctl EXCEPT ![Innermost(Loops \cup {"switch"})].exits =
                                      @ \cup reach], TRUE)

ContinueStmt ==
    /\ Jump
    /\ \E i \in DOMAIN ctl : ctl[i].k \in Loops
    /\ ctl' = Complete([ctl EXCEPT ![Innermost(Loops)].conts = @ \cup reach], TRUE)

-------------------------------------------------------------------------------
(* Statements with a condition.                                             *)

\* One that evaluates e and may go on without its body.
Test(k, e) ==
    /\ Statement
    /\ Here(e)
    /\ Push(k, "body", state', reach')
    /\ UNCHANGED scopes

IfStmt    == \E e \in Tests : Test("if", e)
WhileStmt == \E e \in Tests : Test("while", e)

ElseBranch ==
    /\ Top.k = "if" /\ Top.phase = "after"
    /\ ctl' = Append(Front(ctl),
                [Frame("else", "body", state, reach) EXCEPT !.over = Top.last])
    /\ state' = Top.state
    /\ reach' = Top.paths
    /\ InnerSteps
    /\ NoFlow
    /\ UNCHANGED <<scopes, blind, coarse>>

\* The join of two paths: the names assigned on both.
OnEitherPath == state \cup Top.state
Joined == state \cap Top.state

\* stmtAlwaysTransfers of an if: both branches are there and always transfer.
SomeBranchTransfers == Top.last
BothTransfer == Top.k = "else" /\ Top.over /\ Top.last

EndIf ==
    /\ Top.k \in {"if", "else"} /\ Top.phase = "after"
    /\ state' = Joined
    /\ reach' = reach \cup Top.paths
    /\ Finish(BothTransfer)
    /\ InnerSteps
    /\ NoFlow
    /\ UNCHANGED <<scopes, blind, coarse>>

\* The state after the body is dropped.
EndWhile ==
    /\ Top.k = "while" /\ Top.phase = "after"
    /\ state' = Top.state
    /\ reach' = reach \cup Top.paths \cup Top.exits \cup Top.conts
    /\ Finish(FALSE)
    /\ InnerSteps
    /\ NoFlow
    /\ UNCHANGED <<scopes, blind, coarse>>

DoWhileStmt ==
    /\ Statement
    /\ Push("do", "body", state, {})
    /\ UNCHANGED <<scopes, flowVars>>

\* What a break or continue in the body jumps over.
JumpedOver(s, jumps) == IF jumps = {} THEN {} ELSE s \ Top.state

EndDoWhile ==
    \E e \in Tests :
        /\ Top.k = "do" /\ Top.phase = "after"
        /\ Evaluate(e, reach \cup Top.conts,
                    JumpedOver(Walked(e, state), Top.exits \cup Top.conts))
        /\ state' = Walked(e, state)
        /\ reach' = Outcomes(e, reach \cup Top.conts) \cup Top.exits
        /\ coarse' = coarse \cup Unfounded(e)
        /\ Finish(FALSE)
        /\ InnerSteps
        /\ UNCHANGED scopes

\* for: a declaration or an expression, a condition (walked before the body),
\* the body, the increment.
ForStmt ==
    /\ Statement
    /\ Push("for", "init", {}, {})
    /\ OpenScope
    /\ UNCHANGED flowVars

ForCond ==
    \E e \in Tests :
        /\ Top.k = "for" /\ Top.phase \in {"init", "cond"}
        /\ Here(e)
        /\ ctl' = Append(Front(ctl), Frame("for", "body", state', reach'))
        /\ InnerSteps
        /\ UNCHANGED scopes

EndFor ==
    \E e \in Tests :
        /\ Top.k = "for" /\ Top.phase = "after"
        /\ Evaluate(e, reach \cup Top.conts, JumpedOver(state, Top.conts))
        /\ state' = Top.state
        /\ reach' = Top.paths \cup Top.exits
                      \cup Outcomes(e, reach \cup Top.conts)
        /\ coarse' = coarse \cup Unfounded(e)
        /\ Finish(FALSE)
        /\ CloseScope
        /\ InnerSteps

\* The executions wait in the frame for the case they select.
SwitchStmt ==
    \E e \in Tests :
        /\ Statement
        /\ Evaluate(e, reach, {})
        /\ state' = Walked(e, state)
        /\ reach' = {}
        /\ coarse' = coarse \cup Unfounded(e)
        /\ Push("switch", "cases", state', Outcomes(e, reach))
        /\ UNCHANGED scopes

\* The statements after a label are a CompoundStmtAST; all start from the state
\* at the switch.  Executions select the case or fall into it.
CaseLabel ==
    \E default \in BOOLEAN :
        /\ Visit
        /\ Top.k = "switch"
        /\ default => ~Top.over
        /\ Len(ctl) < MaxDepth
        /\ ctl' = Append([ctl EXCEPT ![Len(ctl)].over = @ \/ default],
                         Frame("block", "body", {}, {}))
        /\ OpenScope
        /\ state' = Top.state
        /\ reach' = reach \cup Top.paths
        /\ NoFlow
        /\ UNCHANGED <<blind, coarse>>

\* With a default label some case runs, which the analysis ignores.
EndSwitch ==
    /\ Top.k = "switch"
    /\ state' = Top.state
    /\ reach' = reach \cup Top.exits \cup (IF Top.over THEN {} ELSE Top.paths)
    /\ coarse' = IF Top.over THEN Names ELSE coarse
    /\ Finish(FALSE)
    /\ InnerSteps
    /\ NoFlow
    /\ UNCHANGED <<scopes, blind>>

Next ==
    \/ OpenBlock \/ CloseBlock \/ ExprStmt \/ Declare \/ DeferStmt
    \/ ReturnStmt \/ BreakStmt \/ ContinueStmt
    \/ IfStmt \/ ElseBranch \/ EndIf \/ WhileStmt \/ EndWhile
    \/ DoWhileStmt \/ EndDoWhile \/ ForStmt \/ ForCond \/ EndFor
    \/ SwitchStmt \/ CaseLabel \/ EndSwitch

Spec == Init /\ [][Next]_vars

-------------------------------------------------------------------------------
(* Properties.                                                              *)

\* States that refer to the first n statements, and frames that hold such states.
StatesUpTo(n) == SUBSET (Names \X (1..n))
FramesUpTo(n) ==
    [k : Kinds, phase : {"body", "init", "cond", "after", "cases"},
     state : SUBSET Names, paths : SUBSET StatesUpTo(n),
     exits : SUBSET StatesUpTo(n), conts : SUBSET StatesUpTo(n),
     last : BOOLEAN, over : BOOLEAN]

\* The frames of c that opened a scope.
ScopesOpened(c) == {i \in DOMAIN c : c[i].k \in {"block", "for"}}

\* Type correctness: enterScope and exitScope are paired, so that one scope is
\* open for each block and each `for` being walked; no state refers to a
\* declaration that is still to come.
TypeOK ==
    /\ visited \in 0..MaxStmts
    /\ scopes \in Seq([Names -> 0..visited])
    /\ ctl \in Seq(FramesUpTo(visited))
    /\ Len(scopes) = Cardinality(ScopesOpened(ctl))
    /\ locals \in SUBSET Names
    /\ state \in SUBSET Names
    /\ warned \in SUBSET locals
    /\ reach \in SUBSET StatesUpTo(visited)
    /\ uninit \in SUBSET Names
    /\ named \in SUBSET Names
    /\ blind \in SUBSET Names
    /\ coarse \in SUBSET Names

\* W3001 is sound: a local variable that some execution reads without a value
\* has been reported, unless the name has been used for several variables, was
\* stored through an address, in part, or under &&, is read where the walk does
\* not look, or a break or continue leaves the body of its do-while, or reaches
\* the increment of its for, ahead of the assignment.
NoSilentRead == uninit \subseteq warned \cup blind

\* W3001 is precise: in a function without jumps out of statements and without
\* a switch that has a default, a variable is reported only if an execution
\* reads it without a value, or the name means a global there, or its address is
\* passed: the object of a method call, an array as an argument, &x.m.
NoFalseAlarm == warned \subseteq uninit \cup coarse

\* W3003 is sound: a statement it reports as unreachable, one that follows an
\* unconditional transfer in its block, is reached by no execution.
UnreachableIsDead ==
    \A i \in DOMAIN ctl : ctl[i].k = "block" /\ ctl[i].over => reach = {}

===============================================================================
