----------------------------- MODULE ScopeCodegen -----------------------------
(***************************************************************************)
(* Code generation of one function body, as far as leaving scopes is       *)
(* concerned: the visit of the statement tree (src/ast/Stmt.cpp, with      *)
(* VarDeclAST, DeferStmtAST and FunctionDeclAST of Decl.cpp and            *)
(* LambdaExprAST of Expr.cpp) over the defer, clean-up, break and continue *)
(* stacks of CodegenContext.                                               *)
(*                                                                         *)
(* The statement tree is not an input: each step visits the next statement *)
(* some program could have there, so a behaviour is the code generation of *)
(* one function, and the behaviours are those of all functions of at most  *)
(* MaxStmts statements nested at most MaxDepth deep.                       *)
(*                                                                         *)
(* Together with the generator we follow one execution of the code it      *)
(* emits: `live` says that the execution passes through the current        *)
(* insertion point.  A condition is decided when its branch is emitted, so *)
(* the execution is followed through one iteration of a loop.  In another  *)
(* one it runs the same code, which leaves nothing pending when the body   *)
(* of the loop is a block; a body without braces registers its clean-up in *)
(* the block around the loop, and that it is reached there in other        *)
(* iterations, before or after the one followed, is ReachAgain.  frames,   *)
(* ran and store describe the execution.                                   *)
(*                                                                         *)
(* Left out: a condition that gives no value (evalCondition returns null), *)
(* after which a while, do-while or for leaves what it pushed on the break *)
(* and continue stacks, and a for its scope (Stmt.cpp:174, 208, 238); and  *)
(* the iterations before one that ends by break or continue: clean-up of   *)
(* an unbraced body that such an iteration passes by is skipped anyway.    *)
(*                                                                         *)
(* An operator that stands just before the definition it varies and is not *)
(* used (FirstInFirstOut before ScopeItems, ...) is a plausible mistake in  *)
(* that code; put in its place, it is caught by one of the properties.     *)
(***************************************************************************)
EXTENDS Naturals, Sequences, FiniteSets, SequencesExt

CONSTANTS
    Names,        \* the names programs give their local variables
    MaxStmts,     \* bound: statements visited
    MaxDepth      \* bound: depth of the statement tree

ASSUME BoundsAssumption == MaxStmts \in Nat /\ MaxDepth \in Nat

VARIABLES
    ctl,          \* the recursion of codegen(): the statements being visited
    scopes,       \* CodegenContext's Scope chain: what each name is bound to
    deferScopes, cleanupScopes,      \* pending defers / strings of the open blocks
    breakBlocks, continueBlocks,     \* jump targets, with their defer boundary
    terminated,   \* the insertion block already has a terminator
    visited,      \* number of statements visited; also names the statements
    strings,      \* the declarations that are local strings
    emitted,      \* the clean-up code the last step emitted, with its context
    \* the execution followed
    live, frames, ran, store, freed, result, wild, skipped,
    lost,         \* clean-up it has registered and no code discharges
    returned      \* the return by which it has left a loop and the function

genVars == <<ctl, scopes, deferScopes, cleanupScopes, breakBlocks,
             continueBlocks, terminated, visited, strings, emitted>>
againVars == <<lost, returned>>
runVars == <<live, frames, ran, store, freed, result, wild, skipped, againVars>>
vars    == <<genVars, runVars>>

Ids     == 1..MaxStmts          \* statements, declarations and lambdas
Unbound == [x \in Names |-> 0]
Top     == ctl[Len(ctl)]

-------------------------------------------------------------------------------
(* Frames of the visit.  id is the statement's number, or that of the init  *)
(* of a for: its body has the numbers after it; phase says which of its     *)
(* children comes next; alt is whether the execution also arrives where the *)
(* statement resumes (else-entry, loop end, switch end, after a lambda);    *)
(* pend is whether it arrives at the merge block, or has still to select a  *)
(* case.                                                                    *)
Kinds == {"fn", "compound", "if", "else", "loop", "for", "switch", "lambda"}
Frame(k, phase, alt, pend) ==
    [k |-> k, id |-> visited', phase |-> phase, alt |-> alt, pend |-> pend]

\* A child statement of the innermost frame of c has been visited.
Complete(c) ==
    LET i == Len(c)
    IN  IF c[i].k \in {"compound", "switch"} THEN c
        ELSE [c EXCEPT ![i].phase = IF @ = "init" THEN "cond" ELSE "after"]

\* The lambda whose body is being generated; 0 is the function itself.
CurFn ==
    LET L == {i \in DOMAIN ctl : ctl[i].k = "lambda"}
    IN  IF L = {} THEN 0 ELSE ctl[CHOOSE i \in L : \A j \in L : j <= i].id

\* Scope::lookup: the innermost declaration of x; 0 is a parameter or a global.
Resolve(x) ==
    LET S == {i \in DOMAIN scopes : scopes[i][x] # 0}
    IN  IF S = {} THEN 0 ELSE scopes[CHOOSE i \in S : \A j \in S : j <= i][x]

\* What sema lets the code here refer to: inside a lambda an automatic variable
\* of an enclosing function only when captured.
Visible(x) == Resolve(x) = 0 \/ Resolve(x) >= CurFn

-------------------------------------------------------------------------------
(* CodegenContext: the stacks.                                              *)

Defer(x)     == [kind |-> "defer", id |-> visited', name |-> x,
                 var |-> Resolve(x), fn |-> CurFn, bare |-> Top.k # "compound"]
StringOf(x)  == [kind |-> "string", id |-> visited', name |-> x,
                 var |-> visited', fn |-> CurFn, bare |-> Top.k # "compound"]

\* CodegenContext::addDefer and addStringCleanup, on the stack s.
AddTo(s, item) ==
    IF s = <<>> THEN s ELSE [s EXCEPT ![Len(s)] = Append(@, item)]

\* CodegenContext::popDeferScope and discardDeferScope, once the code of the
\* block is out: both stacks.
CloseDeferScope ==
    deferScopes' = Front(deferScopes) /\ cleanupScopes' = Front(cleanupScopes)

\* The clean-up code of open block i: its defers, then its string releases.
FirstInFirstOut(i) == deferScopes[i] \o Reverse(cleanupScopes[i])
ScopeItems(i) == Reverse(deferScopes[i]) \o Reverse(cleanupScopes[i])

\* CodegenContext::emitDefersFrom: all blocks deeper than depth, innermost first.
EmitDefersFrom(depth) ==
    FlattenSeq([j \in 1..(Len(deferScopes) - depth) |->
                    ScopeItems(Len(deferScopes) + 1 - j)])

\* A deferred expression is generated anew at every exit, so its names are
\* looked up where the exit is; a string's storage was fixed when declared.
InContext(item) ==
    [item |-> item, infn |-> CurFn,
     resolved |-> IF item.kind = "defer" THEN Resolve(item.name) ELSE item.var]

Obligation == [kind : {"defer", "string"}, id : Ids]
Owed(item) == [kind |-> item.kind, id |-> item.id]

\* Generate the clean-up code `items`; the execution, if it comes through
\* here with string storage st, runs it.
Emit(items, st) ==
    LET released == {items[i].var : i \in {j \in DOMAIN items :
                                               items[j].kind = "string"}}
    IN  /\ emitted' = [i \in DOMAIN items |-> InContext(items[i])]
        /\ IF live
           THEN /\ ran' = ran \o [i \in DOMAIN items |-> Owed(items[i])]
                /\ freed' = freed \cup {v \in released : st[v] = "owner"}
                /\ store' = [v \in Ids |-> IF v \in released THEN "null"
                                                             ELSE st[v]]
                /\ wild' = (wild \/ \E v \in released : st[v] = "unborn")
           ELSE UNCHANGED <<ran, freed, store, wild>>

EmitNothing == emitted' = <<>> /\ UNCHANGED <<ran, freed, store, wild>>

\* The statement visited leaves clean-up pending in the innermost open block.
\* skipped remembers that the clean-up pending is no longer what the execution
\* has registered: it is not at this statement and is still going to run the
\* clean-up of that block, or it has been there in another iteration of a loop.
Registered ==
    skipped' = (skipped \/ (~live /\ Len(deferScopes) <= Len(frames)))

\* The execution leaves the n innermost of the scopes it has entered.
Unwound(n) == frames' = IF live THEN SubSeq(frames, 1, Len(frames) - n)
                                ELSE frames

-------------------------------------------------------------------------------
Init ==
    /\ ctl = <<[k |-> "fn", id |-> 0, phase |-> "body", alt |-> FALSE,
                pend |-> FALSE]>>
    /\ scopes = <<Unbound>>                   \* the parameters
    /\ deferScopes = <<>> /\ cleanupScopes = <<>>
    /\ breakBlocks = <<>> /\ continueBlocks = <<>>
    /\ terminated = FALSE
    /\ visited = 0 /\ strings = {} /\ emitted = <<>>
    /\ live = TRUE /\ frames = <<>> /\ ran = <<>>
    /\ store = [v \in Ids |-> "unborn"]
    /\ freed = {} /\ result = 0 /\ wild = FALSE /\ skipped = FALSE
    /\ lost = {} /\ returned = 0

\* A statement is visited as a child of the innermost frame: any number in a
\* block, up to its terminator; exactly one as the body of an if or a loop,
\* braces or not; a declaration as the init of a for.
AtStmt ==
    /\ ctl # <<>> /\ visited < MaxStmts
    /\ ~terminated
    /\ Top.phase = "body" /\ Top.k \in {"compound", "if", "else", "loop", "for"}
AtDecl == AtStmt \/ (ctl # <<>> /\ Top.phase = "init" /\ visited < MaxStmts)
Visit ==
    /\ visited' = visited + 1
Descend == Len(ctl) < MaxDepth
Jumped == terminated' = TRUE /\ live' = FALSE

\* DeferStmtAST::codegen.
VisitDefer(x) ==
    /\ AtStmt /\ Visit /\ Visible(x)
    /\ deferScopes' = AddTo(deferScopes, Defer(x))
    /\ ctl' = Complete(ctl)
    /\ frames' = IF live THEN AddTo(frames, Owed(Defer(x))) ELSE frames
    /\ Registered
    /\ EmitNothing
    /\ UNCHANGED <<scopes, cleanupScopes, breakBlocks, continueBlocks,
                   terminated, strings, live, result, againVars>>

\* VarDeclAST::codegen of a local without owned storage (sema rejects a second
\* declaration of the name in the same scope).
Declare(x) ==
    /\ scopes[Len(scopes)][x] = 0
    /\ scopes' = [scopes EXCEPT ![Len(scopes)][x] = visited']
VisitPlainDecl(x) ==
    /\ AtDecl /\ Visit /\ Declare(x)
    /\ ctl' = Complete(ctl)
    /\ EmitNothing
    /\ UNCHANGED <<deferScopes, cleanupScopes, breakBlocks, continueBlocks,
                   terminated, strings, live, frames, result, skipped,
                   againVars>>

\* VarDeclAST::codegen of a local string: its initializer gives it a buffer
\* of its own, and its release is pending in the enclosing block.
VisitStringDecl(x) ==
    /\ AtDecl /\ Visit /\ Declare(x)
    /\ strings' = strings \cup {visited'}
    /\ cleanupScopes' = AddTo(cleanupScopes, StringOf(x))
    /\ ctl' = Complete(ctl)
    /\ frames' = IF live THEN AddTo(frames, Owed(StringOf(x))) ELSE frames
    /\ store' = IF live THEN [store EXCEPT ![visited'] = "owner"] ELSE store
    /\ Registered
    /\ emitted' = <<>>
    /\ UNCHANGED <<deferScopes, breakBlocks, continueBlocks, terminated, live,
                   ran, freed, result, wild, againVars>>

-------------------------------------------------------------------------------
(* Blocks, branches, loops.                                                 *)

\* CompoundStmtAST::codegen: entry ...
OpenBlock(c) ==
    /\ ctl' = Append(c, Frame("compound", "body", FALSE, FALSE))
    /\ scopes' = Append(scopes, Unbound)
    /\ deferScopes' = Append(deferScopes, <<>>)
    /\ cleanupScopes' = Append(cleanupScopes, <<>>)
    /\ frames' = IF live' THEN Append(frames, <<>>) ELSE frames
BeginCompound ==
    /\ ctl # <<>> /\ visited < MaxStmts /\ Descend
    /\ ~terminated
    /\ Top.phase = "body" /\ Top.k # "switch"
    /\ Visit
    /\ UNCHANGED live
    /\ OpenBlock(ctl)
    /\ EmitNothing
    /\ UNCHANGED <<breakBlocks, continueBlocks, terminated, strings, result,
                   skipped, againVars>>

\* ... and exit: the pending clean-up is emitted (popDeferScope), unless a
\* jump has emitted it already (discardDeferScope).
EndCompound ==
    /\ ctl # <<>> /\ Top.k = "compound"
    /\ IF terminated THEN EmitNothing /\ UNCHANGED frames
       ELSE Emit(EmitDefersFrom(Len(deferScopes) - 1), store) /\ Unwound(1)
    /\ CloseDeferScope
    /\ scopes' = Front(scopes)
    /\ ctl' = Complete(Front(ctl))
    /\ UNCHANGED <<breakBlocks, continueBlocks, terminated, visited, strings,
                   live, result, skipped, againVars>>

\* IfStmtAST::codegen: the then-block; the execution takes it or not.
BeginIf(taken) ==
    /\ AtStmt /\ Descend /\ Visit
    /\ ctl' = Append(ctl, Frame("if", "body", live /\ ~taken, FALSE))
    /\ live' = (live /\ taken)
    /\ EmitNothing
    /\ UNCHANGED <<scopes, deferScopes, cleanupScopes, breakBlocks,
                   continueBlocks, terminated, strings, frames, result,
                   skipped, againVars>>

\* The else-block, when there is one ...
BeginElse ==
    /\ ctl # <<>> /\ Top.k = "if" /\ Top.phase = "after"
    /\ ctl' = [ctl EXCEPT ![Len(ctl)] =
                 [@ EXCEPT !.k = "else", !.phase = "body", !.pend = live]]
    /\ live' = Top.alt /\ terminated' = FALSE
    /\ EmitNothing
    /\ UNCHANGED <<scopes, deferScopes, cleanupScopes, breakBlocks, visited,
                   continueBlocks, strings, frames, result, skipped,
                   againVars>>

\* ... and the merge block: reached from the then-block and the else-block
\* that do not end in a terminator, and always given code.
EndIf ==
    /\ ctl # <<>> /\ Top.k \in {"if", "else"} /\ Top.phase = "after"
    /\ ctl' = Complete(Front(ctl))
    /\ live' = (live \/ (IF Top.k = "if" THEN Top.alt ELSE Top.pend))
    /\ terminated' = FALSE
    /\ EmitNothing
    /\ UNCHANGED <<scopes, deferScopes, cleanupScopes, breakBlocks, visited,
                   continueBlocks, strings, frames, result, skipped,
                   againVars>>

\* CodegenContext::pushBreakBlock / pushContinueBlock: a target remembers how
\* many blocks were open when its loop or switch began.
NoBoundary  == [frame |-> Len(ctl) + 1, boundary |-> 0]
InsideBlock == [frame |-> Len(ctl) + 1, boundary |-> Len(deferScopes) + 1]
Target == [frame |-> Len(ctl) + 1, boundary |-> Len(deferScopes)]

\* WhileStmtAST and DoWhileStmtAST::codegen; the body of a do-while is entered
\* whatever the condition, that of a while only when entered is TRUE.
BeginLoop(entered) ==
    /\ AtStmt /\ Descend /\ Visit
    /\ breakBlocks' = Append(breakBlocks, Target)
    /\ continueBlocks' = Append(continueBlocks, Target)
    /\ ctl' = Append(ctl, Frame("loop", "body", live /\ ~entered, FALSE))
    /\ live' = (live /\ entered)
    /\ EmitNothing
    /\ UNCHANGED <<scopes, deferScopes, cleanupScopes, terminated, strings,
                   frames, result, skipped, againVars>>

\* ForStmtAST::codegen: the scope of its init declaration, if it has one ...
BeginFor(withInit) ==
    /\ AtStmt /\ Descend /\ Visit
    /\ breakBlocks' = Append(breakBlocks, Target)
    /\ continueBlocks' = Append(continueBlocks, Target)
    /\ scopes' = Append(scopes, Unbound)
    /\ ctl' = Append(ctl, Frame("for", IF withInit THEN "init" ELSE "cond",
                                FALSE, FALSE))
    /\ EmitNothing
    /\ UNCHANGED <<deferScopes, cleanupScopes, terminated, strings, live,
                   frames, result, skipped, againVars>>

\* ... then its condition and its body.
ForBody(entered) ==
    /\ ctl # <<>> /\ Top.k = "for" /\ Top.phase = "cond"
    /\ ctl' = [ctl EXCEPT ![Len(ctl)] =
                 [@ EXCEPT !.phase = "body", !.alt = live /\ ~entered,
                           !.id = visited]]
    /\ live' = (live /\ entered)
    /\ EmitNothing
    /\ UNCHANGED <<scopes, deferScopes, cleanupScopes, breakBlocks, visited,
                   continueBlocks, terminated, strings, frames, result,
                   skipped, againVars>>

\* The end block of a while, do-while or for: reached when the condition fails,
\* at first or after the body, and from every break.
EndLoop ==
    /\ ctl # <<>> /\ Top.k \in {"loop", "for"} /\ Top.phase = "after"
    /\ breakBlocks' = Front(breakBlocks)
    /\ continueBlocks' = Front(continueBlocks)
    /\ scopes' = IF Top.k = "for" THEN Front(scopes) ELSE scopes
    /\ ctl' = Complete(Front(ctl))
    /\ live' = (live \/ Top.alt) /\ terminated' = FALSE
    /\ EmitNothing
    /\ UNCHANGED <<deferScopes, cleanupScopes, visited, strings, frames,
                   result, skipped, againVars>>

\* The back edge of a while, do-while or for whose body has no braces: in another
\* iteration the execution, which is at the end of the body or has returned from
\* it, reaches a defer or a string declaration that is still pending in the
\* block around the loop.  That registers it at run time; the stacks have it
\* once, and a string gets a buffer over the one it may have.  In whatever order
\* the iterations come; bound: one registration of a statement is lost.
AgainItems == {item \in ToSet(Last(deferScopes)) \cup ToSet(Last(cleanupScopes)) :
                   item.id > Top.id /\ Owed(item) \notin lost}
ReachAgain(item) ==
    /\ live \/ returned > Top.id
    /\ frames' = IF live THEN AddTo(frames, Owed(item)) ELSE frames
    /\ store' = IF live /\ item.kind = "string"
                THEN [store EXCEPT ![item.var] = "owner"] ELSE store
    /\ lost' = IF live /\ Owed(item) \notin ToSet(Last(frames))
               THEN lost ELSE lost \cup {Owed(item)}
    /\ skipped' = TRUE
    /\ emitted' = <<>>
    /\ UNCHANGED <<ctl, scopes, deferScopes, cleanupScopes, breakBlocks,
                   continueBlocks, terminated, visited, strings, live, ran,
                   freed, result, wild, returned>>
IterateAgain ==
    /\ ctl # <<>> /\ Top.k \in {"loop", "for"} /\ Top.phase = "after"
    /\ deferScopes # <<>>
    /\ \E item \in AgainItems : ReachAgain(item)

\* SwitchStmtAST::codegen: only break has a target here.
BeginSwitch ==
    /\ AtStmt /\ Descend /\ Visit
    /\ breakBlocks' = Append(breakBlocks, Target)
    /\ ctl' = Append(ctl, Frame("switch", "body", FALSE, live))
    /\ live' = FALSE
    /\ EmitNothing
    /\ UNCHANGED <<scopes, deferScopes, cleanupScopes, continueBlocks,
                   terminated, strings, frames, result, skipped, againVars>>

\* The next case: its statements are one block, entered when the case is
\* selected or the previous case falls through.
BeginCase(selected) ==
    /\ ctl # <<>> /\ Top.k = "switch" /\ visited < MaxStmts /\ Descend
    /\ Visit
    /\ live' = (live \/ (Top.pend /\ selected))
    /\ terminated' = FALSE
    /\ OpenBlock([ctl EXCEPT ![Len(ctl)].pend = @ /\ ~selected])
    /\ EmitNothing
    /\ UNCHANGED <<breakBlocks, continueBlocks, strings, result, skipped,
                   againVars>>

EndSwitch ==
    /\ ctl # <<>> /\ Top.k = "switch"
    /\ breakBlocks' = Front(breakBlocks)
    /\ ctl' = Complete(Front(ctl))
    /\ live' = (live \/ Top.alt \/ Top.pend) /\ terminated' = FALSE
    /\ EmitNothing
    /\ UNCHANGED <<scopes, deferScopes, cleanupScopes, continueBlocks,
                   visited, strings, frames, result, skipped, againVars>>

-------------------------------------------------------------------------------
(* Jumps.                                                                   *)

LeavesBodyOpen(target) ==
    LET depth == IF Len(deferScopes) > target.boundary THEN target.boundary + 1
                                                       ELSE target.boundary
    IN  /\ Emit(EmitDefersFrom(depth), store)
        /\ Unwound(Len(deferScopes) - depth)
        /\ ctl' = Complete([ctl EXCEPT ![target.frame].alt = @ \/ live])
        /\ Jumped
JumpTo(target) ==
    /\ Emit(EmitDefersFrom(target.boundary), store)
    /\ Unwound(Len(deferScopes) - target.boundary)
    /\ ctl' = Complete([ctl EXCEPT ![target.frame].alt = @ \/ live])
    /\ Jumped

\* BreakStmtAST::codegen.
VisitBreak ==
    /\ AtStmt /\ Visit /\ breakBlocks # <<>>
    /\ JumpTo(Last(breakBlocks))
    /\ UNCHANGED <<scopes, deferScopes, cleanupScopes, breakBlocks,
                   continueBlocks, strings, result, skipped, againVars>>

\* ContinueStmtAST::codegen: the execution goes on to the condition, and from
\* there to the end of the loop.
VisitContinue ==
    /\ AtStmt /\ Visit /\ continueBlocks # <<>>
    /\ JumpTo(Last(continueBlocks))
    /\ UNCHANGED <<scopes, deferScopes, cleanupScopes, breakBlocks,
                   continueBlocks, strings, result, skipped, againVars>>

\* Either of them without a target: nothing rejects it before, and the code
\* emitted is `unreachable`; an execution with defined behaviour is elsewhere.
VisitStrayJump ==
    /\ ~live
    /\ AtStmt /\ Visit /\ (breakBlocks = <<>> \/ continueBlocks = <<>>)
    /\ ctl' = Complete(ctl)
    /\ Jumped
    /\ EmitNothing
    /\ UNCHANGED <<scopes, deferScopes, cleanupScopes, breakBlocks,
                   continueBlocks, strings, frames, result, skipped,
                   againVars>>

\* The storage once a return has taken the buffer of the string moved: zeroed,
\* so that its pending release frees nothing.
NotZeroed(moved) == store
MovedOut(moved) ==
    IF live /\ moved # 0 THEN [store EXCEPT ![moved] = "null"] ELSE store

\* ReturnStmtAST::codegen.  The operand is evaluated first; a local string is
\* moved out (its storage is zeroed), then all pending clean-up is emitted.
VisitReturn(moved) ==
    /\ AtStmt /\ Visit
    /\ moved \in {0} \cup (strings \cap {Resolve(x) : x \in {y \in Names : Visible(y)}})
    /\ Emit(EmitDefersFrom(0), MovedOut(moved))
    /\ result' = IF live THEN moved ELSE result
    /\ returned' = IF live /\ continueBlocks # <<>> THEN visited' ELSE returned
    /\ Unwound(Len(frames))
    /\ ctl' = Complete(ctl)
    /\ Jumped
    /\ UNCHANGED <<scopes, deferScopes, cleanupScopes, breakBlocks,
                   continueBlocks, strings, skipped, lost>>

-------------------------------------------------------------------------------
(* Lambdas and the end of the function.                                     *)

\* LambdaExprAST::codegen: the body is generated at once, in a function of its
\* own, over the stacks of the enclosing one; captures are new variables.  The
\* execution followed creates the closure and does not call it.
BeginLambda(captured) ==
    /\ AtStmt /\ Descend /\ Visit
    /\ captured \subseteq {x \in Names : Resolve(x) # 0}
    /\ scopes' = Append(scopes, [x \in Names |-> IF x \in captured
                                                  THEN visited' ELSE 0])
    /\ ctl' = Append(ctl, Frame("lambda", "body", live, FALSE))
    /\ live' = FALSE
    /\ EmitNothing
    /\ UNCHANGED <<deferScopes, cleanupScopes, breakBlocks, continueBlocks,
                   terminated, strings, frames, result, skipped, againVars>>

EndLambda ==
    /\ ctl # <<>> /\ Top.k = "lambda" /\ Top.phase = "after"
    /\ scopes' = Front(scopes)
    /\ ctl' = Complete(Front(ctl))
    /\ live' = Top.alt /\ terminated' = FALSE
    /\ EmitNothing
    /\ UNCHANGED <<deferScopes, cleanupScopes, breakBlocks, continueBlocks,
                   visited, strings, frames, result, skipped, againVars>>

\* FunctionDeclAST::codegen, after the body: an implicit return.
EndFunction ==
    /\ ctl # <<>> /\ Top.k = "fn" /\ Top.phase = "after"
    /\ ctl' = <<>>
    /\ scopes' = Front(scopes)
    /\ Jumped
    /\ EmitNothing
    /\ UNCHANGED <<deferScopes, cleanupScopes, breakBlocks, continueBlocks,
                   visited, strings, frames, result, skipped, againVars>>

Next ==
    \/ \E x \in Names : VisitDefer(x) \/ VisitPlainDecl(x) \/ VisitStringDecl(x)
    \/ BeginCompound \/ EndCompound
    \/ \E taken \in BOOLEAN : BeginIf(taken)
    \/ BeginElse \/ EndIf
    \/ \E entered \in BOOLEAN : BeginLoop(entered) \/ ForBody(entered)
    \/ \E withInit \in BOOLEAN : BeginFor(withInit)
    \/ EndLoop \/ IterateAgain
    \/ BeginSwitch \/ EndSwitch
    \/ \E selected \in BOOLEAN : BeginCase(selected)
    \/ VisitBreak \/ VisitContinue \/ VisitStrayJump
    \/ \E moved \in 0..MaxStmts : VisitReturn(moved)
    \/ \E captured \in SUBSET Names : BeginLambda(captured)
    \/ EndLambda \/ EndFunction

Spec == Init /\ [][Next]_vars

-------------------------------------------------------------------------------
(* Properties.                                                              *)

Item == [kind : {"defer", "string"}, id : Ids, name : Names,
         var : 0..MaxStmts, fn : 0..MaxStmts, bare : BOOLEAN]

\* The type of every variable; the defer and clean-up stacks, which the code
\* indexes with one another's positions, have one length.
TypeOK ==
    /\ ctl \in Seq([k : Kinds, id : 0..MaxStmts, alt : BOOLEAN, pend : BOOLEAN,
                     phase : {"init", "cond", "body", "after"}])
    /\ scopes \in Seq([Names -> 0..MaxStmts])
    /\ deferScopes \in Seq(Seq(Item)) /\ cleanupScopes \in Seq(Seq(Item))
    /\ Len(deferScopes) = Len(cleanupScopes)
    /\ breakBlocks \in Seq([frame : Nat, boundary : Nat])
    /\ continueBlocks \in Seq([frame : Nat, boundary : Nat])
    /\ terminated \in BOOLEAN /\ visited \in 0..MaxStmts /\ strings \subseteq Ids
    /\ emitted \in Seq([item : Item, infn : 0..MaxStmts,
                         resolved : 0..MaxStmts])
    /\ live \in BOOLEAN /\ frames \in Seq(Seq(Obligation))
    /\ ran \in Seq(Obligation)
    /\ store \in [Ids -> {"unborn", "owner", "null"}]
    /\ freed \subseteq Ids /\ result \in 0..MaxStmts
    /\ wild \in BOOLEAN /\ skipped \in BOOLEAN
    /\ lost \subseteq Obligation /\ returned \in 0..MaxStmts

\* A jump discards blocks it does not close: the stacks are right again only
\* because every visit on the way out pops what it pushed.  The defer stack is
\* one entry per open block, every break or continue target belongs to an open
\* loop or switch and cuts the defer stack exactly at that statement's block.
OpenBlocks(c) == Cardinality({i \in DOMAIN c : c[i].k = "compound"})
StacksBalanced ==
    /\ TypeOK
    /\ Len(deferScopes) = OpenBlocks(ctl)
    /\ \A s \in {breakBlocks, continueBlocks} : \A i \in DOMAIN s :
          /\ ctl[s[i].frame].k \in {"loop", "for", "switch"}
          /\ s[i].boundary = OpenBlocks(SubSeq(ctl, 1, s[i].frame))
    /\ \A i \in DOMAIN continueBlocks : ctl[continueBlocks[i].frame].k # "switch"

\* Emitted clean-up code, run along any path, does what semantics.md promises:
\* the obligations of exactly the scopes left, in the documented order, each
\* registered when control reached its statement - until the body of an if or
\* a loop without braces registers clean-up the execution did not reach, or one
\* of a loop is reached in another iteration.
Doc == INSTANCE DeferSemantics
ImplementsDefer ==
    Doc!Init /\ [][skipped' \/ Doc!Next]_<<frames, ran>>

\* Clean-up that runs on a path that did not reach its statement, or reached it in
\* another iteration and not once for each registration, can only come from a
\* statement that is not directly in a block.
OnlyUnbracedSkips == [][skipped' # skipped => Top.k # "compound"]_vars

\* Whatever the program, no obligation is discharged twice on one path; and where
\* a deferred expression is emitted, its name means the variable it meant where it
\* was written, or one declared after it in a block the exit is in - unless the
\* defer is the body of an if or a loop without braces.
RunsOnce ==
    /\ \A i, j \in DOMAIN ran : ran[i] = ran[j] => i = j
    /\ \A i \in DOMAIN emitted :
          LET item == emitted[i].item
          IN  emitted[i].resolved # item.var =>
                  emitted[i].resolved > item.id \/ item.bare

\* Local strings: none still owns a buffer once the execution has left the
\* function; none is released before it was born, and none has had a buffer that
\* no release will free (unbraced bodies excepted, both times); the buffer a
\* return moved out is not freed, and no deferred expression runs after the
\* release of a string of its own scope.
StringsReleased ==
    /\ ctl = <<>> /\ frames = <<>> => \A v \in Ids : store[v] # "owner"
    /\ wild \/ (\E o \in lost : o.kind = "string") => skipped
    /\ result \notin freed
    /\ \A i, j \in DOMAIN emitted :
          /\ emitted[i].item.kind = "string"
          /\ emitted[j].item.kind = "defer" /\ emitted[j].item.var = emitted[i].item.id
          => j < i

\* The clean-up code of a function is emitted into that function: generating
\* the body of a lambda must not emit the pending clean-up of the function
\* around it.
CleanupStaysHome == \A i \in DOMAIN emitted :
    emitted[i].item.fn = emitted[i].infn
===============================================================================
