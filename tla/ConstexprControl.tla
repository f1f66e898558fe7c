---------------------------- MODULE ConstexprControl ----------------------------
(***************************************************************************)
(* Control flow and limits of the compiler's interpreter of constexpr      *)
(* functions (sema/SemanticAnalyzer.cpp: evaluateConstexpr,                *)
(* evalConstexprCall, evalCtFunction, evalConstexprStmt).                  *)
(*                                                                         *)
(* The recursion over statements is a stack of activations.  What each     *)
(* statement is, and what each expression yields, is chosen when the       *)
(* interpreter comes to it; a block has MaxStmts statements at most.  An   *)
(* expression, be it of a statement, a condition or the last part of a for, *)
(* can call functions, and containers that call back.  Variables are in    *)
(* ConstexprNames.                                                         *)
(***************************************************************************)
EXTENDS Integers, FiniteSets, SequencesExt

CONSTANTS
    MaxDepth,       \* kConstexprMaxDepth (128 in the code), for statements ...
    MaxCalls,       \* ... and for calls
    StepLimit,      \* kConstexprStepLimit (1,000,000 in the code)
    Indices,        \* the values of std::size_t (2^64)
    MaxStmts        \* bound: statements of a block

ASSUME ControlAssumption ==
    {MaxDepth, MaxCalls, StepLimit, Indices} \subseteq Nat \ {0} /\ MaxStmts \in Nat

VARIABLES
    entry,      \* "fold": evaluateConstexpr folds a constant; "query":
                \* evalConstexprCallCT evaluates the condition of a compile_time.if
    acts,       \* the activations: what, where in it, depth, statements begun
    flow,       \* how the statement just evaluated has ended, "none", or "value":
                \* a call has, with a value, and the expression it is in goes on
    value,      \* whether it has a value
    failed,     \* m_ctFailed
    steps,      \* ctSteps
    calls,      \* constexprCallDepth
    lapses,     \* where expressions have failed to be constant, or something in
                \* them has without them: the first part of a for ("init"); a
                \* condition or last part that has a value all the same
                \* ("condition"); elsewhere ("failed")
    growing,    \* the capacity that a Deque.reserve wants, and what it has doubled
    target,     \* the activation that a break, continue or return belongs to
    outcome     \* "running", "value" or "none"

vars == <<entry, acts, flow, value, failed, steps, calls, lapses, growing, target, outcome>>

Statements == {"block", "if", "while", "do", "for", "expr", "return", "null", "break",
               "continue", "other"}
Loops == {"while", "do", "for"}
Calls == {"call", "callback"}
Parts == {"eval", "cond", "inc"}

Top   == Last(acts)
Depth == Len(acts)
Innermost(stack, kinds) ==
    LET found == {i \in DOMAIN stack : stack[i].k \in kinds}
    IN  CHOOSE i \in found : \A j \in found : j <= i
InLoop == Innermost(acts, Loops \cup Calls) # Innermost(acts, Calls)

\* Where an activation starts.
First == [block |-> "next", if |-> "cond", while |-> "cond", do |-> "iterate",
          for |-> "init", expr |-> "eval", return |-> "eval",
          call |-> "body", callback |-> "body"]
Act(k, d)   == [k |-> k, at |-> First[k], depth |-> d, begun |-> 0]
Pop         == acts' = Front(acts)

\* The activation goes on; the statement ends without a value; or what has ended
\* ends the one around it as well.
Goes(where) ==
    /\ acts' = [acts EXCEPT ![Depth].at = where]
    /\ flow' = "none" /\ value' = FALSE /\ target' = 0
Ends(f)   == flow' = f /\ value' = FALSE /\ target' = 0
PassedOn  == Pop /\ UNCHANGED <<flow, value, target>>

Rest == UNCHANGED <<entry, calls, outcome>>
Free == UNCHANGED <<failed, steps, lapses>>
Idle == [want |-> 0, cap |-> 0]

-------------------------------------------------------------------------------
(* The budget.                                                              *)

\* ctStepAllowance, for a statement and for an iteration.
\* Past the limit the count does not matter.
Allowed   == steps < StepLimit
Counted(n) == IF n < StepLimit THEN n + 1 ELSE n
Spend     == steps' = Counted(steps)

\* ctEvalDepth between two expressions: every call but the first of a query is
\* evaluated inside one.
EvalDepth == (IF entry = "fold" THEN 1 ELSE 0) + calls - 1

\* An expression is begun, or a call in it has given a value.
Evaluating == outcome = "running" /\ flow \in {"none", "value"} /\ Top.at \in Parts
Started    == flow = "value"

\* evaluateConstexpr: at depth 0 it starts a budget of its own and forgets that
\* something has failed.
Forgets == EvalDepth = 0 /\ ~Started
CountedFromZero == 0
CountedFrom == IF Forgets THEN 0 ELSE steps
StillFailed == failed /\ ~Forgets
Where(stack) == IF stack[Len(stack) - 1].at = "init" THEN "init" ELSE "failed"

\* The value of an expression, or its failure.
Gives(fails) ==
    /\ Evaluating /\ (CountedFrom >= StepLimit /\ ~Started => fails)
    /\ steps' = IF Started THEN steps ELSE Counted(CountedFrom)
    /\ failed' = (fails \/ StillFailed)
    /\ lapses' = IF fails THEN lapses \cup {Where(acts)} ELSE lapses

\* A step inside of one.
Inside ==
    /\ Evaluating /\ CountedFrom < StepLimit
    /\ steps' = Counted(CountedFrom)

-------------------------------------------------------------------------------
(* evalConstexprStmt, at its beginning.                                     *)

Init ==
    /\ entry \in {"fold", "query"}
    /\ acts = <<Act("call", 0)>> /\ calls = 1
    /\ flow = "none" /\ value = FALSE /\ failed = FALSE
    /\ steps = IF entry = "fold" THEN 1 ELSE 0
    /\ lapses = {} /\ target = 0 /\ growing = Idle /\ outcome = "running"

\* The statements that can stand where the interpreter is.
Possible(k) ==
    /\ outcome = "running" /\ flow = "none"
    /\ \/ Top.k = "block" /\ Top.begun < MaxStmts
       \/ Top.k \in Loops \cup {"if"} /\ Top.at = "body"
       \/ Top.k = "for" /\ Top.at = "init" /\ k = "expr"
       \/ Top.k \in Calls /\ k = "block"
    /\ k \in {"break", "continue"} => InLoop
Begun == [acts EXCEPT ![Depth].begun = IF Top.k = "block" THEN @ + 1 ELSE @]

\* Nested too deeply: no value, and no failure either.
TooDeep(k) ==
    /\ Possible(k) /\ Top.depth + 1 > MaxDepth
    /\ acts' = Begun /\ Ends("normal")
    /\ Free /\ Rest

\* Nor when the steps are used up, for a statement or an iteration.
OutOfSteps(k) ==
    /\ Possible(k) /\ Top.depth + 1 <= MaxDepth /\ ~Allowed
    /\ acts' = Begun /\ Ends("normal") /\ Spend
    /\ UNCHANGED <<failed, lapses>> /\ Rest

Entered(k) == Possible(k) /\ Top.depth + 1 <= MaxDepth /\ Allowed /\ Spend

\* Statements with parts, expressions among them.
Enter(k) ==
    /\ k \in DOMAIN First /\ Entered(k)
    /\ acts' = Append(Begun, Act(k, Top.depth + 1))
    /\ UNCHANGED <<flow, value, target, failed, lapses>> /\ Rest

\* break and continue end with a flow of their own; an empty statement, and one
\* the interpreter does not know, with nothing.
Jump(k) ==
    /\ k \in {"break", "continue"} /\ Entered(k)
    /\ acts' = Begun /\ flow' = k /\ target' = Innermost(acts, Loops)
    /\ UNCHANGED <<value, failed, lapses>> /\ Rest
Pass(k) ==
    /\ k \in {"null", "other"} /\ Entered(k)
    /\ acts' = Begun /\ Ends("normal")
    /\ UNCHANGED <<failed, lapses>> /\ Rest

-------------------------------------------------------------------------------
(* Expressions, conditions and iterations.                                  *)

\* The expression of a statement.
Expression(fails) ==
    /\ Top.at = "eval" /\ Gives(fails) /\ Pop
    /\ flow' = IF Top.k = "return" THEN "return" ELSE "normal"
    /\ value' = (Top.k = "return" /\ ~fails)
    /\ target' = IF Top.k = "return" THEN Innermost(acts, Calls) ELSE 0
    /\ Rest

\* An if whose condition is false has an else branch, which is a body too, or not.
Condition(holds) ==
    /\ Top.at = "cond" /\ Gives(FALSE)
    /\ IF holds THEN Goes(IF Top.k = "if" THEN "body" ELSE "iterate")
       ELSE Pop /\ Ends("normal")
    /\ Rest
Increment ==
    /\ Top.at = "inc" /\ Gives(FALSE) /\ Goes("cond")
    /\ Rest
NotConstant ==
    /\ Top.at \in {"cond", "inc"} /\ Gives(TRUE) /\ Pop /\ Ends("normal")
    /\ Rest

\* A call in an expression, of a function or of a callback a container has been given.
MoreCallsLate == calls <= MaxCalls
MoreCalls == calls < MaxCalls
Invoke(c) ==
    /\ Inside /\ MoreCalls
    /\ failed' = StillFailed /\ flow' = "none"
    /\ acts' = Append(acts, Act(c, 0)) /\ calls' = calls + 1
    /\ UNCHANGED <<entry, value, target, lapses, outcome>>

\* HashMap and HashSet have found no such function, or too many calls, and answer.
SwallowedIn(stack) == IF Last(stack).at = "eval" THEN Where(stack) ELSE "condition"
NoCallback ==
    /\ Inside
    /\ failed' = TRUE /\ flow' = "value"
    /\ lapses' = lapses \cup {SwallowedIn(acts)}
    /\ UNCHANGED <<acts, value, target>> /\ Rest

\* Deque.reserve doubles the capacity, without a step, until it is what is wanted.
Reserve(want) ==
    /\ Inside
    /\ growing' = [want |-> want, cap |-> 1]
    /\ failed' = StillFailed /\ flow' = "value"
    /\ UNCHANGED <<acts, value, target, lapses>> /\ Rest
Double ==
    /\ growing.cap < growing.want
    /\ growing' = [growing EXCEPT !.cap = (@ * 2) % Indices]
    /\ UNCHANGED <<acts, flow, value, target>> /\ Free /\ Rest
Reserved ==
    /\ growing # Idle /\ growing.cap >= growing.want
    /\ growing' = Idle
    /\ UNCHANGED <<acts, flow, value, target>> /\ Free /\ Rest

\* The parts of a for are optional.
Absent ==
    /\ outcome = "running" /\ flow = "none" /\ Top.k = "for"
    /\ \/ Top.at = "init" /\ Goes("cond")
       \/ Top.at = "cond" /\ Goes("iterate")
       \/ Top.at = "inc" /\ Goes("cond")
    /\ Free /\ Rest

Iterate ==
    /\ outcome = "running" /\ flow = "none" /\ Top.at = "iterate"
    /\ Spend
    /\ IF Allowed THEN Goes("body") ELSE Pop /\ Ends("normal")
    /\ UNCHANGED <<failed, lapses>> /\ Rest

-------------------------------------------------------------------------------
(* evalConstexprStmt, when a part has been evaluated.                       *)

Resuming(kinds) == outcome = "running" /\ flow \notin {"none", "value"} /\ Top.k \in kinds

\* A block stops at a failure or jump; an if returns what its branch has returned.
BlockGoesOn ==
    /\ Resuming({"block"})
    /\ IF failed THEN Pop /\ Ends("normal") ELSE Goes("next")
    /\ Free /\ Rest
InBlock ==
    /\ Resuming({"block"})
    /\ IF failed THEN Pop /\ Ends("normal")
       ELSE IF flow = "normal" THEN Goes("next")
       ELSE PassedOn
    /\ Free /\ Rest
EndOfBlock ==
    /\ outcome = "running" /\ flow = "none" /\ Top.k = "block"
    /\ Pop /\ Ends("normal")
    /\ Free /\ Rest
AfterBranch ==
    /\ Resuming({"if"}) /\ PassedOn
    /\ Free /\ Rest

\* A loop after its body.
AfterBody ==
    /\ Resuming(Loops) /\ Top.at = "body"
    /\ CASE failed \/ flow = "break" -> Pop /\ Ends("normal")
         [] ~failed /\ flow = "return" -> PassedOn
         [] ~failed /\ flow \in {"normal", "continue"} ->
               Goes(IF Top.k = "for" THEN "inc" ELSE "cond")
    /\ Free /\ Rest

\* A for after its first part, whether that has failed or not.
AfterInit ==
    /\ Resuming({"for"}) /\ Top.at = "init"
    /\ Goes("cond")
    /\ Free /\ Rest

\* The end of the evaluation.
ResultWhatever == Top.k = "call" => flow = "return" /\ value
Result == ~failed /\ (Top.k = "call" => flow = "return" /\ value)
Finish ==
    /\ Resuming(Calls) /\ Depth = 1
    /\ outcome' = IF Result THEN "value" ELSE "none"
    /\ calls' = calls - 1
    /\ UNCHANGED <<entry, acts, flow, value, target>> /\ Free

\* The end of a call in an expression, which goes on.  A callback that has not
\* returned gives a value all the same, and so do contains, get, remove, put and
\* insert when their callback has failed ...
CallGives ==
    /\ Resuming(Calls) /\ Depth > 1 /\ (Result \/ Top.k = "callback")
    /\ Pop /\ flow' = "value" /\ value' = FALSE /\ target' = 0
    /\ lapses' = IF Result THEN lapses ELSE lapses \cup {SwallowedIn(Front(acts))}
    /\ calls' = calls - 1
    /\ UNCHANGED <<entry, failed, steps, outcome>>

\* ... or it is not constant, and the statement around it ends.
CallFails ==
    /\ Resuming(Calls) /\ Depth > 1 /\ ~Result
    /\ acts' = SubSeq(acts, 1, Depth - 2) /\ value' = FALSE
    /\ IF acts[Depth - 1].k = "return"
       THEN flow' = "return" /\ target' = Innermost(Front(acts), Calls)
       ELSE flow' = "normal" /\ target' = 0
    /\ lapses' = lapses \cup {Where(Front(acts))}
    /\ failed' = TRUE /\ calls' = calls - 1
    /\ UNCHANGED <<entry, steps, outcome>>

Next ==
    \/ /\ growing = Idle /\ UNCHANGED growing
       /\ \/ \E b \in BOOLEAN : Expression(b) \/ Condition(b)
          \/ \E c \in Calls : Invoke(c)
          \/ NoCallback \/ Increment \/ NotConstant \/ Absent \/ Iterate
          \/ InBlock \/ EndOfBlock \/ AfterBranch \/ AfterBody \/ AfterInit
          \/ Finish \/ CallGives \/ CallFails
          \/ \E k \in Statements :
                 TooDeep(k) \/ OutOfSteps(k) \/ Enter(k) \/ Jump(k) \/ Pass(k)
    \/ growing = Idle /\ \E want \in 2..(Indices - 1) : Reserve(want)
    \/ Double \/ Reserved

Spec == Init /\ [][Next]_vars /\ WF_vars(Next)

-------------------------------------------------------------------------------
(* Properties.                                                              *)

\* The types; the counters count the calls and the nesting that there are.
TypeOK ==
    /\ entry \in {"fold", "query"} /\ outcome \in {"running", "value", "none"}
    /\ \A i \in DOMAIN acts : acts[i].k \in DOMAIN First /\ acts[i].depth \in 0..MaxDepth
    /\ flow \in {"none", "value", "normal", "break", "continue", "return"}
    /\ {value, failed} \subseteq BOOLEAN /\ steps \in Nat
    /\ outcome = "running" => calls = Cardinality({i \in DOMAIN acts : acts[i].k \in Calls})
    /\ calls <= MaxCalls
    /\ growing \in [want : 0..(Indices - 1), cap : 0..(Indices - 1)]

\* A jump is passed on, through blocks, branches and inner loops, up to the loop
\* or call it belongs to, and ends this loop, this iteration or this call - or
\* the evaluation has failed.
Landed == Depth = target /\ (flow = "continue" => Len(acts') = Depth)
JumpsLand ==
    [][flow' # flow /\ flow \in {"break", "continue", "return"} => failed \/ Landed]_vars

\* A constant is never made by an evaluation in which something has failed to be
\* constant, except in a compile_time.if, as the first part of a for, or as a
\* callback of a condition or of the last part of a for.
ValueIsEarned ==
    outcome = "value" /\ lapses # {} =>
        entry = "query" /\ lapses \cap {"init", "condition"} # {}

\* Folding a constant ends, whatever the functions do, unless one has a Deque
\* reserve more than half of the indices there are.
HugeReserve == growing.want > Indices \div 2
Folded == outcome # "running" \/ entry = "query" \/ HugeReserve
FoldEnds == <>Folded
===============================================================================
