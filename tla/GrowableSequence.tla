---------------------------- MODULE GrowableSequence ----------------------------
(***************************************************************************)
(* What std::Vec and std::Deque promise their caller (docs/spec/stdlib.md, *)
(* section 14): a sequence that grows by itself.  call is the last call,   *)
(* answer what it returned; a call that ran out of memory has returned     *)
(* FALSE and left the sequence as it was.                                  *)
(***************************************************************************)
EXTENDS Integers, SequencesExt

CONSTANTS Values, None

VARIABLES contents, call, answer

Init == contents = <<>> /\ call = <<"init">> /\ answer = None

Indices == 0..(Len(contents) - 1)

\* The call succeeds and leaves new, or it fails.
Returns(c, new, result) == call' = c /\ contents' = new /\ answer' = result
Grows(c, new) == Returns(c, new, TRUE) \/ Returns(c, contents, FALSE)

PutLast(v)  == Grows(<<"push", v>>, Append(contents, v))
PutFirst(v) == Grows(<<"push_front", v>>, <<v>> \o contents)
PutAt(i, v) ==
    IF i > Len(contents) THEN Returns(<<"insert", i, v>>, contents, FALSE)
    ELSE Grows(<<"insert", i, v>>, InsertAt(contents, i + 1, v))
TakeLast(out) ==
    LET c == <<"pop", out>>
    IN  IF contents = <<>> THEN Returns(c, contents, FALSE)
        ELSE Returns(c, Front(contents), IF out THEN Last(contents) ELSE TRUE)
TakeFirst(out) ==
    LET c == <<"pop_front", out>>
    IN  IF contents = <<>> THEN Returns(c, contents, FALSE)
        ELSE Returns(c, Tail(contents), IF out THEN Head(contents) ELSE TRUE)
Replace(i, v) ==
    i \in Indices /\ Returns(<<"set", i, v>>, [contents EXCEPT ![i + 1] = v], None)
Drop(i) ==
    IF i \in Indices
    THEN Returns(<<"remove", i>>, RemoveAt(contents, i + 1), TRUE)
    ELSE Returns(<<"remove", i>>, contents, FALSE)
Exchange(i, j) ==
    Returns(<<"swap", i, j>>,
            IF {i, j} \subseteq Indices
            THEN [contents EXCEPT ![i + 1] = contents[j + 1],
                                  ![j + 1] = contents[i + 1]]
            ELSE contents,
            None)
Reserve(n) == Grows(<<"reserve", n>>, contents)
Empty(how) == Returns(<<how>>, <<>>, None)

CONSTANTS Positions, Sizes      \* the indices and sizes callers pass

Next ==
    \/ \E v \in Values : PutLast(v) \/ PutFirst(v)
    \/ \E i \in Positions, v \in Values : PutAt(i, v) \/ Replace(i, v)
    \/ \E out \in BOOLEAN : TakeLast(out) \/ TakeFirst(out)
    \/ \E i \in Positions : Drop(i) \/ \E j \in Positions : Exchange(i, j)
    \/ \E n \in Sizes : Reserve(n)
    \/ \E how \in {"clear", "destroy"} : Empty(how)

Spec == Init /\ [][Next]_<<contents, call, answer>>
===============================================================================
