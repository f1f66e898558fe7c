---------------------------- MODULE MCDefiniteInit ----------------------------
(* DefiniteInit on all small functions over the expressions below.         *)
EXTENDS DefiniteInit

Then(a, b) == [kind |-> "then", test |-> a, left |-> b, right |-> Nothing]
And(a, b)  == [kind |-> "and", test |-> a, left |-> b, right |-> Nothing]
Cond(a, b, c) == [kind |-> "ternary", test |-> a, left |-> b, right |-> c]

MCTests == UNION {{Then(Nothing, Nothing), Then(Read(x), Nothing),
                   And(Nothing, Assign(x))} : x \in Names}

MCExprs ==
    UNION {{Then(Read(x), Nothing), Then(Assign(x), Read(x)),
            Then(AddressOf(x), IndexOf(x)), Then(Receiver(x), Nothing),
            And(Update(x), Assign(x)),
            Cond(Nothing, Assign(x), Update(x)),
            Cond(Nothing, Nothing, Assign(x))} : x \in Names}
===============================================================================
