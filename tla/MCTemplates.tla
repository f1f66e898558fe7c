----------------------------- MODULE MCTemplates -----------------------------
(***************************************************************************)
(* Programs for TLC: two class templates, one alias template and two       *)
(* function templates.                                                     *)
(***************************************************************************)
EXTENDS Templates

T(path)       == [k |-> "type", path |-> path, leaf |-> "T"]
I(path)       == [k |-> "type", path |-> path, leaf |-> "int"]
C(f, path, v) == [k |-> "call", f |-> f, path |-> path, leaf |-> "T", v |-> v]

P(a, b, l, f, g) ==
    [t \in {"A", "B", "L", "f", "g"} |->
        CASE t = "A" -> a [] t = "B" -> b [] t = "L" -> <<l>> [] t = "f" -> f [] t = "g" -> g]

MCPrograms == {
    \* A in B by value and by pointer; f calls itself, and g with two argument types
    P(<<T(<<>>)>>, <<T(<<"A">>), T(<<"*", "A">>)>>, T(<<"B">>),
      <<T(<<"A">>), C("f", <<>>, 1), C("g", <<>>, 1), C("g", <<>>, 2)>>, <<T(<<"B">>)>>),
    \* A in its own fields by pointer; an alias of a nested use, an alias in a body
    P(<<T(<<"*", "A">>)>>, <<I(<<"A">>), T(<<"L">>)>>, T(<<"A", "A">>),
      <<C("g", <<"A">>, 1)>>, <<T(<<"L">>)>>),
    \* A over and over with another argument; B with itself as A's argument
    P(<<T(<<"A", "*">>)>>, <<T(<<"A", "B">>)>>, T(<<"*", "B">>),
      <<T(<<"*", "B">>)>>, <<>>),
    \* A and B in each other
    P(<<T(<<"B">>)>>, <<I(<<>>), T(<<"*", "A">>)>>, T(<<"A">>),
      <<T(<<"B">>), C("g", <<"*">>, 2)>>, <<T(<<"*", "A">>)>>),
    \* methods that call functions that use the class
    P(<<T(<<>>), C("f", <<>>, 1)>>, <<T(<<"A">>), C("f", <<>>, 2), C("g", <<"B">>, 1)>>,
      T(<<"A", "B">>), <<T(<<"A">>)>>, <<T(<<"*", "B">>)>>),
    \* f and g call one another, with another argument each time round
    P(<<T(<<>>)>>, <<T(<<"A">>)>>, T(<<"A">>),
      <<T(<<>>), C("g", <<"A">>, 1)>>, <<C("f", <<>>, 1)>>) }

MCTextOrder == <<"L", "f", "A", "g", "B">>

MCUsePaths == {<<"A">>, <<"B">>, <<"*", "B">>, <<"L">>, <<"A", "B">>, <<"L", "A">>, <<"A", "*", "B", "A">>}
=============================================================================
