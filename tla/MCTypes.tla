------------------------------- MODULE MCTypes -------------------------------
\* Instances of Types.
EXTENDS Types, TLC

CONSTANTS x, left, right

Variables   == {x}
Operands    == {left, right}
Alike       == Permutations(Operands)
Aliases     == "alias" :> {<<"i64">>, <<"val">>, <<"ptr", "i8">>}
            @@ "again" :> {<<"alias">>}
Expressions == {<<"i8">>, <<"float">>, <<"ptr">>, <<"ptr", "i8">>,
                <<"array", "i8">>, <<"val">>, <<"again">>, <<"ptr", "again">>,
                <<"array", "alias">>, <<"f">>, <<"struct">>}

Plain(e, n) == [union |-> FALSE, memb |-> <<[type |-> e, name |-> n]>>]
Union(a, b) == [union |-> TRUE, memb |-> <<[type |-> a, name |-> "a"],
                                           [type |-> b, name |-> "b"]>>]

\* A union between other members.
Structs ==
  "struct" :> {<<Plain(<<"array", "i8">>, "c"),
                 Union(<<"i8">>, <<"float">>), Plain(<<"alias">>, "d")>>}

SomeFunctions == "f" :> [parm |-> <<"i64">>, ret |-> <<"double">>]
          @@ "g" :> [parm |-> <<"float">>, ret |-> <<"ptr", "i8">>]
==============================================================================
