---------------------------- MODULE MCSmartConf ----------------------------
(***************************************************************************)
(* Files of up to four lines: sections and items that differ in case only, *)
(* spaces around everything, an empty value, comments, and lines that must *)
(* be refused.                                                             *)
(***************************************************************************)
EXTENDS SmartConf

Sec(n, t) == [kind |-> "sec", name |-> n, val |-> <<>>, text |-> t]
It(n, v, t) == [kind |-> "item", name |-> n, val |-> v, text |-> t]
Other(k, t) == [kind |-> k, name |-> <<>>, val |-> <<>>, text |-> t]

MCLines == {
    Sec(<<"A">>, <<"[", "A", "]">>),
    Sec(<<"B">>, <<"[", "B", "]">>),
    It(<<"x">>, <<"1">>, <<"x", "=", "1">>),
    It(<<"y">>, <<>>, <<"y", "=">>),
    It(<<"y">>, <<"1", " ", "0">>, <<"y", " ", "=", " ", "1", " ", "0", " ", " ">>),
    Sec(<<"a">>, <<" ", "[", "a", "]">>),
    It(<<"X">>, <<"w">>, <<" ", "X", "=", "w">>),
    Other("blank", <<" ">>),
    Other("blank", <<"#", "x">>),
    Other("bad", <<"[", "A">>),
    Other("bad", <<"[", "A", "A", "]">>),
    Other("bad", <<"x", "1">>)}

\* Files that do not start with an item.
MCFiles ==
    {f \in UNION {[1 .. k -> MCLines] : k \in 0 .. 4} :
        f # <<>> => f[1].kind \in {"sec", "bad"}}
MCNames == {<<"A">>, <<"b">>, <<"x">>, <<"Y">>}
MCFold == [t \in {"A", "B", "X", "Y"} |->
             CASE t = "A" -> "a" [] t = "B" -> "b" [] t = "X" -> "x"
                                           [] t = "Y" -> "y"]
=============================================================================
