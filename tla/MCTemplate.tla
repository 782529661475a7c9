----------------------------- MODULE MCTemplate -----------------------------
(***************************************************************************)
(* Templates of up to four segments: text with braces and dollars that     *)
(* open nothing, escapes, variables, and variables that are none.          *)
(***************************************************************************)
EXTENDS Template

Plain(t) == [kind |-> "text", name |-> <<>>, text |-> t]
Var(n) == [kind |-> "var", name |-> n,
           text |-> <<VAR_FLAG, SPLIT_BEG>> \o n \o <<SPLIT_END>>]
Bad(t) == [kind |-> "bad", name |-> <<>>, text |-> t]
Escape == [kind |-> "esc", name |-> <<>>, text |-> <<VAR_FLAG, VAR_FLAG>>]

\* A variable without its end is text, if the file ends with it.
Unclosed == [kind |-> "open", name |-> <<>>, text |-> <<VAR_FLAG, SPLIT_BEG, "a">>]

Segments == {
    Plain(<<SPLIT_BEG, "a">>), Plain(<<SPLIT_END>>), Plain(<<VAR_FLAG, "-">>),
    Escape, Unclosed, Var(<<"a">>), Var(<<"b", "a">>),
    Bad(<<VAR_FLAG, SPLIT_BEG, SPLIT_END>>),
    Bad(<<VAR_FLAG, SPLIT_BEG, "-", SPLIT_END>>),
    Bad(<<VAR_FLAG, SPLIT_BEG, "a", VAR_FLAG>>),
    Bad(<<VAR_FLAG, SPLIT_BEG, "a", SPLIT_BEG>>),
    Bad(<<VAR_FLAG, SPLIT_BEG, "a", "a", "a", SPLIT_END>>)}

MCTemplates ==
    {f \in UNION {[1 .. k -> Segments] : k \in 0 .. 4} :
        \A i \in 1 .. (Len(f) - 1) : f[i].kind # "open"}

\* A number that fills its block but for the NUL, a string that does not fit
\* and one that is empty, and names that are refused.
MCVals == {
    [name |-> <<"A">>, val |-> <<"1", "2">>, fmt |-> TRUE],
    [name |-> <<"a">>, val |-> <<"x", "y", "z", "$">>, fmt |-> FALSE],
    [name |-> <<"b", "a">>, val |-> <<>>, fmt |-> FALSE],
    [name |-> <<"a", "a", "a">>, val |-> <<"1">>, fmt |-> TRUE]}

MCFold == [t \in {"A", "B"} |-> IF t = "A" THEN "a" ELSE "b"]
=============================================================================
