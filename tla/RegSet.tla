-------------------------------- MODULE RegSet --------------------------------
(***************************************************************************)
(* f1g_regset.c: rules in a growing table; the value of the first rule     *)
(* that occurs in a text is its match.                                     *)
(***************************************************************************)
EXTENDS F1gBuffer

CONSTANTS
    Rules, Values,  \* what clients add
    RuleData,       \* the texts they match
    RuleStep,       \* 10: by how much the table grows
    RuleRoom,       \* 64: what the buffer of a rule has to spare
    MaxRules        \* bound on the rules

ASSUME RuleAssumption ==
    /\ Rules \subseteq Seq(STRING) /\ Values \subseteq Seq(STRING)
    /\ RuleStep \in Nat \ {0} /\ RuleRoom \in Nat

VARIABLES
    prs,            \* the regset_t
    ruled           \* history: the rules added

rsvars == <<prs, ruled>>

NoRule == [rule |-> <<>>, reg_value |-> <<>>]

\* regset_init: the table has rule_size entries of zero, but rule_size is not
\* stored.
regset_create(rule_size) ==
    [rule_num |-> 0, rule_size |-> 0,
     p_rules |-> Filled(NoRule, IF rule_size <= 0 THEN RuleStep ELSE rule_size)]

\* Mutant: the rules are not copied.
EnlargedWithoutRules(rs, size) ==
    [rs EXCEPT !.rule_size = size, !.p_rules = Filled(NoRule, size)]

regset_enlarge_cap(rs, size) ==
    [rs EXCEPT !.rule_size = size,
               !.p_rules = Put(Filled(NoRule, size), 1, SubSeq(@, 1, rs.rule_num))]

regset_addreg(rs, rule, value) ==
    LET room == IF rs.rule_num >= rs.rule_size
                THEN regset_enlarge_cap(rs, rs.rule_size + RuleStep) ELSE rs
        Buffered(text) == buffer_append(buffer_init(Len(text) + RuleRoom), text)
    IN  [room EXCEPT
            !.p_rules[rs.rule_num + 1] =
                [rule |-> buffer_data(Buffered(rule)),
                 reg_value |-> buffer_data(Buffered(value))],
            !.rule_num = @ + 1]

Occurs(rule, data) == find_str(data, 1, Len(data) + 1, rule) # NULL

\* One value, or none where the code returns NULL and F1G_ERR.
regset_match(rs, data) ==
    LET hits == {i \in 1 .. rs.rule_num : Occurs(rs.p_rules[i].rule, data)}
    IN  IF hits = {} THEN <<>> ELSE <<rs.p_rules[Min(hits)].reg_value>>

RegIdle == prs = regset_create(0) /\ ruled = <<>>
RegInit == prs \in {regset_create(n) : n \in {0, RuleStep - 1}} /\ ruled = <<>>

RegNext ==
    /\ Len(ruled) < MaxRules
    /\ \E rule \in Rules, value \in Values :
        /\ prs' = regset_addreg(prs, rule, value)
        /\ ruled' = Append(ruled, [rule |-> rule, value |-> value])

RegSpec == RegInit /\ [][RegNext]_rsvars

\* A text is matched by the first rule ever added that occurs in it, however
\* often the table has grown since, and by nothing if none occurs
\* (f1g_regset.c, regset_addreg and regset_match).
FirstRuleMatches ==
    \A data \in RuleData :
        LET hits == {i \in DOMAIN ruled : Occurs(ruled[i].rule, data)}
        IN  regset_match(prs, data) =
                IF hits = {} THEN <<>> ELSE <<ruled[Min(hits)].value>>
=============================================================================
