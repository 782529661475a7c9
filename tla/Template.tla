------------------------------ MODULE Template ------------------------------
(***************************************************************************)
(* f1g_template.c and f1g_data_set.c: a template file is cut, in place,    *)
(* into nodes that are blocks of text or variables ${name}; executing the  *)
(* template copies the blocks and the values a data set has for the        *)
(* variables.  $$ stands for $: the rest of the buffer moves one byte to   *)
(* the left, under the nodes that were cut before.                         *)
(*                                                                         *)
(* A file is a sequence of segments, each with its meaning and its text;   *)
(* the parser sees the text only, in tokens of one byte.  A pointer into   *)
(* the buffer is a position, 0 for NULL.  Allocations succeed, and memcpy  *)
(* to overlapping memory one byte lower copies upwards.                    *)
(***************************************************************************)
EXTENDS BasicFuncs, SequencesExt

CONSTANTS
    Files,          \* the files that may be parsed
    Vals,           \* what callers add: [name, val, fmt], fmt TRUE for an int
    Fold,           \* the case folding of strncasecmp, for tokens that have one
    NameChars,      \* the tokens _check_syntax_chars lets pass
    node_size0,     \* argument of f1g_template_init
    key_size0,      \* argument of data_set_init
    val_size,       \* size of the buffer passed to f1g_template_exec
    KEY_VAL_SIZE, MAX_VAR_LEN, MAX_KEY_LEN,
    MaxKeys, MaxExec    \* bounds: keys added, executions

ASSUME TemplateAssumption ==
    /\ node_size0 \in Nat \ {0} /\ key_size0 \in Nat \ {0}
    /\ val_size \in Nat /\ KEY_VAL_SIZE \in Nat
    /\ MAX_VAR_LEN \in Nat /\ MAX_KEY_LEN \in Nat

VARIABLES
    file,
    buf,            \* p_tpl->buf
    pb, pe,         \* of f1g_template_parse; find_variable moves pe
    p,              \* pb of find_variable
    var_flag,       \* p_var_flag
    vtag_b,         \* *p_vtag_b, set once "${" was found
    nodes,          \* p_tpl->p_nodes, with node_size entries
    node_num,
    keys,           \* p_ds->p_keys, with key_size entries
    key_num,
    out,            \* the bytes written into p_buf->val
    seq,            \* i of f1g_template_exec
    execs,          \* executions so far
    added,          \* history: what was added to the data set
    pc, rst

pvars == <<buf, pb, pe, p, var_flag, vtag_b>>
nvars == <<nodes, node_num>>
kvars == <<keys, key_num>>
xvars == <<out, seq, execs>>
tplvars == <<file, pvars, nvars, kvars, xvars, added, pc, rst>>

VAR_FLAG == "$"
SPLIT_BEG == "{"
SPLIT_END == "}"

Folded(s) ==
    [i \in DOMAIN s |-> IF s[i] \in DOMAIN Fold THEN Fold[s[i]] ELSE s[i]]

ZeroNode == [node_type |-> "NODE_TYPE_VAR", var_name |-> <<>>, data |-> 0,
             data_len |-> 0]
ZeroKey == [key |-> <<>>, val |-> <<>>, size |-> 0]

\* A table of twice the size, with the used entries copied.
Doubled(table, used, zero) ==
    [i \in 1 .. (2 * Len(table)) |-> IF i <= used THEN table[i] ELSE zero]

\* Every key of a fresh data set has a block for its value.
data_set_init ==
    [i \in 1 .. key_size0 |-> [ZeroKey EXCEPT !.size = KEY_VAL_SIZE]]

TplInit ==
    /\ file \in Files
    /\ buf = FlattenSeq([i \in DOMAIN file |-> file[i].text])
    /\ pb = 1 /\ pe = Len(buf) + 1
    /\ p = 1 /\ var_flag = 0 /\ vtag_b = 0
    /\ nodes = [i \in 1 .. node_size0 |-> ZeroNode] /\ node_num = 0
    /\ keys = data_set_init /\ key_num = 0
    /\ out = <<>> /\ seq = 0 /\ execs = 0 /\ added = <<>>
    /\ pc = "open" /\ rst = "none"

-----------------------------------------------------------------------------
(* f1g_template_parse.                                                     *)

ParseFail == pc' = "failed" /\ rst' = "F1G_ERR"

\* open, fstat, malloc and read, all of which may fail; an empty file is
\* refused.
Open(ok) ==
    /\ pc = "open"
    /\ IF ~ok THEN pc' = "no_file" /\ rst' = "F1G_ERR"
       ELSE IF buf = <<>> THEN ParseFail
       ELSE pc' = "find" /\ UNCHANGED rst
    /\ UNCHANGED <<file, pvars, nvars, kvars, xvars, added>>

InFind == pc = "find" /\ p # pe
FindFrame == UNCHANGED <<file, pb, nvars, kvars, xvars, added>>

\* Mutant: the end of the data stays where it was.
UnescapeSameEnd ==
    /\ buf' = SubSeq(buf, 1, var_flag - 1) \o SubSeq(buf, p, Len(buf))
                 \o <<Last(buf)>>
    /\ var_flag' = 0
    /\ UNCHANGED <<pe, p>>

\* "$$": the bytes from the second $ on move over the first one.  p now
\* points behind the $ that is left.
Unescape ==
    /\ buf' = SubSeq(buf, 1, var_flag - 1) \o SubSeq(buf, p, pe - 1)
                 \o SubSeq(buf, pe - 1, Len(buf))
    /\ pe' = pe - 1 /\ var_flag' = 0
    /\ UNCHANGED p

FindFlag ==
    /\ InFind /\ buf[p] = VAR_FLAG
    /\ IF var_flag # 0 /\ p = var_flag + 1
         THEN Unescape /\ UNCHANGED <<pc, rst>>
         ELSE IF vtag_b # 0 THEN ParseFail /\ UNCHANGED <<buf, pe, p, var_flag>>
         ELSE /\ var_flag' = p /\ p' = p + 1
              /\ UNCHANGED <<buf, pe, pc, rst>>
    /\ UNCHANGED vtag_b
    /\ FindFrame

FindBeg ==
    /\ InFind /\ buf[p] = SPLIT_BEG
    /\ p' = p + 1
    /\ IF var_flag # 0 /\ p = var_flag + 1
         THEN vtag_b' = p /\ UNCHANGED <<var_flag, pc, rst>>
         ELSE IF vtag_b # 0 THEN ParseFail /\ UNCHANGED <<var_flag, vtag_b>>
         ELSE var_flag' = 0 /\ UNCHANGED <<vtag_b, pc, rst>>
    /\ UNCHANGED <<buf, pe>>
    /\ FindFrame

\* Mutant: an empty name is a name.
FindEndEmpty ==
    /\ InFind /\ buf[p] = SPLIT_END
    /\ IF vtag_b = 0 THEN p' = p + 1 /\ UNCHANGED <<pc, rst>>
       ELSE pc' = "cut" /\ UNCHANGED <<p, rst>>
    /\ UNCHANGED <<buf, pe, var_flag, vtag_b>>
    /\ FindFrame

\* The end of a name; a name of no characters is an error.
FindEnd ==
    /\ InFind /\ buf[p] = SPLIT_END
    /\ IF vtag_b = 0 THEN p' = p + 1 /\ UNCHANGED <<pc, rst>>
       ELSE IF p = vtag_b + 1 THEN ParseFail /\ UNCHANGED p
       ELSE pc' = "cut" /\ UNCHANGED <<p, rst>>
    /\ UNCHANGED <<buf, pe, var_flag, vtag_b>>
    /\ FindFrame

\* _check_syntax_chars
NameChar(ch) == ch \in NameChars

FindOther ==
    /\ InFind /\ buf[p] \notin {VAR_FLAG, SPLIT_BEG, SPLIT_END}
    /\ IF vtag_b # 0 /\ ~NameChar(buf[p])
         THEN ParseFail /\ UNCHANGED p
         ELSE p' = p + 1 /\ UNCHANGED <<pc, rst>>
    /\ UNCHANGED <<buf, pe, var_flag, vtag_b>>
    /\ FindFrame

-----------------------------------------------------------------------------
(* Nodes.                                                                  *)

Table == [nodes |-> nodes, num |-> node_num]

\* f1g_template_add_node, with f1g_template_extent_cap.
f1g_template_add_node(t, node) ==
    LET room == IF t.num >= Len(t.nodes) THEN Doubled(t.nodes, t.num, ZeroNode)
                                         ELSE t.nodes
    IN  [nodes |-> [room EXCEPT ![t.num + 1] = node], num |-> t.num + 1]

\* The text in front of the variable, without its $; or the rest of the
\* file, without its last byte.
WithBlock(t, tag) ==
    IF tag - pb - 1 > 0
      THEN f1g_template_add_node(t, [node_type |-> "NODE_TYPE_BLK_DATA",
               var_name |-> <<>>, data |-> pb, data_len |-> tag - pb - 1])
      ELSE t

\* The next call of find_variable starts behind `end`.
Continue(t, end) ==
    /\ nodes' = t.nodes /\ node_num' = t.num
    /\ pb' = end + 1 /\ p' = end + 1 /\ var_flag' = 0 /\ vtag_b' = 0
    /\ IF end + 1 < pe THEN pc' = "find" /\ UNCHANGED rst
                       ELSE pc' = "ready" /\ rst' = "F1G_OK"
    /\ UNCHANGED <<buf, pe>>

\* RST_FOUND_VAR: p is at the closing brace.
CutVar ==
    /\ pc = "cut"
    /\ LET name == SubSeq(buf, vtag_b + 1, p - 1)
           t == WithBlock(Table, vtag_b)
       IN  IF Len(name) > MAX_VAR_LEN
             THEN /\ nodes' = t.nodes /\ node_num' = t.num
                  /\ ParseFail /\ UNCHANGED pvars
             ELSE Continue(f1g_template_add_node(t, [ZeroNode EXCEPT !.var_name = name]), p)
    /\ UNCHANGED <<file, kvars, xvars, added>>

\* RST_FOUND_NONE.
CutRest ==
    /\ pc = "find" /\ p = pe
    /\ Continue(WithBlock(Table, pe), pe)
    /\ UNCHANGED <<file, kvars, xvars, added>>

-----------------------------------------------------------------------------
(* The data set.                                                           *)

Grown == IF key_num >= Len(keys) THEN Doubled(keys, key_num, ZeroKey) ELSE keys

\* key_info_extent_cap to one and a half of what is needed.
Room(size, len) == IF size < len THEN len + len \div 2 ELSE size

\* What snprintf leaves of the digits: one byte is kept for the NUL.
PrintedInt(val, size) ==
    IF Len(val) < size THEN val ELSE Append(SubSeq(val, 1, size - 1), NUL)

\* data_set_add_int_var, data_set_add_str_var.  The table grows before the
\* name is looked at.
data_set_add(v) ==
    /\ pc \in {"ready", "executed"} /\ pc' = "ready"
    /\ Len(added) < MaxKeys
    /\ LET old == Grown[key_num + 1]
           size == Room(old.size, Len(v.val))
           val == IF v.fmt THEN PrintedInt(v.val, size) ELSE v.val
       IN  IF Len(v.name) \notin 1 .. MAX_KEY_LEN
             THEN keys' = Grown /\ UNCHANGED <<key_num, added>>
             ELSE /\ keys' = [Grown EXCEPT ![key_num + 1] =
                               [key |-> v.name, val |-> val, size |-> size]]
                  /\ key_num' = key_num + 1
                  /\ added' = Append(added, v)
    /\ UNCHANGED <<file, pvars, nvars, xvars, rst>>

\* data_set_get_val compares the first strlen(name) bytes; <<>> for NULL,
\* which is treated like an empty value.
data_set_get_val(name) ==
    LET hits == {i \in 1 .. key_num : IsPrefix(Folded(name), Folded(keys[i].key))}
    IN  IF hits = {} THEN <<>> ELSE keys[Min(hits)].val

-----------------------------------------------------------------------------
(* f1g_template_exec.                                                      *)

ExecCall ==
    /\ pc \in {"ready", "executed"} /\ execs < MaxExec
    /\ out' = <<>> /\ seq' = 1 /\ execs' = execs + 1
    /\ pc' = "exec" /\ rst' = "none"
    /\ UNCHANGED <<file, pvars, nvars, kvars, added>>

NodeText(n) == SubSeq(buf, n.data, n.data + n.data_len - 1)

ExecNode ==
    /\ pc = "exec" /\ seq <= node_num
    /\ LET n == nodes[seq]
           text == IF n.node_type = "NODE_TYPE_VAR"
                     THEN data_set_get_val(n.var_name) ELSE NodeText(n)
       IN  IF val_size - Len(out) < Len(text)
             THEN /\ pc' = "executed" /\ rst' = "F1G_ERR"
                  /\ UNCHANGED <<out, seq>>
             ELSE /\ out' = out \o text /\ seq' = seq + 1
                  /\ UNCHANGED <<pc, rst>>
    /\ UNCHANGED <<file, pvars, nvars, kvars, execs, added>>

ExecDone ==
    /\ pc = "exec" /\ seq > node_num
    /\ pc' = "executed" /\ rst' = "F1G_OK"
    /\ UNCHANGED <<file, pvars, nvars, kvars, xvars, added>>

data_set_destroy == keys' = <<>> /\ key_num' = 0

\* f1g_template_destroy, after data_set_destroy.
Destroy ==
    /\ pc \in {"ready", "executed", "failed", "no_file"}
    /\ pc' = "destroyed"
    /\ data_set_destroy
    /\ buf' = <<>> /\ nodes' = <<>> /\ node_num' = 0
    /\ UNCHANGED <<file, pb, pe, p, var_flag, vtag_b, xvars, added, rst>>

TplNext ==
    \/ \E ok \in BOOLEAN : Open(ok)
    \/ FindFlag \/ FindBeg \/ FindEnd \/ FindOther
    \/ CutVar \/ CutRest
    \/ \E v \in Vals : data_set_add(v)
    \/ ExecCall \/ ExecNode \/ ExecDone
    \/ Destroy

TplSpec == TplInit /\ [][TplNext]_tplvars

\* No template is read.
TplIdle ==
    /\ file = <<>> /\ buf = <<>> /\ pb = 1 /\ pe = 1
    /\ p = 1 /\ var_flag = 0 /\ vtag_b = 0
    /\ nodes = <<>> /\ node_num = 0 /\ keys = <<>> /\ key_num = 0
    /\ out = <<>> /\ seq = 0 /\ execs = 0 /\ added = <<>>
    /\ pc = "idle" /\ rst = "none"

-----------------------------------------------------------------------------
(* What a template means.                                                  *)

IsTemplate == file # <<>> /\ \A i \in DOMAIN file : file[i].kind # "bad"

\* The first value added under a name, in whatever case.
ValueOf(name) ==
    LET hits == {i \in DOMAIN added : Folded(added[i].name) = Folded(name)}
    IN  IF hits = {} THEN <<>> ELSE added[Min(hits)].val

Piece(i) ==
    CASE file[i].kind = "var" -> ValueOf(file[i].name)
      [] file[i].kind = "esc" -> <<VAR_FLAG>>
      [] OTHER -> file[i].text

Meaning == FlattenSeq([i \in DOMAIN file |-> Piece(i)])

-----------------------------------------------------------------------------
(* Properties.                                                             *)

TplTypeOK ==
    /\ pb \in 1 .. (Len(buf) + 2) \/ pc = "destroyed"
    /\ p \in pb .. pe \/ pc \in {"ready", "exec", "executed", "destroyed"}
    /\ var_flag \in 0 .. p /\ vtag_b \in 0 .. p
    /\ node_num \in 0 .. Len(nodes) /\ key_num \in 0 .. Len(keys)
    /\ \A i \in 1 .. node_num : nodes[i].data + nodes[i].data_len <= pe
    /\ \A i \in 1 .. key_num : Len(keys[i].val) <= keys[i].size
    /\ Len(out) <= val_size
    /\ rst \in {"none", "F1G_OK", "F1G_ERR"}

\* f1g_template_parse accepts exactly the files whose variables have names of
\* allowed characters and length, whatever braces and single or doubled
\* dollars stand in the text around them.
ParseMatches ==
    /\ pc = "failed" => ~IsTemplate
    /\ pc = "ready" => IsTemplate

\* What is written: all that is meant, but for the last byte of a file that
\* does not end with a variable, which the node of
\* the rest is too short for (f1g_template_parse).
Written ==
    IF file # <<>> /\ Last(file).kind # "var" THEN Front(Meaning) ELSE Meaning

\* Every execution of a template writes what the template means for the values
\* added, up to the byte that the last block lacks, and fails exactly when that
\* does not fit: no block already cut is disturbed when a later $$ moves the
\* buffer, or when the tables of nodes and keys grow (f1g_template_exec).
ExecMatches ==
    pc = "executed" =>
        /\ rst = "F1G_OK" => out = Written
        /\ rst = "F1G_ERR" => Len(Written) > val_size

\* "Escape characters: '$$' --> '$'" (find_variable): a template of variables
\* and escapes is written with a $ for every $$ of its file.
EscapesWritten ==
    /\ pc = "executed" /\ rst = "F1G_OK"
    /\ \A i \in DOMAIN file : file[i].kind \in {"esc", "var"}
    => out = Meaning
=============================================================================
