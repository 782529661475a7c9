----------------------------- MODULE BasicFuncs -----------------------------
(***************************************************************************)
(* The string helpers of f1g_basic_funcs.c that the parsers are built of.  *)
(* A text is a sequence of characters, a pointer into it a position, NULL  *)
(* is 0, and the end of a range is the position behind it, as pstr_end is. *)
(* cmp_str is taken for lengths below 512: no caller compares longer ones. *)
(***************************************************************************)
EXTENDS Integers, Sequences, FiniteSetsExt

NULL == 0
NUL == "\\0"

\* Memory of n times ch, and memcpy(buf + at - 1, text, len) into memory: what
\* lies outside is not kept.
Filled(ch, n) == [i \in 1 .. n |-> ch]
Put(buf, at, text) ==
    [i \in DOMAIN buf |-> IF i \in at .. (at + Len(text) - 1)
                          THEN text[i - at + 1] ELSE buf[i]]

\* cmp_str(s + b, t, strlen(t)) == 0.
cmp_str(s, b, t) ==
    /\ b + Len(t) - 1 <= Len(s)
    /\ \A i \in 1 .. Len(t) : s[b + i - 1] = t[i]

\* cmp_str2(s + b, len, t, strlen(t)) == 0: t is a prefix of the len bytes.
cmp_str2(s, b, len, t) == len >= Len(t) /\ cmp_str(s, b, t)

\* The first t between b and e.
find_str(s, b, e, t) ==
    LET hits == {i \in b .. (e - Len(t)) : cmp_str(s, i, t)}
    IN  IF hits = {} THEN NULL ELSE Min(hits)

\* The first position from b that is not ch, at most b + len.
skip_char(s, b, len, ch) ==
    Min({i \in b .. (b + len) : i = b + len \/ s[i] # ch} \cup
        (IF len < 0 THEN {b} ELSE {}))

\* The last position that is not ch, b - 1 if there is none.
strip_char(s, b, len, ch) ==
    Max({b - 1} \cup {i \in b .. (b + len - 1) : s[i] # ch})

\* What stands between prev and post, or between prev and the end; nothing
\* if there is no prev, or if it is longer than the caller's buffer.
substr(s, b, e, prev, post, data_size) ==
    LET pb == find_str(s, b, e, prev)
        from == pb + Len(prev)
        pe == find_str(s, from, e, post)
        found == SubSeq(s, from, (IF pe = NULL THEN e ELSE pe) - 1)
    IN  IF pb = NULL \/ Len(found) > data_size THEN <<>> ELSE found
=============================================================================
