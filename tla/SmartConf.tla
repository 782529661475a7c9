----------------------------- MODULE SmartConf -----------------------------
(***************************************************************************)
(* f1g_smart_conf.c: an INI file is read block by block and line by line   *)
(* into tables of sections and items that grow.                            *)
(*                                                                         *)
(* A file is a sequence of lines, each with what it means (kind, name,     *)
(* val) and what is written (text).  The parser sees only the text, as a   *)
(* sequence of tokens of one byte each: the separators the code looks for  *)
(* and words.  Names and values are sequences of tokens.  Allocations      *)
(* succeed; the file does not change while it is read.                     *)
(***************************************************************************)
EXTENDS Integers, SequencesExt

CONSTANTS
    Files,          \* the files that may be read, as sequences of lines
    Names,          \* the names callers ask for
    Fold,           \* the case folding of strcasecmp, for words that have one
    Digits,         \* the tokens strtol and its kin take
    sec_size0, item_size0,  \* arguments of smart_conf_init
    buf_size,       \* st_blksize
    NAME_SIZE       \* ITEM_NAME_SIZE and SEC_NAME_SIZE

VARIABLES
    file, text,     \* the file, and its bytes
    rpos,           \* bytes read so far; read_remain is the rest
    buf,            \* buf[i] is byte i - 1 of the buffer, one more than a block
    buf_end, p_proc, proc_left, read_flag,
    secs,           \* p_conf->p_secs, with sec_size entries
    sec_num,        \* p_conf->sec_num
    sec_seq, item_seq,
    cur_sec,        \* index of p_cur_sec, 0 for NULL
    pc, ret

bvars == <<rpos, buf, buf_end, p_proc, proc_left, read_flag>>
tvars == <<secs, sec_seq, item_seq, cur_sec>>
vars == <<file, text, bvars, tvars, sec_num, pc, ret>>

NUL == "\\0"
NL == "\\n"
JUNK == "junk"
DFT_SEC_SIZE == 20
DFT_ITEM_SIZE == 20

Render(f, closed) ==
    FlattenSeq([i \in DOMAIN f |->
        IF i = Len(f) /\ ~closed THEN f[i].text ELSE Append(f[i].text, NL)])

Token == STRING \cup {NUL, NL, JUNK}

ASSUME ConfAssumption ==
    /\ \A f \in Files, closed \in BOOLEAN : Render(f, closed) \in Seq(Token)
    /\ sec_size0 \in Int /\ item_size0 \in Int
    /\ buf_size \in Nat \ {0, 1} /\ NAME_SIZE \in Nat \ {0}

Folded(s) ==
    [i \in DOMAIN s |-> IF s[i] \in DOMAIN Fold THEN Fold[s[i]] ELSE s[i]]
SameName(a, b) == Folded(a) = Folded(b)

-----------------------------------------------------------------------------
(* Strings.                                                                *)

\* The longest prefix without a token of S, and what comes behind it.
Span(s, S) ==
    LET stop == {i \in DOMAIN s : s[i] \in S}
    IN  IF stop = {} THEN s ELSE SubSeq(s, 1, Min(stop) - 1)
Behind(s, S) == SubSeq(s, Len(Span(s, S)) + 1, Len(s))

SkipSpaces(s) ==
    LET stop == {i \in DOMAIN s : s[i] # " "}
    IN  IF stop = {} THEN <<>> ELSE SubSeq(s, Min(stop), Len(s))

\* "trip space in tail", of a value that starts with something else.
Trim(s) ==
    LET keep == {i \in DOMAIN s : s[i] # " "}
    IN  IF keep = {} THEN <<>> ELSE SubSeq(s, 1, Max(keep))

-----------------------------------------------------------------------------
(* The tables.                                                             *)

NoItem == [item_name |-> <<>>, val |-> <<>>]
ZeroSec == [sec_name |-> <<>>, item_num |-> 0, p_items |-> <<>>]

\* Fresh entries are zeroed; a section keeps its item_size as the length of
\* p_items.
Default(n, dft) == IF n <= 0 THEN dft ELSE n
smart_conf_init ==
    [s \in 1 .. Default(sec_size0, DFT_SEC_SIZE) |->
        [ZeroSec EXCEPT !.p_items =
            [i \in 1 .. Default(item_size0, DFT_ITEM_SIZE) |-> NoItem]]]

\* sec_size * 2 is asked for; from 0 that would not grow.
Extended(n) == IF n * 2 <= n THEN (n + 1) * 2 ELSE n * 2

\* The first `kept` entries survive the move to the larger array.
Move(a, kept, zero) ==
    [i \in 1 .. Extended(Len(a)) |-> IF i <= kept THEN a[i] ELSE zero]

\* extend_sec_size copies sec_num sections; ini_read sets sec_num at its end.
extend_sec_size == Move(secs, sec_num, ZeroSec)

\* Mutant: the items are not copied.
extend_item_size_empty(s) == [s EXCEPT !.p_items = Move(s.p_items, 0, NoItem)]

extend_item_size(s) == [s EXCEPT !.p_items = Move(s.p_items, s.item_num, NoItem)]

-----------------------------------------------------------------------------
(* ini_read.                                                               *)

Init ==
    /\ file \in Files
    /\ \E closed \in BOOLEAN : text = Render(file, closed)
    /\ rpos = 0
    /\ buf = [i \in 1 .. (buf_size + 1) |-> JUNK]
    /\ buf_end = 0 /\ p_proc = 0 /\ proc_left = 0 /\ read_flag = FALSE
    /\ secs = smart_conf_init
    /\ sec_num = 0 /\ sec_seq = 0 /\ item_seq = 0 /\ cur_sec = 0
    /\ pc = "open" /\ ret = "none"

Return(code) == pc' = "done" /\ ret' = code

\* open, fstat and malloc; without the file F1G_ERR.
Open(ok) ==
    /\ pc = "open"
    /\ pc' = IF ok THEN "read" ELSE "no_file"
    /\ UNCHANGED <<file, text, bvars, tvars, sec_num, ret>>

\* What was left of the last block goes to the front of the buffer, and the
\* next block behind it.  buf_end counts only the bytes just read.
ReadBlock ==
    /\ pc = "read" /\ rpos < Len(text)
    /\ LET room == buf_size - proc_left
           len == IF Len(text) - rpos < room THEN Len(text) - rpos ELSE room
       IN  /\ buf' = SubSeq(buf, room + 1, buf_size)
                       \o SubSeq(text, rpos + 1, rpos + len)
                       \o SubSeq(buf, proc_left + len + 1, buf_size + 1)
           /\ rpos' = rpos + len
           /\ read_flag' = (rpos + len = Len(text))
           /\ buf_end' = len /\ proc_left' = len
    /\ p_proc' = 0 /\ pc' = "lines"
    /\ UNCHANGED <<file, text, tvars, sec_num, ret>>

\* The bytes from p_proc on, where the line among them ends, and the line
\* as a string without the spaces in front of it.
Block == SubSeq(buf, p_proc + 1, buf_end)
LineEnd == p_proc + Len(Span(Block, {NL}))
Line == SkipSpaces(Span(Block, {NL, NUL}))

\* Mutant: the newline is looked at again.
LineNextSame == LineEnd

\* p_proc behind the line and its newline.
LineNext == LineEnd + 1

\* A line the block cuts off: it is left for the next block, but proc_left,
\* counted from p_proc, is 0.
CutLine ==
    /\ pc = "lines" /\ p_proc < buf_end
    /\ LineEnd = buf_end /\ ~read_flag
    /\ p_proc' = LineEnd /\ proc_left' = buf_end - LineEnd
    /\ pc' = "read"
    /\ UNCHANGED <<file, text, rpos, buf, buf_end, read_flag, tvars, sec_num, ret>>

\* A line "[name]": the entry is made, then compared with the earlier ones.
Section(line) ==
    LET name == Span(Tail(line), {"]"})
        valid == Len(name) < NAME_SIZE /\ Behind(Tail(line), {"]"}) # <<>>
        table == IF sec_seq >= Len(secs) THEN extend_sec_size ELSE secs
        twice == \E i \in 1 .. sec_seq : SameName(name, table[i].sec_name)
    IN  /\ secs' = IF valid THEN [table EXCEPT ![sec_seq + 1].sec_name = name]
                            ELSE table
        /\ cur_sec' = sec_seq + 1
        /\ IF valid /\ ~twice
             THEN /\ sec_seq' = sec_seq + 1 /\ item_seq' = 0
                  /\ UNCHANGED <<pc, ret>>
             ELSE Return("F1G_ERR") /\ UNCHANGED <<sec_seq, item_seq>>

\* Mutant: the names of the section's items are not compared.
TakenNever(sec, name) == FALSE

\* One of the section's items has this name already.
Taken(sec, name) ==
    \E i \in 1 .. item_seq : SameName(name, sec.p_items[i].item_name)

\* A line "name = val" in a section.  With nothing but spaces behind the '='
\* the trimming runs back to it, and the length is minus the number of
\* spaces, which memcpy (one space) or malloc (more) is then given.
Item(line) ==
    LET name == Span(line, {" ", "="})
        valid == Len(name) < NAME_SIZE /\ Behind(line, {" ", "="}) # <<>>
        rest == SkipSpaces(Behind(line, {" ", "="}))
        val == SkipSpaces(Tail(rest))
        sec == IF item_seq >= Len(secs[cur_sec].p_items)
                 THEN extend_item_size(secs[cur_sec]) ELSE secs[cur_sec]
        named == [sec EXCEPT !.p_items[item_seq + 1].item_name = name]
        refused == ~valid \/ Taken(sec, name) \/ rest = <<>> \/ rest[1] # "="
        blanks == IF val = <<>> THEN Len(Tail(rest)) ELSE 0
    IN  IF refused \/ blanks > 0
          THEN /\ secs' = [secs EXCEPT ![cur_sec] = IF valid THEN named ELSE sec]
               /\ Return(IF ~refused /\ blanks = 1 THEN "SEGV" ELSE "F1G_ERR")
               /\ UNCHANGED <<sec_seq, item_seq, cur_sec>>
          ELSE /\ secs' = [secs EXCEPT ![cur_sec] =
                             [named EXCEPT !.p_items[item_seq + 1].val = Trim(val),
                                           !.item_num = @ + 1]]
               /\ item_seq' = item_seq + 1
               /\ UNCHANGED <<sec_seq, cur_sec, pc, ret>>

\* The same before the first section: p_cur_sec is NULL.
StrayItem == Return("SEGV") /\ UNCHANGED tvars

\* A whole line: it is closed with NUL and read as a string.
WholeLine ==
    /\ pc = "lines" /\ p_proc < buf_end
    /\ LineEnd < buf_end \/ read_flag
    /\ buf' = [buf EXCEPT ![LineEnd + 1] = NUL]
    /\ p_proc' = LineNext /\ proc_left' = buf_end - LineEnd
    /\ IF Line = <<>> \/ Line[1] = "#" THEN UNCHANGED <<tvars, pc, ret>>
       ELSE IF Line[1] = "[" THEN Section(Line)
       ELSE IF cur_sec = 0 THEN StrayItem ELSE Item(Line)
    /\ UNCHANGED <<file, text, rpos, buf_end, read_flag, sec_num>>

BlockDone ==
    /\ pc = "lines" /\ p_proc >= buf_end
    /\ pc' = "read"
    /\ UNCHANGED <<file, text, bvars, tvars, sec_num, ret>>

Finish ==
    /\ pc = "read" /\ rpos = Len(text)
    /\ sec_num' = sec_seq
    /\ Return("F1G_OK")
    /\ UNCHANGED <<file, text, bvars, tvars>>

-----------------------------------------------------------------------------
(* Readers of the tables.                                                  *)

\* find_item: the value of the first such item in the last such section; <<>>
\* where there is none, which the getters treat like an empty value.
find_item(s, x) ==
    LET At(i) == {j \in 1 .. secs[i].item_num :
                    SameName(secs[i].p_items[j].item_name, x)}
        hits == {i \in 1 .. sec_num : SameName(secs[i].sec_name, s) /\ At(i) # {}}
    IN  IF hits = {} THEN <<>>
        ELSE secs[Max(hits)].p_items[Min(At(Max(hits)))].val

\* The getters of numbers: the whole value must be one.
smart_conf_get_num(s, x, dft) ==
    LET val == find_item(s, x)
    IN  IF val = <<>> THEN <<"F1G_OK", dft>>
        ELSE IF \A i \in DOMAIN val : val[i] \in Digits THEN <<"F1G_OK", val>>
        ELSE <<"F1G_ERR", dft>>

\* The getter of strings, into a buffer of `room` bytes.
smart_conf_get_str(s, x, dft, room) ==
    LET val == find_item(s, x)
    IN  IF val = <<>> THEN <<"F1G_OK", dft>>
        ELSE IF Len(val) < room THEN <<"F1G_OK", val>>
        ELSE <<"F1G_ERR", dft>>

\* smart_conf_destroy: the whole smart_conf_t is zeroed.
Destroy ==
    /\ pc \in {"done", "no_file"} /\ ret # "SEGV"
    /\ pc' = "destroyed"
    /\ secs' = <<>> /\ sec_num' = 0
    /\ UNCHANGED <<file, text, bvars, sec_seq, item_seq, cur_sec, ret>>

Next ==
    \/ \E ok \in BOOLEAN : Open(ok)
    \/ ReadBlock \/ CutLine \/ WholeLine \/ BlockDone \/ Finish
    \/ Destroy

Spec == Init /\ [][Next]_vars

-----------------------------------------------------------------------------
(* What a file means.                                                      *)

Is(i, kind) == file[i].kind = kind

\* The section line above line i, 0 if there is none.
Above(i) == Max({0} \cup {h \in 1 .. (i - 1) : Is(h, "sec")})

Secs == {i \in DOMAIN file : Is(i, "sec")}
Items == {i \in DOMAIN file : Is(i, "item")}

WellFormed ==
    /\ \A i \in DOMAIN file : ~Is(i, "bad")
    /\ \A i, h \in Secs : SameName(file[i].name, file[h].name) => i = h
    /\ \A i, h \in Items :
         SameName(file[i].name, file[h].name) /\ Above(i) = Above(h) => i = h

\* The value the file gives to item x of section s, <<>> if it gives none.
Meaning(s, x) ==
    LET hits == {i \in Items : /\ SameName(file[i].name, x)
                               /\ Above(i) # 0
                               /\ SameName(file[Above(i)].name, s)}
    IN  IF hits = {} THEN <<>> ELSE file[Max(hits)].val

-----------------------------------------------------------------------------
(* Properties.                                                             *)

TypeOK ==
    /\ rpos \in 0 .. Len(text)
    /\ buf_end \in 0 .. buf_size /\ p_proc \in 0 .. (buf_size + 1)
    /\ proc_left \in 0 .. buf_size
    /\ sec_seq \in 0 .. Len(secs) \/ pc = "destroyed"
    /\ cur_sec \in 0 .. Len(secs) \/ pc = "destroyed"
    /\ \A i \in DOMAIN secs : secs[i].item_num \in 0 .. Len(secs[i].p_items)
    /\ sec_num \in 0 .. Len(secs)
    /\ ret \in {"none", "F1G_OK", "F1G_ERR", "SEGV"}

\* Of the files that fit into one block smart_conf_read accepts exactly the
\* well-formed ones (a section or an item that is repeated, in whatever case,
\* makes a file ill-formed), and then every getter answers what the file
\* says, however often the tables grew.
ReadMatchesFile ==
    pc = "done" /\ Len(text) <= buf_size =>
        /\ ret = "F1G_OK" <=> WellFormed
        /\ ret = "F1G_OK" => \A s, x \in Names :
             LET val == Meaning(s, x)
                 dft == <<"dft">>
             IN  /\ smart_conf_get_str(s, x, dft, buf_size)
                      = <<"F1G_OK", IF val = <<>> THEN dft ELSE val>>
                 /\ (smart_conf_get_num(s, x, dft)[1] = "F1G_OK")
                      <=> \A i \in DOMAIN val : val[i] \in Digits

\* What is left to do of the loops over blocks and lines.
Left ==
    (Len(text) - rpos) * (buf_size + 3)
        + (IF pc = "lines" THEN buf_end + 2 - p_proc ELSE 0)

\* ini_read comes to an end on every file, also when a block cuts a line, ends
\* with a line, or ends the file: every step leaves less to do.
Advances ==
    [][(pc \in {"read", "lines"}) => \/ pc' = "done"
                                     \/ Left' \in 0 .. (Left - 1)]_vars
=============================================================================
