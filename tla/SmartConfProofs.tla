-------------------------- MODULE SmartConfProofs --------------------------
(***************************************************************************)
(* Proofs about SmartConf, for files of every length, every block size and *)
(* every size the tables start with: ini_read comes to an end, and it      *)
(* writes neither behind its buffer nor behind a table.                    *)
(***************************************************************************)
EXTENDS SmartConf, WellFoundedInduction, TLAPS

Text == Seq(Token)
ItemRecord == [item_name : Text, val : Text]
SecRecord == [sec_name : Text, item_num : Nat, p_items : Seq(ItemRecord)]

-----------------------------------------------------------------------------
(* Strings.                                                                *)

\* A set of numbers that is not empty has its minimum.
LEMMA MinIsMember ==
    ASSUME NEW T, T \subseteq Nat, T # {}
    PROVE  Min(T) \in T
  <1> DEFINE R == OpToRel(<, Nat)
  <1>1. IsWellFoundedOn(R, Nat)
    BY NatLessThanWellFounded
  <1>2. \A x, y \in Nat : x < y => <<x, y>> \in R
    BY DEF OpToRel
  <1> HIDE DEF R
  <1>3. PICK x \in T : \A y \in T : ~(<<y, x>> \in R)
    BY <1>1, WFMin
  <1>4. \A y \in T : x =< y
    <2> SUFFICES ASSUME NEW y \in T PROVE x =< y
      OBVIOUS
    <2>1. x \in Nat /\ y \in Nat /\ ~(y < x)
      BY <1>2, <1>3
    <2>2. QED
      BY <2>1
  <1>5. QED
    BY <1>4 DEF Min

\* One with an upper bound has its maximum.
LEMMA MaxIsMember ==
    ASSUME NEW T, NEW b \in Nat, T \subseteq 0 .. b, T # {}
    PROVE  Max(T) \in T
  <1> DEFINE U == {u \in Nat : b - u \in T}
  <1>1. U \subseteq Nat /\ U # {}
    <2>1. PICK t \in T : TRUE
      OBVIOUS
    <2>2. t \in 0 .. b /\ b - t \in Nat /\ b - (b - t) = t
      BY <2>1
    <2>3. b - t \in U
      BY <2>1, <2>2
    <2>4. QED
      BY <2>3
  <1>2. PICK u \in U : \A v \in U : u =< v
    <2> DEFINE R == OpToRel(<, Nat)
    <2>1. IsWellFoundedOn(R, Nat)
      BY NatLessThanWellFounded
    <2>2. \A x, y \in Nat : x < y => <<x, y>> \in R
      BY DEF OpToRel
    <2> HIDE DEF R, U
    <2>3. PICK x \in U : \A y \in U : ~(<<y, x>> \in R)
      BY <1>1, <2>1, WFMin
    <2>4. \A y \in U : x =< y
      <3> SUFFICES ASSUME NEW y \in U PROVE x =< y
        OBVIOUS
      <3>1. x \in Nat /\ y \in Nat /\ ~(y < x)
        BY <1>1, <2>2, <2>3
      <3>2. QED
        BY <3>1
    <2>5. QED
      BY <2>4
  <1>3. \A t \in T : t =< b - u
    <2> SUFFICES ASSUME NEW t \in T PROVE t =< b - u
      OBVIOUS
    <2>1. t \in 0 .. b /\ b - t \in Nat /\ b - (b - t) = t
      OBVIOUS
    <2>2. b - t \in U
      BY <2>1
    <2>3. u =< b - t /\ u \in Nat
      BY <1>2, <2>2
    <2>4. QED
      BY <2>1, <2>3
  <1>4. b - u \in T
    BY <1>2
  <1>5. QED
    BY <1>3, <1>4 DEF Max

\* A part of a text is a text, of the length its ends say.
LEMMA PartText ==
    ASSUME NEW s \in Text, NEW m \in Nat \ {0}, NEW n \in Int, n <= Len(s)
    PROVE  /\ SubSeq(s, m, n) \in Text
           /\ Len(SubSeq(s, m, n)) = IF m <= n THEN n - m + 1 ELSE 0
  BY DEF Text

\* What Span cuts is a text that is not longer, and the same of the text
\* behind it and of those without spaces.
LEMMA SpanText ==
    ASSUME NEW s \in Text, NEW S
    PROVE  /\ Span(s, S) \in Text /\ Len(Span(s, S)) \in 0 .. Len(s)
           /\ Behind(s, S) \in Text
  <1> DEFINE stop == {i \in DOMAIN s : s[i] \in S}
  <1>1. Len(s) \in Nat /\ DOMAIN s = 1 .. Len(s)
    BY DEF Text
  <1>2. stop # {} => Min(stop) \in 1 .. Len(s)
    BY <1>1, MinIsMember
  <1>3. Span(s, S) = IF stop = {} THEN s ELSE SubSeq(s, 1, Min(stop) - 1)
    BY DEF Span
  <1> HIDE DEF stop
  <1>4. Span(s, S) \in Text /\ Len(Span(s, S)) \in 0 .. Len(s)
    <2>1. CASE stop = {}
      BY <1>1, <1>3, <2>1
    <2>2. CASE stop # {}
      BY <1>1, <1>2, <1>3, <2>2, PartText
    <2>3. QED
      BY <2>1, <2>2
  <1>5. Behind(s, S) \in Text
    BY <1>1, <1>4, PartText DEF Behind
  <1>6. QED
    BY <1>4, <1>5

LEMMA TrimmedText ==
    ASSUME NEW s \in Text
    PROVE  SkipSpaces(s) \in Text /\ Trim(s) \in Text
  <1> DEFINE T == {i \in DOMAIN s : s[i] # " "}
  <1>1. Len(s) \in Nat /\ DOMAIN s = 1 .. Len(s)
    BY DEF Text
  <1>2. T # {} => Min(T) \in 1 .. Len(s) /\ Max(T) \in 1 .. Len(s)
    <2>1. T \subseteq 1 .. Len(s)
      BY <1>1
    <2> HIDE DEF T
    <2>2. T \subseteq Nat /\ T \subseteq 0 .. Len(s)
      BY <1>1, <2>1
    <2>3. T # {} => Min(T) \in T
      BY <2>2, MinIsMember
    <2>4. T # {} => Max(T) \in T
      BY <1>1, <2>2, MaxIsMember
    <2>5. QED
      BY <2>1, <2>3, <2>4
  <1>3. /\ SkipSpaces(s) = IF T = {} THEN <<>> ELSE SubSeq(s, Min(T), Len(s))
        /\ Trim(s) = IF T = {} THEN <<>> ELSE SubSeq(s, 1, Max(T))
    BY DEF SkipSpaces, Trim
  <1> HIDE DEF T
  <1>4. <<>> \in Text
    BY DEF Text
  <1>5. CASE T = {}
    BY <1>3, <1>4, <1>5
  <1>6. CASE T # {}
    BY <1>1, <1>2, <1>3, <1>6, PartText
  <1>7. QED
    BY <1>5, <1>6


-----------------------------------------------------------------------------
(* The buffer: what is left of a block is a byte at most, so that there is *)
(* room for the next one.                                                  *)

Positions ==
    /\ text \in Text /\ rpos \in 0 .. Len(text)
    /\ buf \in Text /\ Len(buf) = buf_size + 1
    /\ buf_end \in 0 .. buf_size /\ p_proc \in 0 .. (buf_size + 1)
    /\ proc_left \in 0 .. buf_size
    /\ pc = "lines" =>
         \/ p_proc = 0 /\ buf_end > 0
         \/ p_proc \in 1 .. (buf_end + 1) /\ proc_left = buf_end + 1 - p_proc
    /\ pc \in {"open", "read"} => proc_left \in 0 .. 1

\* The line that is read ends in the block, and its NUL goes into the buffer.
LEMMA LineInBuffer ==
    ASSUME Positions, pc = "lines", p_proc < buf_end
    PROVE  /\ LineEnd \in p_proc .. buf_end
           /\ LineEnd + 1 \in 1 .. Len(buf)
           /\ Line \in Text
  <1>1. Block \in Text /\ Len(Block) = buf_end - p_proc
    <2>1. /\ p_proc + 1 \in Nat \ {0} /\ buf_end \in Int /\ buf_end <= Len(buf)
          /\ p_proc + 1 <= buf_end /\ buf \in Text
          /\ buf_end - (p_proc + 1) + 1 = buf_end - p_proc
      BY ConfAssumption DEF Positions
    <2>2. QED
      BY <2>1, PartText DEF Block
  <1>2. Len(Span(Block, {NL})) \in 0 .. Len(Block)
    BY <1>1, SpanText
  <1>3. LineEnd \in p_proc .. buf_end
    BY <1>1, <1>2, ConfAssumption DEF LineEnd, Positions
  <1>4. LineEnd + 1 \in 1 .. Len(buf)
    BY <1>3, ConfAssumption DEF Positions
  <1>5. Line \in Text
    BY <1>1, SpanText, TrimmedText DEF Line
  <1>6. QED
    BY <1>3, <1>4, <1>5

\* A line changes pc only to end ini_read.
LEMMA LineStays ==
    ASSUME WholeLine PROVE pc' = "lines" \/ pc' = "done"
  BY DEF WholeLine, Section, StrayItem, Item, Return

\* A block is read: at least one byte, into the buffer.
LEMMA BlockRead ==
    ASSUME Positions, ReadBlock
    PROVE  Positions' /\ rpos' > rpos
  <1> DEFINE room == buf_size - proc_left
             len == IF Len(text) - rpos < room THEN Len(text) - rpos ELSE room
  <1>1. /\ Len(text) \in Nat /\ rpos \in Nat /\ rpos < Len(text)
        /\ proc_left \in 0 .. 1 /\ buf_size \in Nat /\ buf_size > 1
        /\ text \in Text /\ buf \in Text /\ Len(buf) = buf_size + 1
    BY ConfAssumption DEF Positions, ReadBlock, Text
  <1>2. /\ room \in 1 .. buf_size /\ len \in 1 .. room
        /\ rpos + len \in 0 .. Len(text)
    BY <1>1
  <1>3. /\ buf' = SubSeq(buf, room + 1, buf_size)
                    \o SubSeq(text, rpos + 1, rpos + len)
                    \o SubSeq(buf, proc_left + len + 1, buf_size + 1)
        /\ rpos' = rpos + len
        /\ buf_end' = len /\ proc_left' = len
        /\ p_proc' = 0 /\ pc' = "lines" /\ text' = text
    BY DEF ReadBlock
  <1> HIDE DEF len
  <1>4. /\ SubSeq(buf, room + 1, buf_size) \in Text
        /\ Len(SubSeq(buf, room + 1, buf_size)) = proc_left
    <2>1. room + 1 \in Nat \ {0} /\ buf_size \in Int /\ buf_size <= Len(buf)
      BY <1>1, <1>2
    <2>2. QED
      BY <1>1, <2>1, PartText
  <1>5. /\ SubSeq(text, rpos + 1, rpos + len) \in Text
        /\ Len(SubSeq(text, rpos + 1, rpos + len)) = len
    <2>1. rpos + 1 \in Nat \ {0} /\ rpos + len \in Int /\ rpos + len <= Len(text)
      BY <1>1, <1>2
    <2>2. QED
      BY <1>1, <1>2, <2>1, PartText
  <1>6. /\ SubSeq(buf, proc_left + len + 1, buf_size + 1) \in Text
        /\ Len(SubSeq(buf, proc_left + len + 1, buf_size + 1))
             = buf_size + 1 - proc_left - len
    <2>1. /\ proc_left + len + 1 \in Nat \ {0} /\ buf_size + 1 \in Int
          /\ buf_size + 1 <= Len(buf) /\ proc_left + len + 1 <= buf_size + 1
      BY <1>1, <1>2
    <2>2. QED
      BY <1>1, <1>2, <2>1, PartText
  <1>7. \A a, b, c \in Text : /\ a \o b \o c \in Text
                              /\ Len(a \o b \o c) = Len(a) + Len(b) + Len(c)
    BY DEF Text
  <1>8. buf' \in Text /\ Len(buf') = buf_size + 1
    <2>1. PICK a, b, c \in Text :
            /\ a = SubSeq(buf, room + 1, buf_size)
            /\ b = SubSeq(text, rpos + 1, rpos + len)
            /\ c = SubSeq(buf, proc_left + len + 1, buf_size + 1)
      BY <1>4, <1>5, <1>6
    <2>2. /\ buf' = a \o b \o c /\ Len(a) = proc_left /\ Len(b) = len
          /\ Len(c) = buf_size + 1 - proc_left - len
      BY <1>3, <1>4, <1>5, <1>6, <2>1
    <2>3. a \o b \o c \in Text /\ Len(a \o b \o c) = Len(a) + Len(b) + Len(c)
      BY <1>7
    <2>4. QED
      BY <1>1, <1>2, <2>2, <2>3
  <1>9. QED
    BY <1>1, <1>2, <1>3, <1>8 DEF Positions

\* The positions of a step.
LEMMA PositionsStep == ASSUME Positions, [Next]_vars PROVE Positions'
  <1>1. ASSUME NEW ok \in BOOLEAN, Open(ok) PROVE Positions'
    BY <1>1 DEF Open, Positions, bvars
  <1>2. CASE ReadBlock
    BY <1>2, BlockRead
  <1>3. CASE CutLine
    <2>1. LineEnd \in p_proc .. buf_end
      BY <1>3, LineInBuffer DEF CutLine
    <2>2. QED
      BY <1>3, <2>1, ConfAssumption DEF CutLine, Positions
  <1>4. CASE WholeLine
    <2>1. LineEnd \in p_proc .. buf_end /\ LineEnd + 1 \in 1 .. Len(buf)
      BY <1>4, LineInBuffer DEF WholeLine
    <2>2. buf' \in Text /\ Len(buf') = Len(buf)
      BY <1>4, <2>1 DEF WholeLine, Positions, Text, Token
    <2>3. /\ p_proc' = LineEnd + 1 /\ proc_left' = buf_end - LineEnd
          /\ text' = text /\ rpos' = rpos /\ buf_end' = buf_end
      BY <1>4 DEF WholeLine, LineNext
    <2>4. pc' \notin {"open", "read"}
      BY <1>4, LineStays
    <2>5. QED
      BY <2>1, <2>2, <2>3, <2>4, ConfAssumption DEF Positions
  <1>5. CASE BlockDone
    BY <1>5 DEF BlockDone, Positions, bvars
  <1>6. CASE Finish
    BY <1>6 DEF Finish, Return, Positions, bvars
  <1>7. CASE Destroy
    BY <1>7 DEF Destroy, Positions, bvars
  <1>8. CASE UNCHANGED vars
    BY <1>8 DEF vars, bvars, Positions
  <1>9. QED
    BY <1>1, <1>2, <1>3, <1>4, <1>5, <1>6, <1>7, <1>8 DEF Next

LEMMA PositionsStart == Init => Positions
  <1> SUFFICES ASSUME Init PROVE Positions
    OBVIOUS
  <1>1. text \in Text
    BY ConfAssumption DEF Init, Text
  <1>2. buf \in Text /\ Len(buf) = buf_size + 1
    BY ConfAssumption DEF Init, Text, Token
  <1>3. QED
    BY <1>1, <1>2, ConfAssumption DEF Init, Positions, Text

THEOREM PositionsKept == Spec => []Positions
  <1>1. QED
    BY PositionsStart, PositionsStep, PTL DEF Spec

-----------------------------------------------------------------------------
(* The loops come to an end.                                               *)

LEMMA LessLeft ==
    ASSUME NEW n \in Nat, NEW r \in Nat, NEW q \in 0 .. n, r < q,
           NEW size \in Nat, NEW e \in 0 .. size
    PROVE  (n - q) * (size + 3) + (e + 2 - 0) \in 0 .. ((n - r) * (size + 3) - 1)
  <1> DEFINE a == n - r
             b == n - q
             c == size + 3
  <1>1. /\ a \in Nat /\ b \in Nat /\ c \in Nat /\ a - b \in Nat /\ a - b >= 1
        /\ e + 2 - 0 \in 0 .. (c - 1)
    OBVIOUS
  <1> HIDE DEF a, b, c
  <1>2. a * c = b * c + (a - b) * c
    BY <1>1
  <1>3. b * c \in Nat
    BY <1>1
  <1>4. \A x \in Nat : x >= 1 => x * c >= c
    BY <1>1
  <1>5. (a - b) * c >= c /\ (a - b) * c \in Nat
    BY <1>1, <1>4
  <1>6. b * c + (e + 2 - 0) \in 0 .. (a * c - 1)
    BY <1>1, <1>2, <1>3, <1>5
  <1>7. QED
    BY <1>6 DEF a, b, c

\* Every step of the loops leaves less to do: ini_read comes to an end on
\* every file, for every block size, wherever the blocks cut the lines.
THEOREM ReadEnds == Spec => Advances
  <1> DEFINE Goal == (pc \in {"read", "lines"}) => \/ pc' = "done"
                                                   \/ Left' \in 0 .. (Left - 1)
  <1>1. ASSUME Positions, [Next]_vars PROVE [Goal]_vars
    <2>0. CASE UNCHANGED vars
      BY <2>0
    <2> DEFINE rest == Len(text) - rpos
    <2>1. rest \in Nat /\ rest * (buf_size + 3) \in Nat /\ buf_size \in Nat /\ Len(text) \in Nat
      BY <1>1, ConfAssumption DEF Positions, Text
    <2>2. ASSUME NEW ok \in BOOLEAN, Open(ok) PROVE Goal
      BY <2>2 DEF Open
    <2>3. CASE ReadBlock
      <3>1. Positions' /\ rpos' > rpos
        BY <1>1, <2>3, BlockRead
      <3>2. /\ pc = "read" /\ text' = text /\ pc' = "lines" /\ p_proc' = 0
            /\ Left = rest * (buf_size + 3)
        BY <2>1, <2>3 DEF ReadBlock, Left
      <3>3. Left' = (Len(text) - rpos') * (buf_size + 3) + (buf_end' + 2 - 0)
        BY <3>2 DEF Left
      <3>4. rpos' \in 0 .. Len(text) /\ buf_end' \in 0 .. buf_size /\ rpos \in Nat
        BY <1>1, <3>1, <3>2 DEF Positions
      <3>5. \A q \in 0 .. Len(text), e \in 0 .. buf_size : q > rpos =>
              (Len(text) - q) * (buf_size + 3) + (e + 2 - 0) \in 0 .. (Left - 1)
        BY <2>1, <3>2, <3>4, LessLeft
      <3>6. QED
        BY <3>1, <3>3, <3>4, <3>5, Zenon
    <2>4. CASE CutLine
      BY <1>1, <2>1, <2>4 DEF CutLine, Left, Positions
    <2>5. CASE WholeLine
      <3>1. LineEnd \in p_proc .. buf_end
        BY <1>1, <2>5, LineInBuffer DEF WholeLine
      <3>2. /\ p_proc' = LineEnd + 1 /\ text' = text /\ rpos' = rpos
            /\ buf_end' = buf_end /\ pc = "lines"
        BY <2>5 DEF WholeLine, LineNext
      <3>3. pc' = "lines" \/ pc' = "done"
        BY <2>5, LineStays
      <3>4. QED
        BY <1>1, <2>1, <3>1, <3>2, <3>3, ConfAssumption DEF Left, Positions
    <2>6. CASE BlockDone
      BY <1>1, <2>1, <2>6 DEF BlockDone, Left, Positions, bvars
    <2>7. CASE Finish
      BY <2>7 DEF Finish, Return
    <2>8. CASE Destroy
      BY <2>8 DEF Destroy
    <2>9. QED
      BY <1>1, <2>0, <2>2, <2>3, <2>4, <2>5, <2>6, <2>7, <2>8 DEF Next
  <1>2. QED
    BY <1>1, PositionsKept, PTL DEF Spec, Advances


-----------------------------------------------------------------------------
(* The tables: a section or an item is written to an entry there is.       *)

\* The entries behind the section that is being read are unused, and
\* item_seq counts the items it has.
Tables ==
    /\ secs \in Seq(SecRecord)
    /\ \A i \in 1 .. Len(secs) : secs[i].item_num <= Len(secs[i].p_items)
    /\ sec_seq \in Nat /\ cur_sec \in Nat /\ item_seq \in Nat
    /\ sec_num \in 0 .. Len(secs)
    /\ pc # "destroyed" =>
         /\ sec_seq <= Len(secs) /\ cur_sec <= Len(secs)
         /\ \A i \in 1 .. Len(secs) : i > sec_seq => secs[i].item_num = 0
    /\ pc \in {"open", "no_file", "read", "lines"} =>
         /\ cur_sec = sec_seq /\ sec_num = 0
         /\ sec_seq > 0 => item_seq = secs[sec_seq].item_num
    /\ ret \in {"none", "F1G_OK", "F1G_ERR", "SEGV"}

LEMMA Grows ==
    ASSUME NEW n \in Nat PROVE Extended(n) \in Nat /\ Extended(n) > n
  BY DEF Extended

LEMMA EmptyRecords == NoItem \in ItemRecord /\ ZeroSec \in SecRecord
  BY DEF NoItem, ZeroSec, ItemRecord, SecRecord, Text

\* The larger table of sections.
LEMMA MovedSecs ==
    ASSUME Tables
    PROVE  /\ extend_sec_size \in Seq(SecRecord)
           /\ Len(extend_sec_size) > Len(secs)
           /\ \A i \in 1 .. Len(extend_sec_size) :
                extend_sec_size[i] = IF i <= sec_num THEN secs[i] ELSE ZeroSec
  <1> DEFINE n == Extended(Len(secs))
             g(i) == IF i <= sec_num THEN secs[i] ELSE ZeroSec
  <1>1. Len(secs) \in Nat /\ secs \in Seq(SecRecord) /\ sec_num \in 0 .. Len(secs)
    BY DEF Tables
  <1>2. n \in Nat /\ n > Len(secs)
    BY <1>1, Grows
  <1>3. extend_sec_size = [i \in 1 .. n |-> g(i)]
    BY DEF extend_sec_size, Move
  <1> HIDE DEF n
  <1>4. \A i \in 1 .. n : g(i) \in SecRecord
    BY <1>1, <1>2, EmptyRecords
  <1>5. \A i : g(i) = IF i <= sec_num THEN secs[i] ELSE ZeroSec
    OBVIOUS
  <1> HIDE DEF g
  <1>6. /\ extend_sec_size \in Seq(SecRecord) /\ Len(extend_sec_size) = n
        /\ \A i \in 1 .. n : extend_sec_size[i] = g(i)
    BY <1>2, <1>3, <1>4
  <1>7. QED
    BY <1>2, <1>5, <1>6

\* A section with a larger table of items.
LEMMA MovedItems ==
    ASSUME NEW s \in SecRecord, s.item_num <= Len(s.p_items)
    PROVE  /\ extend_item_size(s) \in SecRecord
           /\ extend_item_size(s).item_num = s.item_num
           /\ Len(extend_item_size(s).p_items) > Len(s.p_items)
  <1> DEFINE n == Extended(Len(s.p_items))
             g(i) == IF i <= s.item_num THEN s.p_items[i] ELSE NoItem
             m == Move(s.p_items, s.item_num, NoItem)
  <1>1. /\ Len(s.p_items) \in Nat /\ s.p_items \in Seq(ItemRecord)
        /\ s.item_num \in Nat
    BY DEF SecRecord
  <1>2. n \in Nat /\ n > Len(s.p_items)
    BY <1>1, Grows
  <1>3. m = [i \in 1 .. n |-> g(i)]
    BY DEF Move
  <1> HIDE DEF n, m
  <1>4. \A i \in 1 .. n : g(i) \in ItemRecord
    BY <1>1, <1>2, EmptyRecords
  <1> HIDE DEF g
  <1>5. m \in Seq(ItemRecord) /\ Len(m) = n
    BY <1>2, <1>3, <1>4
  <1>6. extend_item_size(s) = [s EXCEPT !.p_items = m]
    BY DEF extend_item_size, m
  <1>7. /\ [s EXCEPT !.p_items = m] \in SecRecord
        /\ [s EXCEPT !.p_items = m].item_num = s.item_num
        /\ [s EXCEPT !.p_items = m].p_items = m
    BY <1>5 DEF SecRecord
  <1>8. QED
    BY <1>2, <1>5, <1>6, <1>7

\* A line with a section.
LEMMA SectionTables ==
    ASSUME Tables, pc = "lines", NEW line \in Text, line # <<>>, Section(line),
           sec_num' = sec_num
    PROVE  Tables'
  <1> DEFINE name == Span(Tail(line), {"]"})
             valid == Len(name) < NAME_SIZE /\ Behind(Tail(line), {"]"}) # <<>>
             table == IF sec_seq >= Len(secs) THEN extend_sec_size ELSE secs
             twice == \E i \in 1 .. sec_seq : SameName(name, table[i].sec_name)
             k == sec_seq + 1
  <1>1. /\ secs' = IF valid THEN [table EXCEPT ![k].sec_name = name] ELSE table
        /\ cur_sec' = k
        /\ \/ sec_seq' = k /\ item_seq' = 0 /\ UNCHANGED <<pc, ret>>
           \/ pc' = "done" /\ ret' = "F1G_ERR" /\ UNCHANGED <<sec_seq, item_seq>>
    BY DEF Section, Return
  <1>2. name \in Text
    <2>1. Tail(line) \in Text
      BY DEF Text
    <2>2. QED
      BY <2>1, SpanText
  <1> HIDE DEF name, valid, twice
  <1>3. /\ sec_seq \in Nat /\ sec_seq <= Len(secs) /\ Len(secs) \in Nat
        /\ secs \in Seq(SecRecord) /\ sec_num = 0 /\ k \in Nat /\ k > 0
        /\ item_seq \in Nat /\ ret \in {"none", "F1G_OK", "F1G_ERR", "SEGV"}
    BY DEF Tables
  <1>4. /\ table \in Seq(SecRecord) /\ k <= Len(table)
        /\ \A i \in 1 .. Len(table) :
             /\ table[i].item_num <= Len(table[i].p_items)
             /\ i > sec_seq => table[i].item_num = 0
    <2>1. CASE sec_seq >= Len(secs)
      <3>1. table = extend_sec_size
        BY <2>1
      <3>2. /\ ZeroSec.item_num = 0 /\ ZeroSec.item_num <= Len(ZeroSec.p_items)
        BY DEF ZeroSec
      <3>3. /\ extend_sec_size \in Seq(SecRecord) /\ Len(extend_sec_size) > Len(secs)
            /\ \A i \in 1 .. Len(extend_sec_size) : extend_sec_size[i] = ZeroSec
        BY <1>3, MovedSecs
      <3> HIDE DEF table
      <3>4. QED
        BY <1>3, <2>1, <3>1, <3>2, <3>3
    <2>2. CASE ~(sec_seq >= Len(secs))
      <3>1. table = secs
        BY <2>2
      <3>2. k <= Len(secs)
        BY <1>3, <2>2
      <3> HIDE DEF table
      <3>3. QED
        BY <1>3, <3>1, <3>2 DEF Tables
    <2>3. QED
      BY <2>1, <2>2
  <1> HIDE DEF table
  <1>5. /\ secs' \in Seq(SecRecord) /\ Len(secs') = Len(table)
        /\ \A i \in 1 .. Len(table) : /\ secs'[i].item_num = table[i].item_num
                                      /\ secs'[i].p_items = table[i].p_items
    <2>1. CASE ~valid
      BY <1>1, <1>4, <2>1
    <2>2. CASE valid
      <3> DEFINE r == [table[k] EXCEPT !.sec_name = name]
      <3>1. table[k] \in SecRecord
        BY <1>3, <1>4
      <3>2. /\ r \in SecRecord /\ r.item_num = table[k].item_num
            /\ r.p_items = table[k].p_items
        BY <1>2, <3>1 DEF SecRecord
      <3>3. secs' = [table EXCEPT ![k] = r]
        BY <1>1, <2>2
      <3> HIDE DEF r, k
      <3>4. QED
        BY <1>3, <1>4, <3>2, <3>3
    <2>3. QED
      BY <2>1, <2>2
  <1>6. \A i \in 1 .. Len(secs') :
             /\ secs'[i].item_num <= Len(secs'[i].p_items)
             /\ i > sec_seq => secs'[i].item_num = 0
    BY <1>4, <1>5
  <1>7. sec_num' \in 0 .. Len(secs') /\ k <= Len(secs') /\ sec_num' = 0 /\ Len(secs') \in Nat
    BY <1>3, <1>4, <1>5
  <1>8. CASE sec_seq' = k /\ item_seq' = 0 /\ UNCHANGED <<pc, ret>>
    <2>1. secs'[k].item_num = 0
      BY <1>3, <1>6, <1>7
    <2>2. \A i \in 1 .. Len(secs') : i > k => secs'[i].item_num = 0
      BY <1>3, <1>6, <1>7
    <2>3. QED
      BY <1>1, <1>3, <1>5, <1>6, <1>7, <1>8, <2>1, <2>2 DEF Tables
  <1>9. CASE pc' = "done" /\ ret' = "F1G_ERR" /\ UNCHANGED <<sec_seq, item_seq>>
    <2>1. sec_seq' <= Len(secs')
      BY <1>3, <1>7, <1>9
    <2>2. QED
      BY <1>1, <1>3, <1>5, <1>6, <1>7, <1>9, <2>1 DEF Tables
  <1>10. QED
    BY <1>1, <1>8, <1>9


\* A line with an item.
LEMMA ItemTables ==
    ASSUME Tables, pc = "lines", cur_sec # 0, NEW line \in Text, Item(line),
           sec_num' = sec_num
    PROVE  Tables'
  <1> DEFINE name == Span(line, {" ", "="})
             valid == Len(name) < NAME_SIZE /\ Behind(line, {" ", "="}) # <<>>
             rest == SkipSpaces(Behind(line, {" ", "="}))
             val == SkipSpaces(Tail(rest))
             sec == IF item_seq >= Len(secs[cur_sec].p_items)
                      THEN extend_item_size(secs[cur_sec]) ELSE secs[cur_sec]
             named == [sec EXCEPT !.p_items[item_seq + 1].item_name = name]
             refused == ~valid \/ Taken(sec, name) \/ rest = <<>> \/ rest[1] # "="
             blanks == IF val = <<>> THEN Len(Tail(rest)) ELSE 0
             full == [named EXCEPT !.p_items[item_seq + 1].val = Trim(val),
                                   !.item_num = @ + 1]
  <1>1. \/ /\ secs' = [secs EXCEPT ![cur_sec] = IF valid THEN named ELSE sec]
           /\ pc' = "done" /\ ret' \in {"SEGV", "F1G_ERR"}
           /\ UNCHANGED <<sec_seq, item_seq, cur_sec>>
        \/ /\ rest # <<>>
           /\ secs' = [secs EXCEPT ![cur_sec] = full]
           /\ item_seq' = item_seq + 1
           /\ UNCHANGED <<sec_seq, cur_sec, pc, ret>>
    BY DEF Item, Return
  <1>2. name \in Text /\ rest \in Text
    BY SpanText, TrimmedText
  <1>3. rest # <<>> => Trim(val) \in Text
    <2>1. \A r \in Text : r # <<>> => Tail(r) \in Text
      BY DEF Text
    <2> HIDE DEF rest
    <2>2. rest # <<>> => Tail(rest) \in Text
      BY <1>2, <2>1
    <2>3. QED
      BY <2>2, TrimmedText
  <1>4. /\ cur_sec \in 1 .. Len(secs) /\ cur_sec = sec_seq /\ sec_num = 0
        /\ secs \in Seq(SecRecord) /\ item_seq \in Nat
        /\ secs[cur_sec] \in SecRecord /\ item_seq = secs[cur_sec].item_num
        /\ secs[cur_sec].item_num <= Len(secs[cur_sec].p_items)
        /\ ret \in {"none", "F1G_OK", "F1G_ERR", "SEGV"}
    BY DEF Tables
  <1>5. /\ sec \in SecRecord /\ sec.item_num = item_seq
        /\ item_seq + 1 \in 1 .. Len(sec.p_items)
    <2>1. PICK s \in SecRecord : s = secs[cur_sec]
      BY <1>4
    <2>2. /\ s.p_items \in Seq(ItemRecord) /\ Len(s.p_items) \in Nat
          /\ s.item_num = item_seq /\ item_seq <= Len(s.p_items)
      BY <1>4, <2>1 DEF SecRecord
    <2>3. CASE item_seq >= Len(s.p_items)
      <3>1. sec = extend_item_size(s)
        BY <2>1, <2>3
      <3>2. /\ extend_item_size(s) \in SecRecord
            /\ extend_item_size(s).item_num = s.item_num
            /\ Len(extend_item_size(s).p_items) > Len(s.p_items)
        BY <2>2, MovedItems
      <3>3. Len(extend_item_size(s).p_items) \in Nat
        BY <3>2 DEF SecRecord
      <3> HIDE DEF sec
      <3>4. QED
        BY <1>4, <2>2, <2>3, <3>1, <3>2, <3>3
    <2>4. CASE ~(item_seq >= Len(s.p_items))
      <3>1. sec = s
        BY <2>1, <2>4
      <3> HIDE DEF sec
      <3>2. QED
        BY <1>4, <2>2, <2>4, <3>1
    <2>5. QED
      BY <2>3, <2>4
  <1> HIDE DEF sec, name, valid, rest, val
  <1> DEFINE k == item_seq + 1
  <1>6. /\ named \in SecRecord /\ named.item_num = item_seq
        /\ Len(named.p_items) = Len(sec.p_items)
    <2> DEFINE e == [sec.p_items[k] EXCEPT !.item_name = name]
               t == [sec.p_items EXCEPT ![k] = e]
    <2>1. /\ sec.p_items \in Seq(ItemRecord) /\ sec.p_items[k] \in ItemRecord
      BY <1>5 DEF SecRecord
    <2>2. e \in ItemRecord
      BY <1>2, <2>1 DEF ItemRecord
    <2>3. named = [sec EXCEPT !.p_items = t]
      OBVIOUS
    <2> HIDE DEF e
    <2>4. t \in Seq(ItemRecord) /\ Len(t) = Len(sec.p_items)
      BY <1>5, <2>1, <2>2
    <2> HIDE DEF t, named
    <2>5. QED
      BY <1>5, <2>3, <2>4 DEF SecRecord
  <1>7. rest # <<>> => /\ full \in SecRecord /\ full.item_num = k
                       /\ Len(full.p_items) = Len(sec.p_items)
    <2> SUFFICES ASSUME rest # <<>>
                 PROVE  /\ full \in SecRecord /\ full.item_num = k
                        /\ Len(full.p_items) = Len(sec.p_items)
      OBVIOUS
    <2> HIDE DEF named
    <2> DEFINE e == [named.p_items[k] EXCEPT !.val = Trim(val)]
               t == [named.p_items EXCEPT ![k] = e]
    <2>1. /\ named.p_items \in Seq(ItemRecord) /\ named.p_items[k] \in ItemRecord
      BY <1>5, <1>6 DEF SecRecord
    <2>2. e \in ItemRecord
      BY <1>3, <2>1 DEF ItemRecord
    <2>3. full = [named EXCEPT !.p_items = t, !.item_num = k]
      BY <1>6 DEF SecRecord
    <2> HIDE DEF e
    <2>4. t \in Seq(ItemRecord) /\ Len(t) = Len(sec.p_items)
      BY <1>5, <1>6, <2>1, <2>2
    <2>5. k \in Nat
      BY <1>4
    <2> HIDE DEF t, full, k
    <2>6. QED
      BY <1>6, <2>3, <2>4, <2>5 DEF SecRecord
  <1> HIDE DEF named, full
  <1>8. \A r \in SecRecord :
          r.item_num <= Len(r.p_items) /\ secs' = [secs EXCEPT ![cur_sec] = r] =>
            /\ secs' \in Seq(SecRecord) /\ Len(secs') = Len(secs)
            /\ \A i \in 1 .. Len(secs') : secs'[i].item_num <= Len(secs'[i].p_items)
            /\ \A i \in 1 .. Len(secs') : i > sec_seq => secs'[i].item_num = 0
            /\ secs'[sec_seq] = r
    <2> SUFFICES ASSUME NEW r \in SecRecord, r.item_num <= Len(r.p_items),
                        secs' = [secs EXCEPT ![cur_sec] = r]
                 PROVE  /\ secs' \in Seq(SecRecord) /\ Len(secs') = Len(secs)
                        /\ \A i \in 1 .. Len(secs') :
                             secs'[i].item_num <= Len(secs'[i].p_items)
                        /\ \A i \in 1 .. Len(secs') :
                             i > sec_seq => secs'[i].item_num = 0
                        /\ secs'[sec_seq] = r
      OBVIOUS
    <2>1. secs' \in Seq(SecRecord) /\ Len(secs') = Len(secs) /\ secs'[sec_seq] = r
      BY <1>4
    <2>2. \A i \in 1 .. Len(secs) : i # cur_sec => secs'[i] = secs[i]
      BY <1>4
    <2>3. /\ \A i \in 1 .. Len(secs) : secs[i].item_num <= Len(secs[i].p_items)
          /\ \A i \in 1 .. Len(secs) : i > sec_seq => secs[i].item_num = 0
      BY DEF Tables
    <2>4. QED
      BY <1>4, <2>1, <2>2, <2>3
  <1>9. CASE /\ secs' = [secs EXCEPT ![cur_sec] = IF valid THEN named ELSE sec]
             /\ pc' = "done" /\ ret' \in {"SEGV", "F1G_ERR"}
             /\ UNCHANGED <<sec_seq, item_seq, cur_sec>>
    <2>1. PICK r \in SecRecord : /\ r = IF valid THEN named ELSE sec
                                 /\ r.item_num = item_seq
                                 /\ Len(r.p_items) = Len(sec.p_items)
      BY <1>5, <1>6
    <2>2. r.item_num <= Len(r.p_items) /\ secs' = [secs EXCEPT ![cur_sec] = r]
      BY <1>4, <1>5, <1>9, <2>1
    <2>3. /\ secs' \in Seq(SecRecord) /\ Len(secs') = Len(secs)
          /\ \A i \in 1 .. Len(secs') : secs'[i].item_num <= Len(secs'[i].p_items)
          /\ \A i \in 1 .. Len(secs') : i > sec_seq => secs'[i].item_num = 0
      BY <1>8, <2>2
    <2>4. QED
      BY <1>4, <1>9, <2>3 DEF Tables
  <1>10. CASE /\ rest # <<>>
              /\ secs' = [secs EXCEPT ![cur_sec] = full]
              /\ item_seq' = item_seq + 1
              /\ UNCHANGED <<sec_seq, cur_sec, pc, ret>>
    <2>1. full \in SecRecord /\ full.item_num = k /\ full.item_num <= Len(full.p_items)
      BY <1>5, <1>7, <1>10
    <2>2. /\ secs' \in Seq(SecRecord) /\ Len(secs') = Len(secs)
          /\ \A i \in 1 .. Len(secs') : secs'[i].item_num <= Len(secs'[i].p_items)
          /\ \A i \in 1 .. Len(secs') : i > sec_seq => secs'[i].item_num = 0
          /\ secs'[sec_seq] = full
      BY <1>8, <1>10, <2>1
    <2>3. item_seq' = secs'[sec_seq].item_num /\ item_seq' \in Nat
      BY <1>4, <1>10, <2>1, <2>2
    <2>4. QED
      BY <1>4, <1>10, <2>2, <2>3 DEF Tables
  <1>11. QED
    BY <1>1, <1>9, <1>10

\* The tables of a step.
LEMMA TablesStep == ASSUME Positions, Tables, [Next]_vars PROVE Tables'
  <1>1. ASSUME NEW ok \in BOOLEAN, Open(ok) PROVE Tables'
    BY <1>1 DEF Open, Tables, tvars
  <1>2. CASE ReadBlock
    BY <1>2 DEF ReadBlock, Tables, tvars
  <1>3. CASE CutLine
    BY <1>3 DEF CutLine, Tables, tvars
  <1>4. CASE WholeLine
    <2>1. Line \in Text /\ pc = "lines" /\ sec_num' = sec_num
      BY <1>4, LineInBuffer DEF WholeLine
    <2>2. CASE UNCHANGED <<tvars, pc, ret>>
      BY <2>1, <2>2 DEF Tables, tvars
    <2>3. CASE Line # <<>> /\ Section(Line)
      BY <2>1, <2>3, SectionTables
    <2>4. CASE StrayItem
      BY <2>1, <2>4 DEF StrayItem, Return, Tables, tvars
    <2>5. CASE cur_sec # 0 /\ Item(Line)
      BY <2>1, <2>5, ItemTables
    <2>6. QED
      BY <1>4, <2>2, <2>3, <2>4, <2>5 DEF WholeLine
  <1>5. CASE BlockDone
    BY <1>5 DEF BlockDone, Tables, tvars
  <1>6. CASE Finish
    BY <1>6 DEF Finish, Return, Tables, tvars
  <1>7. CASE Destroy
    <2>1. <<>> \in Seq(SecRecord) /\ Len(<<>>) = 0
      OBVIOUS
    <2>2. QED
      BY <1>7, <2>1 DEF Destroy, Tables
  <1>8. CASE UNCHANGED vars
    BY <1>8 DEF vars, tvars, Tables
  <1>9. QED
    BY <1>1, <1>2, <1>3, <1>4, <1>5, <1>6, <1>7, <1>8 DEF Next

LEMMA TablesStart == Init => Tables
  <1> SUFFICES ASSUME Init PROVE Tables
    OBVIOUS
  <1> DEFINE n == Default(sec_size0, DFT_SEC_SIZE)
             m == Default(item_size0, DFT_ITEM_SIZE)
             items == [i \in 1 .. m |-> NoItem]
             s == [ZeroSec EXCEPT !.p_items = items]
  <1>1. n \in Nat /\ m \in Nat
    BY ConfAssumption DEF Default, DFT_SEC_SIZE, DFT_ITEM_SIZE
  <1>2. secs = [i \in 1 .. n |-> s]
    BY DEF Init, smart_conf_init
  <1> HIDE DEF n, m
  <1>3. items \in Seq(ItemRecord) /\ Len(items) = m
    BY <1>1, EmptyRecords
  <1> HIDE DEF items
  <1>4. s \in SecRecord /\ s.item_num = 0 /\ s.p_items = items
    BY <1>3, EmptyRecords DEF SecRecord, ZeroSec
  <1> HIDE DEF s
  <1>5. /\ secs \in Seq(SecRecord) /\ Len(secs) = n
        /\ \A i \in 1 .. Len(secs) : secs[i] = s
    BY <1>1, <1>2, <1>4
  <1>6. QED
    BY <1>1, <1>3, <1>4, <1>5 DEF Init, Tables

\* However the file names sections and items, and however often the tables
\* grow: the buffer, the tables of sections and the tables of items are
\* written inside their bounds only, and the counters say no more than the
\* tables hold.
THEOREM TablesKept == Spec => []TypeOK
  <1>1. Positions /\ Tables => TypeOK
    <2> SUFFICES ASSUME Positions, Tables PROVE TypeOK
      OBVIOUS
    <2>1. \A i \in DOMAIN secs : secs[i].item_num \in 0 .. Len(secs[i].p_items)
      <3> SUFFICES ASSUME NEW i \in DOMAIN secs
                   PROVE  secs[i].item_num \in 0 .. Len(secs[i].p_items)
        OBVIOUS
      <3>1. /\ i \in 1 .. Len(secs) /\ secs[i] \in SecRecord
            /\ secs[i].item_num <= Len(secs[i].p_items)
        BY DEF Tables
      <3>2. secs[i].item_num \in Nat /\ secs[i].p_items \in Seq(ItemRecord)
        BY <3>1 DEF SecRecord
      <3>3. QED
        BY <3>1, <3>2
    <2>2. QED
      BY <2>1 DEF Positions, Tables, TypeOK
  <1>2. Spec => []Tables
    <2>1. Positions /\ Tables /\ [Next]_vars => Tables'
      BY TablesStep
    <2>2. QED
      BY <2>1, PositionsKept, TablesStart, PTL DEF Spec
  <1>3. QED
    BY <1>1, <1>2, PositionsKept, PTL
=============================================================================
