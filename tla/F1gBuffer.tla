------------------------------ MODULE F1gBuffer ------------------------------
(***************************************************************************)
(* f1g_buffer.c: a growing buffer, or a reference to foreign memory.  The  *)
(* NUL behind a full buffer lies outside of it and is left out.            *)
(* Allocations succeed.                                                    *)
(***************************************************************************)
EXTENDS BasicFuncs

CONSTANTS
    BufTexts,       \* what clients append
    InitSizes,      \* the sizes clients ask for
    FormatRoom,     \* 128: what a formatted text adds to the buffer
    MaxLen          \* bound on what clients append

ASSUME BufferAssumption ==
    /\ BufTexts \subseteq Seq(STRING)
    /\ InitSizes \subseteq Nat /\ FormatRoom \in Nat

VARIABLES
    bbuf,           \* the buffer_t
    bgiven,         \* history: what was taken since the last clear
    bcut            \* history: the places in bgiven that lay beyond the room

bvars == <<bbuf, bgiven, bcut>>

BUF_FLAG_ALLO == 0
BUF_FLAG_REF == 1

buffer_init(size) ==
    [flag |-> BUF_FLAG_ALLO, size |-> size, len |-> 0, buf |-> Filled("?", size)]

buffer_cap(b) == b.size - b.len
buffer_data(b) == SubSeq(b.buf, 1, b.len)

\* Mutant: the old text is not copied.
EnlargedEmpty(b, new_size) ==
    IF new_size < b.size \/ b.flag = BUF_FLAG_REF THEN b
    ELSE [b EXCEPT !.size = new_size, !.buf = Filled("?", new_size)]

buffer_enlarge(b, new_size) ==
    IF new_size < b.size \/ b.flag = BUF_FLAG_REF THEN b
    ELSE LET size == IF new_size <= 0 THEN 512 ELSE new_size
         IN  [b EXCEPT !.size = size,
                       !.buf = Put(Filled("?", size), 1, buffer_data(b))]

\* The memory of a reference is exchanged; the length stays.
buffer_set(b, size) ==
    IF b.flag # BUF_FLAG_REF THEN b
    ELSE [b EXCEPT !.size = size, !.buf = Filled("r", size)]

Cut(text, n) == SubSeq(text, 1, IF n < Len(text) THEN n ELSE Len(text))

\* What does not fit is left out.
buffer_append(b, text) ==
    LET part == Cut(text, buffer_cap(b))
    IN  [b EXCEPT !.buf = Put(@, b.len + 1, part), !.len = @ + Len(part)]

\* vsnprintf: at most cap characters, the last of them a NUL.
Printed(buf, at, text, cap) ==
    IF cap <= 0 THEN buf ELSE Put(buf, at, Append(Cut(text, cap - 1), NUL))

\* Into the enlarged buffer the text is printed with the room of the old one
\* (and with arguments the first call has used up, which is not modelled).
buffer_append_format(b, text) ==
    LET cap == buffer_cap(b)
        once == [b EXCEPT !.buf = Printed(@, b.len + 1, text, cap)]
        large == buffer_enlarge(once, b.size + Len(text) + FormatRoom)
    IN  IF Len(text) <= cap THEN [once EXCEPT !.len = @ + Len(text)]
        ELSE IF b.flag = BUF_FLAG_REF THEN once
        ELSE [large EXCEPT !.buf = Printed(@, b.len + 1, text, cap),
                           !.len = @ + Len(text)]

buffer_clear(b) == [b EXCEPT !.len = 0, !.buf = Put(@, 1, <<NUL>>)]

\* All zero, without memory; a client may make a reference of it.
buffer_destroy == [flag |-> BUF_FLAG_ALLO, size |-> 0, len |-> 0, buf |-> <<>>]

-----------------------------------------------------------------------------
(* A client of one buffer.                                                 *)

BufferIdle == bbuf = buffer_destroy /\ bgiven = <<>> /\ bcut = {}
BufferInit ==
    /\ bbuf \in {buffer_init(size) : size \in InitSizes}
                \cup {[buffer_destroy EXCEPT !.flag = BUF_FLAG_REF]}
    /\ bgiven = <<>> /\ bcut = {}

Keeps == UNCHANGED <<bgiven, bcut>>
Restarts == bgiven' = <<>> /\ bcut' = {}

BufAppend(text) ==
    /\ bbuf' = buffer_append(bbuf, text)
    /\ bgiven' = bgiven \o Cut(text, buffer_cap(bbuf))
    /\ UNCHANGED bcut

\* F1G_ERR: a reference cannot grow.
Refuses(b, text) == Len(text) > buffer_cap(b) /\ b.flag = BUF_FLAG_REF

\* Where a text printed behind what was given is not itself: from the last
\* character of its room on, which becomes a NUL.
CutOff(given, text, room) == {Len(given) + n : n \in {m \in 1 .. Len(text) : m >= room}}

BufFormat(text) ==
    /\ bbuf' = buffer_append_format(bbuf, text)
    /\ IF Refuses(bbuf, text) THEN Keeps
       ELSE /\ bgiven' = bgiven \o text
            /\ bcut' = bcut \cup CutOff(bgiven, text, buffer_cap(bbuf))

BufferNext ==
    \/ /\ Len(bgiven) < MaxLen
       /\ \E text \in BufTexts : BufAppend(text) \/ BufFormat(text)
    \/ \E size \in InitSizes : bbuf' = buffer_enlarge(bbuf, size) /\ Keeps
    \/ bbuf.buf # <<>> /\ bbuf' = buffer_clear(bbuf) /\ Restarts
    \/ bbuf.len = 0 /\ (\E size \in InitSizes : bbuf' = buffer_set(bbuf, size)) /\ Keeps
    \/ bbuf.flag = BUF_FLAG_ALLO /\ bbuf' = buffer_destroy /\ Restarts

BufferSpec == BufferInit /\ [][BufferNext]_bvars

\* Two texts of one length that agree outside of some places.
AgreeBut(a, b, places) ==
    /\ Len(a) = Len(b)
    /\ \A n \in DOMAIN b \ places : a[n] = b[n]

\* The length never exceeds the memory, and the buffer holds what was taken
\* since it was cleared, in order: growing keeps it, called or by a formatted
\* text that exceeds the room; such a text is there as far as the old room
\* went, and what is put before and behind it is whole (f1g_buffer.c:117-126).
\* A text that is refused leaves nothing behind; what an append has no room
\* for is missing.
BufferContent ==
    /\ bbuf.len <= bbuf.size
    /\ AgreeBut(buffer_data(bbuf), bgiven, bcut)
=============================================================================
