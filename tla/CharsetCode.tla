----------------------------- MODULE CharsetCode -----------------------------
(***************************************************************************)
(* charset_code.c, and str_decode of f1g_lang_code.c: percent-encoded text *)
(* is decoded and converted between UTF-8, GBK and UCS-2.  Texts are       *)
(* sequences of bytes; a step is one round of a conversion's loop.  A      *)
(* caller makes one call, or the seven of test_langcode_conv.c, in which   *)
(* each conversion gets what the one before it has returned.               *)
(*                                                                         *)
(* The characters behind a % are ASCII, as the comment of utf8_str_to_uint *)
(* demands: hex_char_vmap has 128 entries.                                 *)
(***************************************************************************)
EXTENDS Integers, Sequences, SequencesExt

CONSTANTS
    ucs2_gbk_map,   \* the generated table, pairs <<gbk, ucs2>>
    Texts,          \* [str, chars]: encoded texts, the characters they encode
    Strings,        \* other byte strings callers pass
    DstSizes,       \* sizes of the callers' output buffers
    ChainSize       \* the size of the buffers of test_langcode_conv.c

\* The codes are unsigned shorts; those of GBK without a partner are paired
\* with 65535.
ASSUME TableAssumption ==
    /\ ucs2_gbk_map \subseteq (0 .. 65535) \X (0 .. 65535)
    /\ \A p, q \in ucs2_gbk_map :
         p[2] # 65535 => (p[1] = q[1] <=> p[2] = q[2])

ASSUME InputAssumption ==
    /\ Strings \subseteq Seq(0 .. 255) /\ \A t \in Texts : t.str \in Seq(0 .. 255)
    /\ DstSizes \subseteq Nat /\ ChainSize \in Nat

VARIABLES
    call,           \* which function runs
    stage,          \* of the chain, 0 for a single call
    text,           \* the text of the chain
    src, at,        \* the input, and the position of pb in it
    d_arr, d_size,
    d_len,          \* *d_len: until the call succeeds d_size, or 0 in str_decode
    nul,            \* where the call has stored the terminating 0, 0 for nowhere
    esc,            \* esc_flag, valid_hex_fst and value of str_decode
    ret,            \* "run", "E_OK" or an error
    outs            \* history: what the calls of the chain returned

csvars == <<call, stage, text, src, at, d_arr, d_size, d_len, nul, esc, ret, outs>>

ASCII_PERCENT == 37

Digits == 48 .. 57
Lower == 97 .. 102
Upper == 65 .. 70

\* Mutant: the letters count from 0.
HexLettersFromZero(c) ==
    CASE c \in Digits -> c - 48
      [] c \in Lower -> c - 97
      [] c \in Upper -> c - 65
      [] c = 0 -> -1
      [] OTHER -> 0

\* hex_char_vmap: only entry 0 is -1, what is no hex digit counts as 0.
hex_char_vmap(c) ==
    CASE c \in Digits -> c - 48
      [] c \in Lower -> 10 + (c - 97)
      [] c \in Upper -> 10 + (c - 65)
      [] c = 0 -> -1
      [] OTHER -> 0

HexOk(s, b) == hex_char_vmap(s[b]) # -1 /\ hex_char_vmap(s[b + 1]) # -1
HexByte(s, b) == 16 * hex_char_vmap(s[b]) + hex_char_vmap(s[b + 1])

\* charset_map_init: the pairs without a partner leave 0xFFFF.
charset_map_init == {p \in ucs2_gbk_map : p[2] # 65535}

-----------------------------------------------------------------------------
(* The conversions of lc_conv: each reads a unit, maps it and writes it.   *)

gbk_to_utf8 == [from |-> "GBK", to |-> "UTF8"]
utf8_to_gbk == [from |-> "UTF8", to |-> "GBK"]
ucs2_to_utf8 == [from |-> "UCS2", to |-> "UTF8"]
utf8_to_ucs2 == [from |-> "UTF8", to |-> "UCS2"]
gbk_to_ucs2 == [from |-> "GBK", to |-> "UCS2"]
ucs2_to_gbk == [from |-> "UCS2", to |-> "GBK"]

lc_conv == {gbk_to_utf8, utf8_to_gbk, ucs2_to_utf8, utf8_to_ucs2,
            gbk_to_ucs2, ucs2_to_gbk}
str_esc_decode == {[from |-> "%", to |-> "UTF8"], [from |-> "%", to |-> "GBK"]}
str_decode == [from |-> "%", to |-> "any"]

\* The bytes a unit at b takes, 0 if it cannot begin with this byte.
UnitLen(from, c) ==
    CASE from # "UTF8" -> 2
      [] from = "UTF8" /\ c < 128 -> 1
      [] from = "UTF8" /\ c \in 192 .. 223 -> 2
      [] from = "UTF8" /\ c \in 224 .. 239 -> 3
      [] OTHER -> 0

\* The bytes after the first are not looked at, only their low six bits.
Unit(from, s, b) ==
    IF from # "UTF8" THEN 256 * s[b] + s[b + 1]
    ELSE CASE UnitLen(from, s[b]) = 1 -> s[b]
           [] UnitLen(from, s[b]) = 2 -> 64 * (s[b] % 32) + (s[b + 1] % 64)
           [] OTHER -> 4096 * (s[b] % 16) + 64 * (s[b + 1] % 64) + (s[b + 2] % 64)

\* What the tables make of a unit; none or one, since the table is one to one.
Mapped(c, u) ==
    CASE c.from = "GBK" -> {p[2] : p \in {q \in charset_map_init : q[1] = u}}
      [] c.to = "GBK" -> {p[1] : p \in {q \in charset_map_init : q[2] = u}}
      [] OTHER -> {u}

\* Mutant: the second byte keeps seven bits.
EncodedWide(to, u) ==
    IF to # "UTF8" THEN <<u \div 256, u % 256>>
    ELSE CASE u < 128 -> <<u>>
           [] u \in 128 .. 2047 -> <<192 + (u \div 64), 128 + (u % 128)>>
           [] OTHER -> <<224 + (u \div 4096), 128 + ((u \div 64) % 64), 128 + (u % 64)>>

Encoded(to, u) ==
    IF to # "UTF8" THEN <<u \div 256, u % 256>>
    ELSE CASE u < 128 -> <<u>>
           [] u \in 128 .. 2047 -> <<192 + (u \div 64), 128 + (u % 64)>>
           [] OTHER -> <<224 + (u \div 4096), 128 + ((u \div 64) % 64), 128 + (u % 64)>>

\* Mutant: of several bytes the last may be the last of the buffer.
FullLate(num, bytes) ==
    IF Len(bytes) = 1 THEN num >= d_size ELSE num + Len(bytes) > d_size

\* A single byte may be the last of the buffer; of several the last may not.
Full(num, bytes) ==
    IF Len(bytes) = 1 THEN num >= d_size ELSE num + Len(bytes) >= d_size

\* What a call that fails has left in the buffer is of no use.
Fail(err) == ret' = err /\ UNCHANGED <<at, d_arr, d_len, esc>>
Store(bytes, next) ==
    /\ d_arr' = d_arr \o bytes /\ at' = next
    /\ UNCHANGED <<ret, d_len, esc>>

Running(c) == ret = "run" /\ call = c /\ at <= Len(src)
Fixed == UNCHANGED <<call, stage, text, src, d_size, nul, outs>>

ConvRound ==
    \E c \in lc_conv :
        LET n == UnitLen(c.from, src[at])
            units == Mapped(c, Unit(c.from, src, at))
            bytes == Encoded(c.to, CHOOSE u \in units : TRUE)
        IN  /\ Running(c)
            /\ CASE n = 0 -> Fail("E_CODE")
                 [] n > 0 /\ at + n - 1 > Len(src) -> Fail("E_IDAT")
                 [] n > 0 /\ at + n - 1 <= Len(src) ->
                        IF units = {} THEN Fail("E_CODE")
                        ELSE IF Full(Len(d_arr), bytes) THEN Fail("E_OBUF")
                        ELSE Store(bytes, at + n)
            /\ Fixed

-----------------------------------------------------------------------------
(* Percent-decoding.                                                       *)

\* The bytes that follow a first byte, -1 if none begins a character.
byte_num(byte) ==
    CASE byte < 128 -> 0
      [] byte \in 192 .. 223 -> 1
      [] byte \in 224 .. 239 -> 2
      [] byte \in 240 .. 247 -> 3
      [] byte \in 248 .. 251 -> 4
      [] byte \in 252 .. 253 -> 5
      [] OTHER -> -1

\* A full buffer ends the decoding with success, *d_len still its size and
\* the rest of the buffer as it was, which is 0.
Truncated ==
    /\ ret' = "E_OK" /\ d_arr' = d_arr \o [n \in 1 .. (d_size - Len(d_arr)) |-> 0]
    /\ UNCHANGED <<at, d_len, esc>>

utf8_str_to_uint ==
    LET byte == HexByte(src, at + 1)
        k == byte_num(byte)
        Coded(j) == src[at + 3 * j] = ASCII_PERCENT /\ HexOk(src, at + 3 * j + 1)
        bytes == [j \in 1 .. (k + 1) |-> HexByte(src, at + 3 * j - 2)]
    IN  /\ Running([from |-> "%", to |-> "UTF8"])
        /\ IF src[at] >= 128 THEN Fail("-2")
           ELSE IF src[at] # ASCII_PERCENT
           THEN IF Len(d_arr) >= d_size THEN Truncated ELSE Store(<<src[at]>>, at + 1)
           ELSE IF at + 2 > Len(src) THEN Fail("-1")
           ELSE IF ~HexOk(src, at + 1) THEN Fail("-2")
           ELSE IF k = -1 THEN Fail("-3")
           ELSE IF Len(d_arr) >= d_size THEN Truncated
           ELSE IF at + 3 * k + 2 > Len(src) \/ k > d_size - Len(d_arr) - 1
           THEN Fail("-1")
           ELSE IF \E j \in 1 .. k : ~Coded(j) THEN Fail("-2")
           ELSE Store(bytes, at + 3 * (k + 1))
        /\ Fixed

\* GBK1_CHK to GBK5_CHK.
GBK_CHK(b0, b1) ==
    \/ b0 \in 176 .. 247 /\ b1 \in 161 .. 254
    \/ b0 \in 129 .. 160 /\ b1 \in 64 .. 254
    \/ b0 \in 170 .. 254 /\ b1 \in 64 .. 160
    \/ b0 \in 161 .. 169 /\ b1 \in 161 .. 254
    \/ b0 \in 168 .. 169 /\ b1 \in 64 .. 160

gbk_str_to_uint ==
    LET byte0 == HexByte(src, at + 1)
        byte1 == HexByte(src, at + 4)
        Put1(bytes, next) == IF Full(Len(d_arr), bytes) THEN Fail("E_OBUF")
                             ELSE Store(bytes, next)
    IN  /\ Running([from |-> "%", to |-> "GBK"])
        /\ IF src[at] >= 128 THEN Fail("E_NASC")
           ELSE IF src[at] # ASCII_PERCENT THEN Put1(<<src[at]>>, at + 1)
           ELSE IF at + 2 > Len(src) THEN Fail("E_IDAT")
           ELSE IF ~HexOk(src, at + 1) THEN Fail("E_CODE")
           ELSE IF byte0 < 128 THEN Put1(<<byte0>>, at + 3)
           ELSE IF at + 5 > Len(src) THEN Fail("E_IDAT")
           ELSE IF src[at + 3] # ASCII_PERCENT \/ ~HexOk(src, at + 4)
           THEN Fail("E_CODE")
           ELSE IF GBK_CHK(byte0, byte1) THEN Put1(<<byte0, byte1>>, at + 6)
           ELSE Fail("E_CODE")
        /\ Fixed

\* Mutant: the escape is not left after its second digit.
LangHexStays(c) ==
    IF ~esc.flag THEN UNCHANGED <<d_arr, esc>>
    ELSE IF ~esc.fst
    THEN /\ esc' = [flag |-> TRUE, fst |-> TRUE, value |-> hex_char_vmap(c)]
         /\ UNCHANGED d_arr
    ELSE /\ d_arr' = Append(d_arr, 16 * esc.value + hex_char_vmap(c))
         /\ esc' = [esc EXCEPT !.fst = FALSE]

\* A hex digit outside of an escape is dropped.
LangHex(c) ==
    IF ~esc.flag THEN UNCHANGED <<d_arr, esc>>
    ELSE IF ~esc.fst
    THEN /\ esc' = [flag |-> TRUE, fst |-> TRUE, value |-> hex_char_vmap(c)]
         /\ UNCHANGED d_arr
    ELSE /\ d_arr' = Append(d_arr, 16 * esc.value + hex_char_vmap(c))
         /\ esc' = [flag |-> FALSE, fst |-> FALSE, value |-> 0]

\* One character of str_decode, which knows no size of the buffer.
LangRound ==
    LET c == src[at]
    IN  /\ Running(str_decode)
        /\ CASE c \in Digits \cup Lower \cup Upper ->
                    LangHex(c) /\ at' = at + 1 /\ UNCHANGED <<ret, d_len>>
             [] c = ASCII_PERCENT /\ ~esc.flag ->
                    /\ esc' = [esc EXCEPT !.flag = TRUE]
                    /\ at' = at + 1 /\ UNCHANGED <<ret, d_len, d_arr>>
             [] c \notin Digits \cup Lower \cup Upper \cup {ASCII_PERCENT}
                    /\ ~esc.flag -> Store(<<c>>, at + 1)
             [] OTHER -> Fail("F1G_ERR")
        /\ Fixed

-----------------------------------------------------------------------------
(* The callers.                                                            *)

NoEscape == [flag |-> FALSE, fst |-> FALSE, value |-> 0]

\* The end of every loop: the length is stored, and a 0 behind the text but by
\* str_decode.  Nobody looks whether the buffer goes on there.
Return ==
    /\ ret = "run" /\ at > Len(src)
    /\ ret' = "E_OK" /\ d_len' = Len(d_arr)
    /\ nul' = IF call = str_decode THEN 0 ELSE Len(d_arr) + 1
    /\ UNCHANGED <<call, stage, text, src, at, d_arr, d_size, esc, outs>>

Chain == <<[from |-> "%", to |-> "UTF8"], utf8_to_gbk, gbk_to_ucs2, ucs2_to_utf8,
           utf8_to_ucs2, ucs2_to_gbk, gbk_to_utf8>>

\* The chain goes on with d_len bytes of what it has got, or ends.
NextCall ==
    /\ ret = "E_OK" /\ stage \in 1 .. Len(Chain)
    /\ outs' = Append(outs, SubSeq(d_arr, 1, d_len))
    /\ stage' = stage + 1
    /\ IF stage = Len(Chain)
       THEN UNCHANGED <<call, src, at, d_arr, d_len, nul, ret>>
       ELSE /\ call' = Chain[stage + 1]
            /\ src' = SubSeq(d_arr, 1, d_len)
            /\ at' = 1 /\ d_arr' = <<>> /\ d_len' = d_size /\ nul' = 0 /\ ret' = "run"
    /\ UNCHANGED <<text, d_size, esc>>

CharsetNext ==
    \/ ConvRound \/ utf8_str_to_uint \/ gbk_str_to_uint \/ LangRound
    \/ Return \/ NextCall

Called(c, s, size, st, t) ==
    /\ call = c /\ src = s /\ d_size = size /\ stage = st /\ text = t
    /\ at = 1 /\ d_arr = <<>> /\ esc = NoEscape
    /\ d_len = IF c = str_decode THEN 0 ELSE size
    /\ nul = 0 /\ ret = "run" /\ outs = <<>>

NoText == [str |-> <<>>, chars |-> <<>>]
CharsetInit ==
    \/ \E c \in lc_conv \cup str_esc_decode, s \in Strings, size \in DstSizes :
            Called(c, s, size, 0, NoText)
    \/ \E t \in Texts : \/ Called(Chain[1], t.str, ChainSize, 1, t)
                        \/ Called(str_decode, t.str, ChainSize, 0, t)

CharsetSpec == CharsetInit /\ [][CharsetNext]_csvars

CharsetIdle == Called(str_decode, <<>>, 0, 0, NoText)

-----------------------------------------------------------------------------
(* What the texts stand for.                                               *)

Continues(c) == c \in 128 .. 191

\* The positions where characters begin, in well-formed UTF-8.
Begins(s) == {n \in DOMAIN s : ~Continues(s[n])}

\* Every first byte is followed by as many others as it says, every other byte
\* follows a first one, and no character is longer than it needs to be.
WellFormed8(s) ==
    /\ \A n \in Begins(s) :
        LET len == UnitLen("UTF8", s[n])
        IN  /\ len > 0 /\ s[n] \notin {192, 193} /\ n + len - 1 <= Len(s)
            /\ \A m \in (n + 1) .. (n + len - 1) : Continues(s[m])
            /\ len = 3 /\ s[n] = 224 => s[n + 1] >= 160
    /\ \A n \in DOMAIN s \ Begins(s) :
        \E m \in Begins(s) : m < n /\ n < m + UnitLen("UTF8", s[m])

WellFormed(code, s) == IF code = "UTF8" THEN WellFormed8(s) ELSE Len(s) % 2 = 0

Ucs2Of(code, s) ==
    CASE code = "UTF8" ->
            LET starts == SetToSortSeq(Begins(s), <)
            IN  [n \in DOMAIN starts |-> Unit("UTF8", s, starts[n])]
      [] code = "UCS2" -> [n \in 1 .. (Len(s) \div 2) |-> Unit("UCS2", s, 2 * n - 1)]
      [] code = "GBK" -> [n \in 1 .. (Len(s) \div 2) |->
            (CHOOSE p \in ucs2_gbk_map : p[1] = Unit("GBK", s, 2 * n - 1))[2]]

Known(chars) == \A n \in DOMAIN chars : \E p \in charset_map_init : p[2] = chars[n]

\* Whatever bytes a caller passes, what a conversion has stored are whole,
\* well-formed characters, and *d_len counts them all (lc_conv).
WholeCharacters ==
    call \in lc_conv =>
        /\ WellFormed(call.to, d_arr)
        /\ ret = "E_OK" => d_len = Len(d_arr)

\* A text of characters the table knows goes through all seven conversions of
\* test_langcode_conv.c and comes back: every result stands for its
\* characters, whether they came escaped or not.  Whatever bytes a caller
\* passes, a conversion makes whole characters of them, and if it succeeds
\* with a well-formed text the same ones (charset_code.c, lc_conv).
CharsKept ==
    /\ stage > 0 /\ Known(text.chars) =>
        /\ ret \in {"run", "E_OK"}
        /\ \A n \in DOMAIN outs : /\ WellFormed(Chain[n].to, outs[n])
                                  /\ Ucs2Of(Chain[n].to, outs[n]) = text.chars
    /\ WholeCharacters
    /\ ret = "E_OK" /\ call \in lc_conv /\ WellFormed(call.from, src) =>
        Ucs2Of(call.to, d_arr) = Ucs2Of(call.from, src)

\* Whatever bytes a caller passes, no byte of the text is stored behind the end
\* of its buffer (the tests for E_OBUF, and the room for continuation bytes in
\* utf8_str_to_uint).  The 0 behind the text lies in the buffer for the codes of
\* two bytes, unless the buffer has no bytes at all; a text of UTF-8, or one
\* that was decoded, may fill the buffer, and then the 0 is the one byte that
\* is stored behind it.
WithinBuffer ==
    call # str_decode =>
        /\ Len(d_arr) <= d_size
        /\ nul <= d_size + 1
        /\ call \in lc_conv /\ call.to # "UTF8" /\ d_size > 0 => nul <= d_size

\* Of a text whose hex digits all stand in escapes, str_decode makes the bytes
\* of its characters (f1g_lang_code.c; other hex digits are lost).
LangDecoded ==
    LET Inside(n) == \E m \in {n - 1, n - 2} \cap DOMAIN src : src[m] = ASCII_PERCENT
    IN  (/\ ret # "run" /\ call = str_decode
         /\ \A n \in DOMAIN src :
                src[n] \in Digits \cup Lower \cup Upper => Inside(n))
        => ret = "E_OK" /\ WellFormed8(d_arr) /\ Ucs2Of("UTF8", d_arr) = text.chars
=============================================================================
