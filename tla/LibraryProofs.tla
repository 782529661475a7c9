---------------------------- MODULE LibraryProofs ----------------------------
(***************************************************************************)
(* Proofs about the components of the run library: BasicAlg, CharsetCode,  *)
(* UrlParser, BiTree and ServerLife, for every array, byte string, table,  *)
(* URL, tree and configuration file, whichever call fails.                 *)
(***************************************************************************)
EXTENDS BasicAlg, CharsetCode, UrlParser, BiTree, ServerLife,
        FiniteSetTheorems, TLAPS

-----------------------------------------------------------------------------
(* BasicAlg.                                                               *)

\* The inductive invariant: where each element stands after `round` rounds,
\* of which there are no more than the remainder of the places asked for.
RotateInv ==
    /\ round \in Nat /\ Len(orig) \in Nat \ {0} /\ DOMAIN orig = 1 .. Len(orig)
    /\ places \in Int /\ left_k = CRemainder(places, Len(orig))
    /\ places >= 0 => round <= left_k
    /\ arr = Turned(orig, round)

\* One turn of the whole array changes nothing.
LEMMA FullTurn ==
    ASSUME NEW n \in Nat \ {0}, NEW x \in Nat
    PROVE  (n + x) % n = x % n
  <1> DEFINE q == x \div n
             r == x % n
  <1>1. q \in Nat /\ r \in 0 .. (n - 1) /\ x = n * q + r
    OBVIOUS
  <1>2. n + x = n * (q + 1) + r
    BY <1>1
  <1> HIDE DEF q, r
  <1>3. (n * (q + 1) + r) % n = r
    BY <1>1
  <1>4. QED
    BY <1>2, <1>3 DEF r

\* A round of rotate_by_seq moves every element one place.
LEMMA RotateStep == ASSUME RotateInv, RotateNext PROVE RotateInv'
  <1> DEFINE n == Len(orig)
             turned(j, k) == orig[((j - 1 + k) % n) + 1]
  <1>0. /\ round \in Nat /\ n \in Nat \ {0} /\ DOMAIN orig = 1 .. n
        /\ arr = [j \in 1 .. n |-> turned(j, round)]
        /\ round' = round + 1 /\ orig' = orig /\ arr' = rotate_by_seq(arr)
    BY DEF RotateInv, Turned, RotateNext
  <1>1. \A j \in 1 .. n : j < n => turned(j + 1, round) = turned(j, round + 1)
    <2> SUFFICES ASSUME NEW j \in 1 .. n PROVE (j + 1) - 1 + round = j - 1 + (round + 1)
      OBVIOUS
    <2>1. QED
      BY <1>0
  <1>2. turned(1, round) = turned(n, round + 1)
    <2>1. 1 - 1 + round = round /\ n - 1 + (round + 1) = n + round
      BY <1>0
    <2>2. (n + round) % n = round % n
      BY <1>0, FullTurn
    <2>3. QED
      BY <2>1, <2>2
  <1> HIDE DEF turned, n
  <1>3. Len(arr) = n /\ DOMAIN arr = 1 .. n /\ \A j \in 1 .. n : arr[j] = turned(j, round)
    BY <1>0
  <1>4. arr' = [j \in 1 .. n |-> IF j < n THEN arr[j + 1] ELSE arr[1]]
    BY <1>0, <1>3 DEF rotate_by_seq
  <1>5. \A j \in 1 .. n : (IF j < n THEN arr[j + 1] ELSE arr[1]) = turned(j, round + 1)
    <2> SUFFICES ASSUME NEW j \in 1 .. n
                 PROVE  (IF j < n THEN arr[j + 1] ELSE arr[1]) = turned(j, round + 1)
      OBVIOUS
    <2>1. CASE j < n
      BY <1>0, <1>1, <1>3, <2>1
    <2>2. CASE ~(j < n)
      <3>1. j = n /\ 1 \in 1 .. n
        BY <1>0, <2>2
      <3>2. QED
        BY <1>2, <1>3, <2>2, <3>1
    <2>3. QED
      BY <2>1, <2>2
  <1>6. arr' = [j \in 1 .. n |-> turned(j, round')]
    BY <1>0, <1>4, <1>5
  <1>7. arr' = [j \in DOMAIN orig |-> orig[((j - 1 + round') % Len(orig)) + 1]]
    BY <1>0, <1>6 DEF turned, n
  <1>8. arr' = Turned(orig, round)'
    BY <1>0, <1>7 DEF Turned
  <1>9. /\ places' \in Int /\ left_k' = CRemainder(places', Len(orig'))
        /\ places' >= 0 => round' <= left_k'
    <2>1. /\ places' = places /\ left_k' = left_k /\ round < left_k
      BY DEF RotateNext
    <2>2. places >= 0 => left_k \in Int
      BY <1>0 DEF RotateInv, CRemainder, n
    <2>3. QED
      BY <1>0, <2>1, <2>2 DEF RotateInv
  <1>10. QED
    BY <1>0, <1>8, <1>9 DEF RotateInv, n

\* Whole turns of the array change nothing.
LEMMA Quotient ==
    ASSUME NEW n \in Nat \ {0}, NEW x \in Nat
    PROVE  \E q, r \in Nat : x = n * q + r /\ r = x % n /\ r < n
  <1> DEFINE q == x \div n
             r == x % n
  <1>1. q \in Nat /\ r \in 0 .. (n - 1) /\ x = n * q + r
    OBVIOUS
  <1>2. q \in Nat /\ r \in Nat /\ x = n * q + r /\ r = x % n /\ r < n
    BY <1>1
  <1> HIDE DEF q, r
  <1>3. QED
    BY <1>2

LEMMA RestOf ==
    ASSUME NEW n \in Nat \ {0}, NEW q \in Nat, NEW r \in Nat, r < n
    PROVE  (n * q + r) % n = r
  OBVIOUS

LEMMA WholeTurns ==
    ASSUME NEW n \in Nat \ {0}, NEW k \in Nat, NEW x \in Nat, NEW r, r = k % n
    PROVE  (x + r) % n = (x + k) % n
  <1>1. PICK q \in Nat : k = n * q + r /\ r \in Nat /\ r < n
    BY Quotient
  <1>2. PICK p \in Nat, t \in Nat : x + r = n * p + t /\ t = (x + r) % n /\ t < n
    <2>1. x + r \in Nat
      OBVIOUS
    <2>2. PICK y \in Nat : y = x + r
      BY <2>1
    <2>3. QED
      BY <2>2, Quotient
  <1>3. x + k = n * (q + p) + t
    <2>1. PICK a \in Nat, b \in Nat : a = n * q /\ b = n * p
      OBVIOUS
    <2>2. n * (q + p) = a + b
      BY <2>1
    <2>3. k = a + r /\ x + r = b + t
      BY <1>1, <1>2, <2>1
    <2>4. QED
      BY <2>2, <2>3
  <1>4. (n * (q + p) + t) % n = t
    <2>1. q + p \in Nat
      OBVIOUS
    <2>2. QED
      BY <1>2, <2>1, RestOf
  <1>5. QED
    BY <1>2, <1>3, <1>4

\* METHOD_SEQ rotates every array by every number of places that is not
\* negative, also if it is more than the array has.
THEOREM ArrayRotated == RotateSpec => []RotatedLeft
  <1>1. RotateInit => RotateInv
    <2> SUFFICES ASSUME RotateInit PROVE RotateInv
      OBVIOUS
    <2>1. /\ orig \in Arrays /\ places \in Int /\ arr = orig /\ round = 0
          /\ left_k = CRemainder(places, Len(orig))
      BY ArrayAssumption DEF RotateInit
    <2>2. /\ DOMAIN orig = 1 .. Len(orig) /\ Len(orig) \in Nat \ {0}
          /\ orig = [j \in DOMAIN orig |-> orig[j]]
      <3> DEFINE S == {orig[j] : j \in DOMAIN orig}
      <3>1. orig \in Seq(S) /\ orig # <<>>
        BY <2>1, ArrayAssumption
      <3> HIDE DEF S
      <3>2. QED
        BY <3>1
    <2>3. \A j \in DOMAIN orig : ((j - 1 + 0) % Len(orig)) + 1 = j
      BY <2>2
    <2>4. arr = Turned(orig, round)
      BY <2>1, <2>2, <2>3 DEF Turned
    <2>5. places >= 0 => left_k >= 0
      BY <2>1, <2>2 DEF CRemainder
    <2>6. QED
      BY <2>1, <2>2, <2>4, <2>5 DEF RotateInv
  <1>2. ASSUME RotateInv, [RotateNext]_rotvars PROVE RotateInv'
    <2>1. CASE UNCHANGED rotvars
      BY <1>2, <2>1 DEF RotateInv, rotvars
    <2>2. QED
      BY <1>2, <2>1, RotateStep
  <1>3. ASSUME RotateInv PROVE RotatedLeft
    <2> SUFFICES ASSUME places >= 0, round >= left_k PROVE arr = Turned(orig, places)
      BY DEF RotatedLeft
    <2>1. places \in Nat /\ Len(orig) \in Nat \ {0} /\ DOMAIN orig = 1 .. Len(orig)
      BY <1>3 DEF RotateInv
    <2>2. round = places % Len(orig)
      BY <1>3, <2>1 DEF RotateInv, CRemainder
    <2>3. \A j \in DOMAIN orig :
            (j - 1 + round) % Len(orig) = (j - 1 + places) % Len(orig)
      <3> SUFFICES ASSUME NEW j \in DOMAIN orig
                   PROVE  (j - 1 + round) % Len(orig) = (j - 1 + places) % Len(orig)
        OBVIOUS
      <3>1. PICK x \in Nat : x = j - 1
        BY <2>1
      <3>2. (x + round) % Len(orig) = (x + places) % Len(orig)
        BY <2>1, <2>2, WholeTurns
      <3>3. QED
        BY <3>1, <3>2
    <2>4. QED
      BY <1>3, <2>3 DEF RotateInv, Turned
  <1>4. QED
    BY <1>1, <1>2, <1>3, PTL DEF RotateSpec


-----------------------------------------------------------------------------
(* CharsetCode.                                                            *)

\* The codes with units of two bytes.
Wide(c) == c \in lc_conv /\ c.to # "UTF8"

\* The text is in the buffer; of the wide codes the last byte stays free.
Room ==
    call # str_decode =>
        /\ Len(d_arr) <= d_size
        /\ Wide(call) /\ d_size > 0 => Len(d_arr) < d_size

\* The inductive invariant: while a conversion runs d_len is still the size
\* of the buffer and the terminating 0 is not stored; after it d_len is the
\* length of the text, and the 0 lies behind it.
CharsetInv ==
    /\ d_size \in Nat /\ call \in lc_conv \cup str_esc_decode \cup {str_decode}
    /\ call = str_decode => stage = 0
    /\ call # str_decode =>
        /\ src \in Seq(Int) /\ d_arr \in Seq(Int) /\ at \in Nat \ {0}
        /\ ret = "run" => d_len = d_size
        /\ ret = "E_OK" => d_len = Len(d_arr)
        /\ nul = 0 \/ (ret # "run" /\ nul = Len(d_arr) + 1)
    /\ Room

\* What a round has done when it is over.
Failed == ret' \notin {"run", "E_OK"} /\ UNCHANGED <<at, d_arr, d_len, esc>>
Stored(bytes) ==
    /\ bytes \in Seq(Int) /\ Len(d_arr) + Len(bytes) <= d_size
    /\ Wide(call) => Len(d_arr) + Len(bytes) < d_size
    /\ d_arr' = d_arr \o bytes /\ at' \in Nat \ {0}
    /\ UNCHANGED <<ret, d_len, esc>>

\* A round that fails, or stores bytes there is room for, stays in the buffer.
LEMMA RoundInBuffer ==
    ASSUME CharsetInv, call # str_decode, ret = "run", Fixed,
           Failed \/ (\E bytes \in Seq(Int) : Stored(bytes))
    PROVE  CharsetInv'
  <1>0. /\ nul = 0 /\ nul' = 0 /\ d_size' = d_size /\ call' = call /\ src' = src /\ stage' = stage
        /\ src \in Seq(Int) /\ d_arr \in Seq(Int) /\ at \in Nat \ {0} /\ d_len = d_size
        /\ d_size \in Nat /\ Len(d_arr) <= d_size
        /\ Wide(call) /\ d_size > 0 => Len(d_arr) < d_size
    BY DEF CharsetInv, Fixed, Room, Wide
  <1>1. CASE Failed
    BY <1>0, <1>1 DEF CharsetInv, Failed, Room
  <1>2. ASSUME NEW bytes \in Seq(Int), Stored(bytes) PROVE CharsetInv'
    <2>1. /\ d_arr' \in Seq(Int) /\ Len(d_arr') = Len(d_arr) + Len(bytes)
          /\ ret' = ret /\ d_len' = d_len /\ at' \in Nat \ {0}
      BY <1>0, <1>2 DEF Stored
    <2>2. Len(d_arr') <= d_size /\ (Wide(call) => Len(d_arr') < d_size)
      BY <1>2, <2>1 DEF Stored
    <2>3. Room'
      BY <1>0, <2>2 DEF Room, Wide
    <2>4. QED
      BY <1>0, <2>1, <2>3 DEF CharsetInv
  <1>3. QED
    BY <1>1, <1>2

\* The tests for E_OBUF leave room for what is stored, and behind two bytes
\* or more for the terminating 0.
LEMMA NotFull ==
    ASSUME CharsetInv, call # str_decode, NEW bytes \in Seq(Int), bytes # <<>>,
           ~Full(Len(d_arr), bytes)
    PROVE  /\ Len(d_arr) + Len(bytes) <= d_size
           /\ Len(bytes) > 1 => Len(d_arr) + Len(bytes) < d_size
  <1>1. Len(d_arr) \in Nat /\ d_size \in Nat /\ Len(bytes) \in Nat \ {0}
    BY DEF CharsetInv
  <1>2. CASE Len(bytes) = 1
    BY <1>1, <1>2 DEF Full
  <1>3. CASE Len(bytes) # 1
    BY <1>1, <1>3 DEF Full
  <1>4. QED
    BY <1>2, <1>3

\* hex_char_vmap and the units are numbers.
LEMMA HexInt ==
    /\ \A c \in Int : hex_char_vmap(c) \in Int
    /\ \A s \in Seq(Int), b \in Nat \ {0} : b + 1 <= Len(s) => HexByte(s, b) \in Int
  <1>1. ASSUME NEW c \in Int PROVE hex_char_vmap(c) \in Int
    BY DEF hex_char_vmap, Digits, Lower, Upper
  <1>2. ASSUME NEW s \in Seq(Int), NEW b \in Nat \ {0}, b + 1 <= Len(s)
        PROVE  HexByte(s, b) \in Int
    <2>1. s[b] \in Int /\ s[b + 1] \in Int
      BY <1>2
    <2>2. hex_char_vmap(s[b]) \in Int /\ hex_char_vmap(s[b + 1]) \in Int
      BY <1>1, <2>1
    <2>3. QED
      BY <2>2 DEF HexByte
  <1>3. QED
    BY <1>1, <1>2

\* A unit within the source is a number, as is what the table makes of it.
LEMMA UnitInt ==
    ASSUME NEW from \in {"UTF8", "GBK", "UCS2"}, NEW s \in Seq(Int), NEW b \in Nat \ {0},
           UnitLen(from, s[b]) > 0, b + UnitLen(from, s[b]) - 1 <= Len(s), b <= Len(s)
    PROVE  UnitLen(from, s[b]) \in 1 .. 3 /\ Unit(from, s, b) \in Int
  <1>0. s[b] \in Int
    OBVIOUS
  <1>1. CASE from # "UTF8"
    <2>1. UnitLen(from, s[b]) = 2
      BY <1>1 DEF UnitLen
    <2>2. s[b + 1] \in Int
      BY <2>1
    <2>3. Unit(from, s, b) = 256 * s[b] + s[b + 1]
      BY <1>1 DEF Unit
    <2>4. QED
      BY <1>0, <2>1, <2>2, <2>3
  <1>2. CASE from = "UTF8"
    <2>1. UnitLen(from, s[b]) \in {1, 2, 3}
      BY <1>0, <1>2 DEF UnitLen
    <2>2. CASE UnitLen(from, s[b]) = 1
      <3>1. Unit(from, s, b) = s[b]
        BY <1>2, <2>2 DEF Unit
      <3>2. QED
        BY <1>0, <2>1, <3>1
    <2>3. CASE UnitLen(from, s[b]) = 2
      <3>1. Unit(from, s, b) = 64 * (s[b] % 32) + (s[b + 1] % 64)
        BY <1>2, <2>3 DEF Unit
      <3>2. s[b + 1] \in Int
        BY <2>3
      <3>3. QED
        BY <1>0, <2>1, <3>1, <3>2
    <2>4. CASE UnitLen(from, s[b]) = 3
      <3>1. Unit(from, s, b) = 4096 * (s[b] % 16) + 64 * (s[b + 1] % 64) + (s[b + 2] % 64)
        BY <1>2, <2>4 DEF Unit
      <3>2. s[b + 1] \in Int /\ s[b + 2] \in Int
        BY <2>4
      <3>3. \A x, y, z \in Int : 4096 * (x % 16) + 64 * (y % 64) + (z % 64) \in Int
        OBVIOUS
      <3>4. Unit(from, s, b) \in Int
        <4> DEFINE x == s[b]
                   y == s[b + 1]
                   z == s[b + 2]
        <4>1. /\ x \in Int /\ y \in Int /\ z \in Int
              /\ Unit(from, s, b) = 4096 * (x % 16) + 64 * (y % 64) + (z % 64)
          BY <1>0, <3>1, <3>2
        <4> HIDE DEF x, y, z
        <4>2. 4096 * (x % 16) + 64 * (y % 64) + (z % 64) \in Int
          BY <3>3, <4>1
        <4>3. QED
          BY <4>1, <4>2
      <3>5. QED
        BY <2>4, <3>4
    <2>5. QED
      BY <2>1, <2>2, <2>3, <2>4
  <1>3. QED
    BY <1>1, <1>2

\* The bytes of a code: two unless it is UTF-8.
LEMMA EncodedBytes ==
    ASSUME NEW to \in {"UTF8", "GBK", "UCS2"}, NEW u \in Int
    PROVE  /\ Encoded(to, u) \in Seq(Int) /\ Encoded(to, u) # <<>>
           /\ to # "UTF8" => Len(Encoded(to, u)) = 2
  <1>1. /\ u \div 256 \in Int /\ u % 256 \in Int /\ u \div 64 \in Int /\ u % 64 \in Int
        /\ u \div 4096 \in Int /\ (u \div 64) % 64 \in Int
    OBVIOUS
  <1>2. \A x, y, z \in Int : /\ <<x>> \in Seq(Int) /\ <<x, y>> \in Seq(Int)
                             /\ <<x, y, z>> \in Seq(Int)
                             /\ <<x>> # <<>> /\ <<x, y>> # <<>> /\ <<x, y, z>> # <<>>
                             /\ Len(<<x, y>>) = 2
    OBVIOUS
  <1> DEFINE e == Encoded(to, u)
             wide == <<u \div 256, u % 256>>
             one == <<u>>
             two == <<192 + (u \div 64), 128 + (u % 64)>>
             three == <<224 + (u \div 4096), 128 + ((u \div 64) % 64), 128 + (u % 64)>>
  <1>3. e = IF to # "UTF8" THEN wide
            ELSE CASE u < 128 -> one [] u \in 128 .. 2047 -> two [] OTHER -> three
    BY Zenon DEF Encoded
  <1>4. /\ \E x, y \in Int : wide = <<x, y>>
        /\ \E x \in Int : one = <<x>>
        /\ \E x, y \in Int : two = <<x, y>>
        /\ \E x, y, z \in Int : three = <<x, y, z>>
    <2>1. /\ 192 + (u \div 64) \in Int /\ 128 + (u % 64) \in Int
          /\ 224 + (u \div 4096) \in Int /\ 128 + ((u \div 64) % 64) \in Int
      BY <1>1
    <2>2. /\ \E x, y \in Int : wide = <<x, y>>
          /\ \E x \in Int : one = <<x>>
      BY <1>1
    <2>3. \E x, y \in Int : two = <<x, y>>
      <3> WITNESS 192 + (u \div 64) \in Int, 128 + (u % 64) \in Int
      <3>1. QED
        OBVIOUS
    <2>4. \E x, y, z \in Int : three = <<x, y, z>>
      <3> WITNESS 224 + (u \div 4096) \in Int, 128 + ((u \div 64) % 64) \in Int,
                  128 + (u % 64) \in Int
      <3>1. QED
        OBVIOUS
    <2>5. QED
      BY <2>2, <2>3, <2>4
  <1> HIDE DEF wide, one, two, three
  <1> HIDE DEF e
  <1>5. e \in Seq(Int) /\ e # <<>> /\ (to # "UTF8" => Len(e) = 2)
    <2>1. /\ wide \in Seq(Int) /\ wide # <<>> /\ Len(wide) = 2
          /\ one \in Seq(Int) /\ one # <<>>
          /\ two \in Seq(Int) /\ two # <<>>
          /\ three \in Seq(Int) /\ three # <<>>
      BY <1>2, <1>4
    <2>2. (to # "UTF8" /\ e = wide) \/ (to = "UTF8" /\ e \in {one, two, three})
      BY <1>3 DEF e
    <2>3. QED
      BY <2>1, <2>2
  <1>6. QED
    BY <1>5 DEF e


\* The codes a conversion goes from and to, none of them an escape.
LEMMA Codes ==
    /\ \A c \in lc_conv : /\ c.from \in {"UTF8", "GBK", "UCS2"}
                          /\ c.to \in {"UTF8", "GBK", "UCS2"} /\ c # str_decode
    /\ \A c \in str_esc_decode : c \notin lc_conv /\ c # str_decode
    /\ \A k \in 2 .. 7 : Chain[k] \in lc_conv
    /\ Chain[1] \in str_esc_decode /\ Len(Chain) = 7
  <1>1. \A c \in lc_conv : /\ c.from \in {"UTF8", "GBK", "UCS2"}
                           /\ c.to \in {"UTF8", "GBK", "UCS2"}
    BY DEF lc_conv, gbk_to_utf8, utf8_to_gbk, ucs2_to_utf8, utf8_to_ucs2, gbk_to_ucs2, ucs2_to_gbk
  <1>2. str_decode.from = "%" /\ \A c \in str_esc_decode : c.from = "%" /\ c.to # "any"
    BY DEF str_decode, str_esc_decode
  <1>3. str_decode.to = "any"
    BY DEF str_decode
  <1>4. /\ \A c \in lc_conv : c # str_decode
        /\ \A c \in str_esc_decode : c \notin lc_conv /\ c # str_decode
    BY <1>1, <1>2, <1>3
  <1>5. /\ Chain[1] = [from |-> "%", to |-> "UTF8"] /\ Chain[2] = utf8_to_gbk
        /\ Chain[3] = gbk_to_ucs2 /\ Chain[4] = ucs2_to_utf8 /\ Chain[5] = utf8_to_ucs2
        /\ Chain[6] = ucs2_to_gbk /\ Chain[7] = gbk_to_utf8 /\ Len(Chain) = 7
    BY DEF Chain
  <1>6. \A k \in 2 .. 7 : k \in {2, 3, 4, 5, 6, 7}
    OBVIOUS
  <1>7. /\ utf8_to_gbk \in lc_conv /\ gbk_to_ucs2 \in lc_conv /\ ucs2_to_utf8 \in lc_conv
        /\ utf8_to_ucs2 \in lc_conv /\ ucs2_to_gbk \in lc_conv /\ gbk_to_utf8 \in lc_conv
    BY Zenon DEF lc_conv
  <1>8. \A k \in 2 .. 7 : Chain[k] \in lc_conv
    BY <1>5, <1>6, <1>7
  <1>9. QED
    BY <1>1, <1>4, <1>5, <1>8 DEF str_esc_decode

\* The codes are numbers of 16 bits.
Code == {u \in Nat : u <= 65535}

LEMMA CodeRange == \A u : u \in Code <=> u \in Nat /\ u <= 65535
  BY DEF Code

\* Those of the table are.
LEMMA TableCodes == \A p \in charset_map_init : p[1] \in Code /\ p[2] \in Code
  <1> DEFINE I == 0 .. 65535
  <1>1. ucs2_gbk_map \subseteq I \X I
    BY TableAssumption, PTL
  <1>2. I \subseteq Code
    BY DEF Code
  <1> HIDE DEF I
  <1>3. charset_map_init \subseteq ucs2_gbk_map
    BY DEF charset_map_init
  <1>4. \A p \in I \X I : p[1] \in I /\ p[2] \in I
    OBVIOUS
  <1>5. QED
    BY <1>1, <1>2, <1>3, <1>4

\* A round of a conversion of lc_conv fails, or stores a unit that lies in the
\* input and that the tables know.
LEMMA ConvOutcome ==
    ASSUME CharsetInv, ConvRound
    PROVE  /\ ret = "run" /\ call \in lc_conv /\ at <= Len(src) /\ Fixed
           /\ \/ Fail("E_CODE") \/ Fail("E_IDAT") \/ Fail("E_OBUF")
              \/ /\ UnitLen(call.from, src[at]) > 0
                 /\ at + UnitLen(call.from, src[at]) - 1 <= Len(src)
                 /\ \E u \in Mapped(call, Unit(call.from, src, at)) :
                        /\ ~Full(Len(d_arr), Encoded(call.to, u))
                        /\ Store(Encoded(call.to, u), at + UnitLen(call.from, src[at]))
  <1>1. PICK c \in lc_conv :
          LET n == UnitLen(c.from, src[at])
              units == Mapped(c, Unit(c.from, src, at))
              bytes == Encoded(c.to, CHOOSE u \in units : TRUE)
          IN  /\ Running(c)
              /\ CASE n = 0 -> Fail("E_CODE")
                   [] n > 0 /\ at + n - 1 > Len(src) -> Fail("E_IDAT")
                   [] n > 0 /\ at + n - 1 <= Len(src) ->
                          IF units = {} THEN Fail("E_CODE")
                          ELSE IF Full(Len(d_arr), bytes) THEN Fail("E_OBUF")
                          ELSE Store(bytes, at + n)
              /\ Fixed
    BY Zenon DEF ConvRound
  <1> DEFINE n == UnitLen(c.from, src[at])
             units == Mapped(c, Unit(c.from, src, at))
             chosen == CHOOSE u \in units : TRUE
             bytes == Encoded(c.to, chosen)
  <1>2. ret = "run" /\ call = c /\ at <= Len(src) /\ Fixed /\ call # str_decode
    BY <1>1, Codes DEF Running
  <1>3. /\ src \in Seq(Int) /\ at \in Nat \ {0} /\ src[at] \in Int /\ Len(src) \in Nat
    BY <1>2 DEF CharsetInv
  <1>4. n \in {0, 1, 2, 3}
    BY <1>3 DEF UnitLen
  <1> HIDE DEF n, bytes, units
  <1>5. \/ Fail("E_CODE") \/ Fail("E_IDAT") \/ Fail("E_OBUF")
        \/ /\ n > 0 /\ at + n - 1 <= Len(src) /\ units # {}
           /\ ~Full(Len(d_arr), bytes) /\ Store(bytes, at + n)
    <2>1. (CASE n = 0 -> Fail("E_CODE")
            [] n > 0 /\ at + n - 1 > Len(src) -> Fail("E_IDAT")
            [] n > 0 /\ at + n - 1 <= Len(src) ->
                   IF units = {} THEN Fail("E_CODE")
                   ELSE IF Full(Len(d_arr), bytes) THEN Fail("E_OBUF")
                   ELSE Store(bytes, at + n))
      BY <1>1 DEF n, bytes, units
    <2>2. n = 0 \/ (n > 0 /\ at + n - 1 > Len(src)) \/ (n > 0 /\ at + n - 1 <= Len(src))
      BY <1>3, <1>4
    <2>3. /\ ~(n = 0 /\ n > 0)
          /\ ~(at + n - 1 > Len(src) /\ at + n - 1 <= Len(src))
      BY <1>3, <1>4
    <2>4. QED
      BY <2>1, <2>2, <2>3
  <1>6. units # {} => chosen \in units
    BY Zenon
  <1>7. QED
    BY <1>2, <1>5, <1>6, Zenon DEF n, bytes, units

LEMMA ConvInBuffer == ASSUME CharsetInv, ConvRound PROVE CharsetInv'
  <1> DEFINE n == UnitLen(call.from, src[at])
             unit == Unit(call.from, src, at)
             units == Mapped(call, unit)
  <1>1. /\ ret = "run" /\ call \in lc_conv /\ at <= Len(src) /\ Fixed
        /\ \/ Fail("E_CODE") \/ Fail("E_IDAT") \/ Fail("E_OBUF")
           \/ /\ n > 0 /\ at + n - 1 <= Len(src)
              /\ \E u \in units : /\ ~Full(Len(d_arr), Encoded(call.to, u))
                                 /\ Store(Encoded(call.to, u), at + n)
    BY ConvOutcome, Zenon
  <1>2. /\ call # str_decode
        /\ call.from \in {"UTF8", "GBK", "UCS2"} /\ call.to \in {"UTF8", "GBK", "UCS2"}
    BY <1>1, Codes
  <1>3. /\ src \in Seq(Int) /\ at \in Nat \ {0} /\ d_arr \in Seq(Int) /\ d_size \in Nat
        /\ src[at] \in Int /\ Len(src) \in Nat
    BY <1>1, <1>2 DEF CharsetInv
  <1>4. n \in {0, 1, 2, 3}
    BY <1>3 DEF UnitLen
  <1>5. CASE Fail("E_CODE") \/ Fail("E_IDAT") \/ Fail("E_OBUF")
    <2>1. Failed
      BY <1>5 DEF Fail, Failed
    <2>2. QED
      BY <1>1, <1>2, <2>1, RoundInBuffer
  <1>6. ASSUME n > 0, at + n - 1 <= Len(src), NEW u \in units,
               ~Full(Len(d_arr), Encoded(call.to, u)), Store(Encoded(call.to, u), at + n)
        PROVE  CharsetInv'
    <2> DEFINE bytes == Encoded(call.to, u)
    <2>1. unit \in Int
      BY <1>1, <1>2, <1>3, <1>6, UnitInt
    <2>2. units \subseteq Int
      <3> HIDE DEF unit
      <3>1. \A p \in charset_map_init : p[1] \in Int /\ p[2] \in Int
        BY TableCodes, CodeRange
      <3>2. \/ units = {p[2] : p \in {q \in charset_map_init : q[1] = unit}}
            \/ units = {p[1] : p \in {q \in charset_map_init : q[2] = unit}}
            \/ units = {unit}
        BY DEF Mapped
      <3>3. QED
        BY <2>1, <3>1, <3>2
    <2>3. u \in Int
      BY <1>6, <2>2
    <2> HIDE DEF n, unit, units
    <2>4. bytes \in Seq(Int) /\ bytes # <<>> /\ (call.to # "UTF8" => Len(bytes) = 2)
      BY <1>2, <2>3, EncodedBytes
    <2>5. ~Full(Len(d_arr), bytes) /\ Store(bytes, at + n)
      BY <1>6
    <2> HIDE DEF bytes
    <2>6. /\ Len(d_arr) + Len(bytes) <= d_size
          /\ Len(bytes) > 1 => Len(d_arr) + Len(bytes) < d_size
      BY <1>2, <2>4, <2>5, NotFull
    <2>7. Stored(bytes)
      <3>1. at + n \in Nat \ {0}
        BY <1>3, <1>4
      <3>2. /\ d_arr' = d_arr \o bytes /\ at' = at + n /\ UNCHANGED <<ret, d_len, esc>>
        BY <2>5 DEF Store
      <3>3. Wide(call) => Len(d_arr) + Len(bytes) < d_size
        <4>1. Wide(call) => call.to # "UTF8"
          BY DEF Wide
        <4>2. call.to # "UTF8" => Len(bytes) > 1
          <5>1. call.to # "UTF8" => Len(bytes) = 2
            BY <2>4, Zenon
          <5>2. 2 > 1
            OBVIOUS
          <5>3. QED
            BY <5>1, <5>2, Zenon
        <4>3. QED
          BY <2>6, <4>1, <4>2
      <3>4. QED
        BY <2>4, <2>6, <3>1, <3>2, <3>3 DEF Stored
    <2>8. QED
      BY <1>1, <1>2, <2>4, <2>7, RoundInBuffer
  <1>7. QED
    BY <1>1, <1>5, <1>6

\* Storing behind a test for E_OBUF, in a call that is not of lc_conv.
LEMMA EscapeStored ==
    ASSUME CharsetInv, call \in str_esc_decode, NEW bytes \in Seq(Int), bytes # <<>>,
           Len(d_arr) + Len(bytes) <= d_size, NEW next \in Nat \ {0}, Store(bytes, next)
    PROVE  Stored(bytes)
  BY Codes DEF Stored, Store, Wide

\* A character of gbk_str_to_uint.
LEMMA GbkInBuffer == ASSUME CharsetInv, gbk_str_to_uint PROVE CharsetInv'
  <1> DEFINE byte0 == HexByte(src, at + 1)
             byte1 == HexByte(src, at + 4)
             Stores(b, next) == ~Full(Len(d_arr), b) /\ Store(b, next)
  <1>1. ret = "run" /\ call = [from |-> "%", to |-> "GBK"] /\ at <= Len(src) /\ Fixed
    BY DEF gbk_str_to_uint, Running
  <1>2. call \in str_esc_decode /\ call # str_decode
    BY <1>1, Codes DEF str_esc_decode
  <1>3. /\ src \in Seq(Int) /\ at \in Nat \ {0} /\ Len(src) \in Nat /\ src[at] \in Int
    BY <1>1, <1>2 DEF CharsetInv
  <1>4. \/ Fail("E_NASC") \/ Fail("E_IDAT") \/ Fail("E_CODE") \/ Fail("E_OBUF")
        \/ Stores(<<src[at]>>, at + 1)
        \/ at + 2 <= Len(src) /\ Stores(<<byte0>>, at + 3)
        \/ at + 5 <= Len(src) /\ Stores(<<byte0, byte1>>, at + 6)
    <2>1. \A x, y \in Nat : ~(x > y) => x <= y
      OBVIOUS
    <2>2. /\ ~(at + 2 > Len(src)) => at + 2 <= Len(src)
          /\ ~(at + 5 > Len(src)) => at + 5 <= Len(src)
      BY <1>3
    <2>3. QED
      BY <2>2, Zenon DEF gbk_str_to_uint
  <1>5. CASE Fail("E_NASC") \/ Fail("E_IDAT") \/ Fail("E_CODE") \/ Fail("E_OBUF")
    <2>1. Failed
      BY <1>5 DEF Fail, Failed
    <2>2. QED
      BY <1>1, <1>2, <2>1, RoundInBuffer
  <1>6. ASSUME NEW b \in Seq(Int), b # <<>>, NEW next \in Nat \ {0}, Stores(b, next)
        PROVE  CharsetInv'
    <2>1. Len(d_arr) + Len(b) <= d_size
      BY <1>2, <1>6, NotFull
    <2>2. Stored(b)
      BY <1>2, <1>6, <2>1, EscapeStored
    <2>3. QED
      BY <1>1, <1>2, <2>2, RoundInBuffer
  <1>7. CASE Stores(<<src[at]>>, at + 1)
    <2>1. <<src[at]>> \in Seq(Int) /\ <<src[at]>> # <<>> /\ at + 1 \in Nat \ {0}
      BY <1>3
    <2>2. QED
      BY <1>6, <1>7, <2>1
  <1>8. CASE at + 2 <= Len(src) /\ Stores(<<byte0>>, at + 3)
    <2>1. byte0 \in Int /\ at + 3 \in Nat \ {0}
      BY <1>3, <1>8, HexInt
    <2>2. <<byte0>> \in Seq(Int) /\ <<byte0>> # <<>>
      BY <2>1
    <2>3. QED
      BY <1>6, <1>8, <2>1, <2>2
  <1>9. CASE at + 5 <= Len(src) /\ Stores(<<byte0, byte1>>, at + 6)
    <2>1. byte0 \in Int /\ byte1 \in Int /\ at + 6 \in Nat \ {0}
      <3>1. /\ at + 1 \in Nat \ {0} /\ (at + 1) + 1 <= Len(src)
            /\ at + 4 \in Nat \ {0} /\ (at + 4) + 1 <= Len(src)
        BY <1>3, <1>9
      <3>2. byte0 \in Int /\ byte1 \in Int
        BY <1>3, <3>1, HexInt
      <3>3. QED
        BY <1>3, <3>2
    <2>2. <<byte0, byte1>> \in Seq(Int) /\ <<byte0, byte1>> # <<>>
      BY <2>1
    <2>3. QED
      BY <1>6, <1>9, <2>1, <2>2
  <1>10. QED
    BY <1>4, <1>5, <1>7, <1>8, <1>9


\* A first byte is followed by at most five others.
LEMMA ByteNum == \A b \in Int : byte_num(b) \in -1 .. 5
  BY DEF byte_num

\* A character of utf8_str_to_uint; a buffer that is full stays so.
LEMMA Utf8InBuffer == ASSUME CharsetInv, utf8_str_to_uint PROVE CharsetInv'
  <1> DEFINE byte == HexByte(src, at + 1)
             k == byte_num(byte)
             bytes == [j \in 1 .. (k + 1) |-> HexByte(src, at + 3 * j - 2)]
             num == Len(d_arr)
  <1>1. ret = "run" /\ call = [from |-> "%", to |-> "UTF8"] /\ at <= Len(src) /\ Fixed
    BY DEF utf8_str_to_uint, Running
  <1>2. call \in str_esc_decode /\ call # str_decode
    BY <1>1, Codes DEF str_esc_decode
  <1>3. /\ src \in Seq(Int) /\ at \in Nat \ {0} /\ Len(src) \in Nat /\ src[at] \in Int
        /\ d_arr \in Seq(Int) /\ num \in Nat /\ d_size \in Nat /\ num <= d_size
        /\ d_len = d_size
    BY <1>1, <1>2 DEF CharsetInv, Room
  <1>4. \/ Fail("-1") \/ Fail("-2") \/ Fail("-3")
        \/ num >= d_size /\ Truncated
        \/ ~(num >= d_size) /\ Store(<<src[at]>>, at + 1)
        \/ /\ ~(at + 2 > Len(src)) /\ k # -1 /\ ~(at + 3 * k + 2 > Len(src))
           /\ ~(k > d_size - num - 1) /\ Store(bytes, at + 3 * (k + 1))
    BY Zenon DEF utf8_str_to_uint
  <1>5. CASE Fail("-1") \/ Fail("-2") \/ Fail("-3")
    <2>1. Failed
      BY <1>5 DEF Fail, Failed
    <2>2. QED
      BY <1>1, <1>2, <2>1, RoundInBuffer
  <1>6. CASE num >= d_size /\ Truncated
    <2>1. num = d_size /\ [i \in 1 .. (d_size - num) |-> 0] = <<>>
      BY <1>3, <1>6
    <2>2. d_arr' = d_arr /\ d_len' = d_len /\ at' = at
      BY <1>3, <1>6, <2>1 DEF Truncated
    <2>3. /\ d_size' = d_size /\ call' = call /\ src' = src /\ stage' = stage
          /\ call \notin lc_conv /\ nul' = nul /\ nul = 0
      BY <1>1, <1>2, Codes DEF Fixed, CharsetInv
    <2>4. Room'
      BY <1>3, <2>2, <2>3 DEF Room, Wide
    <2>5. QED
      BY <1>2, <1>3, <2>1, <2>2, <2>3, <2>4 DEF CharsetInv
  <1>7. CASE ~(num >= d_size) /\ Store(<<src[at]>>, at + 1)
    <2>1. <<src[at]>> \in Seq(Int) /\ <<src[at]>> # <<>> /\ Len(<<src[at]>>) = 1
      BY <1>3
    <2>2. num + 1 <= d_size /\ at + 1 \in Nat \ {0}
      BY <1>3, <1>7
    <2>3. Stored(<<src[at]>>)
      BY <1>2, <1>7, <2>1, <2>2, EscapeStored
    <2>4. QED
      BY <1>1, <1>2, <2>1, <2>3, RoundInBuffer
  <1>8. CASE /\ ~(at + 2 > Len(src)) /\ k # -1 /\ ~(at + 3 * k + 2 > Len(src))
             /\ ~(k > d_size - num - 1) /\ Store(bytes, at + 3 * (k + 1))
    <2>0. ~(at + 2 > Len(src))
      BY <1>8
    <2>1. at + 1 \in Nat \ {0} /\ (at + 1) + 1 <= Len(src)
      BY <1>3, <2>0
    <2>2. byte \in Int
      BY <1>3, <2>1, HexInt
    <2> HIDE DEF byte
    <2>3. k \in 0 .. 5
      BY <1>8, <2>2, ByteNum
    <2> HIDE DEF k, num
    <2>4. \A j \in 1 .. (k + 1) : HexByte(src, at + 3 * j - 2) \in Int
      <3> SUFFICES ASSUME NEW j \in 1 .. (k + 1) PROVE HexByte(src, at + 3 * j - 2) \in Int
        OBVIOUS
      <3> DEFINE b == at + 3 * j - 2
      <3>1. b \in Nat \ {0} /\ b + 1 <= Len(src)
        BY <1>3, <1>8, <2>3
      <3> HIDE DEF b
      <3>2. HexByte(src, b) \in Int
        BY <1>3, <3>1, HexInt
      <3>3. QED
        BY <3>2 DEF b
    <2>5. bytes \in Seq(Int) /\ bytes # <<>> /\ Len(bytes) = k + 1
      <3> DEFINE g(j) == HexByte(src, at + 3 * j - 2)
      <3>1. \A j \in 1 .. (k + 1) : g(j) \in Int
        BY <2>4
      <3> HIDE DEF g
      <3>2. LET f == [j \in 1 .. (k + 1) |-> g(j)]
            IN  f \in Seq(Int) /\ f # <<>> /\ Len(f) = k + 1
        BY <2>3, <3>1
      <3>3. QED
        BY <3>2 DEF g
    <2> HIDE DEF bytes
    <2>6. num + Len(bytes) <= d_size /\ at + 3 * (k + 1) \in Nat \ {0}
      BY <1>3, <1>8, <2>3, <2>5
    <2>7. Stored(bytes)
      BY <1>2, <1>8, <2>5, <2>6, EscapeStored DEF num
    <2>8. QED
      BY <1>1, <1>2, <2>5, <2>7, RoundInBuffer
  <1>9. QED
    BY <1>4, <1>5, <1>6, <1>7, <1>8

\* The end of a call, and the next one of the chain.
LEMMA CallerInBuffer == ASSUME CharsetInv, Return \/ NextCall PROVE CharsetInv'
  <1>1. CASE Return
    <2>1. /\ UNCHANGED <<call, stage, src, at, d_arr, d_size>>
          /\ ret' = "E_OK" /\ d_len' = Len(d_arr)
          /\ call # str_decode => nul' = Len(d_arr) + 1
      BY <1>1 DEF Return
    <2>2. Room'
      BY <2>1 DEF CharsetInv, Room
    <2>3. QED
      BY <2>1, <2>2 DEF CharsetInv
  <1>2. CASE NextCall
    <2>0. ret = "E_OK" /\ stage \in 1 .. 7 /\ stage' = stage + 1 /\ d_size' = d_size
      BY <1>2, Codes DEF NextCall
    <2>1. call # str_decode
      BY <2>0 DEF CharsetInv
    <2>2. d_size \in Nat /\ d_arr \in Seq(Int) /\ d_len = Len(d_arr)
      BY <2>0, <2>1 DEF CharsetInv
    <2>3. CASE stage = 7
      <3>1. UNCHANGED <<call, src, at, d_arr, d_len, nul, ret>>
        BY <1>2, <2>3, Codes DEF NextCall
      <3>2. Room'
        BY <2>0, <3>1 DEF CharsetInv, Room
      <3>3. QED
        BY <2>0, <2>1, <3>1, <3>2 DEF CharsetInv
    <2>4. CASE stage # 7
      <3>1. /\ call' = Chain[stage + 1] /\ src' = SubSeq(d_arr, 1, d_len)
            /\ at' = 1 /\ d_arr' = <<>> /\ d_len' = d_size /\ nul' = 0 /\ ret' = "run"
        BY <1>2, <2>4, Codes DEF NextCall
      <3>2. call' \in lc_conv /\ call' # str_decode
        <4>1. stage + 1 \in 2 .. 7
          BY <2>0, <2>4
        <4>2. QED
          BY <3>1, <4>1, Codes
      <3>3. src' \in Seq(Int) /\ d_arr' \in Seq(Int) /\ Len(d_arr') = 0
        BY <2>2, <3>1
      <3>4. Room'
        BY <2>0, <2>2, <3>3 DEF Room
      <3>5. QED
        BY <2>0, <2>2, <3>1, <3>2, <3>3, <3>4 DEF CharsetInv
    <2>5. QED
      BY <2>3, <2>4
  <1>3. QED
    BY <1>1, <1>2

\* It holds at the start of every call and after every round.
LEMMA CharsetInductive == CharsetSpec => []CharsetInv
  <1>1. CharsetInit => CharsetInv
    <2>1. ASSUME NEW c \in lc_conv \cup str_esc_decode \cup {str_decode},
                 NEW s \in Seq(0 .. 255), NEW size \in Nat, NEW st, NEW t,
                 c = str_decode => st = 0, Called(c, s, size, st, t)
          PROVE  CharsetInv
      <3>1. /\ call = c /\ src = s /\ d_size = size /\ stage = st /\ at = 1
            /\ d_arr = <<>> /\ nul = 0 /\ ret = "run" /\ (c # str_decode => d_len = size)
        BY <2>1 DEF Called
      <3>2. s \in Seq(Int) /\ <<>> \in Seq(Int) /\ Len(<<>>) = 0
        <4>1. 0 .. 255 \subseteq Int
          OBVIOUS
        <4>2. \A S, T : S \subseteq T => Seq(S) \subseteq Seq(T)
          OBVIOUS
        <4>3. s \in Seq(Int)
          BY <4>1, <4>2, Zenon
        <4>4. QED
          BY <4>3
      <3>3. Room
        BY <3>1, <3>2 DEF Room
      <3>4. QED
        BY <2>1, <3>1, <3>2, <3>3 DEF CharsetInv
    <2>2. ASSUME NEW c \in lc_conv \cup str_esc_decode, NEW s \in Strings, NEW size \in DstSizes,
                 Called(c, s, size, 0, NoText)
          PROVE  CharsetInv
      BY <2>1, <2>2, InputAssumption
    <2>3. ASSUME NEW t \in Texts, Called(Chain[1], t.str, ChainSize, 1, t)
          PROVE  CharsetInv
      <3>1. Chain[1] \in str_esc_decode /\ Chain[1] # str_decode
        BY Codes
      <3>2. t.str \in Seq(0 .. 255) /\ ChainSize \in Nat
        BY InputAssumption
      <3>3. QED
        BY <2>1, <2>3, <3>1, <3>2
    <2>4. ASSUME NEW t \in Texts, Called(str_decode, t.str, ChainSize, 0, t)
          PROVE  CharsetInv
      <3>1. t.str \in Seq(0 .. 255) /\ ChainSize \in Nat
        BY InputAssumption
      <3>2. QED
        BY <2>1, <2>4, <3>1
    <2>5. QED
      BY <2>2, <2>3, <2>4 DEF CharsetInit
  <1>2. ASSUME CharsetInv, [CharsetNext]_csvars PROVE CharsetInv'
    <2>1. CASE LangRound
      <3>1. call = str_decode /\ UNCHANGED <<call, stage, d_size, nul>>
        BY <2>1 DEF LangRound, Running, Fixed
      <3>2. QED
        BY <1>2, <3>1 DEF CharsetInv, Room
    <2>2. CASE UNCHANGED csvars
      BY <1>2, <2>2 DEF CharsetInv, Room, csvars
    <2>3. QED
      BY <1>2, <2>1, <2>2, ConvInBuffer, Utf8InBuffer, GbkInBuffer, CallerInBuffer
      DEF CharsetNext
  <1>3. QED
    BY <1>1, <1>2, PTL DEF CharsetSpec

\* Whatever bytes a caller passes, no conversion and no decoding stores a byte
\* of its text behind the end of the caller's buffer.  The terminating 0 is the
\* only byte that may lie there, one behind the end, and for the codes of two
\* bytes it does not, if the buffer has a byte at all.
THEOREM StaysInBuffer == CharsetSpec => []WithinBuffer
  <1>1. ASSUME CharsetInv PROVE WithinBuffer
    <2> SUFFICES ASSUME call # str_decode PROVE WithinBuffer
      BY DEF WithinBuffer
    <2>1. /\ d_size \in Nat /\ Len(d_arr) \in Nat /\ Len(d_arr) <= d_size
          /\ nul = 0 \/ nul = Len(d_arr) + 1
          /\ Wide(call) /\ d_size > 0 => Len(d_arr) < d_size
      BY <1>1 DEF CharsetInv, Room
    <2>2. nul <= d_size + 1 /\ (Wide(call) /\ d_size > 0 => nul <= d_size)
      BY <2>1
    <2>3. QED
      BY <2>1, <2>2 DEF WithinBuffer, Wide
  <1>2. QED
    BY <1>1, CharsetInductive, PTL

\* What is stored are bytes, and in the code the caller asked for.
Byte == 0 .. 255
WholeInv ==
    /\ call # str_decode => src \in Seq(Byte) /\ d_arr \in Seq(Byte)
    /\ call \in lc_conv => WellFormed(call.to, d_arr)

\* The first byte of a character says how long it is, and continues none.
LEMMA FirstBytes ==
    /\ \A c \in 0 .. 127 : UnitLen("UTF8", c) = 1
    /\ \A c \in 192 .. 223 : UnitLen("UTF8", c) = 2
    /\ \A c \in 224 .. 239 : UnitLen("UTF8", c) = 3
    /\ \A c \in Int : UnitLen("UTF8", c) \in 0 .. 3
    /\ \A c \in Int : UnitLen("UTF8", c) # 0 => ~Continues(c)
  <1>1. \A c \in Int : c < 128 => UnitLen("UTF8", c) = 1
    BY DEF UnitLen
  <1>2. \A c \in 192 .. 223 : UnitLen("UTF8", c) = 2
    BY DEF UnitLen
  <1>3. \A c \in 224 .. 239 : UnitLen("UTF8", c) = 3
    BY DEF UnitLen
  <1>4. \A c \in Int : UnitLen("UTF8", c) # 0 => ~Continues(c)
    BY DEF UnitLen, Continues
  <1>5. \A c \in Int : UnitLen("UTF8", c) \in 0 .. 3
    BY DEF UnitLen
  <1>6. QED
    BY <1>1, <1>2, <1>3, <1>4, <1>5

\* A well-formed text and one more character.
LEMMA CharacterAdded ==
    ASSUME NEW s \in Seq(Byte), NEW e \in Seq(Byte), WellFormed8(s),
           e # <<>>, UnitLen("UTF8", e[1]) = Len(e), e[1] \notin {192, 193},
           \A m \in 2 .. Len(e) : Continues(e[m]),
           Len(e) = 3 /\ e[1] = 224 => e[2] >= 160
    PROVE  WellFormed8(s \o e)
  <1> DEFINE t == s \o e
  <1>1. PICK l \in Nat, k \in Nat \ {0} : l = Len(s) /\ k = Len(e)
    OBVIOUS
  <1>2. /\ DOMAIN t = 1 .. (l + k) /\ Len(t) = l + k /\ DOMAIN s = 1 .. l
        /\ \A i \in 1 .. l : t[i] = s[i]
        /\ \A i \in 1 .. k : t[l + i] = e[i]
    BY <1>1
  <1>3. e[1] \in Byte /\ ~Continues(e[1]) /\ k \in {1, 2, 3}
    <2>1. e[1] \in Byte
      BY <1>1
    <2>2. e[1] \in Int
      BY <2>1 DEF Byte
    <2>3. UnitLen("UTF8", e[1]) \in 0 .. 3
      BY <2>2, FirstBytes, Zenon
    <2>4. UnitLen("UTF8", e[1]) = k
      BY <1>1, Zenon
    <2>5. k \in {1, 2, 3}
      BY <2>3, <2>4
    <2>6. UnitLen("UTF8", e[1]) # 0
      BY <2>4
    <2>7. ~Continues(e[1])
      BY <2>2, <2>6, FirstBytes, Zenon
    <2>8. QED
      BY <2>1, <2>5, <2>7
  <1> HIDE DEF t
  <1>4. Begins(t) = Begins(s) \cup {l + 1}
    <2>1. \A i \in 1 .. l : i \in Begins(t) <=> i \in Begins(s)
      BY <1>1, <1>2 DEF Begins
    <2>2. l + 1 \in Begins(t)
      BY <1>1, <1>2, <1>3 DEF Begins
    <2>3. \A i \in 1 .. (l + k) : i \notin 1 .. l /\ i # l + 1 => i \notin Begins(t)
      <3> SUFFICES ASSUME NEW i \in 1 .. (l + k), i \notin 1 .. l, i # l + 1
                   PROVE  i \notin Begins(t)
        OBVIOUS
      <3>1. i - l \in 2 .. k /\ l + (i - l) = i /\ i - l \in 1 .. k
        BY <1>1
      <3>2. Continues(e[i - l]) /\ t[i] = e[i - l]
        BY <1>1, <1>2, <3>1
      <3>3. QED
        BY <3>2 DEF Begins
    <2>4. Begins(t) \subseteq 1 .. (l + k) /\ Begins(s) \subseteq 1 .. l
      BY <1>1, <1>2 DEF Begins
    <2>5. QED
      BY <2>1, <2>2, <2>3, <2>4
  <1>5. ASSUME NEW n \in Begins(t)
        PROVE  LET len == UnitLen("UTF8", t[n])
               IN  /\ len > 0 /\ t[n] \notin {192, 193} /\ n + len - 1 <= Len(t)
                   /\ \A m \in (n + 1) .. (n + len - 1) : Continues(t[m])
                   /\ len = 3 /\ t[n] = 224 => t[n + 1] >= 160
    <2>1. CASE n \in Begins(s)
      <3>1. n \in 1 .. l /\ t[n] = s[n]
        BY <1>2, <2>1 DEF Begins
      <3>2. PICK len : len = UnitLen("UTF8", s[n])
        OBVIOUS
      <3>3. /\ len > 0 /\ s[n] \notin {192, 193} /\ n + len - 1 <= l
            /\ \A m \in (n + 1) .. (n + len - 1) : Continues(s[m])
            /\ len = 3 /\ s[n] = 224 => s[n + 1] >= 160
        BY <1>1, <2>1, <3>2 DEF WellFormed8
      <3>4. len \in {0, 1, 2, 3}
        BY <3>2 DEF UnitLen
      <3>5. \A m \in (n + 1) .. (n + len - 1) : Continues(t[m])
        BY <1>1, <1>2, <3>1, <3>3, <3>4
      <3>6. len = 3 /\ t[n] = 224 => t[n + 1] >= 160
        <4>1. len = 3 => n + 1 \in 1 .. l
          BY <3>1, <3>3
        <4>2. QED
          BY <1>2, <3>1, <3>3, <4>1
      <3>7. n + len - 1 <= Len(t)
        BY <1>1, <1>2, <3>1, <3>3, <3>4
      <3>8. QED
        BY <3>1, <3>2, <3>3, <3>5, <3>6, <3>7
    <2>2. CASE n = l + 1
      <3>1. t[n] = e[1] /\ UnitLen("UTF8", t[n]) = k
        BY <1>1, <1>2, <2>2
      <3>2. ASSUME NEW m \in (n + 1) .. (n + k - 1) PROVE Continues(t[m])
        <4>1. m - l \in 2 .. k /\ l + (m - l) = m /\ m - l \in 1 .. k
          BY <1>1, <2>2, <3>2
        <4>2. t[m] = e[m - l] /\ Continues(e[m - l])
          BY <1>1, <1>2, <4>1
        <4>3. QED
          BY <4>2
      <3>3. k = 3 => t[n + 1] = e[2]
        <4>1. k = 3 => 2 \in 1 .. k /\ l + 2 = n + 1
          BY <1>1, <2>2
        <4>2. QED
          BY <1>2, <4>1
      <3>4. n + k - 1 <= Len(t) /\ k > 0
        BY <1>1, <1>2, <2>2
      <3>5. PICK len : len = UnitLen("UTF8", t[n])
        OBVIOUS
      <3>6. len = k
        BY <3>1, <3>5
      <3>7. len = 3 /\ t[n] = 224 => t[n + 1] >= 160
        BY <1>1, <3>1, <3>3, <3>6
      <3>8. /\ len > 0 /\ t[n] \notin {192, 193} /\ n + len - 1 <= Len(t)
            /\ \A m \in (n + 1) .. (n + len - 1) : Continues(t[m])
        BY <3>1, <3>2, <3>4, <3>6
      <3>9. QED
        BY <3>5, <3>7, <3>8
    <2>3. QED
      BY <1>4, <2>1, <2>2
  <1>6. ASSUME NEW n \in DOMAIN t \ Begins(t)
        PROVE  \E m \in Begins(t) : m < n /\ n < m + UnitLen("UTF8", t[m])
    <2>1. CASE n \in 1 .. l
      <3>1. n \in DOMAIN s \ Begins(s)
        BY <1>2, <1>4, <1>6, <2>1
      <3>2. PICK m \in Begins(s) : m < n /\ n < m + UnitLen("UTF8", s[m])
        BY <3>1 DEF WellFormed8
      <3>3. t[m] = s[m] /\ m \in Begins(t)
        BY <1>2, <1>4, <3>2 DEF Begins
      <3>4. QED
        BY <3>2, <3>3
    <2>2. CASE n \notin 1 .. l
      <3>1. t[l + 1] = e[1] /\ UnitLen("UTF8", t[l + 1]) = k /\ l + 1 \in Begins(t)
        BY <1>1, <1>2, <1>4
      <3>2. n \in 1 .. (l + k) /\ n # l + 1
        BY <1>2, <1>4, <1>6
      <3>3. l + 1 < n /\ n < l + 1 + k
        BY <1>1, <2>2, <3>2
      <3>4. QED
        BY <3>1, <3>3
    <2>3. QED
      BY <2>1, <2>2
  <1>7. WellFormed8(t)
    BY <1>5, <1>6 DEF WellFormed8
  <1>8. QED
    BY <1>7 DEF t

\* The four forms of a code.
LEMMA EncodedCases ==
    ASSUME NEW to, NEW u \in Int
    PROVE  /\ to # "UTF8" => Encoded(to, u) = <<u \div 256, u % 256>>
           /\ to = "UTF8" /\ u < 128 => Encoded(to, u) = <<u>>
           /\ to = "UTF8" /\ u \in 128 .. 2047
                => Encoded(to, u) = <<192 + (u \div 64), 128 + (u % 64)>>
           /\ to = "UTF8" /\ u > 2047
                => Encoded(to, u)
                     = <<224 + (u \div 4096), 128 + ((u \div 64) % 64), 128 + (u % 64)>>
  <1> DEFINE wide == <<u \div 256, u % 256>>
             one == <<u>>
             two == <<192 + (u \div 64), 128 + (u % 64)>>
             three == <<224 + (u \div 4096), 128 + ((u \div 64) % 64), 128 + (u % 64)>>
  <1>1. Encoded(to, u) = IF to # "UTF8" THEN wide
                         ELSE CASE u < 128 -> one [] u \in 128 .. 2047 -> two
                                [] OTHER -> three
    BY Zenon DEF Encoded
  <1> HIDE DEF wide, one, two, three
  <1>2. /\ to # "UTF8" => Encoded(to, u) = wide
        /\ to = "UTF8" /\ u < 128 => Encoded(to, u) = one
        /\ to = "UTF8" /\ u \in 128 .. 2047 => Encoded(to, u) = two
        /\ to = "UTF8" /\ u > 2047 => Encoded(to, u) = three
    BY <1>1
  <1>3. QED
    BY <1>2, Zenon DEF wide, one, two, three

\* Division with a remainder.
LEMMA Divided ==
    /\ \A u \in Nat : u \div 64 \in Nat /\ u = 64 * (u \div 64) + (u % 64) /\ u % 64 \in 0 .. 63
    /\ \A u \in Nat : u \div 256 \in Nat /\ u = 256 * (u \div 256) + (u % 256) /\ u % 256 \in 0 .. 255
    /\ \A u \in Nat : u \div 4096 \in Nat /\ u = 4096 * (u \div 4096) + (u % 4096) /\ u % 4096 \in 0 .. 4095
  <1>1. \A u \in Nat : u \div 64 \in Nat /\ u = 64 * (u \div 64) + (u % 64) /\ u % 64 \in 0 .. 63
    OBVIOUS
  <1>2. \A u \in Nat : u \div 256 \in Nat /\ u = 256 * (u \div 256) + (u % 256) /\ u % 256 \in 0 .. 255
    OBVIOUS
  <1>3. \A u \in Nat : u \div 4096 \in Nat /\ u = 4096 * (u \div 4096) + (u % 4096) /\ u % 4096 \in 0 .. 4095
    OBVIOUS
  <1>4. QED
    BY <1>1, <1>2, <1>3, Zenon

\* The numbers a code of 16 bits is taken apart into.
LEMMA CodeParts ==
    /\ \A u \in Nat : u <= 65535 => u \div 256 \in 0 .. 255 /\ u % 256 \in 0 .. 255
    /\ \A u \in Nat : u >= 128 /\ u <= 2047 =>
          192 + (u \div 64) \in 194 .. 223 /\ 128 + (u % 64) \in 128 .. 191
    /\ \A u \in Nat : u >= 2048 /\ u <= 65535 =>
          /\ 224 + (u \div 4096) \in 224 .. 239 /\ 128 + ((u \div 64) % 64) \in 128 .. 191
          /\ 128 + (u % 64) \in 128 .. 191
          /\ u \div 4096 = 0 => 128 + ((u \div 64) % 64) >= 160
  <1>1. ASSUME NEW u \in Nat, u <= 65535 PROVE u \div 256 \in 0 .. 255 /\ u % 256 \in 0 .. 255
    <2>1. PICK q, r : q = u \div 256 /\ r = u % 256
      OBVIOUS
    <2>2. q \in Nat /\ u = 256 * q + r /\ r \in 0 .. 255
      BY <2>1, Divided
    <2>3. q \in 0 .. 255
      BY <1>1, <2>2
    <2>4. QED
      BY <2>1, <2>2, <2>3, Zenon
  <1>2. ASSUME NEW u \in Nat, u >= 128, u <= 2047
        PROVE  192 + (u \div 64) \in 194 .. 223 /\ 128 + (u % 64) \in 128 .. 191
    <2>1. PICK q, r : q = u \div 64 /\ r = u % 64
      OBVIOUS
    <2>2. q \in Nat /\ u = 64 * q + r /\ r \in 0 .. 63
      BY <2>1, Divided
    <2>3. 192 + q \in 194 .. 223 /\ 128 + r \in 128 .. 191
      BY <1>2, <2>2
    <2>4. QED
      BY <2>1, <2>3, Zenon
  <1>3. ASSUME NEW u \in Nat, u >= 2048, u <= 65535
        PROVE  /\ 224 + (u \div 4096) \in 224 .. 239 /\ 128 + ((u \div 64) % 64) \in 128 .. 191
               /\ 128 + (u % 64) \in 128 .. 191
               /\ u \div 4096 = 0 => 128 + ((u \div 64) % 64) >= 160
    <2>1. PICK a, f : a = u \div 4096 /\ f = u % 4096
      OBVIOUS
    <2>2. PICK b, c : b = u \div 64 /\ c = u % 64
      OBVIOUS
    <2>3. PICK e, d : e = b \div 64 /\ d = b % 64
      OBVIOUS
    <2>4. a \in Nat /\ u = 4096 * a + f /\ f \in 0 .. 4095
      BY <2>1, Divided
    <2>5. b \in Nat /\ u = 64 * b + c /\ c \in 0 .. 63
      BY <2>2, Divided
    <2>6. e \in Nat /\ b = 64 * e + d /\ d \in 0 .. 63
      BY <2>3, <2>5, Divided
    <2>7. /\ u \in Int /\ a \in Int /\ b \in Int /\ c \in Int /\ f \in Int /\ e \in Int /\ d \in Int
          /\ a >= 0 /\ b >= 0 /\ c >= 0 /\ c <= 63 /\ f >= 0 /\ f <= 4095 /\ e >= 0 /\ d >= 0
          /\ d <= 63 /\ u = 4096 * a + f /\ u = 64 * b + c /\ b = 64 * e + d
          /\ u >= 2048 /\ u <= 65535
      BY <1>3, <2>4, <2>5, <2>6
    <2>8. a <= 15
      BY <2>7
    <2>9. b >= 32 /\ (a = 0 => b <= 63)
      BY <2>7
    <2>10. b <= 63 => e = 0
      BY <2>7
    <2>11. a = 0 => d >= 32
      BY <2>7, <2>9, <2>10
    <2>12. 224 + a \in 224 .. 239
      BY <2>7, <2>8
    <2>13. 128 + d \in 128 .. 191 /\ 128 + c \in 128 .. 191
      BY <2>7
    <2>14. a = 0 => 128 + d >= 160
      BY <2>7, <2>11
    <2>15. u \div 4096 = 0 => 128 + ((u \div 64) % 64) >= 160
      BY <2>1, <2>2, <2>3, <2>14
    <2>16. 224 + (u \div 4096) \in 224 .. 239
      BY <2>1, <2>12
    <2>17. 128 + ((u \div 64) % 64) \in 128 .. 191 /\ 128 + (u % 64) \in 128 .. 191
      BY <2>2, <2>3, <2>13, Zenon
    <2>18. QED
      BY <2>15, <2>16, <2>17
  <1>4. QED
    BY <1>1, <1>2, <1>3

\* The three forms of a character of UTF-8.
OneByte(f) == \E x \in 0 .. 127 : f = <<x>>
TwoBytes(f) == \E x \in 194 .. 223, y \in 128 .. 191 : f = <<x, y>>
ThreeBytes(f) == \E x \in 224 .. 239, y \in 128 .. 191, z \in 128 .. 191 :
                    f = <<x, y, z>> /\ (x = 224 => y >= 160)

Pair(f) == \E x, y \in Byte : f = <<x, y>>

LEMMA OneByteGiven == ASSUME NEW f, NEW x, x \in 0 .. 127, f = <<x>> PROVE OneByte(f)
  BY Zenon DEF OneByte
LEMMA TwoBytesGiven ==
    ASSUME NEW f, NEW x, NEW y, x \in 194 .. 223, y \in 128 .. 191, f = <<x, y>>
    PROVE  TwoBytes(f)
  BY Zenon DEF TwoBytes
LEMMA ThreeBytesGiven ==
    ASSUME NEW f, NEW x, NEW y, NEW z, x \in 224 .. 239, y \in 128 .. 191, z \in 128 .. 191,
           x = 224 => y >= 160, f = <<x, y, z>>
    PROVE  ThreeBytes(f)
  BY Zenon DEF ThreeBytes
LEMMA PairGiven ==
    ASSUME NEW f, NEW x, NEW y, x \in Byte, y \in Byte, f = <<x, y>> PROVE Pair(f)
  BY Zenon DEF Pair

LEMMA OneByteAdded ==
    ASSUME NEW s \in Seq(Byte), WellFormed8(s), NEW f, OneByte(f)
    PROVE  f \in Seq(Byte) /\ WellFormed8(s \o f)
  <1>1. PICK x \in 0 .. 127 : f = <<x>>
    BY DEF OneByte
  <1>2. x \in Byte
    BY DEF Byte
  <1>3. f \in Seq(Byte) /\ Len(f) = 1 /\ f[1] = x /\ f # <<>>
    BY <1>1, <1>2
  <1>4. UnitLen("UTF8", f[1]) = Len(f)
    BY <1>3, FirstBytes
  <1>5. f[1] \notin {192, 193}
    BY <1>3
  <1>6. \A m \in 2 .. Len(f) : Continues(f[m])
    BY <1>3
  <1>7. ~(Len(f) = 3 /\ f[1] = 224)
    BY <1>3
  <1>8. QED
    BY <1>3, <1>4, <1>5, <1>6, <1>7, CharacterAdded

LEMMA TwoBytesAdded ==
    ASSUME NEW s \in Seq(Byte), WellFormed8(s), NEW f, TwoBytes(f)
    PROVE  f \in Seq(Byte) /\ WellFormed8(s \o f)
  <1>1. PICK x \in 194 .. 223, y \in 128 .. 191 : f = <<x, y>>
    BY DEF TwoBytes
  <1>2. x \in Byte /\ y \in Byte
    BY DEF Byte
  <1>3. f \in Seq(Byte) /\ Len(f) = 2 /\ f[1] = x /\ f[2] = y /\ f # <<>>
    BY <1>1, <1>2
  <1>4. x \in 192 .. 223
    OBVIOUS
  <1>5. UnitLen("UTF8", f[1]) = Len(f)
    BY <1>3, <1>4, FirstBytes
  <1>6. f[1] \notin {192, 193}
    BY <1>3
  <1>7. \A m \in 2 .. Len(f) : Continues(f[m])
    <2>1. \A m \in 2 .. Len(f) : m = 2
      BY <1>3
    <2>2. Continues(y)
      BY DEF Continues
    <2>3. QED
      BY <1>3, <2>1, <2>2
  <1>8. ~(Len(f) = 3 /\ f[1] = 224)
    BY <1>3
  <1>9. QED
    BY <1>3, <1>5, <1>6, <1>7, <1>8, CharacterAdded

LEMMA ThreeBytesAdded ==
    ASSUME NEW s \in Seq(Byte), WellFormed8(s), NEW f, ThreeBytes(f)
    PROVE  f \in Seq(Byte) /\ WellFormed8(s \o f)
  <1>1. PICK x \in 224 .. 239, y \in 128 .. 191, z \in 128 .. 191 :
            f = <<x, y, z>> /\ (x = 224 => y >= 160)
    BY DEF ThreeBytes
  <1>2. x \in Byte /\ y \in Byte /\ z \in Byte
    BY DEF Byte
  <1>3. /\ f \in Seq(Byte) /\ Len(f) = 3 /\ f # <<>>
        /\ f[1] = x /\ f[2] = y /\ f[3] = z
    BY <1>1, <1>2
  <1>4. UnitLen("UTF8", f[1]) = Len(f)
    BY <1>3, FirstBytes
  <1>5. f[1] \notin {192, 193}
    BY <1>3
  <1>6. \A m \in 2 .. Len(f) : Continues(f[m])
    <2>1. \A m \in 2 .. Len(f) : m = 2 \/ m = 3
      BY <1>3
    <2>2. Continues(y) /\ Continues(z)
      BY DEF Continues
    <2>3. QED
      BY <1>3, <2>1, <2>2
  <1>7. f[1] = 224 => f[2] >= 160
    BY <1>1, <1>3
  <1>8. QED
    BY <1>3, <1>4, <1>5, <1>6, <1>7, CharacterAdded

LEMMA PairBytes ==
    ASSUME NEW f, Pair(f)
    PROVE  /\ f \in Seq(Byte) /\ Len(f) = 2
           /\ \A s \in Seq(Byte) : Len(s \o f) = Len(s) + 2 /\ Len(s) \in Nat
  <1>1. PICK x \in Byte, y \in Byte : f = <<x, y>>
    BY DEF Pair
  <1>2. f \in Seq(Byte) /\ Len(f) = 2
    BY <1>1
  <1>3. \A S : \A s, e \in Seq(S) : Len(s \o e) = Len(s) + Len(e) /\ Len(s) \in Nat
    OBVIOUS
  <1>4. \A s \in Seq(Byte) : Len(s \o f) = Len(s) + Len(f) /\ Len(s) \in Nat
    BY <1>2, <1>3, Zenon
  <1>5. QED
    BY <1>2, <1>4

\* The bytes a code of 16 bits becomes.
LEMMA EncodedForms ==
    ASSUME NEW to, NEW u \in Nat, u <= 65535
    PROVE  /\ to # "UTF8" => Pair(Encoded(to, u))
           /\ to = "UTF8" => \/ OneByte(Encoded(to, u)) \/ TwoBytes(Encoded(to, u))
                             \/ ThreeBytes(Encoded(to, u))
  <1>1. u \in Int
    OBVIOUS
  <1>2. CASE to # "UTF8"
    <2> DEFINE x == u \div 256
               y == u % 256
    <2>1. Encoded(to, u) = <<x, y>>
      BY <1>1, <1>2, EncodedCases
    <2>2. x \in Byte /\ y \in Byte
      BY CodeParts DEF Byte
    <2> HIDE DEF x, y
    <2>3. Pair(Encoded(to, u))
      BY <2>1, <2>2, PairGiven
    <2>4. QED
      BY <1>2, <2>3
  <1>3. CASE to = "UTF8" /\ u < 128
    <2>1. Encoded(to, u) = <<u>>
      BY <1>1, <1>3, EncodedCases
    <2>2. u \in 0 .. 127
      BY <1>3
    <2>3. OneByte(Encoded(to, u))
      BY <2>1, <2>2, OneByteGiven
    <2>4. QED
      BY <1>3, <2>3
  <1>4. CASE to = "UTF8" /\ u >= 128 /\ u <= 2047
    <2> DEFINE x == 192 + (u \div 64)
               y == 128 + (u % 64)
    <2>1. u \in 128 .. 2047
      BY <1>4
    <2>2. Encoded(to, u) = <<x, y>>
      BY <1>1, <1>4, <2>1, EncodedCases
    <2>3. x \in 194 .. 223 /\ y \in 128 .. 191
      BY <1>4, CodeParts
    <2> HIDE DEF x, y
    <2>4. TwoBytes(Encoded(to, u))
      BY <2>2, <2>3, TwoBytesGiven
    <2>5. QED
      BY <1>4, <2>4
  <1>5. CASE to = "UTF8" /\ u >= 2048
    <2> DEFINE q == u \div 4096
               x == 224 + q
               y == 128 + ((u \div 64) % 64)
               z == 128 + (u % 64)
    <2>1. u > 2047
      BY <1>5
    <2>2. Encoded(to, u) = <<x, y, z>>
      BY <1>1, <1>5, <2>1, EncodedCases
    <2>3. /\ x \in 224 .. 239 /\ y \in 128 .. 191 /\ z \in 128 .. 191
          /\ q = 0 => y >= 160
      BY <1>5, CodeParts
    <2>4. q \in Int
      OBVIOUS
    <2> HIDE DEF q, y, z
    <2>5. x = 224 => q = 0
      BY <2>4
    <2> HIDE DEF x
    <2>6. ThreeBytes(Encoded(to, u))
      BY <2>2, <2>3, <2>5, ThreeBytesGiven
    <2>7. QED
      BY <1>5, <2>6
  <1>6. (u < 128) \/ (u >= 128 /\ u <= 2047) \/ (u >= 2048)
    OBVIOUS
  <1>7. QED
    BY <1>2, <1>3, <1>4, <1>5, <1>6

\* A well-formed text and a code of 16 bits.
LEMMA EncodedWhole ==
    ASSUME NEW to, NEW u \in Nat, u <= 65535, NEW s \in Seq(Byte), WellFormed(to, s)
    PROVE  Encoded(to, u) \in Seq(Byte) /\ WellFormed(to, s \o Encoded(to, u))
  <1> DEFINE f == Encoded(to, u)
  <1>1. CASE to # "UTF8"
    <2>1. Pair(f)
      BY <1>1, EncodedForms
    <2> HIDE DEF f
    <2>2. f \in Seq(Byte) /\ Len(f) = 2
      BY <2>1, PairBytes
    <2>3. Len(s \o f) = Len(s) + 2 /\ Len(s) \in Nat
      BY <2>1, PairBytes
    <2>4. Len(s) % 2 = 0
      BY <1>1 DEF WellFormed
    <2>5. \A i \in Nat : i % 2 = 0 => (i + 2) % 2 = 0
      OBVIOUS
    <2>6. Len(s \o f) % 2 = 0
      BY <2>3, <2>4, <2>5
    <2>7. WellFormed(to, s \o f)
      BY <1>1, <2>6 DEF WellFormed
    <2>8. QED
      BY <2>2, <2>7 DEF f
  <1>2. CASE to = "UTF8"
    <2>1. OneByte(f) \/ TwoBytes(f) \/ ThreeBytes(f)
      BY <1>2, EncodedForms
    <2> HIDE DEF f
    <2>2. WellFormed8(s)
      BY <1>2 DEF WellFormed
    <2>3. f \in Seq(Byte) /\ WellFormed8(s \o f)
      BY <2>1, <2>2, OneByteAdded, TwoBytesAdded, ThreeBytesAdded
    <2>4. WellFormed(to, s \o f)
      BY <1>2, <2>3 DEF WellFormed
    <2>5. QED
      BY <2>3, <2>4 DEF f
  <1>3. QED
    BY <1>1, <1>2

\* The same for a code.
LEMMA CodeWhole ==
    ASSUME NEW to, NEW u \in Code, NEW s \in Seq(Byte), WellFormed(to, s)
    PROVE  Encoded(to, u) \in Seq(Byte) /\ WellFormed(to, s \o Encoded(to, u))
  <1>1. u \in Nat /\ u <= 65535
    BY CodeRange
  <1>2. QED
    BY <1>1, EncodedWhole

\* An entry of hex_char_vmap is a digit, or the -1 of 0.
LEMMA Nibble ==
    /\ \A c \in Byte : hex_char_vmap(c) \in -1 .. 15
    /\ \A i, j \in 0 .. 15 : 16 * i + j \in Byte
  <1>1. \A c \in Int : c >= 48 /\ c <= 57 => hex_char_vmap(c) = c - 48
    BY DEF hex_char_vmap, Digits, Lower, Upper
  <1>2. \A c \in Int : c >= 97 /\ c <= 102 => hex_char_vmap(c) = 10 + (c - 97)
    BY DEF hex_char_vmap, Digits, Lower, Upper
  <1>3. \A c \in Int : c >= 65 /\ c <= 70 => hex_char_vmap(c) = 10 + (c - 65)
    BY DEF hex_char_vmap, Digits, Lower, Upper
  <1>4. ASSUME NEW c, c \notin Digits, c \notin Lower, c \notin Upper
        PROVE  hex_char_vmap(c) = -1 \/ hex_char_vmap(c) = 0
    <2>1. CASE c = 0
      BY <1>4, <2>1, Zenon DEF hex_char_vmap
    <2>2. CASE c # 0
      BY <1>4, <2>2, Zenon DEF hex_char_vmap
    <2>3. QED
      BY <2>1, <2>2
  <1>5. \A c \in Byte : hex_char_vmap(c) \in -1 .. 15
    <2> SUFFICES ASSUME NEW c \in Int PROVE hex_char_vmap(c) \in -1 .. 15
      BY DEF Byte
    <2>1. CASE c \in Digits
      BY <1>1, <2>1 DEF Digits
    <2>2. CASE c \in Lower
      BY <1>2, <2>2 DEF Lower
    <2>3. CASE c \in Upper
      BY <1>3, <2>3 DEF Upper
    <2>4. CASE c \notin Digits /\ c \notin Lower /\ c \notin Upper
      <3>1. hex_char_vmap(c) = -1 \/ hex_char_vmap(c) = 0
        BY <1>4, <2>4
      <3>2. QED
        BY <3>1
    <2>5. QED
      BY <2>1, <2>2, <2>3, <2>4
  <1>6. \A i, j \in 0 .. 15 : 16 * i + j \in Byte
    BY DEF Byte
  <1>7. QED
    BY <1>5, <1>6

\* Two hex digits are a byte.
LEMMA HexIsByte ==
    ASSUME NEW s \in Seq(Byte), NEW b \in Nat \ {0}, b + 1 <= Len(s), HexOk(s, b)
    PROVE  HexByte(s, b) \in Byte
  <1>1. s[b] \in Byte /\ s[b + 1] \in Byte
    OBVIOUS
  <1> DEFINE i == hex_char_vmap(s[b])
             j == hex_char_vmap(s[b + 1])
  <1>2. i \in -1 .. 15 /\ j \in -1 .. 15
    BY <1>1, Nibble
  <1>3. i # -1 /\ j # -1 /\ HexByte(s, b) = 16 * i + j
    BY DEF HexOk, HexByte
  <1> HIDE DEF i, j
  <1>4. i \in 0 .. 15 /\ j \in 0 .. 15
    BY <1>2, <1>3
  <1>5. QED
    BY <1>3, <1>4, Nibble

\* What two and three bytes make is a code of 16 bits.
LEMMA BytesMakeCodes ==
    /\ \A x, y \in Byte : 256 * x + y \in Code
    /\ \A x, y \in Byte : 64 * (x % 32) + (y % 64) \in Code
    /\ \A x, y, z \in Byte : 4096 * (x % 16) + 64 * (y % 64) + (z % 64) \in Code
    /\ \A x \in Byte : x \in Code
  <1>1. \A x \in Byte : x \in Nat /\ x <= 255
    BY DEF Byte
  <1>2. \A x \in Nat : x % 16 \in 0 .. 15 /\ x % 32 \in 0 .. 31 /\ x % 64 \in 0 .. 63
    OBVIOUS
  <1>3. \A x, y \in Byte : 256 * x + y \in Code
    BY <1>1, CodeRange
  <1>4. \A x \in Byte : x \in Code
    BY <1>1, CodeRange
  <1>5. \A i \in 0 .. 31, j \in 0 .. 63 : 64 * i + j \in Code
    BY CodeRange
  <1>6. \A x, y \in Byte : 64 * (x % 32) + (y % 64) \in Code
    BY <1>1, <1>2, <1>5
  <1>7. \A x, y, z \in Byte : 4096 * (x % 16) + 64 * (y % 64) + (z % 64) \in Code
    <2> SUFFICES ASSUME NEW x \in Byte, NEW y \in Byte, NEW z \in Byte
                 PROVE  4096 * (x % 16) + 64 * (y % 64) + (z % 64) \in Code
      OBVIOUS
    <2>1. PICK i, j, k : i = x % 16 /\ j = y % 64 /\ k = z % 64
      OBVIOUS
    <2>2. i \in 0 .. 15 /\ j \in 0 .. 63 /\ k \in 0 .. 63
      BY <1>1, <1>2, <2>1
    <2>3. 4096 * i + 64 * j + k \in Code
      BY <2>2, CodeRange
    <2>4. QED
      BY <2>1, <2>3
  <1>8. QED
    BY <1>3, <1>4, <1>6, <1>7

\* A unit that lies in the input is a code of 16 bits.
LEMMA UnitIsCode ==
    ASSUME NEW from \in {"UTF8", "GBK", "UCS2"}, NEW s \in Seq(Byte), NEW b \in Nat \ {0},
           UnitLen(from, s[b]) > 0, b + UnitLen(from, s[b]) - 1 <= Len(s), b <= Len(s)
    PROVE  Unit(from, s, b) \in Code
  <1>0. s[b] \in Byte
    OBVIOUS
  <1>1. s[b] \in Int
    BY <1>0 DEF Byte
  <1>2. CASE from # "UTF8"
    <2>1. UnitLen(from, s[b]) = 2
      BY <1>2 DEF UnitLen
    <2>2. s[b + 1] \in Byte
      BY <2>1
    <2>3. Unit(from, s, b) = 256 * s[b] + s[b + 1]
      BY <1>2 DEF Unit
    <2>4. QED
      BY <1>0, <2>2, <2>3, BytesMakeCodes
  <1>3. CASE from = "UTF8"
    <2>1. UnitLen(from, s[b]) \in {1, 2, 3}
      BY <1>1, <1>3 DEF UnitLen
    <2>2. CASE UnitLen(from, s[b]) = 1
      <3>1. Unit(from, s, b) = s[b]
        BY <1>3, <2>2 DEF Unit
      <3>2. QED
        BY <1>0, <3>1, BytesMakeCodes
    <2>3. CASE UnitLen(from, s[b]) = 2
      <3>1. Unit(from, s, b) = 64 * (s[b] % 32) + (s[b + 1] % 64)
        BY <1>3, <2>3 DEF Unit
      <3>2. s[b + 1] \in Byte
        BY <2>3
      <3>3. QED
        BY <1>0, <3>1, <3>2, BytesMakeCodes
    <2>4. CASE UnitLen(from, s[b]) = 3
      <3>1. Unit(from, s, b) = 4096 * (s[b] % 16) + 64 * (s[b + 1] % 64) + (s[b + 2] % 64)
        BY <1>3, <2>4 DEF Unit
      <3>2. s[b + 1] \in Byte /\ s[b + 2] \in Byte
        BY <2>4
      <3>3. QED
        BY <1>0, <3>1, <3>2, BytesMakeCodes
    <2>5. QED
      BY <2>1, <2>2, <2>3, <2>4
  <1>4. QED
    BY <1>2, <1>3

\* What a round does to the bytes: none are added, or some that keep the
\* text well-formed.
LEMMA RoundWhole ==
    ASSUME WholeInv, call # str_decode, UNCHANGED <<call, src>>,
           \/ d_arr' = d_arr
           \/ \E e \in Seq(Byte) : /\ d_arr' = d_arr \o e
                                   /\ call \in lc_conv => WellFormed(call.to, d_arr \o e)
    PROVE  WholeInv'
  <1>1. d_arr \in Seq(Byte) /\ src \in Seq(Byte)
    BY DEF WholeInv
  <1>2. CASE d_arr' = d_arr
    BY <1>2 DEF WholeInv
  <1>3. ASSUME NEW e \in Seq(Byte), d_arr' = d_arr \o e,
               call \in lc_conv => WellFormed(call.to, d_arr \o e)
        PROVE  WholeInv'
    <2>1. d_arr' \in Seq(Byte)
      BY <1>1, <1>3
    <2>2. call' \in lc_conv => WellFormed(call'.to, d_arr')
      BY <1>3
    <2>3. QED
      BY <1>1, <2>1, <2>2 DEF WholeInv
  <1>4. QED
    BY <1>2, <1>3

\* A call that fails adds nothing.
LEMMA FailWhole == ASSUME NEW err, Fail(err) PROVE d_arr' = d_arr
  BY DEF Fail

\* A round of a conversion stores a character.
LEMMA ConvWhole == ASSUME CharsetInv, WholeInv, ConvRound PROVE WholeInv'
  <1> DEFINE n == UnitLen(call.from, src[at])
             unit == Unit(call.from, src, at)
             units == Mapped(call, unit)
  <1>1. /\ ret = "run" /\ call \in lc_conv /\ at <= Len(src) /\ Fixed
        /\ \/ Fail("E_CODE") \/ Fail("E_IDAT") \/ Fail("E_OBUF")
           \/ /\ n > 0 /\ at + n - 1 <= Len(src)
              /\ \E u \in units : /\ ~Full(Len(d_arr), Encoded(call.to, u))
                                 /\ Store(Encoded(call.to, u), at + n)
    BY ConvOutcome, Zenon
  <1>2. /\ call # str_decode /\ call.from \in {"UTF8", "GBK", "UCS2"}
        /\ call' = call /\ src' = src
    BY <1>1, Codes DEF Fixed
  <1>3. /\ src \in Seq(Byte) /\ d_arr \in Seq(Byte) /\ at \in Nat \ {0}
        /\ WellFormed(call.to, d_arr)
    BY <1>1, <1>2 DEF CharsetInv, WholeInv
  <1>4. CASE Fail("E_CODE") \/ Fail("E_IDAT") \/ Fail("E_OBUF")
    <2>1. d_arr' = d_arr
      BY <1>4, FailWhole
    <2>2. QED
      BY <1>2, <2>1, RoundWhole
  <1>5. ASSUME n > 0, at + n - 1 <= Len(src), NEW u \in units,
               Store(Encoded(call.to, u), at + n)
        PROVE  WholeInv'
    <2> DEFINE bytes == Encoded(call.to, u)
    <2>1. unit \in Code
      BY <1>1, <1>2, <1>3, <1>5, UnitIsCode
    <2>2. u \in Code
      <3> HIDE DEF unit
      <3>1. \/ units = {p[2] : p \in {q \in charset_map_init : q[1] = unit}}
            \/ units = {p[1] : p \in {q \in charset_map_init : q[2] = unit}}
            \/ units = {unit}
        BY DEF Mapped
      <3>2. units \subseteq Code
        BY <2>1, <3>1, TableCodes
      <3>3. QED
        BY <1>5, <3>2
    <2>3. bytes \in Seq(Byte) /\ WellFormed(call.to, d_arr \o bytes)
      BY <1>3, <2>2, CodeWhole
    <2>4. d_arr' = d_arr \o bytes
      BY <1>5 DEF Store
    <2> HIDE DEF bytes
    <2>5. QED
      BY <1>2, <2>3, <2>4, RoundWhole
  <1>6. QED
    BY <1>1, <1>4, <1>5

\* A round of the percent-decodings stores bytes.
LEMMA GbkBytes == ASSUME CharsetInv, WholeInv, gbk_str_to_uint PROVE WholeInv'
  <1> DEFINE byte0 == HexByte(src, at + 1)
             byte1 == HexByte(src, at + 4)
  <1>1. /\ ret = "run" /\ call = [from |-> "%", to |-> "GBK"] /\ at <= Len(src)
        /\ UNCHANGED <<call, src>>
    BY DEF gbk_str_to_uint, Running, Fixed
  <1>2. call \in str_esc_decode /\ call # str_decode /\ call \notin lc_conv
    BY <1>1, Codes DEF str_esc_decode
  <1>3. /\ src \in Seq(Byte) /\ at \in Nat \ {0} /\ Len(src) \in Nat /\ src[at] \in Byte
    BY <1>1, <1>2 DEF CharsetInv, WholeInv
  <1>4. \/ Fail("E_NASC") \/ Fail("E_IDAT") \/ Fail("E_CODE") \/ Fail("E_OBUF")
        \/ Store(<<src[at]>>, at + 1)
        \/ at + 2 <= Len(src) /\ HexOk(src, at + 1) /\ Store(<<byte0>>, at + 3)
        \/ /\ at + 5 <= Len(src) /\ HexOk(src, at + 1) /\ HexOk(src, at + 4)
           /\ Store(<<byte0, byte1>>, at + 6)
    <2>1. /\ ~(at + 2 > Len(src)) => at + 2 <= Len(src)
          /\ ~(at + 5 > Len(src)) => at + 5 <= Len(src)
      BY <1>3
    <2>2. QED
      BY <2>1, Zenon DEF gbk_str_to_uint
  <1>5. CASE Fail("E_NASC") \/ Fail("E_IDAT") \/ Fail("E_CODE") \/ Fail("E_OBUF")
    <2>1. d_arr' = d_arr
      BY <1>5, FailWhole
    <2>2. QED
      BY <1>1, <1>2, <2>1, RoundWhole
  <1>6. ASSUME NEW e \in Seq(Byte), NEW next, Store(e, next)
        PROVE  WholeInv'
    <2>1. d_arr' = d_arr \o e
      BY <1>6 DEF Store
    <2>2. QED
      BY <1>1, <1>2, <2>1, RoundWhole
  <1>7. CASE Store(<<src[at]>>, at + 1)
    <2>1. <<src[at]>> \in Seq(Byte)
      BY <1>3
    <2>2. QED
      BY <1>6, <1>7, <2>1
  <1>8. CASE at + 2 <= Len(src) /\ HexOk(src, at + 1) /\ Store(<<byte0>>, at + 3)
    <2>1. at + 1 \in Nat \ {0} /\ (at + 1) + 1 <= Len(src)
      BY <1>3, <1>8
    <2>2. byte0 \in Byte
      BY <1>3, <1>8, <2>1, HexIsByte
    <2> HIDE DEF byte0
    <2>3. <<byte0>> \in Seq(Byte)
      BY <2>2
    <2>4. QED
      BY <1>6, <1>8, <2>3
  <1>9. CASE /\ at + 5 <= Len(src) /\ HexOk(src, at + 1) /\ HexOk(src, at + 4)
             /\ Store(<<byte0, byte1>>, at + 6)
    <2>1. /\ at + 1 \in Nat \ {0} /\ (at + 1) + 1 <= Len(src)
          /\ at + 4 \in Nat \ {0} /\ (at + 4) + 1 <= Len(src)
      BY <1>3, <1>9
    <2>2. byte0 \in Byte /\ byte1 \in Byte
      BY <1>3, <1>9, <2>1, HexIsByte
    <2> HIDE DEF byte0, byte1
    <2>3. <<byte0, byte1>> \in Seq(Byte)
      BY <2>2
    <2>4. QED
      BY <1>6, <1>9, <2>3
  <1>10. QED
    BY <1>4, <1>5, <1>7, <1>8, <1>9

LEMMA Utf8Bytes == ASSUME CharsetInv, WholeInv, utf8_str_to_uint PROVE WholeInv'
  <1> DEFINE byte == HexByte(src, at + 1)
             k == byte_num(byte)
             bytes == [j \in 1 .. (k + 1) |-> HexByte(src, at + 3 * j - 2)]
             num == Len(d_arr)
  <1>1. /\ ret = "run" /\ call = [from |-> "%", to |-> "UTF8"] /\ at <= Len(src)
        /\ UNCHANGED <<call, src>>
    BY DEF utf8_str_to_uint, Running, Fixed
  <1>2. call \in str_esc_decode /\ call # str_decode /\ call \notin lc_conv
    BY <1>1, Codes DEF str_esc_decode
  <1>3. /\ src \in Seq(Byte) /\ at \in Nat \ {0} /\ Len(src) \in Nat /\ src[at] \in Byte
        /\ d_arr \in Seq(Byte) /\ num \in Nat /\ d_size \in Nat /\ num <= d_size
    BY <1>1, <1>2 DEF CharsetInv, WholeInv, Room
  <1>4. \/ Fail("-1") \/ Fail("-2") \/ Fail("-3")
        \/ num >= d_size /\ Truncated
        \/ Store(<<src[at]>>, at + 1)
        \/ /\ ~(at + 2 > Len(src)) /\ HexOk(src, at + 1) /\ k # -1
           /\ ~(at + 3 * k + 2 > Len(src))
           /\ ~\E j \in 1 .. k : ~(src[at + 3 * j] = ASCII_PERCENT /\ HexOk(src, at + 3 * j + 1))
           /\ Store(bytes, at + 3 * (k + 1))
    BY Zenon DEF utf8_str_to_uint
  <1>5. CASE Fail("-1") \/ Fail("-2") \/ Fail("-3")
    <2>1. d_arr' = d_arr
      BY <1>5, FailWhole
    <2>2. QED
      BY <1>1, <1>2, <2>1, RoundWhole
  <1>6. ASSUME NEW e \in Seq(Byte), NEW next, Store(e, next)
        PROVE  WholeInv'
    <2>1. d_arr' = d_arr \o e
      BY <1>6 DEF Store
    <2>2. QED
      BY <1>1, <1>2, <2>1, RoundWhole
  <1>7. CASE num >= d_size /\ Truncated
    <2>1. num = d_size /\ [i \in 1 .. (d_size - num) |-> 0] = <<>>
      BY <1>3, <1>7
    <2>2. d_arr' = d_arr
      BY <1>3, <1>7, <2>1 DEF Truncated
    <2>3. QED
      BY <1>1, <1>2, <2>2, RoundWhole
  <1>8. CASE Store(<<src[at]>>, at + 1)
    <2>1. <<src[at]>> \in Seq(Byte)
      BY <1>3
    <2>2. QED
      BY <1>6, <1>8, <2>1
  <1>9. CASE /\ ~(at + 2 > Len(src)) /\ HexOk(src, at + 1) /\ k # -1
             /\ ~(at + 3 * k + 2 > Len(src))
             /\ ~\E j \in 1 .. k : ~(src[at + 3 * j] = ASCII_PERCENT /\ HexOk(src, at + 3 * j + 1))
             /\ Store(bytes, at + 3 * (k + 1))
    <2>0. /\ ~(at + 2 > Len(src)) /\ HexOk(src, at + 1) /\ k # -1
          /\ ~(at + 3 * k + 2 > Len(src)) /\ Store(bytes, at + 3 * (k + 1))
          /\ \A j \in 1 .. k : HexOk(src, at + 3 * j + 1)
      BY <1>9, Zenon
    <2>1. at + 1 \in Nat \ {0} /\ (at + 1) + 1 <= Len(src)
      BY <1>3, <2>0
    <2>2. byte \in Int
      <3>1. byte \in Byte
        BY <1>3, <2>0, <2>1, HexIsByte
      <3>2. QED
        BY <3>1 DEF Byte
    <2> HIDE DEF byte
    <2>3. k \in 0 .. 5
      BY <2>0, <2>2, ByteNum
    <2> HIDE DEF k, num
    <2>4. ASSUME NEW j \in 1 .. (k + 1) PROVE HexByte(src, at + 3 * j - 2) \in Byte
      <3> DEFINE b == at + 3 * j - 2
      <3>1. b \in Nat \ {0} /\ b + 1 <= Len(src)
        BY <1>3, <2>0, <2>3
      <3>2. HexOk(src, b)
        <4>1. CASE j = 1
          <5>1. b = at + 1
            BY <1>3, <4>1
          <5>2. QED
            BY <2>0, <5>1
        <4>2. CASE j # 1
          <5>1. j - 1 \in 1 .. k /\ b = at + 3 * (j - 1) + 1
            BY <1>3, <2>3, <4>2
          <5>2. QED
            BY <2>0, <5>1
        <4>3. QED
          BY <4>1, <4>2
      <3> HIDE DEF b
      <3>3. HexByte(src, b) \in Byte
        BY <1>3, <3>1, <3>2, HexIsByte
      <3>4. QED
        BY <3>3 DEF b
    <2>5. bytes \in Seq(Byte)
      <3> DEFINE g(j) == HexByte(src, at + 3 * j - 2)
      <3>1. \A j \in 1 .. (k + 1) : g(j) \in Byte
        BY <2>4
      <3> HIDE DEF g
      <3>2. [j \in 1 .. (k + 1) |-> g(j)] \in Seq(Byte)
        BY <2>3, <3>1
      <3>3. QED
        BY <3>2 DEF g
    <2> HIDE DEF bytes
    <2>6. QED
      BY <1>6, <2>0, <2>5
  <1>10. QED
    BY <1>4, <1>5, <1>7, <1>8, <1>9

\* No bytes are well-formed in every code.
LEMMA NothingStored == \A code : WellFormed(code, <<>>)
  <1>1. Len(<<>>) % 2 = 0
    OBVIOUS
  <1>2. DOMAIN <<>> = {} /\ Begins(<<>>) = {}
    BY DEF Begins
  <1>3. WellFormed8(<<>>)
    BY <1>2 DEF WellFormed8
  <1>4. QED
    BY <1>1, <1>3 DEF WellFormed

\* The next call of the chain reads what the last one stored, and has stored
\* nothing yet.
LEMMA CallerWhole == ASSUME CharsetInv, WholeInv, Return \/ NextCall PROVE WholeInv'
  <1>1. CASE Return
    BY <1>1 DEF Return, WholeInv
  <1>2. CASE NextCall
    <2>0. ret = "E_OK" /\ stage \in 1 .. 7
      BY <1>2, Codes DEF NextCall
    <2>1. call # str_decode
      BY <2>0 DEF CharsetInv
    <2>2. d_arr \in Seq(Byte) /\ d_len = Len(d_arr)
      BY <2>0, <2>1 DEF CharsetInv, WholeInv
    <2>3. CASE stage = 7
      <3>1. UNCHANGED <<call, src, d_arr>>
        BY <1>2, <2>3, Codes DEF NextCall
      <3>2. QED
        BY <3>1 DEF WholeInv
    <2>4. CASE stage # 7
      <3>1. src' = SubSeq(d_arr, 1, d_len) /\ d_arr' = <<>>
        BY <1>2, <2>4, Codes DEF NextCall
      <3>2. src' \in Seq(Byte) /\ d_arr' \in Seq(Byte)
        BY <2>2, <3>1
      <3>3. QED
        BY <3>1, <3>2, NothingStored DEF WholeInv
    <2>5. QED
      BY <2>3, <2>4
  <1>3. QED
    BY <1>1, <1>2

\* Whatever bytes a caller passes, UTF-8 or not, and wherever the conversion
\* stops, what it has stored are whole, well-formed characters of the code it
\* converts to, and a call that succeeds returns the length of them all: the
\* next conversion of a chain never begins or ends inside a character.
THEOREM CharactersWhole == CharsetSpec => []WholeCharacters
  <1>1. CharsetInit => WholeInv
    <2>1. ASSUME NEW c, NEW s \in Seq(Byte), NEW size, NEW st, NEW t, Called(c, s, size, st, t)
          PROVE  WholeInv
      <3>1. call = c /\ src = s /\ d_arr = <<>>
        BY <2>1 DEF Called
      <3>2. <<>> \in Seq(Byte)
        OBVIOUS
      <3>3. QED
        BY <3>1, <3>2, NothingStored DEF WholeInv
    <2>2. ASSUME NEW c \in lc_conv \cup str_esc_decode, NEW s \in Strings, NEW size \in DstSizes,
                 Called(c, s, size, 0, NoText)
          PROVE  WholeInv
      <3>1. s \in Seq(Byte)
        BY InputAssumption DEF Byte
      <3>2. QED
        BY <2>1, <2>2, <3>1
    <2>3. ASSUME NEW t \in Texts,
                 \/ Called(Chain[1], t.str, ChainSize, 1, t)
                 \/ Called(str_decode, t.str, ChainSize, 0, t)
          PROVE  WholeInv
      <3>1. t.str \in Seq(Byte)
        BY InputAssumption DEF Byte
      <3>2. QED
        BY <2>1, <2>3, <3>1
    <2>4. QED
      BY <2>2, <2>3 DEF CharsetInit
  <1>2. ASSUME CharsetInv, WholeInv, [CharsetNext]_csvars PROVE WholeInv'
    <2>1. CASE LangRound
      <3>1. call = str_decode /\ call' = call
        BY <2>1 DEF LangRound, Running, Fixed
      <3>2. QED
        BY <3>1, Codes DEF WholeInv
    <2>2. CASE UNCHANGED csvars
      BY <1>2, <2>2 DEF WholeInv, csvars
    <2>3. QED
      BY <1>2, <2>1, <2>2, ConvWhole, Utf8Bytes, GbkBytes, CallerWhole DEF CharsetNext
  <1>3. CharsetInv /\ WholeInv => WholeCharacters
    <2>1. \A c \in lc_conv : c # str_decode
      BY Codes
    <2>2. QED
      BY <2>1 DEF CharsetInv, WholeInv, WholeCharacters
  <1>4. QED
    BY <1>1, <1>2, <1>3, CharsetInductive, PTL DEF CharsetSpec

-----------------------------------------------------------------------------
(* UrlParser.                                                              *)

\* Two sequences with the same values are the same.
LEMMA SameSeq ==
    ASSUME NEW S, NEW u \in Seq(S), NEW v \in Seq(S), Len(u) = Len(v),
           \A i \in 1 .. Len(u) : u[i] = v[i]
    PROVE  u = v
  <1>1. u \in [1 .. Len(u) -> S]
    OBVIOUS
  <1>2. v \in [1 .. Len(u) -> S]
    OBVIOUS
  <1>3. u = [i \in 1 .. Len(u) |-> u[i]]
    BY <1>1
  <1>4. v = [i \in 1 .. Len(u) |-> v[i]]
    BY <1>2
  <1>5. [i \in 1 .. Len(u) |-> u[i]] = [i \in 1 .. Len(u) |-> v[i]]
    OBVIOUS
  <1>6. QED
    BY <1>3, <1>4, <1>5, Zenon

\* What Min and Max choose.
LEMMA LeastIsMin ==
    ASSUME NEW T \in SUBSET Int, NEW m \in T, \A i \in T : m <= i PROVE Min(T) = m
  <1>1. \A x \in T : (\A y \in T : x <= y) => x = m
    OBVIOUS
  <1>2. QED
    BY <1>1 DEF Min

LEMMA GreatestIsMax ==
    ASSUME NEW T \in SUBSET Int, NEW m \in T, \A i \in T : i <= m PROVE Max(T) = m
  <1>1. \A x \in T : (\A y \in T : x >= y) => x = m
    OBVIOUS
  <1>2. \A y \in T : m >= y
    OBVIOUS
  <1>3. QED
    BY <1>1, <1>2 DEF Max

\* find_str for a single character: its first place, if it has one.
LEMMA FindChar ==
    ASSUME NEW S, NEW s \in Seq(S), NEW b \in Nat \ {0}, NEW c
    PROVE  /\ (\A i \in b .. Len(s) : s[i] # c) => find_str(s, b, Len(s) + 1, <<c>>) = NULL
           /\ \A m \in b .. Len(s) : s[m] = c /\ (\A i \in b .. (m - 1) : s[i] # c)
                    => find_str(s, b, Len(s) + 1, <<c>>) = m
  <1> DEFINE hits == {i \in b .. (Len(s) + 1 - Len(<<c>>)) : cmp_str(s, i, <<c>>)}
  <1>0. Len(s) \in Nat /\ Len(<<c>>) = 1 /\ <<c>>[1] = c
    OBVIOUS
  <1>1. \A i \in b .. Len(s) : cmp_str(s, i, <<c>>) <=> s[i] = c
    <2> SUFFICES ASSUME NEW i \in b .. Len(s) PROVE cmp_str(s, i, <<c>>) <=> s[i] = c
      OBVIOUS
    <2>1. cmp_str(s, i, <<c>>) <=> i + 1 - 1 <= Len(s) /\ \A k \in 1 .. 1 : s[i + k - 1] = <<c>>[k]
      BY <1>0 DEF cmp_str
    <2>2. i + 1 - 1 = i /\ i <= Len(s) /\ \A k \in 1 .. 1 : k = 1
      BY <1>0
    <2>3. QED
      BY <1>0, <2>1, <2>2
  <1>2. hits = {i \in b .. Len(s) : s[i] = c}
    <2>1. Len(s) + 1 - Len(<<c>>) = Len(s)
      BY <1>0
    <2>2. QED
      BY <1>1, <2>1
  <1>3. find_str(s, b, Len(s) + 1, <<c>>) = IF hits = {} THEN NULL ELSE Min(hits)
    BY DEF find_str
  <1> HIDE DEF hits
  <1>4. ASSUME \A i \in b .. Len(s) : s[i] # c
        PROVE  find_str(s, b, Len(s) + 1, <<c>>) = NULL
    BY <1>2, <1>3, <1>4
  <1>5. ASSUME NEW m \in b .. Len(s), s[m] = c, \A i \in b .. (m - 1) : s[i] # c
        PROVE  find_str(s, b, Len(s) + 1, <<c>>) = m
    <2>1. m \in hits /\ hits \subseteq Int /\ \A i \in hits : m <= i
      BY <1>0, <1>2, <1>5
    <2>2. Min(hits) = m
      BY <2>1, LeastIsMin
    <2>3. QED
      BY <1>3, <2>1, <2>2
  <1>6. QED
    BY <1>4, <1>5

\* A part that stands behind o characters is what is cut out there.
LEMMA CutPart ==
    ASSUME NEW S, NEW s \in Seq(S), NEW o \in Nat, NEW x \in Seq(S), o + Len(x) <= Len(s),
           \A i \in 1 .. Len(x) : s[o + i] = x[i]
    PROVE  SubSeq(s, o + 1, o + Len(x)) = x
  <1>0. PICK n \in Nat : n = Len(x)
    OBVIOUS
  <1> DEFINE v == SubSeq(s, o + 1, o + n)
  <1>1. v \in Seq(S) /\ Len(v) = n /\ \A i \in 1 .. n : v[i] = s[o + i]
    <2>1. o + n <= Len(s)
      BY <1>0
    <2>2. QED
      BY <2>1
  <1> HIDE DEF v
  <1>2. v = x
    <2>1. Len(v) = Len(x) /\ \A i \in 1 .. Len(v) : v[i] = x[i]
      BY <1>0, <1>1
    <2>2. QED
      BY <1>1, <2>1, SameSeq
  <1>3. QED
    BY <1>0, <1>2 DEF v

\* Where the characters of two and of four parts stand.
LEMMA TwoParts ==
    ASSUME NEW S, NEW a \in Seq(S), NEW b \in Seq(S)
    PROVE  /\ a \o b \in Seq(S) /\ Len(a \o b) = Len(a) + Len(b)
           /\ \A i \in 1 .. Len(a) : (a \o b)[i] = a[i]
           /\ \A i \in 1 .. Len(b) : (a \o b)[Len(a) + i] = b[i]
           /\ Len(a) \in Nat /\ Len(b) \in Nat
  OBVIOUS

\* A text and its parts: p, h, t and m characters of a, b, c and d.
Parts(s, p, h, t, m, a, b, c, d) ==
    /\ Len(a) = p /\ Len(b) = h /\ Len(c) = t /\ Len(d) = m /\ Len(s) = p + h + t + m
    /\ \A i \in 1 .. p : s[i] = a[i]
    /\ \A i \in 1 .. h : s[p + i] = b[i]
    /\ \A i \in 1 .. t : s[p + h + i] = c[i]
    /\ \A i \in 1 .. m : s[p + h + t + i] = d[i]

LEMMA FourParts ==
    ASSUME NEW S, NEW a \in Seq(S), NEW b \in Seq(S), NEW c \in Seq(S), NEW d \in Seq(S)
    PROVE  /\ a \o b \o c \o d \in Seq(S)
           /\ \E p, h, t, m \in Nat : Parts(a \o b \o c \o d, p, h, t, m, a, b, c, d)
  <1>0. PICK p, h, t, m \in Nat : p = Len(a) /\ h = Len(b) /\ t = Len(c) /\ m = Len(d)
    OBVIOUS
  <1> DEFINE x == a \o b
             y == x \o c
             z == y \o d
  <1>1. /\ x \in Seq(S) /\ Len(x) = p + h
        /\ \A i \in 1 .. p : x[i] = a[i]
        /\ \A i \in 1 .. h : x[p + i] = b[i]
    BY <1>0, TwoParts
  <1> HIDE DEF x
  <1>2. /\ y \in Seq(S) /\ Len(y) = p + h + t
        /\ \A i \in 1 .. (p + h) : y[i] = x[i]
        /\ \A i \in 1 .. t : y[p + h + i] = c[i]
    <2>0. x \in Seq(S)
      BY <1>1
    <2>1. /\ y \in Seq(S) /\ Len(y) = Len(x) + Len(c)
          /\ \A i \in 1 .. Len(x) : y[i] = x[i]
          /\ \A i \in 1 .. Len(c) : y[Len(x) + i] = c[i]
      BY <2>0
    <2>2. QED
      BY <1>0, <1>1, <2>1
  <1> HIDE DEF y
  <1>3. /\ z \in Seq(S) /\ Len(z) = p + h + t + m
        /\ \A i \in 1 .. (p + h + t) : z[i] = y[i]
        /\ \A i \in 1 .. m : z[p + h + t + i] = d[i]
    <2>0. y \in Seq(S)
      BY <1>2
    <2>1. /\ z \in Seq(S) /\ Len(z) = Len(y) + Len(d)
          /\ \A i \in 1 .. Len(y) : z[i] = y[i]
          /\ \A i \in 1 .. Len(d) : z[Len(y) + i] = d[i]
      BY <2>0
    <2>2. QED
      BY <1>0, <1>2, <2>1
  <1> HIDE DEF z
  <1>4. Parts(z, p, h, t, m, a, b, c, d)
    <2>1. \A i \in 1 .. p : i \in 1 .. (p + h) /\ i \in 1 .. (p + h + t)
      BY <1>0
    <2>2. \A i \in 1 .. h : p + i \in 1 .. (p + h) /\ p + i \in 1 .. (p + h + t)
      BY <1>0
    <2>3. \A i \in 1 .. t : p + h + i \in 1 .. (p + h + t)
      BY <1>0
    <2>4. \A i \in 1 .. p : z[i] = a[i]
      BY <1>1, <1>2, <1>3, <2>1
    <2>5. \A i \in 1 .. h : z[p + i] = b[i]
      BY <1>1, <1>2, <1>3, <2>2
    <2>6. \A i \in 1 .. t : z[p + h + i] = c[i]
      BY <1>2, <1>3, <2>3
    <2>7. QED
      BY <1>0, <1>3, <2>4, <2>5, <2>6 DEF Parts
  <1>5. QED
    BY <1>3, <1>4 DEF x, y, z


\* The parts of a URL without parameters.
LEMMA UrlParts ==
    ASSUME NEW u \in Urls, u.post = <<>>
    PROVE  /\ Text(u) \in Seq(STRING) /\ Name(u) \in Seq(STRING)
           /\ \E p, h, t, m \in Nat :
                Parts(Text(u), p, h, t, m, u.pre, u.host, u.path, Name(u))
  <1>1. /\ u.pre \in Seq(STRING) /\ u.host \in Seq(STRING) /\ u.path \in Seq(STRING)
        /\ u.base \in Seq(STRING) /\ u.dot \in Seq(STRING) /\ u.type \in Seq(STRING)
    BY UrlAssumption
  <1>2. Name(u) \in Seq(STRING)
    BY <1>1 DEF Name
  <1> DEFINE s == u.pre \o u.host \o u.path \o Name(u)
  <1>3. /\ s \in Seq(STRING)
        /\ \E p, h, t, m \in Nat : Parts(s, p, h, t, m, u.pre, u.host, u.path, Name(u))
    BY <1>1, <1>2, FourParts
  <1>4. Text(u) = s \o <<>>
    BY DEF Text
  <1> HIDE DEF s
  <1>5. \A x \in Seq(STRING) : x \o <<>> = x
    <2> SUFFICES ASSUME NEW x \in Seq(STRING) PROVE x \o <<>> = x
      OBVIOUS
    <2>1. /\ x \o <<>> \in Seq(STRING) /\ Len(x \o <<>>) = Len(x)
          /\ \A i \in 1 .. Len(x \o <<>>) : (x \o <<>>)[i] = x[i]
      OBVIOUS
    <2>2. QED
      BY <2>1, SameSeq
  <1>6. QED
    BY <1>2, <1>3, <1>4, <1>5

\* The type is what follows the first dot of the name; without a dot it stays.
LEMMA TypeFound ==
    ASSUME NEW u \in Urls, NEW old
    PROVE  /\ TypeOf(Name(u), old) = (IF u.dot = <<>> THEN old ELSE u.type)
           /\ Name(u) = <<>> => u.dot = <<>>
  <1>1. /\ u.base \in Seq(STRING) /\ u.dot \in Seq(STRING) /\ u.type \in Seq(STRING)
    BY UrlAssumption
  <1>2. /\ u.dot \in {<<>>, <<".">>} /\ (u.dot = <<>> => u.type = <<>>)
        /\ \A n \in DOMAIN u.base : u.base[n] # "."
    BY UrlAssumption DEF IsUrl, Without
  <1>3. PICK k, d, t \in Nat : k = Len(u.base) /\ d = Len(u.dot) /\ t = Len(u.type)
    BY <1>1
  <1> DEFINE x == u.base \o u.dot
             y == x \o u.type
             dots == {n \in DOMAIN y : y[n] = "."}
  <1>4. /\ x \in Seq(STRING) /\ Len(x) = k + d
        /\ \A i \in 1 .. k : x[i] = u.base[i]
        /\ \A i \in 1 .. d : x[k + i] = u.dot[i]
    <2>0. \A a, b \in Seq(STRING) :
            /\ a \o b \in Seq(STRING) /\ Len(a \o b) = Len(a) + Len(b)
            /\ \A i \in 1 .. Len(a) : (a \o b)[i] = a[i]
            /\ \A i \in 1 .. Len(b) : (a \o b)[Len(a) + i] = b[i]
      BY TwoParts
    <2>1. /\ x \in Seq(STRING) /\ Len(x) = Len(u.base) + Len(u.dot)
          /\ \A i \in 1 .. Len(u.base) : x[i] = u.base[i]
          /\ \A i \in 1 .. Len(u.dot) : x[Len(u.base) + i] = u.dot[i]
      BY <1>1, <2>0, Zenon
    <2>2. QED
      BY <1>3, <2>1
  <1> HIDE DEF x
  <1>5. /\ y \in Seq(STRING) /\ Len(y) = k + d + t
        /\ \A i \in 1 .. (k + d) : y[i] = x[i]
        /\ \A i \in 1 .. t : y[k + d + i] = u.type[i]
    <2>0. x \in Seq(STRING)
      BY <1>4
    <2>1. /\ y \in Seq(STRING) /\ Len(y) = Len(x) + Len(u.type)
          /\ \A i \in 1 .. Len(x) : y[i] = x[i]
          /\ \A i \in 1 .. Len(u.type) : y[Len(x) + i] = u.type[i]
      BY <1>1, <2>0
    <2>2. QED
      BY <1>3, <1>4, <2>1
  <1>6. Name(u) = y
    BY DEF Name, x
  <1> HIDE DEF y
  <1>7. DOMAIN y = 1 .. (k + d + t) /\ DOMAIN u.base = 1 .. k
    BY <1>1, <1>3, <1>5
  <1>8. \A i \in 1 .. k : y[i] # "."
    <2>1. \A i \in 1 .. k : i \in 1 .. (k + d) /\ i \in DOMAIN u.base
      BY <1>7
    <2>2. QED
      BY <1>2, <1>4, <1>5, <2>1
  <1>9. CASE u.dot = <<>>
    <2>1. d = 0 /\ t = 0 /\ u.type = <<>>
      BY <1>2, <1>3, <1>9
    <2>2. dots = {}
      BY <1>7, <1>8, <2>1
    <2>3. QED
      BY <1>6, <1>9, <2>2 DEF TypeOf
  <1>10. CASE u.dot = <<".">>
    <2>1. d = 1 /\ u.dot[1] = "."
      BY <1>3, <1>10
    <2>2. k + 1 \in 1 .. (k + d) /\ 1 \in 1 .. d /\ k + 1 \in 1 .. (k + d + t)
      BY <2>1
    <2>3. y[k + 1] = "."
      BY <1>4, <1>5, <2>1, <2>2
    <2>4. k + 1 \in dots /\ dots \in SUBSET Int /\ \A i \in dots : k + 1 <= i
      BY <1>7, <1>8, <2>2, <2>3
    <2>5. Min(dots) = k + 1
      BY <2>4, LeastIsMin
    <2>6. SubSeq(y, k + d + 1, k + d + t) = u.type
      <3>1. k + d \in Nat /\ (k + d) + Len(u.type) <= Len(y)
        <4>1. t = Len(u.type) /\ Len(y) = k + d + t
          BY <1>3, <1>5
        <4>2. QED
          BY <4>1
      <3>2. \A i \in 1 .. Len(u.type) : y[(k + d) + i] = u.type[i]
        BY <1>3, <1>5
      <3>3. SubSeq(y, (k + d) + 1, (k + d) + Len(u.type)) = u.type
        BY <1>1, <1>5, <3>1, <3>2, CutPart
      <3>4. QED
        BY <1>3, <3>3
    <2>7. SubSeq(y, Min(dots) + 1, Len(y)) = u.type
      BY <1>5, <2>1, <2>5, <2>6
    <2>8. y # <<>>
      BY <1>5, <2>1
    <2>9. QED
      <3>1. u.dot # <<>>
        BY <1>10
      <3>2. QED
        BY <1>6, <2>4, <2>7, <2>8, <3>1 DEF TypeOf
  <1>11. QED
    BY <1>2, <1>9, <1>10


\* The characters of a URL's name.
LEMMA NameChars ==
    ASSUME NEW u \in Urls
    PROVE  \A i \in 1 .. Len(Name(u)) :
              Name(u)[i] # "http://" /\ Name(u)[i] # "/" /\ Name(u)[i] # "?"
  <1>0. PICK a, b, c \in Seq(STRING) : a = u.base /\ b = u.dot /\ c = u.type
    BY UrlAssumption
  <1>1. /\ b \in {<<>>, <<".">>}
        /\ \A n \in DOMAIN a : a[n] # "http://" /\ a[n] # "/" /\ a[n] # "?"
        /\ \A n \in DOMAIN c : c[n] # "http://" /\ c[n] # "/" /\ c[n] # "?"
    BY <1>0, UrlAssumption DEF IsUrl, Without
  <1>2. \A n \in DOMAIN b : b[n] # "http://" /\ b[n] # "/" /\ b[n] # "?"
    BY <1>1
  <1> DEFINE Clean(x) == \A n \in DOMAIN x : x[n] # "http://" /\ x[n] # "/" /\ x[n] # "?"
  <1>3. ASSUME NEW x \in Seq(STRING), NEW y \in Seq(STRING), Clean(x), Clean(y)
        PROVE  Clean(x \o y) /\ x \o y \in Seq(STRING)
    <2>1. /\ x \o y \in Seq(STRING) /\ DOMAIN (x \o y) = 1 .. (Len(x) + Len(y))
          /\ DOMAIN x = 1 .. Len(x) /\ DOMAIN y = 1 .. Len(y)
          /\ Len(x) \in Nat /\ Len(y) \in Nat
          /\ \A i \in 1 .. Len(x) : (x \o y)[i] = x[i]
          /\ \A i \in 1 .. Len(y) : (x \o y)[Len(x) + i] = y[i]
      OBVIOUS
    <2>2. ASSUME NEW i \in 1 .. (Len(x) + Len(y))
          PROVE  (\E j \in DOMAIN x : (x \o y)[i] = x[j]) \/ (\E j \in DOMAIN y : (x \o y)[i] = y[j])
      <3>1. CASE i <= Len(x)
        <4>1. i \in DOMAIN x /\ (x \o y)[i] = x[i]
          BY <2>1, <3>1
        <4>2. QED
          BY <4>1
      <3>2. CASE ~(i <= Len(x))
        <4>1. i - Len(x) \in 1 .. Len(y) /\ Len(x) + (i - Len(x)) = i
          BY <2>1, <3>2
        <4>2. i - Len(x) \in DOMAIN y /\ (x \o y)[i] = y[i - Len(x)]
          BY <2>1, <4>1
        <4>3. QED
          BY <4>2
      <3>3. QED
        BY <3>1, <3>2
    <2>3. QED
      BY <1>3, <2>1, <2>2
  <1>4. Clean(a \o b) /\ a \o b \in Seq(STRING)
    BY <1>1, <1>2, <1>3
  <1>5. Clean((a \o b) \o c) /\ (a \o b) \o c \in Seq(STRING)
    BY <1>1, <1>3, <1>4
  <1>6. Name(u) = (a \o b) \o c
    BY <1>0 DEF Name
  <1>7. DOMAIN Name(u) = 1 .. Len(Name(u))
    BY <1>5, <1>6
  <1>8. QED
    BY <1>5, <1>6, <1>7


Fields == {"host", "uri_path", "res_name", "res_type", "ret", "param"}

\* Whatever is loaded, the parser has the same fields.
LEMMA LoadKeepsFields ==
    ASSUME NEW up, NEW s, DOMAIN up = Fields
    PROVE  DOMAIN url_parser_load(up, s) = Fields
  <1> DEFINE end == Len(s) + 1
             scheme == find_str(s, 1, end, HTTP_STR)
             b == IF scheme = NULL THEN 1 ELSE scheme + 1
             slash == find_str(s, b, end, <<"/">>)
             last == LastSlash(s, slash)
             query == find_str(s, last + 1, end, <<"?">>)
             name == SubSeq(s, last + 1, (IF query = NULL THEN end ELSE query) - 1)
             param == query # NULL /\ find_str(s, query + 1, end, <<"=">>) # NULL
             host == SubSeq(s, b, slash - 1)
             path == SubSeq(s, slash, last)
             hosted == IF slash = b THEN up ELSE [up EXCEPT !.host = host]
             pathed == [hosted EXCEPT !.uri_path = path, !.ret = TRUE]
             r == IF slash = NULL THEN [up EXCEPT !.ret = FALSE]
                  ELSE IF name = <<>> THEN pathed
                  ELSE [pathed EXCEPT !.res_name = name,
                                      !.res_type = TypeOf(name, @),
                                      !.param = param]
  <1>1. url_parser_load(up, s) = r
    BY DEF url_parser_load
  <1> HIDE DEF param, path, host, name, slash, b
  <1>2. DOMAIN hosted = Fields
    OBVIOUS
  <1> HIDE DEF hosted
  <1>3. DOMAIN pathed = Fields
    BY <1>2
  <1> HIDE DEF pathed
  <1>4. DOMAIN r = Fields
    BY <1>3
  <1>5. QED
    BY <1>1, <1>4

\* A URL without parameters is taken apart; what it does not have stays as it
\* was.
LEMMA LoadedApart ==
    ASSUME NEW u \in Urls, u.post = <<>>, NEW up, DOMAIN up = Fields
    PROVE  LET r == url_parser_load(up, Text(u))
           IN  /\ r.ret = (u.path # <<>>)
               /\ u.path # <<>> =>
                    /\ r.uri_path = u.path
                    /\ r.host = (IF u.host = <<>> THEN up.host ELSE u.host)
                    /\ r.res_name = (IF Name(u) = <<>> THEN up.res_name ELSE Name(u))
                    /\ r.res_type = (IF u.dot = <<>> THEN up.res_type ELSE u.type)
  <1>0. /\ Text(u) \in Seq(STRING) /\ Name(u) \in Seq(STRING)
        /\ u.pre \in Seq(STRING) /\ u.host \in Seq(STRING) /\ u.path \in Seq(STRING)
    BY UrlParts, UrlAssumption
  <1>1. PICK p, h, t, m \in Nat : Parts(Text(u), p, h, t, m, u.pre, u.host, u.path, Name(u))
    BY UrlParts
  <1>2. PICK s \in Seq(STRING) : s = Text(u)
    BY <1>0
  <1>3. /\ Len(u.pre) = p /\ Len(u.host) = h /\ Len(u.path) = t /\ Len(Name(u)) = m
        /\ Len(s) = p + h + t + m
        /\ \A i \in 1 .. p : s[i] = u.pre[i]
        /\ \A i \in 1 .. h : s[p + i] = u.host[i]
        /\ \A i \in 1 .. t : s[p + h + i] = u.path[i]
        /\ \A i \in 1 .. m : s[p + h + t + i] = Name(u)[i]
    BY <1>1, <1>2 DEF Parts
  <1>4. /\ u.pre \in {<<>>, <<"http://">>}
        /\ \A i \in 1 .. h : u.host[i] # "http://" /\ u.host[i] # "/"
        /\ \A i \in 1 .. t : u.path[i] # "http://"
        /\ IF u.path = <<>> THEN Name(u) = <<>> ELSE u.path[1] = "/" /\ u.path[t] = "/"
    <2>1. IsUrl(u) /\ DOMAIN u.host = 1 .. h /\ DOMAIN u.path = 1 .. t
      BY <1>0, <1>3, UrlAssumption
    <2>2. QED
      BY <1>3, <2>1 DEF IsUrl, Without, HTTP_STR
  <1>5. \A i \in 1 .. m : Name(u)[i] # "http://" /\ Name(u)[i] # "/" /\ Name(u)[i] # "?"
    BY <1>3, NameChars
  <1>6. \A i \in (p + 1) .. (p + h) : s[i] # "http://" /\ s[i] # "/"
    <2>1. \A i \in (p + 1) .. (p + h) : i - p \in 1 .. h /\ p + (i - p) = i
      OBVIOUS
    <2>2. ASSUME NEW i \in 1 .. h PROVE s[p + i] # "http://" /\ s[p + i] # "/"
      <3>1. s[p + i] = u.host[i]
        BY <1>3
      <3>2. u.host[i] # "http://" /\ u.host[i] # "/"
        BY <1>4
      <3>3. QED
        BY <3>1, <3>2, Zenon
    <2>3. QED
      BY <2>1, <2>2
  <1>7. \A i \in (p + h + 1) .. (p + h + t) : s[i] # "http://"
    <2>1. \A i \in (p + h + 1) .. (p + h + t) : i - (p + h) \in 1 .. t /\ p + h + (i - (p + h)) = i
      OBVIOUS
    <2>2. ASSUME NEW i \in 1 .. t PROVE s[p + h + i] # "http://"
      <3>1. s[p + h + i] = u.path[i]
        BY <1>3
      <3>2. u.path[i] # "http://"
        BY <1>4
      <3>3. QED
        BY <3>1, <3>2, Zenon
    <2>3. QED
      BY <2>1, <2>2
  <1>8. \A i \in (p + h + t + 1) .. Len(s) : s[i] # "http://" /\ s[i] # "/" /\ s[i] # "?"
    <2>1. \A i \in (p + h + t + 1) .. Len(s) :
            i - (p + h + t) \in 1 .. m /\ p + h + t + (i - (p + h + t)) = i
      BY <1>3
    <2>2. ASSUME NEW i \in 1 .. m
          PROVE  /\ s[p + h + t + i] # "http://" /\ s[p + h + t + i] # "/"
                 /\ s[p + h + t + i] # "?"
      <3>1. s[p + h + t + i] = Name(u)[i]
        BY <1>3
      <3>2. Name(u)[i] # "http://" /\ Name(u)[i] # "/" /\ Name(u)[i] # "?"
        BY <1>5
      <3>3. QED
        BY <3>1, <3>2, Zenon
    <2>3. QED
      BY <2>1, <2>2
  <1>9. \A i \in (p + 1) .. Len(s) : s[i] # "http://"
    <2>1. \A i \in (p + 1) .. Len(s) : \/ i \in (p + 1) .. (p + h)
                                       \/ i \in (p + h + 1) .. (p + h + t)
                                       \/ i \in (p + h + t + 1) .. Len(s)
      BY <1>3
    <2>2. QED
      BY <1>6, <1>7, <1>8, <2>1
  <1> DEFINE end == Len(s) + 1
             scheme == find_str(s, 1, end, <<"http://">>)
             b == IF scheme = NULL THEN 1 ELSE scheme + 1
             slash == find_str(s, b, end, <<"/">>)
  <1>10. b = p + 1
    <2>1. CASE u.pre = <<>>
      <3>1. p = 0
        BY <1>3, <2>1
      <3>2. 1 \in Nat \ {0} /\ \A i \in 1 .. Len(s) : s[i] # "http://"
        BY <1>9, <3>1
      <3>3. scheme = NULL
        BY <3>2, FindChar
      <3>4. QED
        BY <3>1, <3>3
    <2>2. CASE u.pre = <<"http://">>
      <3>1. p = 1 /\ u.pre[1] = "http://"
        BY <1>3, <2>2
      <3>2. /\ 1 \in Nat \ {0} /\ 1 \in 1 .. Len(s) /\ s[1] = "http://"
            /\ \A i \in 1 .. (1 - 1) : s[i] # "http://"
        BY <1>3, <3>1
      <3>3. scheme = 1
        BY <3>2, FindChar
      <3>4. QED
        BY <3>1, <3>3 DEF NULL
    <2>3. QED
      BY <1>4, <2>1, <2>2
  <1>11. p + 1 \in Nat \ {0}
    OBVIOUS
  <1> DEFINE last == LastSlash(s, slash)
             query == find_str(s, last + 1, end, <<"?">>)
             name == SubSeq(s, last + 1, (IF query = NULL THEN end ELSE query) - 1)
             hosted == IF slash = b THEN up ELSE [up EXCEPT !.host = SubSeq(s, b, slash - 1)]
             pathed == [hosted EXCEPT !.uri_path = SubSeq(s, slash, last), !.ret = TRUE]
             r == IF slash = NULL THEN [up EXCEPT !.ret = FALSE]
                  ELSE IF name = <<>> THEN pathed
                  ELSE [pathed EXCEPT
                         !.res_name = name,
                         !.res_type = TypeOf(name, @),
                         !.param = query # NULL /\ find_str(s, query + 1, end, <<"=">>) # NULL]
  <1>12. url_parser_load(up, Text(u)) = r
    BY <1>2 DEF url_parser_load, HTTP_STR
  <1> HIDE DEF b
  <1>13. CASE u.path = <<>>
    <2>1. t = 0 /\ m = 0
      <3>1. Name(u) = <<>> /\ Len(<<>>) = 0
        BY <1>4, <1>13
      <3>2. QED
        BY <1>3, <1>13, <3>1, Zenon
    <2>2. \A i \in (p + 1) .. Len(s) : s[i] # "/"
      BY <1>3, <1>6, <2>1
    <2>3. slash = NULL
      BY <1>10, <1>11, <2>2, FindChar
    <2> HIDE DEF slash
    <2>4. r.ret = FALSE
      BY <2>3 DEF Fields
    <2>5. QED
      BY <1>12, <1>13, <2>4
  <1>14. CASE u.path # <<>>
    <2>1. t > 0 /\ u.path[1] = "/" /\ u.path[t] = "/"
      BY <1>0, <1>3, <1>4, <1>14
    <2>2. /\ p + h + 1 \in (p + 1) .. Len(s) /\ p + h + t \in (p + h + 1) .. Len(s)
          /\ s[p + h + 1] = "/" /\ s[p + h + t] = "/"
      <3>1. 1 \in 1 .. t /\ t \in 1 .. t
        BY <2>1
      <3>2. s[p + h + 1] = "/" /\ s[p + h + t] = "/"
        BY <1>3, <2>1, <3>1
      <3>3. QED
        BY <1>3, <2>1, <3>2
    <2>3. slash = p + h + 1
      <3>1. \A i \in (p + 1) .. ((p + h + 1) - 1) : s[i] # "/"
        BY <1>6
      <3>2. QED
        BY <1>10, <1>11, <2>2, <3>1, FindChar
    <2> HIDE DEF slash
    <2>4. last = p + h + t
      <3> DEFINE T == {n \in slash .. Len(s) : n = slash \/ s[n] = "/"}
      <3>1. p + h + t \in T /\ T \in SUBSET Int /\ \A i \in T : i <= p + h + t
        BY <1>3, <1>8, <2>1, <2>2, <2>3
      <3>2. Max(T) = p + h + t
        <4> HIDE DEF T
        <4>1. QED
          BY <3>1, GreatestIsMax
      <3>3. QED
        BY <3>2 DEF LastSlash
    <2> HIDE DEF last
    <2>5. query = NULL
      <3>1. p + h + t + 1 \in Nat \ {0} /\ \A i \in (p + h + t + 1) .. Len(s) : s[i] # "?"
        BY <1>8
      <3>2. QED
        BY <2>4, <3>1, FindChar
    <2> HIDE DEF query
    <2>6. name = Name(u)
      <3>1. p + h + t \in Nat /\ (p + h + t) + Len(Name(u)) <= Len(s)
            /\ \A i \in 1 .. Len(Name(u)) : s[(p + h + t) + i] = Name(u)[i]
        BY <1>3
      <3>2. SubSeq(s, (p + h + t) + 1, (p + h + t) + Len(Name(u))) = Name(u)
        BY <1>0, <3>1, CutPart
      <3>3. (p + h + t) + Len(Name(u)) = end - 1
        BY <1>3
      <3>4. QED
        BY <2>4, <2>5, <3>2, <3>3
    <2>7. SubSeq(s, slash, last) = u.path
      <3>1. p + h \in Nat /\ (p + h) + Len(u.path) <= Len(s)
            /\ \A i \in 1 .. Len(u.path) : s[(p + h) + i] = u.path[i]
        BY <1>3
      <3>2. SubSeq(s, (p + h) + 1, (p + h) + Len(u.path)) = u.path
        BY <1>0, <3>1, CutPart
      <3>3. QED
        BY <1>3, <2>3, <2>4, <3>2
    <2>8. SubSeq(s, b, slash - 1) = u.host
      <3>1. p + Len(u.host) <= Len(s) /\ \A i \in 1 .. Len(u.host) : s[p + i] = u.host[i]
        BY <1>3
      <3>2. SubSeq(s, p + 1, p + Len(u.host)) = u.host
        BY <1>0, <3>1, CutPart
      <3>3. slash - 1 = p + Len(u.host)
        BY <1>3, <2>3
      <3>4. QED
        BY <1>10, <3>2, <3>3
    <2>9. slash = b <=> u.host = <<>>
      <3>1. slash = b <=> h = 0
        BY <1>10, <2>3
      <3>2. QED
        BY <1>0, <1>3, <3>1
    <2>10. slash # NULL
      BY <2>3 DEF NULL
    <2> HIDE DEF name
    <2>11. /\ TypeOf(Name(u), up.res_type) = (IF u.dot = <<>> THEN up.res_type ELSE u.type)
           /\ Name(u) = <<>> => u.dot = <<>>
      BY TypeFound
    <2>12. /\ hosted.host = (IF u.host = <<>> THEN up.host ELSE u.host)
           /\ hosted.res_name = up.res_name /\ hosted.res_type = up.res_type
           /\ DOMAIN hosted = Fields
      BY <2>8, <2>9 DEF Fields
    <2> HIDE DEF hosted
    <2>13. /\ pathed.host = hosted.host
           /\ pathed.res_name = up.res_name /\ pathed.res_type = up.res_type
           /\ pathed.uri_path = u.path /\ pathed.ret = TRUE
           /\ DOMAIN pathed = Fields
      BY <2>7, <2>12 DEF Fields
    <2> HIDE DEF pathed
    <2>14. /\ r.host = hosted.host /\ r.uri_path = u.path /\ r.ret = TRUE
           /\ r.res_name = (IF Name(u) = <<>> THEN up.res_name ELSE Name(u))
           /\ r.res_type = (IF u.dot = <<>> THEN up.res_type ELSE u.type)
      <3>1. CASE Name(u) = <<>>
        BY <2>6, <2>10, <2>11, <2>13, <3>1
      <3>2. CASE Name(u) # <<>>
        BY <2>6, <2>10, <2>11, <2>13, <3>2 DEF Fields
      <3>3. QED
        BY <3>1, <3>2
    <2>15. QED
      BY <1>12, <1>14, <2>12, <2>14
  <1>15. QED
    BY <1>13, <1>14

\* The inductive invariant: a parser into which nothing was loaded is empty.
UrlInv ==
    /\ DOMAIN purl = Fields
    /\ loaded = <<>> => purl = url_parser_init
    /\ UrlTakenApart

\* Every URL of the shape IsUrl without parameters is taken apart into its own
\* path, and into its own host, resource and type where it has them or the
\* parser was new or cleared, whatever was loaded before (f1g_url_parser.c,
\* url_parser_load, url_parser_clear).
THEOREM UrlsTakenApart == UrlSpec => []UrlTakenApart
  <1>0. DOMAIN url_parser_init = Fields
    BY DEF url_parser_init, Fields
  <1>1. UrlIdle => UrlInv
    BY <1>0 DEF UrlIdle, UrlInv, UrlTakenApart
  <1>2. ASSUME UrlInv, [UrlNext]_uvars PROVE UrlInv'
    <2>1. CASE UrlClear
      BY <1>0, <2>1 DEF UrlClear, url_parser_clear, UrlInv, UrlTakenApart
    <2>2. ASSUME NEW u \in Urls, UrlLoad(u) PROVE UrlInv'
      <3>1. /\ loaded' = <<u>> /\ loaded' # <<>> /\ DOMAIN loaded' = {1} /\ loaded'[1] = u
            /\ purl' = url_parser_load(purl, Text(u)) /\ DOMAIN purl' = Fields
            /\ (ust' = "ok" => purl = url_parser_init)
        BY <1>2, <2>2, LoadKeepsFields DEF UrlLoad, UrlInv
      <3>2. ASSUME u.post = <<>>, u.path # <<>>
            PROVE  /\ purl'.uri_path = u.path
                   /\ u.host # <<>> \/ ust' = "ok" => purl'.host = u.host
                   /\ Name(u) # <<>> \/ ust' = "ok" => purl'.res_name = Name(u)
                   /\ u.dot # <<>> \/ ust' = "ok" => purl'.res_type = u.type
        <4>1. /\ purl'.uri_path = u.path
              /\ purl'.host = (IF u.host = <<>> THEN purl.host ELSE u.host)
              /\ purl'.res_name = (IF Name(u) = <<>> THEN purl.res_name ELSE Name(u))
              /\ purl'.res_type = (IF u.dot = <<>> THEN purl.res_type ELSE u.type)
          BY <1>2, <3>1, <3>2, LoadedApart DEF UrlInv
        <4>2. ust' = "ok" =>
                purl.host = <<>> /\ purl.res_name = <<>> /\ purl.res_type = <<>>
          BY <3>1 DEF url_parser_init
        <4>3. u.dot = <<>> => u.type = <<>>
          BY UrlAssumption DEF IsUrl
        <4>4. QED
          BY <4>1, <4>2, <4>3
      <3>3. u.post = <<>> => purl'.ret = (u.path # <<>>)
        BY <1>2, <3>1, LoadedApart DEF UrlInv
      <3>4. UrlTakenApart'
        BY <3>1, <3>2, <3>3 DEF UrlTakenApart
      <3>5. QED
        BY <3>1, <3>4 DEF UrlInv
    <2>3. CASE UNCHANGED uvars
      BY <1>2, <2>3 DEF uvars, UrlInv, UrlTakenApart
    <2>4. QED
      BY <1>2, <2>1, <2>2, <2>3 DEF UrlNext
  <1>3. UrlInv => UrlTakenApart
    BY DEF UrlInv
  <1>4. QED
    BY <1>1, <1>2, <1>3, PTL DEF UrlSpec

-----------------------------------------------------------------------------
(* BiTree.                                                                 *)

Path == Seq(Turns)

\* What paths and their beginnings are.
LEMMA CutPath ==
    ASSUME NEW r \in Path, NEW n \in 0 .. Len(r)
    PROVE  /\ SubSeq(r, 1, n) \in Path /\ Len(SubSeq(r, 1, n)) = n
           /\ \A i \in 1 .. n : SubSeq(r, 1, n)[i] = r[i]
           /\ Len(r) \in Nat
  <1>1. r \in Seq(Turns)
    BY DEF Path
  <1>2. QED
    BY <1>1 DEF Path

LEMMA SamePath ==
    ASSUME NEW q \in Path, NEW r \in Path, Len(q) = Len(r), \A i \in 1 .. Len(q) : q[i] = r[i]
    PROVE  q = r
  <1>1. q \in Seq(Turns) /\ r \in Seq(Turns)
    BY DEF Path
  <1>2. QED
    BY <1>1, SameSeq

LEMMA PrefixCut ==
    ASSUME NEW q \in Path, NEW r \in Path, IsPrefix(q, r)
    PROVE  /\ Len(q) \in 0 .. Len(r) /\ SubSeq(r, 1, Len(q)) = q
           /\ \A i \in 1 .. Len(q) : r[i] = q[i]
  <1>1. Len(q) \in Nat /\ Len(r) \in Nat
    BY DEF Path
  <1>2. Len(q) <= Len(r) /\ SubSeq(q, 1, Len(q)) = SubSeq(r, 1, Len(q))
    BY DEF IsPrefix
  <1>3. Len(q) \in 0 .. Len(r) /\ Len(q) \in 0 .. Len(q)
    BY <1>1, <1>2
  <1>4. /\ SubSeq(q, 1, Len(q)) \in Path /\ Len(SubSeq(q, 1, Len(q))) = Len(q)
        /\ \A i \in 1 .. Len(q) : SubSeq(q, 1, Len(q))[i] = q[i]
    BY <1>3, CutPath
  <1>5. SubSeq(q, 1, Len(q)) = q
    BY <1>4, SamePath
  <1>6. \A i \in 1 .. Len(q) : SubSeq(r, 1, Len(q))[i] = r[i]
    BY <1>3, CutPath
  <1>7. QED
    BY <1>2, <1>3, <1>5, <1>6

LEMMA CutPrefix ==
    ASSUME NEW q \in Path, NEW r \in Path, Len(q) <= Len(r), \A i \in 1 .. Len(q) : q[i] = r[i]
    PROVE  IsPrefix(q, r)
  <1>1. Len(q) \in Nat /\ Len(r) \in Nat
    BY DEF Path
  <1>2. Len(q) \in 0 .. Len(r) /\ Len(q) \in 0 .. Len(q)
    BY <1>1
  <1> DEFINE a == SubSeq(q, 1, Len(q))
             b == SubSeq(r, 1, Len(q))
  <1>3. a \in Path /\ Len(a) = Len(q) /\ \A i \in 1 .. Len(q) : a[i] = q[i]
    BY <1>2, CutPath
  <1>4. b \in Path /\ Len(b) = Len(q) /\ \A i \in 1 .. Len(q) : b[i] = r[i]
    BY <1>2, CutPath
  <1> HIDE DEF a, b
  <1>5. a = b
    BY <1>3, <1>4, SamePath
  <1>6. QED
    BY <1>5 DEF IsPrefix, a, b

LEMMA StrictShorter ==
    ASSUME NEW q \in Path, NEW r \in Path, IsStrictPrefix(q, r)
    PROVE  Len(q) < Len(r) /\ Len(q) \in Nat /\ Len(r) \in Nat
  <1>1. Len(q) \in Nat /\ Len(r) \in Nat
    BY DEF Path
  <1>2. Len(q) <= Len(r) /\ q # r /\ \A i \in 1 .. Len(q) : r[i] = q[i]
    BY PrefixCut, <1>1 DEF IsStrictPrefix
  <1>3. Len(q) # Len(r)
    BY <1>2, SamePath
  <1>4. QED
    BY <1>1, <1>2, <1>3

\* One turn more.
LEMMA LongerPath ==
    ASSUME NEW q \in Path, NEW t \in Turns
    PROVE  /\ Append(q, t) \in Path /\ Len(Append(q, t)) = Len(q) + 1
           /\ Append(q, t)[Len(q) + 1] = t /\ \A i \in 1 .. Len(q) : Append(q, t)[i] = q[i]
           /\ Len(q) \in Nat
  BY DEF Path

-----------------------------------------------------------------------------

\* The nodes from q on downwards, and that there is one of each depth.
Below(q) == {r \in DOMAIN tree : IsPrefix(q, r)}
Single(q) == \A r, s \in Below(q) : Len(r) = Len(s) => r = s

TreeTypes ==
    /\ DOMAIN tree \subseteq Path /\ IsFiniteSet(DOMAIN tree)
    /\ \A q \in DOMAIN tree : tree[q] \in [elem : Int, height : Nat]

\* Where a node is, all nodes above it are.
Rooted ==
    /\ <<>> \in DOMAIN tree
    /\ \A q \in DOMAIN tree : \A n \in 0 .. Len(q) : SubSeq(q, 1, n) \in DOMAIN tree

\* A path has at most as many turns as there are other nodes.
Counted ==
    /\ inserted \subseteq Elems
    /\ {tree[q].elem : q \in DOMAIN tree} = inserted
    /\ Cardinality(DOMAIN tree) = Cardinality(inserted)
    /\ \A q \in DOMAIN tree : Len(q) < Cardinality(DOMAIN tree)

Ordered ==
    \A q, r \in DOMAIN tree : IsStrictPrefix(q, r) =>
        IF r[Len(q) + 1] = "left" THEN tree[r].elem < tree[q].elem
                                  ELSE tree[r].elem > tree[q].elem

Heights ==
    \A q \in DOMAIN tree :
        /\ \A r \in Below(q) : Len(r) - Len(q) <= tree[q].height
        /\ Single(q) => tree[q].height = Cardinality(Below(q)) - 1

\* The inductive invariant.
TreeInv == TreeTypes /\ Rooted /\ Counted /\ Ordered /\ Heights

\* A set of numbers that is not empty has a least one.
LEMMA Least ==
    ASSUME NEW T, T \subseteq Nat, T # {}
    PROVE  \E x \in T : \A y \in T : x <= y
  <1> DEFINE R == OpToRel(<, Nat)
  <1>1. IsWellFoundedOn(R, Nat)
    BY NatLessThanWellFounded
  <1>2. \A x, y \in Nat : x < y => <<x, y>> \in R
    BY DEF OpToRel
  <1> HIDE DEF R
  <1>3. PICK x \in T : \A y \in T : ~(<<y, x>> \in R)
    BY <1>1, WFMin
  <1>4. ASSUME NEW y \in T PROVE x <= y
    <2>1. x \in Nat /\ y \in Nat /\ ~(y < x)
      BY <1>2, <1>3
    <2>2. QED
      BY <2>1
  <1>5. QED
    BY <1>4

\* The turns lead to a free place, within the paths that are considered.
Free(p, elem) ==
    /\ p \in Path /\ p \notin DOMAIN tree
    /\ \A n \in 1 .. Len(p) : /\ SubSeq(p, 1, n - 1) \in DOMAIN tree
                              /\ p[n] = Turn(SubSeq(p, 1, n - 1), elem)

LEMMA PlaceFree ==
    ASSUME TreeInv, NEW elem \in Elems, elem \notin inserted
    PROVE  Free(Place(elem), elem)
  <1>0. /\ DOMAIN tree \subseteq Path /\ IsFiniteSet(DOMAIN tree) /\ IsFiniteSet(Elems)
        /\ <<>> \in DOMAIN tree
    BY TreeAssumption DEF TreeInv, TreeTypes, Rooted
  <1> DEFINE D == DOMAIN tree
             N == Cardinality(D)
             FollowsTurns(q) == \A n \in 1 .. Len(q) : q[n] = Turn(SubSeq(q, 1, n - 1), elem)
             C == {q \in D : FollowsTurns(q)}
             T == {N - Len(q) : q \in C}
  <1>1. N \in Nat /\ Cardinality(Elems) \in Nat
    BY <1>0, FS_CardinalityType
  <1>2. \A q \in D : Len(q) \in Nat /\ Len(q) < N
    <2>1. \A q \in D : Len(q) < N
      BY DEF TreeInv, Counted
    <2>2. \A q \in D : Len(q) \in Nat
      BY <1>0 DEF Path
    <2>3. QED
      BY <2>1, <2>2
  <1>3. N < Cardinality(Elems)
    <2>1. inserted \subseteq Elems /\ inserted # Elems /\ N = Cardinality(inserted)
      BY DEF TreeInv, Counted
    <2>2. QED
      BY <1>0, <1>1, <2>1, FS_Subset
  <1>4. <<>> \in C
    BY <1>0
  <1> HIDE DEF N
  <1>5. T \subseteq Nat /\ T # {}
    BY <1>1, <1>2, <1>4
  <1>6. PICK q \in C : \A r \in C : Len(r) <= Len(q)
    <2>1. PICK x \in T : \A y \in T : x <= y
      BY <1>5, Least
    <2>2. PICK q \in C : x = N - Len(q)
      OBVIOUS
    <2>3. ASSUME NEW r \in C PROVE Len(r) <= Len(q)
      <3>1. N - Len(r) \in T
        OBVIOUS
      <3>2. N - Len(q) <= N - Len(r)
        BY <2>1, <2>2, <3>1
      <3>3. QED
        BY <1>1, <1>2, <3>2
    <2>4. QED
      BY <2>3
  <1>7. q \in D /\ q \in Path /\ FollowsTurns(q) /\ Len(q) \in Nat /\ Len(q) + 1 <= Cardinality(Elems)
    BY <1>0, <1>1, <1>2, <1>3
  <1> DEFINE t == Turn(q, elem)
             p == Append(q, t)
  <1>8. t \in Turns
    BY DEF Turn, Turns
  <1> HIDE DEF t, C, T
  <1>9. /\ p \in Path /\ Len(p) = Len(q) + 1
        /\ p[Len(q) + 1] = t /\ \A i \in 1 .. Len(q) : p[i] = q[i]
    BY <1>7, <1>8, LongerPath
  <1> HIDE DEF p
  <1>10. ASSUME NEW n \in 1 .. Len(p)
         PROVE  SubSeq(p, 1, n - 1) \in D /\ p[n] = Turn(SubSeq(p, 1, n - 1), elem)
    <2>1. n - 1 \in 0 .. Len(p) /\ n - 1 \in 0 .. Len(q)
      BY <1>7, <1>9
    <2>2. /\ SubSeq(p, 1, n - 1) \in Path /\ Len(SubSeq(p, 1, n - 1)) = n - 1
          /\ \A i \in 1 .. (n - 1) : SubSeq(p, 1, n - 1)[i] = p[i]
      BY <1>9, <2>1, CutPath
    <2>3. /\ SubSeq(q, 1, n - 1) \in Path /\ Len(SubSeq(q, 1, n - 1)) = n - 1
          /\ \A i \in 1 .. (n - 1) : SubSeq(q, 1, n - 1)[i] = q[i]
      BY <1>7, <2>1, CutPath
    <2>4. \A i \in 1 .. (n - 1) : i \in 1 .. Len(q)
      BY <1>7, <2>1
    <2>5. SubSeq(p, 1, n - 1) = SubSeq(q, 1, n - 1)
      <3>1. \A i \in 1 .. (n - 1) : SubSeq(p, 1, n - 1)[i] = SubSeq(q, 1, n - 1)[i]
        BY <1>9, <2>2, <2>3, <2>4
      <3>2. QED
        BY <2>2, <2>3, <3>1, SamePath
    <2>6. SubSeq(q, 1, n - 1) \in D
      BY <1>7, <2>1 DEF TreeInv, Rooted
    <2>7. CASE n = Len(q) + 1
      <3>1. n - 1 = Len(q)
        BY <1>7, <2>7
      <3>2. SubSeq(q, 1, n - 1) = q
        BY <1>7, <2>3, <3>1, SamePath
      <3>3. QED
        BY <1>9, <2>5, <2>6, <2>7, <3>2 DEF t
    <2>8. CASE n # Len(q) + 1
      <3>1. n \in 1 .. Len(q)
        BY <1>7, <1>9, <2>8
      <3>2. QED
        BY <1>7, <1>9, <2>5, <2>6, <3>1
    <2>9. QED
      BY <2>7, <2>8
  <1>11. p \notin D
    <2>1. SUFFICES ASSUME p \in D PROVE FALSE
      OBVIOUS
    <2>2. p \in C
      BY <1>10, <2>1 DEF C
    <2>3. QED
      BY <1>6, <1>7, <1>9, <2>2
  <1>12. p \in Paths
    <2>1. p \in [1 .. Len(p) -> Turns] /\ Len(p) \in 0 .. Cardinality(Elems)
      BY <1>1, <1>7, <1>9 DEF Path
    <2>2. QED
      BY <2>1 DEF Paths
  <1> DEFINE Good(x) == \A n \in 1 .. Len(x) : LET y == SubSeq(x, 1, n - 1)
                               IN  y \in DOMAIN tree /\ x[n] = Turn(y, elem)
  <1>13. p \in Paths \ DOMAIN tree /\ Good(p)
    BY <1>10, <1>11, <1>12
  <1>14. Place(elem) = CHOOSE x \in Paths \ DOMAIN tree : Good(x)
    BY DEF Place
  <1> HIDE DEF Good
  <1>15. Place(elem) \in Paths \ DOMAIN tree /\ Good(Place(elem))
    BY <1>13, <1>14, Zenon
  <1>16. \A x \in Paths : x \in Path
    <2>1. ASSUME NEW n \in 0 .. Cardinality(Elems), NEW x \in [1 .. n -> Turns] PROVE x \in Path
      BY <1>1 DEF Path
    <2>2. QED
      BY <2>1 DEF Paths
  <1>17. QED
    BY <1>15, <1>16 DEF Free, Good


\* What is known of a free place: it has a turn, its parent is there, and no
\* node is below it.
LEMMA FreePlace ==
    ASSUME TreeInv, NEW elem, NEW p, Free(p, elem)
    PROVE  /\ p \in Path /\ p \notin DOMAIN tree /\ Len(p) \in Nat /\ Len(p) > 0
           /\ Front(p) \in DOMAIN tree /\ Front(p) = SubSeq(p, 1, Len(p) - 1)
           /\ \A q \in DOMAIN tree : ~IsPrefix(p, q)
  <1>1. /\ p \in Path /\ p \notin DOMAIN tree /\ Len(p) \in Nat
    BY DEF Free, Path
  <1>2. Len(p) > 0
    <2>1. Len(p) = 0 => p = <<>>
      BY <1>1 DEF Path
    <2>2. QED
      BY <1>1, <2>1 DEF TreeInv, Rooted
  <1>3. Len(p) \in 1 .. Len(p)
    BY <1>1, <1>2
  <1>4. Front(p) \in DOMAIN tree /\ Front(p) = SubSeq(p, 1, Len(p) - 1)
    BY <1>3 DEF Free, Front
  <1>5. ASSUME NEW q \in DOMAIN tree, IsPrefix(p, q) PROVE FALSE
    <2>1. q \in Path
      BY DEF TreeInv, TreeTypes
    <2>2. Len(p) \in 0 .. Len(q) /\ SubSeq(q, 1, Len(p)) = p
      BY <1>1, <1>5, <2>1, PrefixCut
    <2>3. QED
      BY <1>1, <2>2 DEF TreeInv, Rooted
  <1>6. QED
    BY <1>1, <1>2, <1>4, <1>5

\* A node is added.
Grew(p, elem) ==
    /\ inserted' = inserted \cup {elem}
    /\ Free(p, elem)
    /\ DOMAIN tree' = DOMAIN tree \cup {p}
    /\ tree'[p] = [elem |-> elem, height |-> 0]
    /\ \A q \in DOMAIN tree :
          /\ tree'[q] \in [elem : Int, height : Nat] /\ tree'[q].elem = tree[q].elem
          /\ tree'[q].height = IF IsStrictPrefix(q, p) THEN tree[q].height + height_added(p)
                                                       ELSE tree[q].height

LEMMA InsertGrows ==
    ASSUME TreeInv, NEW elem \in Elems, elem \notin inserted, bitree_insert(elem)
    PROVE  \E p : Grew(p, elem)
  <1>1. PICK p : p = Place(elem)
    OBVIOUS
  <1>2. ~\E q \in DOMAIN tree : tree[q].elem = elem
    BY DEF TreeInv, Counted
  <1> DEFINE new(q) == IF q = p THEN [elem |-> elem, height |-> 0]
                       ELSE IF IsStrictPrefix(q, p)
                       THEN [tree[q] EXCEPT !.height = @ + height_added(p)]
                       ELSE tree[q]
  <1>3. inserted' = inserted \cup {elem} /\ tree' = [q \in DOMAIN tree \cup {p} |-> new(q)]
    BY <1>1, <1>2 DEF bitree_insert
  <1>4. Free(p, elem) /\ p \notin DOMAIN tree
    BY <1>1, PlaceFree DEF Free
  <1>5. new(p) = [elem |-> elem, height |-> 0]
    OBVIOUS
  <1>6. ASSUME NEW q \in DOMAIN tree
        PROVE  /\ new(q) \in [elem : Int, height : Nat] /\ new(q).elem = tree[q].elem
               /\ new(q).height = IF IsStrictPrefix(q, p) THEN tree[q].height + height_added(p)
                                                          ELSE tree[q].height
    <2>1. q # p /\ tree[q] \in [elem : Int, height : Nat] /\ height_added(p) \in {0, 1}
      BY <1>4 DEF TreeInv, TreeTypes, height_added
    <2>2. \A e \in [elem : Int, height : Nat], a \in {0, 1} :
            /\ [e EXCEPT !.height = @ + a] \in [elem : Int, height : Nat]
            /\ [e EXCEPT !.height = @ + a].elem = e.elem
            /\ [e EXCEPT !.height = @ + a].height = e.height + a
      OBVIOUS
    <2>3. CASE IsStrictPrefix(q, p)
      <3>1. new(q) = [tree[q] EXCEPT !.height = @ + height_added(p)]
        BY <2>1, <2>3
      <3>2. QED
        BY <2>1, <2>2, <2>3, <3>1
    <2>4. CASE ~IsStrictPrefix(q, p)
      <3>1. new(q) = tree[q]
        BY <2>1, <2>4
      <3>2. QED
        BY <2>1, <2>4, <3>1
    <2>5. QED
      BY <2>3, <2>4
  <1> HIDE DEF new
  <1>7. DOMAIN tree' = DOMAIN tree \cup {p} /\ \A q \in DOMAIN tree \cup {p} : tree'[q] = new(q)
    BY <1>3
  <1>8. Grew(p, elem)
    BY <1>3, <1>4, <1>5, <1>6, <1>7 DEF Grew
  <1>9. QED
    BY <1>8

\* Types, roots and counts.
LEMMA GrewCounted ==
    ASSUME TreeInv, NEW elem \in Elems, elem \notin inserted, NEW p, Grew(p, elem)
    PROVE  TreeTypes' /\ Rooted' /\ Counted'
  <1>0. /\ p \in Path /\ p \notin DOMAIN tree /\ Len(p) \in Nat /\ Len(p) > 0
        /\ Front(p) \in DOMAIN tree /\ Front(p) = SubSeq(p, 1, Len(p) - 1)
    BY FreePlace DEF Grew
  <1>1. /\ DOMAIN tree' = DOMAIN tree \cup {p} /\ tree'[p] = [elem |-> elem, height |-> 0]
        /\ inserted' = inserted \cup {elem}
    BY DEF Grew
  <1>2. DOMAIN tree \subseteq Path /\ IsFiniteSet(DOMAIN tree) /\ elem \in Int
    BY TreeAssumption DEF TreeInv, TreeTypes
  <1>3. /\ IsFiniteSet(DOMAIN tree')
        /\ Cardinality(DOMAIN tree') = Cardinality(DOMAIN tree) + 1
        /\ Cardinality(DOMAIN tree) \in Nat
    BY <1>0, <1>1, <1>2, FS_AddElement, FS_CardinalityType
  <1>4. TreeTypes'
    <2>1. tree'[p] \in [elem : Int, height : Nat]
      BY <1>1, <1>2
    <2>2. \A q \in DOMAIN tree : tree'[q] \in [elem : Int, height : Nat]
      BY DEF Grew
    <2>3. QED
      BY <1>0, <1>1, <1>2, <1>3, <2>1, <2>2 DEF TreeTypes
  <1>5. Rooted'
    <2>1. <<>> \in DOMAIN tree'
      BY <1>1 DEF TreeInv, Rooted
    <2>2. ASSUME NEW q \in DOMAIN tree, NEW n \in 0 .. Len(q) PROVE SubSeq(q, 1, n) \in DOMAIN tree'
      BY <1>1 DEF TreeInv, Rooted
    <2>3. ASSUME NEW n \in 0 .. Len(p) PROVE SubSeq(p, 1, n) \in DOMAIN tree'
      <3>1. CASE n = Len(p)
        <4>1. /\ SubSeq(p, 1, n) \in Path /\ Len(SubSeq(p, 1, n)) = n
              /\ \A i \in 1 .. n : SubSeq(p, 1, n)[i] = p[i]
          BY <1>0, CutPath
        <4>2. SubSeq(p, 1, n) = p
          BY <1>0, <3>1, <4>1, SamePath
        <4>3. QED
          BY <1>1, <4>2
      <3>2. CASE n # Len(p)
        <4>1. n + 1 \in 1 .. Len(p) /\ (n + 1) - 1 = n
          BY <1>0, <3>2
        <4>2. SubSeq(p, 1, (n + 1) - 1) \in DOMAIN tree
          BY <4>1 DEF Grew, Free
        <4>3. QED
          BY <1>1, <4>1, <4>2
      <3>3. QED
        BY <3>1, <3>2
    <2>4. QED
      BY <1>1, <2>1, <2>2, <2>3 DEF Rooted
  <1>6. Counted'
    <2>1. inserted \subseteq Elems /\ IsFiniteSet(Elems)
      BY TreeAssumption DEF TreeInv, Counted
    <2>2. IsFiniteSet(inserted)
      BY <2>1, FS_Subset
    <2>3. Cardinality(inserted') = Cardinality(inserted) + 1
      BY <1>1, <2>2, FS_AddElement
    <2>4. Cardinality(DOMAIN tree') = Cardinality(inserted')
      BY <1>3, <2>3 DEF TreeInv, Counted
    <2>5. {tree'[q].elem : q \in DOMAIN tree'} = inserted'
      <3>1. {tree[q].elem : q \in DOMAIN tree} = inserted
        BY DEF TreeInv, Counted
      <3>2. \A q \in DOMAIN tree : tree'[q].elem = tree[q].elem
        BY DEF Grew
      <3>3. tree'[p].elem = elem
        BY <1>1
      <3>4. QED
        BY <1>1, <3>1, <3>2, <3>3
    <2>6. ASSUME NEW q \in DOMAIN tree' PROVE Len(q) < Cardinality(DOMAIN tree')
      <3>1. CASE q \in DOMAIN tree
        <4>1. Len(q) < Cardinality(DOMAIN tree) /\ Len(q) \in Nat
          BY <1>2, <3>1 DEF TreeInv, Counted, Path
        <4>2. QED
          BY <1>3, <4>1
      <3>2. CASE q = p
        <4>1. Len(Front(p)) < Cardinality(DOMAIN tree)
          BY <1>0 DEF TreeInv, Counted
        <4>2. Len(p) - 1 \in 0 .. Len(p)
          BY <1>0
        <4>3. Len(Front(p)) = Len(p) - 1
          BY <1>0, <4>2, CutPath
        <4>4. QED
          BY <1>0, <1>3, <3>2, <4>1, <4>3
      <3>3. QED
        BY <1>1, <3>1, <3>2
    <2>7. inserted' \subseteq Elems
      BY <1>1, <2>1
    <2>8. QED
      BY <2>4, <2>5, <2>6, <2>7 DEF Counted
  <1>7. QED
    BY <1>4, <1>5, <1>6

\* The new node stands on the right side of every node above it.
LEMMA GrewOrdered ==
    ASSUME TreeInv, NEW elem \in Elems, elem \notin inserted, NEW p, Grew(p, elem)
    PROVE  Ordered'
  <1>0. /\ p \in Path /\ p \notin DOMAIN tree
        /\ \A q \in DOMAIN tree : ~IsPrefix(p, q)
    BY FreePlace DEF Grew
  <1>1. /\ DOMAIN tree' = DOMAIN tree \cup {p} /\ tree'[p].elem = elem
        /\ \A q \in DOMAIN tree : tree'[q].elem = tree[q].elem
    BY DEF Grew
  <1>2. DOMAIN tree \subseteq Path /\ elem \in Int /\ \A q \in DOMAIN tree : tree[q].elem \in Int
    BY TreeAssumption DEF TreeInv, TreeTypes
  <1>3. \A q \in DOMAIN tree : tree[q].elem # elem
    BY DEF TreeInv, Counted
  <1>4. ASSUME NEW q \in DOMAIN tree, IsStrictPrefix(q, p)
        PROVE  IF p[Len(q) + 1] = "left" THEN elem < tree[q].elem ELSE elem > tree[q].elem
    <2>1. q \in Path /\ Len(q) < Len(p) /\ Len(q) \in Nat /\ Len(p) \in Nat
      BY <1>0, <1>2, <1>4, StrictShorter
    <2>2. SubSeq(p, 1, Len(q)) = q
      BY <1>0, <1>4, <2>1, PrefixCut DEF IsStrictPrefix
    <2>3. Len(q) + 1 \in 1 .. Len(p) /\ (Len(q) + 1) - 1 = Len(q)
      BY <2>1
    <2>4. p[Len(q) + 1] = Turn(q, elem)
      BY <2>2, <2>3 DEF Grew, Free
    <2>5. p[Len(q) + 1] = IF elem < tree[q].elem THEN "left" ELSE "right"
      BY <2>4 DEF Turn
    <2>6. CASE elem < tree[q].elem
      BY <2>5, <2>6
    <2>7. CASE ~(elem < tree[q].elem)
      <3>1. elem > tree[q].elem
        BY <1>2, <1>3, <2>7
      <3>2. p[Len(q) + 1] # "left"
        BY <2>5, <2>7
      <3>3. QED
        BY <3>1, <3>2
    <2>8. QED
      BY <2>6, <2>7
  <1>5. \A q \in DOMAIN tree' : ~IsStrictPrefix(p, q)
    BY <1>0, <1>1 DEF IsStrictPrefix
  <1>6. ASSUME NEW q \in DOMAIN tree', NEW r \in DOMAIN tree', IsStrictPrefix(q, r)
        PROVE  IF r[Len(q) + 1] = "left" THEN tree'[r].elem < tree'[q].elem
                                         ELSE tree'[r].elem > tree'[q].elem
    <2>1. q \in DOMAIN tree /\ tree'[q].elem = tree[q].elem
      BY <1>1, <1>5, <1>6
    <2>2. CASE r = p
      <3>1. IF p[Len(q) + 1] = "left" THEN elem < tree[q].elem ELSE elem > tree[q].elem
        BY <1>4, <1>6, <2>1, <2>2
      <3>2. QED
        BY <1>1, <2>1, <2>2, <3>1
    <2>3. CASE r \in DOMAIN tree
      <3>1. IF r[Len(q) + 1] = "left" THEN tree[r].elem < tree[q].elem
                                      ELSE tree[r].elem > tree[q].elem
        BY <1>6, <2>1, <2>3 DEF TreeInv, Ordered
      <3>2. QED
        BY <1>1, <2>1, <2>3, <3>1
    <2>4. QED
      BY <1>1, <2>2, <2>3
  <1>7. QED
    BY <1>6 DEF Ordered


\* The sibling of a place differs from it in the last turn only.
LEMMA Sibling ==
    ASSUME NEW p \in Path, Len(p) > 0
    PROVE  LET sib == Append(Front(p), Flip(Last(p)))
           IN  /\ sib \in Path /\ Len(sib) = Len(p)
               /\ \A i \in 1 .. (Len(p) - 1) : sib[i] = p[i]
  <1>1. Len(p) \in Nat /\ p \in Seq(Turns)
    BY DEF Path
  <1>2. Len(p) - 1 \in 0 .. Len(p)
    BY <1>1
  <1>3. /\ Front(p) \in Path /\ Len(Front(p)) = Len(p) - 1
        /\ \A i \in 1 .. (Len(p) - 1) : Front(p)[i] = p[i]
    BY <1>2, CutPath DEF Front
  <1>4. Flip(Last(p)) \in Turns
    BY DEF Flip, Turns
  <1> DEFINE f == Front(p)
             t == Flip(Last(p))
             sib == Append(f, t)
  <1> HIDE DEF f, t
  <1>5. /\ sib \in Path /\ Len(sib) = Len(f) + 1
        /\ \A i \in 1 .. Len(f) : sib[i] = f[i]
    BY <1>3, <1>4, LongerPath DEF f, t
  <1>6. f \in Path /\ Len(f) = Len(p) - 1 /\ \A i \in 1 .. (Len(p) - 1) : f[i] = p[i]
    BY <1>3 DEF f
  <1> HIDE DEF sib
  <1>7. /\ sib \in Path /\ Len(sib) = Len(p)
        /\ \A i \in 1 .. (Len(p) - 1) : sib[i] = p[i]
    BY <1>1, <1>5, <1>6
  <1>8. QED
    BY <1>7 DEF sib, f, t

\* The nodes above the new one grow by what it adds.
LEMMA GrewHeights ==
    ASSUME TreeInv, NEW elem \in Elems, elem \notin inserted, NEW p, Grew(p, elem)
    PROVE  Heights'
  <1>0. /\ p \in Path /\ p \notin DOMAIN tree /\ Len(p) \in Nat /\ Len(p) > 0
        /\ Front(p) \in DOMAIN tree /\ Front(p) = SubSeq(p, 1, Len(p) - 1)
        /\ \A q \in DOMAIN tree : ~IsPrefix(p, q)
    BY FreePlace DEF Grew
  <1>1. /\ DOMAIN tree' = DOMAIN tree \cup {p} /\ tree'[p] = [elem |-> elem, height |-> 0]
        /\ \A q \in DOMAIN tree : tree'[q].height =
              IF IsStrictPrefix(q, p) THEN tree[q].height + height_added(p) ELSE tree[q].height
    BY DEF Grew
  <1>2. /\ DOMAIN tree \subseteq Path /\ IsFiniteSet(DOMAIN tree)
        /\ \A q \in DOMAIN tree : tree[q].height \in Nat
        /\ \A q \in DOMAIN tree : Len(q) \in Nat
    BY DEF TreeInv, TreeTypes, Path
  <1>3. /\ Below(p)' = {p} /\ tree'[p].height = 0
    <2>1. IsPrefix(p, p)
      BY <1>0 DEF IsPrefix
    <2>2. QED
      BY <1>0, <1>1, <2>1 DEF Below
  <1> DEFINE sib == Append(Front(p), Flip(Last(p)))
  <1>4. sib \in Path /\ Len(sib) = Len(p) /\ \A i \in 1 .. (Len(p) - 1) : sib[i] = p[i]
    BY <1>0, Sibling
  <1>5. height_added(p) = IF sib \in DOMAIN tree THEN 0 ELSE 1
    BY DEF height_added
  <1> HIDE DEF sib
  <1>6. ASSUME NEW q \in DOMAIN tree, IsPrefix(q, p)
        PROVE  /\ \A r \in Below(q)' : Len(r) - Len(q) <= tree'[q].height
               /\ Single(q)' => tree'[q].height = Cardinality(Below(q)') - 1
    <2>1. q \in Path /\ q # p /\ IsStrictPrefix(q, p)
      BY <1>0, <1>2, <1>6 DEF IsStrictPrefix
    <2>2. Len(q) < Len(p) /\ Len(q) \in Nat /\ \A i \in 1 .. Len(q) : p[i] = q[i]
      BY <1>0, <1>6, <2>1, StrictShorter, PrefixCut
    <2>3. tree'[q].height = tree[q].height + height_added(p) /\ tree[q].height \in Nat
      BY <1>1, <1>2, <2>1
    <2>4. Below(q)' = Below(q) \cup {p} /\ p \notin Below(q) /\ IsFiniteSet(Below(q))
      <3>1. Below(q)' = Below(q) \cup {p} /\ p \notin Below(q)
        BY <1>0, <1>1, <1>6 DEF Below
      <3>2. Below(q) \in SUBSET DOMAIN tree
        BY DEF Below
      <3>3. QED
        BY <1>2, <3>1, <3>2, FS_Subset
    <2>5. Cardinality(Below(q)') = Cardinality(Below(q)) + 1 /\ Cardinality(Below(q)) \in Nat
      BY <2>4, FS_AddElement, FS_CardinalityType
    <2>6. \A i \in 1 .. Len(q) : i \in 1 .. (Len(p) - 1)
      BY <1>0, <2>2
    <2>7. sib \in DOMAIN tree => sib \in Below(q)
      <3>1. Len(q) <= Len(sib) /\ \A i \in 1 .. Len(q) : q[i] = sib[i]
        <4>1. Len(q) <= Len(sib)
          BY <1>0, <1>4, <2>2
        <4>2. ASSUME NEW i \in 1 .. Len(q) PROVE q[i] = sib[i]
          <5>1. sib[i] = p[i]
            BY <1>4, <2>6
          <5>2. p[i] = q[i]
            BY <2>2
          <5>3. QED
            BY <5>1, <5>2, Zenon
        <4>3. QED
          BY <4>1, <4>2
      <3>2. IsPrefix(q, sib)
        BY <1>4, <2>1, <3>1, CutPrefix
      <3>3. QED
        BY <3>2 DEF Below
    <2>8. Front(p) \in Below(q) /\ Len(Front(p)) = Len(p) - 1
      <3>1. Len(p) - 1 \in 0 .. Len(p)
        BY <1>0
      <3>2. /\ Front(p) \in Path /\ Len(Front(p)) = Len(p) - 1
            /\ \A i \in 1 .. (Len(p) - 1) : Front(p)[i] = p[i]
        BY <1>0, <3>1, CutPath
      <3>3. Len(q) <= Len(Front(p)) /\ \A i \in 1 .. Len(q) : q[i] = Front(p)[i]
        BY <1>0, <2>2, <2>6, <3>2
      <3>4. IsPrefix(q, Front(p))
        BY <2>1, <3>2, <3>3, CutPrefix
      <3>5. QED
        BY <1>0, <3>2, <3>4 DEF Below
    <2>9. /\ \A r \in Below(q) : Len(r) - Len(q) <= tree[q].height
          /\ Single(q) => tree[q].height = Cardinality(Below(q)) - 1
      BY DEF TreeInv, Heights
    <2>10. height_added(p) \in Nat
      BY <1>5
    <2>11. ASSUME NEW r \in Below(q)' PROVE Len(r) - Len(q) <= tree'[q].height
      <3>1. CASE r \in Below(q)
        <4>1. Len(r) \in Nat /\ Len(r) - Len(q) <= tree[q].height
          BY <1>2, <2>9, <3>1 DEF Below
        <4>2. QED
          BY <2>2, <2>3, <2>10, <4>1
      <3>2. CASE r = p
        <4>1. CASE sib \in DOMAIN tree
          <5>1. Len(p) - Len(q) <= tree[q].height
            BY <1>4, <2>7, <2>9, <4>1
          <5>2. QED
            BY <1>0, <2>2, <2>3, <2>10, <3>2, <5>1
        <4>2. CASE sib \notin DOMAIN tree
          <5>1. Len(p) - 1 - Len(q) <= tree[q].height
            BY <2>8, <2>9
          <5>2. height_added(p) = 1
            BY <1>5, <4>2
          <5>3. QED
            BY <1>0, <2>2, <2>3, <3>2, <5>1, <5>2
        <4>3. QED
          BY <4>1, <4>2
      <3>3. QED
        BY <2>4, <2>11, <3>1, <3>2
    <2>12. ASSUME Single(q)' PROVE tree'[q].height = Cardinality(Below(q)') - 1
      <3>1. \A r, s \in Below(q)' : Len(r) = Len(s) => r = s
        BY <2>12 DEF Single
      <3>2. Single(q)
        BY <2>4, <3>1 DEF Single
      <3>3. sib \notin DOMAIN tree
        BY <1>0, <1>4, <2>4, <2>7, <3>1
      <3>4. height_added(p) = 1
        BY <1>5, <3>3
      <3>5. QED
        BY <2>3, <2>5, <2>9, <3>2, <3>4
    <2>13. QED
      BY <2>11, <2>12
  <1>7. ASSUME NEW q \in DOMAIN tree, ~IsPrefix(q, p)
        PROVE  /\ \A r \in Below(q)' : Len(r) - Len(q) <= tree'[q].height
               /\ Single(q)' => tree'[q].height = Cardinality(Below(q)') - 1
    <2>1. Below(q)' = Below(q)
      BY <1>1, <1>7 DEF Below
    <2>2. tree'[q].height = tree[q].height
      BY <1>1, <1>7 DEF IsStrictPrefix
    <2>3. Single(q)' => Single(q)
      BY <2>1 DEF Single
    <2>4. QED
      BY <2>1, <2>2, <2>3 DEF TreeInv, Heights
  <1>8. /\ \A r \in Below(p)' : Len(r) - Len(p) <= tree'[p].height
        /\ tree'[p].height = Cardinality(Below(p)') - 1
    <2>1. Cardinality({p}) = 1
      BY FS_Singleton
    <2>2. QED
      BY <1>0, <1>3, <2>1
  <1>9. QED
    BY <1>1, <1>6, <1>7, <1>8 DEF Heights

\* Every insertion keeps the invariant.
LEMMA TreeStep == ASSUME TreeInv, [TreeNext]_trvars PROVE TreeInv'
  <1>1. CASE UNCHANGED trvars
    BY <1>1 DEF trvars, TreeInv, TreeTypes, Rooted, Counted, Ordered, Heights, Below, Single
  <1>2. ASSUME NEW elem \in Elems, bitree_insert(elem) PROVE TreeInv'
    <2>1. CASE elem \in inserted
      <3>1. \E q \in DOMAIN tree : tree[q].elem = elem
        BY <2>1 DEF TreeInv, Counted
      <3>2. tree' = tree /\ inserted' = inserted
        BY <1>2, <2>1, <3>1 DEF bitree_insert
      <3>3. QED
        BY <3>2 DEF TreeInv, TreeTypes, Rooted, Counted, Ordered, Heights, Below, Single
    <2>2. CASE elem \notin inserted
      <3>1. PICK p : Grew(p, elem)
        BY <1>2, <2>2, InsertGrows
      <3>2. QED
        BY <2>2, <3>1, GrewCounted, GrewOrdered, GrewHeights DEF TreeInv
    <2>3. QED
      BY <2>1, <2>2
  <1>3. QED
    BY <1>1, <1>2 DEF TreeNext

\* A tree of one node.
LEMMA TreeStart == TreeInit => TreeInv
  <1> SUFFICES ASSUME NEW elem \in Elems, tree = bitree_create(elem), inserted = {elem}
               PROVE  TreeInv
    BY DEF TreeInit
  <1>1. /\ DOMAIN tree = {<<>>} /\ tree[<<>>] = [elem |-> elem, height |-> 0] /\ elem \in Int
    BY TreeAssumption DEF bitree_create
  <1>2. <<>> \in Path /\ Len(<<>>) = 0
    BY DEF Path
  <1>3. IsFiniteSet({<<>>}) /\ Cardinality({<<>>}) = 1 /\ Cardinality({elem}) = 1
    BY FS_Singleton
  <1>4. TreeTypes
    BY <1>1, <1>2, <1>3 DEF TreeTypes
  <1>5. Rooted
    <2>1. ASSUME NEW n \in 0 .. 0 PROVE SubSeq(<<>>, 1, n) = <<>>
      OBVIOUS
    <2>2. QED
      BY <1>1, <1>2, <2>1 DEF Rooted
  <1>6. Counted
    BY <1>1, <1>2, <1>3 DEF Counted
  <1>7. Ordered
    BY <1>1 DEF Ordered, IsStrictPrefix
  <1>8. Heights
    <2>1. IsPrefix(<<>>, <<>>)
      BY DEF IsPrefix
    <2>2. Below(<<>>) = {<<>>}
      BY <1>1, <2>1 DEF Below
    <2>3. tree[<<>>].height = 0 /\ Cardinality(Below(<<>>)) - 1 = 0
      <3>1. tree[<<>>].height = 0
        BY <1>1
      <3>2. Cardinality(Below(<<>>)) = 1
        BY <1>3, <2>2, Zenon
      <3>3. QED
        BY <3>1, <3>2
    <2>4. \A r \in Below(<<>>) : Len(r) - Len(<<>>) <= tree[<<>>].height
      BY <1>2, <2>2, <2>3
    <2>5. QED
      BY <1>1, <2>3, <2>4 DEF Heights
  <1>9. QED
    BY <1>4, <1>5, <1>6, <1>7, <1>8 DEF TreeInv

\* Whatever integers are inserted, in whatever order: the tree is a search
\* tree of them, and the heights are what the comment at SearchTree says
\* (bitree.c, bitree_create, bitree_insert).
THEOREM TreeSorted == TreeSpec => []SearchTree
  <1>1. ASSUME TreeInv PROVE SearchTree
    <2>1. /\ {tree[q].elem : q \in DOMAIN tree} = inserted
          /\ Cardinality(DOMAIN tree) = Cardinality(inserted)
      BY <1>1 DEF TreeInv, Counted
    <2>2. \A q, r \in DOMAIN tree : IsStrictPrefix(q, r) =>
            IF r[Len(q) + 1] = "left" THEN tree[r].elem < tree[q].elem
                                      ELSE tree[r].elem > tree[q].elem
      BY <1>1 DEF TreeInv, Ordered
    <2>3. ASSUME NEW q \in DOMAIN tree
          PROVE  LET below == {r \in DOMAIN tree : IsPrefix(q, r)}
                     depths == {Len(r) - Len(q) : r \in below}
                 IN  /\ \A d \in depths : d <= tree[q].height
                     /\ Cardinality(below) = Cardinality(depths)
                             => tree[q].height = Cardinality(depths) - 1
      <3> DEFINE below == {r \in DOMAIN tree : IsPrefix(q, r)}
                 depths == {Len(r) - Len(q) : r \in below}
                 f == [r \in below |-> Len(r) - Len(q)]
      <3>1. below = Below(q)
        BY DEF Below
      <3>2. /\ \A r \in below : Len(r) - Len(q) <= tree[q].height
            /\ Single(q) => tree[q].height = Cardinality(below) - 1
        BY <1>1, <3>1 DEF TreeInv, Heights
      <3>3. IsFiniteSet(below)
        <4>1. IsFiniteSet(DOMAIN tree) /\ below \in SUBSET DOMAIN tree
          BY <1>1 DEF TreeInv, TreeTypes
        <4>2. QED
          BY <4>1, FS_Subset
      <3>4. f \in Surjection(below, depths)
        BY DEF Surjection
      <3>5. ASSUME Cardinality(below) = Cardinality(depths)
            PROVE  tree[q].height = Cardinality(depths) - 1
        <4>1. f \in Injection(below, depths)
          <5> HIDE DEF f, below, depths
          <5>1. QED
            BY <3>3, <3>4, <3>5, FS_SurjSameCardinalityImpliesInj
        <4>2. \A r, s \in below : f[r] = f[s] => r = s
          BY <4>1 DEF Injection, IsInjective
        <4>3. Single(q)
          BY <3>1, <4>2 DEF Single
        <4>4. QED
          BY <3>2, <3>5, <4>3
      <3>6. \A d \in depths : d <= tree[q].height
        BY <3>2
      <3>7. QED
        BY <3>5, <3>6
    <2>4. QED
      BY <2>1, <2>2, <2>3 DEF SearchTree
  <1>2. TreeInv => SearchTree
    BY <1>1
  <1>3. QED
    BY <1>2, TreeStart, TreeStep, PTL DEF TreeSpec

-----------------------------------------------------------------------------
(* ServerLife.                                                             *)

\* serv_create has allocated the worker table and the queues, and serv_destroy
\* has not freed them.
Made == lpc \in {"accessor", "set", "run", "sleep", "crash"}
Num == conf.worker_num
WorkerType == [p_worker_f : Workfs \cup {Default}, p_proc_f : Procfs \cup {Default},
               p_que : Nat, p_ctx : {Null} \cup (Nat \X Nat),
               p_ctx_clean_f : Cleanfs \cup {Null}]
ArgType == [worker : Workfs \cup {Null}, proc : Procfs \cup {Null},
            ctx : Contexts \cup {Null}, clean : Cleanfs \cup {Null}]

\* Once made, worker i has queue i, and so has the access thread.
Shared ==
    Made => /\ Num \in Nat
            /\ workers \in Seq(WorkerType) /\ Len(workers) = Num
            /\ \A i \in 1 .. Num : workers[i].p_que = i
            /\ ques = [i \in 1 .. Num |-> i]
            /\ que \in [1 .. Num -> Nat]

\* Threads start in order, the access thread last; only it fills a queue.
Threads ==
    /\ lpc \in {"load", "create", "accessor", "set", "run", "sleep", "crash", "end"}
    /\ to_start \in Nat \ {0} /\ started = 1 .. (to_start - 1)
    /\ Made => to_start <= Num + 1
    /\ lpc \notin {"run", "sleep", "crash"} => to_start = 1
    /\ access => lpc \in {"sleep", "crash"} /\ to_start = Num + 1
    /\ ~access => \A q \in DOMAIN que : que[q] = 0
    /\ lpc = "crash" => Num = 0

\* A worker's context carries the call it came from, and the clean function
\* of that call.
Contexted ==
    /\ sets \in Seq(ArgType)
    /\ Made => \A i \in 1 .. Num : workers[i].p_ctx # Null =>
         \E made \in 1 .. Len(sets) : /\ workers[i].p_ctx = <<made, i>>
                                      /\ workers[i].p_ctx_clean_f = sets[made].clean

Cleaned ==
    /\ cleaned # <<>> => lpc = "end"
    /\ \A i \in DOMAIN cleaned : \E made \in 1 .. Len(sets) :
          cleaned[i] = <<<<made, i>>, sets[made].clean>>

LifeInv == Shared /\ Threads /\ Contexted /\ Cleaned

-----------------------------------------------------------------------------
\* The index an address selects lies in p_ques, as long as there is a queue.
LEMMA Selected ==
    ASSUME NEW key \in Addresses, NEW n \in Nat \ {0}
    PROVE  sel_que_by_ip(key, n) + 1 \in 1 .. n
  <1>1. \A x \in Int : x % n \in 0 .. (n - 1)
    OBVIOUS
  <1>2. dig_hash(key) \in Int
    <2>1. /\ key[1] \in Int /\ key[2] \in Int /\ key[3] \in Int /\ key[4] \in Int
      BY AddressAssumption
    <2>2. QED
      BY <2>1 DEF dig_hash
  <1>3. 65536 % n \in Int
    BY <1>1
  <1>4. (dig_hash(key) % n) + (65536 % n) * (65536 % n) \in Int
    BY <1>1, <1>2, <1>3
  <1>5. sel_que_by_ip(key, n) \in 0 .. (n - 1)
    BY <1>1, <1>2, <1>4 DEF sel_que_by_ip
  <1>6. QED
    BY <1>5

\* A round of serv_set_work_cb leaves a worker its queue, and gives it a
\* context together with that context's clean function, or neither.
LEMMA SetWorkerFacts ==
    ASSUME NEW w \in WorkerType, NEW made \in Nat, NEW i \in Nat, NEW a \in ArgType
    PROVE  /\ SetWorker(w, made, i, a) \in WorkerType
           /\ SetWorker(w, made, i, a).p_que = w.p_que
           /\ IF a.ctx = Null
              THEN /\ SetWorker(w, made, i, a).p_ctx = w.p_ctx
                   /\ SetWorker(w, made, i, a).p_ctx_clean_f = w.p_ctx_clean_f
              ELSE /\ SetWorker(w, made, i, a).p_ctx = <<made, i>>
                   /\ SetWorker(w, made, i, a).p_ctx_clean_f = a.clean
  <1> DEFINE f == IF a.worker = Null THEN w.p_worker_f ELSE a.worker
             p == IF a.proc = Null THEN w.p_proc_f ELSE a.proc
             x == IF a.ctx = Null THEN w.p_ctx ELSE <<made, i>>
             c == IF a.ctx = Null THEN w.p_ctx_clean_f ELSE a.clean
  <1>1. /\ f \in Workfs \cup {Default} /\ p \in Procfs \cup {Default}
        /\ x \in {Null} \cup (Nat \X Nat) /\ c \in Cleanfs \cup {Null}
    BY DEF WorkerType, ArgType
  <1>2. /\ a.ctx = Null => x = w.p_ctx /\ c = w.p_ctx_clean_f
        /\ a.ctx # Null => x = <<made, i>> /\ c = a.clean
    OBVIOUS
  <1>3. SetWorker(w, made, i, a) =
          [w EXCEPT !.p_worker_f = f, !.p_proc_f = p, !.p_ctx = x, !.p_ctx_clean_f = c]
    BY DEF SetWorker, WorkerType
  <1> HIDE DEF f, p, x, c
  <1> DEFINE v == [w EXCEPT !.p_worker_f = f, !.p_proc_f = p, !.p_ctx = x, !.p_ctx_clean_f = c]
  <1>4. v \in WorkerType /\ v.p_que = w.p_que /\ v.p_ctx = x /\ v.p_ctx_clean_f = c
    BY <1>1 DEF WorkerType
  <1>5. SetWorker(w, made, i, a) = v
    BY <1>3
  <1> HIDE DEF v
  <1>6. QED
    BY <1>2, <1>4, <1>5

-----------------------------------------------------------------------------
\* serv_load.
LEMMA LoadsInv == ASSUME LifeInv, MainLoads PROVE LifeInv'
  <1>1. /\ lpc = "load" /\ lpc' \in {"end", "create"}
        /\ UNCHANGED <<workers, ques, que, started, access, to_start, cleaned, sets>>
    BY DEF MainLoads
  <1>2. ~Made /\ ~Made' /\ ~access /\ cleaned = <<>>
    BY <1>1 DEF Made, LifeInv, Threads, Cleaned
  <1>3. Shared' /\ Threads'
    BY <1>1, <1>2 DEF LifeInv, Shared, Threads
  <1>4. Contexted' /\ Cleaned'
    BY <1>1, <1>2 DEF LifeInv, Contexted, Cleaned
  <1>5. QED
    BY <1>3, <1>4 DEF LifeInv

\* serv_create.
LEMMA CreateInv == ASSUME LifeInv, serv_create PROVE LifeInv'
  <1>0. /\ lpc = "create" /\ UNCHANGED <<conf, started, access, to_start, cleaned, sets>>
    BY DEF serv_create
  <1>1. ~Made /\ ~access /\ cleaned = <<>> /\ to_start = 1 /\ started = 1 .. (to_start - 1)
    BY <1>0 DEF Made, LifeInv, Threads, Cleaned
  <1>2. CASE lpc' = "end" /\ UNCHANGED <<workers, ques, que>>
    <2>1. ~Made'
      BY <1>2 DEF Made
    <2>2. QED
      BY <1>0, <1>1, <1>2, <2>1 DEF LifeInv, Shared, Threads, Contexted, Cleaned
  <1>3. CASE /\ conf.worker_num \in Nat
             /\ workers' = [i \in 1 .. conf.worker_num |-> NewWorker(i)]
             /\ ques' = [i \in 1 .. conf.worker_num |-> i]
             /\ que' = [i \in 1 .. conf.worker_num |-> 0]
             /\ lpc' = "accessor"
    <2>1. \A i \in Nat : /\ NewWorker(i) \in WorkerType /\ NewWorker(i).p_que = i
                         /\ NewWorker(i).p_ctx = Null
      BY DEF NewWorker, WorkerType
    <2>2. /\ Num' = conf.worker_num /\ Num' \in Nat
      BY <1>0, <1>3 DEF Num
    <2>3. /\ workers' \in Seq(WorkerType) /\ Len(workers') = Num'
          /\ \A i \in 1 .. Num' : workers'[i].p_que = i /\ workers'[i].p_ctx = Null
      <3> DEFINE n == conf.worker_num
                 ws == [i \in 1 .. n |-> NewWorker(i)]
      <3>1. n \in Nat /\ workers' = ws /\ Num' = n
        BY <1>3, <2>2
      <3> HIDE DEF n
      <3>2. \A i \in 1 .. n : i \in Nat /\ ws[i] = NewWorker(i)
        BY <3>1
      <3>3. \A i \in 1 .. n : ws[i] \in WorkerType /\ ws[i].p_que = i /\ ws[i].p_ctx = Null
        BY <2>1, <3>2
      <3>4. ws \in Seq(WorkerType) /\ Len(ws) = n
        <4>1. ws \in [1 .. n -> WorkerType]
          BY <3>2, <3>3
        <4> HIDE DEF ws
        <4>2. QED
          BY <3>1, <4>1
      <3>5. QED
        BY <3>1, <3>3, <3>4, Zenon
    <2>4. Shared'
      BY <1>3, <2>2, <2>3 DEF Shared
    <2>5. Threads'
      BY <1>0, <1>1, <1>3, <2>2 DEF LifeInv, Threads
    <2>6. Contexted'
      BY <1>0, <2>3 DEF LifeInv, Contexted
    <2>7. Cleaned'
      BY <1>0, <1>1, <1>3 DEF LifeInv, Cleaned
    <2>8. QED
      BY <2>4, <2>5, <2>6, <2>7 DEF LifeInv
  <1>4. QED
    BY <1>2, <1>3 DEF serv_create

\* Steps that only move main on.
LEMMA MovesOn ==
    ASSUME LifeInv,
           UNCHANGED <<conf, workers, ques, que, started, access, to_start, cleaned, sets>>,
           \/ lpc \in {"accessor", "set"} /\ lpc' \in {"set", "run", "end", lpc}
           \/ lpc = "run" /\ lpc' = "sleep"
    PROVE  LifeInv'
  <1>1. /\ Made' => Made /\ Num' = Num
        /\ lpc \in {"accessor", "set", "run"} /\ lpc' \in {"accessor", "set", "run", "sleep", "end"}
    BY DEF Made, Num
  <1>2. ~access /\ cleaned = <<>>
    BY <1>1 DEF LifeInv, Threads, Cleaned
  <1>3. lpc' \notin {"run", "sleep", "crash"} => to_start = 1
    BY DEF LifeInv, Threads
  <1>4. Shared'
    BY <1>1 DEF LifeInv, Shared
  <1>5. Threads'
    BY <1>1, <1>2, <1>3 DEF LifeInv, Threads
  <1>6. Contexted'
    BY <1>1 DEF LifeInv, Contexted
  <1>7. Cleaned'
    BY <1>2 DEF LifeInv, Cleaned
  <1>8. QED
    BY <1>4, <1>5, <1>6, <1>7 DEF LifeInv

\* serv_set_work_cb.
LEMMA SetInv == ASSUME LifeInv, serv_set_work_cb PROVE LifeInv'
  <1>0. /\ lpc = "set" /\ lpc' = lpc
        /\ UNCHANGED <<conf, ques, que, started, access, to_start, cleaned>>
    BY DEF serv_set_work_cb
  <1>1. PICK a \in ArgType, stop \in 1 .. (Len(workers) + 1) :
         /\ workers' = [i \in DOMAIN workers |->
              CASE i < stop -> SetWorker(workers[i], Len(sets) + 1, i, a)
                [] i = stop -> SetWorker(workers[i], Len(sets) + 1, i,
                                          [a EXCEPT !.ctx = Null])
                [] OTHER -> workers[i]]
         /\ sets' = Append(sets, a)
    BY DEF serv_set_work_cb, ArgType
  <1> DEFINE b == [a EXCEPT !.ctx = Null]
             made == Len(sets) + 1
  <1>2. b \in ArgType /\ b.ctx = Null
    BY DEF ArgType
  <1>3. /\ Made /\ Made' /\ Num' = Num /\ Num \in Nat /\ cleaned = <<>>
        /\ workers \in Seq(WorkerType) /\ Len(workers) = Num /\ DOMAIN workers = 1 .. Num
        /\ sets \in Seq(ArgType) /\ Len(sets) \in Nat /\ made \in Nat /\ stop \in Nat
    BY <1>0 DEF Made, Num, LifeInv, Shared, Contexted, Cleaned
  <1>4. ASSUME NEW i \in 1 .. Num
        PROVE  /\ workers'[i] \in WorkerType /\ workers'[i].p_que = workers[i].p_que
               /\ \/ /\ workers'[i].p_ctx = workers[i].p_ctx
                     /\ workers'[i].p_ctx_clean_f = workers[i].p_ctx_clean_f
                  \/ workers'[i].p_ctx = <<made, i>> /\ workers'[i].p_ctx_clean_f = a.clean
    <2>1. workers[i] \in WorkerType /\ i \in Nat /\ made \in Nat
      BY <1>3
    <2>2. \/ workers'[i] = SetWorker(workers[i], made, i, a)
          \/ workers'[i] = SetWorker(workers[i], made, i, b)
          \/ workers'[i] = workers[i]
      BY <1>1, <1>3, <1>4
    <2> HIDE DEF b, made
    <2>3. ASSUME NEW arg \in ArgType
          PROVE  LET v == SetWorker(workers[i], made, i, arg)
                 IN  /\ v \in WorkerType /\ v.p_que = workers[i].p_que
                     /\ IF arg.ctx = Null
                        THEN v.p_ctx = workers[i].p_ctx /\ v.p_ctx_clean_f = workers[i].p_ctx_clean_f
                        ELSE v.p_ctx = <<made, i>> /\ v.p_ctx_clean_f = arg.clean
      <3> DEFINE w == workers[i]
      <3>1. w \in WorkerType /\ i \in Nat /\ made \in Nat
        BY <2>1
      <3> HIDE DEF w
      <3>2. /\ SetWorker(w, made, i, arg) \in WorkerType
            /\ SetWorker(w, made, i, arg).p_que = w.p_que
            /\ IF arg.ctx = Null
               THEN /\ SetWorker(w, made, i, arg).p_ctx = w.p_ctx
                    /\ SetWorker(w, made, i, arg).p_ctx_clean_f = w.p_ctx_clean_f
               ELSE /\ SetWorker(w, made, i, arg).p_ctx = <<made, i>>
                    /\ SetWorker(w, made, i, arg).p_ctx_clean_f = arg.clean
        BY <3>1, SetWorkerFacts, Zenon
      <3>3. QED
        BY <3>2 DEF w
    <2>4. CASE workers'[i] = SetWorker(workers[i], made, i, a)
      BY <2>3, <2>4
    <2>5. CASE workers'[i] = SetWorker(workers[i], made, i, b)
      BY <1>2, <2>3, <2>5
    <2>6. CASE workers'[i] = workers[i]
      BY <2>1, <2>6
    <2>7. QED
      BY <2>2, <2>4, <2>5, <2>6
  <1>5. workers' \in Seq(WorkerType) /\ Len(workers') = Num
    <2> DEFINE v(i) == CASE i < stop -> SetWorker(workers[i], Len(sets) + 1, i, a)
                         [] i = stop -> SetWorker(workers[i], Len(sets) + 1, i,
                                                   [a EXCEPT !.ctx = Null])
                         [] OTHER -> workers[i]
    <2>1. workers' = [i \in 1 .. Num |-> v(i)]
      BY <1>1, <1>3
    <2> HIDE DEF v
    <2>2. \A i \in 1 .. Num : v(i) \in WorkerType
      BY <1>4, <2>1
    <2>3. QED
      BY <1>3, <2>1, <2>2
  <1>6. Shared'
    BY <1>0, <1>3, <1>4, <1>5 DEF LifeInv, Shared
  <1>7. Threads'
    BY <1>0, <1>3 DEF LifeInv, Threads
  <1>8. /\ sets' \in Seq(ArgType) /\ Len(sets') = made /\ sets'[made] = a
        /\ \A k \in 1 .. Len(sets) : k \in 1 .. Len(sets') /\ sets'[k] = sets[k]
    BY <1>1, <1>3
  <1>9. Contexted'
    <2> SUFFICES ASSUME NEW i \in 1 .. Num, workers'[i].p_ctx # Null
                 PROVE  \E k \in 1 .. Len(sets') : /\ workers'[i].p_ctx = <<k, i>>
                                                   /\ workers'[i].p_ctx_clean_f = sets'[k].clean
      BY <1>3, <1>8 DEF Contexted
    <2>1. CASE /\ workers'[i].p_ctx = workers[i].p_ctx
               /\ workers'[i].p_ctx_clean_f = workers[i].p_ctx_clean_f
      <3>1. PICK k \in 1 .. Len(sets) : /\ workers[i].p_ctx = <<k, i>>
                                        /\ workers[i].p_ctx_clean_f = sets[k].clean
        BY <1>3, <2>1 DEF LifeInv, Contexted
      <3>2. QED
        BY <1>8, <2>1, <3>1
    <2>2. CASE workers'[i].p_ctx = <<made, i>> /\ workers'[i].p_ctx_clean_f = a.clean
      <3>1. made \in 1 .. Len(sets')
        BY <1>3, <1>8
      <3>2. QED
        BY <1>8, <2>2, <3>1
    <2>3. QED
      BY <1>4, <2>1, <2>2
  <1>10. Cleaned'
    BY <1>0, <1>3 DEF LifeInv, Cleaned
  <1>11. QED
    BY <1>6, <1>7, <1>9, <1>10 DEF LifeInv

\* serv_run.
LEMMA StartWorkerInv == ASSUME LifeInv, StartWorker PROVE LifeInv'
  <1>0. /\ lpc = "run" /\ to_start <= Len(workers)
        /\ UNCHANGED <<conf, workers, ques, que, access, cleaned, sets>>
    BY DEF StartWorker, setvars
  <1>1. CASE lpc' = "sleep" /\ UNCHANGED <<started, to_start>>
    BY <1>0, <1>1, MovesOn
  <1>2. CASE started' = started \cup {to_start} /\ to_start' = to_start + 1 /\ UNCHANGED lpc
    <2>1. Made /\ Made' /\ Num' = Num /\ ~access /\ cleaned = <<>>
      BY <1>0, <1>2 DEF Made, Num, LifeInv, Threads, Cleaned
    <2>2. to_start \in Nat \ {0} /\ started = 1 .. (to_start - 1) /\ to_start <= Num /\ Num \in Nat
      BY <1>0, <2>1 DEF LifeInv, Threads, Shared
    <2>3. started' = 1 .. (to_start' - 1)
      BY <1>2, <2>2
    <2>4. Threads'
      BY <1>0, <1>2, <2>1, <2>2, <2>3 DEF LifeInv, Threads
    <2>5. Shared' /\ Contexted' /\ Cleaned'
      BY <1>0, <2>1 DEF LifeInv, Shared, Contexted, Cleaned
    <2>6. QED
      BY <2>4, <2>5 DEF LifeInv
  <1>3. QED
    BY <1>1, <1>2 DEF StartWorker

LEMMA StartAccessInv == ASSUME LifeInv, StartAccess PROVE LifeInv'
  <1>0. /\ lpc = "run" /\ lpc' = "sleep" /\ to_start > Len(workers) /\ access' \in BOOLEAN
        /\ UNCHANGED <<conf, workers, ques, que, started, to_start, cleaned, sets>>
    BY DEF StartAccess, setvars
  <1>1. Made /\ Made' /\ Num' = Num /\ ~access /\ cleaned = <<>>
    BY <1>0 DEF Made, Num, LifeInv, Threads, Cleaned
  <1>2. to_start = Num + 1
    BY <1>0, <1>1 DEF LifeInv, Shared, Threads
  <1>3. Threads'
    BY <1>0, <1>1, <1>2 DEF LifeInv, Threads
  <1>4. Shared' /\ Contexted' /\ Cleaned'
    BY <1>0, <1>1 DEF LifeInv, Shared, Contexted, Cleaned
  <1>5. QED
    BY <1>3, <1>4 DEF LifeInv

\* An event is put into a queue there is.
LEMMA DeliverInv == ASSUME LifeInv, NEW key \in Addresses, Deliver(key) PROVE LifeInv'
  <1>0. /\ access /\ lpc # "crash"
        /\ UNCHANGED <<conf, workers, ques, started, access, to_start, cleaned, sets>>
    BY DEF Deliver, setvars
  <1>1. /\ lpc = "sleep" /\ to_start = Num + 1 /\ Made /\ cleaned = <<>>
    BY <1>0 DEF LifeInv, Threads, Made, Cleaned
  <1>2. /\ Num \in Nat /\ ques = [i \in 1 .. Num |-> i] /\ que \in [1 .. Num -> Nat]
        /\ Num' = Num
    BY <1>0, <1>1 DEF LifeInv, Shared, Num
  <1>3. Len(ques) = Num /\ DOMAIN ques = 1 .. Num /\ (ques = <<>> => Num = 0)
    BY <1>2
  <1>4. CASE lpc' = "crash" /\ UNCHANGED que /\
             (ques = <<>> \/ sel_que_by_ip(key, Len(ques)) + 1 \notin DOMAIN ques)
    <2>1. Num = 0
      BY <1>2, <1>3, <1>4, Selected
    <2>2. Made'
      BY <1>4 DEF Made
    <2>3. Shared' /\ Contexted'
      BY <1>0, <1>1, <1>2, <1>4, <2>2 DEF LifeInv, Shared, Contexted
    <2>4. Threads'
      BY <1>0, <1>1, <1>2, <1>4, <2>1, <2>2 DEF LifeInv, Threads
    <2>5. Cleaned'
      BY <1>0, <1>1 DEF LifeInv, Cleaned
    <2>6. QED
      BY <2>3, <2>4, <2>5 DEF LifeInv
  <1>5. CASE /\ sel_que_by_ip(key, Len(ques)) + 1 \in DOMAIN ques
             /\ que' = [que EXCEPT ![ques[sel_que_by_ip(key, Len(ques)) + 1]] = @ + 1]
             /\ UNCHANGED lpc
    <2> DEFINE q == ques[sel_que_by_ip(key, Len(ques)) + 1]
    <2>1. q \in 1 .. Num
      BY <1>2, <1>3, <1>5
    <2>2. que' = [que EXCEPT ![q] = @ + 1]
      BY <1>5
    <2> HIDE DEF q
    <2>3. que' \in [1 .. Num -> Nat]
      BY <1>2, <2>1, <2>2
    <2>4. Made'
      BY <1>1, <1>5 DEF Made
    <2>5. Shared' /\ Contexted'
      BY <1>0, <1>1, <1>2, <2>3, <2>4 DEF LifeInv, Shared, Contexted
    <2>6. Threads'
      BY <1>0, <1>1, <1>2, <1>5, <2>4 DEF LifeInv, Threads
    <2>7. Cleaned'
      BY <1>0, <1>1 DEF LifeInv, Cleaned
    <2>8. QED
      BY <2>5, <2>6, <2>7 DEF LifeInv
  <1>6. QED
    BY <1>4, <1>5 DEF Deliver

\* A worker takes an event from its own queue.
LEMMA TakeInv == ASSUME LifeInv, NEW i \in started, Take(i) PROVE LifeInv'
  <1>0. /\ que[workers[i].p_que] > 0
        /\ que' = [que EXCEPT ![workers[i].p_que] = @ - 1]
        /\ UNCHANGED <<conf, workers, ques, started, access, to_start, cleaned, sets, lpc>>
    BY DEF Take, setvars
  <1>1. lpc \in {"run", "sleep", "crash"} /\ Made /\ to_start \in Nat \ {0}
        /\ i \in 1 .. (to_start - 1) /\ to_start <= Num + 1
    BY DEF LifeInv, Threads, Made
  <1>2. Num \in Nat /\ que \in [1 .. Num -> Nat] /\ Num' = Num /\ Made'
    BY <1>0, <1>1 DEF LifeInv, Shared, Num, Made
  <1>3. i \in 1 .. Num
    BY <1>1, <1>2
  <1>4. workers[i].p_que = i
    BY <1>1, <1>3 DEF LifeInv, Shared
  <1>5. que' \in [1 .. Num -> Nat] /\ que[i] \in Nat \ {0}
    BY <1>0, <1>2, <1>3, <1>4
  <1>6. access
    BY <1>2, <1>3, <1>5 DEF LifeInv, Threads
  <1>7. Shared' /\ Contexted'
    BY <1>0, <1>1, <1>2, <1>5 DEF LifeInv, Shared, Contexted
  <1>8. Threads'
    BY <1>0, <1>1, <1>2, <1>6 DEF LifeInv, Threads
  <1>9. Cleaned'
    BY <1>0 DEF LifeInv, Cleaned
  <1>10. QED
    BY <1>7, <1>8, <1>9 DEF LifeInv

\* serv_destroy.
LEMMA DestroyInv == ASSUME LifeInv, serv_destroy PROVE LifeInv'
  <1>0. /\ lpc = "set" /\ lpc' = "end" /\ que' = <<>>
        /\ cleaned' = [i \in {j \in DOMAIN workers : /\ workers[j].p_ctx # Null
                                                     /\ workers[j].p_ctx_clean_f # Null} |->
                         <<workers[i].p_ctx, workers[i].p_ctx_clean_f>>]
        /\ UNCHANGED <<conf, sets, started, access, to_start>>
    BY DEF serv_destroy
  <1>1. Made /\ ~Made' /\ ~access /\ to_start = 1
    BY <1>0 DEF Made, LifeInv, Threads
  <1>2. DOMAIN workers = 1 .. Num
    BY <1>1 DEF LifeInv, Shared
  <1>3. Shared' /\ Contexted'
    BY <1>0, <1>1 DEF LifeInv, Shared, Contexted
  <1>4. Threads'
    BY <1>0, <1>1 DEF LifeInv, Threads
  <1>5. Cleaned'
    BY <1>0, <1>1, <1>2 DEF LifeInv, Contexted, Cleaned
  <1>6. QED
    BY <1>3, <1>4, <1>5 DEF LifeInv

LEMMA LifeInitInv == ASSUME LifeInit PROVE LifeInv
  <1>1. ~Made
    BY DEF LifeInit, Made
  <1>2. Threads
    BY <1>1 DEF LifeInit, Threads
  <1>3. QED
    BY <1>1, <1>2 DEF LifeInit, LifeInv, Shared, Contexted, Cleaned

\* The inductive invariant holds throughout.
THEOREM LifeInvariant == LifeSpec => []LifeInv
  <1>1. LifeInit => LifeInv
    BY LifeInitInv
  <1>2. ASSUME LifeInv, [LifeNext]_lifevars PROVE LifeInv'
    <2>1. CASE MainLoads \/ serv_create \/ serv_set_work_cb \/ serv_destroy
      BY <1>2, <2>1, LoadsInv, CreateInv, SetInv, DestroyInv
    <2>2. CASE epoller_init \/ MainRuns
      <3>1. /\ UNCHANGED <<conf, workers, ques, que, started, access, to_start, cleaned, sets>>
            /\ lpc \in {"accessor", "set"} /\ lpc' \in {"set", "run", "end", lpc}
        BY <2>2 DEF epoller_init, MainRuns, setvars
      <3>2. QED
        BY <1>2, <3>1, MovesOn
    <2>3. CASE StartWorker \/ StartAccess
      BY <1>2, <2>3, StartWorkerInv, StartAccessInv
    <2>4. ASSUME NEW key \in Addresses, Deliver(key) PROVE LifeInv'
      BY <1>2, <2>4, DeliverInv
    <2>5. ASSUME NEW i \in started, Take(i) PROVE LifeInv'
      BY <1>2, <2>5, TakeInv
    <2>6. CASE UNCHANGED lifevars
      <3>1. UNCHANGED <<conf, workers, ques, que, started, access, to_start, cleaned, sets, lpc>>
        BY <2>6 DEF lifevars, setvars
      <3>2. (Made' <=> Made) /\ Num' = Num
        BY <3>1 DEF Made, Num
      <3>3. QED
        BY <1>2, <3>1, <3>2 DEF LifeInv, Shared, Threads, Contexted, Cleaned
    <2>7. QED
      BY <1>2, <2>1, <2>2, <2>3, <2>4, <2>5, <2>6 DEF LifeNext
  <1>3. QED
    BY <1>1, <1>2, PTL DEF LifeSpec

\* An event never waits in a queue without a worker, and no address selects a
\* queue that is not there.
THEOREM EventsHaveWorkers == LifeSpec => []EventHasWorker
  <1>1. LifeInv => EventHasWorker
    <2> SUFFICES ASSUME LifeInv PROVE EventHasWorker
      OBVIOUS
    <2>1. ASSUME NEW q \in DOMAIN que, que[q] > 0
          PROVE  \E i \in started : workers[i].p_que = q
      <3>1. access
        BY <2>1 DEF LifeInv, Threads
      <3>2. Made /\ started = 1 .. (to_start - 1) /\ to_start = Num + 1 /\ to_start \in Nat
        BY <3>1 DEF LifeInv, Threads, Made
      <3>3. Num \in Nat /\ q \in 1 .. Num /\ workers[q].p_que = q
        BY <2>1, <3>2 DEF LifeInv, Shared
      <3>4. q \in started
        BY <3>2, <3>3
      <3>5. QED
        BY <3>3, <3>4
    <2>2. lpc = "crash" => conf.worker_num = 0
      BY DEF LifeInv, Threads, Num
    <2>3. QED
      BY <2>1, <2>2 DEF EventHasWorker
  <1>2. QED
    BY <1>1, LifeInvariant, PTL

\* serv_destroy cleans no context twice, and each with its own function.
THEOREM ContextsCleaned == LifeSpec => []CleanedByItsOwn
  <1>1. LifeInv => CleanedByItsOwn
    <2> SUFFICES ASSUME LifeInv, NEW j \in DOMAIN cleaned, NEW k \in DOMAIN cleaned
                 PROVE  /\ cleaned[j][1] = cleaned[k][1] => j = k
                        /\ cleaned[j][2] = sets[cleaned[j][1][1]].clean
      BY DEF CleanedByItsOwn
    <2>1. PICK c \in 1 .. Len(sets) : cleaned[j] = <<<<c, j>>, sets[c].clean>>
      BY DEF LifeInv, Cleaned
    <2>2. PICK d \in 1 .. Len(sets) : cleaned[k] = <<<<d, k>>, sets[d].clean>>
      BY DEF LifeInv, Cleaned
    <2>3. QED
      BY <2>1, <2>2
  <1>2. QED
    BY <1>1, LifeInvariant, PTL
=============================================================================
