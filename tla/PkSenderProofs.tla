--------------------------- MODULE PkSenderProofs ---------------------------
(***************************************************************************)
(* Proofs about PkSender and NetForge: the IP header of every packet that  *)
(* is sent verifies, for all files, addresses, sizes of the arrays and     *)
(* lengths of the requests.                                                *)
(***************************************************************************)
EXTENDS PkSender, WellFoundedInduction, TLAPS

-----------------------------------------------------------------------------
(* The Internet checksum.                                                  *)

LEMMA Words == \A x : x \in Word <=> x \in Nat /\ x < U16
  <1>1. U16 \in Nat
    BY DEF U16
  <1>2. QED
    BY <1>1 DEF Word

\* The carries of every sum of 32 bits are all added back: with the complement
\* it is a multiple of 65535.
LEMMA CarriesFolded ==
    ASSUME NEW q \in Word, NEW r \in Word, NEW sum, sum = U16 * q + r
    PROVE  /\ Complement(FoldCarries(sum)) \in Word
           /\ (sum + Complement(FoldCarries(sum))) % (U16 - 1) = 0
  <1> DEFINE once == q + r
             fold == once + (once \div U16)
  <1>1. /\ q \in Nat /\ r \in Nat /\ q < 65536 /\ r < 65536
        /\ sum \in Nat /\ sum = 65536 * q + r
    BY Words DEF U16
  <1>2. sum \div 65536 = q /\ sum % 65536 = r
    BY <1>1
  <1>3. FoldCarries(sum) = fold
    BY <1>2 DEF FoldCarries, U16
  <1>4. CASE once < 65536
    <2>1. once \div 65536 = 0 /\ once % 65536 = once
      BY <1>1, <1>4
    <2>2. fold = once
      BY <1>1, <2>1 DEF U16
    <2>3. Complement(fold) = 65535 - once
      BY <2>1, <2>2 DEF Complement, U16
    <2>4. sum + (65535 - once) = 65535 * (q + 1)
      BY <1>1
    <2>5. (65535 * (q + 1)) % 65535 = 0
      BY <1>1
    <2>6. (65535 - once) \in Nat /\ (65535 - once) < 65536
      BY <1>1, <1>4
    <2>7. QED
      BY <1>3, <2>3, <2>4, <2>5, <2>6, Words DEF U16
  <1>5. CASE once >= 65536
    <2>1. once \div 65536 = 1 /\ (once + 1) % 65536 = once + 1 - 65536
      BY <1>1, <1>5
    <2>2. fold = once + 1
      BY <1>1, <2>1 DEF U16
    <2>3. Complement(fold) = 65535 - (once + 1 - 65536)
      BY <2>1, <2>2 DEF Complement, U16
    <2>4. sum + (65535 - (once + 1 - 65536)) = 65535 * (q + 2)
      BY <1>1
    <2>5. (65535 * (q + 2)) % 65535 = 0
      BY <1>1
    <2>6. /\ 65535 - (once + 1 - 65536) \in Nat
          /\ 65535 - (once + 1 - 65536) < 65536
      BY <1>1, <1>5
    <2>7. QED
      BY <1>3, <2>3, <2>4, <2>5, <2>6, Words DEF U16
  <1>6. QED
    BY <1>1, <1>4, <1>5

\* What the loop over the ten words of a header adds up.
LEMMA SumOfTen ==
    ASSUME NEW w, \A n \in 1 .. 10 : w[n] \in Int, Len(w) = 10
    PROVE  WordSum(w) = w[1] + w[2] + w[3] + w[4] + w[5]
                          + w[6] + w[7] + w[8] + w[9] + w[10]
  <1> DEFINE F(f) == [n \in 0 .. 10 |-> IF n = 0 THEN 0 ELSE f[n - 1] + w[n]]
             s == CHOOSE f : f = F(f)
             g == [n \in 0 .. 10 |->
                     IF n = 0 THEN 0
                     ELSE IF n = 1 THEN 0 + w[1]
                     ELSE IF n = 2 THEN 0 + w[1] + w[2]
                     ELSE IF n = 3 THEN 0 + w[1] + w[2] + w[3]
                     ELSE IF n = 4 THEN 0 + w[1] + w[2] + w[3] + w[4]
                     ELSE IF n = 5 THEN 0 + w[1] + w[2] + w[3] + w[4] + w[5]
                     ELSE IF n = 6 THEN 0 + w[1] + w[2] + w[3] + w[4] + w[5] + w[6]
                     ELSE IF n = 7 THEN 0 + w[1] + w[2] + w[3] + w[4] + w[5] + w[6]
                                          + w[7]
                     ELSE IF n = 8 THEN 0 + w[1] + w[2] + w[3] + w[4] + w[5] + w[6]
                                          + w[7] + w[8]
                     ELSE IF n = 9 THEN 0 + w[1] + w[2] + w[3] + w[4] + w[5] + w[6]
                                          + w[7] + w[8] + w[9]
                     ELSE 0 + w[1] + w[2] + w[3] + w[4] + w[5] + w[6]
                            + w[7] + w[8] + w[9] + w[10]]
  <1>1. WordSum(w) = s[10]
    BY DEF WordSum
  <1>2. \A n \in 0 .. 10 : g[n] = IF n = 0 THEN 0 ELSE g[n - 1] + w[n]
    <2>1. /\ g[0] = 0 /\ g[1] = g[0] + w[1] /\ g[2] = g[1] + w[2]
          /\ g[3] = g[2] + w[3] /\ g[4] = g[3] + w[4] /\ g[5] = g[4] + w[5]
          /\ g[6] = g[5] + w[6] /\ g[7] = g[6] + w[7] /\ g[8] = g[7] + w[8]
          /\ g[9] = g[8] + w[9] /\ g[10] = g[9] + w[10]
      OBVIOUS
    <2> HIDE DEF g
    <2>2. \A n \in 0 .. 10 : \/ n = 0 \/ n = 1 \/ n = 2 \/ n = 3 \/ n = 4 \/ n = 5
                             \/ n = 6 \/ n = 7 \/ n = 8 \/ n = 9 \/ n = 10
      OBVIOUS
    <2>3. QED
      BY <2>1, <2>2
  <1>3. \E f : f = F(f)
    <2>1. g = [n \in 0 .. 10 |-> g[n]]
      OBVIOUS
    <2> HIDE DEF g
    <2>2. g = F(g)
      BY <1>2, <2>1
    <2>3. QED
      BY <2>2
  <1>4. s = F(s)
    <2> HIDE DEF F
    <2>1. QED
      BY <1>3
  <1> HIDE DEF s
  <1>5. \A n \in 0 .. 10 : s[n] = IF n = 0 THEN 0 ELSE s[n - 1] + w[n]
    BY <1>4
  <1>6. /\ s[0] = 0 /\ s[1] = s[0] + w[1] /\ s[2] = s[1] + w[2]
        /\ s[3] = s[2] + w[3] /\ s[4] = s[3] + w[4] /\ s[5] = s[4] + w[5]
        /\ s[6] = s[5] + w[6] /\ s[7] = s[6] + w[7] /\ s[8] = s[7] + w[8]
        /\ s[9] = s[8] + w[9] /\ s[10] = s[9] + w[10]
    BY <1>5
  <1>7. QED
    BY <1>1, <1>6

\* The IP header that create_ip_hdr makes passes a receiver's check, for every
\* pair of addresses, every length and every process id: two additions of the
\* carries are enough for the ten words of a header.
THEOREM HeadersVerify ==
    ASSUME NEW a \in Word, NEW b \in Word, NEW c \in Word, NEW d \in Word,
           NEW tot_len \in Int, NEW id \in Int
    PROVE  Verifies(create_ip_hdr(<<a, b>>, <<c, d>>, tot_len, id))
  <1> DEFINE t == tot_len % U16
             p == id % U16
             words(check) == <<17664, t, p, 0, 255 * 256 + IPPROTO_TCP, check,
                               a, b, c, d>>
             sum == 17664 + t + p + 0 + 65286 + a + b + c + d
  <1>1. t \in Word /\ p \in Word
    BY Words DEF U16
  <1>2. create_ip_hdr(<<a, b>>, <<c, d>>, tot_len, id) = words(chk_sum(words(0)))
    BY DEF create_ip_hdr
  <1> HIDE DEF t, p
  <1>3. \A check \in Word : WordSum(words(check)) = sum + check
    <2> SUFFICES ASSUME NEW check \in Word PROVE WordSum(words(check)) = sum + check
      OBVIOUS
    <2>1. /\ words(check)[1] = 17664 /\ words(check)[2] = t
          /\ words(check)[3] = p /\ words(check)[4] = 0
          /\ words(check)[5] = 65286 /\ words(check)[6] = check
          /\ words(check)[7] = a /\ words(check)[8] = b
          /\ words(check)[9] = c /\ words(check)[10] = d
          /\ Len(words(check)) = 10
      BY DEF IPPROTO_TCP
    <2> HIDE DEF words
    <2>2. /\ t \in Int /\ p \in Int /\ check \in Int
          /\ a \in Int /\ b \in Int /\ c \in Int /\ d \in Int
      BY <1>1, Words
    <2>3. \A n \in 1 .. 10 : words(check)[n] \in Int
      <3>1. \A n \in 1 .. 10 : \/ n = 1 \/ n = 2 \/ n = 3 \/ n = 4 \/ n = 5
                               \/ n = 6 \/ n = 7 \/ n = 8 \/ n = 9 \/ n = 10
        OBVIOUS
      <3>2. QED
        BY <2>1, <2>2, <3>1
    <2>4. WordSum(words(check)) = 17664 + t + p + 0 + 65286 + check + a + b + c + d
      BY <2>1, <2>3, SumOfTen
    <2>5. QED
      BY <2>2, <2>4
  <1>4. PICK q \in Word, r \in Word : sum = U16 * q + r
    <2>1. sum \in Nat /\ sum < 65536 * 10
      BY <1>1, Words DEF U16
    <2> HIDE DEF sum
    <2>2. /\ sum \div 65536 \in Nat /\ sum \div 65536 < 65536
          /\ sum % 65536 \in Nat /\ sum % 65536 < 65536
          /\ sum = 65536 * (sum \div 65536) + (sum % 65536)
      BY <2>1
    <2>3. sum \div U16 \in Word /\ sum % U16 \in Word
      BY <2>2, Words DEF U16
    <2>4. sum = U16 * (sum \div U16) + (sum % U16)
      BY <2>2 DEF U16
    <2>5. QED
      BY <2>3, <2>4, Zenon
  <1>5. sum \in Int /\ 0 \in Word
    BY <1>1, Words DEF U16
  <1> HIDE DEF words, sum
  <1>6. chk_sum(words(0)) = Complement(FoldCarries(sum))
    <2>1. WordSum(words(0)) = sum
      BY <1>3, <1>5
    <2>2. QED
      BY <2>1 DEF chk_sum
  <1>7. WordSum(words(chk_sum(words(0)))) = sum + Complement(FoldCarries(sum))
    BY <1>3, <1>4, <1>6, CarriesFolded
  <1>8. QED
    BY <1>2, <1>4, <1>7, CarriesFolded DEF Verifies


-----------------------------------------------------------------------------
(* Sequences whatever they hold: the texts of a file are not restricted.   *)

IsSeq(s) == \E S : s \in Seq(S)

LEMMA SeqRules ==
    ASSUME NEW s, IsSeq(s)
    PROVE  /\ Len(s) \in Nat /\ DOMAIN s = 1 .. Len(s)
           /\ s = [j \in 1 .. Len(s) |-> s[j]]
  <1>1. PICK S : s \in Seq(S)
    BY DEF IsSeq
  <1>2. QED
    BY <1>1

LEMMA MadeSeq ==
    ASSUME NEW n \in Nat, NEW f, f = [j \in 1 .. n |-> f[j]]
    PROVE  IsSeq(f)
  <1> DEFINE S == {f[j] : j \in 1 .. n}
  <1>1. f \in [1 .. n -> S]
    OBVIOUS
  <1>2. f \in Seq(S)
    BY <1>1
  <1>3. QED
    BY <1>2 DEF IsSeq

LEMMA JoinedSeq ==
    ASSUME NEW s, NEW t, IsSeq(s), IsSeq(t)
    PROVE  IsSeq(s \o t)
  <1>1. PICK S : s \in Seq(S)
    BY DEF IsSeq
  <1>2. PICK T : t \in Seq(T)
    BY DEF IsSeq
  <1>3. s \in Seq(S \cup T) /\ t \in Seq(S \cup T)
    BY <1>1, <1>2
  <1>4. s \o t \in Seq(S \cup T)
    BY <1>3
  <1>5. QED
    BY <1>4 DEF IsSeq

LEMMA AppendedSeq ==
    ASSUME NEW s, NEW x, IsSeq(s)
    PROVE  /\ IsSeq(Append(s, x))
           /\ DOMAIN Append(s, x) = 1 .. (Len(s) + 1)
           /\ Append(s, x)[Len(s) + 1] = x
           /\ \A n \in DOMAIN s : Append(s, x)[n] = s[n]
  <1>1. PICK S : s \in Seq(S)
    BY DEF IsSeq
  <1>2. s \in Seq(S \cup {x}) /\ x \in S \cup {x}
    BY <1>1
  <1>3. /\ Append(s, x) \in Seq(S \cup {x}) /\ Len(Append(s, x)) = Len(s) + 1
        /\ Append(s, x)[Len(s) + 1] = x
        /\ \A n \in 1 .. Len(s) : Append(s, x)[n] = s[n]
    BY <1>2
  <1>4. QED
    BY <1>1, <1>3 DEF IsSeq

LEMMA CutSeq ==
    ASSUME NEW s, IsSeq(s), NEW a \in Nat \ {0}, NEW b \in Nat,
           a <= b + 1, b <= Len(s)
    PROVE  IsSeq(SubSeq(s, a, b))
  <1>1. PICK S : s \in Seq(S)
    BY DEF IsSeq
  <1>2. SubSeq(s, a, b) \in Seq(S)
    BY <1>1
  <1>3. QED
    BY <1>2 DEF IsSeq


\* A set of numbers that is not empty has its minimum.
LEMMA MinIsMember ==
    ASSUME NEW T, T \subseteq Nat, T # {}
    PROVE  Min(T) \in T
  <1> DEFINE R == OpToRel(<, Nat)
  <1>1. IsWellFoundedOn(R, Nat)
    BY NatLessThanWellFounded
  <1>2. \A x, y \in Nat : x < y => <<x, y>> \in R
    BY DEF OpToRel
  <1> HIDE DEF R
  <1>3. PICK x \in T : \A y \in T : ~(<<y, x>> \in R)
    BY <1>1, WFMin
  <1>4. \A y \in T : x =< y
    <2> SUFFICES ASSUME NEW y \in T PROVE x =< y
      OBVIOUS
    <2>1. x \in Nat /\ y \in Nat /\ ~(y < x)
      BY <1>2, <1>3
    <2>2. QED
      BY <2>1
  <1>5. QED
    BY <1>4 DEF Min

-----------------------------------------------------------------------------
(* The strings of a web host and the headers that are made of them.        *)

\* The memory of the four strings, whatever is in it.
Memory(mem) == mem = [j \in 1 .. StringsSize |-> mem[j]]

LEMMA Arrays ==
    /\ StringsSize \in Nat
    /\ \A n \in 1 .. 4 : Offset(n) \in Nat /\ Offset(n) <= StringsSize
  <1>1. /\ HOST_STR_SIZE \in Nat /\ PATH_STR_SIZE \in Nat
        /\ UA_STR_SIZE \in Nat /\ COOKIE_STR_SIZE \in Nat
    <2>1. \A n \in 1 .. 4 : Sizes[n] \in Nat
      BY SenderAssumption
    <2>2. Sizes[1] \in Nat /\ Sizes[2] \in Nat /\ Sizes[3] \in Nat /\ Sizes[4] \in Nat
      BY <2>1
    <2>3. QED
      BY <2>2 DEF Sizes
  <1>2. /\ Offset(1) = 0 /\ Offset(2) = HOST_STR_SIZE
        /\ Offset(3) = HOST_STR_SIZE + PATH_STR_SIZE
        /\ Offset(4) = HOST_STR_SIZE + PATH_STR_SIZE + UA_STR_SIZE
    BY DEF Offset
  <1>3. \A n \in 1 .. 4 : n = 1 \/ n = 2 \/ n = 3 \/ n = 4
    OBVIOUS
  <1>4. QED
    BY <1>1, <1>2, <1>3 DEF StringsSize

LEMMA StringCut ==
    ASSUME NEW mem, IsSeq(mem), StringsSize <= Len(mem), NEW n \in 1 .. 4
    PROVE  IsSeq(CString(mem, n))
  <1> DEFINE ends == {j \in (Offset(n) + 1) .. Len(mem) : mem[j] = NUL}
             end == IF ends = {} THEN Len(mem) + 1 ELSE Min(ends)
  <1>1. /\ StringsSize \in Nat /\ Offset(n) \in Nat /\ Offset(n) <= StringsSize
    BY Arrays
  <1>2. Len(mem) \in Nat
    BY SeqRules
  <1>3. end \in Nat /\ Offset(n) + 1 <= end /\ end <= Len(mem) + 1
    <2>1. CASE ends = {}
      BY <1>1, <1>2, <2>1
    <2>2. CASE ends # {}
      <3>1. ends \subseteq Nat
        BY <1>1
      <3>2. Min(ends) \in ends
        BY <2>2, <3>1, MinIsMember
      <3>3. QED
        BY <1>1, <1>2, <2>2, <3>2
    <2>3. QED
      BY <2>1, <2>2
  <1>4. CString(mem, n) = SubSeq(mem, Offset(n) + 1, end - 1)
    BY DEF CString
  <1> HIDE DEF end
  <1>5. /\ Offset(n) + 1 \in Nat \ {0} /\ end - 1 \in Nat
        /\ Offset(n) + 1 <= (end - 1) + 1 /\ end - 1 <= Len(mem)
    BY <1>1, <1>2, <1>3
  <1>6. QED
    BY <1>2, <1>4, <1>5, CutSeq

\* What the sender gives to its object are texts with a length, from header
\* ids to the end of the request.
\* The memory from which the request of a host is made.
LEMMA HostMemory ==
    ASSUME NEW n, Memory(webhosts[n].strings)
    PROVE  /\ IsSeq(webhosts[n].strings \o Behind(n))
           /\ StringsSize <= Len(webhosts[n].strings \o Behind(n))
  <1>1. StringsSize \in Nat
    BY Arrays
  <1>2. IsSeq(webhosts[n].strings) /\ Len(webhosts[n].strings) = StringsSize
    <2>1. IsSeq(webhosts[n].strings)
      BY <1>1, MadeSeq DEF Memory
    <2>2. DOMAIN webhosts[n].strings = 1 .. StringsSize
      BY DEF Memory
    <2>3. QED
      BY <1>1, <2>1, <2>2, SeqRules
  <1>3. IsSeq(Behind(n))
    <2>1. CASE Behind(n) = <<>>
      <3>1. <<>> \in Seq({})
        OBVIOUS
      <3>2. QED
        BY <2>1, <3>1 DEF IsSeq
    <2>2. CASE Behind(n) = <<NUL>>
      <3>1. <<NUL>> \in Seq({NUL})
        OBVIOUS
      <3>2. QED
        BY <2>2, <3>1 DEF IsSeq
    <2>3. CASE \E f : Behind(n) = [b \in 1 .. 5 |-> f[b]]
      <3>1. Behind(n) = [b \in 1 .. 5 |-> Behind(n)[b]]
        BY <2>3
      <3>2. QED
        BY <3>1, MadeSeq
    <2>4. QED
      <3> DEFINE f == [b \in 1 .. 5 |->
                    IF b = 5 THEN JUNK
                    ELSE IF (webhosts[n + 1].type \div 256 ^ (b - 1)) % 256 = 0
                    THEN NUL ELSE BYTE]
      <3>1. Behind(n) = <<>> \/ Behind(n) = <<NUL>> \/ Behind(n) = f
        BY DEF Behind
      <3>2. f = [b \in 1 .. 5 |-> f[b]]
        OBVIOUS
      <3> HIDE DEF f
      <3>3. QED
        BY <2>1, <2>2, <2>3, <3>1, <3>2
  <1>4. PICK S : webhosts[n].strings \in Seq(S)
    BY <1>2 DEF IsSeq
  <1>5. PICK T : Behind(n) \in Seq(T)
    BY <1>3 DEF IsSeq
  <1>6. /\ webhosts[n].strings \in Seq(S \cup T) /\ Behind(n) \in Seq(S \cup T)
        /\ Len(Behind(n)) \in Nat
    BY <1>4, <1>5
  <1>7. Len(webhosts[n].strings \o Behind(n)) = StringsSize + Len(Behind(n))
    BY <1>2, <1>6
  <1>8. QED
    BY <1>1, <1>2, <1>3, <1>6, <1>7, JoinedSeq

LEMMA HeaderTexts ==
    ASSUME NEW mem, IsSeq(mem), StringsSize <= Len(mem)
    PROVE  /\ Len(Headers(mem)) = 5
           /\ \A n \in 1 .. 5 : IsSeq(Headers(mem)[n].text)
  <1>1. /\ IsSeq(<<"GET", " ">>) /\ IsSeq(<<" ", "HTTP/1.1">>) /\ IsSeq(<<>>)
    <2>1. <<"GET", " ">> \in Seq({"GET", " "})
      OBVIOUS
    <2>2. <<" ", "HTTP/1.1">> \in Seq({" ", "HTTP/1.1"})
      OBVIOUS
    <2>3. <<>> \in Seq({})
      OBVIOUS
    <2>4. QED
      BY <2>1, <2>2, <2>3 DEF IsSeq
  <1>2. /\ IsSeq(CString(mem, 1)) /\ IsSeq(CString(mem, 2))
        /\ IsSeq(CString(mem, 3)) /\ IsSeq(CString(mem, 4))
    BY StringCut
  <1>3. IsSeq(<<"GET", " ">> \o CString(mem, 2) \o <<" ", "HTTP/1.1">>)
    BY <1>1, <1>2, JoinedSeq
  <1> DEFINE r == <<"GET", " ">> \o CString(mem, 2) \o <<" ", "HTTP/1.1">>
             s1 == CString(mem, 1)
             s3 == CString(mem, 3)
             s4 == CString(mem, 4)
             hs == <<[id |-> HTTP_HDR_REQ_LINE, text |-> r],
                     [id |-> HTTP_HDR_HOST, text |-> s1],
                     [id |-> HTTP_HDR_COOKIE, text |-> s4],
                     [id |-> HTTP_HDR_UA, text |-> s3],
                     [id |-> HTTP_HDR_END, text |-> <<>>]>>
  <1>4. Headers(mem) = hs
    BY DEF Headers
  <1>5. IsSeq(r) /\ IsSeq(s1) /\ IsSeq(s3) /\ IsSeq(s4) /\ IsSeq(<<>>)
    BY <1>1, <1>2, <1>3
  <1> HIDE DEF r, s1, s3, s4
  <1>6. /\ Len(hs) = 5
        /\ hs[1].text = r /\ hs[2].text = s1 /\ hs[3].text = s4
        /\ hs[4].text = s3 /\ hs[5].text = <<>>
    OBVIOUS
  <1> HIDE DEF hs
  <1>7. \A n \in 1 .. 5 : n = 1 \/ n = 2 \/ n = 3 \/ n = 4 \/ n = 5
    OBVIOUS
  <1>8. QED
    BY <1>4, <1>5, <1>6, <1>7, Zenon


LEMMA LineLength ==
    ASSUME NEW id, NEW text, IsSeq(text)
    PROVE  Len(http_header_info(id) \o text \o CR_STR) \in Nat
  <1>1. IsSeq(CR_STR)
    <2>1. CR_STR \in Seq({CR_STR[n] : n \in 1 .. 2})
      BY DEF CR_STR
    <2>2. QED
      BY <2>1 DEF IsSeq
  <1>2. IsSeq(http_header_info(id))
    <2>1. <<"Host", ":", " ">> \in Seq({"Host", ":", " "})
      OBVIOUS
    <2>2. <<"Referer", ":">> \in Seq({"Referer", ":"})
      OBVIOUS
    <2>3. <<"User-Agent", ":", " ">> \in Seq({"User-Agent", ":", " "})
      OBVIOUS
    <2>4. <<"Cookie", ":", " ">> \in Seq({"Cookie", ":", " "})
      OBVIOUS
    <2>5. <<>> \in Seq({})
      OBVIOUS
    <2>6. /\ IsSeq(<<"Host", ":", " ">>) /\ IsSeq(<<"Referer", ":">>)
          /\ IsSeq(<<"User-Agent", ":", " ">>) /\ IsSeq(<<"Cookie", ":", " ">>)
          /\ IsSeq(<<>>)
      BY <2>1, <2>2, <2>3, <2>4, <2>5 DEF IsSeq
    <2>7. QED
      BY <2>6 DEF http_header_info
  <1>3. IsSeq(http_header_info(id) \o text \o CR_STR)
    BY <1>1, <1>2, JoinedSeq
  <1>4. QED
    BY <1>3, SeqRules

\* The length of the message is a number, through every call of the sender.
LEMMA MessageLength ==
    ASSUME data_len \in Nat
    PROVE  /\ http_object_create(FALSE, 0) => data_len' \in Nat
           /\ http_object_reset => data_len' \in Nat
           /\ http_object_destroy => data_len' \in Nat
           /\ \A id, text : IsSeq(text) /\ http_object_add_header(id, text)
                                => data_len' \in Nat
  <1>1. ASSUME NEW id, NEW text, IsSeq(text), http_object_add_header(id, text)
        PROVE  data_len' \in Nat
    <2>1. CASE UNCHANGED hovars
      BY <2>1 DEF hovars
    <2>2. CASE data_len' = data_len + Len(http_header_info(id) \o text \o CR_STR)
      <3>1. Len(http_header_info(id) \o text \o CR_STR) \in Nat
        BY <1>1, LineLength
      <3>2. PICK m \in Nat : m = Len(http_header_info(id) \o text \o CR_STR)
        BY <3>1
      <3>3. data_len' = data_len + m
        BY <2>2, <3>2
      <3>4. QED
        BY <3>3
    <2>3. QED
      BY <1>1, <2>1, <2>2 DEF http_object_add_header
  <1>2. QED
    BY <1>1 DEF http_object_create, http_object_reset, http_object_destroy, Empty

-----------------------------------------------------------------------------
(* The sender.                                                             *)

\* What the lines that are read leave: the table has an entry for each line
\* that is announced, and each keeps the memory of its strings.
Hosts ==
    /\ line_num \in Int /\ i \in Nat \ {0}
    /\ webhosts # <<>> => DOMAIN webhosts = 1 .. line_num
    /\ \A n \in DOMAIN webhosts : Memory(webhosts[n].strings)

\* A packet is only made for an entry of the table, with two addresses.
Current ==
    pc \in {"stamp", "add", "send"} =>
        /\ i \in DOMAIN webhosts
        /\ IsAddress(webhosts[i].src_ip) /\ IsAddress(webhosts[i].dst_ip)

Lengths == data_len \in Nat /\ load \in Int /\ k \in Nat \ {0}

Packets == IsSeq(sent) /\ IpHeaderVerifies

SenderInv == Hosts /\ Current /\ Lengths /\ Packets

LEMMA AtoiInt == \A text : atoi(text) \in Int
  BY SenderAssumption DEF atoi

\* The header of a packet is one that create_ip_hdr made for two addresses.
LEMMA PacketVerifies ==
    ASSUME NEW h, IsAddress(h.src_ip), IsAddress(h.dst_ip), load \in Int
    PROVE  Verifies(Packet(h).ip)
  <1>1. h.src_ip[1] \in DOMAIN Address /\ h.dst_ip[1] \in DOMAIN Address
    BY DEF IsAddress
  <1>2. /\ Address[h.src_ip[1]] \in Word \X Word
        /\ Address[h.dst_ip[1]] \in Word \X Word
    BY <1>1, SenderAssumption
  <1>3. PICK a \in Word, b \in Word : Address[h.src_ip[1]] = <<a, b>>
    BY <1>2
  <1>4. PICK c \in Word, d \in Word : Address[h.dst_ip[1]] = <<c, d>>
    BY <1>2
  <1> DEFINE size == IF h.type \in {0, 1} THEN load ELSE 0
  <1>5. LOAD_OFF + size \in Int /\ Pid \in Int
    BY SenderAssumption
  <1>6. Packet(h).ip = create_ip_hdr(<<a, b>>, <<c, d>>, LOAD_OFF + size, Pid)
    BY <1>3, <1>4 DEF Packet
  <1>7. QED
    BY <1>5, <1>6, HeadersVerify

LEMMA SenderStart == Init => SenderInv
  <1> SUFFICES ASSUME Init PROVE SenderInv
    OBVIOUS
  <1>1. Hosts
    BY DEF Init, Hosts
  <1>2. Current
    BY DEF Init, Current
  <1>3. Lengths
    BY DEF Init, HttpInit, Lengths, UNSET
  <1>4. Packets
    <2>1. sent = <<>>
      BY DEF Init
    <2>2. <<>> \in Seq({}) /\ DOMAIN <<>> = {}
      OBVIOUS
    <2>3. QED
      BY <2>1, <2>2 DEF Packets, IsSeq, IpHeaderVerifies
  <1>5. QED
    BY <1>1, <1>2, <1>3, <1>4 DEF SenderInv


\* The strings of a web host are written inside of their memory, whatever the
\* items hold.
LEMMA StringsStored ==
    ASSUME NEW f, NEW mem, Memory(mem)
    PROVE  Memory(StoreStrings(f, mem))
  <1> DEFINE Copy(m, n) == IF HasItem(f, n + 4)
                           THEN data_field_copy_str(m, n, data_field_get_str(f, n + 4))
                           ELSE m
  <1>1. ASSUME NEW m, NEW n, Memory(m) PROVE Memory(Copy(m, n))
    <2>1. ASSUME NEW at, NEW t PROVE Memory(Put(m, at, t))
      <3>1. DOMAIN m = 1 .. StringsSize
        BY <1>1 DEF Memory
      <3>2. QED
        BY <3>1 DEF Memory, Put
    <2>2. QED
      BY <1>1, <2>1 DEF data_field_copy_str
  <1>2. StoreStrings(f, mem) = Copy(Copy(Copy(Copy(mem, 1), 2), 3), 4)
    BY DEF StoreStrings
  <1> HIDE DEF Copy
  <1>3. Memory(Copy(Copy(mem, 1), 2))
    BY <1>1
  <1>4. QED
    BY <1>1, <1>2, <1>3

LEMMA NewHost == Memory(NoHost.strings)
  <1>1. NoHost.strings = [j \in 1 .. StringsSize |-> JUNK]
    BY DEF NoHost, Filled
  <1>2. QED
    BY <1>1 DEF Memory

\* The line's items go into an entry of the table, or the program is in what C
\* does not define.
LEMMA LineStored ==
    ASSUME SenderInv, StoreLine
    PROVE  Hosts'
  <1>1. CASE webhosts = <<>> \/ (i = line_num /\ CookieFills(df))
    <2>1. UNCHANGED <<line_num, webhosts, i>>
      BY <1>1 DEF StoreLine
    <2>2. QED
      BY <2>1 DEF SenderInv, Hosts, Memory
  <1>2. CASE ~(webhosts = <<>> \/ (i = line_num /\ CookieFills(df)))
    <2> DEFINE new == [type |-> data_field_get_i32(df, 0),
                       src_ip |-> IpText(df, 1),
                       src_port |-> data_field_get_i32(df, 2) % U16,
                       dst_ip |-> IpText(df, 3),
                       dst_port |-> data_field_get_i32(df, 4) % U16,
                       strings |-> IF data_field_get_i32(df, 0) = 1
                                   THEN StoreStrings(df, webhosts[i].strings)
                                   ELSE webhosts[i].strings]
    <2>1. /\ webhosts' = [webhosts EXCEPT ![i] = new]
          /\ i' = i + 1 /\ line_num' = line_num
      BY <1>2 DEF StoreLine
    <2>2. i \in DOMAIN webhosts => Memory(new.strings)
      BY StringsStored DEF SenderInv, Hosts
    <2> HIDE DEF new
    <2>3. DOMAIN webhosts' = DOMAIN webhosts
      BY <2>1
    <2>4. \A n \in DOMAIN webhosts : Memory(webhosts'[n].strings)
      <3> SUFFICES ASSUME NEW n \in DOMAIN webhosts
                   PROVE  Memory(webhosts'[n].strings)
        OBVIOUS
      <3>1. webhosts'[n] = IF n = i THEN new ELSE webhosts[n]
        BY <2>1
      <3>2. Memory(webhosts[n].strings)
        BY DEF SenderInv, Hosts
      <3>3. QED
        BY <2>2, <3>1, <3>2
    <2>5. /\ line_num' \in Int /\ i' \in Nat \ {0}
          /\ DOMAIN webhosts' = 1 .. line_num'
      BY <1>2, <2>1, <2>3 DEF SenderInv, Hosts
    <2>6. QED
      BY <2>3, <2>4, <2>5 DEF Hosts, Memory
  <1>3. QED
    BY <1>1, <1>2

LEMMA SameHosts ==
    ASSUME Hosts, UNCHANGED <<line_num, webhosts>>, i' \in Nat \ {0}
    PROVE  Hosts'
  BY DEF Hosts, Memory

LEMMA SamePackets ==
    ASSUME Packets, UNCHANGED sent
    PROVE  Packets'
  BY DEF Packets, IsSeq, IpHeaderVerifies

LEMMA OtherPlace ==
    ASSUME pc' \notin {"stamp", "add", "send"}
    PROVE  Current'
  BY DEF Current

LEMMA SamePlace ==
    ASSUME Current, pc \in {"stamp", "add"}, UNCHANGED <<webhosts, i>>
    PROVE  Current'
  BY DEF Current, IsAddress


LEMMA SenderStep == ASSUME SenderInv, [Next]_vars PROVE SenderInv'
  <1> USE DEF rvars, svars
  <1>0. CASE UNCHANGED vars
    <2>1. /\ UNCHANGED <<line_num, webhosts, i>> /\ UNCHANGED sent
          /\ UNCHANGED <<data_len, load, k, pc>>
      BY <1>0 DEF vars, hovars
    <2>2. Hosts' /\ Packets'
      BY <2>1, SameHosts, SamePackets DEF SenderInv, Hosts
    <2>3. Current' /\ Lengths'
      BY <2>1 DEF SenderInv, Current, IsAddress, Lengths
    <2>4. QED
      BY <2>2, <2>3 DEF SenderInv
  \* The steps that read the file change neither the message nor what is sent.
  <1>1. ASSUME UNCHANGED svars, data_len' = data_len, Hosts',
               pc' \notin {"stamp", "add", "send"}
        PROVE  SenderInv'
    <2>1. Packets' /\ Current'
      BY <1>1, SamePackets, OtherPlace DEF SenderInv
    <2>2. Lengths'
      BY <1>1 DEF SenderInv, Lengths
    <2>3. QED
      BY <1>1, <2>1, <2>2 DEF SenderInv
  <1>2. CASE ReadHeader
    <2>1. /\ i' = i /\ UNCHANGED svars /\ data_len' = data_len
          /\ pc' \in {"failed", "line"}
      BY <1>2 DEF ReadHeader, hovars
    <2>2. Hosts'
      <3>1. CASE UNCHANGED rvars
        BY <2>1, <3>1, SameHosts DEF SenderInv, Hosts
      <3>2. CASE pc' = "line"
        <4>1. PICK num \in Int :
                /\ line_num' = num
                /\ webhosts' = IF num > 1 THEN [n \in 1 .. num |-> NoHost] ELSE <<>>
          BY <1>2, <3>2, AtoiInt DEF ReadHeader
        <4>2. CASE num > 1
          BY <2>1, <4>1, <4>2, NewHost DEF SenderInv, Hosts, Memory
        <4>3. CASE ~(num > 1)
          BY <2>1, <4>1, <4>3 DEF SenderInv, Hosts
        <4>4. QED
          BY <4>2, <4>3
      <3>3. QED
        BY <1>2, <2>1, <3>1, <3>2 DEF ReadHeader
    <2>3. QED
      BY <1>1, <2>1, <2>2
  <1>3. CASE StartLine
    <2>1. /\ UNCHANGED <<line_num, webhosts, i>> /\ UNCHANGED svars
          /\ data_len' = data_len /\ pc' \in {"create", "field"}
      BY <1>3 DEF StartLine, hovars
    <2>2. Hosts'
      BY <2>1, SameHosts DEF SenderInv, Hosts
    <2>3. QED
      BY <1>1, <2>1, <2>2
  <1>4. CASE ReadField
    <2>1. /\ UNCHANGED <<line_num, webhosts, i>> /\ UNCHANGED svars
          /\ data_len' = data_len /\ pc' \in {"ub", "field"}
      BY <1>4 DEF ReadField, hovars
    <2>2. Hosts'
      BY <2>1, SameHosts DEF SenderInv, Hosts
    <2>3. QED
      BY <1>1, <2>1, <2>2
  <1>5. CASE StoreLine
    <2>1. /\ UNCHANGED svars /\ data_len' = data_len
          /\ pc' \in {"ub", "create", "line"}
      BY <1>5 DEF StoreLine, hovars
    <2>2. QED
      BY <1>1, <1>5, <2>1, LineStored
  <1>6. CASE Create
    <2>1. /\ UNCHANGED <<line_num, webhosts>> /\ UNCHANGED svars
          /\ i' = 1 /\ pc' = "host" /\ http_object_create(FALSE, 0)
      BY <1>6 DEF Create
    <2>2. Hosts' /\ Packets' /\ Current'
      BY <2>1, SameHosts, SamePackets, OtherPlace DEF SenderInv
    <2>3. Lengths'
      BY <2>1, MessageLength DEF SenderInv, Lengths
    <2>4. QED
      BY <2>2, <2>3 DEF SenderInv
  <1>7. CASE NextHost
    <2>1. /\ UNCHANGED <<line_num, webhosts, i>> /\ UNCHANGED sent
          /\ k' = 1 /\ load' = load /\ http_object_reset /\ i <= line_num
      BY <1>7 DEF NextHost
    <2>2. Hosts' /\ Packets'
      BY <2>1, SameHosts, SamePackets DEF SenderInv, Hosts
    <2>3. Lengths'
      BY <2>1, MessageLength DEF SenderInv, Lengths
    <2>4. Current'
      <3>1. CASE pc' \notin {"stamp", "add", "send"}
        BY <3>1, OtherPlace
      <3>2. CASE pc' \in {"stamp", "add", "send"}
        <4>1. /\ webhosts # <<>>
              /\ IsAddress(webhosts[i].src_ip) /\ IsAddress(webhosts[i].dst_ip)
          BY <1>7, <3>2 DEF NextHost
        <4>2. i \in DOMAIN webhosts
          BY <2>1, <4>1 DEF SenderInv, Hosts
        <4>3. QED
          BY <2>1, <4>1, <4>2 DEF Current, IsAddress
      <3>3. QED
        BY <3>1, <3>2
    <2>5. QED
      BY <2>2, <2>3, <2>4 DEF SenderInv
  <1>8. CASE Stamp
    <2>1. /\ UNCHANGED <<line_num, webhosts, i>> /\ UNCHANGED <<sent, k>>
          /\ data_len' = data_len /\ load' = LOAD_SZ /\ pc = "stamp"
      BY <1>8 DEF Stamp, hovars
    <2>2. Hosts' /\ Packets' /\ Current'
      BY <2>1, SameHosts, SamePackets, SamePlace DEF SenderInv, Hosts
    <2>3. Lengths'
      BY <2>1, SenderAssumption DEF SenderInv, Lengths
    <2>4. QED
      BY <2>2, <2>3 DEF SenderInv
  <1>9. CASE AddHeader
    <2>1. /\ UNCHANGED <<line_num, webhosts, i>> /\ UNCHANGED <<sent, load>>
          /\ k' = k + 1 /\ pc = "add" /\ k <= Len(HostHeaders(i))
      BY <1>9 DEF AddHeader
    <2>2. Hosts' /\ Packets' /\ Current'
      BY <2>1, SameHosts, SamePackets, SamePlace DEF SenderInv, Hosts
    <2>3. data_len' \in Nat
      <3>1. /\ Len(HostHeaders(i)) = 5
            /\ \A n \in 1 .. 5 : IsSeq(HostHeaders(i)[n].text)
        <4>1. Memory(webhosts[i].strings)
          BY <2>1 DEF SenderInv, Hosts, Current
        <4>2. QED
          BY <4>1, HostMemory, HeaderTexts DEF HostHeaders
      <3>2. k \in 1 .. 5
        <4>1. k \in Nat \ {0} /\ k <= 5
          BY <2>1, <3>1 DEF SenderInv, Lengths
        <4>2. QED
          BY <4>1
      <3>3. IsSeq(HostHeaders(i)[k].text)
        BY <3>1, <3>2
      <3>4. \/ http_object_add_header(HostHeaders(i)[k].id, HostHeaders(i)[k].text)
            \/ UNCHANGED hovars
        BY <1>9 DEF AddHeader
      <3>5. data_len \in Nat
        BY DEF SenderInv, Lengths
      <3>6. CASE UNCHANGED hovars
        BY <3>5, <3>6 DEF hovars
      <3>7. QED
        BY <3>3, <3>4, <3>5, <3>6, MessageLength, Zenon
    <2>4. Lengths'
      BY <2>1, <2>3 DEF SenderInv, Lengths
    <2>5. QED
      BY <2>2, <2>4 DEF SenderInv
  <1>10. CASE CopyRequest
    <2>1. /\ UNCHANGED <<line_num, webhosts, i>> /\ UNCHANGED <<sent, k>>
          /\ data_len' = data_len /\ load' \in {load, data_len} /\ pc = "add"
      BY <1>10 DEF CopyRequest, hovars
    <2>2. Hosts' /\ Packets' /\ Current'
      BY <2>1, SameHosts, SamePackets, SamePlace DEF SenderInv, Hosts
    <2>3. Lengths'
      BY <2>1 DEF SenderInv, Lengths
    <2>4. QED
      BY <2>2, <2>3 DEF SenderInv
  <1>11. CASE Send
    <2>1. /\ UNCHANGED <<line_num, webhosts>> /\ UNCHANGED <<load, k>>
          /\ pc = "send" /\ pc' \in {"host", "broken"} /\ i' \in {i, i + 1}
      BY <1>11 DEF Send
    <2>2. Hosts' /\ Current'
      BY <2>1, SameHosts, OtherPlace DEF SenderInv, Hosts
    <2>3. Lengths'
      BY <1>11, <2>1, MessageLength DEF SenderInv, Lengths, Send, hovars
    <2>4. Packets'
      <3>1. CASE UNCHANGED sent
        BY <3>1, SamePackets DEF SenderInv
      <3>2. CASE sent' = Append(sent, Packet(webhosts[i]))
        <4> DEFINE p == Packet(webhosts[i])
        <4>1. Verifies(p.ip)
          BY <2>1, PacketVerifies DEF SenderInv, Current, Lengths
        <4>2. IsSeq(sent) /\ \A n \in DOMAIN sent : Verifies(sent[n].ip)
          BY DEF SenderInv, Packets, IpHeaderVerifies
        <4> HIDE DEF p
        <4>3. /\ IsSeq(sent') /\ DOMAIN sent' = 1 .. (Len(sent) + 1)
              /\ sent'[Len(sent) + 1] = p
              /\ \A n \in DOMAIN sent : sent'[n] = sent[n]
          BY <3>2, <4>2, AppendedSeq DEF p
        <4>4. Len(sent) \in Nat /\ DOMAIN sent = 1 .. Len(sent)
          BY <4>2, SeqRules
        <4>5. PICK m \in Nat : m = Len(sent)
          BY <4>4
        <4>6. \A n \in 1 .. (m + 1) : n = m + 1 \/ n \in 1 .. m
          OBVIOUS
        <4>7. \A n \in DOMAIN sent' : Verifies(sent'[n].ip)
          BY <4>1, <4>2, <4>3, <4>4, <4>5, <4>6, Zenon
        <4>8. QED
          BY <4>3, <4>7 DEF Packets, IsSeq, IpHeaderVerifies, Verifies
      <3>3. QED
        BY <1>11, <3>1, <3>2 DEF Send
    <2>5. QED
      BY <2>2, <2>3, <2>4 DEF SenderInv
  <1>12. CASE Finish
    <2>1. /\ UNCHANGED <<line_num, webhosts, i>> /\ UNCHANGED svars
          /\ pc' = "done" /\ http_object_destroy
      BY <1>12 DEF Finish
    <2>2. Hosts' /\ Packets' /\ Current'
      BY <2>1, SameHosts, SamePackets, OtherPlace DEF SenderInv, Hosts
    <2>3. Lengths'
      BY <2>1, MessageLength DEF SenderInv, Lengths
    <2>4. QED
      BY <2>2, <2>3 DEF SenderInv
  <1>13. QED
    BY <1>0, <1>2, <1>3, <1>4, <1>5, <1>6, <1>7, <1>8, <1>9, <1>10, <1>11, <1>12
       DEF Next

\* The IP header of every packet that is sent passes a receiver's check of its
\* checksum: what is checksummed are the words that are sent, of an entry whose
\* two texts were addresses, with a length that counts the load, and the
\* carries of their sum are all added back (create_ip_hdr, chk_sum, main).
THEOREM PacketsVerify == Spec => []IpHeaderVerifies
  <1>1. Init => SenderInv
    BY SenderStart
  <1>2. SenderInv /\ [Next]_vars => SenderInv'
    BY SenderStep
  <1>3. SenderInv => IpHeaderVerifies
    BY DEF SenderInv, Packets
  <1>4. QED
    BY <1>1, <1>2, <1>3, PTL DEF Spec
=============================================================================
