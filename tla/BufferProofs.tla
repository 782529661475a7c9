---------------------------- MODULE BufferProofs ----------------------------
(***************************************************************************)
(* Proofs about F1gBuffer, F1gLog, RegSet and HttpObject: for all texts,   *)
(* messages, rules and headers, and for memory of every size.              *)
(***************************************************************************)
EXTENDS F1gLog, RegSet, HttpObject, WellFoundedInduction, TLAPS

Char == STRING \cup {NUL, "?", "r"}
Text == Seq(Char)

-----------------------------------------------------------------------------
(* Memory.                                                                 *)

\* Memory filled with one value is a sequence of that length.
LEMMA FilledSeq ==
    ASSUME NEW S, NEW ch \in S, NEW n \in Nat
    PROVE  /\ Filled(ch, n) \in Seq(S) /\ Len(Filled(ch, n)) = n
           /\ \A i \in 1 .. n : Filled(ch, n)[i] = ch
  BY DEF Filled

\* Two sequences with the same values are the same.
LEMMA SameSeq ==
    ASSUME NEW S, NEW u \in Seq(S), NEW v \in Seq(S), Len(u) = Len(v),
           \A i \in 1 .. Len(u) : u[i] = v[i]
    PROVE  u = v
  <1>1. u \in [1 .. Len(u) -> S]
    OBVIOUS
  <1>2. v \in [1 .. Len(u) -> S]
    OBVIOUS
  <1>3. u = [i \in 1 .. Len(u) |-> u[i]]
    BY <1>1
  <1>4. v = [i \in 1 .. Len(u) |-> v[i]]
    BY <1>2
  <1>5. [i \in 1 .. Len(u) |-> u[i]] = [i \in 1 .. Len(u) |-> v[i]]
    OBVIOUS
  <1>6. QED
    BY <1>3, <1>4, <1>5, Zenon

\* A sequence over a set is one over every larger set.
LEMMA WiderSeq ==
    ASSUME NEW S, NEW T, S \subseteq T PROVE \A s \in Seq(S) : s \in Seq(T)
  OBVIOUS

\* A copy into memory leaves its size, and changes only the copied range.
LEMMA PutSeq ==
    ASSUME NEW S, NEW buf \in Seq(S), NEW at \in Nat \ {0}, NEW t \in Seq(S)
    PROVE  /\ Put(buf, at, t) \in Seq(S) /\ Len(Put(buf, at, t)) = Len(buf)
           /\ \A i \in 1 .. Len(buf) : Put(buf, at, t)[i] =
                IF i \in at .. (at + Len(t) - 1) THEN t[i - at + 1] ELSE buf[i]
  <1> DEFINE g(i) == IF i \in at .. (at + Len(t) - 1) THEN t[i - at + 1] ELSE buf[i]
  <1>1. \A i \in 1 .. Len(buf) : g(i) \in S
    OBVIOUS
  <1>2. Put(buf, at, t) = [i \in 1 .. Len(buf) |-> g(i)]
    BY DEF Put
  <1>3. \A i : g(i) = IF i \in at .. (at + Len(t) - 1) THEN t[i - at + 1] ELSE buf[i]
    OBVIOUS
  <1> HIDE DEF g
  <1>4. /\ Put(buf, at, t) \in Seq(S) /\ Len(Put(buf, at, t)) = Len(buf)
        /\ \A i \in 1 .. Len(buf) : Put(buf, at, t)[i] = g(i)
    BY <1>1, <1>2
  <1>5. QED
    BY <1>3, <1>4

\* A copy of a text into text leaves text of the same size.
LEMMA PutText ==
    ASSUME NEW buf \in Text, NEW at \in Nat \ {0}, NEW t \in Text
    PROVE  Put(buf, at, t) \in Text /\ Len(Put(buf, at, t)) = Len(buf)
  <1>1. buf \in Seq(Char) /\ t \in Seq(Char)
    BY DEF Text
  <1> DEFINE p == Put(buf, at, t)
  <1>2. p \in Seq(Char) /\ Len(p) = Len(buf)
    BY <1>1, PutSeq
  <1>3. QED
    BY <1>2 DEF Text

\* What is copied behind the first n values is appended to them.
LEMMA PutAtEnd ==
    ASSUME NEW S, NEW buf \in Seq(S), NEW n \in Nat, NEW t \in Seq(S),
           n + Len(t) <= Len(buf)
    PROVE  SubSeq(Put(buf, n + 1, t), 1, n + Len(t)) = SubSeq(buf, 1, n) \o t
  <1> DEFINE new == Put(buf, n + 1, t)
  <1>1. /\ new \in Seq(S) /\ Len(new) = Len(buf)
        /\ \A i \in 1 .. Len(buf) : new[i] =
             IF i \in (n + 1) .. (n + 1 + Len(t) - 1) THEN t[i - (n + 1) + 1] ELSE buf[i]
    BY PutSeq
  <1> HIDE DEF new
  <1>2. /\ SubSeq(new, 1, n + Len(t)) \in Seq(S) /\ Len(SubSeq(new, 1, n + Len(t))) = n + Len(t)
        /\ \A i \in 1 .. (n + Len(t)) : SubSeq(new, 1, n + Len(t))[i] = new[i]
    BY <1>1
  <1>3. /\ SubSeq(buf, 1, n) \in Seq(S) /\ Len(SubSeq(buf, 1, n)) = n
        /\ \A i \in 1 .. n : SubSeq(buf, 1, n)[i] = buf[i]
    OBVIOUS
  <1>4. /\ SubSeq(buf, 1, n) \o t \in Seq(S) /\ Len(SubSeq(buf, 1, n) \o t) = n + Len(t)
        /\ \A i \in 1 .. n : (SubSeq(buf, 1, n) \o t)[i] = buf[i]
        /\ \A i \in (n + 1) .. (n + Len(t)) : (SubSeq(buf, 1, n) \o t)[i] = t[i - n]
    BY <1>3
  <1>5. \A i \in 1 .. (n + Len(t)) :
            SubSeq(new, 1, n + Len(t))[i] = (SubSeq(buf, 1, n) \o t)[i]
    <2>1. Len(t) \in Nat /\ Len(buf) \in Nat
      OBVIOUS
    <2>2. \A i \in 1 .. n : new[i] = buf[i]
      BY <1>1, <2>1
    <2>3. \A i \in (n + 1) .. (n + Len(t)) : new[i] = t[i - n]
      BY <1>1, <2>1
    <2> DEFINE a == SubSeq(new, 1, n + Len(t))
               b == SubSeq(buf, 1, n) \o t
    <2> HIDE DEF a, b
    <2>4. \A i \in 1 .. n : a[i] = b[i]
      BY <1>2, <1>4, <2>1, <2>2 DEF a, b
    <2>5. \A i \in (n + 1) .. (n + Len(t)) : a[i] = b[i]
      BY <1>2, <1>4, <2>1, <2>3 DEF a, b
    <2>6. \A i \in 1 .. (n + Len(t)) : i \in 1 .. n \/ i \in (n + 1) .. (n + Len(t))
      BY <2>1
    <2>7. QED
      BY <2>4, <2>5, <2>6 DEF a, b
  <1>6. \A u, v \in Seq(S) : Len(u) = Len(v) /\ (\A i \in 1 .. Len(u) : u[i] = v[i]) => u = v
    BY SameSeq
  <1>7. QED
    BY <1>2, <1>4, <1>5, <1>6 DEF new

\* What is copied behind the first n values leaves them.
LEMMA PutBehind ==
    ASSUME NEW S, NEW buf \in Seq(S), NEW n \in Nat, NEW t \in Seq(S), n <= Len(buf)
    PROVE  SubSeq(Put(buf, n + 1, t), 1, n) = SubSeq(buf, 1, n)
  <1> DEFINE new == Put(buf, n + 1, t)
  <1>0. /\ new \in Seq(S) /\ Len(new) = Len(buf)
        /\ \A i \in 1 .. Len(buf) : new[i] =
             IF i \in (n + 1) .. (n + 1 + Len(t) - 1) THEN t[i - (n + 1) + 1] ELSE buf[i]
    BY PutSeq
  <1> HIDE DEF new
  <1>1. /\ new \in Seq(S) /\ Len(new) = Len(buf) /\ \A i \in 1 .. n : new[i] = buf[i]
    BY <1>0
  <1>2. SubSeq(new, 1, n) = SubSeq(buf, 1, n)
    BY <1>1
  <1>3. QED
    BY <1>2 DEF new

\* A text that fits is not cut.
LEMMA CutText ==
    ASSUME NEW t \in Text, NEW n \in Nat
    PROVE  /\ Cut(t, n) \in Text /\ Len(Cut(t, n)) <= n /\ Len(Cut(t, n)) \in Nat
           /\ Len(t) <= n => Cut(t, n) = t
  <1>1. CASE n < Len(t)
    BY <1>1 DEF Cut, Text
  <1>2. CASE ~(n < Len(t))
    <2>1. Cut(t, n) = SubSeq(t, 1, Len(t))
      BY <1>2 DEF Cut
    <2>2. SubSeq(t, 1, Len(t)) = t
      BY DEF Text
    <2>3. QED
      BY <1>2, <2>1, <2>2 DEF Text
  <1>3. QED
    BY <1>1, <1>2

\* What a text becomes where it is printed with too little room: as long as it
\* is, and itself before the last place of the room.
Prints(u, t, room) ==
    /\ u \in Text /\ Len(u) = Len(t)
    /\ \A i \in 1 .. Len(t) : i < room => u[i] = t[i]

\* vsnprintf leaves what lies before, and puts the text behind it as far as
\* the room goes.
LEMMA PrintedText ==
    ASSUME NEW buf \in Text, NEW n \in Nat, NEW t \in Text, NEW cap \in Int, n <= Len(buf)
    PROVE  /\ Printed(buf, n + 1, t, cap) \in Text
           /\ Len(Printed(buf, n + 1, t, cap)) = Len(buf)
           /\ SubSeq(Printed(buf, n + 1, t, cap), 1, n) = SubSeq(buf, 1, n)
           /\ n + Len(t) <= Len(buf) =>
                \E u : /\ Prints(u, t, cap)
                       /\ SubSeq(Printed(buf, n + 1, t, cap), 1, n + Len(t))
                             = SubSeq(buf, 1, n) \o u
  <1> DEFINE new == Printed(buf, n + 1, t, cap)
  <1>1. /\ new \in Text /\ Len(new) = Len(buf) /\ SubSeq(new, 1, n) = SubSeq(buf, 1, n)
        /\ \A i \in 1 .. Len(t) : i < cap /\ n + i <= Len(buf) => new[n + i] = t[i]
    <2>1. CASE cap <= 0
      BY <2>1 DEF Printed, Text
    <2>2. CASE cap > 0
      <3> DEFINE u == Append(Cut(t, cap - 1), NUL)
                 q == Put(buf, n + 1, u)
      <3>1. /\ u \in Text
            /\ \A i \in 1 .. Len(t) : i < cap => i <= Len(u) /\ u[i] = t[i]
        <4>1. /\ Cut(t, cap - 1) \in Text
              /\ \A i \in 1 .. Len(t) : i < cap =>
                    i <= Len(Cut(t, cap - 1)) /\ Cut(t, cap - 1)[i] = t[i]
          <5>1. Cut(t, cap - 1) \in Text
            BY <2>2, CutText
          <5>2. QED
            BY <2>2, <5>1 DEF Cut, Text
        <4>2. NUL \in Char
          BY DEF Char
        <4>3. QED
          BY <4>1, <4>2 DEF Text
      <3>2. new = q
        BY <2>2 DEF Printed
      <3> HIDE DEF u
      <3>3. q \in Text /\ Len(q) = Len(buf) /\ SubSeq(q, 1, n) = SubSeq(buf, 1, n)
        BY <3>1, PutSeq, PutBehind DEF Text
      <3>4. \A i \in 1 .. Len(buf) : q[i] =
              IF i \in (n + 1) .. (n + 1 + Len(u) - 1) THEN u[i - (n + 1) + 1] ELSE buf[i]
        BY <3>1, PutSeq DEF Text
      <3> HIDE DEF q
      <3>5. ASSUME NEW i \in 1 .. Len(t), i < cap, n + i <= Len(buf) PROVE q[n + i] = t[i]
        <4>1. i \in Nat /\ i >= 1 /\ Len(u) \in Nat /\ i <= Len(u) /\ u[i] = t[i]
          BY <3>1, <3>5 DEF Text
        <4>2. /\ n + i \in 1 .. Len(buf) /\ n + i \in (n + 1) .. (n + 1 + Len(u) - 1)
              /\ n + i - (n + 1) + 1 = i
          BY <3>5, <4>1 DEF Text
        <4>3. QED
          BY <3>4, <4>1, <4>2
      <3>6. QED
        BY <3>2, <3>3, <3>5
    <2>3. QED
      BY <2>1, <2>2
  <1> HIDE DEF new
  <1>2. ASSUME n + Len(t) <= Len(buf)
        PROVE  \E u : Prints(u, t, cap) /\ SubSeq(new, 1, n + Len(t)) = SubSeq(buf, 1, n) \o u
    <2> DEFINE u == SubSeq(new, n + 1, n + Len(t))
               a == SubSeq(new, 1, n)
    <2>1. /\ u \in Text /\ Len(u) = Len(t) /\ a \in Text /\ Len(a) = n
          /\ \A i \in 1 .. Len(t) : u[i] = new[n + i]
      <3> DEFINE k == Len(t)
      <3>1. k \in Nat /\ n + k <= Len(new) /\ new \in Text
        BY <1>1, <1>2 DEF Text
      <3> HIDE DEF k
      <3>2. /\ SubSeq(new, n + 1, n + k) \in Text /\ Len(SubSeq(new, n + 1, n + k)) = k
            /\ SubSeq(new, 1, n) \in Text /\ Len(SubSeq(new, 1, n)) = n
            /\ \A i \in 1 .. k : SubSeq(new, n + 1, n + k)[i] = new[n + i]
        BY <3>1 DEF Text
      <3>3. QED
        BY <3>2 DEF k
    <2>2. SubSeq(new, 1, n + Len(t)) = a \o u
      <3> DEFINE k == Len(t)
      <3>1. k \in Nat /\ n + k <= Len(new) /\ new \in Text
        BY <1>1, <1>2 DEF Text
      <3> HIDE DEF k
      <3>2. SubSeq(new, 1, n + k) = SubSeq(new, 1, n) \o SubSeq(new, n + 1, n + k)
        BY <3>1 DEF Text
      <3>3. QED
        BY <3>2 DEF k
    <2> HIDE DEF u, a
    <2>3. ASSUME NEW i \in 1 .. Len(t), i < cap PROVE u[i] = t[i]
      <3>1. n + i <= Len(buf)
        BY <1>2 DEF Text
      <3>2. QED
        BY <1>1, <2>1, <2>3, <3>1
    <2>4. Prints(u, t, cap)
      BY <2>1, <2>3 DEF Prints
    <2>5. a = SubSeq(buf, 1, n)
      BY <1>1 DEF a
    <2>6. QED
      BY <2>2, <2>4, <2>5
  <1>3. QED
    BY <1>1, <1>2 DEF new

\* A text so printed behind a copy with some places cut off.
LEMMA AgreeWithMore ==
    ASSUME NEW a \in Text, NEW b \in Text, NEW places, AgreeBut(a, b, places),
           NEW t \in Text, NEW room \in Int, NEW u, Prints(u, t, room)
    PROVE  AgreeBut(a \o u, b \o t, places \cup CutOff(b, t, room))
  <1>1. /\ u \in Text /\ Len(u) = Len(t) /\ Len(a) = Len(b) /\ Len(t) \in Nat /\ Len(b) \in Nat
        /\ \A i \in 1 .. Len(t) : i < room => u[i] = t[i]
        /\ \A n \in DOMAIN b \ places : a[n] = b[n]
    BY DEF Prints, AgreeBut, Text
  <1>2. /\ Len(a \o u) = Len(b) + Len(t) /\ Len(b \o t) = Len(b) + Len(t)
        /\ DOMAIN (b \o t) = 1 .. (Len(b) + Len(t)) /\ DOMAIN b = 1 .. Len(b)
        /\ \A n \in 1 .. Len(b) : (a \o u)[n] = a[n] /\ (b \o t)[n] = b[n]
        /\ \A i \in 1 .. Len(t) : (a \o u)[Len(b) + i] = u[i] /\ (b \o t)[Len(b) + i] = t[i]
    <2>1. ASSUME NEW v \in Text, NEW w \in Text
          PROVE  /\ Len(v \o w) = Len(v) + Len(w) /\ Len(v) \in Nat
                 /\ DOMAIN (v \o w) = 1 .. (Len(v) + Len(w)) /\ DOMAIN v = 1 .. Len(v)
                 /\ \A n \in 1 .. Len(v) : (v \o w)[n] = v[n]
                 /\ \A i \in 1 .. Len(w) : (v \o w)[Len(v) + i] = w[i]
      BY DEF Text
    <2>2. /\ Len(a \o u) = Len(a) + Len(u)
          /\ \A n \in 1 .. Len(a) : (a \o u)[n] = a[n]
          /\ \A i \in 1 .. Len(u) : (a \o u)[Len(a) + i] = u[i]
      BY <1>1, <2>1
    <2>3. QED
      BY <1>1, <2>1, <2>2
  <1>3. ASSUME NEW n \in DOMAIN (b \o t) \ (places \cup CutOff(b, t, room))
        PROVE  (a \o u)[n] = (b \o t)[n]
    <2>1. CASE n \in 1 .. Len(b)
      BY <1>1, <1>2, <1>3, <2>1
    <2>2. CASE n \notin 1 .. Len(b)
      <3>1. PICK i \in 1 .. Len(t) : n = Len(b) + i
        <4>1. n - Len(b) \in 1 .. Len(t) /\ n = Len(b) + (n - Len(b))
          BY <1>1, <1>2, <1>3, <2>2
        <4>2. QED
          BY <4>1
      <3>2. ~(i >= room)
        BY <1>3, <3>1 DEF CutOff
      <3>3. i < room
        BY <3>2
      <3>4. QED
        BY <1>1, <1>2, <3>1, <3>3
    <2>3. QED
      BY <2>1, <2>2
  <1>4. QED
    BY <1>2, <1>3 DEF AgreeBut

\* A text put whole behind such a copy.
LEMMA AgreeWithText ==
    ASSUME NEW a \in Text, NEW b \in Text, NEW places, AgreeBut(a, b, places), NEW t \in Text
    PROVE  AgreeBut(a \o t, b \o t, places)
  <1> DEFINE room == Len(t) + 1
  <1>1. room \in Int /\ Prints(t, t, room)
    BY DEF Prints, Text
  <1>2. CutOff(b, t, room) = {}
    BY DEF CutOff, Text
  <1> HIDE DEF room
  <1>3. AgreeBut(a \o t, b \o t, places \cup CutOff(b, t, room))
    BY <1>1, AgreeWithMore
  <1>4. places \cup {} = places
    OBVIOUS
  <1>5. QED
    BY <1>2, <1>3, <1>4


-----------------------------------------------------------------------------
(* F1gBuffer.                                                              *)

BufType == [flag : {BUF_FLAG_ALLO, BUF_FLAG_REF}, size : Nat, len : Nat, buf : Text]
IsBuffer(b) == b \in BufType /\ Len(b.buf) = b.size /\ b.len <= b.size

\* buffer_init and buffer_destroy make empty buffers.
LEMMA NewBuffer ==
    ASSUME NEW size \in Nat
    PROVE  /\ IsBuffer(buffer_init(size)) /\ buffer_init(size).len = 0
           /\ buffer_cap(buffer_init(size)) = size
           /\ IsBuffer(buffer_destroy) /\ buffer_destroy.len = 0
           /\ IsBuffer([buffer_destroy EXCEPT !.flag = BUF_FLAG_REF])
           /\ [buffer_destroy EXCEPT !.flag = BUF_FLAG_REF].len = 0
  <1>1. "?" \in Char /\ <<>> \in Text /\ Len(<<>>) = 0
    BY DEF Char, Text
  <1>2. Filled("?", size) \in Text /\ Len(Filled("?", size)) = size
    BY <1>1, FilledSeq DEF Text
  <1>3. /\ buffer_destroy \in BufType /\ buffer_destroy.len = 0 /\ buffer_destroy.size = 0
        /\ buffer_destroy.buf = <<>>
    BY <1>1 DEF buffer_destroy, BufType
  <1>4. ASSUME NEW b \in BufType
        PROVE  LET c == [b EXCEPT !.flag = BUF_FLAG_REF]
               IN  c \in BufType /\ c.len = b.len /\ c.size = b.size /\ c.buf = b.buf
    BY DEF BufType
  <1>5. /\ buffer_init(size) \in BufType /\ buffer_init(size).size = size
        /\ buffer_init(size).len = 0 /\ buffer_init(size).buf = Filled("?", size)
    BY <1>2 DEF buffer_init, BufType
  <1>6. QED
    BY <1>1, <1>2, <1>3, <1>4, <1>5 DEF IsBuffer, buffer_cap

\* The data of a buffer is a text as long as it says, and its room is the rest.
LEMMA BufferData ==
    ASSUME NEW b, IsBuffer(b)
    PROVE  /\ b \in BufType /\ b.size \in Nat /\ b.len \in Nat /\ b.buf \in Text
           /\ Len(b.buf) = b.size /\ b.len <= b.size
           /\ buffer_data(b) \in Text /\ Len(buffer_data(b)) = b.len
           /\ buffer_cap(b) \in Nat /\ b.len + buffer_cap(b) = b.size
           /\ b.len = 0 => buffer_data(b) = <<>>
  <1>1. /\ b.size \in Nat /\ b.len \in Nat /\ b.buf \in Text
        /\ Len(b.buf) = b.size /\ b.len <= b.size
    BY DEF IsBuffer, BufType
  <1>2. \A s \in Text, n \in Nat : n <= Len(s) =>
            /\ SubSeq(s, 1, n) \in Text /\ Len(SubSeq(s, 1, n)) = n
            /\ n = 0 => SubSeq(s, 1, n) = <<>>
    BY DEF Text
  <1>3. QED
    BY <1>1, <1>2 DEF IsBuffer, buffer_data, buffer_cap

\* A grown buffer holds what it held.
LEMMA Enlarged ==
    ASSUME NEW b, IsBuffer(b), NEW new_size \in Nat
    PROVE  LET c == buffer_enlarge(b, new_size)
           IN  /\ IsBuffer(c) /\ c.flag = b.flag /\ c.len = b.len
               /\ buffer_data(c) = buffer_data(b)
               /\ b.flag # BUF_FLAG_REF => c.size >= new_size
  <1>0. /\ b \in BufType /\ b.size \in Nat /\ b.len \in Nat /\ b.buf \in Text
        /\ Len(b.buf) = b.size /\ b.len <= b.size
        /\ buffer_data(b) \in Text /\ Len(buffer_data(b)) = b.len
    BY BufferData
  <1>1. CASE new_size < b.size \/ b.flag = BUF_FLAG_REF
    BY <1>0, <1>1 DEF buffer_enlarge
  <1>2. CASE ~(new_size < b.size \/ b.flag = BUF_FLAG_REF)
    <2> DEFINE size == IF new_size <= 0 THEN 512 ELSE new_size
               old == buffer_data(b)
               buf == Put(Filled("?", size), 1, old)
               c == [b EXCEPT !.size = size, !.len = b.len, !.buf = buf]
    <2>1. size \in Nat /\ size >= new_size /\ b.len <= size
      BY <1>0, <1>2
    <2> HIDE DEF size
    <2>2. "?" \in Char
      BY DEF Char
    <2>3. Filled("?", size) \in Text /\ Len(Filled("?", size)) = size
      BY <2>1, <2>2, FilledSeq DEF Text
    <2> HIDE DEF old
    <2>4. old \in Text /\ Len(old) = b.len
      BY <1>0 DEF old
    <2>5. buf \in Text /\ Len(buf) = size
      BY <2>3, <2>4, PutSeq DEF Text
    <2>6. SubSeq(buf, 1, b.len) = old
      <3> DEFINE F == Filled("?", size)
      <3>1. F \in Text /\ 0 + Len(old) <= Len(F)
        BY <1>0, <2>1, <2>3, <2>4
      <3> HIDE DEF F
      <3>2. SubSeq(Put(F, 0 + 1, old), 1, 0 + Len(old)) = SubSeq(F, 1, 0) \o old
        BY <2>4, <3>1, 0 \in Nat, PutAtEnd, Zenon DEF Text
      <3>3. SubSeq(F, 1, 0) \o old = old
        BY <2>4, <3>1 DEF Text
      <3>4. 0 + 1 = 1 /\ 0 + Len(old) = b.len
        BY <1>0, <2>4
      <3>5. SubSeq(Put(F, 1, old), 1, b.len) = old
        BY <3>2, <3>3, <3>4
      <3>6. QED
        BY <3>5 DEF F
    <2>7. buffer_enlarge(b, new_size) = c
      <3>1. buffer_enlarge(b, new_size) = [b EXCEPT !.size = size, !.buf = buf]
        BY <1>2, Zenon DEF buffer_enlarge, size, old
      <3> HIDE DEF buf
      <3>2. [b EXCEPT !.size = size, !.buf = buf] = c
        BY <1>0 DEF BufType
      <3>3. QED
        BY <3>1, <3>2
    <2> HIDE DEF buf
    <2>8. IsBuffer(c) /\ c.flag = b.flag /\ buffer_data(c) = SubSeq(buf, 1, b.len)
      <3>1. /\ c \in BufType /\ c.size = size /\ c.len = b.len /\ c.buf = buf
            /\ c.flag = b.flag
        BY <1>0, <2>1, <2>5 DEF BufType
      <3> HIDE DEF c
      <3>2. QED
        BY <2>1, <2>5, <3>1 DEF IsBuffer, buffer_data
    <2>9. c.len = b.len /\ c.size = size
      BY <1>0 DEF BufType
    <2> HIDE DEF c
    <2>10. QED
      BY <2>1, <2>6, <2>7, <2>8, <2>9 DEF old
  <1>3. QED
    BY <1>1, <1>2

\* buffer_append adds what there is room for.
LEMMA Appended ==
    ASSUME NEW b, IsBuffer(b), NEW t \in Text
    PROVE  LET c == buffer_append(b, t)
           IN  /\ IsBuffer(c) /\ c.flag = b.flag
               /\ buffer_data(c) = buffer_data(b) \o Cut(t, buffer_cap(b))
  <1> DEFINE part == Cut(t, buffer_cap(b))
             buf == Put(b.buf, b.len + 1, part)
             c == [b EXCEPT !.size = b.size, !.len = b.len + Len(part), !.buf = buf]
  <1>0. /\ b \in BufType /\ b.size \in Nat /\ b.len \in Nat /\ b.buf \in Text
        /\ Len(b.buf) = b.size /\ b.len <= b.size
        /\ buffer_cap(b) \in Nat /\ b.len + buffer_cap(b) = b.size
    BY BufferData
  <1>1. part \in Text /\ Len(part) \in Nat /\ Len(part) <= buffer_cap(b)
    BY <1>0, CutText
  <1>2. buffer_append(b, t) = c
    BY <1>0 DEF buffer_append, BufType
  <1> HIDE DEF part
  <1>3. b.len + Len(part) \in Nat /\ b.len + Len(part) <= b.size
    BY <1>0, <1>1
  <1>4. /\ buf \in Text /\ Len(buf) = b.size
        /\ SubSeq(buf, 1, b.len + Len(part)) = SubSeq(b.buf, 1, b.len) \o part
    <2>1. b.len + 1 \in Nat \ {0} /\ b.len + Len(part) <= Len(b.buf)
      BY <1>0, <1>3
    <2>2. buf \in Text /\ Len(buf) = Len(b.buf)
      <3> DEFINE mem == b.buf
                 at == b.len + 1
      <3>1. mem \in Text /\ at \in Nat \ {0}
        BY <1>0, <2>1
      <3> HIDE DEF mem, at
      <3>2. Put(mem, at, part) \in Text /\ Len(Put(mem, at, part)) = Len(mem)
        BY <1>1, <3>1, PutSeq DEF Text
      <3>3. QED
        BY <3>2 DEF mem, at
    <2>3. QED
      BY <1>0, <1>1, <2>1, <2>2, PutAtEnd, Zenon DEF Text
  <1> HIDE DEF buf
  <1>5. IsBuffer(c) /\ c.flag = b.flag /\ buffer_data(c) = SubSeq(buf, 1, b.len + Len(part))
    <2> DEFINE len == b.len + Len(part)
    <2>1. len \in Nat /\ len <= b.size
      BY <1>3
    <2> HIDE DEF len
    <2>2. LET d == [b EXCEPT !.size = b.size, !.len = len, !.buf = buf]
          IN  d \in BufType /\ d.size = b.size /\ d.len = len /\ d.buf = buf /\ d.flag = b.flag
      BY <1>0, <1>4, <2>1 DEF BufType
    <2>3. c \in BufType /\ c.size = b.size /\ c.len = len /\ c.buf = buf /\ c.flag = b.flag
      BY <2>2 DEF len
    <2> HIDE DEF c
    <2>4. QED
      BY <1>4, <2>1, <2>3 DEF IsBuffer, buffer_data, len
  <1> HIDE DEF c
  <1>6. QED
    BY <1>2, <1>4, <1>5 DEF part, buffer_data


\* The memory and the length of a buffer replaced.
With(b, buf, len) == [b EXCEPT !.buf = buf, !.len = len]

\* Memory of the same size, filled up to a length within it, is a buffer.
LEMMA WithIsBuffer ==
    ASSUME NEW b, IsBuffer(b), NEW buf \in Text, NEW len \in Nat,
           Len(buf) = b.size, len <= b.size
    PROVE  /\ IsBuffer(With(b, buf, len)) /\ With(b, buf, len).flag = b.flag
           /\ With(b, buf, len).len = len /\ With(b, buf, len).size = b.size
           /\ With(b, buf, len).buf = buf
           /\ buffer_data(With(b, buf, len)) = SubSeq(buf, 1, len)
  <1> DEFINE c == With(b, buf, len)
  <1>1. /\ c \in BufType /\ c.flag = b.flag /\ c.len = len /\ c.size = b.size /\ c.buf = buf
    BY DEF IsBuffer, BufType, With
  <1> HIDE DEF c
  <1>2. IsBuffer(c) /\ buffer_data(c) = SubSeq(buf, 1, len)
    BY <1>1 DEF IsBuffer, buffer_data
  <1>3. QED
    BY <1>1, <1>2 DEF c

\* buffer_append_format keeps the length within the memory, and adds a text
\* as far as the room goes, or nothing to a reference it would exceed.
LEMMA Formatted ==
    ASSUME NEW b, IsBuffer(b), NEW t \in Text
    PROVE  LET c == buffer_append_format(b, t)
           IN  /\ IsBuffer(c)
               /\ Refuses(b, t) => buffer_data(c) = buffer_data(b)
               /\ ~Refuses(b, t) =>
                    \E u : /\ Prints(u, t, buffer_cap(b))
                           /\ buffer_data(c) = buffer_data(b) \o u
  <1> DEFINE cap == buffer_cap(b)
             buf == Printed(b.buf, b.len + 1, t, cap)
             once == With(b, buf, b.len)
             large == buffer_enlarge(once, b.size + Len(t) + FormatRoom)
             c == buffer_append_format(b, t)
             old == buffer_data(b)
  <1>0. /\ b \in BufType /\ b.size \in Nat /\ b.len \in Nat /\ b.buf \in Text
        /\ Len(b.buf) = b.size /\ b.len <= b.size /\ cap \in Nat /\ b.len + cap = b.size
        /\ Len(t) \in Nat
    BY BufferData DEF Text
  <1>1. /\ buf \in Text /\ Len(buf) = b.size /\ SubSeq(buf, 1, b.len) = old
        /\ Len(t) <= cap =>
             \E u : Prints(u, t, cap) /\ SubSeq(buf, 1, b.len + Len(t)) = old \o u
    <2> DEFINE mem == b.buf
               n == b.len
    <2>1. mem \in Text /\ Len(mem) = b.size /\ n \in Nat /\ n <= Len(mem) /\ cap \in Int
          /\ n + cap <= Len(mem)
      BY <1>0
    <2>2. old = SubSeq(mem, 1, n)
      BY DEF buffer_data
    <2> HIDE DEF mem, n, cap, old
    <2>3. /\ Printed(mem, n + 1, t, cap) \in Text
          /\ Len(Printed(mem, n + 1, t, cap)) = Len(mem)
          /\ SubSeq(Printed(mem, n + 1, t, cap), 1, n) = SubSeq(mem, 1, n)
          /\ n + Len(t) <= Len(mem) =>
               \E u : /\ Prints(u, t, cap)
                      /\ SubSeq(Printed(mem, n + 1, t, cap), 1, n + Len(t))
                            = SubSeq(mem, 1, n) \o u
      BY <2>1, PrintedText
    <2>4. Len(t) <= cap => n + Len(t) <= Len(mem)
      BY <1>0, <2>1
    <2>5. QED
      BY <2>1, <2>2, <2>3, <2>4 DEF mem, n, cap
  <1> HIDE DEF old
  <1> HIDE DEF cap, buf
  <1>2. /\ IsBuffer(once) /\ once.flag = b.flag /\ once.len = b.len /\ once.size = b.size
        /\ once.buf = buf
    BY <1>0, <1>1, WithIsBuffer
  <1>3. /\ [b EXCEPT !.buf = Printed(@, b.len + 1, t, cap)] = once
        /\ once \in BufType
    BY <1>0, <1>2 DEF buf, With, BufType, IsBuffer
  <1>4. c = IF Len(t) <= cap THEN [once EXCEPT !.len = @ + Len(t)]
            ELSE IF b.flag = BUF_FLAG_REF THEN once
            ELSE [large EXCEPT !.buf = Printed(@, b.len + 1, t, cap), !.len = @ + Len(t)]
    BY <1>3, Zenon DEF buffer_append_format, cap
  <1>5. CASE Len(t) <= cap
    <2>1. c = With(once, buf, b.len + Len(t))
      <3> HIDE DEF once, large, c
      <3>1. c = [once EXCEPT !.len = @ + Len(t)]
        BY <1>4, <1>5
      <3>2. QED
        BY <1>2, <1>3, <3>1 DEF With, BufType
    <2>2. b.len + Len(t) \in Nat /\ b.len + Len(t) <= once.size
      BY <1>0, <1>2, <1>5
    <2> HIDE DEF once, c
    <2>3. IsBuffer(c) /\ buffer_data(c) = SubSeq(buf, 1, b.len + Len(t))
      BY <1>1, <1>2, <2>1, <2>2, WithIsBuffer
    <2>4. ~(Len(t) > cap)
      BY <1>0, <1>5
    <2>5. QED
      BY <1>1, <1>5, <2>3, <2>4 DEF c, cap, old, Refuses
  <1>6. CASE ~(Len(t) <= cap) /\ b.flag = BUF_FLAG_REF
    <2>1. buffer_data(once) = old
      BY <1>1, <1>2 DEF buffer_data
    <2> HIDE DEF once, large, c
    <2>2. c = once
      BY <1>4, <1>6
    <2>3. Len(t) > cap
      BY <1>0, <1>6
    <2>4. QED
      BY <1>2, <1>6, <2>1, <2>2, <2>3 DEF c, cap, old, Refuses
  <1>7. CASE ~(Len(t) <= cap) /\ b.flag # BUF_FLAG_REF
    <2> DEFINE size == b.size + Len(t) + FormatRoom
               out == Printed(large.buf, b.len + 1, t, cap)
    <2>0. buffer_data(once) = old
      BY <1>1, <1>2 DEF buffer_data
    <2>1. size \in Nat /\ size >= b.len + Len(t)
      <3>1. \A x, y, z, r \in Nat : x <= y => y + z + r \in Nat /\ y + z + r >= x + z
        OBVIOUS
      <3>2. /\ b.len \in Nat /\ b.size \in Nat /\ Len(t) \in Nat /\ b.len <= b.size
            /\ FormatRoom \in Nat
        BY <1>0, BufferAssumption
      <3>3. QED
        BY <3>1, <3>2, Zenon
    <2>2. c = [large EXCEPT !.buf = Printed(@, b.len + 1, t, cap), !.len = @ + Len(t)]
      <3> HIDE DEF once, large, c
      <3>1. QED
        BY <1>4, <1>7
    <2> HIDE DEF once, c
    <2>3. /\ IsBuffer(large) /\ large.flag = b.flag /\ large.len = b.len
          /\ large.size >= size /\ buffer_data(large) = old
      <3> HIDE DEF size
      <3>1. LET d == buffer_enlarge(once, size)
            IN  /\ IsBuffer(d) /\ d.flag = once.flag /\ d.len = once.len
                /\ buffer_data(d) = buffer_data(once)
                /\ once.flag # BUF_FLAG_REF => d.size >= size
        BY <1>2, <2>1, Enlarged
      <3>2. QED
        BY <1>2, <1>7, <2>0, <3>1 DEF size
    <2> HIDE DEF large
    <2>4. /\ large \in BufType /\ large.buf \in Text /\ large.size \in Nat
          /\ Len(large.buf) = large.size /\ b.len + Len(t) <= large.size /\ b.len <= large.size
      <3>1. /\ large \in BufType /\ large.buf \in Text /\ large.size \in Nat
            /\ Len(large.buf) = large.size
        BY <2>3 DEF IsBuffer, BufType
      <3>2. QED
        BY <1>0, <2>1, <2>3, <3>1
    <2>5. /\ out \in Text /\ Len(out) = large.size
          /\ \E u : Prints(u, t, cap) /\ SubSeq(out, 1, b.len + Len(t)) = old \o u
      <3> DEFINE mem == large.buf
      <3>1. /\ mem \in Text /\ Len(mem) = large.size /\ b.len <= Len(mem) /\ cap \in Int
            /\ b.len + Len(t) <= Len(mem)
        BY <1>0, <2>4
      <3>2. old = SubSeq(mem, 1, b.len)
        BY <2>3 DEF buffer_data
      <3> DEFINE n == b.len
      <3>3. n \in Nat /\ n <= Len(mem) /\ n + Len(t) <= Len(mem)
        BY <1>0, <3>1
      <3> HIDE DEF mem, cap, n
      <3>4. /\ Printed(mem, n + 1, t, cap) \in Text
            /\ Len(Printed(mem, n + 1, t, cap)) = Len(mem)
            /\ n + Len(t) <= Len(mem) =>
                 \E u : /\ Prints(u, t, cap)
                        /\ SubSeq(Printed(mem, n + 1, t, cap), 1, n + Len(t))
                              = SubSeq(mem, 1, n) \o u
        BY <3>1, <3>3, PrintedText
      <3>5. QED
        BY <3>1, <3>2, <3>3, <3>4 DEF mem, cap, n
    <2>6. c = With(large, out, b.len + Len(t))
      BY <2>2, <2>3, <2>4 DEF With, BufType
    <2> HIDE DEF out
    <2>7. b.len + Len(t) \in Nat
      BY <1>0
    <2>8. IsBuffer(c) /\ buffer_data(c) = SubSeq(out, 1, b.len + Len(t))
      BY <2>3, <2>4, <2>5, <2>6, <2>7, WithIsBuffer
    <2>9. QED
      BY <1>7, <2>5, <2>8 DEF c, cap, old, Refuses
  <1>8. QED
    BY <1>5, <1>6, <1>7


\* The inductive invariant: a buffer whose data is what was taken.
BufferInv ==
    /\ IsBuffer(bbuf) /\ bgiven \in Text
    /\ AgreeBut(buffer_data(bbuf), bgiven, bcut)

\* buffer_clear and buffer_set.
LEMMA ClearedAndSet ==
    ASSUME NEW b, IsBuffer(b), NEW size \in Nat
    PROVE  /\ IsBuffer(buffer_clear(b)) /\ buffer_clear(b).len = 0
           /\ b.len = 0 => IsBuffer(buffer_set(b, size)) /\ buffer_set(b, size).len = 0
  <1>0. /\ b \in BufType /\ b.size \in Nat /\ b.len \in Nat /\ b.buf \in Text
        /\ Len(b.buf) = b.size /\ b.len <= b.size
    BY BufferData
  <1>1. <<NUL>> \in Text /\ "r" \in Char /\ 1 \in Nat \ {0} /\ 0 \in Nat
    BY DEF Text, Char
  <1>2. Put(b.buf, 1, <<NUL>>) \in Text /\ Len(Put(b.buf, 1, <<NUL>>)) = b.size
    <2> DEFINE mem == b.buf
               t == <<NUL>>
    <2>1. mem \in Text /\ t \in Text /\ Len(mem) = b.size
      BY <1>0, <1>1
    <2> HIDE DEF mem, t
    <2>2. Put(mem, 1, t) \in Text /\ Len(Put(mem, 1, t)) = Len(mem)
      BY <1>1, <2>1, PutText, Zenon
    <2>3. QED
      BY <2>1, <2>2 DEF mem, t
  <1>3. buffer_clear(b) = With(b, Put(b.buf, 1, <<NUL>>), 0)
    BY <1>0 DEF buffer_clear, With, BufType
  <1>4. IsBuffer(buffer_clear(b)) /\ buffer_clear(b).len = 0
    <2> DEFINE mem == Put(b.buf, 1, <<NUL>>)
    <2> HIDE DEF mem
    <2>1. mem \in Text /\ Len(mem) = b.size /\ 0 <= b.size
      BY <1>0, <1>2 DEF mem
    <2>2. IsBuffer(With(b, mem, 0)) /\ With(b, mem, 0).len = 0
      BY <1>1, <2>1, WithIsBuffer
    <2>3. QED
      BY <1>3, <2>2 DEF mem
  <1>5. ASSUME b.len = 0 PROVE IsBuffer(buffer_set(b, size)) /\ buffer_set(b, size).len = 0
    <2> DEFINE mem == Filled("r", size)
               c == [b EXCEPT !.size = size, !.buf = mem]
    <2>1. mem \in Text /\ Len(mem) = size
      BY <1>1, FilledSeq DEF Text
    <2> HIDE DEF mem
    <2>2. c \in BufType /\ c.size = size /\ c.len = 0 /\ c.buf = mem
      BY <1>0, <1>5, <2>1 DEF BufType
    <2>3. buffer_set(b, size) = b \/ buffer_set(b, size) = c
      BY DEF buffer_set, mem
    <2> HIDE DEF c
    <2>4. IsBuffer(c)
      BY <2>1, <2>2 DEF IsBuffer
    <2>5. QED
      BY <1>5, <2>2, <2>3, <2>4
  <1>6. QED
    BY <1>4, <1>5

\* Every call keeps it.
LEMMA BufferStep == ASSUME BufferInv, [BufferNext]_bvars PROVE BufferInv'
  <1>0. IsBuffer(bbuf) /\ bgiven \in Text /\ buffer_cap(bbuf) \in Nat
        /\ buffer_data(bbuf) \in Text /\ AgreeBut(buffer_data(bbuf), bgiven, bcut)
    BY BufferData DEF BufferInv
  <1>1. ASSUME NEW t \in BufTexts PROVE t \in Text /\ Cut(t, buffer_cap(bbuf)) \in Text
    <2>1. \A s \in Seq(STRING) : s \in Text
      BY DEF Text, Char
    <2>2. t \in Text
      BY <2>1, BufferAssumption
    <2>3. QED
      BY <1>0, <2>2, CutText
  <1>2. \A u, v \in Text : u \o v \in Text
    BY DEF Text
  <1>3. ASSUME NEW t \in BufTexts, BufAppend(t) PROVE BufferInv'
    <2>1. /\ IsBuffer(bbuf')
          /\ buffer_data(bbuf') = buffer_data(bbuf) \o Cut(t, buffer_cap(bbuf))
      BY <1>0, <1>1, <1>3, Appended DEF BufAppend
    <2>2. bgiven' = bgiven \o Cut(t, buffer_cap(bbuf)) /\ bcut' = bcut
      BY <1>3 DEF BufAppend
    <2>3. bgiven' \in Text
      BY <1>0, <1>1, <1>2, <2>2
    <2> DEFINE d == buffer_data(bbuf)
               v == Cut(t, buffer_cap(bbuf))
    <2>4. d \in Text /\ v \in Text /\ AgreeBut(d, bgiven, bcut)
      BY <1>0, <1>1
    <2> HIDE DEF d, v
    <2>5. AgreeBut(d \o v, bgiven \o v, bcut)
      BY <1>0, <2>4, AgreeWithText
    <2>6. buffer_data(bbuf') = d \o v /\ bgiven' = bgiven \o v
      BY <2>1, <2>2 DEF d, v
    <2>7. AgreeBut(buffer_data(bbuf'), bgiven', bcut')
      BY <2>2, <2>5, <2>6
    <2>8. QED
      BY <2>1, <2>3, <2>7 DEF BufferInv
  <1>4. ASSUME NEW t \in BufTexts, BufFormat(t) PROVE BufferInv'
    <2> DEFINE d == buffer_data(bbuf)
               room == buffer_cap(bbuf)
    <2>0. d \in Text /\ room \in Int /\ t \in Text /\ AgreeBut(d, bgiven, bcut)
      BY <1>0, <1>1
    <2>1. /\ IsBuffer(bbuf')
          /\ Refuses(bbuf, t) => buffer_data(bbuf') = d
          /\ ~Refuses(bbuf, t) => \E u : Prints(u, t, room) /\ buffer_data(bbuf') = d \o u
      BY <1>0, <1>1, <1>4, Formatted DEF BufFormat
    <2>2. /\ Refuses(bbuf, t) => bgiven' = bgiven /\ bcut' = bcut
          /\ ~Refuses(bbuf, t) => /\ bgiven' = bgiven \o t
                                  /\ bcut' = bcut \cup CutOff(bgiven, t, room)
      BY <1>4 DEF BufFormat, Keeps
    <2> HIDE DEF d, room
    <2>3. CASE Refuses(bbuf, t)
      <3>1. /\ buffer_data(bbuf') = d /\ bgiven' = bgiven /\ bcut' = bcut
        BY <2>1, <2>2, <2>3
      <3>2. AgreeBut(buffer_data(bbuf'), bgiven', bcut')
        BY <2>0, <3>1
      <3>3. QED
        BY <1>0, <2>1, <3>1, <3>2 DEF BufferInv
    <2>4. CASE ~Refuses(bbuf, t)
      <3>1. PICK u : Prints(u, t, room) /\ buffer_data(bbuf') = d \o u
        BY <2>1, <2>4
      <3>2. bgiven' = bgiven \o t /\ bcut' = bcut \cup CutOff(bgiven, t, room)
        BY <2>2, <2>4
      <3>3. AgreeBut(d \o u, bgiven \o t, bcut \cup CutOff(bgiven, t, room))
        BY <1>0, <2>0, <3>1, AgreeWithMore
      <3>4. AgreeBut(buffer_data(bbuf'), bgiven', bcut')
        BY <3>1, <3>2, <3>3
      <3>5. bgiven' \in Text
        BY <1>0, <1>2, <2>0, <3>2
      <3>6. QED
        BY <2>1, <3>4, <3>5 DEF BufferInv
    <2>5. QED
      BY <2>3, <2>4
  <1>5. ASSUME NEW size \in InitSizes, bbuf' = buffer_enlarge(bbuf, size), Keeps
        PROVE  BufferInv'
    <2>1. size \in Nat
      BY BufferAssumption
    <2>2. IsBuffer(bbuf') /\ buffer_data(bbuf') = buffer_data(bbuf)
      BY <1>0, <1>5, <2>1, Enlarged
    <2>3. bgiven' = bgiven /\ bcut' = bcut
      BY <1>5 DEF Keeps
    <2>4. AgreeBut(buffer_data(bbuf'), bgiven', bcut')
      BY <1>0, <2>2, <2>3
    <2>5. QED
      BY <1>0, <2>2, <2>3, <2>4 DEF BufferInv
  <1>6. ASSUME IsBuffer(bbuf'), bbuf'.len = 0,
               Restarts \/ (bbuf.len = 0 /\ Keeps)
        PROVE  BufferInv'
    <2>1. buffer_data(bbuf') = <<>> /\ <<>> \in Text
      BY <1>6, BufferData DEF Text
    <2>2. CASE Restarts
      <3>1. bgiven' = <<>> /\ bcut' = {}
        BY <2>2 DEF Restarts
      <3>2. AgreeBut(buffer_data(bbuf'), bgiven', bcut')
        BY <2>1, <3>1 DEF AgreeBut
      <3>3. QED
        BY <1>6, <2>1, <3>1, <3>2 DEF BufferInv
    <2>3. CASE bbuf.len = 0 /\ Keeps
      <3>1. buffer_data(bbuf) = <<>> /\ bgiven' = bgiven /\ bcut' = bcut
        BY <1>0, <2>3, BufferData DEF Keeps
      <3>2. AgreeBut(buffer_data(bbuf'), bgiven', bcut')
        BY <1>0, <2>1, <3>1
      <3>3. QED
        BY <1>0, <1>6, <3>1, <3>2 DEF BufferInv
    <2>4. QED
      BY <1>6, <2>2, <2>3
  <1>7. CASE bbuf' = buffer_clear(bbuf) /\ Restarts
    BY <1>0, <1>6, <1>7, 0 \in Nat, ClearedAndSet
  <1>8. ASSUME NEW size \in InitSizes, bbuf.len = 0, bbuf' = buffer_set(bbuf, size), Keeps
        PROVE  BufferInv'
    <2>1. size \in Nat
      BY BufferAssumption
    <2>2. QED
      BY <1>0, <1>6, <1>8, <2>1, ClearedAndSet
  <1>9. CASE bbuf' = buffer_destroy /\ Restarts
    BY <1>6, <1>9, 0 \in Nat, NewBuffer
  <1>10. CASE UNCHANGED bvars
    <2>1. bbuf' = bbuf /\ bgiven' = bgiven /\ bcut' = bcut
      BY <1>10 DEF bvars
    <2>2. QED
      BY <2>1 DEF BufferInv
  <1>11. QED
    BY <1>3, <1>4, <1>5, <1>7, <1>8, <1>9, <1>10 DEF BufferNext

\* A buffer's length stays within its memory, and the buffer holds what was
\* taken, in order, every formatted text as far as its room went: appends,
\* growth that is called and growth under a formatted text, references and
\* clears, for all sizes and texts.
THEOREM BufferHoldsTexts == BufferSpec => []BufferContent
  <1>1. BufferInit => BufferInv
    <2> SUFFICES ASSUME BufferInit PROVE BufferInv
      OBVIOUS
    <2>1. bgiven = <<>> /\ bcut = {} /\ <<>> \in Text
      BY DEF BufferInit, Text
    <2>2. IsBuffer(bbuf) /\ bbuf.len = 0
      BY BufferAssumption, 0 \in Nat, NewBuffer DEF BufferInit
    <2>3. buffer_data(bbuf) = <<>>
      BY <2>2, BufferData
    <2>4. AgreeBut(buffer_data(bbuf), bgiven, bcut)
      BY <2>1, <2>3 DEF AgreeBut
    <2>5. QED
      BY <2>1, <2>2, <2>4 DEF BufferInv
  <1>2. BufferInv /\ [BufferNext]_bvars => BufferInv'
    BY BufferStep
  <1>3. BufferInv => BufferContent
    BY DEF BufferInv, BufferContent, IsBuffer
  <1>4. QED
    BY <1>1, <1>2, <1>3, PTL DEF BufferSpec


-----------------------------------------------------------------------------
(* F1gLog.                                                                 *)

LogType == [buf : Text, buf_size : Nat, data_len : Nat, w_sz_limit : Nat]
IsLog(l) ==
    /\ l \in LogType /\ Len(l.buf) = l.buf_size
    /\ l.data_len <= l.w_sz_limit /\ l.w_sz_limit <= l.buf_size

\* The fields of a log, its pending text, and that it is not the empty one.
LEMMA LogFields ==
    ASSUME NEW l, IsLog(l)
    PROVE  /\ l \in LogType /\ l.buf \in Text /\ l.buf_size \in Nat /\ l.data_len \in Nat
           /\ l.w_sz_limit \in Nat /\ Len(l.buf) = l.buf_size
           /\ l.data_len <= l.w_sz_limit /\ l.w_sz_limit <= l.buf_size
           /\ Pending(l) \in Text /\ (l.data_len = 0 => Pending(l) = <<>>)
           /\ l # <<>>
  <1>1. /\ l.buf \in Text /\ l.buf_size \in Nat /\ l.data_len \in Nat /\ l.w_sz_limit \in Nat
    BY DEF IsLog, LogType
  <1>2. \A s \in Text, n \in Nat : n <= Len(s) =>
            /\ SubSeq(s, 1, n) \in Text
            /\ n = 0 => SubSeq(s, 1, n) = <<>>
    BY DEF Text
  <1>3. l.data_len <= Len(l.buf)
    BY <1>1 DEF IsLog
  <1>4. "buf" \in DOMAIN l /\ "buf" \notin DOMAIN <<>>
    BY DEF IsLog, LogType
  <1>5. QED
    BY <1>1, <1>2, <1>3, <1>4 DEF IsLog, Pending

\* f1g_log_init makes an empty log, and writing out leaves one.
LEMMA EmptyLogs ==
    /\ \A s \in LogSizes : LET l == f1g_log_init(s[1], s[2]) IN IsLog(l) /\ l.data_len = 0
    /\ \A l : IsLog(l) => /\ IsLog(Flushed(l)) /\ Flushed(l).data_len = 0
                          /\ Flushed(l).buf_size = l.buf_size
  <1>1. ASSUME NEW s \in LogSizes
        PROVE  LET l == f1g_log_init(s[1], s[2]) IN IsLog(l) /\ l.data_len = 0
    <2> DEFINE n == s[1]
               m == s[2]
               mem == Filled(NUL, n)
               l == f1g_log_init(n, m)
    <2>1. n \in Nat /\ m \in Nat /\ 0 <= m /\ m <= n
      BY LogAssumption
    <2> HIDE DEF n, m
    <2>2. mem \in Text /\ Len(mem) = n
      <3>1. NUL \in Char
        BY DEF Char
      <3>2. QED
        BY <2>1, <3>1, FilledSeq DEF Text
    <2>3. /\ l \in LogType /\ l.buf = mem /\ l.buf_size = n /\ l.data_len = 0
          /\ l.w_sz_limit = m
      <3> HIDE DEF mem
      <3>1. l = [buf |-> mem, buf_size |-> n, data_len |-> 0, w_sz_limit |-> m]
        BY DEF f1g_log_init, mem
      <3>2. QED
        BY <2>1, <2>2, <3>1 DEF LogType
    <2> HIDE DEF mem, l
    <2>4. IsLog(l) /\ l.data_len = 0
      BY <2>1, <2>2, <2>3 DEF IsLog
    <2>5. QED
      BY <2>4 DEF l, n, m
  <1>2. ASSUME NEW l, IsLog(l)
        PROVE  /\ IsLog(Flushed(l)) /\ Flushed(l).data_len = 0
               /\ Flushed(l).buf_size = l.buf_size
    <2>1. /\ Flushed(l) \in LogType /\ Flushed(l).buf = l.buf
          /\ Flushed(l).buf_size = l.buf_size /\ Flushed(l).data_len = 0
          /\ Flushed(l).w_sz_limit = l.w_sz_limit
      BY <1>2 DEF Flushed, IsLog, LogType
    <2>2. QED
      BY <1>2, <2>1, LogFields DEF IsLog
  <1>3. QED
    BY <1>1, <1>2

\* A message printed behind what is pending; the length is not yet counted.
PrintInto(l, msg, cap) == [l EXCEPT !.buf = Printed(@, l.data_len + 1, msg, cap)]

\* It leaves what is pending, and comes behind it as far as the room goes.
LEMMA PrintedInto ==
    ASSUME NEW l, IsLog(l), NEW msg \in Text, NEW cap \in Int
    PROVE  LET p == PrintInto(l, msg, cap)
           IN  /\ IsLog(p) /\ p.data_len = l.data_len /\ p.buf_size = l.buf_size
               /\ p.w_sz_limit = l.w_sz_limit /\ Pending(p) = Pending(l)
               /\ l.data_len + Len(msg) <= l.buf_size =>
                    \E u : /\ Prints(u, msg, cap)
                           /\ SubSeq(p.buf, 1, l.data_len + Len(msg)) = Pending(l) \o u
  <1> DEFINE mem == l.buf
             n == l.data_len
             out == Printed(mem, n + 1, msg, cap)
             p == PrintInto(l, msg, cap)
  <1>0. /\ mem \in Text /\ n \in Nat /\ Len(mem) = l.buf_size /\ n <= Len(mem)
        /\ l \in LogType
    BY LogFields
  <1> HIDE DEF mem, n
  <1>1. /\ out \in Text /\ Len(out) = Len(mem) /\ SubSeq(out, 1, n) = SubSeq(mem, 1, n)
        /\ n + Len(msg) <= Len(mem) =>
             \E u : Prints(u, msg, cap) /\ SubSeq(out, 1, n + Len(msg)) = SubSeq(mem, 1, n) \o u
    BY <1>0, PrintedText
  <1>2. /\ p \in LogType /\ p.buf = out /\ p.buf_size = l.buf_size
        /\ p.data_len = n /\ p.w_sz_limit = l.w_sz_limit
    <2> HIDE DEF out
    <2>1. p = [l EXCEPT !.buf = out]
      BY DEF PrintInto, out, mem, n
    <2>2. QED
      BY <1>0, <1>1, <2>1 DEF LogType, n
  <1> HIDE DEF out, p
  <1>3. IsLog(p)
    BY <1>0, <1>1, <1>2 DEF IsLog, n
  <1>4. Pending(p) = SubSeq(out, 1, n) /\ Pending(l) = SubSeq(mem, 1, n)
    BY <1>2 DEF Pending, mem, n
  <1>5. QED
    BY <1>0, <1>1, <1>2, <1>3, <1>4 DEF p, n


\* The buffer made anew for a message that exceeds it, while it is empty.
LEMMA ExternBuf ==
    ASSUME NEW l, IsLog(l), l.data_len = 0, NEW n \in Nat
    PROVE  LET g == f1g_log_extern_buf(l, n + ExternRoom)
           IN  IsLog(g) /\ g.data_len = 0 /\ g.buf_size = n + ExternRoom /\ g.w_sz_limit = n
  <1> DEFINE size == n + ExternRoom
             mem == Put(Filled(NUL, size), 1, Pending(l))
             g == f1g_log_extern_buf(l, size)
  <1>0. l \in LogType /\ Pending(l) \in Text
    BY LogFields
  <1>1. size \in Nat /\ size - ExternRoom = n /\ n <= size
    BY LogAssumption
  <1> HIDE DEF size
  <1>2. mem \in Text /\ Len(mem) = size
    <2> DEFINE F == Filled(NUL, size)
               t == Pending(l)
    <2>1. NUL \in Char
      BY DEF Char
    <2>2. F \in Text /\ Len(F) = size /\ t \in Text /\ 1 \in Nat \ {0}
      BY <1>0, <1>1, <2>1, FilledSeq DEF Text
    <2> HIDE DEF F, t
    <2>3. Put(F, 1, t) \in Text /\ Len(Put(F, 1, t)) = Len(F)
      BY <2>2, PutText
    <2>4. QED
      BY <2>2, <2>3 DEF F, t
  <1>3. /\ g \in LogType /\ g.buf = mem /\ g.buf_size = size /\ g.data_len = 0
        /\ g.w_sz_limit = n
    <2> HIDE DEF mem
    <2>1. g = [l EXCEPT !.buf = mem, !.buf_size = size, !.w_sz_limit = n]
      BY <1>1 DEF f1g_log_extern_buf, mem
    <2>2. QED
      BY <1>0, <1>1, <1>2, <2>1 DEF LogType
  <1> HIDE DEF mem, g
  <1>4. IsLog(g) /\ g.data_len = 0 /\ g.buf_size = size /\ g.w_sz_limit = n
    BY <1>1, <1>2, <1>3 DEF IsLog
  <1>5. QED
    BY <1>4 DEF g, size

\* A message counted: the log, and what of it is pending then.
Counted(l, n) == [l EXCEPT !.data_len = @ + n]

\* The text that is pending once a message was counted.
LEMMA CountedLog ==
    ASSUME NEW l, IsLog(l), NEW n \in Nat, l.data_len + n <= l.buf_size
    PROVE  LET d == Counted(l, n)
           IN  /\ d \in LogType /\ Len(d.buf) = d.buf_size /\ d.data_len <= d.buf_size
               /\ d.data_len = l.data_len + n /\ d.w_sz_limit = l.w_sz_limit
               /\ d.w_sz_limit <= d.buf_size
               /\ Pending(d) = SubSeq(l.buf, 1, l.data_len + n)
  <1> DEFINE d == Counted(l, n)
  <1>0. /\ l \in LogType /\ l.data_len \in Nat /\ Len(l.buf) = l.buf_size
        /\ l.w_sz_limit <= l.buf_size
    BY LogFields
  <1>1. /\ d \in LogType /\ d.buf = l.buf /\ d.buf_size = l.buf_size
        /\ d.data_len = l.data_len + n /\ d.w_sz_limit = l.w_sz_limit
    BY <1>0 DEF Counted, LogType
  <1> HIDE DEF d
  <1>2. QED
    BY <1>0, <1>1 DEF d, Pending

\* One f1g_log_write: the log stays a log, and the message comes behind what
\* was pending, in the file or in the buffer, as far as its room went.
LEMMA LogsMessage ==
    ASSUME NEW l, IsLog(l), NEW msg \in Text
    PROVE  LET r == Logs(l, msg)
           IN  /\ IsLog(r.log) /\ r.out \in Text
               /\ r.room \in Int
               /\ \E u : Prints(u, msg, r.room) /\ r.out \o Pending(r.log) = Pending(l) \o u
  <1> DEFINE n == Len(msg)
             cap == l.w_sz_limit - l.data_len
             first == PrintInto(l, msg, cap)
             empty == Flushed(first)
             room == empty.buf_size - empty.data_len
             grown == IF n > room THEN f1g_log_extern_buf(empty, n + ExternRoom) ELSE empty
             again == PrintInto(grown, msg, room)
             late == n > cap
             last == IF late THEN again ELSE first
             done == Counted(last, n)
             limit == done.data_len >= done.w_sz_limit
             r == Logs(l, msg)
  <1>0. /\ n \in Nat /\ cap \in Nat /\ l.data_len \in Nat /\ l.data_len + cap = l.w_sz_limit
        /\ l.data_len + cap <= l.buf_size /\ Pending(l) \in Text /\ l.buf_size \in Nat
    BY LogFields DEF Text
  <1>1. /\ r.log = IF limit THEN Flushed(done) ELSE done
        /\ r.out = (IF late THEN Pending(first) ELSE <<>>) \o (IF limit THEN Pending(done) ELSE <<>>)
        /\ r.room = IF late THEN room ELSE cap
    BY DEF Logs, PrintInto, Counted
  <1> HIDE DEF r, n, cap, first
  <1>2. /\ IsLog(first) /\ first.data_len = l.data_len /\ first.buf_size = l.buf_size
        /\ first.w_sz_limit = l.w_sz_limit /\ Pending(first) = Pending(l)
        /\ n <= cap => \E u : /\ Prints(u, msg, cap)
                              /\ SubSeq(first.buf, 1, l.data_len + n) = Pending(l) \o u
    <2>1. cap \in Int
      BY <1>0
    <2>2. /\ IsLog(first) /\ first.data_len = l.data_len /\ first.buf_size = l.buf_size
          /\ first.w_sz_limit = l.w_sz_limit /\ Pending(first) = Pending(l)
          /\ l.data_len + Len(msg) <= l.buf_size =>
               \E u : /\ Prints(u, msg, cap)
                      /\ SubSeq(first.buf, 1, l.data_len + Len(msg)) = Pending(l) \o u
      BY <2>1, PrintedInto DEF first
    <2>3. n <= cap => l.data_len + n <= l.buf_size
      BY <1>0
    <2>4. QED
      BY <2>2, <2>3 DEF n
  <1> HIDE DEF empty
  <1>3. IsLog(empty) /\ empty.data_len = 0 /\ empty.buf_size = l.buf_size
    BY <1>2, EmptyLogs DEF empty
  <1> HIDE DEF room, grown
  <1>4. /\ room = l.buf_size /\ IsLog(grown) /\ grown.data_len = 0
        /\ grown.buf_size \in Nat /\ n <= grown.buf_size
        /\ n < room => grown = empty
        /\ n >= room => grown.w_sz_limit <= n
    <2>1. room = l.buf_size
      BY <1>0, <1>3 DEF room
    <2>2. CASE n > room
      <3>1. IsLog(grown) /\ grown.data_len = 0 /\ grown.buf_size = n + ExternRoom
            /\ grown.w_sz_limit = n
        BY <1>0, <1>3, <2>2, ExternBuf DEF grown
      <3>2. QED
        BY <1>0, <2>1, <2>2, <3>1, LogAssumption
    <2>3. CASE ~(n > room)
      <3>1. grown = empty
        BY <2>3 DEF grown
      <3>2. empty.w_sz_limit <= empty.buf_size /\ empty.w_sz_limit \in Nat
        BY <1>3, LogFields
      <3>3. QED
        BY <1>0, <1>3, <2>1, <2>3, <3>1, <3>2
    <2>4. QED
      BY <2>1, <2>2, <2>3
  <1> HIDE DEF again
  <1>5. /\ IsLog(again) /\ again.data_len = 0 /\ again.buf_size = grown.buf_size
        /\ again.w_sz_limit = grown.w_sz_limit
        /\ \E u : Prints(u, msg, room) /\ SubSeq(again.buf, 1, n) = u
    <2>1. room \in Int /\ 0 + n <= grown.buf_size
      BY <1>0, <1>3, <1>4
    <2>2. /\ IsLog(again) /\ again.data_len = grown.data_len
          /\ again.buf_size = grown.buf_size /\ again.w_sz_limit = grown.w_sz_limit
          /\ grown.data_len + Len(msg) <= grown.buf_size =>
               \E u : /\ Prints(u, msg, room)
                      /\ SubSeq(again.buf, 1, grown.data_len + Len(msg)) = Pending(grown) \o u
      BY <1>4, <2>1, PrintedInto DEF again
    <2>3. Pending(grown) = <<>> /\ \A u \in Text : <<>> \o u = u
      BY <1>4, LogFields DEF Text
    <2>4. 0 + Len(msg) = n /\ grown.data_len + Len(msg) = n
      BY <1>0, <1>4 DEF n
    <2>5. PICK u : Prints(u, msg, room) /\ SubSeq(again.buf, 1, n) = Pending(grown) \o u
      BY <2>1, <2>2, <2>4
    <2>6. Pending(grown) \o u = u
      BY <2>3, <2>5 DEF Prints
    <2>7. QED
      BY <1>4, <2>2, <2>5, <2>6
  <1> HIDE DEF late
  <1>6. /\ IsLog(last) /\ last.data_len + n <= last.buf_size /\ last.data_len \in Nat
        /\ last.w_sz_limit \in Nat
    <2>1. CASE late
      BY <1>0, <1>4, <1>5, <2>1, LogFields
    <2>2. CASE ~late
      BY <1>0, <1>2, <2>2, LogFields DEF late
    <2>3. QED
      BY <2>1, <2>2
  <1> HIDE DEF last, done
  <1>7. /\ done \in LogType /\ Len(done.buf) = done.buf_size /\ done.data_len <= done.buf_size
        /\ done.data_len = last.data_len + n /\ done.w_sz_limit = last.w_sz_limit
        /\ done.w_sz_limit <= done.buf_size
        /\ Pending(done) = SubSeq(last.buf, 1, last.data_len + n)
    BY <1>0, <1>6, CountedLog DEF done
  <1>8. Pending(done) \in Text /\ done.data_len \in Nat /\ done.w_sz_limit \in Nat
    <2>1. done.buf \in Text /\ done.data_len \in Nat /\ done.w_sz_limit \in Nat
      BY <1>7 DEF LogType
    <2>2. \A s \in Text, k \in Nat : k <= Len(s) => SubSeq(s, 1, k) \in Text
      BY DEF Text
    <2>3. QED
      BY <1>7, <2>1, <2>2 DEF Pending
  <1> HIDE DEF limit
  <1>9. IsLog(r.log) /\ (limit => Pending(r.log) = <<>>) /\ (~limit => r.log = done)
    <2>1. CASE limit
      <3> DEFINE f == Flushed(done)
      <3>1. /\ f \in LogType /\ f.buf = done.buf /\ f.buf_size = done.buf_size
            /\ f.data_len = 0 /\ f.w_sz_limit = done.w_sz_limit
        BY <1>7 DEF Flushed, LogType
      <3> HIDE DEF f
      <3>2. IsLog(f)
        BY <1>7, <1>8, <3>1 DEF IsLog
      <3>3. Pending(f) = <<>>
        BY <3>1, <3>2, LogFields
      <3>4. QED
        BY <1>1, <2>1, <3>2, <3>3 DEF f
    <2>2. CASE ~limit
      <3>1. done.data_len <= done.w_sz_limit
        BY <1>8, <2>2 DEF limit
      <3>2. IsLog(done)
        BY <1>7, <3>1 DEF IsLog
      <3>3. QED
        BY <1>1, <2>2, <3>2
    <2>3. QED
      BY <2>1, <2>2
  <1>10. \E u : /\ Prints(u, msg, r.room)
                /\ (IF late THEN Pending(l) ELSE <<>>) \o Pending(done) = Pending(l) \o u
    <2>1. CASE late
      <3>1. last = again /\ r.room = room
        BY <1>1, <2>1 DEF last
      <3>2. last.data_len + n = n
        BY <1>0, <1>5, <3>1
      <3>3. PICK u : Prints(u, msg, room) /\ SubSeq(again.buf, 1, n) = u
        BY <1>5
      <3>4. Pending(done) = u
        BY <1>7, <3>1, <3>2, <3>3
      <3>5. QED
        BY <2>1, <3>1, <3>3, <3>4
    <2>2. CASE ~late
      <3>1. last = first /\ r.room = cap /\ n <= cap
        BY <1>0, <1>1, <2>2 DEF last, late
      <3>2. PICK u : Prints(u, msg, cap) /\ SubSeq(first.buf, 1, l.data_len + n) = Pending(l) \o u
        BY <1>2, <3>1
      <3>3. Pending(done) = Pending(l) \o u
        BY <1>2, <1>7, <3>1, <3>2
      <3>4. <<>> \o Pending(done) = Pending(done)
        BY <1>8 DEF Text
      <3>5. QED
        BY <2>2, <3>1, <3>2, <3>3, <3>4
    <2>3. QED
      BY <2>1, <2>2
  <1>11. /\ r.out \in Text
         /\ r.out \o Pending(r.log) = (IF late THEN Pending(l) ELSE <<>>) \o Pending(done)
    <2> DEFINE a == IF late THEN Pending(l) ELSE <<>>
    <2>1. a \in Text /\ <<>> \in Text
      BY <1>0 DEF Text
    <2>2. r.out = a \o (IF limit THEN Pending(done) ELSE <<>>)
      BY <1>1, <1>2
    <2> HIDE DEF a
    <2>3. \A u, v \in Text : u \o v \in Text /\ u \o <<>> = u
      BY DEF Text
    <2>4. a \o Pending(done) \in Text
      BY <1>8, <2>1, <2>3
    <2>5. CASE limit
      BY <1>9, <2>2, <2>3, <2>4, <2>5 DEF a
    <2>6. CASE ~limit
      <3>1. r.out = a /\ r.log = done
        BY <1>9, <2>1, <2>2, <2>3, <2>6
      <3>2. QED
        BY <2>1, <3>1 DEF a
    <2>7. QED
      BY <2>5, <2>6
  <1>12. r.room \in Int
    <2>1. room \in Int /\ cap \in Int
      BY <1>0, <1>4
    <2>2. QED
      BY <1>1, <2>1
  <1>13. \E u : Prints(u, msg, r.room) /\ r.out \o Pending(r.log) = Pending(l) \o u
    BY <1>10, <1>11
  <1>14. QED
    BY <1>9, <1>11, <1>12, <1>13, Zenon DEF r


\* The inductive invariant of the log.
LogInv ==
    /\ plog # <<>> => IsLog(plog)
    /\ lfile \in Text /\ logged \in Text
    /\ LogComplete

\* Every call of the log keeps it.
LEMMA LogStep == ASSUME LogInv, [LogNext]_lvars PROVE LogInv'
  <1>0. /\ lfile \in Text /\ logged \in Text /\ <<>> \in Text
        /\ \A u \in Text : u \o <<>> = u
        /\ \A u, v \in Text : u \o v \in Text
    BY DEF LogInv, Text
  <1>1. ASSUME NEW msg \in Messages, f1g_log_write(msg) PROVE LogInv'
    <2> DEFINE r == Logs(plog, msg)
               p == Pending(plog)
               q == Pending(r.log)
    <2>1. msg \in Text
      <3>1. \A s \in Seq(STRING) : s \in Text
        BY DEF Text, Char
      <3>2. QED
        BY <3>1, LogAssumption
    <2>2. /\ plog # <<>> /\ IsLog(plog) /\ plog' = r.log /\ lfile' = lfile \o r.out
          /\ logged' = logged \o msg /\ lcut' = lcut \cup CutOff(logged, msg, r.room)
      BY <1>1 DEF LogInv, f1g_log_write
    <2>3. p \in Text
      BY <2>2, LogFields
    <2>4. /\ IsLog(r.log) /\ r.out \in Text /\ r.room \in Int
          /\ \E u : Prints(u, msg, r.room) /\ r.out \o q = p \o u
      BY <2>1, <2>2, LogsMessage
    <2> HIDE DEF r
    <2>5. q \in Text /\ plog' # <<>>
      BY <2>2, <2>4, LogFields
    <2>6. lfile' \in Text /\ logged' \in Text
      BY <1>0, <2>1, <2>2, <2>4
    <2>7. AgreeBut(lfile \o p, logged, lcut)
      BY <2>2 DEF LogInv, LogComplete
    <2> HIDE DEF p, q
    <2>8. PICK u : Prints(u, msg, r.room) /\ r.out \o q = p \o u
      BY <2>4
    <2>9. lfile' \o q = (lfile \o p) \o u
      <3> DEFINE o == r.out
      <3>1. /\ lfile \in Text /\ o \in Text /\ q \in Text /\ p \in Text /\ u \in Text
            /\ o \o q = p \o u
        BY <1>0, <2>3, <2>4, <2>5, <2>8 DEF Prints
      <3> HIDE DEF o
      <3>2. (lfile \o o) \o q = lfile \o (o \o q) /\ (lfile \o p) \o u = lfile \o (p \o u)
        <4>1. \A x, y, z \in Text : (x \o y) \o z = x \o (y \o z)
          BY DEF Text
        <4>2. QED
          BY <3>1, <4>1
      <3>3. (lfile \o o) \o q = (lfile \o p) \o u
        BY <3>1, <3>2
      <3>4. QED
        BY <2>2, <3>3 DEF o
    <2>10. AgreeBut(lfile' \o q, logged', lcut')
      <3> DEFINE a == lfile \o p
                 room == r.room
      <3>1. a \in Text /\ AgreeBut(a, logged, lcut) /\ room \in Int /\ Prints(u, msg, room)
        BY <1>0, <2>3, <2>4, <2>7, <2>8
      <3> HIDE DEF a, room
      <3>2. AgreeBut(a \o u, logged \o msg, lcut \cup CutOff(logged, msg, room))
        BY <1>0, <2>1, <3>1, AgreeWithMore
      <3>3. QED
        BY <2>2, <2>9, <3>2 DEF a, room
    <2>11. LogComplete'
      BY <2>2, <2>5, <2>10 DEF LogComplete, q
    <2>12. QED
      BY <2>2, <2>4, <2>6, <2>11 DEF LogInv
  <1>2. ASSUME plog # <<>>, plog' = <<>> \/ (IsLog(plog') /\ Pending(plog') = <<>>),
               lfile' = lfile \o Pending(plog), logged' = logged, lcut' = lcut
        PROVE  LogInv'
    <2>1. IsLog(plog) /\ Pending(plog) \in Text
      BY <1>2, LogFields DEF LogInv
    <2>2. lfile' \in Text /\ lfile' \o <<>> = lfile'
      BY <1>0, <1>2, <2>1
    <2>3. AgreeBut(lfile \o Pending(plog), logged, lcut)
      BY <1>2 DEF LogInv, LogComplete
    <2>4. LogComplete'
      BY <1>2, <2>2, <2>3 DEF LogComplete
    <2>5. QED
      BY <1>0, <1>2, <2>2, <2>4 DEF LogInv
  <1>3. CASE LogFlush
    <2>1. /\ plog # <<>> /\ plog' = Flushed(plog) /\ lfile' = lfile \o Pending(plog)
          /\ logged' = logged /\ lcut' = lcut /\ IsLog(plog)
      BY <1>3 DEF LogFlush, LogInv
    <2>2. IsLog(plog') /\ plog'.data_len = 0
      BY <2>1, EmptyLogs
    <2>3. Pending(plog') = <<>>
      BY <2>2, LogFields
    <2>4. QED
      BY <1>2, <2>1, <2>2, <2>3
  <1>4. CASE f1g_log_destroy
    BY <1>2, <1>4 DEF f1g_log_destroy
  <1>5. CASE LogOpen
    <2>1. PICK s \in LogSizes : plog' = f1g_log_init(s[1], s[2])
      BY <1>5 DEF LogOpen
    <2>2. plog = <<>> /\ lfile' = lfile /\ logged' = logged /\ lcut' = lcut
      BY <1>5 DEF LogOpen
    <2>3. IsLog(plog') /\ plog'.data_len = 0
      BY <2>1, EmptyLogs
    <2>4. Pending(plog') = <<>>
      BY <2>3, LogFields
    <2>5. LogComplete'
      BY <2>2, <2>4 DEF LogInv, LogComplete
    <2>6. QED
      BY <2>2, <2>3, <2>5 DEF LogInv
  <1>6. CASE UNCHANGED lvars
    BY <1>6 DEF LogInv, LogComplete, lvars
  <1>7. QED
    BY <1>1, <1>3, <1>4, <1>5, <1>6 DEF LogNext

\* The file followed by what is pending is every message once, in order, each
\* as far as its room went, while the buffer fills, is flushed and grows: for
\* every size of the buffer and every limit within it (f1g_log.c:62-107).
THEOREM LogKeepsMessages == LogSpec => []LogComplete
  <1>1. LogIdle => LogInv
    <2>1. <<>> \in Text /\ <<>> \o <<>> = <<>> /\ AgreeBut(<<>>, <<>>, {})
      BY DEF Text, AgreeBut
    <2>2. QED
      BY <2>1 DEF LogIdle, LogInv, LogComplete
  <1>2. LogInv /\ [LogNext]_lvars => LogInv'
    BY LogStep
  <1>3. LogInv => LogComplete
    BY DEF LogInv
  <1>4. QED
    BY <1>1, <1>2, <1>3, PTL DEF LogSpec

-----------------------------------------------------------------------------
(* RegSet.                                                                 *)

Rule == [rule : Text, reg_value : Text]
RuleSet == [rule_num : Nat, rule_size : Nat, p_rules : Seq(Rule)]
Entry(r) == [rule |-> r.rule, reg_value |-> r.value]

\* The inductive invariant: the table holds the rules added, in their order,
\* and has at least the entries it says.
Table(rs, added) ==
    /\ rs \in RuleSet /\ added \in Seq([rule : Text, value : Text])
    /\ rs.rule_num = Len(added) /\ rs.rule_num <= rs.rule_size
    /\ rs.rule_size <= Len(rs.p_rules)
    /\ \A i \in 1 .. Len(added) : rs.p_rules[i] = Entry(added[i])
RegInv == Table(prs, ruled)

\* The buffer of a rule has room for it.
LEMMA RuleBuffered ==
    ASSUME NEW t \in Text
    PROVE  buffer_data(buffer_append(buffer_init(Len(t) + RuleRoom), t)) = t
  <1> DEFINE b == buffer_init(Len(t) + RuleRoom)
  <1>1. Len(t) \in Nat /\ Len(t) + RuleRoom \in Nat /\ Len(t) <= Len(t) + RuleRoom
    BY RuleAssumption DEF Text
  <1>2. IsBuffer(b) /\ b.len = 0 /\ buffer_cap(b) = Len(t) + RuleRoom
    BY <1>1, NewBuffer
  <1> HIDE DEF b
  <1>3. buffer_data(buffer_append(b, t)) = buffer_data(b) \o Cut(t, buffer_cap(b))
    BY <1>2, Appended
  <1>4. buffer_data(b) = <<>>
    BY <1>2, BufferData
  <1>5. Cut(t, buffer_cap(b)) = t
    BY <1>1, <1>2, CutText
  <1>6. <<>> \o t = t
    BY DEF Text
  <1>7. QED
    BY <1>3, <1>4, <1>5, <1>6 DEF b

\* The same of a table of rules copied to the beginning of a larger one.
LEMMA PutRules ==
    ASSUME NEW a \in Seq(Rule), NEW b \in Seq(Rule)
    PROVE  /\ Put(a, 1, b) \in Seq(Rule) /\ Len(Put(a, 1, b)) = Len(a)
           /\ \A i \in 1 .. Len(a) : Put(a, 1, b)[i] =
                IF i \in 1 .. (1 + Len(b) - 1) THEN b[i - 1 + 1] ELSE a[i]
  <1>1. 1 \in Nat \ {0}
    OBVIOUS
  <1>2. QED
    BY <1>1, PutSeq

\* The table that grows keeps its rules.
LEMMA GrownTable ==
    ASSUME NEW rs, NEW added, Table(rs, added), NEW size \in Nat, rs.rule_num < size
    PROVE  LET g == regset_enlarge_cap(rs, size)
           IN  Table(g, added) /\ g.rule_num < g.rule_size
  <1> DEFINE n == rs.rule_num
             F == Filled(NoRule, size)
             t == SubSeq(rs.p_rules, 1, n)
             mem == Put(F, 1, t)
             g == regset_enlarge_cap(rs, size)
  <1>0. /\ rs \in RuleSet /\ n \in Nat /\ rs.p_rules \in Seq(Rule) /\ n <= Len(rs.p_rules)
        /\ n = Len(added) /\ n < size
    <2>1. rs \in RuleSet /\ n \in Nat /\ rs.rule_size \in Nat /\ rs.p_rules \in Seq(Rule)
      BY DEF Table, RuleSet
    <2>2. QED
      BY <2>1 DEF Table
  <1>1. /\ t \in Seq(Rule) /\ Len(t) = n /\ \A i \in 1 .. n : t[i] = rs.p_rules[i]
    BY <1>0
  <1>2. F \in Seq(Rule) /\ Len(F) = size
    <2>1. NoRule \in Rule
      BY DEF NoRule, Rule, Text
    <2>2. QED
      BY <2>1, FilledSeq
  <1> HIDE DEF F, t
  <1>3. /\ mem \in Seq(Rule) /\ Len(mem) = Len(F)
        /\ \A i \in 1 .. Len(F) : mem[i] = IF i \in 1 .. (1 + Len(t) - 1) THEN t[i - 1 + 1] ELSE F[i]
    BY <1>1, <1>2, PutRules
  <1> HIDE DEF mem
  <1>4. \A i \in 1 .. n : mem[i] = rs.p_rules[i]
    <2> HIDE DEF n
    <2> SUFFICES ASSUME NEW i \in 1 .. n PROVE mem[i] = rs.p_rules[i]
      OBVIOUS
    <2>1. i \in 1 .. Len(F) /\ i \in 1 .. (1 + Len(t) - 1) /\ i - 1 + 1 = i
      BY <1>0, <1>1, <1>2
    <2>2. mem[i] = t[i - 1 + 1]
      BY <1>3, <2>1
    <2>3. QED
      BY <1>1, <2>1, <2>2
  <1>5. /\ g \in RuleSet /\ g.rule_num = n /\ g.rule_size = size /\ g.p_rules = mem
    <2>1. g = [rs EXCEPT !.rule_size = size, !.p_rules = mem]
      BY DEF regset_enlarge_cap, mem, F, t
    <2> HIDE DEF g
    <2>2. QED
      BY <1>0, <1>3, <2>1 DEF RuleSet
  <1> HIDE DEF g
  <1>6. Table(g, added)
    BY <1>0, <1>2, <1>3, <1>4, <1>5 DEF Table
  <1>7. QED
    BY <1>0, <1>5, <1>6 DEF g


\* A set of numbers that is not empty has its minimum.
LEMMA MinIsMember ==
    ASSUME NEW T, T \subseteq Nat, T # {}
    PROVE  Min(T) \in T
  <1> DEFINE R == OpToRel(<, Nat)
  <1>1. IsWellFoundedOn(R, Nat)
    BY NatLessThanWellFounded
  <1>2. \A x, y \in Nat : x < y => <<x, y>> \in R
    BY DEF OpToRel
  <1> HIDE DEF R
  <1>3. PICK x \in T : \A y \in T : ~(<<y, x>> \in R)
    BY <1>1, WFMin
  <1>4. \A y \in T : x =< y
    <2> SUFFICES ASSUME NEW y \in T PROVE x =< y
      OBVIOUS
    <2>1. x \in Nat /\ y \in Nat /\ ~(y < x)
      BY <1>2, <1>3
    <2>2. QED
      BY <2>1
  <1>5. QED
    BY <1>4 DEF Min

\* A rule is added behind the others, after the table has grown if it was full.
LEMMA RuleAdded ==
    ASSUME RegInv, RegNext
    PROVE  RegInv'
  <1>1. PICK rule \in Rules, value \in Values :
            /\ prs' = regset_addreg(prs, rule, value)
            /\ ruled' = Append(ruled, [rule |-> rule, value |-> value])
    BY DEF RegNext
  <1> DEFINE room == IF prs.rule_num >= prs.rule_size
                     THEN regset_enlarge_cap(prs, prs.rule_size + RuleStep) ELSE prs
             n == prs.rule_num
             r == [rule |-> rule, value |-> value]
  <1>2. rule \in Text /\ value \in Text
    <2>1. \A s \in Seq(STRING) : s \in Text
      BY DEF Text, Char
    <2>2. QED
      BY <2>1, RuleAssumption
  <1>3. r \in [rule : Text, value : Text] /\ Entry(r) = [rule |-> rule, reg_value |-> value]
        /\ Entry(r) \in Rule
    BY <1>2 DEF Entry, Rule
  <1>4. /\ ruled \in Seq([rule : Text, value : Text]) /\ n = Len(ruled) /\ n \in Nat
        /\ prs.rule_size \in Nat /\ n <= prs.rule_size
    BY DEF RegInv, Table, RuleSet
  <1> HIDE DEF room, r
  <1>5. Table(room, ruled) /\ room.rule_num < room.rule_size
    <2>1. CASE n >= prs.rule_size
      <3>1. prs.rule_size + RuleStep \in Nat /\ n < prs.rule_size + RuleStep
        BY <1>4, <2>1, RuleAssumption
      <3>2. QED
        BY <2>1, <3>1, GrownTable DEF room, RegInv
    <2>2. CASE ~(n >= prs.rule_size)
      BY <1>4, <2>2 DEF room, RegInv
    <2>3. QED
      BY <2>1, <2>2
  <1>6. /\ room \in RuleSet /\ room.rule_num = n /\ room.rule_size \in Nat
        /\ room.p_rules \in Seq(Rule) /\ n < room.rule_size
        /\ room.rule_size <= Len(room.p_rules)
        /\ \A i \in 1 .. n : room.p_rules[i] = Entry(ruled[i])
    BY <1>4, <1>5 DEF Table, RuleSet
  <1> DEFINE rules == [room.p_rules EXCEPT ![n + 1] = Entry(r)]
  <1>7. prs' = [room EXCEPT !.p_rules = rules, !.rule_num = n + 1]
    <2>1. prs' = [room EXCEPT !.p_rules[n + 1] = [rule |-> rule, reg_value |-> value],
                              !.rule_num = @ + 1]
      BY <1>1, <1>2, RuleBuffered DEF regset_addreg, room
    <2>2. QED
      BY <1>3, <1>6, <2>1
  <1>8. /\ rules \in Seq(Rule) /\ Len(rules) = Len(room.p_rules)
        /\ rules[n + 1] = Entry(r) /\ \A i \in 1 .. n : rules[i] = room.p_rules[i]
    <2> DEFINE mem == room.p_rules
               e == Entry(r)
    <2>1. mem \in Seq(Rule) /\ n + 1 \in 1 .. Len(mem) /\ e \in Rule
      BY <1>3, <1>4, <1>6
    <2> HIDE DEF mem, e, n
    <2>2. LET m == [mem EXCEPT ![n + 1] = e]
          IN  /\ m \in Seq(Rule) /\ Len(m) = Len(mem) /\ m[n + 1] = e
              /\ \A i \in 1 .. n : m[i] = mem[i]
      BY <1>4, <2>1
    <2>3. QED
      BY <2>2 DEF mem, e
  <1> HIDE DEF rules
  <1>9. /\ prs' \in RuleSet /\ prs'.p_rules = rules /\ prs'.rule_num = n + 1
        /\ prs'.rule_size = room.rule_size
    <2> DEFINE k == n + 1
    <2>1. k \in Nat
      BY <1>4
    <2> HIDE DEF k, n
    <2>2. LET s == [room EXCEPT !.p_rules = rules, !.rule_num = k]
          IN  /\ s \in RuleSet /\ s.p_rules = rules /\ s.rule_num = k
              /\ s.rule_size = room.rule_size
      BY <1>6, <1>8, <2>1 DEF RuleSet
    <2>3. QED
      BY <1>7, <2>2 DEF k
  <1>10. /\ ruled' \in Seq([rule : Text, value : Text]) /\ Len(ruled') = n + 1
         /\ ruled'[n + 1] = r /\ \A i \in 1 .. n : ruled'[i] = ruled[i]
    BY <1>1, <1>3, <1>4 DEF r
  <1>11. \A i \in 1 .. (n + 1) : prs'.p_rules[i] = Entry(ruled'[i])
    <2> SUFFICES ASSUME NEW i \in 1 .. (n + 1) PROVE rules[i] = Entry(ruled'[i])
      BY <1>9
    <2>1. i \in 1 .. n \/ i = n + 1
      BY <1>4
    <2>2. QED
      BY <1>6, <1>8, <1>10, <2>1
  <1> HIDE DEF n
  <1>12. QED
    BY <1>4, <1>6, <1>8, <1>9, <1>10, <1>11 DEF RegInv, Table

\* However often the table grew, a text gets the value of the first rule ever
\* added that occurs in it, and none if no rule does.
THEOREM FirstRuleWins == RegSpec => []FirstRuleMatches
  <1>1. RegInit => RegInv
    <2> SUFFICES ASSUME RegInit PROVE RegInv
      OBVIOUS
    <2>1. PICK k \in {0, RuleStep - 1} : prs = regset_create(k)
      BY DEF RegInit
    <2> DEFINE n == IF k <= 0 THEN RuleStep ELSE k
               F == Filled(NoRule, n)
    <2>2. n \in Nat
      BY RuleAssumption
    <2> HIDE DEF n
    <2>3. F \in Seq(Rule) /\ Len(F) \in Nat
      <3>1. NoRule \in Rule
        BY DEF NoRule, Rule, Text
      <3>2. QED
        BY <2>2, <3>1, FilledSeq
    <2> HIDE DEF F
    <2>4. prs = [rule_num |-> 0, rule_size |-> 0, p_rules |-> F]
      BY <2>1 DEF regset_create, F, n
    <2>5. prs \in RuleSet /\ prs.rule_num = 0 /\ prs.rule_size = 0 /\ prs.p_rules = F
      BY <2>3, <2>4 DEF RuleSet
    <2>6. ruled = <<>> /\ ruled \in Seq([rule : Text, value : Text]) /\ Len(ruled) = 0
      BY DEF RegInit
    <2>7. QED
      BY <2>3, <2>5, <2>6 DEF RegInv, Table
  <1>2. ASSUME RegInv, [RegNext]_rsvars PROVE RegInv'
    <2>1. CASE UNCHANGED rsvars
      BY <1>2, <2>1 DEF RegInv, rsvars
    <2>2. QED
      BY <1>2, <2>1, RuleAdded
  <1>3. RegInv => FirstRuleMatches
    <2> SUFFICES ASSUME RegInv, NEW data \in RuleData
                 PROVE  LET hits == {i \in DOMAIN ruled : Occurs(ruled[i].rule, data)}
                        IN  regset_match(prs, data) =
                                IF hits = {} THEN <<>> ELSE <<ruled[Min(hits)].value>>
      BY DEF FirstRuleMatches
    <2> DEFINE hits == {i \in DOMAIN ruled : Occurs(ruled[i].rule, data)}
               found == {i \in 1 .. prs.rule_num : Occurs(prs.p_rules[i].rule, data)}
    <2>1. DOMAIN ruled = 1 .. Len(ruled) /\ prs.rule_num = Len(ruled)
      BY DEF RegInv, Table
    <2>2. \A i \in DOMAIN ruled : /\ prs.p_rules[i].rule = ruled[i].rule
                                  /\ prs.p_rules[i].reg_value = ruled[i].value
      <3>1. \A i \in DOMAIN ruled : prs.p_rules[i] = Entry(ruled[i])
        BY <2>1 DEF RegInv, Table
      <3>2. \A r : Entry(r).rule = r.rule /\ Entry(r).reg_value = r.value
        BY DEF Entry
      <3>3. QED
        BY <3>1, <3>2
    <2>3. found = hits
      BY <2>1, <2>2
    <2>4. hits \subseteq Int /\ hits \subseteq DOMAIN ruled
      BY <2>1
    <2> HIDE DEF hits, found
    <2>5. hits # {} => Min(hits) \in hits
      <3>1. hits \subseteq Nat
        BY <2>1 DEF hits
      <3>2. QED
        BY <3>1, MinIsMember
    <2>6. QED
      BY <2>2, <2>3, <2>4, <2>5 DEF regset_match, hits, found
  <1>4. QED
    BY <1>1, <1>2, <1>3, PTL DEF RegSpec

-----------------------------------------------------------------------------
(* HttpObject: the bit array.                                              *)

\* The values of the single bits of a byte.
LEMMA BitTable ==
    /\ Bit[1] = 1 /\ Bit[2] = 2 /\ Bit[3] = 4 /\ Bit[4] = 8
    /\ Bit[5] = 16 /\ Bit[6] = 32 /\ Bit[7] = 64 /\ Bit[8] = 128
  BY DEF Bit

\* The byte divided by the value of the k-th bit is 1 if and only if that bit is
\* set and no higher one.
LEMMA HighestBit ==
    ASSUME NEW b \in 0 .. 255
    PROVE  /\ (b * 128) \div 128 = 1 <=> b = 1
           /\ (b * 64) \div 128 = 1 <=> b \in 2 .. 3
           /\ (b * 32) \div 128 = 1 <=> b \in 4 .. 7
           /\ (b * 16) \div 128 = 1 <=> b \in 8 .. 15
           /\ (b * 8) \div 128 = 1 <=> b \in 16 .. 31
           /\ (b * 4) \div 128 = 1 <=> b \in 32 .. 63
           /\ (b * 2) \div 128 = 1 <=> b \in 64 .. 127
           /\ (b * 1) \div 128 = 1 <=> b \in 128 .. 255
  OBVIOUS

LEMMA BitsOfByte ==
    ASSUME NEW b \in 0 .. 255
    PROVE  LET S(q) == (b \div q) % 2 = 1
           IN  /\ S(128) <=> b \in 128 .. 255
               /\ S(64) /\ ~S(128) <=> b \in 64 .. 127
               /\ S(32) /\ ~S(64) /\ ~S(128) <=> b \in 32 .. 63
               /\ S(16) /\ ~S(32) /\ ~S(64) /\ ~S(128) <=> b \in 16 .. 31
               /\ S(8) /\ ~S(16) /\ ~S(32) /\ ~S(64) /\ ~S(128) <=> b \in 8 .. 15
               /\ S(4) /\ ~S(8) /\ ~S(16) /\ ~S(32) /\ ~S(64) /\ ~S(128) <=> b \in 4 .. 7
               /\ S(2) /\ ~S(4) /\ ~S(8) /\ ~S(16) /\ ~S(32) /\ ~S(64) /\ ~S(128)
                    <=> b \in 2 .. 3
               /\ S(1) /\ ~S(2) /\ ~S(4) /\ ~S(8) /\ ~S(16) /\ ~S(32) /\ ~S(64) /\ ~S(128)
                    <=> b = 1
  <1> DEFINE S(q) == (b \div q) % 2 = 1
  <1>1. S(128) <=> b \in 128 .. 255
    OBVIOUS
  <1>2. b < 128 => (S(64) <=> b \in 64 .. 127)
    OBVIOUS
  <1>3. b < 64 => (S(32) <=> b \in 32 .. 63)
    OBVIOUS
  <1>4. b < 32 => (S(16) <=> b \in 16 .. 31)
    OBVIOUS
  <1>5. b < 16 => (S(8) <=> b \in 8 .. 15)
    OBVIOUS
  <1>6. b < 8 => (S(4) <=> b \in 4 .. 7)
    OBVIOUS
  <1>7. b < 4 => (S(2) <=> b \in 2 .. 3)
    OBVIOUS
  <1>8. b < 2 => (S(1) <=> b = 1)
    OBVIOUS
  <1> HIDE DEF S
  <1>9. b \in Int /\ 0 <= b /\ b <= 255
    OBVIOUS
  <1>10. QED
    BY <1>1, <1>2, <1>3, <1>4, <1>5, <1>6, <1>7, <1>8, <1>9 DEF S

\* bit_array_bit_value gives 1 for a bit that is set if no higher one of the
\* same byte is, and for no other.
LEMMA BitValue ==
    ASSUME NEW b \in 0 .. 255, NEW k \in 0 .. 7
    PROVE  (b * Bit[8 - k]) \div Bit[8] = 1
             <=> IsSet(b, k) /\ \A l \in 0 .. 7 : k < l => ~IsSet(b, l)
  <1> DEFINE S(q) == (b \div q) % 2 = 1
  <1>1. /\ IsSet(b, 0) <=> S(1)
        /\ IsSet(b, 1) <=> S(2)
        /\ IsSet(b, 2) <=> S(4)
        /\ IsSet(b, 3) <=> S(8)
        /\ IsSet(b, 4) <=> S(16)
        /\ IsSet(b, 5) <=> S(32)
        /\ IsSet(b, 6) <=> S(64)
        /\ IsSet(b, 7) <=> S(128)
    <2>1. \A j \in 0 .. 7 : IsSet(b, j) <=> S(Bit[j + 1])
      BY DEF IsSet
    <2>2. /\ 0 + 1 = 1 /\ 1 + 1 = 2 /\ 2 + 1 = 3 /\ 3 + 1 = 4
          /\ 4 + 1 = 5 /\ 5 + 1 = 6 /\ 6 + 1 = 7 /\ 7 + 1 = 8
          /\ \A n \in {0, 1, 2, 3, 4, 5, 6, 7} : n \in 0 .. 7
      OBVIOUS
    <2> HIDE DEF S
    <2>3. /\ IsSet(b, 0) <=> S(Bit[1])
          /\ IsSet(b, 1) <=> S(Bit[2])
          /\ IsSet(b, 2) <=> S(Bit[3])
          /\ IsSet(b, 3) <=> S(Bit[4])
          /\ IsSet(b, 4) <=> S(Bit[5])
          /\ IsSet(b, 5) <=> S(Bit[6])
          /\ IsSet(b, 6) <=> S(Bit[7])
          /\ IsSet(b, 7) <=> S(Bit[8])
      BY <2>1, <2>2
    <2>4. QED
      BY <2>3, BitTable
  <1>2. \A n \in 0 .. 7 : n = 0 \/ n = 1 \/ n = 2 \/ n = 3 \/ n = 4 \/ n = 5 \/ n = 6 \/ n = 7
    OBVIOUS
  <1> DEFINE Above(n) == \A l \in 0 .. 7 : n < l => ~IsSet(b, l)
  <1>3. /\ Above(7)
        /\ Above(6) <=> ~IsSet(b, 7)
        /\ Above(5) <=> ~IsSet(b, 6) /\ Above(6)
        /\ Above(4) <=> ~IsSet(b, 5) /\ Above(5)
        /\ Above(3) <=> ~IsSet(b, 4) /\ Above(4)
        /\ Above(2) <=> ~IsSet(b, 3) /\ Above(3)
        /\ Above(1) <=> ~IsSet(b, 2) /\ Above(2)
        /\ Above(0) <=> ~IsSet(b, 1) /\ Above(1)
    <2> HIDE DEF S
    <2>1. QED
      BY <1>2
  <1> HIDE DEF S, Above
  <1>4. /\ IsSet(b, 7) /\ Above(7) <=> b \in 128 .. 255
        /\ IsSet(b, 6) /\ Above(6) <=> b \in 64 .. 127
        /\ IsSet(b, 5) /\ Above(5) <=> b \in 32 .. 63
        /\ IsSet(b, 4) /\ Above(4) <=> b \in 16 .. 31
        /\ IsSet(b, 3) /\ Above(3) <=> b \in 8 .. 15
        /\ IsSet(b, 2) /\ Above(2) <=> b \in 4 .. 7
        /\ IsSet(b, 1) /\ Above(1) <=> b \in 2 .. 3
        /\ IsSet(b, 0) /\ Above(0) <=> b = 1
    <2>1. /\ S(128) <=> b \in 128 .. 255
          /\ S(64) /\ ~S(128) <=> b \in 64 .. 127
          /\ S(32) /\ ~S(64) /\ ~S(128) <=> b \in 32 .. 63
          /\ S(16) /\ ~S(32) /\ ~S(64) /\ ~S(128) <=> b \in 16 .. 31
          /\ S(8) /\ ~S(16) /\ ~S(32) /\ ~S(64) /\ ~S(128) <=> b \in 8 .. 15
          /\ S(4) /\ ~S(8) /\ ~S(16) /\ ~S(32) /\ ~S(64) /\ ~S(128) <=> b \in 4 .. 7
          /\ S(2) /\ ~S(4) /\ ~S(8) /\ ~S(16) /\ ~S(32) /\ ~S(64) /\ ~S(128)
               <=> b \in 2 .. 3
          /\ S(1) /\ ~S(2) /\ ~S(4) /\ ~S(8) /\ ~S(16) /\ ~S(32) /\ ~S(64) /\ ~S(128)
               <=> b = 1
      BY BitsOfByte DEF S
    <2>2. /\ Above(6) <=> ~S(128)
          /\ Above(5) <=> ~S(64) /\ ~S(128)
          /\ Above(4) <=> ~S(32) /\ ~S(64) /\ ~S(128)
          /\ Above(3) <=> ~S(16) /\ ~S(32) /\ ~S(64) /\ ~S(128)
          /\ Above(2) <=> ~S(8) /\ ~S(16) /\ ~S(32) /\ ~S(64) /\ ~S(128)
          /\ Above(1) <=> ~S(4) /\ ~S(8) /\ ~S(16) /\ ~S(32) /\ ~S(64) /\ ~S(128)
          /\ Above(0) <=> ~S(2) /\ ~S(4) /\ ~S(8) /\ ~S(16) /\ ~S(32) /\ ~S(64) /\ ~S(128)
      BY <1>1, <1>3, SMT
    <2>3. QED
      BY <1>1, <1>3, <2>1, <2>2, SMT
  <1>5. ASSUME NEW n \in 0 .. 7
        PROVE  (b * Bit[8 - n]) \div Bit[8] = 1 <=> IsSet(b, n) /\ Above(n)
    <2>0. /\ 8 - 0 = 8 /\ 8 - 1 = 7 /\ 8 - 2 = 6 /\ 8 - 3 = 5
          /\ 8 - 4 = 4 /\ 8 - 5 = 3 /\ 8 - 6 = 2 /\ 8 - 7 = 1
      OBVIOUS
    <2>1. CASE n = 0
      BY <1>4, <2>0, <2>1, HighestBit, BitTable
    <2>2. CASE n = 1
      BY <1>4, <2>0, <2>2, HighestBit, BitTable
    <2>3. CASE n = 2
      BY <1>4, <2>0, <2>3, HighestBit, BitTable
    <2>4. CASE n = 3
      BY <1>4, <2>0, <2>4, HighestBit, BitTable
    <2>5. CASE n = 4
      BY <1>4, <2>0, <2>5, HighestBit, BitTable
    <2>6. CASE n = 5
      BY <1>4, <2>0, <2>6, HighestBit, BitTable
    <2>7. CASE n = 6
      BY <1>4, <2>0, <2>7, HighestBit, BitTable
    <2>8. CASE n = 7
      BY <1>4, <2>0, <2>8, HighestBit, BitTable
    <2>9. QED
      BY <1>2, <2>1, <2>2, <2>3, <2>4, <2>5, <2>6, <2>7, <2>8
  <1>6. QED
    BY <1>5 DEF Above

\* Setting a bit sets it, and leaves every other as it was.
LEMMA SetBit ==
    ASSUME NEW b \in 0 .. 255, NEW k \in 0 .. 7, ~IsSet(b, k)
    PROVE  /\ b + Bit[k + 1] \in 0 .. 255
           /\ IsSet(b + Bit[k + 1], k)
           /\ \A j \in 0 .. 7 : j # k => (IsSet(b + Bit[k + 1], j) <=> IsSet(b, j))
  <1> DEFINE Bits == {1, 2, 4, 8, 16, 32, 64, 128}
             Free(p) == ~((b \div p) % 2 = 1)
             Alone(p) == /\ b + p \in 0 .. 255 /\ ((b + p) \div p) % 2 = 1
                         /\ \A q \in Bits : q # p => (((b + p) \div q) % 2 = 1 <=> (b \div q) % 2 = 1)
  <1>1. Free(1) => Alone(1)
    OBVIOUS
  <1>2. Free(2) => Alone(2)
    OBVIOUS
  <1>3. Free(4) => Alone(4)
    OBVIOUS
  <1>4. Free(8) => Alone(8)
    OBVIOUS
  <1>5. Free(16) => Alone(16)
    OBVIOUS
  <1>6. Free(32) => Alone(32)
    OBVIOUS
  <1>7. Free(64) => Alone(64)
    OBVIOUS
  <1>8. Free(128) => Alone(128)
    OBVIOUS
  <1>9. \A j \in 0 .. 7 : Bit[j + 1] \in Bits /\ (j # k => Bit[j + 1] # Bit[k + 1])
    BY BitTable
  <1> HIDE DEF Alone, Free
  <1>10. \A p \in Bits : Free(p) => Alone(p)
    BY <1>1, <1>2, <1>3, <1>4, <1>5, <1>6, <1>7, <1>8
  <1>11. Free(Bit[k + 1])
    BY DEF Free, IsSet
  <1>12. Alone(Bit[k + 1])
    BY <1>9, <1>10, <1>11
  <1> HIDE DEF Bits
  <1>13. QED
    BY <1>9, <1>12 DEF Alone, IsSet

-----------------------------------------------------------------------------
(* HttpObject: the message.                                                *)

HttpChar == STRING \cup {NUL, "?", "f", "\\r", "\\n", ":", " ", "Host", "Referer",
                         "User-Agent", "Cookie"}
Memory == Seq(HttpChar)
Piece == [id : Nat, text : Memory]

\* The header that was given last as number m is found, unless it was written
\* over, and lies before the content if it was given before it.
Kept(id, m) ==
    ~WrittenOver(m) =>
        /\ SubSeq(obj_buf, hdr_set[id], hdr_set[id] + hdr_len_set[id] - 1) = given[m].text
        /\ content_len > 0 /\ (\A a \in DOMAIN given : a < m => ~IsBody(a))
              => hdr_set[id] + hdr_len_set[id] <= content

\* Where a header is found: nowhere if none was given, else the pointer and
\* the length lead to the text of the last one, before its CR LF.
HeaderAt(id) ==
    \/ hdr_set[id] = NULL /\ \A i \in DOMAIN given : given[i].id # id
    \/ /\ hdr_set[id] > 0 /\ hdr_set[id] + hdr_len_set[id] <= data_len
       /\ \E m \in DOMAIN given :
             /\ given[m].id = id /\ \A i \in DOMAIN given : given[i].id = id => i <= m
             /\ Kept(id, m)

\* The content is one piece within the message.
BodyAt ==
    /\ content_len > 0 =>
          /\ content + content_len <= data_len + 1
          /\ SubSeq(obj_buf, content, content + content_len - 1) = body
          /\ \E a \in DOMAIN given : IsBody(a)
    /\ content_len = 0 => body = <<>>

\* As long as no header was given behind the content, the message ends with it.
Ordered == \A i \in DOMAIN given : ~WrittenOver(i)
BodyLast == \A a, i \in DOMAIN given : a < i /\ IsBody(a) => IsBody(i)
MessageAt ==
    Ordered =>
        /\ SubSeq(obj_buf, 1, data_len) = written
        /\ content_len > 0 /\ BodyLast => content + content_len = data_len + 1

HttpTypes ==
    /\ obj_buf \in Memory /\ data_len \in Nat /\ intact \in BOOLEAN
    /\ content \in Nat /\ content_len \in Nat /\ (content_len > 0 => content > 0)
    /\ given \in Seq(Piece) /\ written \in Memory /\ body \in Memory

BitsKnown ==
    /\ bits \in [1 .. 2 -> 0 .. 255]
    /\ \A id \in HdrIds : IsSet(bits[(id \div 8) + 1], id % 8) <=> HasGiven(id)
    /\ \A l \in 2 .. 7 : ~IsSet(bits[2], l)

\* What is known of the message as long as its buffer was not exchanged.
Message ==
    /\ data_len <= Len(obj_buf) /\ MessageAt /\ BodyAt
    /\ \A id \in HdrIds : HeaderAt(id)

\* The inductive invariant: also the room for the message, and that every
\* header lies within it.
HttpInv ==
    /\ HttpTypes /\ BitsKnown
    /\ hdr_set \in [HdrIds -> Nat] /\ hdr_len_set \in [HdrIds -> Nat]
    /\ intact => Message

\* The headers, and what a line is made of.
LEMMA HeaderIds ==
    /\ HdrIds = 0 .. 9 /\ HTTP_HDR_NUM = 10
    /\ \A id \in HdrIds : (id \div 8) + 1 \in 1 .. 2 /\ id % 8 \in 0 .. 7
    /\ \A i, j \in HdrIds : i \div 8 = j \div 8 /\ i % 8 = j % 8 => i = j
  BY DEF HdrIds, HTTP_HDR_NUM

\* The name of a header and the end of its line are texts.
LEMMA HeaderNames ==
    /\ CR_STR \in Memory /\ Len(CR_STR) = 2
    /\ \A id : http_header_info(id) \in Memory
  <1>1. CR_STR \in Memory /\ Len(CR_STR) = 2
    <2>1. \A x, y \in HttpChar : <<x, y>> \in Seq(HttpChar) /\ Len(<<x, y>>) = 2
      OBVIOUS
    <2>2. QED
      BY <2>1 DEF CR_STR, Memory, HttpChar
  <1>2. /\ <<"Host", ":", " ">> \in Memory /\ <<"Referer", ":">> \in Memory
        /\ <<"User-Agent", ":", " ">> \in Memory /\ <<"Cookie", ":", " ">> \in Memory
        /\ <<>> \in Memory
    <2>1. \A x, y \in HttpChar : <<x, y>> \in Seq(HttpChar)
      OBVIOUS
    <2>2. \A x, y, z \in HttpChar : <<x, y, z>> \in Seq(HttpChar)
      OBVIOUS
    <2>3. /\ "Host" \in HttpChar /\ "Referer" \in HttpChar /\ "User-Agent" \in HttpChar
          /\ "Cookie" \in HttpChar /\ ":" \in HttpChar /\ " " \in HttpChar
      BY DEF HttpChar
    <2>4. <<>> \in Memory
      BY DEF Memory
    <2>5. \A x, y \in HttpChar : <<x, y>> \in Memory
      BY <2>1 DEF Memory
    <2>6. \A x, y, z \in HttpChar : <<x, y, z>> \in Memory
      BY <2>2 DEF Memory
    <2>7. QED
      BY <2>3, <2>4, <2>5, <2>6, Zenon
  <1>3. ASSUME NEW id PROVE http_header_info(id) \in Memory
    BY <1>2 DEF http_header_info
  <1>4. QED
    BY <1>1, <1>3

\* What is copied behind the first n values leaves every range of them.
LEMMA PutBehindRange ==
    ASSUME NEW S, NEW buf \in Seq(S), NEW at \in Nat \ {0}, NEW t \in Seq(S),
           NEW a \in Nat \ {0}, NEW z \in Int, z < at, z <= Len(buf)
    PROVE  SubSeq(Put(buf, at, t), a, z) = SubSeq(buf, a, z)
  <1> DEFINE new == Put(buf, at, t)
  <1>0. /\ new \in Seq(S) /\ Len(new) = Len(buf)
        /\ \A i \in 1 .. Len(buf) : new[i] =
             IF i \in at .. (at + Len(t) - 1) THEN t[i - at + 1] ELSE buf[i]
    BY PutSeq
  <1> HIDE DEF new
  <1>1. \A i \in 1 .. z : new[i] = buf[i]
    BY <1>0
  <1>2. \A i \in 1 .. (z - a + 1) : i + a - 1 \in 1 .. z
    OBVIOUS
  <1>3. SubSeq(new, a, z) = SubSeq(buf, a, z)
    BY <1>0, <1>1, <1>2
  <1>4. QED
    BY <1>3 DEF new

\* A line is found where it was put: name, value, CR LF.
LEMMA LinePut ==
    ASSUME NEW S, NEW buf \in Seq(S), NEW n \in Nat, NEW a \in Seq(S), NEW t \in Seq(S),
           NEW c \in Seq(S), n + Len(a) + Len(t) + Len(c) <= Len(buf)
    PROVE  SubSeq(Put(buf, n + 1, a \o t \o c), n + 1 + Len(a), n + 1 + Len(a) + Len(t) - 1) = t
  <1>0. PICK p \in Nat, q \in Nat, r \in Nat : p = Len(a) /\ q = Len(t) /\ r = Len(c)
    OBVIOUS
  <1> DEFINE l == a \o t \o c
             new == Put(buf, n + 1, l)
             v == SubSeq(new, n + 1 + p, n + 1 + p + q - 1)
  <1>1. l \in Seq(S) /\ Len(l) = p + q + r
    BY <1>0
  <1>2. \A i \in 1 .. q : l[p + i] = t[i]
    <2>1. a \o t \in Seq(S) /\ Len(a \o t) = p + q
      BY <1>0
    <2>2. \A i \in 1 .. q : (a \o t)[p + i] = t[i]
      BY <1>0
    <2>3. \A i \in 1 .. q : p + i \in 1 .. Len(a \o t)
      BY <1>0, <2>1
    <2>4. \A i \in 1 .. Len(a \o t) : l[i] = (a \o t)[i]
      BY <1>0, <2>1
    <2>5. QED
      BY <2>2, <2>3, <2>4
  <1> HIDE DEF l
  <1>3. /\ new \in Seq(S) /\ Len(new) = Len(buf)
        /\ \A i \in 1 .. Len(buf) : new[i] =
             IF i \in (n + 1) .. (n + 1 + Len(l) - 1) THEN l[i - (n + 1) + 1] ELSE buf[i]
    <2>1. n + 1 \in Nat \ {0} /\ l \in Seq(S)
      BY <1>1
    <2>2. QED
      BY <2>1, PutSeq
  <1> HIDE DEF new
  <1>4. n + p + q + r <= Len(buf)
    BY <1>0
  <1>5. \A i \in 1 .. q : new[n + p + i] = t[i]
    <2> SUFFICES ASSUME NEW i \in 1 .. q PROVE new[n + p + i] = t[i]
      OBVIOUS
    <2>1. /\ n + p + i \in 1 .. Len(buf)
          /\ n + p + i \in (n + 1) .. (n + 1 + Len(l) - 1)
          /\ (n + p + i) - (n + 1) + 1 = p + i
      BY <1>1, <1>4
    <2>2. QED
      BY <1>2, <1>3, <2>1
  <1>6. v \in Seq(S) /\ Len(v) = q /\ \A i \in 1 .. q : v[i] = new[n + p + i]
    <2>1. new \in Seq(S) /\ n + p + q <= Len(new)
      BY <1>3, <1>4
    <2>2. QED
      BY <2>1
  <1> HIDE DEF v
  <1>7. \A x, y \in Seq(S) : Len(x) = Len(y) /\ (\A i \in 1 .. Len(x) : x[i] = y[i]) => x = y
    BY SameSeq
  <1>8. v = t
    BY <1>0, <1>5, <1>6, <1>7
  <1>9. QED
    BY <1>0, <1>8 DEF v, new, l


\* The same for the memory of a message.
LEMMA MemoryPut ==
    ASSUME NEW buf \in Memory, NEW at \in Nat \ {0}, NEW t \in Memory
    PROVE  /\ Put(buf, at, t) \in Memory /\ Len(Put(buf, at, t)) = Len(buf) /\ Len(buf) \in Nat
           /\ \A a \in Nat \ {0}, z \in Int : z < at /\ z <= Len(buf) =>
                  SubSeq(Put(buf, at, t), a, z) = SubSeq(buf, a, z)
  <1>1. buf \in Seq(HttpChar) /\ t \in Seq(HttpChar)
    BY DEF Memory
  <1> DEFINE p == Put(buf, at, t)
  <1>2. p \in Seq(HttpChar) /\ Len(p) = Len(buf)
    BY <1>1, PutSeq
  <1>3. ASSUME NEW a \in Nat \ {0}, NEW z \in Int, z < at, z <= Len(buf)
        PROVE  SubSeq(p, a, z) = SubSeq(buf, a, z)
    BY <1>1, <1>3, PutBehindRange
  <1>4. Len(buf) \in Nat
    BY <1>1
  <1>5. QED
    BY <1>2, <1>3, <1>4 DEF Memory

\* What is put behind the message is appended to it.
LEMMA MemoryEnd ==
    ASSUME NEW buf \in Memory, NEW n \in Nat, NEW t \in Memory, n + Len(t) <= Len(buf)
    PROVE  SubSeq(Put(buf, n + 1, t), 1, n + Len(t)) = SubSeq(buf, 1, n) \o t
  <1>1. buf \in Seq(HttpChar) /\ t \in Seq(HttpChar)
    BY DEF Memory
  <1>2. QED
    BY <1>1, PutAtEnd

\* The same for a piece of the message that begins at c.
LEMMA MemoryPiece ==
    ASSUME NEW buf \in Memory, NEW c \in Nat \ {0}, NEW at \in Nat, c <= at, NEW t \in Memory,
           at - 1 + Len(t) <= Len(buf)
    PROVE  SubSeq(Put(buf, at, t), c, at - 1 + Len(t)) = SubSeq(buf, c, at - 1) \o t
  <1>0. buf \in Seq(HttpChar) /\ t \in Seq(HttpChar) /\ at \in Nat \ {0}
    BY DEF Memory
  <1>1. PICK l \in Nat, q \in Nat : l = Len(buf) /\ q = Len(t)
    BY <1>0
  <1> DEFINE new == Put(buf, at, t)
             x == SubSeq(new, c, at - 1 + q)
             v == SubSeq(buf, c, at - 1)
             y == v \o t
  <1>2. /\ new \in Seq(HttpChar) /\ Len(new) = l
        /\ \A i \in 1 .. l : new[i] =
             IF i \in at .. (at + q - 1) THEN t[i - at + 1] ELSE buf[i]
    BY <1>0, <1>1, PutSeq
  <1> HIDE DEF new
  <1>3. at - 1 + q <= l
    BY <1>1
  <1>4. x \in Seq(HttpChar) /\ Len(x) = at - c + q /\ \A i \in 1 .. (at - c + q) : x[i] = new[c + i - 1]
    BY <1>2, <1>3
  <1>5. v \in Seq(HttpChar) /\ Len(v) = at - c /\ \A i \in 1 .. (at - c) : v[i] = buf[c + i - 1]
    BY <1>0, <1>1, <1>3
  <1> HIDE DEF x, v
  <1>6. /\ y \in Seq(HttpChar) /\ Len(y) = at - c + q
        /\ \A i \in 1 .. (at - c) : y[i] = v[i]
        /\ \A i \in 1 .. q : y[(at - c) + i] = t[i]
    <2>1. \A f, g \in Seq(HttpChar) :
            /\ f \o g \in Seq(HttpChar) /\ Len(f \o g) = Len(f) + Len(g)
            /\ \A i \in 1 .. Len(f) : (f \o g)[i] = f[i]
            /\ \A i \in 1 .. Len(g) : (f \o g)[Len(f) + i] = g[i]
      OBVIOUS
    <2>2. v \in Seq(HttpChar) /\ Len(v) = at - c /\ t \in Seq(HttpChar) /\ Len(t) = q
      BY <1>0, <1>1, <1>5
    <2>3. /\ y \in Seq(HttpChar) /\ Len(y) = Len(v) + Len(t)
          /\ \A i \in 1 .. Len(v) : y[i] = v[i]
          /\ \A i \in 1 .. Len(t) : y[Len(v) + i] = t[i]
      BY <2>1, <2>2
    <2>4. QED
      BY <2>2, <2>3
  <1> HIDE DEF y
  <1>7. ASSUME NEW i \in 1 .. (at - c + q) PROVE x[i] = y[i]
    <2>1. x[i] = new[c + i - 1] /\ c + i - 1 \in 1 .. l
      BY <1>3, <1>4
    <2>2. CASE i <= at - c
      <3>1. i \in 1 .. (at - c) /\ c + i - 1 \notin at .. (at + q - 1)
        BY <2>2
      <3>2. new[c + i - 1] = buf[c + i - 1]
        BY <1>2, <2>1, <3>1
      <3>3. QED
        BY <1>5, <1>6, <2>1, <3>1, <3>2
    <2>3. CASE ~(i <= at - c)
      <3>1. PICK k \in 1 .. q : i = (at - c) + k
        <4>1. i - (at - c) \in 1 .. q /\ i = (at - c) + (i - (at - c))
          BY <2>3
        <4>2. QED
          BY <4>1
      <3>2. c + i - 1 \in at .. (at + q - 1) /\ (c + i - 1) - at + 1 = k
        BY <3>1
      <3>3. new[c + i - 1] = t[k]
        BY <1>2, <2>1, <3>2
      <3>4. QED
        BY <1>6, <2>1, <3>1, <3>3
    <2>4. QED
      BY <2>2, <2>3
  <1>8. x = y
    BY <1>4, <1>6, <1>7, SameSeq
  <1>9. QED
    BY <1>1, <1>8 DEF x, y, v, new

\* A line is found in the memory of a message where it was put.
LEMMA MemoryLine ==
    ASSUME NEW buf \in Memory, NEW n \in Nat, NEW a \in Memory, NEW t \in Memory,
           NEW c \in Memory, n + Len(a) + Len(t) + Len(c) <= Len(buf)
    PROVE  SubSeq(Put(buf, n + 1, a \o t \o c), n + 1 + Len(a), n + 1 + Len(a) + Len(t) - 1) = t
  <1>1. /\ buf \in Seq(HttpChar) /\ t \in Seq(HttpChar)
        /\ a \in Seq(HttpChar) /\ c \in Seq(HttpChar)
    BY DEF Memory
  <1>2. QED
    BY <1>1, LinePut

\* Texts put together are a text.
LEMMA MemoryJoin ==
    ASSUME NEW a \in Memory, NEW t \in Memory
    PROVE  a \o t \in Memory /\ Len(a \o t) = Len(a) + Len(t) /\ Len(a) \in Nat /\ Len(t) \in Nat
  BY DEF Memory

\* One more is given; those before it stay.
LEMMA GivenLonger ==
    ASSUME HttpTypes, NEW id \in Nat, NEW text \in Memory, Given(id, text)
    PROVE  /\ given' \in Seq(Piece)
           /\ DOMAIN given = 1 .. Len(given) /\ DOMAIN given' = 1 .. (Len(given) + 1)
           /\ \A i \in DOMAIN given : given'[i] = given[i]
           /\ given'[Len(given) + 1].id = id /\ given'[Len(given) + 1].text = text
           /\ Len(given) \in Nat
  <1> DEFINE e == [id |-> id, text |-> text]
  <1>1. e \in Piece /\ e.id = id /\ e.text = text
    BY DEF Piece
  <1>2. given' = Append(given, e) /\ given \in Seq(Piece)
    BY DEF Given, HttpTypes
  <1> HIDE DEF e
  <1>3. QED
    BY <1>1, <1>2

\* What one more that is given does to the order.
LEMMA GivenOrder ==
    ASSUME HttpTypes, NEW id \in Nat, NEW text \in Memory, Given(id, text),
           NEW n \in Nat, n = Len(given) + 1
    PROVE  /\ \A i \in DOMAIN given : IsBody(i)' <=> IsBody(i)
           /\ IsBody(n)' <=> id = HTTP_HDR_NUM
           /\ \A i \in DOMAIN given : WrittenOver(i) => WrittenOver(i)'
           /\ id # HTTP_HDR_NUM => \A i \in DOMAIN given : WrittenOver(i)' => WrittenOver(i)
           /\ id = HTTP_HDR_NUM => \A a, i \in DOMAIN given :
                    a < i /\ IsBody(a) /\ ~IsBody(i) => WrittenOver(i)'
           /\ ~WrittenOver(n)'
  <1>1. /\ DOMAIN given = 1 .. Len(given) /\ DOMAIN given' = 1 .. (Len(given) + 1)
        /\ \A i \in DOMAIN given : given'[i] = given[i]
        /\ given'[Len(given) + 1].id = id /\ Len(given) \in Nat
    BY GivenLonger
  <1>2. n \in Nat \ {0} /\ n = Len(given) + 1
    BY <1>1
  <1>3. /\ \A i \in DOMAIN given' : i \in DOMAIN given \/ i = n
        /\ \A i \in DOMAIN given : i \in DOMAIN given' /\ i < n
        /\ n \in DOMAIN given' /\ \A i \in DOMAIN given' : ~(n < i)
    BY <1>1, <1>2
  <1>4. /\ \A i \in DOMAIN given : IsBody(i)' <=> IsBody(i)
        /\ IsBody(n)' <=> id = HTTP_HDR_NUM
    BY <1>1, <1>2 DEF IsBody
  <1>5. \A i \in DOMAIN given : WrittenOver(i) => WrittenOver(i)'
    BY <1>3, <1>4 DEF WrittenOver
  <1>6. ASSUME id # HTTP_HDR_NUM, NEW i \in DOMAIN given, WrittenOver(i)' PROVE WrittenOver(i)
    <2>1. PICK a, c \in DOMAIN given' : a < i /\ i < c /\ IsBody(a)' /\ IsBody(c)'
      BY <1>6 DEF WrittenOver
    <2>2. a # n /\ c # n
      BY <1>4, <1>6, <2>1
    <2>3. a \in DOMAIN given /\ c \in DOMAIN given /\ IsBody(a) /\ IsBody(c) /\ ~IsBody(i)
      BY <1>3, <1>4, <1>6, <2>1, <2>2 DEF WrittenOver
    <2>4. QED
      BY <2>1, <2>3 DEF WrittenOver
  <1>7. ASSUME id = HTTP_HDR_NUM, NEW a \in DOMAIN given, NEW i \in DOMAIN given,
               a < i, IsBody(a), ~IsBody(i)
        PROVE  WrittenOver(i)'
    BY <1>3, <1>4, <1>7 DEF WrittenOver
  <1>8. ~WrittenOver(n)'
    BY <1>3 DEF WrittenOver
  <1>9. QED
    BY <1>2, <1>4, <1>5, <1>6, <1>7, <1>8

\* A header that was found before the step, and is not the one given in it, is
\* still found: what is written is written behind the message, or behind a
\* content that it precedes, or else it is written over.
LEMMA OldHeader ==
    ASSUME HttpTypes, NEW id \in Nat, NEW text \in Memory, Given(id, text),
           NEW j \in HdrIds, j # id, HeaderAt(j), data_len <= Len(obj_buf),
           NEW at \in Nat \ {0}, NEW t \in Memory, obj_buf' = Put(obj_buf, at, t),
           data_len' \in Nat, data_len <= data_len',
           hdr_set \in [HdrIds -> Nat], hdr_len_set \in [HdrIds -> Nat],
           hdr_set'[j] = hdr_set[j], hdr_len_set'[j] = hdr_len_set[j],
           \/ /\ id # HTTP_HDR_NUM /\ at = data_len + 1
              /\ content' = content /\ content_len' = content_len
           \/ /\ id = HTTP_HDR_NUM /\ at = content' + content_len
              /\ content' = IF content_len = 0 THEN data_len + 1 ELSE content
    PROVE  HeaderAt(j)'
  <1>1. /\ DOMAIN given = 1 .. Len(given) /\ DOMAIN given' = 1 .. (Len(given) + 1)
        /\ \A i \in DOMAIN given : given'[i] = given[i]
        /\ given'[Len(given) + 1].id # j /\ Len(given) \in Nat
    BY GivenLonger
  <1>2. \A i \in DOMAIN given' : given'[i].id = j => i \in DOMAIN given /\ given[i].id = j
    BY <1>1
  <1>3. CASE hdr_set[j] = NULL /\ \A i \in DOMAIN given : given[i].id # j
    BY <1>2, <1>3 DEF HeaderAt
  <1>4. CASE /\ hdr_set[j] > 0 /\ hdr_set[j] + hdr_len_set[j] <= data_len
             /\ \E m \in DOMAIN given :
                  /\ given[m].id = j /\ \A i \in DOMAIN given : given[i].id = j => i <= m
                  /\ Kept(j, m)
    <2>1. PICK m \in DOMAIN given :
                  /\ given[m].id = j /\ \A i \in DOMAIN given : given[i].id = j => i <= m
                  /\ Kept(j, m)
      BY <1>4
    <2>2. PICK h \in Nat \ {0}, l \in Nat : h = hdr_set[j] /\ l = hdr_len_set[j] /\ h + l <= data_len
      BY <1>4
    <2>3. /\ obj_buf \in Memory /\ data_len \in Nat /\ content \in Nat /\ content_len \in Nat
          /\ Len(obj_buf) \in Nat
      BY MemoryJoin DEF HttpTypes
    <2>4. ASSUME ~WrittenOver(m)'
          PROVE  /\ SubSeq(obj_buf', h, h + l - 1) = given[m].text
                 /\ content_len' > 0 /\ (\A a \in DOMAIN given' : a < m => ~IsBody(a)')
                       => h + l <= content'
      <3>0. PICK n \in Nat : n = Len(given) + 1
        BY <1>1
      <3>1. ~WrittenOver(m)
        BY <2>4, <3>0, GivenOrder
      <3>2. /\ SubSeq(obj_buf, h, h + l - 1) = given[m].text
            /\ content_len > 0 /\ (\A a \in DOMAIN given : a < m => ~IsBody(a))
                  => h + l <= content
        BY <2>1, <2>2, <3>1 DEF Kept
      <3>3. (\A a \in DOMAIN given' : a < m => ~IsBody(a)')
                => \A a \in DOMAIN given : a < m => ~IsBody(a)
        BY <1>1, <3>0, GivenOrder
      <3>4. j # HTTP_HDR_NUM /\ ~IsBody(m)
        BY <2>1, HeaderIds DEF IsBody
      <3>5. id = HTTP_HDR_NUM => \A a \in DOMAIN given : a < m => ~IsBody(a)
        BY <2>4, <3>0, <3>4, GivenOrder
      <3> DEFINE Early == \A a \in DOMAIN given : a < m => ~IsBody(a)
                 EarlyNext == \A a \in DOMAIN given' : a < m => ~IsBody(a)'
      <3> HIDE DEF Early, EarlyNext
      <3>6. h + l <= at /\ (content_len' > 0 /\ EarlyNext => h + l <= content')
        <4>1. CASE /\ id # HTTP_HDR_NUM /\ at = data_len + 1
                   /\ content' = content /\ content_len' = content_len
          <5>1. h + l <= at
            BY <2>2, <2>3, <4>1
          <5>2. content_len' > 0 /\ EarlyNext => h + l <= content'
            BY <3>2, <3>3, <4>1 DEF Early, EarlyNext
          <5>3. QED
            BY <5>1, <5>2
        <4>2. CASE /\ id = HTTP_HDR_NUM /\ at = content' + content_len
                   /\ content' = IF content_len = 0 THEN data_len + 1 ELSE content
          <5>1. CASE content_len = 0
            BY <2>2, <2>3, <4>2, <5>1
          <5>2. CASE content_len > 0
            <6>1. h + l <= content /\ content' = content
              BY <2>3, <3>2, <3>5, <4>2, <5>2
            <6>2. at = content + content_len
              BY <4>2, <6>1
            <6>3. QED
              BY <2>2, <2>3, <6>1, <6>2
          <5>3. QED
            BY <2>3, <5>1, <5>2
        <4>3. QED
          BY <4>1, <4>2
      <3>7. PICK z \in Int : z = h + l - 1
        BY <2>2
      <3>8. z < at /\ z <= Len(obj_buf)
        <4>1. \A d, e \in Nat : h + l <= d /\ d <= e => h + l - 1 <= e
          BY <2>2
        <4>2. h + l - 1 < at
          BY <2>2, <3>6
        <4>3. QED
          BY <2>2, <2>3, <3>7, <4>1, <4>2
      <3>9. \A a \in Nat \ {0}, e \in Int : e < at /\ e <= Len(obj_buf) =>
                SubSeq(Put(obj_buf, at, t), a, e) = SubSeq(obj_buf, a, e)
        BY <2>3, MemoryPut
      <3>10. SubSeq(obj_buf', h, z) = SubSeq(obj_buf, h, z)
        BY <2>2, <3>7, <3>8, <3>9
      <3>11. QED
        BY <3>2, <3>6, <3>7, <3>10 DEF EarlyNext
    <2>5. m \in DOMAIN given' /\ given'[m] = given[m]
      BY <1>1
    <2>6. Kept(j, m)'
      BY <2>2, <2>4, <2>5 DEF Kept
    <2>7. \A i \in DOMAIN given' : given'[i].id = j => i <= m
      BY <1>2, <2>1
    <2>8. hdr_set'[j] > 0 /\ hdr_set'[j] + hdr_len_set'[j] <= data_len'
      BY <2>2, <2>3
    <2>9. QED
      BY <2>1, <2>5, <2>6, <2>7, <2>8 DEF HeaderAt
  <1>5. QED
    BY <1>3, <1>4 DEF HeaderAt

\* An object without a message.
LEMMA EmptyObject ==
    ASSUME Empty, obj_buf' \in Memory PROVE HttpInv'
  <1>1. /\ given' = <<>> /\ written' = <<>> /\ body' = <<>> /\ data_len' = 0 /\ intact' = TRUE
        /\ content' = 0 /\ content_len' = 0
        /\ hdr_set' = [id \in HdrIds |-> 0] /\ hdr_len_set' = [id \in HdrIds |-> 0]
        /\ bits' = bit_array_init(HTTP_HDR_NUM)
    BY DEF Empty, NULL
  <1>2. bits' = [i \in 1 .. 2 |-> 0]
    BY <1>1 DEF bit_array_init, Filled, HTTP_HDR_NUM
  <1>3. \A k \in 0 .. 7 : ~IsSet(0, k)
    BY BitTable DEF IsSet
  <1>4. \A id \in HdrIds : ~IsSet(bits'[(id \div 8) + 1], id % 8)
    <2>1. \A n \in 1 .. 2 : bits'[n] = 0
      BY <1>2
    <2>2. QED
      BY <1>3, <2>1, HeaderIds
  <1>5. DOMAIN given' = {} /\ given' \in Seq(Piece) /\ written' \in Memory /\ body' \in Memory
    BY <1>1 DEF Memory
  <1>6. BitsKnown'
    <2>1. bits' \in [1 .. 2 -> 0 .. 255]
      BY <1>2
    <2>2. \A id : ~HasGiven(id)'
      BY <1>5 DEF HasGiven
    <2>3. \A l \in 2 .. 7 : ~IsSet(bits'[2], l)
      BY <1>2, <1>3
    <2>4. QED
      BY <1>4, <2>1, <2>2, <2>3 DEF BitsKnown
  <1>7. HttpTypes'
    BY <1>1, <1>5 DEF HttpTypes
  <1>8. \A id \in HdrIds : HeaderAt(id)'
    BY <1>1, <1>5 DEF HeaderAt, NULL
  <1>9. data_len' <= Len(obj_buf') /\ MessageAt' /\ BodyAt'
    <2>1. obj_buf' \in Seq(HttpChar)
      BY DEF Memory
    <2>2. SubSeq(obj_buf', 1, 0) = <<>> /\ 0 <= Len(obj_buf')
      BY <2>1
    <2>3. QED
      BY <1>1, <2>2 DEF MessageAt, BodyAt
  <1>10. hdr_set' \in [HdrIds -> Nat] /\ hdr_len_set' \in [HdrIds -> Nat]
    BY <1>1
  <1>11. QED
    BY <1>6, <1>7, <1>8, <1>9, <1>10 DEF HttpInv, Message

\* The buffer is exchanged: nothing is known of a message that was in it.
LEMMA Exchanged ==
    ASSUME HttpInv, obj_buf' \in Memory, data_len' \in Nat, intact' \in BOOLEAN,
           intact' => intact /\ data_len = 0 /\ data_len' = 0,
           UNCHANGED <<hdrvars, contvars, given, written, body>>
    PROVE  HttpInv'
  <1>1. /\ bits' = bits /\ hdr_set' = hdr_set /\ hdr_len_set' = hdr_len_set
        /\ content' = content /\ content_len' = content_len
        /\ given' = given /\ written' = written /\ body' = body
    BY DEF hdrvars, contvars
  <1>2. HttpTypes' /\ BitsKnown'
    BY <1>1 DEF HttpInv, HttpTypes, BitsKnown, HasGiven
  <1>3. hdr_set' \in [HdrIds -> Nat] /\ hdr_len_set' \in [HdrIds -> Nat]
    BY <1>1 DEF HttpInv
  <1>4. ASSUME intact' PROVE Message'
    <2>1. intact /\ data_len = 0 /\ data_len' = 0
      BY <1>4
    <2>2. obj_buf' \in Seq(HttpChar) /\ obj_buf \in Seq(HttpChar)
      BY DEF Memory, HttpInv, HttpTypes
    <2>3. SubSeq(obj_buf, 1, 0) = <<>> /\ SubSeq(obj_buf', 1, 0) = <<>> /\ 0 <= Len(obj_buf')
      BY <2>2
    <2>4. MessageAt /\ BodyAt /\ \A id \in HdrIds : HeaderAt(id)
      BY <2>1 DEF HttpInv, Message
    <2>5. ASSUME NEW id \in HdrIds PROVE HeaderAt(id)'
      <3>1. hdr_set[id] \in Nat /\ hdr_len_set[id] \in Nat
        BY DEF HttpInv
      <3>2. ~(hdr_set[id] > 0 /\ hdr_set[id] + hdr_len_set[id] <= data_len)
        BY <2>1, <3>1
      <3>3. hdr_set[id] = NULL /\ \A i \in DOMAIN given : given[i].id # id
        BY <2>4, <3>2 DEF HeaderAt
      <3>4. QED
        BY <1>1, <3>3 DEF HeaderAt
    <2>6. content_len = 0
      <3>1. content_len \in Nat /\ content \in Nat /\ (content_len > 0 => content > 0)
        BY DEF HttpInv, HttpTypes
      <3>2. content_len > 0 => content + content_len <= 0 + 1
        BY <2>1, <2>4 DEF BodyAt
      <3>3. QED
        BY <3>1, <3>2
    <2>7. MessageAt'
      <3>1. Ordered' => Ordered
        BY <1>1 DEF Ordered, WrittenOver, IsBody
      <3>2. Ordered => written = <<>>
        BY <2>1, <2>3, <2>4 DEF MessageAt
      <3>3. QED
        BY <1>1, <2>1, <2>3, <2>6, <3>1, <3>2 DEF MessageAt
    <2>8. BodyAt'
      BY <1>1, <2>4, <2>6 DEF BodyAt
    <2>9. data_len' <= Len(obj_buf')
      BY <2>1, <2>3
    <2>10. QED
      BY <2>5, <2>7, <2>8, <2>9 DEF Message
  <1>5. QED
    BY <1>2, <1>3, <1>4 DEF HttpInv


\* The bit of a header that is given is set; those of the others stay.
LEMMA BitsGiven ==
    ASSUME HttpTypes, BitsKnown, NEW id \in HdrIds, NEW text \in Memory, Given(id, text),
           bits' = bit_array_set_bit(bits, id)
    PROVE  BitsKnown'
  <1>1. /\ DOMAIN given = 1 .. Len(given) /\ DOMAIN given' = 1 .. (Len(given) + 1)
        /\ \A i \in DOMAIN given : given'[i] = given[i]
        /\ given'[Len(given) + 1].id = id /\ Len(given) \in Nat
    <2>1. id \in Nat
      BY DEF HdrIds
    <2>2. QED
      BY <2>1, GivenLonger
  <1>2. PICK n \in 1 .. 2, k \in 0 .. 7 : n = (id \div 8) + 1 /\ k = id % 8
    BY HeaderIds
  <1>3. PICK b \in 0 .. 255 : b = bits[n]
    BY DEF BitsKnown
  <1>4. bits \in [1 .. 2 -> 0 .. 255]
    BY DEF BitsKnown
  <1> DEFINE new == IF IsSet(b, k) THEN b ELSE b + Bit[k + 1]
  <1>5. bits' = [bits EXCEPT ![n] = new]
    BY <1>2, <1>3, <1>4 DEF bit_array_set_bit
  <1>6. /\ new \in 0 .. 255 /\ IsSet(new, k)
        /\ \A j \in 0 .. 7 : j # k => (IsSet(new, j) <=> IsSet(b, j))
    BY SetBit
  <1> HIDE DEF new
  <1>7. bits' \in [1 .. 2 -> 0 .. 255]
    BY <1>4, <1>5, <1>6
  <1>8. \A j : HasGiven(j)' <=> HasGiven(j) \/ j = id
    <2>1. ASSUME NEW j, HasGiven(j)' PROVE HasGiven(j) \/ j = id
      <3>1. PICK i \in DOMAIN given' : given'[i].id = j
        BY <2>1 DEF HasGiven
      <3>2. i \in DOMAIN given \/ i = Len(given) + 1
        BY <1>1
      <3>3. QED
        BY <1>1, <3>1, <3>2 DEF HasGiven
    <2>2. ASSUME NEW j, HasGiven(j) PROVE HasGiven(j)'
      <3>1. \A i \in DOMAIN given : i \in DOMAIN given'
        BY <1>1
      <3>2. QED
        BY <1>1, <2>2, <3>1 DEF HasGiven
    <2>3. HasGiven(id)'
      <3>1. Len(given) + 1 \in DOMAIN given'
        BY <1>1
      <3>2. QED
        BY <1>1, <3>1 DEF HasGiven
    <2>4. QED
      BY <2>1, <2>2, <2>3
  <1>9. ASSUME NEW j \in HdrIds
        PROVE  IsSet(bits'[(j \div 8) + 1], j % 8) <=> HasGiven(j)'
    <2>1. CASE j = id
      BY <1>2, <1>4, <1>5, <1>6, <1>8, <2>1
    <2>2. CASE j # id
      <3>1. PICK m \in 1 .. 2, l \in 0 .. 7 : m = (j \div 8) + 1 /\ l = j % 8
        BY HeaderIds
      <3>2. m = n => l # k
        <4>1. j \div 8 \in Int /\ id \div 8 \in Int
          BY DEF HdrIds, HTTP_HDR_NUM
        <4>2. m = n => j \div 8 = id \div 8
          BY <1>2, <3>1, <4>1
        <4>3. QED
          BY <1>2, <2>2, <3>1, <4>2, HeaderIds
      <3>3. IsSet(bits'[m], l) <=> IsSet(bits[m], l)
        <4>1. CASE m = n
          BY <1>3, <1>4, <1>5, <1>6, <3>2, <4>1
        <4>2. CASE m # n
          BY <1>4, <1>5, <4>2
        <4>3. QED
          BY <4>1, <4>2
      <3>4. IsSet(bits[m], l) <=> HasGiven(j)
        BY <3>1 DEF BitsKnown
      <3>5. QED
        BY <1>8, <2>2, <3>1, <3>3, <3>4
    <2>3. QED
      BY <2>1, <2>2
  <1>10. ASSUME NEW l \in 2 .. 7 PROVE ~IsSet(bits'[2], l)
    <2>1. ~IsSet(bits[2], l) /\ l \in 0 .. 7
      BY DEF BitsKnown
    <2>2. CASE n = 2
      <3>1. l # k
        <4>1. \A i \in 0 .. 9 : (i \div 8) + 1 = 2 => i % 8 < 2
          OBVIOUS
        <4>2. QED
          BY <1>2, <2>2, <4>1, HeaderIds
      <3>2. IsSet(new, l) <=> IsSet(b, l)
        BY <1>6, <2>1, <3>1
      <3>3. QED
        BY <1>3, <1>4, <1>5, <2>1, <2>2, <3>2
    <2>3. CASE n # 2
      BY <1>4, <1>5, <2>1, <2>3
    <2>4. QED
      BY <2>2, <2>3
  <1>11. QED
    BY <1>7, <1>9, <1>10 DEF BitsKnown

\* A call that changes nothing.
LEMMA SameMessage ==
    ASSUME HttpInv, UNCHANGED <<obj_buf, data_len, hdrvars, contvars, given, written, body, intact>>
    PROVE  HttpInv'
  <1>1. /\ obj_buf' = obj_buf /\ data_len' = data_len /\ bits' = bits
        /\ hdr_set' = hdr_set /\ hdr_len_set' = hdr_len_set
        /\ content' = content /\ content_len' = content_len
        /\ given' = given /\ written' = written /\ body' = body /\ intact' = intact
    BY DEF hdrvars, contvars
  <1>2. /\ \A i : IsBody(i)' <=> IsBody(i)
        /\ \A i : WrittenOver(i)' <=> WrittenOver(i)
        /\ \A i : HasGiven(i)' <=> HasGiven(i)
    BY <1>1 DEF IsBody, WrittenOver, HasGiven
  <1>3. HttpTypes' /\ BitsKnown'
    BY <1>1, <1>2 DEF HttpInv, HttpTypes, BitsKnown
  <1>4. ASSUME intact' PROVE Message'
    <2>1. Message
      BY <1>1, <1>4 DEF HttpInv
    <2>2. MessageAt'
      BY <1>1, <1>2, <2>1 DEF Message, MessageAt, Ordered, BodyLast
    <2>3. BodyAt'
      BY <1>1, <1>2, <2>1 DEF Message, BodyAt
    <2>4. \A id \in HdrIds : HeaderAt(id)'
      BY <1>1, <1>2, <2>1 DEF Message, HeaderAt, Kept
    <2>5. QED
      BY <1>1, <2>1, <2>2, <2>3, <2>4 DEF Message
  <1>5. hdr_set' \in [HdrIds -> Nat] /\ hdr_len_set' \in [HdrIds -> Nat]
    BY <1>1 DEF HttpInv
  <1>6. QED
    BY <1>1, <1>3, <1>4, <1>5 DEF HttpInv

LEMMA SameObject == ASSUME HttpInv, UNCHANGED hovars PROVE HttpInv'
  BY SameMessage DEF hovars

\* A header is put behind the message, and its value is found there.
LEMMA HeaderAdded ==
    ASSUME HttpInv, NEW id \in Nat, NEW text \in Memory, http_object_add_header(id, text)
    PROVE  HttpInv'
  <1>1. CASE UNCHANGED hovars
    BY <1>1, SameObject
  <1>2. CASE ~Refused(id, text) /\ ~(UNCHANGED hovars)
    <2> DEFINE name == http_header_info(id)
               line == name \o text \o CR_STR
    <2>1. /\ obj_buf' = Put(obj_buf, data_len + 1, line)
          /\ hdr_set' = [hdr_set EXCEPT ![id] = data_len + 1 + Len(name)]
          /\ hdr_len_set' = [hdr_len_set EXCEPT ![id] = Len(text)]
          /\ data_len' = data_len + Len(line)
          /\ bits' = bit_array_set_bit(bits, id) /\ Given(id, text)
          /\ content' = content /\ content_len' = content_len /\ intact' = intact
      BY <1>2 DEF http_object_add_header, contvars
    <2>2. id \in HdrIds /\ id # HTTP_HDR_NUM
      BY <1>2, HeaderIds DEF Refused
    <2>3. HasRoom(id, text)
      BY <1>2 DEF Refused
    <2>4. /\ name \in Memory /\ CR_STR \in Memory /\ Len(CR_STR) = 2
      BY HeaderNames
    <2>5. /\ obj_buf \in Memory /\ data_len \in Nat /\ HttpTypes /\ BitsKnown
          /\ hdr_set \in [HdrIds -> Nat] /\ hdr_len_set \in [HdrIds -> Nat]
          /\ content \in Nat /\ content_len \in Nat /\ body \in Memory
      BY DEF HttpInv, HttpTypes
    <2> HIDE DEF name
    <2>6. /\ name \o text \in Memory /\ line \in Memory
          /\ Len(name) \in Nat /\ Len(text) \in Nat /\ Len(line) = Len(name) + Len(text) + 2
      <3>1. name \o text \in Memory /\ Len(name \o text) = Len(name) + Len(text)
            /\ Len(name) \in Nat /\ Len(text) \in Nat
        BY <2>4, MemoryJoin
      <3>2. line \in Memory /\ Len(line) = Len(name \o text) + Len(CR_STR)
        BY <2>4, <3>1, MemoryJoin
      <3>3. QED
        BY <2>4, <3>1, <3>2
    <2>7. data_len + Len(text) + 2 + Len(name) < Len(obj_buf)
      BY <2>3 DEF HasRoom, name
    <2>8. LineOf(id, text) = line
      BY <2>2 DEF LineOf, name
    <2>9. written' = written \o line /\ body' = body
      BY <2>1, <2>2, <2>8 DEF Given
    <2> HIDE DEF line
    <2>10. data_len + 1 \in Nat \ {0} /\ data_len' \in Nat
      BY <2>1, <2>5, <2>6
    <2>11. obj_buf' \in Memory /\ Len(obj_buf') = Len(obj_buf) /\ Len(obj_buf) \in Nat
      BY <2>1, <2>5, <2>6, <2>10, MemoryPut
    <2>12. data_len <= data_len' /\ data_len' <= Len(obj_buf') /\ data_len <= Len(obj_buf)
      BY <2>1, <2>5, <2>6, <2>7, <2>11
    <2>13. given' \in Seq(Piece)
      BY <2>1, <2>5, GivenLonger
    <2>14. written' \in Memory
      BY <2>5, <2>6, <2>9, MemoryJoin DEF HttpTypes
    <2>15. HttpTypes'
      BY <2>1, <2>5, <2>9, <2>10, <2>11, <2>13, <2>14 DEF HttpTypes
    <2>16. BitsKnown'
      BY <2>1, <2>2, <2>5, BitsGiven
    <2>17. hdr_set' \in [HdrIds -> Nat] /\ hdr_len_set' \in [HdrIds -> Nat]
      <3>1. data_len + 1 + Len(name) \in Nat /\ Len(text) \in Nat
        BY <2>5, <2>6
      <3>2. \A f \in [HdrIds -> Nat], v \in Nat : [f EXCEPT ![id] = v] \in [HdrIds -> Nat]
        OBVIOUS
      <3>3. QED
        BY <2>1, <2>5, <3>1, <3>2
    <2>18. PICK n \in Nat : n = Len(given) + 1
      BY <2>5 DEF HttpTypes
    <2>19. /\ DOMAIN given = 1 .. Len(given) /\ DOMAIN given' = 1 .. n
           /\ \A i \in DOMAIN given : given'[i] = given[i]
           /\ given'[n].id = id /\ given'[n].text = text /\ n \in DOMAIN given'
           /\ \A i \in DOMAIN given' : i \in DOMAIN given \/ i = n
           /\ \A i \in DOMAIN given : i \in DOMAIN given' /\ i < n
      <3>1. /\ DOMAIN given = 1 .. Len(given) /\ DOMAIN given' = 1 .. (Len(given) + 1)
            /\ \A i \in DOMAIN given : given'[i] = given[i]
            /\ given'[Len(given) + 1].id = id /\ given'[Len(given) + 1].text = text
            /\ Len(given) \in Nat
        BY <2>1, <2>5, GivenLonger
      <3>2. QED
        BY <2>18, <3>1
    <2>20. /\ \A i \in DOMAIN given : IsBody(i)' <=> IsBody(i)
           /\ ~IsBody(n)' /\ ~WrittenOver(n)'
           /\ \A i \in DOMAIN given : WrittenOver(i)' <=> WrittenOver(i)
      BY <2>1, <2>2, <2>5, <2>18, GivenOrder
    <2>21. ASSUME intact PROVE Message'
      <3>0. Message
        BY <2>21 DEF HttpInv
      <3>1. MessageAt'
        <4>1. ASSUME Ordered' PROVE SubSeq(obj_buf', 1, data_len') = written'
          <5>1. Ordered
            BY <2>19, <2>20, <4>1 DEF Ordered
          <5>2. SubSeq(obj_buf, 1, data_len) = written
            BY <3>0, <5>1 DEF Message, MessageAt
          <5>3. data_len + Len(line) <= Len(obj_buf)
            BY <2>1, <2>11, <2>12
          <5>4. SubSeq(obj_buf', 1, data_len + Len(line)) = SubSeq(obj_buf, 1, data_len) \o line
            BY <2>1, <2>5, <2>6, <5>3, MemoryEnd
          <5>5. QED
            BY <2>1, <2>9, <5>2, <5>4
        <4>2. ASSUME content_len' > 0 PROVE ~BodyLast'
          <5>1. PICK a \in DOMAIN given : IsBody(a)
            BY <2>1, <3>0, <4>2 DEF Message, BodyAt
          <5>2. a \in DOMAIN given' /\ a < n /\ IsBody(a)'
            BY <2>19, <2>20, <5>1
          <5>3. QED
            BY <2>19, <2>20, <5>2 DEF BodyLast
        <4>3. QED
          BY <4>1, <4>2 DEF MessageAt
      <3>2. BodyAt'
        <4>1. ASSUME content_len > 0
              PROVE  /\ content + content_len <= data_len' + 1
                     /\ SubSeq(obj_buf', content, content + content_len - 1) = body
                     /\ \E a \in DOMAIN given' : IsBody(a)'
          <5>1. /\ content + content_len <= data_len + 1 /\ content \in Nat \ {0}
                /\ SubSeq(obj_buf, content, content + content_len - 1) = body
                /\ \E a \in DOMAIN given : IsBody(a)
            BY <2>5, <3>0, <4>1 DEF Message, BodyAt, HttpTypes
          <5>2. PICK z \in Int : z = content + content_len - 1
            BY <2>5
          <5>3. z < data_len + 1 /\ z <= Len(obj_buf)
            BY <2>5, <2>11, <2>12, <5>1, <5>2
          <5>4. \A c \in Nat \ {0}, e \in Int : e < data_len + 1 /\ e <= Len(obj_buf) =>
                    SubSeq(Put(obj_buf, data_len + 1, line), c, e) = SubSeq(obj_buf, c, e)
            BY <2>5, <2>6, <2>10, MemoryPut
          <5>5. SubSeq(obj_buf', content, z) = SubSeq(obj_buf, content, z)
            BY <2>1, <5>1, <5>3, <5>4
          <5>6. content + content_len <= data_len' + 1
            <6>1. \A x, d, e \in Nat : x <= d + 1 /\ d <= e => x <= e + 1
              OBVIOUS
            <6>2. content + content_len \in Nat
              BY <2>5
            <6>3. QED
              BY <2>5, <2>10, <2>12, <5>1, <6>1, <6>2
          <5>7. \E a \in DOMAIN given' : IsBody(a)'
            BY <2>19, <2>20, <5>1
          <5>8. QED
            BY <5>1, <5>2, <5>5, <5>6, <5>7
        <4>2. content_len = 0 => body = <<>>
          BY <3>0 DEF Message, BodyAt
        <4>3. QED
          BY <2>1, <2>9, <4>1, <4>2 DEF BodyAt
      <3>3. ASSUME NEW j \in HdrIds PROVE HeaderAt(j)'
        <4>1. CASE j = id
          <5>1. hdr_set'[j] = data_len + 1 + Len(name) /\ hdr_len_set'[j] = Len(text)
            BY <2>1, <2>2, <2>5, <4>1
          <5>2. SubSeq(obj_buf', data_len + 1 + Len(name), data_len + 1 + Len(name) + Len(text) - 1)
                  = text
            <6>1. data_len + Len(name) + Len(text) + Len(CR_STR) <= Len(obj_buf)
              BY <2>4, <2>5, <2>6, <2>7, <2>11
            <6>2. QED
              BY <2>1, <2>4, <2>5, <6>1, MemoryLine DEF line
          <5>3. \A i \in DOMAIN given' : given'[i].id = j => i <= n
            BY <2>18, <2>19
          <5>4. hdr_set'[j] > 0 /\ hdr_set'[j] + hdr_len_set'[j] <= data_len'
            BY <2>1, <2>5, <2>6, <5>1
          <5>5. SubSeq(obj_buf', hdr_set'[j], hdr_set'[j] + hdr_len_set'[j] - 1) = given'[n].text
            BY <2>19, <5>1, <5>2
          <5>6. content_len' > 0 => \E a \in DOMAIN given' : a < n /\ IsBody(a)'
            BY <2>1, <2>19, <2>20, <3>0 DEF Message, BodyAt
          <5>7. Kept(j, n)'
            BY <5>5, <5>6 DEF Kept
          <5>8. QED
            BY <2>19, <4>1, <5>3, <5>4, <5>7 DEF HeaderAt
        <4>2. CASE j # id
          <5>1. hdr_set'[j] = hdr_set[j] /\ hdr_len_set'[j] = hdr_len_set[j]
            BY <2>1, <2>5, <4>2
          <5>2. HeaderAt(j)
            BY <3>0 DEF Message
          <5>3. PICK at \in Nat \ {0} : at = data_len + 1
            BY <2>10
          <5>4. QED
            BY <2>1, <2>2, <2>5, <2>6, <2>10, <2>12, <4>2, <5>1, <5>2, <5>3, OldHeader
        <4>3. QED
          BY <4>1, <4>2
      <3>4. QED
        BY <2>12, <3>1, <3>2, <3>3 DEF Message
    <2>22. QED
      BY <2>1, <2>15, <2>16, <2>17, <2>21 DEF HttpInv
  <1>3. QED
    BY <1>1, <1>2 DEF http_object_add_header


\* Content is put behind the content, which is where the message ends if no
\* header was given since.
LEMMA ContentAdded ==
    ASSUME HttpInv, NEW text \in Memory, http_object_add_content(text)
    PROVE  HttpInv'
  <1>1. CASE UNCHANGED hovars
    BY <1>1, SameObject
  <1>2. CASE ~(UNCHANGED hovars)
    <2>1. /\ data_len + Len(text) <= Len(obj_buf)
          /\ content' = IF content_len = 0 THEN data_len + 1 ELSE content
          /\ obj_buf' = Put(obj_buf, content' + content_len, text)
          /\ content_len' = content_len + Len(text)
          /\ data_len' = data_len + Len(text)
          /\ Given(HTTP_HDR_NUM, text)
          /\ intact' = intact /\ bits' = bits /\ hdr_set' = hdr_set /\ hdr_len_set' = hdr_len_set
      BY <1>2 DEF http_object_add_content, hdrvars
    <2>2. /\ obj_buf \in Memory /\ data_len \in Nat /\ HttpTypes /\ BitsKnown
          /\ content \in Nat /\ content_len \in Nat /\ (content_len > 0 => content > 0)
          /\ hdr_set \in [HdrIds -> Nat] /\ hdr_len_set \in [HdrIds -> Nat]
          /\ intact \in BOOLEAN /\ written \in Memory /\ body \in Memory
      BY DEF HttpInv, HttpTypes
    <2>3. Len(text) \in Nat /\ HTTP_HDR_NUM \in Nat
      BY MemoryJoin, HeaderIds
    <2>4. content' \in Nat /\ content' > 0 /\ content_len' \in Nat /\ data_len' \in Nat
      BY <2>1, <2>2, <2>3
    <2>5. PICK at \in Nat \ {0} : at = content' + content_len
      <3>1. \A x, y \in Nat : x > 0 => x + y \in Nat \ {0}
        OBVIOUS
      <3>2. content' + content_len \in Nat \ {0}
        BY <2>2, <2>4, <3>1, Zenon
      <3>3. QED
        BY <3>2, Zenon
    <2>6. obj_buf' \in Memory /\ Len(obj_buf') = Len(obj_buf) /\ Len(obj_buf) \in Nat
      BY <2>1, <2>2, <2>5, MemoryPut
    <2>7. /\ given' \in Seq(Piece)
          /\ DOMAIN given = 1 .. Len(given) /\ DOMAIN given' = 1 .. (Len(given) + 1)
          /\ \A i \in DOMAIN given : given'[i] = given[i]
          /\ Len(given) \in Nat
      BY <2>1, <2>2, <2>3, GivenLonger
    <2>8. written' = written \o text /\ body' = body \o text
      BY <2>1 DEF Given, LineOf
    <2>9. written' \in Memory /\ body' \in Memory
      BY <2>2, <2>8, MemoryJoin
    <2>10. HttpTypes'
      BY <2>1, <2>2, <2>4, <2>6, <2>7, <2>9 DEF HttpTypes
    <2>11. PICK n \in Nat : n = Len(given) + 1
      BY <2>7
    <2>12. /\ n \in DOMAIN given'
           /\ given'[n].id = HTTP_HDR_NUM
           /\ \A i \in DOMAIN given' : i \in DOMAIN given \/ i = n
           /\ \A i \in DOMAIN given : i \in DOMAIN given' /\ i < n
           /\ \A i \in DOMAIN given' : ~(n < i)
      <3>1. given'[Len(given) + 1].id = HTTP_HDR_NUM
        BY <2>1, <2>2, <2>3, GivenLonger
      <3>2. QED
        BY <2>7, <2>11, <3>1
    <2>13. /\ \A i \in DOMAIN given : IsBody(i)' <=> IsBody(i)
           /\ IsBody(n)' /\ ~WrittenOver(n)'
           /\ \A i \in DOMAIN given : WrittenOver(i) => WrittenOver(i)'
           /\ \A a, i \in DOMAIN given : a < i /\ IsBody(a) /\ ~IsBody(i) => WrittenOver(i)'
      BY <2>1, <2>2, <2>3, <2>11, GivenOrder
    <2>14. BitsKnown'
      <3>1. \A j \in HdrIds : HasGiven(j)' <=> HasGiven(j)
        BY <2>7, <2>12, HeaderIds DEF HasGiven
      <3>2. QED
        BY <2>1, <2>2, <3>1 DEF BitsKnown
    <2>15. ASSUME intact PROVE Message'
      <3>0. Message
        BY <2>15 DEF HttpInv
      <3>1. /\ data_len <= Len(obj_buf) /\ data_len <= data_len' /\ data_len' <= Len(obj_buf')
            /\ at <= data_len + 1 /\ content' <= at
        <4>1. CASE content_len = 0
          BY <2>1, <2>2, <2>3, <2>5, <2>6, <3>0, <4>1 DEF Message
        <4>2. CASE content_len > 0
          <5>1. content + content_len <= data_len + 1 /\ content' = content
            BY <2>1, <2>2, <3>0, <4>2 DEF Message, BodyAt
          <5>2. QED
            BY <2>1, <2>2, <2>3, <2>5, <2>6, <3>0, <5>1 DEF Message
        <4>3. QED
          BY <2>2, <4>1, <4>2
      <3>2. MessageAt'
        <4>1. ASSUME Ordered'
              PROVE  /\ SubSeq(obj_buf', 1, data_len') = written'
                     /\ content' + content_len' = data_len' + 1
          <5>1. Ordered /\ BodyLast
            BY <2>12, <2>13, <4>1 DEF Ordered, BodyLast
          <5>2. /\ SubSeq(obj_buf, 1, data_len) = written
                /\ content_len > 0 => content + content_len = data_len + 1
            BY <3>0, <5>1 DEF Message, MessageAt
          <5>3. at = data_len + 1
            <6>1. CASE content_len = 0
              BY <2>1, <2>2, <2>5, <6>1
            <6>2. CASE content_len > 0
              BY <2>1, <2>2, <2>5, <5>2, <6>2
            <6>3. QED
              BY <2>2, <6>1, <6>2
          <5>4. SubSeq(obj_buf', 1, data_len + Len(text)) = SubSeq(obj_buf, 1, data_len) \o text
            BY <2>1, <2>2, <2>5, <5>3, MemoryEnd
          <5>5. content' + content_len' = data_len' + 1
            BY <2>1, <2>2, <2>3, <2>4, <2>5, <5>3
          <5>6. QED
            BY <2>1, <2>8, <5>2, <5>4, <5>5
        <4>2. QED
          BY <4>1 DEF MessageAt
      <3>3. BodyAt'
        <4>1. SubSeq(obj_buf', content', at - 1 + Len(text)) = body \o text
          <5>1. content' \in Nat \ {0} /\ content' <= at /\ at - 1 + Len(text) <= Len(obj_buf)
            BY <2>1, <2>2, <2>3, <2>4, <2>5, <2>6, <3>1
          <5>2. SubSeq(obj_buf', content', at - 1 + Len(text))
                    = SubSeq(obj_buf, content', at - 1) \o text
            <6>1. PICK c \in Nat \ {0} : c = content'
              BY <5>1
            <6>2. SubSeq(Put(obj_buf, at, text), c, at - 1 + Len(text))
                    = SubSeq(obj_buf, c, at - 1) \o text
              <7>1. c <= at /\ at - 1 + Len(text) <= Len(obj_buf) /\ at \in Nat
                BY <5>1, <6>1
              <7>2. \A x, t \in Memory, e \in Nat :
                        c <= e /\ e - 1 + Len(t) <= Len(x) =>
                            SubSeq(Put(x, e, t), c, e - 1 + Len(t)) = SubSeq(x, c, e - 1) \o t
                BY MemoryPiece
              <7>3. obj_buf \in Memory /\ text \in Memory
                BY <2>2
              <7>4. QED
                BY <7>1, <7>2, <7>3, Zenon
            <6>3. obj_buf' = Put(obj_buf, at, text)
              BY <2>1, <2>5
            <6>4. QED
              BY <6>1, <6>2, <6>3
          <5>3. SubSeq(obj_buf, content', at - 1) = body
            <6>1. CASE content_len = 0
              <7>0. body = <<>>
                BY <3>0, <6>1 DEF Message, BodyAt
              <7>1. at = content'
                <8>1. \A x \in Nat, y \in Nat : y = 0 => x + y = x
                  OBVIOUS
                <8>2. content' \in Nat /\ content_len \in Nat
                  BY <2>2, <2>4
                <8>3. QED
                  BY <2>5, <6>1, <8>1, <8>2, Zenon
              <7>2. obj_buf \in Seq(HttpChar)
                BY <2>2 DEF Memory
              <7>3. \A k \in Nat : SubSeq(obj_buf, k, k - 1) = <<>>
                BY <7>2
              <7>4. QED
                BY <2>4, <7>0, <7>1, <7>3
            <6>2. CASE content_len > 0
              BY <2>1, <2>2, <2>5, <3>0, <6>2 DEF Message, BodyAt
            <6>3. QED
              BY <2>2, <6>1, <6>2
          <5>4. QED
            BY <5>2, <5>3
        <4>2. content' + content_len' - 1 = at - 1 + Len(text)
          BY <2>1, <2>2, <2>3, <2>4, <2>5
        <4>3. content' + content_len' <= data_len' + 1
          BY <2>1, <2>2, <2>3, <2>4, <2>5, <3>1
        <4>4. content_len' = 0 => body' = <<>>
          <5>1. ASSUME content_len' = 0 PROVE body' = <<>>
            <6>1. content_len = 0 /\ Len(text) = 0
              BY <2>1, <2>2, <2>3, <5>1
            <6>2. body = <<>> /\ text \in Seq(HttpChar)
              BY <3>0, <6>1 DEF Message, BodyAt, Memory
            <6>3. text = <<>>
              BY <6>1, <6>2
            <6>4. QED
              BY <2>8, <6>2, <6>3
          <5>2. QED
            BY <5>1
        <4>5. QED
          BY <2>8, <2>12, <2>13, <4>1, <4>2, <4>3, <4>4 DEF BodyAt
      <3>4. ASSUME NEW j \in HdrIds PROVE HeaderAt(j)'
        <4>1. j # HTTP_HDR_NUM
          BY HeaderIds
        <4>2. hdr_set'[j] = hdr_set[j] /\ hdr_len_set'[j] = hdr_len_set[j]
          BY <2>1
        <4>3. HeaderAt(j)
          BY <3>0 DEF Message
        <4>4. obj_buf' = Put(obj_buf, at, text)
          BY <2>1, <2>5
        <4>5. QED
          BY <2>1, <2>2, <2>3, <2>4, <2>5, <3>1, <4>1, <4>2, <4>3, <4>4, OldHeader
      <3>5. QED
        BY <3>1, <3>2, <3>3, <3>4 DEF Message
    <2>16. QED
      BY <2>1, <2>2, <2>10, <2>14, <2>15 DEF HttpInv
  <1>3. QED
    BY <1>1, <1>2

\* Every call of a client leaves an object of which this is true.
LEMMA HttpStep == ASSUME HttpInv, [ClientNext]_hovars PROVE HttpInv'
  <1>0. /\ obj_buf \in Memory /\ data_len \in Nat /\ intact \in BOOLEAN
    BY DEF HttpInv, HttpTypes
  <1>1. \A n \in Nat : /\ Filled(NUL, n) \in Memory /\ Filled("?", n) \in Memory
                       /\ Filled("f", n) \in Memory
    <2>1. NUL \in HttpChar /\ "?" \in HttpChar /\ "f" \in HttpChar
      BY DEF HttpChar
    <2>2. ASSUME NEW n \in Nat, NEW ch \in HttpChar PROVE Filled(ch, n) \in Seq(HttpChar)
      BY FilledSeq
    <2>3. QED
      BY <2>1, <2>2 DEF Memory
  <1>2. /\ BufSizes \subseteq Int /\ \A l \in Lines : l.id \in Nat /\ l.text \in Memory
        /\ \A text \in Contents : text \in Memory
        /\ HO_MIN_BUF_SZ \in Nat /\ HO_DFT_BUF_SZ \in Nat
    <2>1. \A s \in Seq(STRING) : s \in Memory
      <3>1. \A c \in STRING : c \in HttpChar
        BY DEF HttpChar
      <3>2. STRING \subseteq HttpChar
        BY <3>1, Zenon
      <3>3. QED
        BY <3>2, WiderSeq DEF Memory
    <2>2. \A l \in Lines : l.id \in Nat /\ l.text \in Seq(STRING)
      BY HttpObjectAssumption
    <2>3. \A text \in Contents : text \in Seq(STRING)
      BY HttpObjectAssumption
    <2>4. QED
      BY <2>1, <2>2, <2>3, HttpObjectAssumption
  <1>3. ASSUME NEW caller \in BOOLEAN, NEW sz \in BufSizes, http_object_create(caller, sz)
        PROVE  HttpInv'
    <2>1. sz \in Int
      BY <1>2
    <2>2. obj_buf' \in Memory
      <3>1. CASE caller /\ sz > HO_MIN_BUF_SZ /\ obj_buf' = Filled("?", sz)
        <4>1. sz \in Nat
          BY <1>2, <2>1, <3>1
        <4>2. QED
          BY <1>1, <3>1, <4>1
      <3>2. CASE obj_buf' = Filled(NUL, IF sz < HO_MIN_BUF_SZ THEN HO_DFT_BUF_SZ ELSE sz)
        <4>1. (IF sz < HO_MIN_BUF_SZ THEN HO_DFT_BUF_SZ ELSE sz) \in Nat
          BY <1>2, <2>1
        <4>2. QED
          BY <1>1, <3>2, <4>1
      <3>3. QED
        BY <1>3, <3>1, <3>2 DEF http_object_create
    <2>3. QED
      BY <1>3, <2>2, EmptyObject DEF http_object_create
  <1>4. CASE http_object_destroy
    <2>1. obj_buf' \in Memory
      BY <1>4 DEF http_object_destroy, Memory
    <2>2. QED
      BY <1>4, <2>1, EmptyObject DEF http_object_destroy
  <1>5. CASE http_object_reset
    <2>1. 1 \in Nat \ {0} /\ Filled(NUL, data_len) \in Memory
      BY <1>0, <1>1
    <2>2. obj_buf' \in Memory
      BY <1>0, <1>5, <2>1, MemoryPut DEF http_object_reset
    <2>3. QED
      BY <1>5, <2>2, EmptyObject DEF http_object_reset
  <1>6. ASSUME NEW sz \in BufSizes, http_object_reset_buffer(sz) PROVE HttpInv'
    <2>1. /\ sz \in Nat /\ obj_buf' = Filled("?", sz) /\ intact' = (intact /\ data_len = 0)
          /\ data_len' = data_len /\ UNCHANGED <<hdrvars, contvars, given, written, body>>
      BY <1>2, <1>6 DEF http_object_reset_buffer
    <2>2. obj_buf' \in Memory
      BY <1>1, <2>1
    <2>3. intact' \in BOOLEAN /\ data_len' \in Nat /\ (intact' => intact /\ data_len = 0 /\ data_len' = 0)
      BY <1>0, <2>1
    <2>4. QED
      BY <2>1, <2>2, <2>3, Exchanged
  <1>7. ASSUME NEW l \in Lines, http_object_add_header(l.id, l.text) PROVE HttpInv'
    BY <1>2, <1>7, HeaderAdded
  <1>8. ASSUME NEW text \in Contents, http_object_add_content(text) PROVE HttpInv'
    BY <1>2, <1>8, ContentAdded
  <1>9. ASSUME NEW first \in FirstLines, NEW len \in BufSizes, http_object_parse_data(first, len)
        PROVE  HttpInv'
    <2>1. /\ len \in Int /\ data_len' = data_len
          /\ UNCHANGED <<hdrvars, contvars, given, written, body>>
          /\ \/ obj_buf' = Filled("?", len) /\ Len(obj_buf) < len
                /\ intact' = (intact /\ data_len = 0)
             \/ obj_buf' = obj_buf /\ intact' = intact
      BY <1>2, <1>9 DEF http_object_parse_data
    <2>2. CASE /\ obj_buf' = Filled("?", len) /\ Len(obj_buf) < len
               /\ intact' = (intact /\ data_len = 0)
      <3>1. len \in Nat
        BY <1>0, <2>1, <2>2, MemoryJoin
      <3>2. obj_buf' \in Memory
        BY <1>1, <2>2, <3>1
      <3>3. intact' \in BOOLEAN /\ data_len' \in Nat /\ (intact' => intact /\ data_len = 0 /\ data_len' = 0)
        BY <1>0, <2>1, <2>2
      <3>4. QED
        BY <2>1, <3>2, <3>3, Exchanged
    <2>3. CASE obj_buf' = obj_buf /\ intact' = intact
      BY <2>1, <2>3, SameMessage
    <2>4. QED
      BY <2>1, <2>2, <2>3
  <1>10. ASSUME NEW first \in FirstLines, NEW len \in BufSizes, http_object_parse_file(first, len)
         PROVE  HttpInv'
    <2>1. /\ len \in Nat /\ data_len' = 0 /\ intact' = FALSE
          /\ obj_buf' = Put(IF Len(obj_buf) < len THEN Filled("?", len) ELSE obj_buf,
                            1, Filled("f", len))
          /\ UNCHANGED <<hdrvars, contvars, given, written, body>>
      BY <1>2, <1>10 DEF http_object_parse_file
    <2>2. /\ (IF Len(obj_buf) < len THEN Filled("?", len) ELSE obj_buf) \in Memory
          /\ Filled("f", len) \in Memory /\ 1 \in Nat \ {0}
      BY <1>0, <1>1, <2>1
    <2>3. obj_buf' \in Memory
      BY <2>1, <2>2, MemoryPut
    <2>4. QED
      BY <2>1, <2>3, Exchanged
  <1>11. CASE UNCHANGED hovars
    BY <1>11, SameObject
  <1>12. QED
    BY <1>3, <1>4, <1>5, <1>6, <1>7, <1>8, <1>9, <1>10, <1>11 DEF ClientNext


\* Initially there is no object.
LEMMA HttpStart == HttpInit => HttpInv
  <1> SUFFICES ASSUME HttpInit PROVE HttpInv
    OBVIOUS
  <1>1. /\ obj_buf = <<>> /\ given = <<>> /\ written = <<>> /\ body = <<>>
        /\ data_len = 0 /\ intact = TRUE
        /\ content = 0 /\ content_len = 0
        /\ hdr_set = [id \in HdrIds |-> 0] /\ hdr_len_set = [id \in HdrIds |-> 0]
        /\ bits = [i \in 1 .. 2 |-> 0]
    BY DEF HttpInit, NULL, bit_array_init, Filled, HTTP_HDR_NUM
  <1>2. \A id \in HdrIds : ~IsSet(bits[(id \div 8) + 1], id % 8)
    <2>1. \A n \in 1 .. 2 : bits[n] = 0
      BY <1>1
    <2>2. \A k \in 0 .. 7 : ~IsSet(0, k)
      BY BitTable DEF IsSet
    <2>3. QED
      BY <2>1, <2>2, HeaderIds
  <1>3. /\ DOMAIN given = {} /\ given \in Seq(Piece) /\ written \in Memory
        /\ body \in Memory /\ obj_buf \in Memory
    BY <1>1 DEF Memory
  <1>4. BitsKnown
    <2>1. bits \in [1 .. 2 -> 0 .. 255]
      BY <1>1
    <2>2. \A id : ~HasGiven(id)
      BY <1>3 DEF HasGiven
    <2>3. \A l \in 2 .. 7 : ~IsSet(bits[2], l)
      <3>1. \A l \in 0 .. 7 : ~IsSet(0, l)
        BY BitTable DEF IsSet
      <3>2. QED
        BY <1>1, <3>1
    <2>4. QED
      BY <1>2, <2>1, <2>2, <2>3 DEF BitsKnown
  <1>5. HttpTypes
    BY <1>1, <1>3 DEF HttpTypes
  <1>6. \A id \in HdrIds : HeaderAt(id)
    BY <1>1, <1>3 DEF HeaderAt, NULL
  <1>7. data_len <= Len(obj_buf) /\ MessageAt /\ BodyAt
    <2>1. obj_buf \in Seq(HttpChar)
      BY <1>3 DEF Memory
    <2>2. SubSeq(obj_buf, 1, 0) = <<>> /\ 0 <= Len(obj_buf)
      BY <2>1
    <2>3. QED
      BY <1>1, <2>2 DEF MessageAt, BodyAt
  <1>8. hdr_set \in [HdrIds -> Nat] /\ hdr_len_set \in [HdrIds -> Nat]
    BY <1>1
  <1>9. QED
    BY <1>4, <1>5, <1>6, <1>7, <1>8 DEF HttpInv, Message

\* Whatever a client adds, in whatever order and to a buffer of whatever size,
\* the content is one piece, and the message is what was accepted if no header
\* was given between two contents; until the buffer is exchanged under it
\* (f1g_http.c, http_object_add_header, http_object_add_content,
\* http_object_reset).
THEOREM MessageKept == HttpSpec => []MessageIsWhatWasGiven
  <1>1. HttpInv => MessageIsWhatWasGiven
    BY DEF HttpInv, Message, MessageAt, BodyAt, Ordered, MessageIsWhatWasGiven
  <1>2. QED
    BY <1>1, HttpStart, HttpStep, PTL DEF HttpSpec

\* Every header that was accepted and not written over by content is found with
\* its last value, no other is found, until the buffer is exchanged; and what
\* the check of a header's existence answers: that the header was accepted and
\* none with a higher bit in its byte (f1g_http.c, http_object_add_header, on
\* f1g_bit_array.c).
THEOREM HeadersKept == HttpSpec => []HeadersFound
  <1>1. ASSUME HttpInv PROVE HeadersFound
    <2>1. ASSUME intact, NEW id \in HdrIds
          PROVE  LET at == {i \in DOMAIN given : given[i].id = id}
                 IN  IF at = {}
                     THEN hdr_set[id] = NULL
                     ELSE \/ WrittenOver(Max(at))
                          \/ SubSeq(obj_buf, hdr_set[id], hdr_set[id] + hdr_len_set[id] - 1)
                                = given[Max(at)].text
      <3> DEFINE at == {i \in DOMAIN given : given[i].id = id}
      <3>1. HeaderAt(id)
        BY <1>1, <2>1 DEF HttpInv, Message
      <3>2. CASE at = {}
        BY <3>1, <3>2 DEF HeaderAt
      <3>3. CASE at # {}
        <4>1. PICK m \in DOMAIN given :
                /\ given[m].id = id /\ \A i \in DOMAIN given : given[i].id = id => i <= m
                /\ Kept(id, m)
          BY <3>1, <3>3 DEF HeaderAt
        <4>2. m \in at /\ \A i \in at : m >= i
          <5>1. DOMAIN given = 1 .. Len(given) /\ Len(given) \in Nat
            BY <1>1 DEF HttpInv, HttpTypes
          <5>2. QED
            BY <4>1, <5>1
        <4>3. at \subseteq Int
          BY <1>1 DEF HttpInv, HttpTypes
        <4> HIDE DEF at
        <4>4. Max(at) = m
          BY <4>2, <4>3 DEF Max
        <4>5. QED
          BY <3>3, <4>1, <4>4 DEF at, Kept
      <3>4. QED
        BY <3>2, <3>3
    <2>2. ASSUME NEW id \in HdrIds
          PROVE  bit_array_bit_value(bits, id) = 1 <=>
                    /\ HasGiven(id)
                    /\ \A h \in HdrIds : id < h /\ id \div 8 = h \div 8 => ~HasGiven(h)
      <3>1. PICK n \in 1 .. 2, k \in 0 .. 7 : n = (id \div 8) + 1 /\ k = id % 8
        BY HeaderIds
      <3>2. PICK b \in 0 .. 255 : b = bits[n]
        BY <1>1 DEF HttpInv, BitsKnown
      <3>3. \A h \in HdrIds : h \div 8 = id \div 8 => (IsSet(b, h % 8) <=> HasGiven(h))
        BY <1>1, <3>1, <3>2 DEF HttpInv, BitsKnown
      <3>4. bit_array_bit_value(bits, id) = 1
              <=> IsSet(b, k) /\ \A l \in 0 .. 7 : k < l => ~IsSet(b, l)
        <4>1. bit_array_bit_value(bits, id) = (b * Bit[8 - k]) \div Bit[8]
          BY <3>1, <3>2 DEF bit_array_bit_value
        <4>2. QED
          BY <4>1, BitValue
      <3>5. IsSet(b, k) <=> HasGiven(id)
        BY <3>1, <3>3
      <3>6. (\A l \in 0 .. 7 : k < l => ~IsSet(b, l))
              <=> \A h \in HdrIds : id < h /\ id \div 8 = h \div 8 => ~HasGiven(h)
        <4>1. ASSUME NEW l \in 0 .. 7, k < l, IsSet(b, l)
              PROVE  \E h \in HdrIds : id < h /\ id \div 8 = h \div 8 /\ h % 8 = l
          <5>1. n = 2 => l < 2
            <6>1. n = 2 => ~(l \in 2 .. 7)
              BY <1>1, <3>2, <4>1 DEF HttpInv, BitsKnown
            <6>2. QED
              BY <6>1
          <5>2. \A i \in 0 .. 9, q \in 0 .. 7 :
                    i % 8 < q /\ ((i \div 8) + 1 = 2 => q < 2) =>
                        \E h \in 0 .. 9 : i < h /\ i \div 8 = h \div 8 /\ h % 8 = q
            <6>1. ASSUME NEW i \in 0 .. 9, NEW q \in 0 .. 7, i % 8 < q,
                         (i \div 8) + 1 = 2 => q < 2
                  PROVE  \E h \in 0 .. 9 : i < h /\ i \div 8 = h \div 8 /\ h % 8 = q
              <7>1. PICK h \in Int : h = 8 * (i \div 8) + q
                OBVIOUS
              <7>2. h \in 0 .. 9 /\ i < h /\ i \div 8 = h \div 8 /\ h % 8 = q
                BY <6>1, <7>1
              <7>3. QED
                BY <7>2
            <6>2. QED
              BY <6>1
          <5>3. QED
            BY <3>1, <4>1, <5>1, <5>2, HeaderIds
        <4>2. ASSUME NEW h \in HdrIds, id < h, id \div 8 = h \div 8
              PROVE  h % 8 \in 0 .. 7 /\ k < h % 8
          <5>1. \A i, q \in 0 .. 9 : i < q /\ i \div 8 = q \div 8 => i % 8 < q % 8
            OBVIOUS
          <5>2. QED
            BY <3>1, <4>2, <5>1, HeaderIds
        <4>3. QED
          BY <3>3, <4>1, <4>2
      <3>7. QED
        BY <3>4, <3>5, <3>6
    <2>3. QED
      BY <2>1, <2>2 DEF HeadersFound
  <1>2. HttpInv => HeadersFound
    BY <1>1
  <1>3. QED
    BY <1>2, HttpStart, HttpStep, PTL DEF HttpSpec
=============================================================================
