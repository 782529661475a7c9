----------------------------- MODULE HttpObject -----------------------------
(***************************************************************************)
(* f1g_http.c and f1g_bit_array.c: a message is put together in a buffer   *)
(* of fixed size, header by header; a bit array remembers which headers    *)
(* are there.                                                              *)
(*                                                                         *)
(* A text is a sequence of characters, as in HttpParser.  obj_buf is the   *)
(* whole memory of the buffer, so that buf_sz is its length; a pointer     *)
(* into it is a position, 0 for NULL.  Allocations succeed.                *)
(***************************************************************************)
EXTENDS HttpParser, Functions

CONSTANTS
    HO_MIN_BUF_SZ, HO_DFT_BUF_SZ,
    Lines,          \* [id, text]: the headers a client adds
    Contents,       \* the contents a client adds
    BufSizes,       \* the buffer sizes and lengths of data a client asks for
    MaxGiven        \* bound on the headers and contents of one message

ASSUME HttpObjectAssumption ==
    /\ HO_MIN_BUF_SZ \in Nat /\ HO_DFT_BUF_SZ \in Nat
    /\ HO_MIN_BUF_SZ < HO_DFT_BUF_SZ
    /\ Lines \subseteq [id : Nat, text : Seq(STRING)]
    /\ Contents \subseteq Seq(STRING) /\ BufSizes \subseteq Int

VARIABLES
    status,         \* "none": no object; "live"; "hang": parse_data loops
    obj_buf, data_len,
    bits,           \* the bytes of the bit array
    hdr_set, hdr_len_set,
    content, content_len,
    given,          \* history: the headers and contents accepted, in order
    written,        \* history: their text, put together
    body,           \* history: the contents, put together
    intact          \* history: the buffer was not exchanged under a message, which
                    \* is lost then, with the memory the pointers lead to

hdrvars == <<bits, hdr_set, hdr_len_set>>
contvars == <<content, content_len>>
hovars == <<status, obj_buf, data_len, hdrvars, contvars, given, written, body, intact>>

HTTP_HDR_METHOD == 0
HTTP_HDR_PATH == 1
HTTP_HDR_VERSION == 2
HTTP_HDR_HOST == 3
HTTP_HDR_UA == 4
HTTP_HDR_REFER == 5
HTTP_HDR_COOKIE == 6
HTTP_HDR_END == 7
HTTP_HDR_REQ_LINE == 8
HTTP_HDR_RSP_LINE == 9
HTTP_HDR_NUM == 10
HdrIds == 0 .. (HTTP_HDR_NUM - 1)

\* What a header's line begins with: header_size characters of the string,
\* which for the Referer is two less than there are.
http_header_info(id) ==
    CASE id = HTTP_HDR_HOST -> <<"Host", ":", " ">>
      [] id = HTTP_HDR_REFER -> <<"Referer", ":">>
      [] id = HTTP_HDR_UA -> <<"User-Agent", ":", " ">>
      [] id = HTTP_HDR_COOKIE -> <<"Cookie", ":", " ">>
      [] OTHER -> <<>>

-----------------------------------------------------------------------------
(* The bit array.                                                          *)

bit_array_init(bit_num) == Filled(0, (bit_num + 7) \div 8)

\* 1 << k, at place k + 1.
Bit == <<1, 2, 4, 8, 16, 32, 64, 128>>

\* The byte is promoted to int before it is shifted to the left, so that
\* higher bits are not lost: 1 only if bit_seq is the highest bit set.
bit_array_bit_value(bs, bit_seq) ==
    (bs[(bit_seq \div 8) + 1] * Bit[8 - (bit_seq % 8)]) \div Bit[8]

IsSet(byte, k) == (byte \div Bit[k + 1]) % 2 = 1

bit_array_set_bit(bs, bit_seq) ==
    LET k == bit_seq % 8
    IN  [bs EXCEPT ![(bit_seq \div 8) + 1] =
            IF IsSet(@, k) THEN @ ELSE @ + Bit[k + 1]]

-----------------------------------------------------------------------------
(* The object.                                                             *)

Empty ==
    /\ data_len' = 0
    /\ bits' = bit_array_init(HTTP_HDR_NUM)
    /\ hdr_set' = [id \in HdrIds |-> NULL]
    /\ hdr_len_set' = [id \in HdrIds |-> 0]
    /\ content' = NULL /\ content_len' = 0
    /\ given' = <<>> /\ written' = <<>> /\ body' = <<>> /\ intact' = TRUE

HttpInit ==
    /\ status = "none"
    /\ obj_buf = <<>> /\ data_len = 0
    /\ bits = bit_array_init(HTTP_HDR_NUM)
    /\ hdr_set = [id \in HdrIds |-> NULL]
    /\ hdr_len_set = [id \in HdrIds |-> 0]
    /\ content = NULL /\ content_len = 0
    /\ given = <<>> /\ written = <<>> /\ body = <<>> /\ intact = TRUE

\* Without a buffer one of buf_sz or of the default size is allocated; with
\* one, or with exactly HO_MIN_BUF_SZ, the size must be above the minimum.
http_object_create(caller, buf_sz) ==
    /\ status = "none"
    /\ \/ /\ ~caller /\ buf_sz # HO_MIN_BUF_SZ
          /\ obj_buf' = Filled(NUL, IF buf_sz < HO_MIN_BUF_SZ
                                    THEN HO_DFT_BUF_SZ ELSE buf_sz)
       \/ /\ caller /\ buf_sz > HO_MIN_BUF_SZ
          /\ obj_buf' = Filled("?", buf_sz)
    /\ status' = "live"
    /\ Empty

http_object_destroy ==
    /\ status = "live"
    /\ status' = "none" /\ obj_buf' = <<>>
    /\ Empty

\* Mutant: the bit array keeps its bits.
ResetKeepsBits ==
    /\ status = "live"
    /\ obj_buf' = Put(obj_buf, 1, Filled(NUL, data_len))
    /\ data_len' = 0
    /\ hdr_set' = [id \in HdrIds |-> NULL]
    /\ hdr_len_set' = [id \in HdrIds |-> 0]
    /\ content' = NULL /\ content_len' = 0
    /\ given' = <<>> /\ written' = <<>> /\ body' = <<>> /\ intact' = TRUE
    /\ UNCHANGED <<status, bits>>

http_object_reset ==
    /\ status = "live"
    /\ obj_buf' = Put(obj_buf, 1, Filled(NUL, data_len))
    /\ Empty
    /\ UNCHANGED status

\* The buffer is exchanged; what was in it is not copied.
http_object_reset_buffer(buf_sz) ==
    /\ status = "live" /\ buf_sz > 0
    /\ obj_buf' = Filled("?", buf_sz)
    /\ intact' = (intact /\ data_len = 0)
    /\ UNCHANGED <<status, data_len, hdrvars, contvars, given, written, body>>

\* The room that is asked for: the name, the value and CR LF, and one more.
HasRoom(id, text) ==
    data_len + Len(text) + 2 + Len(http_header_info(id)) < Len(obj_buf)

Refused(id, text) ==
    \/ id >= HTTP_HDR_NUM
    \/ bit_array_bit_value(bits, id) = 1
    \/ ~HasRoom(id, text)

\* The text of a header, and of a content, which has no name and no CR LF.
LineOf(id, text) ==
    IF id = HTTP_HDR_NUM THEN text ELSE http_header_info(id) \o text \o CR_STR

Given(id, text) ==
    /\ given' = Append(given, [id |-> id, text |-> text])
    /\ written' = written \o LineOf(id, text)
    /\ body' = IF id = HTTP_HDR_NUM THEN body \o text ELSE body

http_object_add_header(id, text) ==
    /\ status = "live"
    /\ \/ /\ Refused(id, text)
          /\ UNCHANGED hovars
       \/ /\ ~Refused(id, text)
          /\ LET at == data_len + 1
                 name == http_header_info(id)
             IN  /\ obj_buf' = Put(obj_buf, at, name \o text \o CR_STR)
                 /\ hdr_set' = [hdr_set EXCEPT ![id] = at + Len(name)]
                 /\ hdr_len_set' = [hdr_len_set EXCEPT ![id] = Len(text)]
                 /\ data_len' = data_len + Len(name \o text \o CR_STR)
          /\ bits' = bit_array_set_bit(bits, id)
          /\ Given(id, text)
          /\ UNCHANGED <<status, contvars, intact>>

\* Mutant: content is always put where the content begins.
ContentAtBegin(text) ==
    /\ status = "live"
    /\ data_len + Len(text) <= Len(obj_buf)
    /\ content' = IF content_len = 0 THEN data_len + 1 ELSE content
    /\ obj_buf' = Put(obj_buf, content', text)
    /\ content_len' = content_len + Len(text)
    /\ data_len' = data_len + Len(text)
    /\ Given(HTTP_HDR_NUM, text)
    /\ UNCHANGED <<status, hdrvars, intact>>

\* Content is appended to the content, not to the message: a header between
\* two contents is overwritten.
http_object_add_content(text) ==
    /\ status = "live"
    /\ \/ /\ data_len + Len(text) > Len(obj_buf)
          /\ UNCHANGED hovars
       \/ /\ data_len + Len(text) <= Len(obj_buf)
          /\ content' = IF content_len = 0 THEN data_len + 1 ELSE content
          /\ obj_buf' = Put(obj_buf, content' + content_len, text)
          /\ content_len' = content_len + Len(text)
          /\ data_len' = data_len + Len(text)
          /\ Given(HTTP_HDR_NUM, text)
          /\ UNCHANGED <<status, hdrvars, intact>>

\* The first lines parse_data tells apart: "wrong", an unknown word with the
\* first letter of a method, is refused; after any other line that is not
\* empty the loop at the end never ends.
FirstLines == {"method", "wrong", "other", "empty"}

http_object_parse_data(first, len) ==
    /\ status = "live"
    /\ IF Len(obj_buf) < len
       THEN obj_buf' = Filled("?", len) /\ intact' = (intact /\ data_len = 0)
       ELSE UNCHANGED <<obj_buf, intact>>
    /\ status' = IF first \in {"wrong", "empty"} THEN "live" ELSE "hang"
    /\ UNCHANGED <<data_len, hdrvars, contvars, given, written, body>>

\* The length read is the outcome of a comparison: 0 if all was read.  The
\* object says that it is empty, its headers point into the file, and in no
\* bytes not even an empty line is found.
http_object_parse_file(first, st_size) ==
    /\ status = "live" /\ st_size > 0
    /\ obj_buf' = Put(IF Len(obj_buf) < st_size THEN Filled("?", st_size)
                                                ELSE obj_buf,
                      1, Filled("f", st_size))
    /\ data_len' = 0
    /\ intact' = FALSE
    /\ status' = IF first = "wrong" THEN "live" ELSE "hang"
    /\ UNCHANGED <<hdrvars, contvars, given, written, body>>

\* Clients of the object call in any order.
ClientNext ==
    \/ \E caller \in BOOLEAN, sz \in BufSizes : http_object_create(caller, sz)
    \/ http_object_destroy
    \/ http_object_reset
    \/ \E sz \in BufSizes : http_object_reset_buffer(sz)
    \/ /\ Len(given) < MaxGiven
       /\ \/ \E l \in Lines : http_object_add_header(l.id, l.text)
          \/ \E text \in Contents : http_object_add_content(text)
    \/ \E first \in FirstLines, len \in BufSizes :
            http_object_parse_data(first, len) \/ http_object_parse_file(first, len)

HttpSpec == HttpInit /\ [][ClientNext]_hovars

-----------------------------------------------------------------------------
(* What the message must be.                                               *)

IsBody(i) == given[i].id = HTTP_HDR_NUM
HasGiven(id) == \E i \in DOMAIN given : given[i].id = id

\* A header between two contents is written over, in part or whole, by the
\* second one, which goes behind the first (http_object_add_content).
WrittenOver(i) ==
    /\ ~IsBody(i)
    /\ \E a, c \in DOMAIN given : a < i /\ i < c /\ IsBody(a) /\ IsBody(c)

\* If no header was given between two contents, the message in the buffer is
\* what was accepted, in that order: no room is miscounted, and nothing is
\* written over what is there.  In every order of calls the content is in one
\* piece (f1g_http.c, http_object_add_header and http_object_add_content).
\* Nothing is said of a buffer that was exchanged under a message, or into which
\* a file was read.
MessageIsWhatWasGiven ==
    status = "live" /\ intact =>
        /\ (\A i \in DOMAIN given : ~WrittenOver(i))
              => SubSeq(obj_buf, 1, data_len) = written
        /\ content_len > 0
              => SubSeq(obj_buf, content, content + content_len - 1) = body

\* For every header that was accepted and not written over, hdr_set and
\* hdr_len_set give its last value, also after more headers, contents and a
\* reset; for no other header do they give anything ("check existence of header"
\* in http_object_add_header, http_object_reset).  And what that check answers:
\* it refuses a header that was accepted, and no other, but only until one with
\* a higher bit in the same byte is accepted too; then the bit is set and
\* bit_array_bit_value is not 1, so that the header is accepted a second time.
HeadersFound ==
    /\ status = "live" /\ intact => \A id \in HdrIds :
        LET at == {i \in DOMAIN given : given[i].id = id}
        IN  IF at = {}
            THEN hdr_set[id] = NULL
            ELSE \/ WrittenOver(Max(at))
                 \/ SubSeq(obj_buf, hdr_set[id], hdr_set[id] + hdr_len_set[id] - 1)
                        = given[Max(at)].text
    /\ status = "live" => \A id \in HdrIds :
        bit_array_bit_value(bits, id) = 1 <=>
            /\ HasGiven(id)
            /\ \A h \in HdrIds : id < h /\ id \div 8 = h \div 8 => ~HasGiven(h)

Trimmed(text) ==
    LET black == {n \in DOMAIN text : text[n] # SP_CHAR}
    IN  IF black = {} THEN <<>> ELSE SubSeq(text, Min(black), Max(black))

\* The last value accepted for a header before the end of the headers.
LastGiven(id, end) ==
    LET at == {i \in 1 .. (end - 1) : given[i].id = id}
    IN  IF at = {} THEN <<>> ELSE Trimmed(given[Max(at)].text)

\* The parser reads from a finished request what was put into it: a request
\* that begins with its request line and has its empty line is accepted, and
\* host, user agent, cookie and referer are the values given last, without
\* the blanks around them; a line given whole that asks for a language is not
\* taken for one that asks for a type (f1g_http_parser.c, http_req_header_parser, on what
\* http_object_add_header wrote).
ParsedBack ==
    LET parsed == http_req_header_parser(obj_buf, data_len)
        ends == {i \in DOMAIN given : given[i].id = HTTP_HDR_END}
        end == Min(ends)
        refer == {i \in 1 .. (end - 1) :
                    /\ given[i].id = HTTP_HDR_REFER
                    /\ \E k \in 1 .. (Len(Trimmed(given[i].text)) - 1) :
                            Trimmed(given[i].text)[k] = "/"}
    IN  (/\ status = "live" /\ intact /\ ends # {}
         /\ \A i \in DOMAIN given : ~WrittenOver(i)
         /\ given[1].id = HTTP_HDR_REQ_LINE
         /\ \A i \in 2 .. (end - 1) : given[i].id \in
                {HTTP_HDR_HOST, HTTP_HDR_UA, HTTP_HDR_COOKIE, HTTP_HDR_REFER,
                 HTTP_HDR_METHOD})
        => /\ parsed.ret
           /\ parsed.req.uri = SelectSeq(given[1].text, LAMBDA c : c \notin
                    {"GET", SP_CHAR, "HTTP/1.1", "HTTP/1.0"})
           /\ parsed.req.host = LastGiven(HTTP_HDR_HOST, end)
           /\ parsed.req.ua = LastGiven(HTTP_HDR_UA, end)
           /\ parsed.req.cookie = LastGiven(HTTP_HDR_COOKIE, end)
           /\ parsed.req.accept = <<>>
           /\ parsed.req.accept_lang =
                IF LastGiven(HTTP_HDR_METHOD, end) = <<>> THEN <<>> ELSE <<"en">>
           /\ refer # {} => parsed.req.refer_host \o parsed.req.refer_uri
                                = Trimmed(given[Max(refer)].text)
=============================================================================
