------------------------------- MODULE PkSender -------------------------------
(***************************************************************************)
(* tools/pksender_v2.c: a file of web hosts is read with the data fields   *)
(* of f1g_data_op.c, and for each host a packet is forged whose payload is *)
(* a request made with the object of f1g_http.c, or a time stamp.          *)
(*                                                                         *)
(* A file is what it says (its count, its columns, its lines) and its      *)
(* text; the program sees the text only.  A web host is one struct: its    *)
(* four strings lie behind each other in one piece of memory, with the     *)
(* type of the next web host behind them.  "ub" is the end of what C       *)
(* defines: the NULL pointer used, memory written outside of its object,   *)
(* or memory used that nobody has written.                                 *)
(***************************************************************************)
EXTENDS HttpObject, DataField, NetForge

CONSTANTS
    Files,          \* [num, sep, max_col, lines, newline], see FileText
    Number,         \* atoi and strtol of the texts that are numbers
    Address,        \* inet_pton: the texts that are addresses, in two words
    HOST_STR_SIZE, PATH_STR_SIZE, UA_STR_SIZE, COOKIE_STR_SIZE,
    REQ_LINE_SIZE, BUF_SZ, LOAD_OFF, LOAD_SZ,
    Pid             \* getpid()

Sizes == <<HOST_STR_SIZE, PATH_STR_SIZE, UA_STR_SIZE, COOKIE_STR_SIZE>>
StringsSize == HOST_STR_SIZE + PATH_STR_SIZE + UA_STR_SIZE + COOKIE_STR_SIZE

\* A request with the longest strings fits into the object's buffer, and with
\* the headers before it into g_buf: 19 is what a request has besides them.
ASSUME SenderAssumption ==
    /\ \A n \in 1 .. 4 : Sizes[n] \in Nat
    /\ REQ_LINE_SIZE \in Nat /\ BUF_SZ \in Nat
    /\ LOAD_OFF \in Nat /\ LOAD_SZ \in Nat /\ Pid \in Int
    /\ \A t \in DOMAIN Number : Number[t] \in Int
    /\ \A t \in DOMAIN Address : Address[t] \in Word \X Word
    /\ StringsSize + 19 < HO_DFT_BUF_SZ
    /\ LOAD_OFF + StringsSize + 19 <= BUF_SZ
    /\ LOAD_OFF + LOAD_SZ <= BUF_SZ /\ LOAD_SZ >= 4

VARIABLES
    file, buf,
    pb, pe,         \* of the line being read
    sep, df,
    line_num, webhosts, i,
    g_buf,          \* the payload in g_buf
    load,           \* load_size: how much of it the last host with a load had
    k,              \* the header that is added next
    sent,           \* history: the packets sent
    pc

rvars == <<file, buf, pb, pe, sep, df, line_num, webhosts>>
svars == <<g_buf, load, k, sent>>
vars == <<rvars, i, svars, pc, hovars>>

TAB == "\\t"
NL == "\\n"
JUNK == "?"         \* memory that nobody has written
BYTE == "\\1"        \* a byte of a number that is not zero
UNSET == -1         \* load_size before a first host has set it

\* "#LINE=n;Sep=\t;MaxCol=m;\n", then the lines, each field with a separator
\* behind it.
FileText(f) ==
    LET Opt(name, val) == IF val = <<>> THEN <<>> ELSE <<name>> \o val \o <<";">>
        LineText(l) == FlattenSeq([n \in DOMAIN l.fields |->
                            IF n = Len(l.fields) /\ ~l.closed THEN l.fields[n]
                            ELSE Append(l.fields[n], TAB)])
        texts == [n \in DOMAIN f.lines |->
                    IF n = Len(f.lines) /\ ~f.newline THEN LineText(f.lines[n])
                    ELSE Append(LineText(f.lines[n]), NL)]
    IN  <<"#">> \o Opt("LINE=", f.num) \o Opt("Sep=", f.sep)
            \o Opt("MaxCol=", f.max_col) \o <<NL>> \o FlattenSeq(texts)

atoi(text) ==
    IF text # <<>> /\ text[1] \in DOMAIN Number THEN Number[text[1]] ELSE 0

IsAddress(text) == text # <<>> /\ text[1] \in DOMAIN Address

NoHost == [type |-> -1, src_ip |-> <<JUNK>>, src_port |-> -1,
           dst_ip |-> <<JUNK>>, dst_port |-> -1,
           strings |-> Filled(JUNK, StringsSize)]

Init ==
    /\ HttpInit
    /\ file \in Files /\ buf = FileText(file)
    /\ pb = 1 /\ pe = 1 /\ sep = <<>> /\ df = data_field_init(0, 0)
    /\ line_num = 0 /\ webhosts = <<>> /\ i = 1
    /\ g_buf = Filled(NUL, BUF_SZ - LOAD_OFF) /\ load = UNSET /\ k = 1
    /\ sent = <<>> /\ pc = "header"

-----------------------------------------------------------------------------
(* _read_webhost_from_file: the first line, then line by line.             *)

\* Without a number of lines the file is refused.  A separator that is not
\* given is whatever the stack holds (the default is copied with length 0).
\* Of one line only, no memory is taken for it.
ReadHeader ==
    LET nl == find_str(buf, 1, Len(buf), <<NL>>)
        Option(name) == substr(buf, 1, nl, <<name>>, <<";">>, 16)
        num == atoi(Option("LINE="))
        cols == atoi(Option("MaxCol="))
    IN  /\ pc = "header"
        /\ IF nl = NULL \/ Option("LINE=") = <<>>
           THEN pc' = "failed" /\ UNCHANGED <<rvars, hovars>>
           ELSE /\ sep' \in IF Option("Sep=") # <<>> THEN {Option("Sep=")}
                            ELSE {<<>>, <<JUNK>>, <<TAB>>}
                /\ df' = data_field_init(IF Option("MaxCol=") = <<>> THEN 20
                                         ELSE cols, 0)
                /\ line_num' = num
                /\ webhosts' = IF num > 1 THEN [n \in 1 .. num |-> NoHost] ELSE <<>>
                /\ pe' = nl
                /\ pc' = "line"
                /\ UNCHANGED <<file, buf, pb, hovars>>
        /\ UNCHANGED <<i, svars>>

\* The last character of the file ends a line, whatever it is.
StartLine ==
    LET nl == find_str(buf, pe + 1, Len(buf), <<NL>>)
    IN  /\ pc = "line" /\ i <= line_num
        /\ pb' = pe + 1
        /\ pe' = IF nl = NULL THEN Len(buf) ELSE nl
        /\ pc' = IF pb' >= pe' THEN "create" ELSE "field"
        /\ UNCHANGED <<file, buf, sep, df, line_num, webhosts, i, svars, hovars>>

\* One round of data_field_read_buf.  A field without a separator behind it
\* is copied with a negative length; an empty separator adds items until
\* their number overflows.
ReadField ==
    LET at == NextSep(buf, pb, pe, sep)
        Undefined == IF at = NULL \/ sep = <<>> THEN TRUE ELSE AddsToJunk(df)
    IN  /\ pc = "field" /\ pb # pe
        /\ \/ /\ Undefined
              /\ pc' = "ub"
              /\ UNCHANGED <<pb, df>>
           \/ /\ at # NULL /\ sep # <<>>
              /\ df' = data_field_add_item(df, SubSeq(buf, pb, at - 1))
              /\ pb' = at + Len(sep)
              /\ UNCHANGED pc
        /\ UNCHANGED <<file, buf, pe, sep, line_num, webhosts, i, svars, hovars>>

Offset(n) == CASE n = 1 -> 0
               [] n = 2 -> HOST_STR_SIZE
               [] n = 3 -> HOST_STR_SIZE + PATH_STR_SIZE
               [] n = 4 -> HOST_STR_SIZE + PATH_STR_SIZE + UA_STR_SIZE

\* At most the size of the array is copied, and the NUL behind it: of a text
\* that fills the array it lies in the next one, of a cookie behind all four.
data_field_copy_str(mem, n, text) ==
    LET len == IF Sizes[n] < Len(text) THEN Sizes[n] ELSE Len(text)
    IN  Put(mem, Offset(n) + 1, Append(SubSeq(text, 1, len), NUL))

data_field_get_i32(f, seq) ==
    IF HasItem(f, seq) THEN atoi(data_field_get_str(f, seq)) ELSE -1

IpText(f, seq) == IF HasItem(f, seq) THEN data_field_get_str(f, seq) ELSE <<JUNK>>

\* Items 5 to 8 are the strings; one that is missing leaves its array alone.
StoreStrings(f, mem) ==
    LET Copy(m, n) == IF HasItem(f, n + 4)
                      THEN data_field_copy_str(m, n, data_field_get_str(f, n + 4))
                      ELSE m
    IN  Copy(Copy(Copy(Copy(mem, 1), 2), 3), 4)

\* The NUL of the cookie is not in its array.
CookieFills(f) ==
    /\ data_field_get_i32(f, 0) = 1 /\ HasItem(f, 8)
    /\ Len(data_field_get_str(f, 8)) >= COOKIE_STR_SIZE

\* The items go into the web host of the line, and are emptied.  A NUL behind
\* the cookie lies in the type of the next web host, which its line writes
\* again, and behind the table if there is no next one.
StoreLine ==
    /\ pc = "field" /\ pb = pe
    /\ IF webhosts = <<>> \/ (i = line_num /\ CookieFills(df))
       THEN pc' = "ub" /\ UNCHANGED <<webhosts, df, i>>
       ELSE /\ webhosts' = [webhosts EXCEPT ![i] =
                  [type |-> data_field_get_i32(df, 0),
                   src_ip |-> IpText(df, 1),
                   src_port |-> data_field_get_i32(df, 2) % U16,
                   dst_ip |-> IpText(df, 3),
                   dst_port |-> data_field_get_i32(df, 4) % U16,
                   strings |-> IF data_field_get_i32(df, 0) = 1
                               THEN StoreStrings(df, @.strings) ELSE @.strings]]
            /\ df' = data_field_clean_items(df)
            /\ pc' = IF pe = Len(buf) THEN "create" ELSE "line"
            /\ i' = i + 1
    /\ UNCHANGED <<file, buf, pb, pe, sep, line_num, svars, hovars>>

-----------------------------------------------------------------------------
(* main: one packet for each of line_num web hosts, read or not.           *)

Create ==
    /\ pc = "create" \/ (pc = "line" /\ i > line_num)
    /\ http_object_create(FALSE, 0)
    /\ i' = 1
    /\ pc' = "host"
    /\ UNCHANGED <<rvars, svars>>

\* The object is reset and the addresses are converted.  A web host that was
\* never stored is memory nobody has written.  A host of another type has no
\* load, but the TCP checksum is taken over load_size: that of an earlier host,
\* or of none.
NextHost ==
    /\ pc = "host" /\ i <= line_num
    /\ http_object_reset
    /\ k' = 1
    /\ pc' = IF webhosts = <<>> \/ webhosts[i] = NoHost THEN "ub"
             ELSE IF IsAddress(webhosts[i].src_ip) /\ IsAddress(webhosts[i].dst_ip)
             THEN CASE webhosts[i].type = 0 -> "stamp"
                    [] webhosts[i].type = 1 -> "add"
                    [] OTHER -> IF load = UNSET THEN "ub" ELSE "send"
             ELSE "failed"
    /\ UNCHANGED <<rvars, i, g_buf, load, sent>>

\* sprintf of the time stamp; LOAD_SZ characters are sent, of which the last
\* ones are those of an earlier packet.
Stamp ==
    /\ pc = "stamp"
    /\ g_buf' = Put(g_buf, 1, <<"&timestamp=", "now", ";", NUL>>)
    /\ load' = LOAD_SZ
    /\ pc' = "send"
    /\ UNCHANGED <<rvars, i, k, sent, hovars>>

\* What lies behind the strings of host n: the NUL of its own cookie, or the
\* four bytes of the next one's type, the lowest first.  A text that goes on
\* behind a type without a zero byte is not followed: it ends in "ub".
Behind(n) ==
    IF n >= line_num THEN <<>>
    ELSE IF webhosts[n + 1] = NoHost THEN <<NUL>>
    ELSE [b \in 1 .. 5 |->
            IF b = 5 THEN JUNK
            ELSE IF (webhosts[n + 1].type \div 256 ^ (b - 1)) % 256 = 0
            THEN NUL ELSE BYTE]

\* strlen and what it counts, from the beginning of array n.
CString(mem, n) ==
    LET ends == {j \in (Offset(n) + 1) .. Len(mem) : mem[j] = NUL}
        end == IF ends = {} THEN Len(mem) + 1 ELSE Min(ends)
    IN  SubSeq(mem, Offset(n) + 1, end - 1)

\* Mutant: the empty line is forgotten.
HeadersWithoutEnd(mem) == <<
    [id |-> HTTP_HDR_REQ_LINE,
     text |-> <<"GET", " ">> \o CString(mem, 2) \o <<" ", "HTTP/1.1">>],
    [id |-> HTTP_HDR_HOST, text |-> CString(mem, 1)],
    [id |-> HTTP_HDR_COOKIE, text |-> CString(mem, 4)],
    [id |-> HTTP_HDR_UA, text |-> CString(mem, 3)]>>

\* The request that is made of the strings in mem.
Headers(mem) == <<
    [id |-> HTTP_HDR_REQ_LINE,
     text |-> <<"GET", " ">> \o CString(mem, 2) \o <<" ", "HTTP/1.1">>],
    [id |-> HTTP_HDR_HOST, text |-> CString(mem, 1)],
    [id |-> HTTP_HDR_COOKIE, text |-> CString(mem, 4)],
    [id |-> HTTP_HDR_UA, text |-> CString(mem, 3)],
    [id |-> HTTP_HDR_END, text |-> <<>>]>>

HostHeaders(n) == Headers(webhosts[n].strings \o Behind(n))

\* The request line is put together in an array of its own, with its NUL.  A
\* string of a field that the line does not have was never written.  Nobody
\* looks whether the object took the header.
AddHeader ==
    /\ pc = "add" /\ k <= Len(HostHeaders(i))
    /\ LET h == HostHeaders(i)[k]
           Defined == /\ \A j \in DOMAIN h.text : h.text[j] # JUNK
                      /\ k = 1 => Len(h.text) < REQ_LINE_SIZE
       IN  \/ /\ Defined
              /\ http_object_add_header(h.id, h.text)
              /\ UNCHANGED pc
           \/ /\ ~Defined
              /\ pc' = "ub"
              /\ UNCHANGED hovars
    /\ k' = k + 1
    /\ UNCHANGED <<rvars, i, g_buf, load, sent>>

\* The request is copied behind the headers in g_buf.
CopyRequest ==
    /\ pc = "add" /\ k > Len(HostHeaders(i))
    /\ IF LOAD_OFF + data_len > BUF_SZ
       THEN pc' = "ub" /\ UNCHANGED <<g_buf, load>>
       ELSE /\ g_buf' = Put(g_buf, 1, SubSeq(obj_buf, 1, data_len))
            /\ load' = data_len
            /\ pc' = "send"
    /\ UNCHANGED <<rvars, i, k, sent, hovars>>

\* Without a load of its own a host sends the headers only.
Packet(h) ==
    LET size == IF h.type \in {0, 1} THEN load ELSE 0
    IN  [ip |-> create_ip_hdr(Address[h.src_ip[1]], Address[h.dst_ip[1]],
                              LOAD_OFF + size, Pid),
         ports |-> <<h.src_port, h.dst_port>>,
         load |-> SubSeq(g_buf, 1, size)]

\* sendto may fail, which ends the loop.
Send ==
    /\ pc = "send"
    /\ \/ /\ sent' = Append(sent, Packet(webhosts[i]))
          /\ i' = i + 1 /\ pc' = "host"
          /\ UNCHANGED hovars
       \/ /\ http_object_destroy
          /\ pc' = "broken"
          /\ UNCHANGED <<sent, i>>
    /\ UNCHANGED <<rvars, g_buf, load, k>>

Finish ==
    /\ pc = "host" /\ i > line_num
    /\ http_object_destroy
    /\ pc' = "done"
    /\ UNCHANGED <<rvars, i, svars>>

Next ==
    \/ ReadHeader \/ StartLine \/ ReadField \/ StoreLine
    \/ Create \/ NextHost \/ Stamp \/ AddHeader \/ CopyRequest \/ Send \/ Finish

\* The program runs: it has one thread that nothing stops.
Spec == Init /\ [][Next]_vars /\ WF_vars(Next)

-----------------------------------------------------------------------------
(* What a file means, and what must come of it.                            *)

Field(l, n) == l.fields[n + 1]

\* The format: the count of the lines, which must be two or more, the
\* separator, enough columns, and the fields of each type with a separator
\* behind each of them.
WellFormed(f) ==
    /\ Len(f.lines) > 1 /\ f.num # <<>> /\ atoi(f.num) = Len(f.lines)
    /\ f.sep = <<TAB>> /\ f.newline
    /\ \A n \in DOMAIN f.lines :
        LET l == f.lines[n]
        IN  /\ l.closed
            /\ f.max_col # <<>> => Len(l.fields) <= atoi(f.max_col)
            /\ Len(l.fields) >= IF atoi(Field(l, 0)) = 1 THEN 9 ELSE 5

\* The strings of a line are shorter than the arrays they go to, the path
\* also with the rest of the request line.
Fits(l) ==
    atoi(Field(l, 0)) = 1 =>
        /\ \A n \in 1 .. 4 : Len(Field(l, n + 4)) < Sizes[n]
        /\ Len(Field(l, 6)) + 4 < REQ_LINE_SIZE

\* pkreceiver_v2.c, handler: what is logged of a packet's payload.
Received(payload) ==
    substr(payload, 1, Len(payload), <<"&timestamp=">>, <<";">>, 1024)

\* Of a file that has the format, packet n is the packet of line n, also when
\* strings of other lines do not fit their arrays: addresses, ports, and a payload from
\* which the receivers read the line's host, path, agent and cookie, or the
\* time stamp (pksender_v2.c on f1g_data_op.c and f1g_http.c).
SentAsConfigured ==
    WellFormed(file) => \A n \in DOMAIN sent :
        LET l == file.lines[n]
            parsed == http_req_header_parser(sent[n].load, Len(sent[n].load))
        IN  Fits(l) =>
            /\ sent[n].ports = <<atoi(Field(l, 2)), atoi(Field(l, 4))>>
            /\ SubSeq(sent[n].ip, 7, 10) = Address[Field(l, 1)[1]]
                                                \o Address[Field(l, 3)[1]]
            /\ atoi(Field(l, 0)) = 1 =>
                /\ parsed.ret
                /\ parsed.req.host = Trimmed(Field(l, 5))
                /\ parsed.req.uri = Field(l, 6)
                /\ parsed.req.ua = Trimmed(Field(l, 7))
                /\ parsed.req.cookie = Trimmed(Field(l, 8))
            /\ atoi(Field(l, 0)) = 0 => Received(sent[n].load) = <<"now">>

\* The IP header of every packet passes a receiver's check of its checksum,
\* with all carries (create_ip_hdr, chk_sum).
IpHeaderVerifies == \A n \in DOMAIN sent : Verifies(sent[n].ip)

\* A file that has the format, with strings that fit, addresses that are ones
\* and a first line of type 0 or 1, is sent to its end unless a send fails:
\* reading it ends, and no memory is used in a way C does not define
\* (pksender_v2.c, main).  Of a file that begins with another type this is not
\* true: its checksum is taken over a load_size that nobody has set.
AllSent ==
    (/\ WellFormed(file)
     /\ atoi(Field(file.lines[1], 0)) \in {0, 1}
     /\ \A n \in DOMAIN file.lines :
            /\ Fits(file.lines[n])
            /\ IsAddress(Field(file.lines[n], 1))
            /\ IsAddress(Field(file.lines[n], 3)))
        ~> \/ pc = "broken"
           \/ pc = "done" /\ Len(sent) = Len(file.lines)
=============================================================================
