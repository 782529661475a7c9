----------------------------- MODULE HttpParser -----------------------------
(***************************************************************************)
(* f1g_http_parser.c: the parser of a request's header.  A request is a    *)
(* sequence of characters, where a word such as "Host" or "HTTP/1.1" counts*)
(* as one character; what is extracted are texts, where the code stores    *)
(* pointers into the request.                                              *)
(***************************************************************************)
EXTENDS BasicFuncs, SequencesExt

CR_STR == <<"\\r", "\\n">>
SP_CHAR == " "
HDR_KV_SEP == <<":">>
METHOD_GET_STR == <<"GET">>
HTTPV11_STR == <<"HTTP/1.1">>
HTTPV10_STR == <<"HTTP/1.0">>

\* Mutant: the short name is tried first.
NamesShortFirst == <<
    [field |-> "accept", str |-> <<"Accept">>],
    [field |-> "cookie", str |-> <<"Cookie">>],
    [field |-> "host", str |-> <<"Host">>],
    [field |-> "refer", str |-> <<"Referer">>],
    [field |-> "ua", str |-> <<"User-Agent">>]>>

\* The names in the order in which add_header tries them: a name is matched
\* by its beginning, so that the longer ones come first.
Names == <<
    [field |-> "accept_lang", str |-> <<"Accept", "-Language">>],
    [field |-> "accept_encode", str |-> <<"Accept", "-Encoding">>],
    [field |-> "accept_charset", str |-> <<"Accept", "-Charset">>],
    [field |-> "accept", str |-> <<"Accept">>],
    [field |-> "cookie", str |-> <<"Cookie">>],
    [field |-> "host", str |-> <<"Host">>],
    [field |-> "refer", str |-> <<"Referer">>],
    [field |-> "ua", str |-> <<"User-Agent">>]>>

http_req_header_clear ==
    [method |-> "", version |-> "", uri |-> <<>>, host |-> <<>>, ua |-> <<>>,
     cookie |-> <<>>, refer_host |-> <<>>, refer_uri |-> <<>>, accept |-> <<>>,
     accept_charset |-> <<>>, accept_encode |-> <<>>, accept_lang |-> <<>>]

\* The value of a known header is stored, a Referer in two parts.  The "/" is
\* looked for before the last character of the value.
add_header(req, kv) ==
    LET hits == {i \in DOMAIN Names :
                    cmp_str2(kv.key, 1, Len(kv.key), Names[i].str)}
        field == Names[Min(hits)].field
        slash == find_str(kv.val, 1, Len(kv.val), <<"/">>)
    IN  CASE hits = {} -> req
          [] hits # {} /\ field # "refer" -> [req EXCEPT ![field] = kv.val]
          [] hits # {} /\ field = "refer" /\ slash = NULL -> req
          [] OTHER -> [req EXCEPT
                !.refer_host = SubSeq(kv.val, 1, slash - 1),
                !.refer_uri = SubSeq(kv.val, slash, Len(kv.val))]

\* The header lines from position b on, up to one that is empty or has no
\* key.  The end e is the last character of the data, so that a CR LF there
\* is not found and the last line keeps its CR.
HeaderLines(s, b0, e) ==
    LET lines[b \in 1 .. (Len(s) + 2)] ==
            LET line_b == skip_char(s, b, e - b, SP_CHAR)
                cr == find_str(s, line_b, e, CR_STR)
                line_e == IF cr = NULL THEN e ELSE cr
                key_e == find_str(s, line_b, line_e, HDR_KV_SEP)
                val_b == skip_char(s, key_e + 1, line_e - key_e - 1, SP_CHAR)
                val_e == strip_char(s, val_b, line_e - val_b, SP_CHAR)
                kv == [key |-> SubSeq(s, line_b, key_e),
                       val |-> SubSeq(s, val_b, val_e)]
            IN  IF line_e <= line_b \/ key_e = NULL \/ key_e = line_b
                THEN <<>>
                ELSE <<kv>> \o (IF cr = NULL THEN <<>> ELSE lines[cr + Len(CR_STR)])
    IN  lines[b0]

\* The fields of a request, and ret FALSE for F1G_ERR, after which the fields
\* set so far are of no use.
http_req_header_parser(s, data_len) ==
    LET e == data_len                   \* p_data_end, the last character
        line_e == find_str(s, 1, e, CR_STR)
        uri_b == skip_char(s, 2, line_e - 2, SP_CHAR)
        uri_e == find_str(s, uri_b, line_e - 1, <<SP_CHAR>>)
        ver_b == skip_char(s, uri_e, line_e - uri_e, SP_CHAR)
        Version(v) == cmp_str2(s, ver_b, line_e - ver_b, v)
        start == [http_req_header_clear EXCEPT
                    !.method = "GET", !.uri = SubSeq(s, uri_b, uri_e - 1),
                    !.version = IF Version(HTTPV11_STR) THEN "1.1" ELSE "1.0"]
        ok == /\ line_e \notin {NULL, 1}
              /\ cmp_str2(s, 1, line_e - 1, METHOD_GET_STR)
              /\ uri_e \notin {NULL, uri_b}
              /\ Version(HTTPV11_STR) \/ Version(HTTPV10_STR)
    IN  [ret |-> ok,
         req |-> IF ok
                 THEN FoldLeft(add_header, start,
                               HeaderLines(s, line_e + Len(CR_STR), e))
                 ELSE http_req_header_clear]
=============================================================================
