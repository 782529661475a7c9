------------------------------ MODULE UrlParser ------------------------------
(***************************************************************************)
(* f1g_url_parser.c: a URL is split into host, path, resource and type,    *)
(* which stay until the parser is cleared.  "http://" counts as one        *)
(* character; a field that is not set is the empty text.                   *)
(***************************************************************************)
EXTENDS BasicFuncs

CONSTANTS Urls      \* [pre, host, path, base, dot, type, post]: URLs by their parts

VARIABLES
    purl,           \* the url_parser_t
    loaded,         \* history: the last URL, <<>> if none since clear or init
    ust             \* "ok", "again" loaded twice without clear, or "ub"

uvars == <<purl, loaded, ust>>

HTTP_STR == <<"http://">>

\* A URL as its text, and its resource's name.
Name(u) == u.base \o u.dot \o u.type
Text(u) == u.pre \o u.host \o u.path \o Name(u) \o u.post

\* What the parts of a URL are: the path is empty, and then also the name, or
\* begins and ends with a "/"; what follows the first dot of the name is the
\* type; behind the name come parameters or nothing.
Without(s, C) == \A n \in DOMAIN s : s[n] \notin C
IsUrl(u) ==
    /\ u.pre \in {<<>>, HTTP_STR} /\ u.dot \in {<<>>, <<".">>}
    /\ Without(u.host, {"http://", "/"}) /\ Without(u.path, {"http://"})
    /\ Without(u.base, {"http://", "/", "?", "."}) /\ Without(u.type, {"http://", "/", "?"})
    /\ IF u.path = <<>> THEN Name(u) = <<>>
                        ELSE u.path[1] = "/" /\ u.path[Len(u.path)] = "/"
    /\ u.dot = <<>> => u.type = <<>>
    /\ u.post # <<>> => u.post[1] = "?"

ASSUME UrlAssumption ==
    /\ Urls \subseteq [pre : Seq(STRING), host : Seq(STRING), path : Seq(STRING),
                      base : Seq(STRING), dot : Seq(STRING), type : Seq(STRING),
                      post : Seq(STRING)]
    /\ \A u \in Urls : IsUrl(u)

url_parser_init ==
    [host |-> <<>>, uri_path |-> <<>>, res_name |-> <<>>, res_type |-> <<>>,
     ret |-> TRUE, param |-> FALSE]

\* The last "/" from position b on, which is one itself.
LastSlash(s, b) == Max({n \in b .. Len(s) : n = b \/ s[n] = "/"})

\* The type is what follows the first dot of the resource's name; without one
\* the type stays as it was.
TypeOf(name, old) ==
    LET dots == {n \in DOMAIN name : name[n] = "."}
    IN  IF dots = {} THEN old ELSE SubSeq(name, Min(dots) + 1, Len(name))

\* The scheme is looked for in the whole text.  Without a path there is no
\* URL, and without a resource no parameters.  The value of a parameter is
\* stored far behind the table that was taken for it.
url_parser_load(up, s) ==
    LET end == Len(s) + 1
        scheme == find_str(s, 1, end, HTTP_STR)
        b == IF scheme = NULL THEN 1 ELSE scheme + 1
        slash == find_str(s, b, end, <<"/">>)
        last == LastSlash(s, slash)
        query == find_str(s, last + 1, end, <<"?">>)
        name == SubSeq(s, last + 1, (IF query = NULL THEN end ELSE query) - 1)
        hosted == IF slash = b THEN up ELSE [up EXCEPT !.host = SubSeq(s, b, slash - 1)]
        pathed == [hosted EXCEPT !.uri_path = SubSeq(s, slash, last), !.ret = TRUE]
    IN  IF slash = NULL THEN [up EXCEPT !.ret = FALSE]
        ELSE IF name = <<>> THEN pathed
        ELSE [pathed EXCEPT
                !.res_name = name,
                !.res_type = TypeOf(name, @),
                !.param = query # NULL /\ find_str(s, query + 1, end, <<"=">>) # NULL]

\* Mutant: the host stays.
ClearedKeepsHost(up) == [url_parser_init EXCEPT !.host = up.host]

url_parser_clear(up) == url_parser_init

UrlIdle == purl = url_parser_init /\ loaded = <<>> /\ ust = "ok"

UrlLoad(u) ==
    /\ ust # "ub"
    /\ purl' = url_parser_load(purl, Text(u))
    /\ loaded' = <<u>>
    /\ ust' = IF purl'.param THEN "ub" ELSE IF loaded = <<>> THEN "ok" ELSE "again"

\* url_parser_destroy leaves the same.
UrlClear ==
    /\ ust # "ub"
    /\ purl' = url_parser_clear(purl)
    /\ loaded' = <<>> /\ ust' = "ok"

UrlNext == UrlClear \/ \E u \in Urls : UrlLoad(u)
UrlSpec == UrlIdle /\ [][UrlNext]_uvars

\* A URL is taken apart into its own path, and into its own host, resource and
\* type if it has them; one it does not have is empty if the parser was cleared
\* or new, and otherwise may be that of an earlier URL (url_parser_load,
\* url_parser_clear).  This is about URLs of the shape IsUrl without parameters:
\* those with parameters end in undefined behaviour, and a second scheme or a
\* "/" behind "?" shifts the parts.
UrlTakenApart ==
    \A n \in DOMAIN loaded :
        LET u == loaded[n]
            mine(part) == part # <<>> \/ ust = "ok"
        IN  u.post = <<>> /\ ust # "ub" =>
                /\ purl.ret = (u.path # <<>>)
                /\ u.path # <<>> =>
                    /\ purl.uri_path = u.path
                    /\ mine(u.host) => purl.host = u.host
                    /\ mine(Name(u)) => purl.res_name = Name(u)
                    /\ mine(u.dot) => purl.res_type = u.type
=============================================================================
