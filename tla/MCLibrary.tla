------------------------------ MODULE MCLibrary ------------------------------
(* Inputs for the routines of the library, each called by its own client.  *)
EXTENDS CharsetCode, F1gLog, RegSet, UrlParser, BiTree, BasicAlg, ServerLife,
        MCTemplate

\* Pairs of the generated table, among them one without a partner.
MCMap == {<<37, 37>>, <<65, 65>>, <<103, 103>>, <<127, 127>>, <<128, 8364>>,
          <<129, 65535>>, <<41473, 12288>>, <<43174, 233>>, <<45794, 27979>>}

Hex(n) == IF n < 10 THEN 48 + n ELSE 87 + n
Escaped(byte) == <<ASCII_PERCENT, Hex(byte \div 16), Hex(byte % 16)>>
Utf8(u) == IF u < 128 THEN <<u>>
           ELSE IF u < 2048 THEN <<192 + (u \div 64), 128 + (u % 64)>>
           ELSE <<224 + (u \div 4096), 128 + ((u \div 64) % 64), 128 + (u % 64)>>
EscapedChar(u) == FlattenSeq([n \in DOMAIN Utf8(u) |-> Escaped(Utf8(u)[n])])
Spellings(u) == {EscapedChar(u)} \cup (IF u \in {65, 103} THEN {<<u>>} ELSE {})
Chars == {37, 65, 103, 127, 128, 233, 2047, 2048, 8364, 27979}

MCTexts ==
    {[str |-> <<>>, chars |-> <<>>]}
    \cup UNION {{[str |-> s, chars |-> <<u>>] : s \in Spellings(u)} : u \in Chars}
    \cup UNION {{[str |-> s \o t, chars |-> <<u, v>>] :
                    s \in Spellings(u), t \in Spellings(v)} : u, v \in Chars}

Bytes == {0, 4, 65, 127, 128, 166, 168, 194, 224, 233}
MCStrings ==
    UNION {[1 .. n -> Bytes] : n \in 0 .. 3}
    \cup {Escaped(a) \o s : a \in {65, 195, 178, 230, 240, 255},
            s \in {<<>>, <<65>>, Escaped(169), Escaped(181) \o Escaped(139),
                   <<37, 97>>, <<37, 0, 97>>, <<65, 98, 99>>}}
    \cup {<<37>>, <<37, 97>>, <<37, 0, 97>>}
    \* 2047 and 2048, in UCS-2 and in UTF-8.
    \cup {<<7, 255>>, <<8, 0>>, <<223, 191>>, <<224, 160, 128>>}
MCDstSizes == {0, 1, 2, 3, 4, 7}

MCBufTexts == {<<"a">>, <<"b", "c">>, <<"d", "e", "f">>}
MCInitSizes == {1, 3, 6}

MCMessages == {<<"a">>, <<"b", "c">>, <<"d", "e", "f", "g">>}
MCLogSizes == {<<5, 3>>, <<4, 4>>, <<3, 2>>}

MCRules == {<<"a">>, <<"b">>, <<"a", "b">>, <<>>}
MCValues == {<<"1">>, <<"2">>}
MCRuleData == {<<>>, <<"b">>, <<"c", "a", "b">>}

Url(pre, host, path, name, dot, type, post) ==
    [pre |-> pre, host |-> host, path |-> path, base |-> name, dot |-> dot,
     type |-> type, post |-> post]
MCUrls ==
    {Url(pre, host, path, name, dot, <<>>, <<>>) :
        pre \in {<<>>, <<"http://">>}, host \in {<<>>, <<"h">>, <<"h", ".", "i">>},
        path \in {<<"/">>, <<"/", "d", "/">>}, name \in {<<>>, <<"x">>}, dot \in {<<>>}}
    \cup {Url(<<>>, <<"h">>, <<"/">>, <<"x">>, <<".">>, t, <<>>) :
            t \in {<<>>, <<"g">>, <<"t", ".", "g">>}}
    \cup {Url(<<"http://">>, <<"h">>, <<>>, <<>>, <<>>, <<>>, <<>>)}
    \cup {Url(<<>>, <<"h">>, <<"/">>, <<"x">>, <<>>, <<>>, post) :
            post \in {<<"?">>, <<"?", "p">>, <<"?", "p", "=", "v">>, <<"?", "p", "/">>,
                      <<"?", "p", "http://", "y", "/">>}}

MCArrays == {<<"a">>, <<"a", "b">>, <<"a", "b", "c", "d", "e">>}
MCPlaces == {-3, 0, 3, 5, 9}

\* Files of a server, and 10.0.2.15, 192.168.1.7 and 127.0.0.1 as signed chars.
ConfWith(key, v) ==
    [x \in Keys |-> CASE x = key -> v [] x = "worker_num" -> 2 [] OTHER -> Absent]
MCConfs ==
    {ConfWith("worker_num", v) : v \in {Absent, Malformed, -1, 0, 2, 3}}
    \cup {ConfWith("serv_win", v) : v \in {"ip:port", Malformed}}
MCAddresses == {<<10, 0, 2, 15>>, <<-64, -88, 1, 7>>, <<127, 0, 0, 1>>}

\* One client is there, the others are idle.
Clients == {"charset", "buffer", "log", "regset", "url", "tree", "rotate", "server",
            "template"}
VARIABLE part
MCInit ==
    /\ part \in Clients
    /\ IF part = "charset" THEN CharsetInit ELSE CharsetIdle
    /\ IF part = "buffer" THEN BufferInit ELSE BufferIdle
    /\ LogIdle
    /\ IF part = "regset" THEN RegInit ELSE RegIdle
    /\ UrlIdle
    /\ IF part = "tree" THEN TreeInit ELSE TreeIdle
    /\ IF part = "rotate" THEN RotateInit ELSE RotateIdle
    /\ IF part = "server" THEN LifeInit ELSE LifeIdle
    /\ IF part = "template" THEN TplInit ELSE TplIdle

MCNext ==
    \/ part = "charset" /\ CharsetNext
       /\ UNCHANGED <<part, bvars, lvars, rsvars, uvars, trvars, rotvars, lifevars,
                      tplvars>>
    \/ part = "buffer" /\ BufferNext
       /\ UNCHANGED <<part, csvars, lvars, rsvars, uvars, trvars, rotvars, lifevars,
                      tplvars>>
    \/ part = "log" /\ LogNext
       /\ UNCHANGED <<part, csvars, bvars, rsvars, uvars, trvars, rotvars, lifevars,
                      tplvars>>
    \/ part = "regset" /\ RegNext
       /\ UNCHANGED <<part, csvars, bvars, lvars, uvars, trvars, rotvars, lifevars,
                      tplvars>>
    \/ part = "url" /\ UrlNext
       /\ UNCHANGED <<part, csvars, bvars, lvars, rsvars, trvars, rotvars, lifevars,
                      tplvars>>
    \/ part = "tree" /\ TreeNext
       /\ UNCHANGED <<part, csvars, bvars, lvars, rsvars, uvars, rotvars, lifevars,
                      tplvars>>
    \/ part = "rotate" /\ RotateNext
       /\ UNCHANGED <<part, csvars, bvars, lvars, rsvars, uvars, trvars, lifevars,
                      tplvars>>
    \/ part = "server" /\ LifeNext
       /\ UNCHANGED <<part, csvars, bvars, lvars, rsvars, uvars, trvars, rotvars,
                      tplvars>>
    \/ part = "template" /\ TplNext
       /\ UNCHANGED <<part, csvars, bvars, lvars, rsvars, uvars, trvars, rotvars,
                      lifevars>>
MCSpec == MCInit /\ [][MCNext]_<<part, csvars, bvars, lvars, rsvars, uvars, trvars, rotvars,
                                lifevars, tplvars>>
=============================================================================
