----------------------------- MODULE MCPkSender -----------------------------
(* Files of web hosts for the sender, and calls of a client of its object. *)
EXTENDS PkSender

MCNumber == [t \in {"0", "1", "2", "3", "4", "9", "80", "65535"} |->
    CASE t = "0" -> 0 [] t = "1" -> 1 [] t = "2" -> 2 [] t = "3" -> 3
      [] t = "4" -> 4 [] t = "9" -> 9 [] t = "80" -> 80 [] t = "65535" -> 65535]

\* Two addresses of which a time stamp's header carries in both additions.
MCAddress == [t \in {"ip1", "ip2"} |->
    IF t = "ip1" THEN <<65535, 65535>> ELSE <<48069, 65535>>]

Fields(type, src, strings) ==
    <<<<type>>, <<src>>, <<"80">>, <<"ip2">>, <<"65535">>>> \o strings
Line(fields) == [fields |-> fields, closed |-> TRUE]
Stamped == Line(Fields("0", "ip1", <<>>))
Plain == Line(Fields("1", "ip1", <<<<"h">>, <<"/", "p">>, <<"u", "v">>, <<"c">>>>))
Other == Line(Fields("1", "ip2", <<<<"h", "i">>, <<"/">>, <<>>, <<" ", "d">>>>))
LongHost == Line(Fields("1", "ip1", <<<<"h", "o", "s">>, <<"/">>, <<"u">>, <<"c">>>>))
LongPath == Line(Fields("1", "ip1", <<<<"h">>, <<"/", "p", "q">>, <<"u">>, <<"c">>>>))
LongCookie ==
    Line(Fields("1", "ip2", <<<<"h">>, <<"/">>, <<"u">>, <<"c", "d", "e", "f">>>>))
NoCookie == Line(Fields("1", "ip1", <<<<"h">>, <<"/">>, <<"u">>>>))
NoAddress == Line(Fields("0", "nowhere", <<>>))
Unknown == Line(Fields("2", "ip2", <<>>))
OpenEnd == [Stamped EXCEPT !.closed = FALSE]

LineSet == {Stamped, Plain, Other, LongHost, LongPath, LongCookie, NoCookie,
            NoAddress, Unknown, OpenEnd}

File(num, lines) == [num |-> num, sep |-> <<TAB>>, max_col |-> <<>>,
                     lines |-> lines, newline |-> TRUE]

MCFiles ==
    {File(<<"2">>, <<a, b>>) : a \in LineSet, b \in LineSet}
    \cup {File(<<"3">>, <<a, b, c>>) :
            a \in {Plain, Stamped, LongCookie}, b \in {Other, Stamped, NoCookie},
            c \in {Plain, Stamped, Other}}
    \cup {File(n, <<Plain, Stamped>>) : n \in {<<>>, <<"0">>, <<"1">>, <<"3">>}}
    \cup {[File(<<"2">>, <<Plain, Other>>) EXCEPT !.sep = s, !.max_col = m,
                                                   !.newline = nl] :
            s \in {<<>>, <<TAB>>}, m \in {<<>>, <<"4">>, <<"9">>}, nl \in BOOLEAN}

MCLines == {
    [id |-> HTTP_HDR_REQ_LINE, text |-> <<"GET", " ", "/", " ", "HTTP/1.1">>],
    [id |-> HTTP_HDR_HOST, text |-> <<" ", "h", " ">>],
    [id |-> HTTP_HDR_HOST, text |-> <<"i">>],
    [id |-> HTTP_HDR_REFER, text |-> <<" ", "r", "/", "s", "t", "u", "v">>],
    [id |-> HTTP_HDR_METHOD, text |-> <<"Accept", "-Language", ":", "en">>],
    [id |-> HTTP_HDR_END, text |-> <<>>],
    [id |-> HTTP_HDR_NUM, text |-> <<"x">>]}
MCContents == {<<"d", "e">>}
MCBufSizes == {0, 34}

\* Either the sender with its file, or a client of the object.
NoFile == File(<<"0">>, <<>>)
ClientInit ==
    /\ HttpInit
    /\ file = NoFile /\ buf = <<>>
    /\ pb = 1 /\ pe = 1 /\ sep = <<>> /\ df = data_field_init(0, 0)
    /\ line_num = 0 /\ webhosts = <<>> /\ i = 1
    /\ g_buf = <<>> /\ load = UNSET /\ k = 1 /\ sent = <<>>
    /\ pc = "client"

MCInit == Init \/ ClientInit
MCNext == \/ Next
          \/ pc = "client" /\ ClientNext /\ UNCHANGED <<rvars, i, svars, pc>>
MCSpec == MCInit /\ [][MCNext]_vars /\ WF_vars(Next)
=============================================================================
