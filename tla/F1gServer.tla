----------------------------- MODULE F1gServer -----------------------------
(***************************************************************************)
(* The running TCP server: the access thread (access_cb_dft of             *)
(* f1g_server.c over the epoll accessor of f1g_accessor.c), one queue per  *)
(* worker, and the workers (worker_cb_dft).  The queues are the bounded    *)
(* FIFOs that F1gQueue implements.                                         *)
(*                                                                         *)
(* External, modelled from how the code uses it: the socket and epoll      *)
(* calls of the kernel and the clients.  Descriptors are handed out lowest *)
(* first and reused after close; epoll is edge triggered (EPOLLET) and     *)
(* keeps a ready list that activity on a registered socket extends.        *)
(*                                                                         *)
(* A unit of payload is the name of the client that sent it, so a reply    *)
(* shows whose request it answers.                                         *)
(***************************************************************************)
EXTENDS Integers, Sequences

CONSTANTS
    Clients,        \* client programs, each with one connection
    Workers,        \* worker threads; p_ques has one queue for each
    QueOf,          \* sel_que_by_ip: the worker of each client's address
    MaxFd,          \* bound: descriptors 1 .. MaxFd can be open
    que_cap,        \* conf.que_cap: blocks per queue
    BufSize,        \* size of a worker's rdbuf and wrbuf, in units
    Backlog,        \* connections that may wait for accept
    MaxSend,        \* bound: units each client sends
    HalfClose,      \* TRUE: a client may close before it has its answer
    Resets,         \* TRUE: a client may reset its connection
    MemFails,       \* TRUE: malloc may find no memory for a sock_info_t
    ProcResults,    \* what p_proc_f may answer
    None, Listen, Resp

ASSUME WorkersAssumption == QueOf \in [Clients -> Workers]
ASSUME BoundsAssumption ==
    /\ MaxFd \in Nat \ {0} /\ MaxSend \in [Clients -> Nat]
    /\ que_cap \in Nat \ {0} /\ BufSize \in Nat \ {0} /\ Backlog \in Nat \ {0}
    /\ HalfClose \in BOOLEAN /\ Resets \in BOOLEAN /\ MemFails \in BOOLEAN
ASSUME ProcAssumption ==
    ProcResults \subseteq {"PROC_ST_INIT", "PROC_ST_SENDBUF",
                           "PROC_ST_BRKOUT", "PROC_ST_ERR", "FAIL"}
ASSUME NamesAssumption == {None, Listen, Resp} \cap Clients = {} /\ None \notin 1 .. MaxFd

VARIABLES
    \* the kernel and the clients
    backlog,    \* connections waiting in the listening socket
    conn,       \* every client's connection
    fdt,        \* the descriptor table: the connection behind a descriptor
    reg,        \* connections registered with epoll
    rdy,        \* the ready list of the epoll instance
    got,        \* what each client has received
    up,         \* FALSE once the process was killed by SIGPIPE
    \* the access thread
    apc,
    evs,        \* p_ep->events[0 .. event_num - 1]
    nxt,        \* p_ep->next_event + 1
    si,         \* sock_info of access_cb_dft
    infofd,     \* the fd in the sock_info_t behind ev.data.ptr, per connection
    freed,      \* connections whose sock_info_t was freed
    \* the queues and the workers
    que,        \* waiting blocks; the head stays until que_obj_pop
    wpc,
    rdbuf, wrbuf,
    recv_stat,  \* the set of RECV_* bits
    wait_times,
    proc_stat

kvars == <<backlog, conn, fdt, reg, rdy, got, up>>
avars == <<apc, evs, nxt, si, infofd, freed>>
wvars == <<wpc, rdbuf, wrbuf, recv_stat, wait_times, proc_stat>>
vars == <<kvars, avars, que, wvars>>

Fds == 1 .. MaxFd
SST == {"SST_INIT", "SST_DATA_IN", "SST_DATA_OUT", "SST_DISC", "SST_ERR",
        "SST_UNKNOWN"}
Masks == SUBSET {"EPOLLIN", "EPOLLOUT", "EPOLLHUP", "EPOLLERR"}

\* sock_info_t; `who` is the connection the entry was made for.
SockInfo == [who : Clients, fd : Fds, sock_status : SST]

Elems(s) == {s[i] : i \in DOMAIN s}
Own(c) == Len(SelectSeq(got[c], LAMBDA x : x = c))

-----------------------------------------------------------------------------
(* Kernel.                                                                 *)

Wake(list, x) == IF x \in Elems(list) THEN list ELSE Append(list, x)

\* The ready list without x, which it holds at most once.
Asleep(list, x) ==
    IF x \in Elems(list)
      THEN LET at == CHOOSE i \in DOMAIN list : list[i] = x
           IN  [i \in 1 .. (Len(list) - 1) |-> IF i < at THEN list[i] ELSE list[i + 1]]
      ELSE list

\* Activity on c reaches the ready list if c is registered.
Activity(c) == rdy' = IF c \in reg THEN Wake(rdy, c) ELSE rdy

\* What epoll reports of a client socket registered for EPOLLIN.
PollMask(c) ==
    (IF conn[c].unread > 0 \/ conn[c].peer # "up" THEN {"EPOLLIN"} ELSE {})
    \cup (IF conn[c].peer = "rst" THEN {"EPOLLHUP"} ELSE {})
    \cup (IF conn[c].err THEN {"EPOLLERR"} ELSE {})

Event(x) ==
    [who |-> x,
     mask |-> IF x = Listen
                THEN IF backlog # <<>> THEN {"EPOLLIN"} ELSE {}
                ELSE PollMask(x)]

\* epoll_ctl(EPOLL_CTL_DEL, fd) finds a registered open socket.
Registered(fd) == fdt[fd] # None /\ fdt[fd] \in reg

\* close(fd): EBADF if fd is not open; the last close of a socket also takes
\* it out of epoll.
Close(fd) ==
    IF fdt[fd] = None
      THEN UNCHANGED <<fdt, conn, reg, rdy>>
      ELSE /\ fdt' = [fdt EXCEPT ![fd] = None]
           /\ conn' = [conn EXCEPT ![fdt[fd]].st = "closed"]
           /\ reg' = reg \ {fdt[fd]}
           /\ rdy' = Asleep(rdy, fdt[fd])

-----------------------------------------------------------------------------
(* Clients.                                                                *)

Connect(c) ==
    /\ conn[c].st = "new" /\ Len(backlog) < Backlog
    /\ backlog' = Append(backlog, c)
    /\ conn' = [conn EXCEPT ![c].st = "backlog"]
    /\ rdy' = Wake(rdy, Listen)
    /\ UNCHANGED <<fdt, reg, got, up, avars, que, wvars>>

Send(c) ==
    /\ conn[c].st \in {"backlog", "open"} /\ conn[c].peer = "up"
    /\ conn[c].sent < MaxSend[c]
    /\ conn' = [conn EXCEPT ![c].sent = @ + 1, ![c].unread = @ + 1]
    /\ Activity(c)
    /\ UNCHANGED <<backlog, fdt, reg, got, up, avars, que, wvars>>

Finish(c) ==
    /\ conn[c].st = "open" /\ conn[c].peer = "up"
    /\ conn[c].sent > 0
    /\ HalfClose \/ Own(c) >= conn[c].sent
    /\ conn' = [conn EXCEPT ![c].peer = "fin"]
    /\ Activity(c)
    /\ UNCHANGED <<backlog, fdt, reg, got, up, avars, que, wvars>>

Reset(c) ==
    /\ Resets
    /\ conn[c].st = "open" /\ conn[c].peer # "rst"
    /\ conn' = [conn EXCEPT ![c].peer = "rst", ![c].err = TRUE]
    /\ Activity(c)
    /\ UNCHANGED <<backlog, fdt, reg, got, up, avars, que, wvars>>

-----------------------------------------------------------------------------
(* The access thread.                                                      *)

\* The positions, in order, of the sockets on the ready list that have
\* something to report.
Reported(n, at) ==
    /\ \A k, j \in 1 .. n : k < j => at[k] < at[j]
    /\ {at[k] : k \in 1 .. n} = {i \in DOMAIN rdy : Event(rdy[i]).mask # {}}

\* accessor_detect: epoll_wait.  A return of 0 or EINTR changes nothing.
Detect ==
    /\ up /\ apc = "detect" /\ rdy # <<>>
    /\ \E n \in 0 .. Len(rdy) : \E at \in [1 .. n -> DOMAIN rdy] :
          /\ Reported(n, at)
          /\ evs' = [k \in 1 .. n |-> Event(rdy[at[k]])]
          /\ apc' = IF n = 0 THEN "detect" ELSE "check"
    /\ nxt' = 1
    /\ rdy' = <<>>
    /\ UNCHANGED <<backlog, conn, fdt, reg, got, up, si, infofd, freed, que,
                   wvars>>

\* accessor_check_status returns 0: the inner loop of access_cb_dft ends and
\* accessor_clear forgets the batch.
EndBatch == apc' = "detect" /\ evs' = <<>> /\ nxt' = 1

CheckExhausted ==
    /\ up /\ apc = "check" /\ nxt > Len(evs)
    /\ EndBatch
    /\ UNCHANGED <<kvars, si, infofd, freed, que, wvars>>

\* Mutant: the queue counts as full one block too early.
DeliverOneLess(s) ==
    /\ si' = s
    /\ nxt' = nxt + 1 /\ apc' = "check" /\ UNCHANGED evs
    /\ que' = LET w == QueOf[s.who]
              IN IF Len(que[w]) < que_cap - 2
                   THEN [que EXCEPT ![w] = Append(@, s)] ELSE que

\* next_event++, and the rest of the inner loop of access_cb_dft: the block
\* of que_obj_next_freeblk is filled; que_obj_move_next publishes it or,
\* when the queue is full, refuses, which nobody looks at.
Deliver(s) ==
    /\ si' = s
    /\ nxt' = nxt + 1 /\ apc' = "check" /\ UNCHANGED evs
    /\ que' = LET w == QueOf[s.who]
              IN IF Len(que[w]) < que_cap - 1
                   THEN [que EXCEPT ![w] = Append(@, s)] ELSE que

\* One accept per event of the listener.  When it fails, sock_info keeps what
\* the previous event left in it and is delivered once more (what it holds
\* before the first event is outside the model).  Without memory for its
\* sock_info_t a connection that was accepted stays open and unregistered, and
\* the batch ends.
CheckListen ==
    /\ up /\ apc = "check" /\ nxt <= Len(evs) /\ evs[nxt].who = Listen
    /\ LET free == {f \in Fds : fdt[f] = None}
       IN  IF backlog = <<>> \/ free = {}
             THEN /\ si # None
                  /\ Deliver(si)
                  /\ UNCHANGED <<backlog, conn, fdt, infofd>>
             ELSE LET c == Head(backlog)
                  IN  \E f \in free :
                        /\ \A g \in free : f <= g
                        /\ backlog' = Tail(backlog)
                        /\ fdt' = [fdt EXCEPT ![f] = c]
                        /\ conn' = [conn EXCEPT ![c].st = "open"]
                        /\ \/ /\ infofd' = [infofd EXCEPT ![c] = f]
                              /\ si' = [who |-> c, fd |-> f, sock_status |-> "SST_INIT"]
                              /\ apc' = "add"
                              /\ UNCHANGED <<evs, nxt>>
                           \/ /\ MemFails
                              /\ EndBatch
                              /\ UNCHANGED <<infofd, si>>
                        /\ UNCHANGED que
    /\ UNCHANGED <<reg, rdy, got, up, freed, wvars>>

\* A mutant: the registration ends the batch, the new connection is not delivered.
CheckAddEndsBatch ==
    /\ up /\ apc = "add"
    /\ EndBatch
    /\ reg' = reg \cup ({fdt[si.fd]} \ {None})
    /\ rdy' = IF fdt[si.fd] # None /\ PollMask(fdt[si.fd]) # {}
                THEN Wake(rdy, fdt[si.fd]) ELSE rdy
    /\ UNCHANGED <<si, que, backlog, conn, fdt, got, up, infofd, freed, wvars>>

\* epoll_ctl(EPOLL_CTL_ADD) of the new socket; a socket that is ready already
\* goes to the ready list.
CheckAdd ==
    /\ up /\ apc = "add"
    /\ IF fdt[si.fd] = None
         THEN EndBatch /\ UNCHANGED <<reg, rdy, si, que>>
         ELSE /\ reg' = reg \cup {fdt[si.fd]}
              /\ rdy' = IF PollMask(fdt[si.fd]) # {}
                          THEN Wake(rdy, fdt[si.fd]) ELSE rdy
              /\ Deliver(si)
    /\ UNCHANGED <<backlog, conn, fdt, got, up, infofd, freed, wvars>>

\* The EPOLLIN and EPOLLOUT tests at the end of a client's event.
LastTests(s, mask) ==
    Deliver([s EXCEPT !.sock_status =
                IF "EPOLLOUT" \in mask THEN "SST_DATA_OUT"
                ELSE IF "EPOLLIN" \in mask THEN "SST_DATA_IN" ELSE @])

\* An event of a client socket, up to the first epoll_ctl.  Before that call
\* the sock_info_t behind data.ptr is freed.
CheckClient ==
    /\ up /\ apc = "check" /\ nxt <= Len(evs) /\ evs[nxt].who # Listen
    /\ LET c == evs[nxt].who
           mask == evs[nxt].mask
           s == [who |-> c, fd |-> infofd[c], sock_status |-> "SST_UNKNOWN"]
       IN  IF mask \cap {"EPOLLHUP", "EPOLLERR"} = {}
             THEN LastTests(s, mask) /\ UNCHANGED freed
             ELSE /\ freed' = freed \cup {c}
                  /\ IF "EPOLLHUP" \in mask
                       THEN /\ si' = [s EXCEPT !.sock_status = "SST_DISC"]
                            /\ apc' = "hup_del"
                       ELSE /\ si' = [s EXCEPT !.sock_status = "SST_ERR"]
                            /\ apc' = "err_del"
                  /\ UNCHANGED <<evs, nxt, que>>
    /\ UNCHANGED <<kvars, infofd, wvars>>

\* Mutant: the freed sock_info_t stays registered.
CheckDelOmitted ==
    /\ up /\ apc \in {"hup_del", "err_del"}
    /\ EndBatch
    /\ UNCHANGED <<kvars, si, infofd, freed, que, wvars>>

\* epoll_ctl(EPOLL_CTL_DEL): a failure makes accessor_check_status return 0.
CheckDel ==
    /\ up /\ apc \in {"hup_del", "err_del"}
    /\ IF Registered(si.fd)
         THEN /\ reg' = reg \ {fdt[si.fd]}
              /\ rdy' = Asleep(rdy, fdt[si.fd])
              /\ apc' = IF apc = "hup_del" THEN "hup_close" ELSE "err_close"
              /\ UNCHANGED <<evs, nxt>>
         ELSE EndBatch /\ UNCHANGED <<reg, rdy>>
    /\ UNCHANGED <<backlog, conn, fdt, got, up, si, infofd, freed, que, wvars>>

\* close(ev_fd); after EPOLLHUP comes the test of EPOLLERR.
CheckClose ==
    /\ up /\ apc \in {"hup_close", "err_close"}
    /\ Close(si.fd)
    /\ IF apc = "hup_close" /\ "EPOLLERR" \in evs[nxt].mask
         THEN /\ si' = [si EXCEPT !.sock_status = "SST_ERR"]
              /\ apc' = "err_del"
              /\ UNCHANGED <<evs, nxt, que>>
         ELSE LastTests(si, evs[nxt].mask)
    /\ UNCHANGED <<backlog, got, up, infofd, freed, wvars>>

Access ==
    \/ Detect \/ CheckExhausted \/ CheckListen \/ CheckAdd
    \/ CheckClient \/ CheckDel \/ CheckClose

-----------------------------------------------------------------------------
(* Worker w.                                                               *)

\* que_obj_empty, que_obj_head; nonblk_recvfrom starts with RECV_INIT.
WorkHead(w) ==
    /\ up /\ wpc[w] = "poll" /\ que[w] # <<>>
    /\ IF Head(que[w]).sock_status = "SST_DATA_IN"
         THEN /\ wpc' = [wpc EXCEPT ![w] = "recv"]
              /\ rdbuf' = [rdbuf EXCEPT ![w] = <<>>]
              /\ recv_stat' = [recv_stat EXCEPT ![w] = {}]
         ELSE /\ wpc' = [wpc EXCEPT ![w] = "switch"]
              /\ UNCHANGED <<rdbuf, recv_stat>>
    /\ UNCHANGED <<kvars, avars, que, wrbuf, wait_times, proc_stat>>

\* Mutant: every end of the loop is taken for a disconnection.
RecvEndsDisconnected(w, bits) ==
    /\ recv_stat' = [recv_stat EXCEPT ![w] = bits \cup {"RECV_DISC"}]
    /\ wpc' = [wpc EXCEPT ![w] = "proc"]
    /\ wait_times' = [wait_times EXCEPT ![w] = 0]
    /\ UNCHANGED rdbuf

\* nonblk_recvfrom returns; its local wait_times starts at 0 again.
RecvEnds(w, bits) ==
    /\ recv_stat' = [recv_stat EXCEPT ![w] = bits]
    /\ wpc' = [wpc EXCEPT ![w] = "proc"]
    /\ wait_times' = [wait_times EXCEPT ![w] = 0]
    /\ UNCHANGED rdbuf

\* One recvfrom of the loop of nonblk_recvfrom.  On an error the bits are
\* first reduced to RECV_ERR, then RECV_OK is taken out.
WorkRecv(w) ==
    /\ up /\ wpc[w] = "recv"
    /\ LET c == fdt[Head(que[w]).fd]
           error == RecvEnds(w, (recv_stat[w] \cap {"RECV_ERR"}) \ {"RECV_OK"})
           room == BufSize - Len(rdbuf[w])
       IN  \/ c = None /\ error /\ UNCHANGED conn
           \/ /\ c # None /\ conn[c].unread > 0
              /\ LET n == IF conn[c].unread < room THEN conn[c].unread ELSE room
                 IN  /\ rdbuf' = [rdbuf EXCEPT ![w] = @ \o [i \in 1 .. n |-> c]]
                     /\ conn' = [conn EXCEPT ![c].unread = @ - n]
                     /\ recv_stat' = [recv_stat EXCEPT ![w] = @ \cup
                            (IF n = room THEN {"RECV_OK", "RECV_MEM_LACK"} ELSE {"RECV_OK"})]
                     /\ wpc' = [wpc EXCEPT ![w] = IF n = room THEN "proc" ELSE "recv"]
                     /\ wait_times' = [wait_times EXCEPT ![w] = IF n = room THEN 0 ELSE @]
           \/ /\ c # None /\ conn[c].unread = 0 /\ conn[c].err
              /\ error
              /\ conn' = [conn EXCEPT ![c].err = FALSE]
           \/ /\ c # None /\ conn[c].unread = 0 /\ ~conn[c].err /\ conn[c].peer # "up"
              /\ RecvEnds(w, recv_stat[w] \cup {"RECV_DISC"})
              /\ UNCHANGED conn
           \/ /\ c # None /\ conn[c].unread = 0 /\ ~conn[c].err /\ conn[c].peer = "up"
              /\ IF wait_times[w] + 1 >= 3
                   THEN RecvEnds(w, recv_stat[w] \cup {"RECV_TIMEOUT"})
                   ELSE /\ wait_times' = [wait_times EXCEPT ![w] = @ + 1]
                        /\ UNCHANGED <<recv_stat, wpc, rdbuf>>
              /\ UNCHANGED conn
    /\ UNCHANGED <<backlog, fdt, reg, rdy, got, up, avars, que, wrbuf,
                   proc_stat>>

\* Mutant: the request is not copied into the reply.
ReplyWithoutEcho(s) == <<Resp>>

\* What worker_data_fproc_dft appends; buffer_append cuts at the size.
Reply(s) ==
    LET r == Append(s, Resp)
    IN  SubSeq(r, 1, IF Len(r) <= BufSize THEN Len(r) ELSE BufSize)

\* buffer_clear(p_wrbuf) and p_proc_f; a result other than 0 ends the thread
\* before que_obj_pop.
WorkProc(w) ==
    /\ up /\ wpc[w] = "proc"
    /\ LET then == IF "RECV_DISC" \in recv_stat[w] THEN "close" ELSE "switch"
       IN  IF "RECV_OK" \in recv_stat[w] /\ rdbuf[w] # <<>>
             THEN \E r \in ProcResults :
                    /\ wrbuf' = [wrbuf EXCEPT ![w] = Reply(rdbuf[w])]
                    /\ proc_stat' = IF r = "FAIL" THEN proc_stat
                                    ELSE [proc_stat EXCEPT ![w] = r]
                    /\ wpc' = [wpc EXCEPT ![w] = IF r = "FAIL" THEN "exit"
                                                 ELSE then]
             ELSE /\ wrbuf' = [wrbuf EXCEPT ![w] = <<>>]
                  /\ wpc' = [wpc EXCEPT ![w] = then]
                  /\ UNCHANGED proc_stat
    /\ UNCHANGED <<kvars, avars, que, rdbuf, recv_stat, wait_times>>

WorkClose(w) ==
    /\ up /\ wpc[w] = "close"
    /\ Close(Head(que[w]).fd)
    /\ wpc' = [wpc EXCEPT ![w] = "switch"]
    /\ UNCHANGED <<backlog, got, up, avars, que, rdbuf, wrbuf, recv_stat,
                   wait_times, proc_stat>>

\* switch (proc_stat): nonblk_sendto for PROC_ST_SENDBUF.  sendto on a reset
\* connection takes the pending error, or raises SIGPIPE if there is none.
WorkSwitch(w) ==
    /\ up /\ wpc[w] = "switch"
    /\ wpc' = [wpc EXCEPT ![w] = "pop"]
    /\ LET c == fdt[Head(que[w]).fd]
       IN  IF proc_stat[w] # "PROC_ST_SENDBUF" \/ c = None
             THEN UNCHANGED <<conn, got, up>>
             ELSE IF conn[c].peer = "rst"
               THEN /\ conn' = [conn EXCEPT ![c].err = FALSE]
                    /\ up' = conn[c].err
                    /\ UNCHANGED got
               ELSE /\ got' = [got EXCEPT ![c] = @ \o wrbuf[w]]
                    /\ UNCHANGED <<conn, up>>
    /\ UNCHANGED <<backlog, fdt, reg, rdy, avars, que, rdbuf, wrbuf, recv_stat,
                   wait_times, proc_stat>>

\* Mutant: only events that were read from are popped.
WorkPopDataOnly(w) ==
    /\ up /\ wpc[w] = "pop"
    /\ que' = IF Head(que[w]).sock_status = "SST_DATA_IN"
                THEN [que EXCEPT ![w] = Tail(@)] ELSE que
    /\ wpc' = [wpc EXCEPT ![w] = "poll"]
    /\ UNCHANGED <<kvars, avars, rdbuf, wrbuf, recv_stat, wait_times, proc_stat>>

\* que_obj_pop; PROC_ST_BRKOUT has set r_flag to 0.
WorkPop(w) ==
    /\ up /\ wpc[w] = "pop"
    /\ que' = [que EXCEPT ![w] = Tail(@)]
    /\ wpc' = [wpc EXCEPT ![w] = IF proc_stat[w] = "PROC_ST_BRKOUT" THEN "exit"
                                 ELSE "poll"]
    /\ UNCHANGED <<kvars, avars, rdbuf, wrbuf, recv_stat, wait_times, proc_stat>>

Work(w) ==
    \/ WorkHead(w) \/ WorkRecv(w) \/ WorkProc(w)
    \/ WorkClose(w) \/ WorkSwitch(w) \/ WorkPop(w)

-----------------------------------------------------------------------------
(* serv_create and serv_run, after which the threads run for ever.         *)

Init ==
    /\ backlog = <<>>
    /\ conn = [c \in Clients |-> [st |-> "new", peer |-> "up", err |-> FALSE,
                                  unread |-> 0, sent |-> 0]]
    /\ fdt = [f \in Fds |-> None]
    /\ reg = {} /\ rdy = <<>>
    /\ got = [c \in Clients |-> <<>>]
    /\ up = TRUE
    /\ apc = "detect" /\ evs = <<>> /\ nxt = 1
    /\ si = None
    /\ infofd = [c \in Clients |-> None]
    /\ freed = {}
    /\ que = [w \in Workers |-> <<>>]
    /\ wpc = [w \in Workers |-> "poll"]
    /\ rdbuf = [w \in Workers |-> <<>>]
    /\ wrbuf = [w \in Workers |-> <<>>]
    /\ recv_stat = [w \in Workers |-> {}]
    /\ wait_times = [w \in Workers |-> 0]
    /\ proc_stat = [w \in Workers |-> "PROC_ST_INIT"]

Next ==
    \/ \E c \in Clients : Connect(c) \/ Send(c) \/ Finish(c) \/ Reset(c)
    \/ Access
    \/ \E w \in Workers : Work(w)

\* Every thread of the server is scheduled.  Clients owe nothing.
Fairness == WF_vars(Access) /\ \A w \in Workers : WF_vars(Work(w))

Spec == Init /\ [][Next]_vars
FairSpec == Spec /\ Fairness

-----------------------------------------------------------------------------
(* Properties.                                                             *)

TypeOK ==
    /\ backlog \in Seq(Clients) /\ Len(backlog) <= Backlog
    /\ conn \in [Clients -> [st : {"new", "backlog", "open", "closed"},
                             peer : {"up", "fin", "rst"}, err : BOOLEAN,
                             unread : Nat, sent : Nat]]
    /\ \A c \in Clients : conn[c].unread <= conn[c].sent
    /\ fdt \in [Fds -> Clients \cup {None}]
    /\ reg \subseteq Clients /\ freed \subseteq Clients
    /\ rdy \in Seq(Clients \cup {Listen})
    /\ got \in [Clients -> Seq(Clients \cup {Resp})] /\ up \in BOOLEAN
    /\ apc \in {"detect", "check", "add", "hup_del", "hup_close", "err_del", "err_close"}
    /\ evs \in Seq([who : Clients \cup {Listen}, mask : Masks \ {{}}])
    /\ nxt \in 1 .. (Len(evs) + 1)
    /\ si \in SockInfo \cup {None}
    /\ infofd \in [Clients -> Fds \cup {None}]
    /\ que \in [Workers -> Seq(SockInfo)]
    /\ \A w \in Workers : Len(que[w]) < que_cap
    /\ wpc \in [Workers -> {"poll", "recv", "proc", "close", "switch", "pop", "exit"}]
    /\ rdbuf \in [Workers -> Seq(Clients)] /\ wrbuf \in [Workers -> Seq(Clients \cup {Resp})]
    /\ \A w \in Workers : Len(rdbuf[w]) <= BufSize /\ Len(wrbuf[w]) <= BufSize
    /\ recv_stat \in [Workers -> SUBSET {"RECV_OK", "RECV_MEM_LACK", "RECV_DISC",
                                         "RECV_TIMEOUT", "RECV_ERR"}]
    /\ wait_times \in [Workers -> 0 .. 2]
    /\ proc_stat \in [Workers -> {"PROC_ST_INIT", "PROC_ST_SENDBUF", "PROC_ST_BRKOUT",
                                  "PROC_ST_ERR"}]

\* The sock_info_t behind data.ptr is not freed while an event of the batch
\* or a registration still leads to it, whatever the workers close meanwhile
\* and whichever way accessor_check_status leaves the batch.
InfoLive ==
    /\ apc = "detect" => reg \cap freed = {}
    /\ apc = "check" => \A i \in nxt .. Len(evs) : evs[i].who \notin freed

\* A connection was accepted when there was no memory to register it.  The
\* batch it was accepted in was left, with whatever else it held.
Refused == \E c \in Clients : conn[c].st \in {"open", "closed"} /\ infofd[c] = None

\* An edge-triggered event is reported once.  So while a registered socket
\* has something to read, an event of it is on its way: on the ready list, in
\* the batch, in a queue before the worker's last recvfrom for it, or with a
\* worker that has seen the end of the connection and closes it.
OnItsWay(c) ==
    \/ c \in Elems(rdy)
    \/ \E i \in nxt .. Len(evs) : evs[i].who = c
    \/ \E w \in Workers : \E i \in DOMAIN que[w] :
          /\ que[w][i].fd = infofd[c]
          /\ que[w][i].sock_status = "SST_DATA_IN"
          /\ i = 1 => \/ wpc[w] \in {"poll", "recv"}
                      \/ /\ wpc[w] \in {"proc", "close"}
                         /\ "RECV_DISC" \in recv_stat[w]

EdgesLive == \A c \in reg : PollMask(c) # {} => OnItsWay(c)
NoLostEdge == Refused \/ EdgesLive

\* The server closes a connection only after its client has ended it: a
\* late close(fd) never hits a newer connection on the same descriptor.
ClosesOnlyEnded ==
    [][\A c \in Clients : conn[c].st = "open" /\ conn'[c].st = "closed"
          => conn[c].peer # "up"]_vars

\* Every event that reaches a queue is worked off: no worker waits for ever
\* or leaves its loop while its queue holds events.
QueuesDrain ==
    \A w \in Workers : que[w] # <<>> ~> (que[w] = <<>> \/ ~up)

\* test_cli.c connects, sends and then blocks in recv for the reply: every
\* unit a client sends comes back to it, unless a connection was refused.
RequestsAnswered ==
    \A c \in Clients : \A k \in 1 .. MaxSend[c] :
        conn[c].sent >= k ~> (Own(c) >= k \/ Refused)

\* PROC_ST_SENDBUF tells the worker to send the write buffer to the client
\* whose request was processed: nobody receives another client's reply.
ReplyOnlyToRequester ==
    \A c \in Clients : Elems(got[c]) \subseteq {c, Resp}

\* accessor_check_status returns the next event to be processed.  It leaves a
\* batch before its end in two cases only: in the step that accepts a
\* connection and finds no memory to register it; and over a new connection
\* that its client has already ended, when a late event of the descriptor's
\* last connection made a worker answer it and close it before epoll_ctl had
\* registered it.
BatchCutByEnd ==
    [][apc # "detect" /\ apc' = "detect"
          => \/ nxt > Len(evs)
             \/ \E c \in Clients : /\ conn[c].st = "backlog" /\ conn'[c].st = "open"
                                   /\ infofd'[c] = None
             \/ conn[si.who].peer # "up"]_vars
=============================================================================
