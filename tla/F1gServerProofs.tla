-------------------------- MODULE F1gServerProofs --------------------------
(***************************************************************************)
(* Proofs about F1gServer: for every set of clients and workers, every     *)
(* number of descriptors and size of the queues, with clients that close   *)
(* early and connections that are reset.                                   *)
(***************************************************************************)
EXTENDS F1gServer, TLAPS

ConnType == [st : {"new", "backlog", "open", "closed"},
             peer : {"up", "fin", "rst"}, err : BOOLEAN,
             unread : Nat, sent : Nat]
EventType == [who : Clients \cup {Listen}, mask : Masks \ {{}}]

\* TypeOK, by the owner of the variables.
KernelTypes ==
    /\ backlog \in Seq(Clients) /\ Len(backlog) <= Backlog
    /\ conn \in [Clients -> ConnType]
    /\ fdt \in [Fds -> Clients \cup {None}]
    /\ reg \subseteq Clients
    /\ rdy \in Seq(Clients \cup {Listen})
    /\ got \in [Clients -> Seq(Clients \cup {Resp})] /\ up \in BOOLEAN

AccessTypes ==
    /\ freed \subseteq Clients
    /\ apc \in {"detect", "check", "add", "hup_del", "hup_close", "err_del", "err_close"}
    /\ evs \in Seq(EventType)
    /\ nxt \in 1 .. (Len(evs) + 1)
    /\ si \in SockInfo \cup {None}
    /\ infofd \in [Clients -> Fds \cup {None}]

QueueTypes ==
    /\ que \in [Workers -> Seq(SockInfo)]
    /\ \A w \in Workers : Len(que[w]) < que_cap

WorkerTypes ==
    /\ wpc \in [Workers -> {"poll", "recv", "proc", "close", "switch", "pop", "exit"}]
    /\ rdbuf \in [Workers -> Seq(Clients)] /\ wrbuf \in [Workers -> Seq(Clients \cup {Resp})]
    /\ \A w \in Workers : Len(rdbuf[w]) <= BufSize /\ Len(wrbuf[w]) <= BufSize
    /\ recv_stat \in [Workers -> SUBSET {"RECV_OK", "RECV_MEM_LACK", "RECV_DISC",
                                         "RECV_TIMEOUT", "RECV_ERR"}]
    /\ wait_times \in [Workers -> 0 .. 2]
    /\ proc_stat \in [Workers -> {"PROC_ST_INIT", "PROC_ST_SENDBUF", "PROC_ST_BRKOUT",
                                  "PROC_ST_ERR"}]

Distinct(s) == \A i, j \in 1 .. Len(s) : s[i] = s[j] => i = j
Accepted(c) == conn[c].st \in {"open", "closed"} /\ infofd[c] \in Fds

\* The access thread has freed the sock_info_t of the event it is at.
Dropping == apc \in {"hup_del", "hup_close", "err_del", "err_close"}

\* A descriptor leads to an open connection of its own, whose sock_info_t holds
\* it if there was memory for one; a registered connection has its descriptor.
Table ==
    /\ \A f \in Fds : fdt[f] # None => infofd[fdt[f]] \in {f, None} /\ conn[fdt[f]].st = "open"
    /\ \A f, g \in Fds : fdt[f] # None /\ fdt[f] = fdt[g] => f = g
    /\ \A c \in reg : infofd[c] \in Fds /\ fdt[infofd[c]] = c
    /\ \A c \in Clients : conn[c].st \in {"new", "backlog"} => infofd[c] = None

Unread == \A c \in Clients : conn[c].unread <= conn[c].sent

Waiting ==
    /\ Distinct(backlog)
    /\ \A i \in 1 .. Len(backlog) : conn[backlog[i]].st = "backlog"

ReadyList == Distinct(rdy) /\ \A i \in 1 .. Len(rdy) : rdy[i] \in reg \cup {Listen}

Batch ==
    /\ \A i, j \in 1 .. Len(evs) : evs[i].who = evs[j].who => i = j
    /\ \A i \in 1 .. Len(evs) : evs[i].who # Listen => Accepted(evs[i].who)
    /\ apc \notin {"detect", "check"} => nxt <= Len(evs) /\ si \in SockInfo
    /\ Dropping => si.fd = infofd[si.who] /\ Accepted(si.who)
    /\ apc = "add" => /\ fdt[si.fd] \in {None, si.who} /\ si.who \notin freed
                      /\ evs[nxt].who = Listen /\ si.fd = infofd[si.who]

\* A freed sock_info_t is out of reach: the one exception is the event that
\* the access thread is just dropping, and its registration until the
\* EPOLL_CTL_DEL.
Freed ==
    /\ \A c \in freed : Accepted(c)
    /\ \A c \in reg \cap freed : apc \in {"hup_del", "err_del"} /\ c = si.who
    /\ \A i \in nxt .. Len(evs) : evs[i].who \in freed => Dropping /\ i = nxt

\* que_obj_head is used only while the block is there.
Held == \A w \in Workers : wpc[w] \notin {"poll", "exit"} => que[w] # <<>>

IInv ==
    /\ KernelTypes /\ AccessTypes /\ QueueTypes /\ WorkerTypes
    /\ Table /\ Unread /\ Waiting /\ ReadyList /\ Batch /\ Freed /\ Held

-----------------------------------------------------------------------------
(* The kernel's lists and masks.                                           *)

\* A mask holds EPOLL* bits only.
LEMMA EventTypes ==
    ASSUME NEW x \in Clients \cup {Listen}
    PROVE  Event(x).who = x /\ Event(x).mask \in Masks
  BY DEF Event, PollMask, Masks

\* Waking x adds it to the ready list, once.
LEMMA WakeFacts ==
    ASSUME NEW S, NEW l \in Seq(S), NEW x \in S, Distinct(l)
    PROVE  /\ Wake(l, x) \in Seq(S) /\ Distinct(Wake(l, x))
           /\ \A i \in 1 .. Len(Wake(l, x)) :
                 Wake(l, x)[i] = x \/ \E j \in 1 .. Len(l) : Wake(l, x)[i] = l[j]
  <1>1. CASE x \in Elems(l)
    BY <1>1 DEF Wake
  <1>2. CASE x \notin Elems(l)
    <2>1. Wake(l, x) = Append(l, x)
      BY <1>2 DEF Wake
    <2>2. \A j \in 1 .. Len(l) : l[j] # x
      BY <1>2 DEF Elems
    <2>3. /\ Append(l, x) \in Seq(S) /\ Len(Append(l, x)) = Len(l) + 1
          /\ \A i \in 1 .. Len(l) : Append(l, x)[i] = l[i]
          /\ Append(l, x)[Len(l) + 1] = x
      OBVIOUS
    <2>4. Len(l) \in Nat
      OBVIOUS
    <2> DEFINE a == Append(l, x)
    <2> HIDE DEF a
    <2>5. \A i \in 1 .. (Len(l) + 1) : i \in 1 .. Len(l) \/ i = Len(l) + 1
      BY <2>4
    <2>6. QED
      BY <2>1, <2>2, <2>3, <2>4, <2>5 DEF Distinct
  <1>3. QED
    BY <1>1, <1>2

\* Taking x out leaves the others, in their order.
LEMMA AsleepFacts ==
    ASSUME NEW S, NEW l \in Seq(S), NEW x, Distinct(l)
    PROVE  /\ Asleep(l, x) \in Seq(S) /\ Distinct(Asleep(l, x))
           /\ \A i \in 1 .. Len(Asleep(l, x)) :
                 /\ Asleep(l, x)[i] # x
                 /\ \E j \in 1 .. Len(l) : Asleep(l, x)[i] = l[j]
  <1>1. CASE x \notin Elems(l)
    BY <1>1 DEF Asleep, Elems
  <1>2. CASE x \in Elems(l)
    <2> DEFINE at == CHOOSE i \in DOMAIN l : l[i] = x
               a == [i \in 1 .. (Len(l) - 1) |-> IF i < at THEN l[i] ELSE l[i + 1]]
    <2>1. at \in 1 .. Len(l) /\ l[at] = x /\ Len(l) \in Nat
      <3>1. \E i \in DOMAIN l : l[i] = x
        BY <1>2 DEF Elems
      <3>2. at \in DOMAIN l /\ l[at] = x
        BY <3>1
      <3>3. QED
        BY <3>2
    <2>2. Asleep(l, x) = a
      BY <1>2 DEF Asleep
    <2> HIDE DEF at
    <2>3. Len(l) - 1 \in Nat
      BY <2>1
    <2>4. \A i \in 1 .. (Len(l) - 1) : a[i] = l[IF i < at THEN i ELSE i + 1]
      OBVIOUS
    <2>5. \A i \in 1 .. (Len(l) - 1) : l[i] \in S /\ l[i + 1] \in S
      BY <2>1
    <2>6. a \in Seq(S) /\ Len(a) = Len(l) - 1
      BY <2>3, <2>5
    <2> HIDE DEF a
    <2> DEFINE old(i) == IF i < at THEN i ELSE i + 1
    <2>7. \A i \in 1 .. (Len(l) - 1) : old(i) \in 1 .. Len(l) /\ old(i) # at
      BY <2>1
    <2>8. \A i, j \in 1 .. (Len(l) - 1) : old(i) = old(j) => i = j
      BY <2>1
    <2>9. \A i \in 1 .. (Len(l) - 1) : a[i] = l[old(i)]
      BY <2>4
    <2> HIDE DEF old
    <2>10. Distinct(a)
      BY <2>6, <2>7, <2>8, <2>9 DEF Distinct
    <2>11. \A i \in 1 .. Len(a) : a[i] # x /\ \E j \in 1 .. Len(l) : a[i] = l[j]
      BY <2>1, <2>6, <2>7, <2>9 DEF Distinct
    <2>12. QED
      BY <2>2, <2>6, <2>10, <2>11
  <1>3. QED
    BY <1>1, <1>2

-----------------------------------------------------------------------------
(* What several actions have in common.                                    *)

\* Steps of clients and workers: the access thread's variables stay, no
\* connection is registered or put behind a descriptor.
LEMMA AccessFrame ==
    ASSUME IInv, UNCHANGED <<apc, evs, nxt, si, infofd, freed>>,
           reg' \subseteq reg,
           \A c \in Clients : Accepted(c) => Accepted(c)',
           \A f \in Fds : fdt'[f] \in {None, fdt[f]}
    PROVE  AccessTypes' /\ Batch' /\ Freed'
  <1>1. AccessTypes'
    BY DEF IInv, AccessTypes
  <1>2. Dropping' <=> Dropping
    BY DEF Dropping
  <1>3. /\ \A i \in 1 .. Len(evs) : evs[i].who \in Clients \cup {Listen}
        /\ apc = "add" => si.fd \in Fds
        /\ Dropping => si.who \in Clients
    <2>1. evs \in Seq(EventType) /\ (apc \notin {"detect", "check"} => si \in SockInfo)
      BY DEF IInv, AccessTypes, Batch
    <2>2. \A e \in EventType : e.who \in Clients \cup {Listen}
      BY DEF EventType
    <2>3. \A s \in SockInfo : s.fd \in Fds /\ s.who \in Clients
      BY DEF SockInfo
    <2>4. \A i \in 1 .. Len(evs) : evs[i] \in EventType
      BY <2>1
    <2>5. QED
      BY <2>1, <2>2, <2>3, <2>4 DEF Dropping
  <1>4. Batch'
    <2>1. \A i \in 1 .. Len(evs) : evs[i].who # Listen => Accepted(evs[i].who)'
      BY <1>3 DEF IInv, Batch
    <2>2. Dropping => si.fd = infofd[si.who] /\ Accepted(si.who)'
      BY <1>3 DEF IInv, Batch
    <2>3. apc = "add" => fdt'[si.fd] \in {None, si.who} /\ si.fd = infofd[si.who]
      BY <1>3 DEF IInv, Batch
    <2>4. \A c \in Clients : Accepted(c)' <=> conn'[c].st \in {"open", "closed"} /\ infofd'[c] \in Fds
      BY DEF Accepted
    <2>5. QED
      BY <1>2, <1>3, <2>1, <2>2, <2>3, <2>4 DEF IInv, Batch, Accepted
  <1>5. Freed'
    BY <1>2 DEF IInv, Freed, AccessTypes
  <1>6. QED
    BY <1>1, <1>4, <1>5

\* A step that leaves every connection open or closed as it was.
SameStates ==
    /\ conn' \in [Clients -> ConnType]
    /\ \A c \in Clients : conn'[c].st = conn[c].st /\ conn'[c].unread <= conn'[c].sent

LEMMA ConnFrame ==
    ASSUME IInv, SameStates, UNCHANGED <<fdt, reg, infofd, backlog>>
    PROVE  /\ Table' /\ Unread' /\ Waiting'
           /\ \A c \in Clients : Accepted(c) => Accepted(c)'
           /\ \A f \in Fds : fdt'[f] \in {None, fdt[f]}
  <1>1. \A f \in Fds : fdt[f] # None => fdt[f] \in Clients
    BY DEF IInv, KernelTypes
  <1>2. Table'
    BY <1>1 DEF IInv, Table, SameStates
  <1>3. Unread'
    BY DEF SameStates, Unread
  <1>4. \A i \in 1 .. Len(backlog) : backlog[i] \in Clients
    BY DEF IInv, KernelTypes
  <1>5. Waiting'
    BY <1>4 DEF IInv, Waiting, Distinct, SameStates
  <1>6. \A c \in Clients : Accepted(c) => Accepted(c)'
    BY DEF SameStates, Accepted
  <1>7. QED
    BY <1>2, <1>3, <1>5, <1>6

\* Waking a registered socket, or the listener, keeps the ready list one of
\* registered sockets.
LEMMA WakeReady ==
    ASSUME IInv, NEW x \in Clients \cup {Listen},
           rdy' = Wake(rdy, x), reg \subseteq reg', x \in reg' \cup {Listen}
    PROVE  ReadyList' /\ rdy' \in Seq(Clients \cup {Listen})
  <1>1. rdy \in Seq(Clients \cup {Listen}) /\ Distinct(rdy)
    BY DEF IInv, KernelTypes, ReadyList
  <1>2. /\ rdy' \in Seq(Clients \cup {Listen}) /\ Distinct(rdy')
        /\ \A i \in 1 .. Len(rdy') : rdy'[i] = x \/ \E j \in 1 .. Len(rdy) : rdy'[i] = rdy[j]
    BY <1>1, WakeFacts
  <1>3. \A i \in 1 .. Len(rdy') : rdy'[i] \in reg' \cup {Listen}
    BY <1>2 DEF IInv, ReadyList
  <1>4. Distinct(rdy)'
    BY <1>2 DEF Distinct
  <1>5. QED
    BY <1>2, <1>3, <1>4 DEF ReadyList

\* close(fd), by whomever.
LEMMA CloseKeeps ==
    ASSUME IInv, NEW fd \in Fds, Close(fd), UNCHANGED <<backlog, infofd, got, up>>
    PROVE  /\ KernelTypes' /\ Table' /\ Unread' /\ Waiting' /\ ReadyList'
           /\ reg' \subseteq reg
           /\ \A c \in Clients : Accepted(c) => Accepted(c)'
           /\ \A f \in Fds : fdt'[f] \in {None, fdt[f]}
  <1>1. CASE fdt[fd] = None
    <2>1. UNCHANGED <<fdt, conn, reg, rdy>>
      BY <1>1 DEF Close
    <2>2. SameStates
      BY <2>1 DEF SameStates, IInv, KernelTypes, Unread
    <2>3. KernelTypes' /\ ReadyList'
      BY <2>1 DEF IInv, KernelTypes, ReadyList, Distinct
    <2>4. QED
      BY <2>1, <2>2, <2>3, ConnFrame
  <1>2. CASE fdt[fd] # None
    <2> DEFINE d == fdt[fd]
    <2>1. /\ fdt' = [fdt EXCEPT ![fd] = None]
          /\ conn' = [conn EXCEPT ![d] = [conn[d] EXCEPT !.st = "closed"]]
          /\ reg' = reg \ {d}
          /\ rdy' = Asleep(rdy, d)
      BY <1>2 DEF Close
    <2>2. /\ d \in Clients /\ conn \in [Clients -> ConnType]
          /\ fdt \in [Fds -> Clients \cup {None}]
          /\ conn[d].st = "open"
      BY <1>2 DEF IInv, KernelTypes, Table
    <2> HIDE DEF d
    <2>3. /\ conn' \in [Clients -> ConnType]
          /\ conn'[d].st = "closed" /\ conn'[d].unread = conn[d].unread
          /\ conn'[d].sent = conn[d].sent
          /\ \A c \in Clients : c # d => conn'[c] = conn[c]
      <3>1. ASSUME NEW n \in ConnType
            PROVE  LET m == [n EXCEPT !.st = "closed"]
                   IN  m \in ConnType /\ m.st = "closed" /\ m.unread = n.unread
                       /\ m.sent = n.sent
        BY DEF ConnType
      <3>2. QED
        BY <2>1, <2>2, <3>1
    <2>4. /\ fdt' \in [Fds -> Clients \cup {None}] /\ fdt'[fd] = None
          /\ \A f \in Fds : f # fd => fdt'[f] = fdt[f]
      BY <2>1, <2>2
    <2>5. \A f \in Fds : f # fd => fdt[f] # d
      BY <1>2, <2>2 DEF IInv, Table, d
    <2>6. rdy \in Seq(Clients \cup {Listen}) /\ Distinct(rdy)
      BY DEF IInv, KernelTypes, ReadyList
    <2>7. /\ rdy' \in Seq(Clients \cup {Listen}) /\ Distinct(rdy')
          /\ \A i \in 1 .. Len(rdy') :
                rdy'[i] # d /\ \E j \in 1 .. Len(rdy) : rdy'[i] = rdy[j]
      BY <2>1, <2>6, AsleepFacts
    <2>8. KernelTypes'
      BY <2>1, <2>3, <2>4, <2>7 DEF IInv, KernelTypes
    <2>9. Table'
      <3>1. \A f \in Fds : fdt'[f] # None => /\ f # fd /\ fdt'[f] = fdt[f] /\ fdt[f] # d
                                             /\ fdt[f] \in Clients
        BY <2>2, <2>4, <2>5
      <3>2. \A f \in Fds : fdt'[f] # None =>
               infofd'[fdt'[f]] \in {f, None} /\ conn'[fdt'[f]].st = "open"
        BY <2>3, <3>1 DEF IInv, Table
      <3>3. \A c \in reg' : infofd[c] # fd
        BY <2>1, <2>2 DEF IInv, Table, d
      <3>4. \A c \in reg' : infofd'[c] \in Fds /\ fdt'[infofd'[c]] = c
        BY <2>1, <2>4, <3>3 DEF IInv, Table
      <3>5. \A f, g \in Fds : fdt'[f] # None /\ fdt'[f] = fdt'[g] => f = g
        <4> SUFFICES ASSUME NEW f \in Fds, NEW g \in Fds, fdt'[f] # None, fdt'[f] = fdt'[g]
                     PROVE  f = g
          OBVIOUS
        <4>1. fdt[f] = fdt'[f] /\ fdt[g] = fdt'[g]
          BY <3>1
        <4>2. QED
          BY <4>1 DEF IInv, Table
      <3>6. \A c \in Clients : conn'[c].st \in {"new", "backlog"} => infofd'[c] = None
        BY <2>3 DEF IInv, Table
      <3>7. QED
        BY <3>2, <3>4, <3>5, <3>6 DEF Table
    <2>10. Unread'
      BY <2>3 DEF IInv, Unread
    <2>11. Waiting'
      <3>1. \A i \in 1 .. Len(backlog) : backlog[i] # d /\ backlog[i] \in Clients
        BY <2>2 DEF IInv, Waiting, KernelTypes
      <3>2. QED
        BY <2>3, <3>1 DEF IInv, Waiting, Distinct
    <2>12. ReadyList'
      <3>1. \A i \in 1 .. Len(rdy') : rdy'[i] \in reg' \cup {Listen}
        BY <2>1, <2>7 DEF IInv, ReadyList
      <3>2. Distinct(rdy)'
        BY <2>7 DEF Distinct
      <3>3. QED
        BY <3>1, <3>2 DEF ReadyList
    <2>13. \A c \in Clients : Accepted(c) => Accepted(c)'
      BY <2>2, <2>3 DEF Accepted
    <2>14. \A f \in Fds : fdt'[f] \in {None, fdt[f]}
      BY <2>4
    <2>15. QED
      BY <2>1, <2>8, <2>9, <2>10, <2>11, <2>12, <2>13, <2>14
  <1>3. QED
    BY <1>1, <1>2

\* An event is handed to the queue of its client, or dropped when that is
\* full.
LEMMA DeliverKeeps ==
    ASSUME IInv, NEW s \in SockInfo, Deliver(s), UNCHANGED wvars
    PROVE  /\ si' = s /\ nxt' = nxt + 1 /\ apc' = "check" /\ UNCHANGED evs
           /\ QueueTypes' /\ Held'
  <1> DEFINE w == QueOf[s.who]
  <1>1. w \in Workers
    BY WorkersAssumption DEF SockInfo
  <1>2. /\ que \in [Workers -> Seq(SockInfo)]
        /\ \A v \in Workers : Len(que[v]) < que_cap /\ Len(que[v]) \in Nat
    BY DEF IInv, QueueTypes
  <1>3. \/ UNCHANGED que
        \/ Len(que[w]) < que_cap - 1 /\ que' = [que EXCEPT ![w] = Append(que[w], s)]
    BY DEF Deliver
  <1>4. /\ Append(que[w], s) \in Seq(SockInfo) /\ Len(Append(que[w], s)) = Len(que[w]) + 1
        /\ Append(que[w], s) # <<>>
    BY <1>1, <1>2
  <1> HIDE DEF w
  <1>5. QueueTypes'
    <2>1. CASE UNCHANGED que
      BY <2>1 DEF IInv, QueueTypes
    <2>2. CASE Len(que[w]) < que_cap - 1 /\ que' = [que EXCEPT ![w] = Append(que[w], s)]
      BY <1>1, <1>2, <1>4, <2>2, BoundsAssumption DEF QueueTypes
    <2>3. QED
      BY <1>3, <2>1, <2>2
  <1>6. \A v \in Workers : que[v] # <<>> => que'[v] # <<>>
    BY <1>1, <1>2, <1>3, <1>4
  <1>7. Held'
    BY <1>6 DEF IInv, Held, wvars
  <1>8. QED
    BY <1>5, <1>7 DEF Deliver

-----------------------------------------------------------------------------
(* Clients.                                                                *)

\* A client's step on its connection, which may wake the access thread.
LEMMA ActivityInv ==
    ASSUME IInv, NEW c \in Clients, SameStates, Activity(c),
           UNCHANGED <<backlog, fdt, reg, got, up, avars, que, wvars>>
    PROVE  IInv'
  <1>0. UNCHANGED <<backlog, fdt, reg, got, up, apc, evs, nxt, si, infofd, freed, que,
                    wpc, rdbuf, wrbuf, recv_stat, wait_times, proc_stat>>
    BY DEF avars, wvars
  <1>1. ReadyList' /\ rdy' \in Seq(Clients \cup {Listen})
    <2>1. CASE c \in reg
      BY <1>0, <2>1, WakeReady DEF Activity
    <2>2. CASE c \notin reg
      BY <1>0, <2>2 DEF Activity, IInv, ReadyList, Distinct, KernelTypes
    <2>3. QED
      BY <2>1, <2>2
  <1>2. KernelTypes'
    BY <1>0, <1>1 DEF IInv, KernelTypes, SameStates
  <1>3. /\ Table' /\ Unread' /\ Waiting'
        /\ \A d \in Clients : Accepted(d) => Accepted(d)'
        /\ \A f \in Fds : fdt'[f] \in {None, fdt[f]}
    BY <1>0, ConnFrame
  <1>4. AccessTypes' /\ Batch' /\ Freed'
    BY <1>0, <1>3, AccessFrame
  <1>5. QueueTypes' /\ WorkerTypes' /\ Held'
    BY <1>0 DEF IInv, QueueTypes, WorkerTypes, Held
  <1>6. QED
    BY <1>1, <1>2, <1>3, <1>4, <1>5 DEF IInv

\* A client sends, closes or resets.
LEMMA SendInv == ASSUME IInv, NEW c \in Clients, Send(c) PROVE IInv'
  <1>1. conn \in [Clients -> ConnType] /\ conn[c].unread <= conn[c].sent
    BY DEF IInv, KernelTypes, Unread
  <1>2. /\ conn[c].sent < MaxSend[c]
        /\ conn' = [conn EXCEPT ![c].sent = @ + 1, ![c].unread = @ + 1]
    BY DEF Send
  <1>3. ASSUME NEW n \in ConnType, n.unread <= n.sent
        PROVE  LET m == [n EXCEPT !.sent = n.sent + 1, !.unread = n.unread + 1]
               IN  m \in ConnType /\ m.st = n.st /\ m.unread <= m.sent
    <2>1. n.sent \in Nat /\ n.unread \in Nat
      BY DEF ConnType
    <2>2. n.sent + 1 \in Nat /\ n.unread + 1 \in Nat /\ n.unread + 1 <= n.sent + 1
      BY <1>3, <2>1
    <2>3. \A a, b \in Nat : LET m == [n EXCEPT !.sent = a, !.unread = b]
                            IN  m \in ConnType /\ m.st = n.st /\ m.unread = b /\ m.sent = a
      BY DEF ConnType
    <2>4. QED
      BY <2>2, <2>3
  <1>4. conn' = [conn EXCEPT ![c] = [conn[c] EXCEPT !.sent = conn[c].sent + 1,
                                                    !.unread = conn[c].unread + 1]]
    BY <1>1, <1>2 DEF ConnType
  <1>5. SameStates
    <2> DEFINE m == [conn[c] EXCEPT !.sent = conn[c].sent + 1, !.unread = conn[c].unread + 1]
    <2>1. m \in ConnType /\ m.st = conn[c].st /\ m.unread <= m.sent
      BY <1>1, <1>2, <1>3
    <2> HIDE DEF m
    <2>2. conn' = [conn EXCEPT ![c] = m]
      BY <1>4 DEF m
    <2>3. QED
      BY <1>1, <2>1, <2>2 DEF SameStates, IInv, Unread
  <1>6. QED
    BY <1>5, ActivityInv DEF Send

LEMMA FinishInv == ASSUME IInv, NEW c \in Clients, Finish(c) PROVE IInv'
  <1>1. conn \in [Clients -> ConnType]
    BY DEF IInv, KernelTypes
  <1>2. conn' = [conn EXCEPT ![c] = [conn[c] EXCEPT !.peer = "fin"]]
    BY DEF Finish
  <1>3. ASSUME NEW n \in ConnType
        PROVE  LET m == [n EXCEPT !.peer = "fin"]
               IN  m \in ConnType /\ m.st = n.st /\ m.unread = n.unread /\ m.sent = n.sent
    BY DEF ConnType
  <1>5. SameStates
    BY <1>1, <1>2, <1>3 DEF SameStates, IInv, Unread
  <1>6. QED
    BY <1>5, ActivityInv DEF Finish

LEMMA ResetInv == ASSUME IInv, NEW c \in Clients, Reset(c) PROVE IInv'
  <1>1. conn \in [Clients -> ConnType]
    BY DEF IInv, KernelTypes
  <1>2. conn' = [conn EXCEPT ![c] = [conn[c] EXCEPT !.peer = "rst", !.err = TRUE]]
    BY <1>1 DEF Reset, ConnType
  <1>3. ASSUME NEW n \in ConnType
        PROVE  LET m == [n EXCEPT !.peer = "rst", !.err = TRUE]
               IN  m \in ConnType /\ m.st = n.st /\ m.unread = n.unread /\ m.sent = n.sent
    BY DEF ConnType
  <1>5. SameStates
    BY <1>1, <1>2, <1>3 DEF SameStates, IInv, Unread
  <1>6. QED
    BY <1>5, ActivityInv DEF Reset

\* A client connects.
LEMMA ConnectInv == ASSUME IInv, NEW c \in Clients, Connect(c) PROVE IInv'
  <1>0. /\ conn[c].st = "new" /\ Len(backlog) < Backlog
        /\ backlog' = Append(backlog, c)
        /\ conn' = [conn EXCEPT ![c] = [conn[c] EXCEPT !.st = "backlog"]]
        /\ rdy' = Wake(rdy, Listen)
        /\ UNCHANGED <<fdt, reg, got, up, apc, evs, nxt, si, infofd, freed, que,
                       wpc, rdbuf, wrbuf, recv_stat, wait_times, proc_stat>>
    BY DEF Connect, avars, wvars
  <1>1. conn \in [Clients -> ConnType] /\ backlog \in Seq(Clients)
    BY DEF IInv, KernelTypes
  <1>2. ASSUME NEW n \in ConnType
        PROVE  LET m == [n EXCEPT !.st = "backlog"]
               IN  m \in ConnType /\ m.st = "backlog" /\ m.unread = n.unread /\ m.sent = n.sent
    BY DEF ConnType
  <1>3. /\ conn' \in [Clients -> ConnType] /\ conn'[c].st = "backlog"
        /\ conn'[c].unread = conn[c].unread /\ conn'[c].sent = conn[c].sent
        /\ \A d \in Clients : d # c => conn'[d] = conn[d]
    BY <1>0, <1>1, <1>2
  <1>4. ReadyList' /\ rdy' \in Seq(Clients \cup {Listen})
    BY <1>0, WakeReady
  <1>5. /\ backlog' \in Seq(Clients) /\ Len(backlog') = Len(backlog) + 1
        /\ \A i \in 1 .. Len(backlog) : backlog'[i] = backlog[i] /\ backlog[i] \in Clients
        /\ backlog'[Len(backlog) + 1] = c /\ Len(backlog) \in Nat
    BY <1>0, <1>1
  <1>6. KernelTypes'
    BY <1>0, <1>3, <1>4, <1>5, BoundsAssumption DEF IInv, KernelTypes
  <1>7. Table'
    <2>1. \A f \in Fds : fdt[f] # None => fdt[f] \in Clients /\ fdt[f] # c
      BY <1>0 DEF IInv, KernelTypes, Table
    <2>2. QED
      BY <1>0, <1>3, <2>1 DEF IInv, Table
  <1>8. Unread'
    BY <1>3 DEF IInv, Unread
  <1>9. Waiting'
    <2>1. \A i \in 1 .. Len(backlog') : i \in 1 .. Len(backlog) \/ i = Len(backlog) + 1
      BY <1>5
    <2>2. \A i \in 1 .. Len(backlog) : backlog[i] # c /\ conn[backlog[i]].st = "backlog"
      BY <1>0 DEF IInv, Waiting
    <2>3. \A i, j \in 1 .. Len(backlog') : backlog'[i] = backlog'[j] => i = j
      BY <1>5, <2>1, <2>2 DEF IInv, Waiting, Distinct
    <2>4. \A i \in 1 .. Len(backlog') : conn'[backlog'[i]].st = "backlog"
      BY <1>3, <1>5, <2>1, <2>2
    <2>5. QED
      BY <2>3, <2>4 DEF Waiting, Distinct
  <1>10. \A d \in Clients : Accepted(d) => Accepted(d)'
    BY <1>0, <1>3 DEF Accepted
  <1>11. AccessTypes' /\ Batch' /\ Freed'
    BY <1>0, <1>10, AccessFrame
  <1>12. QueueTypes' /\ WorkerTypes' /\ Held'
    BY <1>0 DEF IInv, QueueTypes, WorkerTypes, Held
  <1>13. QED
    BY <1>4, <1>6, <1>7, <1>8, <1>9, <1>11, <1>12 DEF IInv

-----------------------------------------------------------------------------
(* The access thread.                                                      *)

\* What the access thread's steps leave alone.
LEMMA WorkersFrame ==
    ASSUME IInv, UNCHANGED wvars
    PROVE  WorkerTypes' /\ (UNCHANGED que => QueueTypes' /\ Held')
  BY DEF IInv, wvars, WorkerTypes, QueueTypes, Held

LEMMA KernelFrame ==
    ASSUME IInv, UNCHANGED kvars, UNCHANGED infofd
    PROVE  KernelTypes' /\ Table' /\ Unread' /\ Waiting' /\ ReadyList'
  BY DEF IInv, kvars, KernelTypes, Table, Unread, Waiting, ReadyList, Distinct

\* epoll_wait: the batch is of sockets that are registered, whose sock_info_t
\* is not freed.
LEMMA DetectInv == ASSUME IInv, Detect PROVE IInv'
  <1>0. PICK n \in 0 .. Len(rdy) : \E at \in [1 .. n -> DOMAIN rdy] :
           /\ Reported(n, at)
           /\ evs' = [k \in 1 .. n |-> Event(rdy[at[k]])]
           /\ apc' = IF n = 0 THEN "detect" ELSE "check"
    BY DEF Detect
  <1>1. PICK at \in [1 .. n -> DOMAIN rdy] :
           /\ Reported(n, at)
           /\ evs' = [k \in 1 .. n |-> Event(rdy[at[k]])]
           /\ apc' = IF n = 0 THEN "detect" ELSE "check"
    BY <1>0
  <1>2. /\ apc = "detect" /\ nxt' = 1 /\ rdy' = <<>>
        /\ UNCHANGED <<backlog, conn, fdt, reg, got, up, si, infofd, freed, que>>
        /\ UNCHANGED wvars
    BY DEF Detect
  <1>3. /\ rdy \in Seq(Clients \cup {Listen})
        /\ Distinct(rdy) /\ \A i \in 1 .. Len(rdy) : rdy[i] \in reg \cup {Listen}
        /\ n \in Nat /\ reg \subseteq Clients
    BY DEF IInv, KernelTypes, ReadyList
  <1>4. ASSUME NEW k \in 1 .. n
        PROVE  /\ at[k] \in 1 .. Len(rdy) /\ evs'[k] = Event(rdy[at[k]])
               /\ evs'[k].who = rdy[at[k]] /\ evs'[k] \in EventType
               /\ evs'[k].who \in reg \cup {Listen}
    <2>1. at[k] \in DOMAIN rdy /\ DOMAIN rdy = 1 .. Len(rdy)
      BY <1>3, <1>4
    <2>2. Event(rdy[at[k]]).mask # {}
      BY <1>1, <1>4, <2>1 DEF Reported
    <2>3. rdy[at[k]] \in Clients \cup {Listen}
      BY <1>3, <2>1
    <2>4. evs'[k] = Event(rdy[at[k]])
      BY <1>1, <1>4
    <2>5. Event(rdy[at[k]]) = [who |-> Event(rdy[at[k]]).who, mask |-> Event(rdy[at[k]]).mask]
      BY DEF Event
    <2>6. Event(rdy[at[k]]) \in EventType
      BY <2>2, <2>3, <2>5, EventTypes DEF EventType
    <2>7. QED
      BY <1>3, <2>1, <2>3, <2>4, <2>6, EventTypes
  <1>5. evs' \in Seq(EventType) /\ Len(evs') = n
    BY <1>1, <1>3, <1>4
  <1>6. AccessTypes'
    BY <1>1, <1>2, <1>3, <1>5 DEF IInv, AccessTypes
  <1>7. \A i, j \in 1 .. n : evs'[i].who = evs'[j].who => i = j
    <2> SUFFICES ASSUME NEW i \in 1 .. n, NEW j \in 1 .. n, evs'[i].who = evs'[j].who,
                        i < j
                 PROVE  FALSE
      BY <1>3
    <2>1. at[i] < at[j]
      BY <1>1 DEF Reported
    <2>2. at[i] = at[j]
      BY <1>3, <1>4 DEF Distinct
    <2>3. QED
      BY <1>3, <1>4, <2>1, <2>2
  <1>8. \A c \in reg : Accepted(c)' /\ c \notin freed
    <2>1. \A c \in reg : infofd[c] \in Fds /\ conn[c].st = "open"
      <3> SUFFICES ASSUME NEW c \in reg PROVE infofd[c] \in Fds /\ conn[c].st = "open"
        OBVIOUS
      <3>1. infofd[c] \in Fds /\ fdt[infofd[c]] = c
        BY DEF IInv, Table
      <3>2. c \in Clients /\ c # None
        BY NamesAssumption DEF IInv, KernelTypes
      <3>3. QED
        BY <3>1, <3>2 DEF IInv, Table
    <2>2. QED
      BY <1>2, <2>1 DEF Accepted, IInv, Freed
  <1>9. Batch'
    <2>1. \A i \in 1 .. n : (evs[i].who # Listen => Accepted(evs[i].who))'
      <3> SUFFICES ASSUME NEW i \in 1 .. n, evs'[i].who # Listen
                   PROVE  conn'[evs'[i].who].st \in {"open", "closed"} /\ infofd'[evs'[i].who] \in Fds
        BY DEF Accepted
      <3>1. evs'[i].who \in reg
        BY <1>4
      <3>2. QED
        BY <1>8, <3>1 DEF Accepted
    <2>2. ~Dropping' /\ apc' \in {"detect", "check"}
      BY <1>1 DEF Dropping
    <2>3. QED
      BY <1>5, <1>7, <2>1, <2>2 DEF Batch, Accepted
  <1>10. Freed'
    <2>1. \A c \in freed : Accepted(c)'
      BY <1>2 DEF IInv, Freed, Accepted
    <2>2. \A i \in 1 .. n : evs'[i].who \notin freed
      BY <1>4, <1>8, NamesAssumption DEF IInv, AccessTypes
    <2>3. QED
      BY <1>2, <1>5, <1>8, <2>1, <2>2 DEF Freed
  <1>11. KernelTypes' /\ ReadyList'
    BY <1>2 DEF IInv, KernelTypes, ReadyList, Distinct
  <1>12. Table' /\ Unread' /\ Waiting'
    BY <1>2 DEF IInv, Table, Unread, Waiting, Distinct
  <1>13. QED
    BY <1>2, <1>6, <1>9, <1>10, <1>11, <1>12, WorkersFrame DEF IInv

\* The end of a batch forgets its events.
LEMMA EndBatchFacts ==
    ASSUME IInv, EndBatch, UNCHANGED <<si, infofd, freed>>,
           \A c \in Clients : Accepted(c) => Accepted(c)',
           \A c \in reg' : c \notin freed
    PROVE  AccessTypes' /\ Batch' /\ Freed'
  <1>1. AccessTypes'
    BY DEF IInv, AccessTypes, EndBatch
  <1>2. Batch'
    BY DEF Batch, EndBatch, Dropping
  <1>3. \A c \in freed : Accepted(c)'
    BY DEF IInv, Freed, AccessTypes
  <1>4. Freed'
    BY <1>3 DEF Freed, EndBatch
  <1>5. QED
    BY <1>1, <1>2, <1>4

LEMMA ExhaustedInv == ASSUME IInv, CheckExhausted PROVE IInv'
  <1>1. /\ apc = "check" /\ EndBatch /\ UNCHANGED <<si, infofd, freed, que>>
        /\ UNCHANGED kvars /\ UNCHANGED wvars
    BY DEF CheckExhausted
  <1>2. UNCHANGED reg /\ \A c \in Clients : Accepted(c) => Accepted(c)'
    BY <1>1 DEF kvars, Accepted
  <1>3. \A c \in reg : c \notin freed
    BY <1>1 DEF IInv, Freed
  <1>4. QED
    BY <1>1, <1>2, <1>3, EndBatchFacts, KernelFrame, WorkersFrame DEF IInv

\* The events are typed.
LEMMA AtEvent ==
    ASSUME IInv, nxt <= Len(evs)
    PROVE  /\ nxt \in 1 .. Len(evs) /\ nxt \in Nat /\ Len(evs) \in Nat
           /\ evs[nxt].who \in Clients \cup {Listen} /\ evs[nxt].mask \in Masks
  <1>1. evs \in Seq(EventType) /\ nxt \in 1 .. (Len(evs) + 1)
    BY DEF IInv, AccessTypes
  <1>2. nxt \in 1 .. Len(evs) /\ nxt \in Nat /\ Len(evs) \in Nat
    BY <1>1
  <1>3. evs[nxt] \in EventType
    BY <1>1, <1>2
  <1>4. QED
    BY <1>2, <1>3 DEF EventType

\* The access thread goes on to the next event.
LEMMA NextEvent ==
    ASSUME IInv, nxt <= Len(evs), si' \in SockInfo, nxt' = nxt + 1, apc' = "check",
           UNCHANGED <<evs, infofd, freed>>,
           \A c \in Clients : Accepted(c) => Accepted(c)',
           \A c \in reg' : c \notin freed
    PROVE  AccessTypes' /\ Batch' /\ Freed'
  <1>1. AccessTypes'
    BY AtEvent DEF IInv, AccessTypes
  <1>2. \A i \in 1 .. Len(evs) : evs[i].who \in Clients \cup {Listen}
    <2>1. evs \in Seq(EventType)
      BY DEF IInv, AccessTypes
    <2>2. \A i \in 1 .. Len(evs) : evs[i] \in EventType
      BY <2>1
    <2>3. QED
      BY <2>2 DEF EventType
  <1>3. \A i \in 1 .. Len(evs) : evs[i].who # Listen => Accepted(evs[i].who)'
    BY <1>2 DEF IInv, Batch
  <1>4. Batch'
    <2>1. \A i \in 1 .. Len(evs) : (evs[i].who # Listen => Accepted(evs[i].who))'
      BY <1>3 DEF Accepted
    <2>2. ~Dropping'
      BY DEF Dropping
    <2>3. QED
      BY <2>1, <2>2 DEF IInv, Batch, Accepted
  <1>5. \A i \in (nxt + 1) .. Len(evs) : evs[i].who \notin freed
    BY AtEvent DEF IInv, Freed
  <1>6. \A c \in freed : Accepted(c)'
    BY DEF IInv, Freed, AccessTypes
  <1>7. Freed'
    BY <1>5, <1>6 DEF Freed
  <1>8. QED
    BY <1>1, <1>4, <1>7

\* accept, with or without memory for a sock_info_t.
LEMMA AcceptKeeps ==
    ASSUME IInv, NEW f \in {g \in Fds : fdt[g] = None}, backlog # <<>>,
           backlog' = Tail(backlog),
           fdt' = [fdt EXCEPT ![f] = Head(backlog)],
           conn' = [conn EXCEPT ![Head(backlog)].st = "open"],
           infofd' \in {infofd, [infofd EXCEPT ![Head(backlog)] = f]},
           UNCHANGED <<reg, rdy, got, up>>
    PROVE  /\ KernelTypes' /\ Table' /\ Unread' /\ Waiting' /\ ReadyList'
           /\ Head(backlog) \in Clients /\ conn[Head(backlog)].st = "backlog"
           /\ \A d \in Clients : Accepted(d) => d # Head(backlog) /\ Accepted(d)'
           /\ infofd' \in [Clients -> Fds \cup {None}]
           /\ infofd[Head(backlog)] = None
  <1> DEFINE c == Head(backlog)
  <1>1. /\ backlog \in Seq(Clients) /\ Len(backlog) \in Nat \ {0} /\ c = backlog[1]
        /\ Len(backlog) <= Backlog /\ conn \in [Clients -> ConnType]
        /\ fdt \in [Fds -> Clients \cup {None}] /\ infofd \in [Clients -> Fds \cup {None}]
        /\ reg \subseteq Clients
    BY DEF IInv, KernelTypes, AccessTypes
  <1>2. /\ c \in Clients /\ conn[c].st = "backlog" /\ f \in Fds /\ fdt[f] = None
        /\ None \notin Clients
    BY <1>1, NamesAssumption DEF IInv, Waiting
  <1>3. /\ backlog' \in Seq(Clients) /\ Len(backlog') = Len(backlog) - 1
        /\ \A i \in 1 .. Len(backlog') : backlog'[i] = backlog[i + 1]
    BY <1>1
  <1>4. infofd[c] = None
    BY <1>2 DEF IInv, Table
  <1> HIDE DEF c
  <1>5. /\ conn' \in [Clients -> ConnType] /\ conn'[c].st = "open"
        /\ conn'[c].unread = conn[c].unread /\ conn'[c].sent = conn[c].sent
        /\ \A d \in Clients : d # c => conn'[d] = conn[d]
    <2>1. ASSUME NEW n \in ConnType
          PROVE  LET m == [n EXCEPT !.st = "open"]
                 IN  m \in ConnType /\ m.st = "open" /\ m.unread = n.unread /\ m.sent = n.sent
      BY DEF ConnType
    <2>2. conn' = [conn EXCEPT ![c] = [conn[c] EXCEPT !.st = "open"]]
      BY DEF c
    <2>3. QED
      BY <1>1, <1>2, <2>1, <2>2
  <1>6. /\ fdt' \in [Fds -> Clients \cup {None}] /\ fdt'[f] = c
        /\ \A g \in Fds : g # f => fdt'[g] = fdt[g]
    BY <1>1, <1>2 DEF c
  <1>7. /\ infofd' \in [Clients -> Fds \cup {None}] /\ infofd'[c] \in {f, None}
        /\ \A d \in Clients : d # c => infofd'[d] = infofd[d]
    BY <1>1, <1>2, <1>4 DEF c
  <1>8. \A d \in Clients : Accepted(d) => d # c /\ Accepted(d)'
    BY <1>2, <1>5, <1>7 DEF Accepted
  <1>9. KernelTypes'
    <2>1. Len(backlog') <= Backlog
      BY <1>1, <1>3, BoundsAssumption
    <2>2. QED
      BY <1>3, <1>5, <1>6, <2>1 DEF IInv, KernelTypes
  <1>10. Table'
    <2>1. \A g \in Fds : g # f /\ fdt[g] # None => fdt[g] \in Clients /\ fdt[g] # c
      BY <1>1, <1>2 DEF IInv, Table
    <2>2. \A g \in Fds : fdt'[g] # None =>
             infofd'[fdt'[g]] \in {g, None} /\ conn'[fdt'[g]].st = "open"
      <3> SUFFICES ASSUME NEW g \in Fds, fdt'[g] # None
                   PROVE  infofd'[fdt'[g]] \in {g, None} /\ conn'[fdt'[g]].st = "open"
        OBVIOUS
      <3>1. CASE g = f
        BY <1>5, <1>6, <1>7, <3>1
      <3>2. CASE g # f
        BY <1>5, <1>6, <1>7, <2>1, <3>2 DEF IInv, Table
      <3>3. QED
        BY <3>1, <3>2
    <2>3. \A d \in reg : infofd[d] \in Fds /\ fdt[infofd[d]] = d /\ infofd[d] # f /\ d # c
      BY <1>1, <1>2 DEF IInv, Table
    <2>4. \A d \in reg' : infofd'[d] \in Fds /\ fdt'[infofd'[d]] = d
      BY <1>1, <1>6, <1>7, <2>3
    <2>5. \A g, h \in Fds : fdt'[g] # None /\ fdt'[g] = fdt'[h] => g = h
      BY <1>2, <1>6, <2>1 DEF IInv, Table
    <2>6. \A d \in Clients : conn'[d].st \in {"new", "backlog"} => infofd'[d] = None
      BY <1>5, <1>7 DEF IInv, Table
    <2>7. QED
      BY <2>2, <2>4, <2>5, <2>6 DEF Table
  <1>11. Unread'
    BY <1>5 DEF IInv, Unread
  <1>12. Waiting'
    <2>1. \A i \in 1 .. Len(backlog') : i + 1 \in 1 .. Len(backlog) /\ i + 1 # 1
      BY <1>1, <1>3
    <2>2. \A i \in 1 .. Len(backlog') : backlog[i + 1] # c /\ backlog[i + 1] \in Clients
                                        /\ conn[backlog[i + 1]].st = "backlog"
      BY <1>1, <2>1 DEF IInv, Waiting, Distinct, c
    <2>3. \A i \in 1 .. Len(backlog') : conn'[backlog'[i]].st = "backlog"
      <3> SUFFICES ASSUME NEW i \in 1 .. Len(backlog')
                   PROVE  conn'[backlog'[i]].st = "backlog"
        OBVIOUS
      <3>1. backlog'[i] = backlog[i + 1] /\ backlog[i + 1] # c /\ backlog[i + 1] \in Clients
            /\ conn[backlog[i + 1]].st = "backlog"
        BY <1>3, <2>2
      <3>2. QED
        BY <1>5, <3>1
    <2>4. \A i, j \in 1 .. Len(backlog') : backlog'[i] = backlog'[j] => i = j
      <3> SUFFICES ASSUME NEW i \in 1 .. Len(backlog'), NEW j \in 1 .. Len(backlog'),
                          backlog'[i] = backlog'[j]
                   PROVE  i = j
        OBVIOUS
      <3>1. i + 1 = j + 1
        BY <1>3, <2>1 DEF IInv, Waiting, Distinct
      <3>2. QED
        BY <3>1
    <2>5. QED
      BY <2>3, <2>4 DEF Waiting, Distinct
  <1>13. ReadyList'
    BY DEF IInv, ReadyList, Distinct
  <1>14. QED
    BY <1>2, <1>4, <1>7, <1>8, <1>9, <1>10, <1>11, <1>12, <1>13 DEF c

\* The listener's event: accept fails, finds memory, or finds none.
LEMMA ListenInv == ASSUME IInv, CheckListen PROVE IInv'
  <1>0. /\ apc = "check" /\ nxt <= Len(evs) /\ evs[nxt].who = Listen
        /\ UNCHANGED <<reg, rdy, got, up, freed>> /\ UNCHANGED wvars
    BY DEF CheckListen
  <1>1. \A c \in reg : c \notin freed
    BY <1>0 DEF IInv, Freed
  <1>2. CASE si # None /\ Deliver(si) /\ UNCHANGED <<backlog, conn, fdt, infofd>>
    <2>1. si \in SockInfo
      BY <1>2 DEF IInv, AccessTypes
    <2>2. /\ si' = si /\ nxt' = nxt + 1 /\ apc' = "check" /\ UNCHANGED evs
          /\ QueueTypes' /\ Held'
      BY <1>0, <1>2, <2>1, DeliverKeeps
    <2>3. \A c \in Clients : Accepted(c) => Accepted(c)'
      BY <1>2 DEF Accepted
    <2>4. AccessTypes' /\ Batch' /\ Freed'
      BY <1>0, <1>1, <1>2, <2>1, <2>2, <2>3, NextEvent
    <2>5. KernelTypes' /\ Table' /\ Unread' /\ Waiting' /\ ReadyList'
      BY <1>0, <1>2, KernelFrame DEF kvars
    <2>6. QED
      BY <1>0, <2>2, <2>4, <2>5, WorkersFrame DEF IInv
  <1>3. ASSUME NEW f \in {g \in Fds : fdt[g] = None}, backlog # <<>>,
               backlog' = Tail(backlog),
               fdt' = [fdt EXCEPT ![f] = Head(backlog)],
               conn' = [conn EXCEPT ![Head(backlog)].st = "open"],
               infofd' = [infofd EXCEPT ![Head(backlog)] = f],
               si' = [who |-> Head(backlog), fd |-> f, sock_status |-> "SST_INIT"],
               apc' = "add", UNCHANGED <<evs, nxt, que>>
        PROVE  IInv'
    <2> DEFINE c == Head(backlog)
    <2>1. /\ KernelTypes' /\ Table' /\ Unread' /\ Waiting' /\ ReadyList'
          /\ c \in Clients /\ conn[c].st = "backlog" /\ f \in Fds
          /\ \A d \in Clients : Accepted(d) => d # c /\ Accepted(d)'
          /\ infofd' \in [Clients -> Fds \cup {None}]
      BY <1>0, <1>3, AcceptKeeps
    <2>2. infofd \in [Clients -> Fds \cup {None}] /\ fdt \in [Fds -> Clients \cup {None}]
      BY DEF IInv, KernelTypes, AccessTypes
    <2> HIDE DEF c
    <2>3. fdt'[f] = c /\ infofd'[c] = f
      BY <1>3, <2>1, <2>2 DEF c
    <2>4. si' \in SockInfo /\ si'.who = c /\ si'.fd = f
      BY <1>3, <2>1 DEF SockInfo, SST, c
    <2>5. AccessTypes'
      BY <1>0, <1>3, <2>1, <2>4 DEF IInv, AccessTypes
    <2>6. \A i \in 1 .. Len(evs) : evs[i].who \in Clients \cup {Listen}
      <3>1. evs \in Seq(EventType)
        BY DEF IInv, AccessTypes
      <3>2. \A i \in 1 .. Len(evs) : evs[i] \in EventType
        BY <3>1
      <3>3. QED
        BY <3>2 DEF EventType
    <2>7. c \notin freed
      BY <2>1 DEF IInv, Freed
    <2>8. Batch'
      <3>1. \A i \in 1 .. Len(evs) : evs[i].who # Listen => Accepted(evs[i].who)'
        <4>1. \A i \in 1 .. Len(evs) : evs[i].who # Listen => Accepted(evs[i].who)
          BY DEF IInv, Batch
        <4>2. QED
          BY <1>3, <2>1, <2>6, <4>1
      <3>2. \A i \in 1 .. Len(evs') : (evs[i].who # Listen => Accepted(evs[i].who))'
        BY <1>3, <3>1 DEF Accepted
      <3>3. ~Dropping'
        BY <1>3 DEF Dropping
      <3>4. QED
        BY <1>0, <1>3, <2>3, <2>4, <2>7, <3>2, <3>3 DEF IInv, Batch, Accepted
    <2>9. Freed'
      <3>1. \A d \in freed : Accepted(d)'
        BY <2>1 DEF IInv, Freed, AccessTypes
      <3>2. \A i \in nxt .. Len(evs) : evs[i].who \notin freed
        BY <1>0 DEF IInv, Freed, Dropping
      <3>3. QED
        BY <1>0, <1>1, <1>3, <3>1, <3>2 DEF Freed
    <2>10. QED
      BY <1>0, <1>3, <2>1, <2>5, <2>8, <2>9, WorkersFrame DEF IInv
  <1>4. ASSUME NEW f \in {g \in Fds : fdt[g] = None}, backlog # <<>>,
               backlog' = Tail(backlog),
               fdt' = [fdt EXCEPT ![f] = Head(backlog)],
               conn' = [conn EXCEPT ![Head(backlog)].st = "open"],
               EndBatch, UNCHANGED <<infofd, si, que>>
        PROVE  IInv'
    <2>1. /\ KernelTypes' /\ Table' /\ Unread' /\ Waiting' /\ ReadyList'
          /\ \A d \in Clients : Accepted(d) => Accepted(d)'
          /\ infofd' \in [Clients -> Fds \cup {None}]
      BY <1>0, <1>4, AcceptKeeps
    <2>2. AccessTypes' /\ Batch' /\ Freed'
      BY <1>0, <1>1, <1>4, <2>1, EndBatchFacts
    <2>3. QED
      BY <1>0, <1>4, <2>1, <2>2, WorkersFrame DEF IInv
  <1>5. QED
    BY <1>2, <1>3, <1>4 DEF CheckListen

\* EPOLL_CTL_ADD.
LEMMA AddInv == ASSUME IInv, CheckAdd PROVE IInv'
  <1>0. /\ apc = "add" /\ UNCHANGED <<backlog, conn, fdt, got, up, infofd, freed>>
        /\ UNCHANGED wvars
    BY DEF CheckAdd
  <1>1. \A c \in reg : c \notin freed
    BY <1>0 DEF IInv, Freed
  <1>2. /\ si \in SockInfo /\ si.fd \in Fds /\ nxt <= Len(evs) /\ si.who \notin freed
        /\ fdt[si.fd] \in {None, si.who}
    BY <1>0 DEF IInv, Batch, SockInfo
  <1>3. CASE fdt[si.fd] = None
    <2>1. EndBatch /\ UNCHANGED <<reg, rdy, si, que>>
      BY <1>3 DEF CheckAdd
    <2>2. KernelTypes' /\ Table' /\ Unread' /\ Waiting' /\ ReadyList'
      BY <1>0, <2>1, KernelFrame DEF kvars
    <2>3. QED
      BY <1>0, <1>1, <2>1, <2>2, EndBatchFacts, WorkersFrame DEF IInv, Accepted
  <1>4. CASE fdt[si.fd] # None
    <2> DEFINE d == fdt[si.fd]
    <2>1. d \in Clients /\ d \notin freed /\ infofd[d] = si.fd
      BY <1>0, <1>2, <1>4 DEF IInv, Batch, KernelTypes
    <2>2. /\ reg' = reg \cup {d} /\ Deliver(si)
          /\ rdy' = IF PollMask(d) # {} THEN Wake(rdy, d) ELSE rdy
      BY <1>4 DEF CheckAdd
    <2>3. Table'
      BY <1>0, <1>2, <2>1, <2>2 DEF IInv, Table
    <2>4. ReadyList' /\ rdy' \in Seq(Clients \cup {Listen})
      <3>1. CASE PollMask(d) # {}
        BY <2>1, <2>2, <3>1, WakeReady
      <3>2. CASE PollMask(d) = {}
        BY <2>2, <3>2 DEF IInv, ReadyList, Distinct, KernelTypes
      <3>3. QED
        BY <3>1, <3>2
    <2>5. KernelTypes'
      BY <1>0, <2>1, <2>2, <2>4 DEF IInv, KernelTypes
    <2>6. Unread' /\ Waiting'
      BY <1>0 DEF IInv, Unread, Waiting, Distinct
    <2>7. /\ si' = si /\ nxt' = nxt + 1 /\ apc' = "check" /\ UNCHANGED evs
          /\ QueueTypes' /\ Held'
      BY <1>0, <1>2, <2>2, DeliverKeeps
    <2>8. \A c \in Clients : Accepted(c) => Accepted(c)'
      BY <1>0 DEF Accepted
    <2>9. \A c \in reg' : c \notin freed
      BY <1>1, <2>1, <2>2
    <2>10. AccessTypes' /\ Batch' /\ Freed'
      BY <1>0, <1>2, <2>7, <2>8, <2>9, NextEvent
    <2>11. QED
      BY <1>0, <2>3, <2>4, <2>5, <2>6, <2>7, <2>10, WorkersFrame DEF IInv
  <1>5. QED
    BY <1>3, <1>4

\* The end of a client's event.
LEMMA LastTestsInv ==
    ASSUME IInv, NEW s \in SockInfo, NEW mask, LastTests(s, mask), nxt <= Len(evs),
           UNCHANGED <<infofd, freed>>, UNCHANGED wvars,
           \A c \in Clients : Accepted(c) => Accepted(c)',
           \A c \in reg' : c \notin freed
    PROVE  AccessTypes' /\ Batch' /\ Freed' /\ QueueTypes' /\ Held'
  <1> DEFINE t == [s EXCEPT !.sock_status =
                     IF "EPOLLOUT" \in mask THEN "SST_DATA_OUT"
                     ELSE IF "EPOLLIN" \in mask THEN "SST_DATA_IN" ELSE @]
  <1>1. t \in SockInfo
    BY DEF SockInfo, SST
  <1>2. Deliver(t)
    BY DEF LastTests
  <1> HIDE DEF t
  <1>3. /\ si' = t /\ nxt' = nxt + 1 /\ apc' = "check" /\ UNCHANGED evs
        /\ QueueTypes' /\ Held'
    BY <1>1, <1>2, DeliverKeeps
  <1>4. AccessTypes' /\ Batch' /\ Freed'
    BY <1>1, <1>3, NextEvent
  <1>5. QED
    BY <1>3, <1>4

\* An event of a client, up to the free.
LEMMA ClientInv == ASSUME IInv, CheckClient PROVE IInv'
  <1> DEFINE c == evs[nxt].who
             mask == evs[nxt].mask
             s == [who |-> c, fd |-> infofd[c], sock_status |-> "SST_UNKNOWN"]
  <1>0. /\ apc = "check" /\ nxt <= Len(evs) /\ c # Listen
        /\ UNCHANGED infofd /\ UNCHANGED kvars /\ UNCHANGED wvars
    BY DEF CheckClient
  <1>1. UNCHANGED <<backlog, conn, fdt, reg, rdy, got, up>>
    BY <1>0 DEF kvars
  <1>2. c \in Clients /\ Accepted(c) /\ nxt \in 1 .. Len(evs) /\ nxt \in Nat /\ Len(evs) \in Nat
    BY <1>0, AtEvent DEF IInv, Batch
  <1>3. s \in SockInfo /\ s.who = c /\ s.fd = infofd[c]
    BY <1>2 DEF SockInfo, SST, Accepted
  <1>4. \A d \in reg : d \notin freed
    BY <1>0 DEF IInv, Freed
  <1>5. \A d \in Clients : Accepted(d) => Accepted(d)'
    BY <1>0, <1>1 DEF Accepted
  <1>6. KernelTypes' /\ Table' /\ Unread' /\ Waiting' /\ ReadyList'
    BY <1>0, KernelFrame
  <1>7. CASE LastTests(s, mask) /\ UNCHANGED freed
    <2> HIDE DEF s, mask
    <2>1. AccessTypes' /\ Batch' /\ Freed' /\ QueueTypes' /\ Held'
      BY <1>0, <1>1, <1>3, <1>4, <1>5, <1>7, LastTestsInv
    <2>2. QED
      BY <1>0, <1>6, <2>1, WorkersFrame DEF IInv
  <1>8. ASSUME NEW st \in {"SST_DISC", "SST_ERR"}, NEW pc \in {"hup_del", "err_del"},
               freed' = freed \cup {c}, si' = [s EXCEPT !.sock_status = st],
               apc' = pc, UNCHANGED <<evs, nxt, que>>
        PROVE  IInv'
    <2>1. si' \in SockInfo /\ si'.who = c /\ si'.fd = infofd[c]
      BY <1>3, <1>8 DEF SockInfo, SST
    <2> HIDE DEF s
    <2>2. AccessTypes'
      BY <1>0, <1>2, <1>8, <2>1 DEF IInv, AccessTypes
    <2>3. Dropping' /\ apc' \notin {"detect", "check", "add"}
      BY <1>8 DEF Dropping
    <2>4. Batch'
      <3>1. \A i \in 1 .. Len(evs) : (evs[i].who # Listen => Accepted(evs[i].who))'
        BY <1>0, <1>1, <1>8 DEF IInv, Batch, Accepted
      <3>2. Accepted(si.who)'
        BY <1>0, <1>1, <1>2, <2>1 DEF Accepted
      <3>3. QED
        BY <1>0, <1>8, <2>1, <2>3, <3>1, <3>2 DEF IInv, Batch, Accepted
    <2>5. \A d \in freed' : Accepted(d)'
      <3>1. \A d \in freed' : d \in Clients /\ Accepted(d)
        BY <1>2, <1>8 DEF IInv, Freed, AccessTypes
      <3>2. QED
        BY <1>5, <3>1
    <2>6. \A d \in reg' \cap freed' : apc' \in {"hup_del", "err_del"} /\ d = si'.who
      BY <1>1, <1>4, <1>8, <2>1
    <2>7. \A i \in nxt .. Len(evs) : evs[i].who \in freed' => i = nxt
      <3>1. \A i \in nxt .. Len(evs) : evs[i].who \notin freed
        BY <1>0 DEF IInv, Freed, Dropping
      <3>2. \A i \in nxt .. Len(evs) : i \in 1 .. Len(evs)
        BY <1>2
      <3>3. QED
        BY <1>2, <1>8, <3>1, <3>2 DEF IInv, Batch
    <2>8. Freed'
      BY <1>8, <2>3, <2>5, <2>6, <2>7 DEF Freed
    <2>9. QED
      BY <1>0, <1>6, <1>8, <2>2, <2>4, <2>8, WorkersFrame DEF IInv
  <1>9. QED
    <2>1. CASE mask \cap {"EPOLLHUP", "EPOLLERR"} = {}
      BY <1>7, <2>1 DEF CheckClient
    <2>2. CASE /\ mask \cap {"EPOLLHUP", "EPOLLERR"} # {}
               /\ "EPOLLHUP" \in mask
      <3>1. /\ freed' = freed \cup {c} /\ si' = [s EXCEPT !.sock_status = "SST_DISC"]
            /\ apc' = "hup_del" /\ UNCHANGED <<evs, nxt, que>>
        BY <2>2 DEF CheckClient
      <3>2. QED
        BY <1>8, <3>1
    <2>3. CASE /\ mask \cap {"EPOLLHUP", "EPOLLERR"} # {}
               /\ "EPOLLHUP" \notin mask
      <3>1. /\ freed' = freed \cup {c} /\ si' = [s EXCEPT !.sock_status = "SST_ERR"]
            /\ apc' = "err_del" /\ UNCHANGED <<evs, nxt, que>>
        BY <2>3 DEF CheckClient
      <3>2. QED
        BY <1>8, <3>1
    <2>4. QED
      BY <2>1, <2>2, <2>3

\* EPOLL_CTL_DEL: what was freed is registered no more, whether the call
\* succeeds or not.
LEMMA DelInv == ASSUME IInv, CheckDel PROVE IInv'
  <1>0. /\ apc \in {"hup_del", "err_del"}
        /\ UNCHANGED <<backlog, conn, fdt, got, up, si, infofd, freed, que>> /\ UNCHANGED wvars
    BY DEF CheckDel
  <1>1. /\ si \in SockInfo /\ nxt <= Len(evs) /\ si.fd = infofd[si.who] /\ si.fd \in Fds
        /\ Accepted(si.who)
    BY <1>0 DEF IInv, Batch, Dropping, SockInfo
  <1>2. si.who \in reg => Registered(si.fd) /\ fdt[si.fd] = si.who
    <2>1. si.who \in reg => fdt[si.fd] = si.who /\ si.who # None
      BY <1>1, NamesAssumption DEF IInv, Table, KernelTypes
    <2>2. QED
      BY <2>1 DEF Registered
  <1>3. \A c \in reg \cap freed : c = si.who
    BY DEF IInv, Freed
  <1>4. Unread' /\ Waiting'
    BY <1>0 DEF IInv, Unread, Waiting, Distinct
  <1>5. CASE Registered(si.fd)
    <2> DEFINE d == fdt[si.fd]
    <2>1. /\ reg' = reg \ {d} /\ rdy' = Asleep(rdy, d)
          /\ apc' \in {"hup_close", "err_close"} /\ UNCHANGED <<evs, nxt>>
      BY <1>5 DEF CheckDel
    <2> HIDE DEF d
    <2>2. rdy \in Seq(Clients \cup {Listen}) /\ Distinct(rdy)
      BY DEF IInv, KernelTypes, ReadyList
    <2>3. /\ rdy' \in Seq(Clients \cup {Listen}) /\ Distinct(rdy')
          /\ \A i \in 1 .. Len(rdy') :
                rdy'[i] # d /\ \E j \in 1 .. Len(rdy) : rdy'[i] = rdy[j]
      BY <2>1, <2>2, AsleepFacts
    <2>4. KernelTypes'
      BY <1>0, <2>1, <2>3 DEF IInv, KernelTypes
    <2>5. Table'
      BY <1>0, <2>1 DEF IInv, Table
    <2>6. ReadyList'
      <3>1. \A i \in 1 .. Len(rdy') : rdy'[i] \in reg' \cup {Listen}
        BY <2>1, <2>3 DEF IInv, ReadyList
      <3>2. Distinct(rdy)'
        BY <2>3 DEF Distinct
      <3>3. QED
        BY <3>1, <3>2 DEF ReadyList
    <2>7. AccessTypes'
      BY <1>0, <2>1 DEF IInv, AccessTypes
    <2>8. Dropping /\ Dropping' /\ apc' \notin {"detect", "check", "add"}
      BY <1>0, <2>1 DEF Dropping
    <2>9. Batch'
      BY <1>0, <1>1, <2>1, <2>8 DEF IInv, Batch, Accepted
    <2>10. \A c \in reg' : c \notin freed
      BY <1>2, <1>3, <2>1 DEF d
    <2>11. Freed'
      <3>1. \A c \in freed : Accepted(c)'
        BY <1>0 DEF IInv, Freed, Accepted
      <3>2. QED
        BY <1>0, <2>1, <2>8, <2>10, <3>1 DEF IInv, Freed
    <2>12. QED
      BY <1>0, <1>4, <2>4, <2>5, <2>6, <2>7, <2>9, <2>11, WorkersFrame DEF IInv
  <1>6. CASE ~Registered(si.fd)
    <2>1. EndBatch /\ UNCHANGED <<reg, rdy>>
      BY <1>6 DEF CheckDel
    <2>2. \A c \in reg' : c \notin freed
      BY <1>2, <1>3, <1>6, <2>1
    <2>3. KernelTypes' /\ Table' /\ ReadyList'
      BY <1>0, <2>1, KernelFrame DEF kvars
    <2>4. QED
      BY <1>0, <1>4, <2>1, <2>2, <2>3, EndBatchFacts, WorkersFrame DEF IInv, Accepted
  <1>7. QED
    BY <1>5, <1>6

\* close(ev_fd).
LEMMA CheckCloseInv == ASSUME IInv, CheckClose PROVE IInv'
  <1>0. /\ apc \in {"hup_close", "err_close"} /\ Close(si.fd)
        /\ UNCHANGED <<backlog, got, up, infofd, freed>> /\ UNCHANGED wvars
    BY DEF CheckClose
  <1>1. /\ si \in SockInfo /\ nxt <= Len(evs) /\ si.fd = infofd[si.who] /\ si.fd \in Fds
        /\ Accepted(si.who) /\ si.who \in Clients
    BY <1>0 DEF IInv, Batch, Dropping, SockInfo
  <1>2. /\ KernelTypes' /\ Table' /\ Unread' /\ Waiting' /\ ReadyList'
        /\ reg' \subseteq reg
        /\ \A c \in Clients : Accepted(c) => Accepted(c)'
        /\ \A f \in Fds : fdt'[f] \in {None, fdt[f]}
    BY <1>0, <1>1, CloseKeeps
  <1>3. \A c \in reg' : c \notin freed
    BY <1>0, <1>2 DEF IInv, Freed
  <1>4. CASE LastTests(si, evs[nxt].mask)
    <2>1. AccessTypes' /\ Batch' /\ Freed' /\ QueueTypes' /\ Held'
      BY <1>0, <1>1, <1>2, <1>3, <1>4, LastTestsInv
    <2>2. QED
      BY <1>0, <1>2, <2>1, WorkersFrame DEF IInv
  <1>5. CASE /\ si' = [si EXCEPT !.sock_status = "SST_ERR"]
             /\ apc' = "err_del" /\ UNCHANGED <<evs, nxt, que>>
    <2>1. si' \in SockInfo /\ si'.who = si.who /\ si'.fd = si.fd
      BY <1>1, <1>5 DEF SockInfo, SST
    <2>2. AccessTypes'
      BY <1>0, <1>5, <2>1 DEF IInv, AccessTypes
    <2>3. Dropping /\ Dropping' /\ apc' \notin {"detect", "check", "add"}
      BY <1>0, <1>5 DEF Dropping
    <2>4. \A i \in 1 .. Len(evs) : evs[i].who \in Clients \cup {Listen}
      <3>1. evs \in Seq(EventType)
        BY DEF IInv, AccessTypes
      <3>2. \A i \in 1 .. Len(evs) : evs[i] \in EventType
        BY <3>1
      <3>3. QED
        BY <3>2 DEF EventType
    <2>5. \A i \in 1 .. Len(evs) : (evs[i].who # Listen => Accepted(evs[i].who))'
      <3>1. \A i \in 1 .. Len(evs) : evs[i].who # Listen => Accepted(evs[i].who)
        BY DEF IInv, Batch
      <3>2. QED
        BY <1>2, <1>5, <2>4, <3>1
    <2>6. Accepted(si.who)'
      BY <1>1, <1>2, <2>1 DEF Accepted
    <2>7. Batch'
      BY <1>0, <1>1, <1>5, <2>1, <2>3, <2>5, <2>6 DEF IInv, Batch
    <2>8. Freed'
      <3>1. \A c \in freed : Accepted(c)'
        BY <1>2 DEF IInv, Freed, AccessTypes
      <3>2. QED
        BY <1>0, <1>3, <1>5, <2>3, <3>1 DEF IInv, Freed
    <2>9. QED
      BY <1>0, <1>2, <1>5, <2>2, <2>7, <2>8, WorkersFrame DEF IInv
  <1>6. QED
    BY <1>4, <1>5 DEF CheckClose

-----------------------------------------------------------------------------
(* The workers.                                                            *)

\* A worker's step that leaves the queues and the access thread alone.
LEMMA WorkFrame ==
    ASSUME IInv, SameStates, UNCHANGED <<backlog, fdt, reg, rdy, que>>, UNCHANGED avars,
           got' \in [Clients -> Seq(Clients \cup {Resp})], up' \in BOOLEAN,
           WorkerTypes', Held'
    PROVE  IInv'
  <1>0. UNCHANGED <<apc, evs, nxt, si, infofd, freed>>
    BY DEF avars
  <1>1. /\ Table' /\ Unread' /\ Waiting'
        /\ \A c \in Clients : Accepted(c) => Accepted(c)'
        /\ \A f \in Fds : fdt'[f] \in {None, fdt[f]}
    BY <1>0, ConnFrame
  <1>2. AccessTypes' /\ Batch' /\ Freed'
    BY <1>0, <1>1, AccessFrame
  <1>3. KernelTypes' /\ ReadyList' /\ QueueTypes'
    BY DEF IInv, KernelTypes, ReadyList, Distinct, QueueTypes, SameStates
  <1>4. QED
    BY <1>1, <1>2, <1>3 DEF IInv

\* The connections as they are.
LEMMA SameConn ==
    ASSUME IInv, UNCHANGED conn
    PROVE  SameStates
  BY DEF IInv, KernelTypes, Unread, SameStates

\* The block a worker works on is there.
LEMMA HeadBlock ==
    ASSUME IInv, NEW w \in Workers, wpc[w] \notin {"poll", "exit"}
    PROVE  /\ que[w] \in Seq(SockInfo) /\ que[w] # <<>>
           /\ Head(que[w]).fd \in Fds
           /\ fdt[Head(que[w]).fd] # None => fdt[Head(que[w]).fd] \in Clients
  <1>1. que[w] \in Seq(SockInfo) /\ que[w] # <<>>
    BY DEF IInv, QueueTypes, Held
  <1>2. Head(que[w]) \in SockInfo
    BY <1>1
  <1>3. Head(que[w]).fd \in Fds
    BY <1>2 DEF SockInfo
  <1>4. QED
    BY <1>1, <1>3 DEF IInv, KernelTypes

\* The worker takes its next block.
LEMMA HeadInv == ASSUME IInv, NEW w \in Workers, WorkHead(w) PROVE IInv'
  <1>0. /\ que[w] # <<>>
        /\ UNCHANGED <<que, wrbuf, wait_times, proc_stat>>
        /\ UNCHANGED kvars /\ UNCHANGED avars
        /\ \/ /\ wpc' = [wpc EXCEPT ![w] = "recv"]
              /\ rdbuf' = [rdbuf EXCEPT ![w] = <<>>]
              /\ recv_stat' = [recv_stat EXCEPT ![w] = {}]
           \/ /\ wpc' = [wpc EXCEPT ![w] = "switch"]
              /\ UNCHANGED <<rdbuf, recv_stat>>
    BY DEF WorkHead
  <1>1. UNCHANGED <<backlog, conn, fdt, reg, rdy, got, up>>
    BY <1>0 DEF kvars
  <1>2. WorkerTypes'
    <2>1. CASE UNCHANGED <<rdbuf, recv_stat>>
      BY <1>0, <2>1 DEF IInv, WorkerTypes
    <2>2. CASE /\ rdbuf' = [rdbuf EXCEPT ![w] = <<>>]
               /\ recv_stat' = [recv_stat EXCEPT ![w] = {}]
      <3>1. /\ rdbuf' \in [Workers -> Seq(Clients)]
            /\ \A v \in Workers : Len(rdbuf'[v]) <= BufSize
        BY <2>2, BoundsAssumption DEF IInv, WorkerTypes
      <3>2. QED
        BY <1>0, <2>2, <3>1 DEF IInv, WorkerTypes
    <2>3. QED
      BY <1>0, <2>1, <2>2
  <1>3. Held'
    BY <1>0 DEF IInv, Held, WorkerTypes
  <1>4. SameStates
    BY <1>1, SameConn
  <1>5. QED
    BY <1>0, <1>1, <1>2, <1>3, <1>4, WorkFrame DEF IInv, KernelTypes

\* One recvfrom.
LEMMA RecvInv == ASSUME IInv, NEW w \in Workers, WorkRecv(w) PROVE IInv'
  <1> DEFINE c == fdt[Head(que[w]).fd]
             room == BufSize - Len(rdbuf[w])
             n == IF conn[c].unread < room THEN conn[c].unread ELSE room
             RS == SUBSET {"RECV_OK", "RECV_MEM_LACK", "RECV_DISC", "RECV_TIMEOUT", "RECV_ERR"}
  <1>0. /\ wpc[w] = "recv"
        /\ UNCHANGED <<backlog, fdt, reg, rdy, got, up, que, wrbuf, proc_stat>>
        /\ UNCHANGED avars
    BY DEF WorkRecv
  <1>a. c # None => c \in Clients
    BY <1>0, HeadBlock
  <1>b. /\ conn \in [Clients -> ConnType] /\ recv_stat \in [Workers -> RS]
        /\ rdbuf \in [Workers -> Seq(Clients)] /\ wait_times \in [Workers -> 0 .. 2]
        /\ Len(rdbuf[w]) <= BufSize /\ Len(rdbuf[w]) \in Nat
        /\ wpc \in [Workers -> {"poll", "recv", "proc", "close", "switch", "pop", "exit"}]
    BY DEF IInv, KernelTypes, WorkerTypes
  <1>e. ASSUME NEW bits \in RS, RecvEnds(w, bits)
        PROVE  WorkerTypes' /\ Held'
    <2>1. /\ recv_stat' = [recv_stat EXCEPT ![w] = bits]
          /\ wpc' = [wpc EXCEPT ![w] = "proc"]
          /\ wait_times' = [wait_times EXCEPT ![w] = 0]
          /\ UNCHANGED rdbuf
      BY <1>e DEF RecvEnds
    <2>2. WorkerTypes'
      BY <1>0, <2>1 DEF IInv, WorkerTypes
    <2>3. Held'
      BY <1>0, <2>1 DEF IInv, Held, WorkerTypes
    <2>4. QED
      BY <2>2, <2>3
  <1>f. ASSUME SameStates, WorkerTypes', Held'
        PROVE  IInv'
    BY <1>0, <1>f, WorkFrame DEF IInv, KernelTypes
  <1>1. CASE c = None
    <2>1. RecvEnds(w, (recv_stat[w] \cap {"RECV_ERR"}) \ {"RECV_OK"}) /\ UNCHANGED conn
      BY <1>1 DEF WorkRecv
    <2>2. QED
      BY <1>b, <1>e, <1>f, <2>1, SameConn
  <1>2. CASE c # None /\ conn[c].unread > 0
    <2>0. ~(c = None) /\ ~(conn[c].unread = 0)
      BY <1>2
    <2>1. /\ rdbuf' = [rdbuf EXCEPT ![w] = @ \o [i \in 1 .. n |-> c]]
          /\ conn' = [conn EXCEPT ![c].unread = @ - n]
          /\ recv_stat' = [recv_stat EXCEPT ![w] = @ \cup
                 (IF n = room THEN {"RECV_OK", "RECV_MEM_LACK"} ELSE {"RECV_OK"})]
          /\ wpc' = [wpc EXCEPT ![w] = IF n = room THEN "proc" ELSE "recv"]
          /\ wait_times' = [wait_times EXCEPT ![w] = IF n = room THEN 0 ELSE @]
      BY <2>0, Zenon DEF WorkRecv
    <2>2. /\ conn[c].unread \in Nat /\ conn[c].sent \in Nat
          /\ conn[c] \in ConnType /\ conn[c].unread <= conn[c].sent /\ c \in Clients
      BY <1>2, <1>a, <1>b DEF ConnType, IInv, Unread
    <2>3. /\ n \in Nat /\ n <= room /\ conn[c].unread - n \in Nat
          /\ conn[c].unread - n <= conn[c].sent /\ room \in Nat
      <3>1. room \in Nat
        BY <1>b, BoundsAssumption
      <3>2. \A x, r \in Nat : LET m == IF x < r THEN x ELSE r
                             IN  m \in Nat /\ m <= r /\ m <= x
        OBVIOUS
      <3>3. conn[c].unread \in Nat
        BY <2>2, BoundsAssumption
      <3>4. n \in Nat /\ n <= room /\ n <= conn[c].unread
        BY <3>1, <3>2, <3>3, Zenon
      <3> HIDE DEF n, room, c
      <3>5. QED
        BY <2>2, <3>1, <3>4, BoundsAssumption
    <2> HIDE DEF n, c
    <2>4. SameStates
      <3>1. ASSUME NEW r \in ConnType, NEW k \in Nat
            PROVE  LET m == [r EXCEPT !.unread = k]
                   IN  m \in ConnType /\ m.st = r.st /\ m.unread = k /\ m.sent = r.sent
        BY DEF ConnType
      <3>2. conn' = [conn EXCEPT ![c] = [conn[c] EXCEPT !.unread = conn[c].unread - n]]
        BY <2>1
      <3> DEFINE m == [conn[c] EXCEPT !.unread = conn[c].unread - n]
      <3>3. m \in ConnType /\ m.st = conn[c].st /\ m.unread <= m.sent
        BY <2>2, <2>3, <3>1
      <3> HIDE DEF m
      <3>4. conn' = [conn EXCEPT ![c] = m]
        BY <3>2 DEF m
      <3>5. QED
        BY <1>b, <2>2, <3>3, <3>4 DEF SameStates, IInv, Unread
    <2>5. /\ rdbuf' \in [Workers -> Seq(Clients)]
          /\ \A v \in Workers : Len(rdbuf'[v]) <= BufSize
      <3> DEFINE t == [i \in 1 .. n |-> c]
      <3>1. t \in Seq(Clients) /\ Len(t) = n
        BY <2>2, <2>3
      <3> HIDE DEF t
      <3>2. /\ rdbuf[w] \o t \in Seq(Clients)
            /\ Len(rdbuf[w] \o t) = Len(rdbuf[w]) + n
        <4>1. \A u, v \in Seq(Clients) :
                 u \o v \in Seq(Clients) /\ Len(u \o v) = Len(u) + Len(v)
          OBVIOUS
        <4>2. QED
          BY <1>b, <3>1, <4>1
      <3>3. Len(rdbuf[w]) + n <= BufSize
        BY <1>b, <2>3, BoundsAssumption
      <3>4. rdbuf' = [rdbuf EXCEPT ![w] = rdbuf[w] \o t]
        BY <2>1 DEF t
      <3>5. QED
        BY <1>b, <3>2, <3>3, <3>4 DEF IInv, WorkerTypes
    <2>6. recv_stat' \in [Workers -> RS] /\ wait_times' \in [Workers -> 0 .. 2]
      BY <1>b, <2>1
    <2>7. /\ wpc' \in [Workers -> {"poll", "recv", "proc", "close", "switch", "pop", "exit"}]
          /\ \A v \in Workers : v # w => wpc'[v] = wpc[v]
      BY <1>b, <2>1
    <2>8. WorkerTypes'
      BY <1>0, <2>5, <2>6, <2>7 DEF IInv, WorkerTypes
    <2>9. Held'
      BY <1>0, <2>7 DEF IInv, Held
    <2>10. QED
      BY <1>f, <2>4, <2>8, <2>9
  <1>3. CASE c # None /\ conn[c].unread = 0 /\ conn[c].err
    <2>0. ~(c = None) /\ ~(conn[c].unread > 0) /\ conn[c].err
      BY <1>3
    <2>1. /\ RecvEnds(w, (recv_stat[w] \cap {"RECV_ERR"}) \ {"RECV_OK"})
          /\ conn' = [conn EXCEPT ![c] = [conn[c] EXCEPT !.err = FALSE]]
      <3>1. /\ RecvEnds(w, (recv_stat[w] \cap {"RECV_ERR"}) \ {"RECV_OK"})
            /\ conn' = [conn EXCEPT ![c].err = FALSE]
        BY <2>0, Zenon DEF WorkRecv
      <3>2. QED
        BY <3>1
    <2>2. ASSUME NEW r \in ConnType
          PROVE  LET m == [r EXCEPT !.err = FALSE]
                 IN  m \in ConnType /\ m.st = r.st /\ m.unread = r.unread /\ m.sent = r.sent
      BY DEF ConnType
    <2> HIDE DEF c
    <2>3. SameStates
      BY <1>3, <1>a, <1>b, <2>1, <2>2 DEF SameStates, IInv, Unread
    <2>4. QED
      BY <1>b, <1>e, <1>f, <2>1, <2>3
  <1>4. CASE c # None /\ conn[c].unread = 0 /\ ~conn[c].err /\ conn[c].peer # "up"
    <2>0. ~(c = None) /\ ~(conn[c].unread > 0) /\ ~conn[c].err /\ ~(conn[c].peer = "up")
      BY <1>4
    <2>1. RecvEnds(w, recv_stat[w] \cup {"RECV_DISC"}) /\ UNCHANGED conn
      BY <2>0, Zenon DEF WorkRecv
    <2>2. QED
      BY <1>b, <1>e, <1>f, <2>1, SameConn
  <1>5. CASE c # None /\ conn[c].unread = 0 /\ ~conn[c].err /\ conn[c].peer = "up"
    <2>1. /\ IF wait_times[w] + 1 >= 3
               THEN RecvEnds(w, recv_stat[w] \cup {"RECV_TIMEOUT"})
               ELSE /\ wait_times' = [wait_times EXCEPT ![w] = @ + 1]
                    /\ UNCHANGED <<recv_stat, wpc, rdbuf>>
          /\ UNCHANGED conn
      <3>1. ~(c = None) /\ ~(conn[c].unread > 0) /\ ~conn[c].err /\ ~(conn[c].peer # "up")
        BY <1>5
      <3>2. QED
        BY <3>1, Zenon DEF WorkRecv
    <2>2. CASE wait_times[w] + 1 >= 3
      BY <1>b, <1>e, <1>f, <2>1, <2>2, SameConn
    <2>3. CASE ~(wait_times[w] + 1 >= 3)
      <3>1. WorkerTypes'
        <4>1. wait_times' \in [Workers -> 0 .. 2]
          <5>1. wait_times[w] + 1 \in 0 .. 2
            <6>1. wait_times[w] \in 0 .. 2
              BY <1>b
            <6>2. QED
              BY <2>3, <6>1
          <5>2. QED
            BY <1>b, <2>1, <2>3, <5>1
        <4>2. QED
          BY <1>0, <2>1, <2>3, <4>1 DEF IInv, WorkerTypes
      <3>2. Held'
        BY <1>0, <2>1, <2>3 DEF IInv, Held
      <3>3. QED
        BY <1>f, <2>1, <3>1, <3>2, SameConn
    <2>4. QED
      BY <2>2, <2>3
  <1>6. c = None \/ conn[c].unread \in Nat
    BY <1>a, <1>b DEF ConnType
  <1>7. QED
    BY <1>1, <1>2, <1>3, <1>4, <1>5, <1>6

\* The reply fits its buffer.
LEMMA ReplyFacts ==
    ASSUME NEW s \in Seq(Clients)
    PROVE  Reply(s) \in Seq(Clients \cup {Resp}) /\ Len(Reply(s)) <= BufSize
  <1> DEFINE r == Append(s, Resp)
             k == IF Len(r) <= BufSize THEN Len(r) ELSE BufSize
  <1>1. r \in Seq(Clients \cup {Resp}) /\ Len(r) \in Nat
    OBVIOUS
  <1>2. Reply(s) = SubSeq(r, 1, k)
    BY DEF Reply
  <1> HIDE DEF r
  <1>3. k \in Nat /\ k <= Len(r) /\ k <= BufSize
    BY <1>1, BoundsAssumption
  <1> HIDE DEF k
  <1>4. SubSeq(r, 1, k) \in Seq(Clients \cup {Resp}) /\ Len(SubSeq(r, 1, k)) = k
    BY <1>1, <1>3
  <1>5. QED
    BY <1>2, <1>3, <1>4

\* p_proc_f.
LEMMA ProcInv == ASSUME IInv, NEW w \in Workers, WorkProc(w) PROVE IInv'
  <1> DEFINE PS == {"PROC_ST_INIT", "PROC_ST_SENDBUF", "PROC_ST_BRKOUT", "PROC_ST_ERR"}
             Pcs == {"poll", "recv", "proc", "close", "switch", "pop", "exit"}
  <1>0. /\ wpc[w] = "proc"
        /\ UNCHANGED <<que, rdbuf, recv_stat, wait_times>>
        /\ UNCHANGED kvars /\ UNCHANGED avars
    BY DEF WorkProc
  <1>1. UNCHANGED <<backlog, conn, fdt, reg, rdy, got, up>>
    BY <1>0 DEF kvars
  <1>2. /\ rdbuf[w] \in Seq(Clients) /\ proc_stat \in [Workers -> PS] /\ wpc \in [Workers -> Pcs]
        /\ wrbuf \in [Workers -> Seq(Clients \cup {Resp})]
    BY DEF IInv, WorkerTypes
  <1>3. \E t \in Seq(Clients \cup {Resp}) : /\ Len(t) <= BufSize
                                            /\ wrbuf' = [wrbuf EXCEPT ![w] = t]
    <2>1. wrbuf' = [wrbuf EXCEPT ![w] = Reply(rdbuf[w])] \/ wrbuf' = [wrbuf EXCEPT ![w] = <<>>]
      BY DEF WorkProc
    <2>2. <<>> \in Seq(Clients \cup {Resp}) /\ Len(<<>>) <= BufSize
      BY BoundsAssumption
    <2>3. QED
      BY <1>2, <2>1, <2>2, ReplyFacts
  <1>4. \E k \in Pcs : wpc' = [wpc EXCEPT ![w] = k]
    BY DEF WorkProc
  <1>5. proc_stat' \in [Workers -> PS]
    <2>1. \/ UNCHANGED proc_stat
          \/ \E r \in ProcResults : r # "FAIL" /\ proc_stat' = [proc_stat EXCEPT ![w] = r]
      BY DEF WorkProc
    <2>2. QED
      BY <1>2, <2>1, ProcAssumption
  <1>6. WorkerTypes'
    <2>1. wpc' \in [Workers -> Pcs]
      BY <1>2, <1>4
    <2>2. /\ wrbuf' \in [Workers -> Seq(Clients \cup {Resp})]
          /\ \A v \in Workers : Len(wrbuf'[v]) <= BufSize
      BY <1>2, <1>3 DEF IInv, WorkerTypes
    <2>3. QED
      BY <1>0, <1>5, <2>1, <2>2 DEF IInv, WorkerTypes
  <1>7. Held'
    BY <1>0, <1>2, <1>4 DEF IInv, Held
  <1>8. SameStates
    BY <1>1, SameConn
  <1>9. QED
    BY <1>0, <1>1, <1>6, <1>7, <1>8, WorkFrame DEF IInv, KernelTypes

\* The worker closes the descriptor of its block.
LEMMA WorkCloseInv == ASSUME IInv, NEW w \in Workers, WorkClose(w) PROVE IInv'
  <1>0. /\ wpc[w] = "close" /\ Close(Head(que[w]).fd)
        /\ wpc' = [wpc EXCEPT ![w] = "switch"]
        /\ UNCHANGED <<backlog, got, up, que, rdbuf, wrbuf, recv_stat, wait_times, proc_stat>>
        /\ UNCHANGED <<apc, evs, nxt, si, infofd, freed>>
    BY DEF WorkClose, avars
  <1>1. /\ KernelTypes' /\ Table' /\ Unread' /\ Waiting' /\ ReadyList'
        /\ reg' \subseteq reg
        /\ \A c \in Clients : Accepted(c) => Accepted(c)'
        /\ \A f \in Fds : fdt'[f] \in {None, fdt[f]}
    BY <1>0, HeadBlock, CloseKeeps
  <1>2. AccessTypes' /\ Batch' /\ Freed'
    BY <1>0, <1>1, AccessFrame
  <1>3. QueueTypes' /\ WorkerTypes' /\ Held'
    BY <1>0 DEF IInv, QueueTypes, WorkerTypes, Held
  <1>4. QED
    BY <1>1, <1>2, <1>3 DEF IInv

\* The reply is sent.
LEMMA SwitchInv == ASSUME IInv, NEW w \in Workers, WorkSwitch(w) PROVE IInv'
  <1> DEFINE c == fdt[Head(que[w]).fd]
  <1>0. /\ wpc[w] = "switch" /\ wpc' = [wpc EXCEPT ![w] = "pop"]
        /\ UNCHANGED <<backlog, fdt, reg, rdy, que, rdbuf, wrbuf, recv_stat, wait_times, proc_stat>>
        /\ UNCHANGED avars
    BY DEF WorkSwitch
  <1>1. c # None => c \in Clients
    BY <1>0, HeadBlock
  <1>2. /\ conn \in [Clients -> ConnType] /\ got \in [Clients -> Seq(Clients \cup {Resp})]
        /\ up \in BOOLEAN /\ wrbuf[w] \in Seq(Clients \cup {Resp})
    BY DEF IInv, KernelTypes, WorkerTypes
  <1>3. \/ UNCHANGED <<conn, got, up>>
        \/ /\ c # None /\ conn' = [conn EXCEPT ![c] = [conn[c] EXCEPT !.err = FALSE]]
           /\ up' = conn[c].err /\ UNCHANGED got
        \/ /\ c # None /\ got' = [got EXCEPT ![c] = @ \o wrbuf[w]]
           /\ UNCHANGED <<conn, up>>
    BY DEF WorkSwitch
  <1> HIDE DEF c
  <1>4. WorkerTypes' /\ Held'
    BY <1>0 DEF IInv, WorkerTypes, Held
  <1>5. CASE UNCHANGED <<conn, got, up>>
    BY <1>0, <1>2, <1>4, <1>5, SameConn, WorkFrame
  <1>6. CASE /\ c # None /\ conn' = [conn EXCEPT ![c] = [conn[c] EXCEPT !.err = FALSE]]
             /\ up' = conn[c].err /\ UNCHANGED got
    <2>1. ASSUME NEW r \in ConnType
          PROVE  LET m == [r EXCEPT !.err = FALSE]
                 IN  m \in ConnType /\ m.st = r.st /\ m.unread = r.unread /\ m.sent = r.sent
                     /\ r.err \in BOOLEAN
      BY DEF ConnType
    <2>2. SameStates
      BY <1>1, <1>2, <1>6, <2>1 DEF SameStates, IInv, Unread
    <2>3. up' \in BOOLEAN
      BY <1>1, <1>2, <1>6, <2>1
    <2>4. QED
      BY <1>0, <1>2, <1>4, <1>6, <2>2, <2>3, WorkFrame
  <1>7. CASE /\ c # None /\ got' = [got EXCEPT ![c] = @ \o wrbuf[w]]
             /\ UNCHANGED <<conn, up>>
    <2>1. got' \in [Clients -> Seq(Clients \cup {Resp})]
      BY <1>1, <1>2, <1>7
    <2>2. QED
      BY <1>0, <1>2, <1>4, <1>7, <2>1, SameConn, WorkFrame
  <1>8. QED
    BY <1>3, <1>5, <1>6, <1>7

\* que_obj_pop.
LEMMA PopInv == ASSUME IInv, NEW w \in Workers, WorkPop(w) PROVE IInv'
  <1>0. /\ wpc[w] = "pop" /\ que' = [que EXCEPT ![w] = Tail(@)]
        /\ wpc' = [wpc EXCEPT ![w] = IF proc_stat[w] = "PROC_ST_BRKOUT" THEN "exit" ELSE "poll"]
        /\ UNCHANGED <<rdbuf, wrbuf, recv_stat, wait_times, proc_stat>>
        /\ UNCHANGED kvars /\ UNCHANGED avars
    BY DEF WorkPop
  <1>1. UNCHANGED <<backlog, conn, fdt, reg, rdy, got, up, apc, evs, nxt, si, infofd, freed>>
    BY <1>0 DEF kvars, avars
  <1>2. que[w] \in Seq(SockInfo) /\ que[w] # <<>> /\ Len(que[w]) < que_cap
    BY <1>0, HeadBlock DEF IInv, QueueTypes
  <1>3. Tail(que[w]) \in Seq(SockInfo) /\ Len(Tail(que[w])) < que_cap
    BY <1>2, BoundsAssumption
  <1>4. QueueTypes'
    BY <1>0, <1>3 DEF IInv, QueueTypes
  <1>5. WorkerTypes'
    BY <1>0 DEF IInv, WorkerTypes
  <1>6. Held'
    BY <1>0 DEF IInv, Held, WorkerTypes, QueueTypes
  <1>7. KernelTypes' /\ Table' /\ Unread' /\ Waiting' /\ ReadyList'
    BY <1>0, <1>1, KernelFrame
  <1>8. \A c \in Clients : Accepted(c) => Accepted(c)'
    BY <1>1 DEF Accepted
  <1>9. AccessTypes' /\ Batch' /\ Freed'
    BY <1>1, <1>8, AccessFrame
  <1>10. QED
    BY <1>4, <1>5, <1>6, <1>7, <1>9 DEF IInv

-----------------------------------------------------------------------------
\* serv_run starts with nothing connected.
LEMMA InitInv == ASSUME Init PROVE IInv
  <1>1. KernelTypes /\ QueueTypes
    BY BoundsAssumption DEF Init, KernelTypes, QueueTypes, ConnType
  <1>2. AccessTypes
    BY DEF Init, AccessTypes
  <1>3. WorkerTypes
    BY BoundsAssumption DEF Init, WorkerTypes
  <1>4. Table /\ Unread /\ Held
    BY DEF Init, Table, Unread, Held
  <1>5. Waiting /\ ReadyList
    BY DEF Init, Waiting, ReadyList, Distinct
  <1>6. Batch /\ Freed
    BY DEF Init, Batch, Freed, Dropping
  <1>7. QED
    BY <1>1, <1>2, <1>3, <1>4, <1>5, <1>6 DEF IInv

\* The inductive invariant holds throughout.
THEOREM ServerInvariant == Spec => []IInv
  <1>1. Init => IInv
    BY InitInv
  <1>2. ASSUME IInv, [Next]_vars PROVE IInv'
    <2>1. ASSUME NEW c \in Clients, Connect(c) \/ Send(c) \/ Finish(c) \/ Reset(c)
          PROVE  IInv'
      BY <1>2, <2>1, ConnectInv, SendInv, FinishInv, ResetInv
    <2>2. CASE Access
      BY <1>2, <2>2, DetectInv, ExhaustedInv, ListenInv, AddInv, ClientInv, DelInv,
         CheckCloseInv DEF Access
    <2>3. ASSUME NEW w \in Workers, Work(w) PROVE IInv'
      BY <1>2, <2>3, HeadInv, RecvInv, ProcInv, WorkCloseInv, SwitchInv, PopInv DEF Work
    <2>4. CASE UNCHANGED vars
      <3>1. UNCHANGED <<backlog, conn, fdt, reg, rdy, got, up>>
            /\ UNCHANGED <<apc, evs, nxt, si, infofd, freed, que>>
        BY <2>4 DEF vars, kvars, avars
      <3>2. UNCHANGED kvars /\ UNCHANGED wvars
        BY <2>4 DEF vars
      <3>3. \A c \in Clients : Accepted(c) => Accepted(c)'
        BY <3>1 DEF Accepted
      <3>4. AccessTypes' /\ Batch' /\ Freed'
        BY <1>2, <3>1, <3>3, AccessFrame
      <3>5. QED
        BY <1>2, <3>1, <3>2, <3>4, KernelFrame, WorkersFrame DEF IInv
    <2>5. QED
      BY <1>2, <2>1, <2>2, <2>3, <2>4 DEF Next
  <1>3. QED
    BY <1>1, <1>2, PTL DEF Spec

\* The variables keep their types: no queue, buffer, batch or table exceeds
\* its size.
THEOREM ServerTypeOK == Spec => []TypeOK
  <1>1. IInv => TypeOK
    BY DEF IInv, KernelTypes, AccessTypes, QueueTypes, WorkerTypes, Unread, TypeOK, ConnType, EventType
  <1>2. QED
    BY <1>1, ServerInvariant, PTL

\* The access thread never reaches a freed sock_info_t through a registration
\* or an event, however many workers close descriptors meanwhile.
THEOREM InfoNeverFreed == Spec => []InfoLive
  <1>1. IInv => InfoLive
    BY DEF IInv, Freed, InfoLive, Dropping
  <1>2. QED
    BY <1>1, ServerInvariant, PTL

-----------------------------------------------------------------------------
(* No edge is lost, unless the server throws one away.                     *)

\* The ways the code can lose an event, each ruled out for one step: a full
\* queue refuses it, its worker leaves the loop, a read stops at the end of
\* the buffer, a batch is left before its last event.
NoneRefused == nxt' = nxt + 1 => que' # que
NoneLeaves == \A w \in Workers : wpc'[w] # "exit"
NoneFull ==
    \A w \in Workers : wpc[w] = "recv" /\ wpc'[w] = "proc" => "RECV_MEM_LACK" \notin recv_stat'[w]
NotCut == apc # "detect" /\ apc' = "detect" => nxt >= Len(evs)
Kept == NotCut /\ NoneRefused /\ NoneLeaves /\ NoneFull

Pending(c) == conn[c].unread > 0 \/ conn[c].peer # "up" \/ conn[c].err

\* The three places an event can be at: the ready list, the batch, a queue.
Listed(c) == c \in Elems(rdy)
Batched(c) == \E i \in nxt .. Len(evs) : evs[i].who = c
Queued(c) ==
    \E w \in Workers : \E i \in DOMAIN que[w] :
        /\ que[w][i].fd = infofd[c]
        /\ que[w][i].sock_status = "SST_DATA_IN"
        /\ i = 1 => \/ wpc[w] \in {"poll", "recv"}
                    \/ /\ wpc[w] \in {"proc", "close"}
                       /\ "RECV_DISC" \in recv_stat[w]

\* What the access thread knows of the batch it is in.
BatchKnown ==
    /\ apc = "detect" => Len(evs) < nxt
    /\ \A i \in 1 .. Len(evs) : evs[i].who # Listen => "EPOLLOUT" \notin evs[i].mask
    /\ Dropping => evs[nxt].who = si.who /\ si.who \in freed

ErrReset == \A c \in Clients : conn[c].err => conn[c].peer = "rst"
Working == \A w \in Workers : wpc[w] # "exit"

\* A reset is known to the access thread, not only to a worker: a recvfrom
\* that takes the pending error leaves nothing to be seen in the queue.
SeenReset(c) == Listed(c) \/ \E i \in nxt .. Len(evs) : evs[i].who = c /\ "EPOLLHUP" \in evs[i].mask
RstKnown == \A c \in reg : conn[c].peer = "rst" => SeenReset(c)

EInv == BatchKnown /\ ErrReset /\ Working /\ RstKnown /\ EdgesLive

\* What epoll reports, and where the report is.
LEMMA PendingMask == ASSUME NEW c PROVE PollMask(c) # {} <=> Pending(c)
  BY DEF PollMask, Pending

LEMMA Places == ASSUME NEW c PROVE OnItsWay(c) <=> Listed(c) \/ Batched(c) \/ Queued(c)
  BY DEF OnItsWay, Listed, Batched, Queued

\* Waking adds to the ready list, taking x out leaves the others.
LEMMA WakeElems ==
    ASSUME NEW S, NEW l \in Seq(S), NEW x \in S
    PROVE  x \in Elems(Wake(l, x)) /\ Elems(l) \subseteq Elems(Wake(l, x))
  <1>1. CASE x \in Elems(l)
    BY <1>1 DEF Wake
  <1>2. CASE x \notin Elems(l)
    <2>1. Wake(l, x) = Append(l, x)
      BY <1>2 DEF Wake
    <2>2. /\ DOMAIN Append(l, x) = 1 .. (Len(l) + 1) /\ Len(l) \in Nat
          /\ \A i \in 1 .. Len(l) : Append(l, x)[i] = l[i]
          /\ Append(l, x)[Len(l) + 1] = x /\ DOMAIN l = 1 .. Len(l)
      OBVIOUS
    <2> DEFINE a == Append(l, x)
    <2>3. Len(l) + 1 \in DOMAIN a /\ \A i \in 1 .. Len(l) : i \in DOMAIN a
      BY <2>2
    <2> HIDE DEF a
    <2>4. QED
      BY <2>1, <2>2, <2>3 DEF Elems, a
  <1>3. QED
    BY <1>1, <1>2

LEMMA AsleepElems ==
    ASSUME NEW S, NEW l \in Seq(S), NEW x, NEW y \in Elems(l), y # x
    PROVE  y \in Elems(Asleep(l, x))
  <1>1. CASE x \notin Elems(l)
    BY <1>1 DEF Asleep
  <1>2. CASE x \in Elems(l)
    <2> DEFINE at == CHOOSE i \in DOMAIN l : l[i] = x
               a == [i \in 1 .. (Len(l) - 1) |-> IF i < at THEN l[i] ELSE l[i + 1]]
    <2>1. at \in 1 .. Len(l) /\ l[at] = x /\ Len(l) \in Nat /\ DOMAIN l = 1 .. Len(l)
      <3>1. \E i \in DOMAIN l : l[i] = x
        BY <1>2 DEF Elems
      <3>2. at \in DOMAIN l /\ l[at] = x
        BY <3>1
      <3>3. QED
        BY <3>2
    <2>2. Asleep(l, x) = a
      BY <1>2 DEF Asleep
    <2> HIDE DEF at
    <2>3. PICK j \in 1 .. Len(l) : l[j] = y
      BY <2>1 DEF Elems
    <2>4. CASE j < at
      <3>1. j \in 1 .. (Len(l) - 1) /\ a[j] = y
        BY <2>1, <2>3, <2>4
      <3>2. j \in DOMAIN a
        BY <3>1
      <3>3. QED
        BY <2>2, <3>1, <3>2 DEF Elems
    <2>5. CASE j > at
      <3>1. j - 1 \in 1 .. (Len(l) - 1) /\ ~(j - 1 < at) /\ (j - 1) + 1 = j
        BY <2>1, <2>3, <2>5
      <3>2. a[j - 1] = y
        BY <2>3, <3>1
      <3>3. j - 1 \in DOMAIN a
        BY <3>1
      <3>4. QED
        BY <2>2, <3>2, <3>3 DEF Elems
    <2>6. QED
      BY <2>1, <2>3, <2>4, <2>5
  <1>3. QED
    BY <1>1, <1>2

\* Steps of clients and workers: the batch stays, a registered socket gets
\* something to report only together with a place on the ready list.
LEMMA EdgeFrame ==
    ASSUME IInv, EInv, UNCHANGED <<apc, evs, nxt, si, infofd, freed>>,
           ErrReset', Working', reg' \subseteq reg,
           \A c \in reg' : Pending(c)' => Pending(c) \/ Listed(c)',
           \A c \in reg' : conn'[c].peer = "rst" => conn[c].peer = "rst" \/ Listed(c)',
           \A c \in reg' : Listed(c) => Listed(c)',
           \A c \in reg' : Queued(c) /\ Pending(c)' => SeenReset(c)' \/ Queued(c)'
    PROVE  EInv'
  <1>1. BatchKnown'
    BY DEF EInv, BatchKnown, Dropping
  <1>2. \A c \in reg' : SeenReset(c) => SeenReset(c)'
    BY DEF SeenReset
  <1>3. RstKnown'
    <2>1. \A c \in reg' : conn'[c].peer = "rst" => SeenReset(c)'
      BY <1>2 DEF EInv, RstKnown, SeenReset
    <2>2. QED
      BY <2>1 DEF RstKnown, SeenReset, Listed
  <1>4. EdgesLive'
    <2> SUFFICES ASSUME NEW c \in reg', Pending(c)' PROVE OnItsWay(c)'
      BY PendingMask DEF EdgesLive, PollMask, Pending
    <2>1. SeenReset(c)' => Listed(c)' \/ Batched(c)'
      BY DEF SeenReset, Batched
    <2>2. Listed(c)' \/ Batched(c)' \/ Queued(c)'
      <3>1. CASE Listed(c)'
        BY <3>1
      <3>2. CASE ~Listed(c)'
        <4>1. c \in reg /\ Pending(c)
          BY <3>2
        <4>2. OnItsWay(c)
          BY <4>1, PendingMask DEF EInv, EdgesLive
        <4>3. Listed(c) \/ Batched(c) \/ Queued(c)
          BY <4>2, Places
        <4>4. Batched(c) => Batched(c)'
          BY DEF Batched
        <4>5. QED
          BY <2>1, <3>2, <4>3, <4>4
      <3>3. QED
        BY <3>1, <3>2
    <2>3. QED
      BY <2>2 DEF OnItsWay, Listed, Batched, Queued
  <1>5. QED
    BY <1>1, <1>3, <1>4 DEF EInv

\* The same when also the queues and the workers stay.
LEMMA QueueFrame ==
    ASSUME UNCHANGED <<infofd, que>>, UNCHANGED wvars, NEW c
    PROVE  Queued(c) => Queued(c)'
  <1>1. UNCHANGED <<wpc, recv_stat>>
    BY DEF wvars
  <1>2. QED
    BY <1>1 DEF Queued

\* A client's step puts its registered socket on the ready list.
LEMMA ActivityEdge ==
    ASSUME IInv, EInv, NEW c \in Clients, Activity(c), ErrReset',
           \A d \in Clients : d # c => conn'[d] = conn[d],
           UNCHANGED <<fdt, reg, que>>, UNCHANGED avars, UNCHANGED wvars
    PROVE  EInv'
  <1>0. UNCHANGED <<apc, evs, nxt, si, infofd, freed>> /\ UNCHANGED <<wpc, recv_stat>>
    BY DEF avars, wvars
  <1>1. rdy \in Seq(Clients \cup {Listen}) /\ reg \subseteq Clients
    BY DEF IInv, KernelTypes
  <1>2. /\ c \in reg => Listed(c)'
        /\ \A d : Listed(d) => Listed(d)'
    BY <1>1, WakeElems DEF Activity, Listed
  <1>3. \A d \in reg' : (Pending(d)' => Pending(d) \/ Listed(d)')
    BY <1>1, <1>2 DEF Pending
  <1>4. \A d \in reg' : conn'[d].peer = "rst" => conn[d].peer = "rst" \/ Listed(d)'
    BY <1>1, <1>2
  <1>5. Working'
    BY <1>0 DEF EInv, Working
  <1>6. QED
    BY <1>0, <1>2, <1>3, <1>4, <1>5, EdgeFrame, QueueFrame

LEMMA SendEdge == ASSUME IInv, EInv, NEW c \in Clients, Send(c) PROVE EInv'
  <1>1. /\ conn' = [conn EXCEPT ![c].sent = @ + 1, ![c].unread = @ + 1]
        /\ Activity(c) /\ UNCHANGED <<fdt, reg, que>> /\ UNCHANGED avars /\ UNCHANGED wvars
    BY DEF Send
  <1>2. conn \in [Clients -> ConnType]
    BY DEF IInv, KernelTypes
  <1>3. \A n \in ConnType : LET m == [n EXCEPT !.sent = n.sent + 1, !.unread = n.unread + 1]
                            IN  m.err = n.err /\ m.peer = n.peer
    BY DEF ConnType
  <1>4. \A d \in Clients : /\ d # c => conn'[d] = conn[d]
                           /\ conn'[d].err = conn[d].err /\ conn'[d].peer = conn[d].peer
    BY <1>1, <1>2, <1>3
  <1>5. ErrReset'
    BY <1>4 DEF EInv, ErrReset
  <1>6. QED
    BY <1>1, <1>4, <1>5, ActivityEdge

LEMMA FinishEdge == ASSUME IInv, EInv, NEW c \in Clients, Finish(c) PROVE EInv'
  <1>1. /\ conn' = [conn EXCEPT ![c].peer = "fin"] /\ conn[c].peer = "up"
        /\ Activity(c) /\ UNCHANGED <<fdt, reg, que>> /\ UNCHANGED avars /\ UNCHANGED wvars
    BY DEF Finish
  <1>2. conn \in [Clients -> ConnType]
    BY DEF IInv, KernelTypes
  <1>3. \A n \in ConnType : LET m == [n EXCEPT !.peer = "fin"] IN m.err = n.err
    BY DEF ConnType
  <1>4. \A d \in Clients : d # c => conn'[d] = conn[d]
    BY <1>1, <1>2
  <1>5. ~conn[c].err
    BY <1>1 DEF EInv, ErrReset
  <1>6. ~conn'[c].err
    BY <1>1, <1>2, <1>3, <1>5
  <1>7. ErrReset'
    BY <1>4, <1>6 DEF EInv, ErrReset
  <1>8. QED
    BY <1>1, <1>4, <1>7, ActivityEdge

LEMMA ResetEdge == ASSUME IInv, EInv, NEW c \in Clients, Reset(c) PROVE EInv'
  <1>1. /\ conn' = [conn EXCEPT ![c].peer = "rst", ![c].err = TRUE]
        /\ Activity(c) /\ UNCHANGED <<fdt, reg, que>> /\ UNCHANGED avars /\ UNCHANGED wvars
    BY DEF Reset
  <1>2. conn \in [Clients -> ConnType]
    BY DEF IInv, KernelTypes
  <1>3. \A n \in ConnType : [n EXCEPT !.peer = "rst", !.err = TRUE].peer = "rst"
    BY DEF ConnType
  <1>4. conn'[c].peer = "rst" /\ \A d \in Clients : d # c => conn'[d] = conn[d]
    BY <1>1, <1>2, <1>3
  <1>5. ErrReset'
    BY <1>4 DEF EInv, ErrReset
  <1>6. QED
    BY <1>1, <1>4, <1>5, ActivityEdge

\* A connection that is not accepted yet only wakes the listener.
LEMMA ConnectEdge == ASSUME IInv, EInv, NEW c \in Clients, Connect(c) PROVE EInv'
  <1>1. /\ conn' = [conn EXCEPT ![c].st = "backlog"] /\ rdy' = Wake(rdy, Listen)
        /\ UNCHANGED <<fdt, reg, que>> /\ UNCHANGED avars /\ UNCHANGED wvars
    BY DEF Connect
  <1>0. UNCHANGED <<apc, evs, nxt, si, infofd, freed>> /\ UNCHANGED <<wpc, recv_stat>>
    BY <1>1 DEF avars, wvars
  <1>2. conn \in [Clients -> ConnType] /\ rdy \in Seq(Clients \cup {Listen}) /\ reg \subseteq Clients
    BY DEF IInv, KernelTypes
  <1>3. \A n \in ConnType : LET m == [n EXCEPT !.st = "backlog"]
                            IN  m.err = n.err /\ m.peer = n.peer /\ m.unread = n.unread
    BY DEF ConnType
  <1>4. \A d \in Clients : /\ conn'[d].err = conn[d].err /\ conn'[d].peer = conn[d].peer
                           /\ conn'[d].unread = conn[d].unread
    BY <1>1, <1>2, <1>3
  <1>5. ErrReset' /\ Working'
    BY <1>0, <1>4 DEF EInv, ErrReset, Working
  <1>6. \A d : Listed(d) => Listed(d)'
    BY <1>1, <1>2, WakeElems DEF Listed
  <1>7. \A d \in reg' : Pending(d)' => Pending(d)
    BY <1>1, <1>2, <1>4 DEF Pending
  <1>8. \A d \in reg' : conn'[d].peer = "rst" => conn[d].peer = "rst"
    BY <1>1, <1>2, <1>4
  <1>9. QED
    BY <1>0, <1>1, <1>5, <1>6, <1>7, <1>8, EdgeFrame, QueueFrame

\* Worker w moves on with the block at its head: what was on its way there
\* still is, or has been seen to.
LEMMA WorkEdge ==
    ASSUME IInv, EInv, NEW w \in Workers, UNCHANGED <<apc, evs, nxt, si, infofd, freed>>,
           UNCHANGED <<reg, rdy, que>>, ErrReset', Working',
           \A v \in Workers : v # w => wpc'[v] = wpc[v] /\ recv_stat'[v] = recv_stat[v],
           \A c \in reg : Pending(c)' => Pending(c),
           \A c \in reg : conn'[c].peer = "rst" => conn[c].peer = "rst",
           \A c \in reg : /\ Pending(c)' /\ que[w] # <<>> /\ que[w][1].fd = infofd[c]
                          /\ que[w][1].sock_status = "SST_DATA_IN"
                          /\ \/ wpc[w] \in {"poll", "recv"}
                             \/ wpc[w] \in {"proc", "close"} /\ "RECV_DISC" \in recv_stat[w]
                          => \/ wpc'[w] \in {"poll", "recv"}
                             \/ wpc'[w] \in {"proc", "close"} /\ "RECV_DISC" \in recv_stat'[w]
                             \/ SeenReset(c)
    PROVE  EInv'
  <1>1. \A c : Listed(c) => Listed(c)'
    BY DEF Listed
  <1>2. \A c : SeenReset(c) => SeenReset(c)'
    BY <1>1 DEF SeenReset
  <1>3. \A c \in reg : Queued(c) /\ Pending(c)' => SeenReset(c)' \/ Queued(c)'
    <2> SUFFICES ASSUME NEW c \in reg, Queued(c), Pending(c)', ~SeenReset(c) PROVE Queued(c)'
      BY <1>2
    <2>1. PICK v \in Workers : \E i \in DOMAIN que[v] :
             /\ que[v][i].fd = infofd[c]
             /\ que[v][i].sock_status = "SST_DATA_IN"
             /\ i = 1 => \/ wpc[v] \in {"poll", "recv"}
                         \/ wpc[v] \in {"proc", "close"} /\ "RECV_DISC" \in recv_stat[v]
      BY DEF Queued
    <2>2. PICK i \in DOMAIN que[v] :
             /\ que[v][i].fd = infofd[c]
             /\ que[v][i].sock_status = "SST_DATA_IN"
             /\ i = 1 => \/ wpc[v] \in {"poll", "recv"}
                         \/ wpc[v] \in {"proc", "close"} /\ "RECV_DISC" \in recv_stat[v]
      BY <2>1
    <2>3. i = 1 => que[v] # <<>>
      OBVIOUS
    <2>4. i = 1 => \/ wpc'[v] \in {"poll", "recv"}
                   \/ wpc'[v] \in {"proc", "close"} /\ "RECV_DISC" \in recv_stat'[v]
      <3>1. CASE v = w
        BY <2>2, <2>3, <3>1
      <3>2. CASE v # w
        BY <2>2, <3>2
      <3>3. QED
        BY <3>1, <3>2
    <2>5. QED
      BY <2>2, <2>4 DEF Queued
  <1>4. QED
    BY <1>1, <1>3, EdgeFrame

LEMMA HeadEdge == ASSUME IInv, EInv, NEW w \in Workers, WorkHead(w) PROVE EInv'
  <1>1. /\ que[w] # <<>> /\ UNCHANGED que /\ UNCHANGED kvars /\ UNCHANGED avars
        /\ \/ /\ Head(que[w]).sock_status = "SST_DATA_IN"
              /\ wpc' = [wpc EXCEPT ![w] = "recv"]
              /\ recv_stat' = [recv_stat EXCEPT ![w] = {}]
           \/ /\ Head(que[w]).sock_status # "SST_DATA_IN"
              /\ wpc' = [wpc EXCEPT ![w] = "switch"] /\ UNCHANGED recv_stat
    BY DEF WorkHead
  <1>2. UNCHANGED <<reg, rdy, conn, apc, evs, nxt, si, infofd, freed>>
    BY <1>1 DEF kvars, avars
  <1>3. /\ wpc \in [Workers -> {"poll", "recv", "proc", "close", "switch", "pop", "exit"}]
        /\ recv_stat \in [Workers -> SUBSET {"RECV_OK", "RECV_MEM_LACK", "RECV_DISC",
                                             "RECV_TIMEOUT", "RECV_ERR"}]
    BY DEF IInv, WorkerTypes
  <1>4. ErrReset' /\ Working'
    BY <1>1, <1>2, <1>3 DEF EInv, ErrReset, Working
  <1>5. \A v \in Workers : v # w => wpc'[v] = wpc[v] /\ recv_stat'[v] = recv_stat[v]
    BY <1>1, <1>3
  <1>6. Head(que[w]) = que[w][1]
    BY <1>1 DEF IInv, QueueTypes
  <1>7. que[w][1].sock_status = "SST_DATA_IN" => wpc'[w] = "recv"
    BY <1>1, <1>3, <1>6
  <1>8. \A c : Pending(c)' => Pending(c)
    BY <1>2 DEF Pending
  <1>9. QED
    BY <1>1, <1>2, <1>4, <1>5, <1>7, <1>8, WorkEdge

LEMMA RecvEdge == ASSUME IInv, EInv, NEW w \in Workers, WorkRecv(w), NoneFull PROVE EInv'
  <1> DEFINE h == Head(que[w]).fd
             c == fdt[h]
             room == BufSize - Len(rdbuf[w])
             n == IF conn[c].unread < room THEN conn[c].unread ELSE room
  <1>0. /\ wpc[w] = "recv" /\ UNCHANGED <<fdt, reg, rdy, que>> /\ UNCHANGED avars
    BY DEF WorkRecv
  <1>1. UNCHANGED <<apc, evs, nxt, si, infofd, freed>>
    BY <1>0 DEF avars
  <1>2. /\ conn \in [Clients -> ConnType] /\ reg \subseteq Clients
        /\ wpc \in [Workers -> {"poll", "recv", "proc", "close", "switch", "pop", "exit"}]
        /\ recv_stat \in [Workers -> SUBSET {"RECV_OK", "RECV_MEM_LACK", "RECV_DISC",
                                             "RECV_TIMEOUT", "RECV_ERR"}]
    BY DEF IInv, KernelTypes, WorkerTypes
  <1>3. /\ que[w] # <<>> /\ h \in Fds /\ (c # None => c \in Clients)
        /\ Head(que[w]) = que[w][1]
    BY <1>0, HeadBlock
  <1>4. \A d \in reg : que[w][1].fd = infofd[d] => d = c /\ c # None
    BY <1>2, <1>3, NamesAssumption DEF IInv, Table
  <1>c. ASSUME c # None PROVE conn[c].unread \in Nat /\ c \in Clients /\ conn[c] \in ConnType
    BY <1>2, <1>3, <1>c, BoundsAssumption DEF ConnType
  <1> HIDE DEF c, h
  \* What is shared by the ways the step can go.
  <1>5. ASSUME wpc' \in {[wpc EXCEPT ![w] = "proc"], [wpc EXCEPT ![w] = "recv"], wpc},
               NEW bits, recv_stat' = [recv_stat EXCEPT ![w] = bits],
               \A d \in Clients : /\ Pending(d)' => Pending(d)
                                  /\ conn'[d].peer = conn[d].peer
                                  /\ conn'[d].err => conn[d].err,
               \/ wpc' \in {[wpc EXCEPT ![w] = "recv"], wpc}
               \/ c = None
               \/ \A d \in Clients : d = c /\ Pending(d)' => "RECV_DISC" \in bits \/ conn[d].peer = "rst"
        PROVE  EInv'
    <2>1. ErrReset'
      BY <1>5 DEF EInv, ErrReset
    <2>2. Working' /\ \A v \in Workers : v # w => wpc'[v] = wpc[v] /\ recv_stat'[v] = recv_stat[v]
      BY <1>0, <1>2, <1>5 DEF EInv, Working
    <2>3. recv_stat'[w] = bits /\ wpc'[w] \in {"proc", "recv"}
      BY <1>0, <1>2, <1>5
    <2>4. ASSUME NEW d \in reg, Pending(d)', que[w][1].fd = infofd[d]
          PROVE  wpc'[w] = "recv" \/ (wpc'[w] = "proc" /\ "RECV_DISC" \in recv_stat'[w])
                 \/ SeenReset(d)
      <3>1. d = c /\ c # None
        BY <1>4, <2>4
      <3>2. CASE wpc' \in {[wpc EXCEPT ![w] = "recv"], wpc}
        BY <1>0, <1>2, <3>2
      <3>3. CASE "RECV_DISC" \in bits
        BY <2>3, <3>3
      <3>4. CASE conn[c].peer = "rst"
        BY <2>4, <3>1, <3>4 DEF EInv, RstKnown
      <3>5. d \in Clients
        BY <1>2, <2>4
      <3>6. CASE ~(wpc' \in {[wpc EXCEPT ![w] = "recv"], wpc})
        <4>1. "RECV_DISC" \in bits \/ conn[d].peer = "rst"
          BY <1>5, <2>4, <3>1, <3>5, <3>6
        <4>2. QED
          BY <3>1, <3>3, <3>4, <4>1
      <3>7. QED
        BY <3>2, <3>6
    <2>5. QED
      BY <1>0, <1>1, <1>2, <1>5, <2>1, <2>2, <2>4, WorkEdge
  <1>6. ASSUME UNCHANGED conn
        PROVE  \A d \in Clients : /\ Pending(d)' => Pending(d)
                                  /\ conn'[d].peer = conn[d].peer
                                  /\ conn'[d].err => conn[d].err
    BY <1>6 DEF Pending
  <1>7. CASE c = None
    <2>1. RecvEnds(w, (recv_stat[w] \cap {"RECV_ERR"}) \ {"RECV_OK"}) /\ UNCHANGED conn
      BY <1>7 DEF WorkRecv, c, h
    <2>2. QED
      BY <1>5, <1>6, <1>7, <2>1 DEF RecvEnds
  <1>8. CASE c # None /\ conn[c].unread > 0
    <2>0. ~(c = None) /\ ~(conn[c].unread = 0)
      BY <1>8, <1>c
    <2>1. /\ conn' = [conn EXCEPT ![c].unread = @ - n]
          /\ recv_stat' = [recv_stat EXCEPT ![w] = @ \cup
                 (IF n = room THEN {"RECV_OK", "RECV_MEM_LACK"} ELSE {"RECV_OK"})]
          /\ wpc' = [wpc EXCEPT ![w] = IF n = room THEN "proc" ELSE "recv"]
      BY <2>0, Zenon DEF WorkRecv, c, h
    <2>2. n # room
      <3>1. CASE n = room
        <4>1. wpc'[w] = "proc" /\ "RECV_MEM_LACK" \in recv_stat'[w]
          BY <1>2, <2>1, <3>1
        <4>2. QED
          BY <1>0, <4>1 DEF NoneFull
      <3>2. QED
        BY <3>1
    <2>3. wpc' = [wpc EXCEPT ![w] = "recv"]
      BY <2>1, <2>2
    <2>4. \A m : LET o == [conn[c] EXCEPT !.unread = m]
                 IN  o.peer = conn[c].peer /\ o.err = conn[c].err
      BY <1>8, <1>c DEF ConnType
    <2>5. conn'[c] = [conn[c] EXCEPT !.unread = conn[c].unread - n]
          /\ \A d \in Clients : d # c => conn'[d] = conn[d]
      BY <1>2, <1>8, <1>c, <2>1
    <2>6. \A d \in Clients : /\ Pending(d)' => Pending(d)
                             /\ conn'[d].peer = conn[d].peer
                             /\ conn'[d].err => conn[d].err
      <3>1. Pending(c) /\ conn'[c].peer = conn[c].peer /\ conn'[c].err = conn[c].err
        BY <1>8, <2>4, <2>5 DEF Pending
      <3>2. \A d \in Clients : d # c => (Pending(d)' => Pending(d))
        BY <2>5 DEF Pending
      <3>3. QED
        BY <2>5, <3>1, <3>2
    <2>7. QED
      BY <1>5, <2>1, <2>3, <2>6
  <1>9. CASE c # None /\ conn[c].unread = 0 /\ conn[c].err
    <2>0. ~(c = None) /\ ~(conn[c].unread > 0)
      BY <1>9
    <2>1. /\ RecvEnds(w, (recv_stat[w] \cap {"RECV_ERR"}) \ {"RECV_OK"})
          /\ conn' = [conn EXCEPT ![c].err = FALSE]
      BY <1>9, <2>0, Zenon DEF WorkRecv, c, h
    <2>2. LET o == [conn[c] EXCEPT !.err = FALSE]
          IN  o.peer = conn[c].peer /\ ~o.err /\ o.unread = conn[c].unread
      BY <1>9, <1>c DEF ConnType
    <2>3. conn'[c] = [conn[c] EXCEPT !.err = FALSE]
          /\ \A d \in Clients : d # c => conn'[d] = conn[d]
      BY <1>2, <1>9, <1>c, <2>1
    <2>4. \A d \in Clients : /\ Pending(d)' => Pending(d)
                             /\ conn'[d].peer = conn[d].peer
                             /\ conn'[d].err => conn[d].err
      BY <2>2, <2>3 DEF Pending
    <2>5. conn[c].peer = "rst"
      BY <1>9, <1>c DEF EInv, ErrReset
    <2>6. QED
      BY <1>5, <1>9, <2>1, <2>4, <2>5 DEF RecvEnds
  <1>10. CASE c # None /\ conn[c].unread = 0 /\ ~conn[c].err /\ conn[c].peer # "up"
    <2>0. ~(c = None) /\ ~(conn[c].unread > 0)
      BY <1>10
    <2>1. RecvEnds(w, recv_stat[w] \cup {"RECV_DISC"}) /\ UNCHANGED conn
      BY <1>10, <2>0, Zenon DEF WorkRecv, c, h
    <2>2. QED
      BY <1>5, <1>6, <1>10, <2>1 DEF RecvEnds
  <1>11. CASE c # None /\ conn[c].unread = 0 /\ ~conn[c].err /\ conn[c].peer = "up"
    <2>0. ~(c = None) /\ ~(conn[c].unread > 0) /\ ~(conn[c].peer # "up")
      BY <1>11
    <2>1. /\ \/ RecvEnds(w, recv_stat[w] \cup {"RECV_TIMEOUT"})
             \/ UNCHANGED <<recv_stat, wpc, rdbuf>>
          /\ UNCHANGED conn
      BY <1>11, <2>0, Zenon DEF WorkRecv, c, h
    <2>2. \A d \in Clients : d = c => ~Pending(d)'
      BY <1>11, <2>1 DEF Pending
    <2>3. recv_stat = [recv_stat EXCEPT ![w] = recv_stat[w]]
      BY <1>2
    <2>4. QED
      BY <1>5, <1>6, <1>11, <2>1, <2>2, <2>3 DEF RecvEnds
  <1>12. QED
    BY <1>7, <1>8, <1>9, <1>10, <1>11, <1>c

LEMMA ProcEdge == ASSUME IInv, EInv, NEW w \in Workers, WorkProc(w), NoneLeaves PROVE EInv'
  <1>1. /\ wpc[w] = "proc" /\ UNCHANGED kvars /\ UNCHANGED avars /\ UNCHANGED <<que, recv_stat>>
        /\ \E pc \in {"exit", IF "RECV_DISC" \in recv_stat[w] THEN "close" ELSE "switch"} :
              wpc' = [wpc EXCEPT ![w] = pc]
    <2>1. /\ wpc[w] = "proc" /\ UNCHANGED kvars /\ UNCHANGED avars
          /\ UNCHANGED <<que, recv_stat>>
      BY DEF WorkProc
    <2>2. \E pc \in {"exit", IF "RECV_DISC" \in recv_stat[w] THEN "close" ELSE "switch"} :
              wpc' = [wpc EXCEPT ![w] = pc]
      BY DEF WorkProc
    <2>3. QED
      BY <2>1, <2>2
  <1>2. UNCHANGED <<reg, rdy, conn, apc, evs, nxt, si, infofd, freed>>
    BY <1>1 DEF kvars, avars
  <1>3. wpc \in [Workers -> {"poll", "recv", "proc", "close", "switch", "pop", "exit"}]
    BY DEF IInv, WorkerTypes
  <1>4. wpc'[w] = IF "RECV_DISC" \in recv_stat[w] THEN "close" ELSE "switch"
    BY <1>1, <1>3 DEF NoneLeaves
  <1>5. ErrReset' /\ Working'
    BY <1>2 DEF EInv, ErrReset, Working, NoneLeaves
  <1>6. \A v \in Workers : v # w => wpc'[v] = wpc[v] /\ recv_stat'[v] = recv_stat[v]
    BY <1>1, <1>3
  <1>7. \A c : Pending(c)' => Pending(c)
    BY <1>2 DEF Pending
  <1>8. QED
    BY <1>1, <1>2, <1>4, <1>5, <1>6, <1>7, WorkEdge

LEMMA SwitchEdge == ASSUME IInv, EInv, NEW w \in Workers, WorkSwitch(w) PROVE EInv'
  <1> DEFINE c == fdt[Head(que[w]).fd]
  <1>1. /\ wpc[w] = "switch" /\ wpc' = [wpc EXCEPT ![w] = "pop"]
        /\ UNCHANGED <<reg, rdy, que, recv_stat>> /\ UNCHANGED avars
    BY DEF WorkSwitch
  <1>2. UNCHANGED <<apc, evs, nxt, si, infofd, freed>>
    BY <1>1 DEF avars
  <1>3. /\ wpc \in [Workers -> {"poll", "recv", "proc", "close", "switch", "pop", "exit"}]
        /\ conn \in [Clients -> ConnType] /\ reg \subseteq Clients
    BY DEF IInv, WorkerTypes, KernelTypes
  <1>4. c # None => c \in Clients
    BY <1>1, HeadBlock
  <1>5. \/ UNCHANGED <<conn, got, up>>
        \/ /\ c # None /\ conn' = [conn EXCEPT ![c] = [conn[c] EXCEPT !.err = FALSE]]
           /\ up' = conn[c].err /\ UNCHANGED got
        \/ /\ c # None /\ got' = [got EXCEPT ![c] = @ \o wrbuf[w]]
           /\ UNCHANGED <<conn, up>>
    BY DEF WorkSwitch
  <1> HIDE DEF c
  <1>6. \A m \in ConnType : LET o == [m EXCEPT !.err = FALSE]
                            IN  o.peer = m.peer /\ ~o.err /\ o.unread = m.unread
    BY DEF ConnType
  <1>7. \A d \in Clients : /\ conn'[d].peer = conn[d].peer /\ conn'[d].unread = conn[d].unread
                           /\ conn'[d].err => conn[d].err
    BY <1>3, <1>4, <1>5, <1>6
  <1>8. \A d \in Clients : Pending(d)' => Pending(d)
    BY <1>7 DEF Pending
  <1>9. ErrReset' /\ Working'
    BY <1>1, <1>3, <1>7 DEF EInv, ErrReset, Working
  <1>10. \A v \in Workers : v # w => wpc'[v] = wpc[v] /\ recv_stat'[v] = recv_stat[v]
    BY <1>1, <1>3
  <1>11. QED
    BY <1>1, <1>2, <1>3, <1>7, <1>8, <1>9, <1>10, WorkEdge

\* close(fd) forgets the connection behind fd, and no other.
LEMMA CloseEdge ==
    ASSUME IInv, NEW fd \in Fds, Close(fd)
    PROVE  /\ reg' \subseteq reg /\ \A c \in reg' : infofd[c] # fd
           /\ \A c \in reg' : Listed(c) => Listed(c)'
           /\ \A c \in Clients : /\ conn'[c].peer = conn[c].peer /\ conn'[c].err = conn[c].err
                                 /\ conn'[c].unread = conn[c].unread
  <1>0. /\ rdy \in Seq(Clients \cup {Listen}) /\ conn \in [Clients -> ConnType]
        /\ reg \subseteq Clients
    BY DEF IInv, KernelTypes
  <1>1. CASE fdt[fd] = None
    <2>1. UNCHANGED <<fdt, conn, reg, rdy>>
      BY <1>1 DEF Close
    <2>2. \A c \in reg : infofd[c] # fd
      <3>1. \A c \in reg : c # None /\ fdt[infofd[c]] = c
        BY NamesAssumption DEF IInv, Table, KernelTypes
      <3>2. QED
        BY <1>0, <1>1, <3>1
    <2>3. QED
      BY <2>1, <2>2 DEF Listed
  <1>2. CASE fdt[fd] # None
    <2> DEFINE d == fdt[fd]
    <2>1. /\ conn' = [conn EXCEPT ![d] = [conn[d] EXCEPT !.st = "closed"]]
          /\ reg' = reg \ {d} /\ rdy' = Asleep(rdy, d)
      BY <1>2 DEF Close
    <2>2. d \in Clients
      BY <1>2 DEF IInv, KernelTypes
    <2>3. \A c \in reg' : infofd[c] # fd
      BY <2>1 DEF IInv, Table
    <2> HIDE DEF d
    <2>4. \A c \in reg' : Listed(c) => Listed(c)'
      BY <1>0, <2>1, AsleepElems DEF Listed
    <2>5. \A n \in ConnType : LET m == [n EXCEPT !.st = "closed"]
                              IN  m.err = n.err /\ m.peer = n.peer /\ m.unread = n.unread
      BY DEF ConnType
    <2>6. \A c \in Clients : /\ conn'[c].peer = conn[c].peer /\ conn'[c].err = conn[c].err
                             /\ conn'[c].unread = conn[c].unread
      BY <1>0, <2>1, <2>2, <2>5
    <2>7. QED
      BY <2>1, <2>3, <2>4, <2>6
  <1>3. QED
    BY <1>1, <1>2

LEMMA WorkCloseEdge == ASSUME IInv, EInv, NEW w \in Workers, WorkClose(w) PROVE EInv'
  <1> DEFINE h == Head(que[w]).fd
  <1>1. /\ wpc[w] = "close" /\ Close(h) /\ wpc' = [wpc EXCEPT ![w] = "switch"]
        /\ UNCHANGED <<que, recv_stat>> /\ UNCHANGED avars
    BY DEF WorkClose
  <1>2. UNCHANGED <<apc, evs, nxt, si, infofd, freed>>
    BY <1>1 DEF avars
  <1>3. /\ wpc \in [Workers -> {"poll", "recv", "proc", "close", "switch", "pop", "exit"}]
        /\ reg \subseteq Clients
    BY DEF IInv, WorkerTypes, KernelTypes
  <1>4. h \in Fds /\ Head(que[w]) = que[w][1]
    BY <1>1, HeadBlock
  <1> HIDE DEF h
  <1>5. /\ reg' \subseteq reg /\ \A c \in reg' : infofd[c] # h
        /\ \A c \in reg' : Listed(c) => Listed(c)'
        /\ \A c \in Clients : /\ conn'[c].peer = conn[c].peer /\ conn'[c].err = conn[c].err
                              /\ conn'[c].unread = conn[c].unread
    BY <1>1, <1>4, CloseEdge
  <1>6. ErrReset' /\ Working'
    BY <1>1, <1>3, <1>5 DEF EInv, ErrReset, Working
  <1>7. \A c \in reg' : Pending(c)' => Pending(c)
    BY <1>3, <1>5 DEF Pending
  <1>8. \A c \in reg' : Queued(c) => Queued(c)'
    <2>1. \A v \in Workers : v # w => wpc'[v] = wpc[v]
      BY <1>1, <1>3
    <2> SUFFICES ASSUME NEW c \in reg', Queued(c) PROVE Queued(c)'
      OBVIOUS
    <2>2. que[w][1].fd # infofd[c]
      BY <1>4, <1>5 DEF h
    <2>3. QED
      BY <1>1, <1>2, <2>1, <2>2 DEF Queued
  <1>9. QED
    BY <1>2, <1>3, <1>5, <1>6, <1>7, <1>8, EdgeFrame

\* The next block moves to the head.
LEMMA PopEdge == ASSUME IInv, EInv, NEW w \in Workers, WorkPop(w), NoneLeaves PROVE EInv'
  <1>1. /\ wpc[w] = "pop" /\ que' = [que EXCEPT ![w] = Tail(@)]
        /\ \E pc \in {"exit", "poll"} : wpc' = [wpc EXCEPT ![w] = pc]
        /\ UNCHANGED recv_stat /\ UNCHANGED kvars /\ UNCHANGED avars
    BY DEF WorkPop
  <1>2. UNCHANGED <<reg, rdy, conn, apc, evs, nxt, si, infofd, freed>>
    BY <1>1 DEF kvars, avars
  <1>3. /\ wpc \in [Workers -> {"poll", "recv", "proc", "close", "switch", "pop", "exit"}]
        /\ que \in [Workers -> Seq(SockInfo)]
    BY DEF IInv, WorkerTypes, QueueTypes
  <1>4. wpc'[w] = "poll"
    BY <1>1, <1>3 DEF NoneLeaves
  <1>5. ErrReset' /\ Working'
    BY <1>2 DEF EInv, ErrReset, Working, NoneLeaves
  <1>6. \A c : /\ Pending(c)' => Pending(c)
               /\ Listed(c) => Listed(c)'
    BY <1>2 DEF Pending, Listed
  <1>7. ASSUME NEW c, Queued(c) PROVE Queued(c)'
    <2>1. PICK v \in Workers : \E i \in DOMAIN que[v] :
             /\ que[v][i].fd = infofd[c]
             /\ que[v][i].sock_status = "SST_DATA_IN"
             /\ i = 1 => \/ wpc[v] \in {"poll", "recv"}
                         \/ wpc[v] \in {"proc", "close"} /\ "RECV_DISC" \in recv_stat[v]
      BY <1>7 DEF Queued
    <2>2. PICK i \in DOMAIN que[v] :
             /\ que[v][i].fd = infofd[c]
             /\ que[v][i].sock_status = "SST_DATA_IN"
             /\ i = 1 => \/ wpc[v] \in {"poll", "recv"}
                         \/ wpc[v] \in {"proc", "close"} /\ "RECV_DISC" \in recv_stat[v]
      BY <2>1
    <2>3. CASE v # w
      <3>1. que'[v] = que[v] /\ wpc'[v] = wpc[v]
        BY <1>1, <1>3, <2>3
      <3>2. QED
        BY <1>1, <1>2, <2>2, <3>1 DEF Queued
    <2>4. CASE v = w
      <3>1. i # 1
        BY <1>1, <2>2, <2>4
      <3>2. que[w] \in Seq(SockInfo) /\ i \in 1 .. Len(que[w]) /\ que[w] # <<>>
        BY <1>3, <2>2, <2>4
      <3>3. i - 1 \in 1 .. (Len(que[w]) - 1) /\ (i - 1) + 1 = i
        BY <3>1, <3>2
      <3>4. i - 1 \in DOMAIN Tail(que[w]) /\ Tail(que[w])[i - 1] = que[w][i]
        BY <3>2, <3>3
      <3>5. que'[w] = Tail(que[w])
        BY <1>1, <1>3
      <3>6. i - 1 \in DOMAIN que'[w] /\ que'[w][i - 1] = que[w][i]
        BY <3>4, <3>5
      <3>7. que'[w][i - 1].fd = infofd'[c] /\ que'[w][i - 1].sock_status = "SST_DATA_IN"
        BY <1>2, <2>2, <2>4, <3>6
      <3>8. QED
        BY <1>4, <3>6, <3>7 DEF Queued
    <2>5. QED
      BY <2>3, <2>4
  <1>8. QED
    BY <1>2, <1>5, <1>6, <1>7, EdgeFrame

\* A block put into a queue leaves the others where they are.
Grown == \/ UNCHANGED que
         \/ \E v \in Workers : \E s \in SockInfo : que' = [que EXCEPT ![v] = Append(que[v], s)]

LEMMA GrownEdge ==
    ASSUME IInv, Grown, UNCHANGED wvars, NEW c, infofd'[c] = infofd[c], Queued(c)
    PROVE  Queued(c)'
  <1>0. UNCHANGED <<wpc, recv_stat>>
    BY DEF wvars
  <1>1. que \in [Workers -> Seq(SockInfo)]
    BY DEF IInv, QueueTypes
  <1>2. \A v \in Workers : \A i \in DOMAIN que[v] : i \in DOMAIN que'[v] /\ que'[v][i] = que[v][i]
    <2>1. CASE UNCHANGED que
      BY <2>1
    <2>2. ASSUME NEW u \in Workers, NEW s \in SockInfo, que' = [que EXCEPT ![u] = Append(que[u], s)]
          PROVE  \A v \in Workers : \A i \in DOMAIN que[v] :
                    i \in DOMAIN que'[v] /\ que'[v][i] = que[v][i]
      <3>1. \A i \in DOMAIN que[u] : /\ i \in DOMAIN Append(que[u], s)
                                     /\ Append(que[u], s)[i] = que[u][i]
        BY <1>1
      <3>2. que'[u] = Append(que[u], s) /\ \A v \in Workers : v # u => que'[v] = que[v]
        BY <1>1, <2>2
      <3>3. QED
        BY <3>1, <3>2
    <2>3. QED
      BY <2>1, <2>2 DEF Grown
  <1>3. QED
    BY <1>0, <1>2 DEF Queued

\* A step of the access thread.
LEMMA AccessEdge ==
    ASSUME IInv, EInv, UNCHANGED wvars, Grown, BatchKnown', ErrReset',
           \A c \in reg' : c \in reg => infofd'[c] = infofd[c],
           \A c \in reg' : Pending(c)' => Listed(c)' \/ (c \in reg /\ Pending(c)),
           \A c \in reg' : conn'[c].peer = "rst" => Listed(c)' \/ (c \in reg /\ conn[c].peer = "rst"),
           \A c \in reg' \cap reg : Pending(c)' /\ (Listed(c) \/ Batched(c))
                                       => Listed(c)' \/ Batched(c)' \/ Queued(c)',
           \A c \in reg' \cap reg : conn'[c].peer = "rst" /\ SeenReset(c) => SeenReset(c)'
    PROVE  EInv'
  <1>1. Working'
    BY DEF EInv, Working, wvars
  <1>2. RstKnown'
    <2>1. \A c \in reg' : conn'[c].peer = "rst" => SeenReset(c)'
      BY DEF EInv, RstKnown, SeenReset
    <2>2. QED
      BY <2>1 DEF RstKnown, SeenReset, Listed
  <1>3. EdgesLive'
    <2> SUFFICES ASSUME NEW c \in reg', Pending(c)' PROVE OnItsWay(c)'
      BY PendingMask DEF EdgesLive, PollMask, Pending
    <2>1. Listed(c)' \/ Batched(c)' \/ Queued(c)'
      <3>1. CASE Listed(c)'
        BY <3>1
      <3>2. CASE ~Listed(c)'
        <4>1. c \in reg /\ Pending(c)
          BY <3>2
        <4>2. OnItsWay(c)
          BY <4>1, PendingMask DEF EInv, EdgesLive
        <4>3. Listed(c) \/ Batched(c) \/ Queued(c)
          BY <4>2, Places
        <4>4. Queued(c) => Queued(c)'
          BY <4>1, GrownEdge
        <4>5. QED
          BY <4>1, <4>3, <4>4
      <3>3. QED
        BY <3>1, <3>2
    <2>2. QED
      BY <2>1 DEF OnItsWay, Listed, Batched, Queued
  <1>4. QED
    BY <1>1, <1>2, <1>3 DEF EInv

\* The connections stay as they are.
LEMMA ConnEdge ==
    ASSUME EInv, UNCHANGED conn
    PROVE  ErrReset' /\ \A c : Pending(c)' => Pending(c)
  BY DEF EInv, ErrReset, Pending

\* epoll_wait turns the ready list into a batch.
LEMMA DetectEdge == ASSUME IInv, EInv, Detect PROVE EInv'
  <1>0. PICK n \in 0 .. Len(rdy) : \E at \in [1 .. n -> DOMAIN rdy] :
           /\ Reported(n, at)
           /\ evs' = [k \in 1 .. n |-> Event(rdy[at[k]])]
           /\ apc' = IF n = 0 THEN "detect" ELSE "check"
    BY DEF Detect
  <1>1. PICK at \in [1 .. n -> DOMAIN rdy] :
           /\ Reported(n, at)
           /\ evs' = [k \in 1 .. n |-> Event(rdy[at[k]])]
           /\ apc' = IF n = 0 THEN "detect" ELSE "check"
    BY <1>0
  <1>2. /\ apc = "detect" /\ nxt' = 1 /\ rdy' = <<>>
        /\ UNCHANGED <<conn, reg, infofd, que>> /\ UNCHANGED wvars
    BY DEF Detect
  <1>3. n \in Nat /\ Len(evs') = n /\ reg \subseteq Clients /\ nxt \in Nat /\ Len(evs) \in Nat
    BY <1>1 DEF IInv, KernelTypes, AccessTypes
  <1>4. \A x : Event(x).who = x
    BY DEF Event
  <1>5. BatchKnown'
    <2>1. \A x : x # Listen => "EPOLLOUT" \notin Event(x).mask
      BY DEF Event, PollMask
    <2>2. \A i \in 1 .. n : evs'[i] = Event(rdy[at[i]])
      BY <1>1
    <2>3. \A i \in 1 .. n : evs'[i].who # Listen => "EPOLLOUT" \notin evs'[i].mask
      BY <1>4, <2>1, <2>2
    <2>4. apc' = "detect" => n = 0
      BY <1>1
    <2>5. ~Dropping'
      BY <1>1 DEF Dropping
    <2>6. QED
      BY <1>2, <1>3, <2>3, <2>4, <2>5 DEF BatchKnown
  <1>6. ErrReset' /\ \A c : Pending(c)' => Pending(c)
    BY <1>2, ConnEdge
  <1>7. ASSUME NEW c \in reg, Listed(c), Pending(c)
        PROVE  \E i \in 1 .. n : evs'[i].who = c /\ (conn[c].peer = "rst" => "EPOLLHUP" \in evs'[i].mask)
    <2>1. PICK j \in DOMAIN rdy : rdy[j] = c
      BY <1>7 DEF Listed, Elems
    <2>2. c # Listen
      BY <1>3, NamesAssumption
    <2>3. Event(c).mask = PollMask(c) /\ PollMask(c) # {}
      BY <1>7, <2>2, PendingMask DEF Event
    <2>4. PICK k \in 1 .. n : at[k] = j
      <3>1. {at[k] : k \in 1 .. n} = {i \in DOMAIN rdy : Event(rdy[i]).mask # {}}
        BY <1>1 DEF Reported
      <3>2. j \in {i \in DOMAIN rdy : Event(rdy[i]).mask # {}}
        BY <2>1, <2>3
      <3>3. j \in {at[k] : k \in 1 .. n}
        BY <3>1, <3>2
      <3>4. QED
        BY <3>3
    <2>5. evs'[k] = Event(c)
      BY <1>1, <2>1, <2>4
    <2>6. conn[c].peer = "rst" => "EPOLLHUP" \in PollMask(c)
      BY DEF PollMask
    <2>7. QED
      BY <1>4, <2>3, <2>5, <2>6
  <1>8. \A c : ~Batched(c) /\ (SeenReset(c) => Listed(c))
    BY <1>2, <1>3 DEF EInv, BatchKnown, Batched, SeenReset
  <1>9. \A c \in reg : Pending(c)' /\ (Listed(c) \/ Batched(c)) => Batched(c)'
    BY <1>2, <1>3, <1>6, <1>7, <1>8 DEF Batched
  <1>10. \A c \in reg : conn'[c].peer = "rst" /\ SeenReset(c) => SeenReset(c)'
    <2>1. \A c : conn[c].peer = "rst" => Pending(c)
      BY DEF Pending
    <2>2. QED
      BY <1>2, <1>3, <1>7, <1>8, <2>1 DEF SeenReset
  <1>11. QED
    BY <1>2, <1>5, <1>6, <1>9, <1>10, AccessEdge DEF Grown

\* The batch is left at its end, or at an event of a socket that is not
\* registered any more.
LEMMA EndBatchEdge ==
    ASSUME IInv, EInv, EndBatch, UNCHANGED <<conn, reg, rdy, infofd, que>>, UNCHANGED wvars,
           nxt >= Len(evs), nxt <= Len(evs) => evs[nxt].who \notin reg
    PROVE  EInv'
  <1>1. /\ apc' = "detect" /\ evs' = <<>> /\ nxt' = 1 /\ nxt \in Nat /\ Len(evs) \in Nat
    BY DEF EndBatch, IInv, AccessTypes
  <1>2. BatchKnown'
    BY <1>1 DEF BatchKnown, Dropping
  <1>3. ErrReset' /\ \A c : Pending(c)' => Pending(c)
    BY ConnEdge
  <1>4. \A c \in reg : ~Batched(c) /\ (SeenReset(c) => Listed(c))
    <2>1. \A i \in nxt .. Len(evs) : i = nxt /\ nxt <= Len(evs)
      BY <1>1
    <2>2. QED
      BY <2>1 DEF Batched, SeenReset
  <1>5. \A c : Listed(c) => Listed(c)'
    BY DEF Listed
  <1>6. \A c \in reg : SeenReset(c) => SeenReset(c)'
    BY <1>4, <1>5 DEF SeenReset
  <1>7. QED
    BY <1>2, <1>3, <1>4, <1>5, <1>6, AccessEdge DEF Grown

LEMMA ExhaustedEdge == ASSUME IInv, EInv, CheckExhausted PROVE EInv'
  <1>1. /\ nxt > Len(evs) /\ EndBatch /\ UNCHANGED <<infofd, que>>
        /\ UNCHANGED kvars /\ UNCHANGED wvars
    BY DEF CheckExhausted
  <1>2. nxt \in Nat /\ Len(evs) \in Nat
    BY DEF IInv, AccessTypes
  <1>3. nxt >= Len(evs) /\ ~(nxt <= Len(evs))
    BY <1>1, <1>2
  <1>4. UNCHANGED <<conn, reg, rdy>>
    BY <1>1 DEF kvars
  <1>5. QED
    BY <1>1, <1>3, <1>4, EndBatchEdge

\* Deliver fills a block, unless the queue refuses.
LEMMA DeliverEdge ==
    ASSUME IInv, NEW s \in SockInfo, Deliver(s), NoneRefused
    PROVE  /\ QueOf[s.who] \in Workers /\ Grown
           /\ que' = [que EXCEPT ![QueOf[s.who]] = Append(que[QueOf[s.who]], s)]
  <1>1. nxt' = nxt + 1 /\ (UNCHANGED que
            \/ que' = [que EXCEPT ![QueOf[s.who]] = Append(que[QueOf[s.who]], s)])
    BY DEF Deliver
  <1>2. que' = [que EXCEPT ![QueOf[s.who]] = Append(que[QueOf[s.who]], s)]
    BY <1>1 DEF NoneRefused
  <1>3. QueOf[s.who] \in Workers
    BY WorkersAssumption DEF SockInfo
  <1>4. QED
    BY <1>2, <1>3 DEF Grown

\* The access thread goes on to the next event: only the event it was at
\* leaves the batch.
LEMMA NextEdge ==
    ASSUME IInv, EInv, nxt <= Len(evs), nxt' = nxt + 1, UNCHANGED evs, apc' = "check"
    PROVE  /\ BatchKnown'
           /\ \A c : Batched(c) /\ c # evs[nxt].who => Batched(c)'
           /\ \A c : /\ SeenReset(c) /\ (Listed(c) => Listed(c)')
                     /\ (c # evs[nxt].who \/ "EPOLLHUP" \notin evs[nxt].mask)
                     => SeenReset(c)'
  <1>1. nxt \in Nat /\ Len(evs) \in Nat
    BY AtEvent
  <1>2. \A i \in nxt .. Len(evs) : i = nxt \/ i \in nxt' .. Len(evs')
    BY <1>1
  <1>3. BatchKnown'
    BY DEF EInv, BatchKnown, Dropping
  <1>4. \A c : Batched(c) /\ c # evs[nxt].who => Batched(c)'
    BY <1>2 DEF Batched
  <1>5. \A c : /\ SeenReset(c) /\ (Listed(c) => Listed(c)')
               /\ (c # evs[nxt].who \/ "EPOLLHUP" \notin evs[nxt].mask)
               => SeenReset(c)'
    BY <1>2 DEF SeenReset
  <1>6. QED
    BY <1>3, <1>4, <1>5

\* accept: the event is the listener's, the new connection is not registered.
LEMMA ListenEdge == ASSUME IInv, EInv, CheckListen, NoneRefused, NotCut PROVE EInv'
  <1>0. /\ apc = "check" /\ nxt <= Len(evs) /\ evs[nxt].who = Listen
        /\ UNCHANGED <<reg, rdy>> /\ UNCHANGED wvars
    BY DEF CheckListen
  <1>1. reg \subseteq Clients /\ \A c \in reg : c # Listen
    BY NamesAssumption DEF IInv, KernelTypes
  <1>2. \A c : Listed(c) => Listed(c)'
    BY <1>0 DEF Listed
  <1>3. CASE si # None /\ Deliver(si) /\ UNCHANGED <<backlog, conn, fdt, infofd>>
    <2>1. si \in SockInfo
      BY <1>3 DEF IInv, AccessTypes
    <2>2. Grown
      BY <1>3, <2>1, DeliverEdge
    <2>3. nxt' = nxt + 1 /\ UNCHANGED evs /\ apc' = "check"
      BY <1>3 DEF Deliver
    <2>4. /\ BatchKnown' /\ \A c \in reg : Batched(c) => Batched(c)'
          /\ \A c \in reg : SeenReset(c) => SeenReset(c)'
      BY <1>0, <1>1, <1>2, <2>3, NextEdge
    <2>5. ErrReset' /\ \A c : Pending(c)' => Pending(c)
      BY <1>3, ConnEdge
    <2>6. QED
      BY <1>0, <1>2, <1>3, <2>2, <2>4, <2>5, AccessEdge
  <1>4. ASSUME NEW f \in Fds, backlog # <<>>,
               conn' = [conn EXCEPT ![Head(backlog)].st = "open"],
               infofd' \in {infofd, [infofd EXCEPT ![Head(backlog)] = f]},
               UNCHANGED que,
               \/ apc' = "add" /\ UNCHANGED <<evs, nxt>>
               \/ EndBatch
        PROVE  EInv'
    <2> DEFINE c == Head(backlog)
    <2>1. conn' = [conn EXCEPT ![c] = [conn[c] EXCEPT !.st = "open"]]
      BY <1>4
    <2>2. backlog \in Seq(Clients) /\ backlog # <<>> /\ conn \in [Clients -> ConnType]
          /\ infofd \in [Clients -> Fds \cup {None}]
      BY <1>4 DEF IInv, KernelTypes, AccessTypes
    <2>3. c \in Clients /\ c = backlog[1] /\ 1 \in 1 .. Len(backlog)
      BY <2>2
    <2>4. conn[c].st = "backlog"
      BY <2>3 DEF IInv, Waiting
    <2>5. c \notin reg
      BY <1>1, <2>3, <2>4, NamesAssumption DEF IInv, Table
    <2>6. \A n \in ConnType : LET m == [n EXCEPT !.st = "open"]
                              IN  m.err = n.err /\ m.peer = n.peer /\ m.unread = n.unread
      BY DEF ConnType
    <2>9. \A d \in reg : infofd'[d] = infofd[d]
      BY <1>1, <1>4, <2>2, <2>5
    <2> HIDE DEF c
    <2>7. \A d \in Clients : /\ conn'[d].err = conn[d].err /\ conn'[d].peer = conn[d].peer
                             /\ conn'[d].unread = conn[d].unread
      BY <2>1, <2>2, <2>3, <2>6
    <2>8. ErrReset' /\ \A d \in reg : Pending(d)' => Pending(d)
      BY <1>1, <2>7 DEF EInv, ErrReset, Pending
    <2>10. CASE apc' = "add" /\ UNCHANGED <<evs, nxt>>
      <3>1. BatchKnown'
        BY <2>10 DEF EInv, BatchKnown, Dropping
      <3>2. \A d : (Batched(d) => Batched(d)') /\ (SeenReset(d) => SeenReset(d)')
        BY <1>2, <2>10 DEF Batched, SeenReset
      <3>3. QED
        BY <1>0, <1>1, <1>2, <1>4, <2>7, <2>8, <2>9, <3>1, <3>2, AccessEdge DEF Grown
    <2>11. CASE EndBatch
      <3>1. /\ apc' = "detect" /\ evs' = <<>> /\ nxt' = 1 /\ nxt \in Nat /\ Len(evs) \in Nat
            /\ nxt >= Len(evs)
        BY <1>0, <2>11 DEF EndBatch, IInv, AccessTypes, NotCut
      <3>2. BatchKnown'
        BY <3>1 DEF BatchKnown, Dropping
      <3>3. \A d \in reg : ~Batched(d) /\ (SeenReset(d) => Listed(d))
        <4>1. \A i \in nxt .. Len(evs) : i = nxt
          BY <3>1
        <4>2. QED
          BY <1>0, <1>1, <4>1 DEF Batched, SeenReset
      <3>4. \A d \in reg : SeenReset(d) => SeenReset(d)'
        BY <1>2, <3>3 DEF SeenReset
      <3>5. QED
        BY <1>0, <1>1, <1>2, <1>4, <2>7, <2>8, <2>9, <3>2, <3>3, <3>4, AccessEdge DEF Grown
    <2>12. QED
      BY <1>4, <2>10, <2>11
  <1>5. QED
    BY <1>3, <1>4 DEF CheckListen

\* EPOLL_CTL_ADD: a socket that is ready already goes to the ready list.
LEMMA AddEdge == ASSUME IInv, EInv, CheckAdd, NoneRefused, NotCut PROVE EInv'
  <1>0. /\ apc = "add" /\ UNCHANGED <<conn, fdt, infofd>> /\ UNCHANGED wvars
    BY DEF CheckAdd
  <1>1. /\ nxt <= Len(evs) /\ evs[nxt].who = Listen /\ si \in SockInfo
        /\ reg \subseteq Clients /\ \A c \in Clients : c # Listen
    BY <1>0, NamesAssumption DEF IInv, Batch, KernelTypes
  <1>2. CASE fdt[si.fd] = None
    <2>1. EndBatch /\ UNCHANGED <<reg, rdy, si, que>>
      BY <1>2 DEF CheckAdd
    <2>2. nxt >= Len(evs)
      BY <1>0, <2>1 DEF EndBatch, NotCut
    <2>3. evs[nxt].who \notin reg
      BY <1>1
    <2>4. QED
      BY <1>0, <2>1, <2>2, <2>3, EndBatchEdge
  <1>3. CASE fdt[si.fd] # None
    <2> DEFINE d == fdt[si.fd]
    <2>1. /\ reg' = reg \cup {d} /\ Deliver(si)
          /\ rdy' = IF PollMask(d) # {} THEN Wake(rdy, d) ELSE rdy
      BY <1>3 DEF CheckAdd
    <2>2. d \in Clients /\ rdy \in Seq(Clients \cup {Listen})
      BY <1>1, <1>3 DEF IInv, KernelTypes, SockInfo
    <2> HIDE DEF d
    <2>3. /\ Grown
      BY <1>1, <2>1, DeliverEdge
    <2>4. nxt' = nxt + 1 /\ UNCHANGED evs /\ apc' = "check"
      BY <2>1 DEF Deliver
    <2>5. \A c : Listed(c) => Listed(c)'
      BY <2>1, <2>2, WakeElems DEF Listed
    <2>6. /\ BatchKnown' /\ \A c \in reg : Batched(c) => Batched(c)'
          /\ \A c \in reg : SeenReset(c) => SeenReset(c)'
      BY <1>1, <2>4, <2>5, NextEdge
    <2>7. ErrReset' /\ \A c : Pending(c)' => Pending(c)
      BY <1>0, ConnEdge
    <2>8. \A c : c = d /\ Pending(c) => Listed(c)'
      BY <2>1, <2>2, PendingMask, WakeElems DEF Listed
    <2>9. \A c : conn[c].peer = "rst" => Pending(c)
      BY DEF Pending
    <2>10. QED
      BY <1>0, <2>1, <2>3, <2>5, <2>6, <2>7, <2>8, <2>9, AccessEdge
  <1>4. QED
    BY <1>2, <1>3

\* An event of a client: with data only, it moves to the queue of its worker.
LEMMA ClientEdge == ASSUME IInv, EInv, CheckClient, NoneRefused PROVE EInv'
  <1> DEFINE c == evs[nxt].who
             mask == evs[nxt].mask
             s == [who |-> c, fd |-> infofd[c], sock_status |-> "SST_UNKNOWN"]
  <1>0. /\ apc = "check" /\ nxt <= Len(evs) /\ c # Listen
        /\ UNCHANGED infofd /\ UNCHANGED kvars /\ UNCHANGED wvars
    BY DEF CheckClient
  <1>1. UNCHANGED <<conn, reg, rdy>>
    BY <1>0 DEF kvars
  <1>2. c \in Clients /\ Accepted(c) /\ nxt \in 1 .. Len(evs)
    BY <1>0, AtEvent DEF IInv, Batch
  <1>3. \A d : Listed(d) => Listed(d)'
    BY <1>1 DEF Listed
  <1>4. ErrReset' /\ \A d : Pending(d)' => Pending(d)
    BY <1>1, ConnEdge
  <1>5. CASE mask \cap {"EPOLLHUP", "EPOLLERR"} = {}
    <2>1. "EPOLLIN" \in mask /\ "EPOLLOUT" \notin mask /\ "EPOLLHUP" \notin mask
      <3>1. evs[nxt] \in EventType
        BY <1>2 DEF IInv, AccessTypes
      <3>2. mask \in Masks /\ mask # {}
        BY <3>1 DEF EventType
      <3>3. "EPOLLOUT" \notin mask
        BY <1>0, <1>2 DEF EInv, BatchKnown
      <3>4. QED
        BY <1>5, <3>2, <3>3 DEF Masks
    <2> DEFINE t == [who |-> c, fd |-> infofd[c], sock_status |-> "SST_DATA_IN"]
               w == QueOf[c]
    <2>2. LastTests(s, mask)
      BY <1>5 DEF CheckClient
    <2>3. [s EXCEPT !.sock_status = IF "EPOLLOUT" \in mask THEN "SST_DATA_OUT"
                 ELSE IF "EPOLLIN" \in mask THEN "SST_DATA_IN" ELSE @] = t
      BY <2>1
    <2>4. Deliver(t)
      BY <2>2, <2>3 DEF LastTests
    <2>5. t \in SockInfo /\ t.who = c /\ t.fd = infofd[c] /\ t.sock_status = "SST_DATA_IN"
      BY <1>2 DEF SockInfo, SST, Accepted
    <2> HIDE DEF t
    <2>6. /\ w \in Workers /\ Grown /\ que' = [que EXCEPT ![w] = Append(que[w], t)]
      BY <2>4, <2>5, DeliverEdge
    <2>7. nxt' = nxt + 1 /\ UNCHANGED evs /\ apc' = "check"
      BY <2>4 DEF Deliver
    <2> HIDE DEF s, w
    <2>8. /\ BatchKnown' /\ \A d : Batched(d) /\ d # c => Batched(d)'
          /\ \A d : SeenReset(d) => SeenReset(d)'
      BY <1>0, <1>3, <2>1, <2>7, NextEdge
    <2>9. \A d : d = c => Queued(d)'
      <3>1. que[w] \in Seq(SockInfo) /\ que \in [Workers -> Seq(SockInfo)]
        BY <2>6 DEF IInv, QueueTypes
      <3>2. que'[w] = Append(que[w], t)
        BY <2>6, <3>1
      <3>3. /\ Len(que[w]) + 1 \in DOMAIN que'[w] /\ que'[w][Len(que[w]) + 1] = t
            /\ (Len(que[w]) + 1 = 1 => que[w] = <<>>)
        BY <2>5, <3>1, <3>2
      <3>4. UNCHANGED wpc /\ (que[w] = <<>> => wpc[w] = "poll")
        <4>1. UNCHANGED wpc
          BY <1>0 DEF wvars
        <4>2. que[w] = <<>> => wpc[w] \in {"poll", "exit"}
          BY <2>6 DEF IInv, Held
        <4>3. QED
          BY <2>6, <4>1, <4>2 DEF EInv, Working
      <3> DEFINE k == Len(que[w]) + 1
      <3> HIDE DEF k
      <3>5. k \in DOMAIN que'[w] /\ que'[w][k] = t /\ (k = 1 => wpc'[w] = "poll")
        BY <3>3, <3>4 DEF k
      <3>6. infofd'[c] = t.fd
        BY <1>0, <2>5
      <3> HIDE DEF c
      <3>7. \E v \in Workers : \E i \in DOMAIN que'[v] :
               /\ que'[v][i].fd = infofd'[c] /\ que'[v][i].sock_status = "SST_DATA_IN"
               /\ i = 1 => wpc'[v] = "poll"
        BY <2>5, <2>6, <3>5, <3>6
      <3>8. QED
        BY <3>7 DEF Queued
    <2>10. QED
      BY <1>0, <1>1, <1>3, <1>4, <2>6, <2>8, <2>9, AccessEdge
  <1>6. CASE mask \cap {"EPOLLHUP", "EPOLLERR"} # {}
    <2>1. /\ freed' = freed \cup {c} /\ apc' \in {"hup_del", "err_del"}
          /\ \E st : si' = [s EXCEPT !.sock_status = st]
          /\ UNCHANGED <<evs, nxt, que>>
      BY <1>6 DEF CheckClient
    <2>2. si'.who = c
      BY <2>1
    <2>3. BatchKnown'
      BY <2>1, <2>2 DEF EInv, BatchKnown, Dropping
    <2>4. \A d : (Batched(d) => Batched(d)') /\ (SeenReset(d) => SeenReset(d)')
      BY <1>3, <2>1 DEF Batched, SeenReset
    <2>5. QED
      BY <1>0, <1>1, <1>3, <1>4, <2>1, <2>3, <2>4, AccessEdge DEF Grown
  <1>7. QED
    BY <1>5, <1>6

\* EPOLL_CTL_DEL: the socket of the event is registered no more.
LEMMA DelEdge == ASSUME IInv, EInv, CheckDel, NotCut PROVE EInv'
  <1>0. /\ apc \in {"hup_del", "err_del"} /\ UNCHANGED <<conn, infofd, si, freed, que>>
        /\ UNCHANGED wvars
    BY DEF CheckDel
  <1>1. /\ nxt <= Len(evs) /\ evs[nxt].who = si.who /\ si.who \in freed
        /\ si.fd = infofd[si.who] /\ reg \subseteq Clients
        /\ rdy \in Seq(Clients \cup {Listen})
    BY <1>0 DEF IInv, Batch, KernelTypes, EInv, BatchKnown, Dropping
  <1>2. ErrReset' /\ \A c : Pending(c)' => Pending(c)
    BY <1>0, ConnEdge
  <1>3. CASE Registered(si.fd)
    <2> DEFINE d == fdt[si.fd]
    <2>1. /\ reg' = reg \ {d} /\ rdy' = Asleep(rdy, d)
          /\ apc' \in {"hup_close", "err_close"} /\ UNCHANGED <<evs, nxt>>
      BY <1>3 DEF CheckDel
    <2> HIDE DEF d
    <2>2. \A c \in reg' : Listed(c) => Listed(c)'
      BY <1>1, <2>1, AsleepElems DEF Listed
    <2>3. \A c \in reg' : (Batched(c) => Batched(c)') /\ (SeenReset(c) => SeenReset(c)')
      BY <2>1, <2>2 DEF Batched, SeenReset
    <2>4. BatchKnown'
      BY <1>0, <1>1, <2>1 DEF EInv, BatchKnown, Dropping
    <2>5. QED
      BY <1>0, <1>2, <2>1, <2>2, <2>3, <2>4, AccessEdge DEF Grown
  <1>4. CASE ~Registered(si.fd)
    <2>1. EndBatch /\ UNCHANGED <<reg, rdy>>
      BY <1>4 DEF CheckDel
    <2>2. nxt >= Len(evs)
      BY <1>0, <2>1 DEF EndBatch, NotCut
    <2>3. si.who \notin reg
      BY <1>1, <1>4, NamesAssumption DEF Registered, IInv, Table
    <2>4. QED
      BY <1>0, <1>1, <2>1, <2>2, <2>3, EndBatchEdge
  <1>5. QED
    BY <1>3, <1>4

\* close: the event that is left behind is of a socket that was taken out.
LEMMA CheckCloseEdge == ASSUME IInv, EInv, CheckClose, NoneRefused PROVE EInv'
  <1>0. /\ apc \in {"hup_close", "err_close"} /\ Close(si.fd) /\ UNCHANGED <<infofd, freed>>
        /\ UNCHANGED wvars
    BY DEF CheckClose
  <1>1. /\ nxt <= Len(evs) /\ evs[nxt].who = si.who /\ si.who \in freed /\ si \in SockInfo
        /\ reg \subseteq Clients
    BY <1>0 DEF IInv, Batch, KernelTypes, EInv, BatchKnown, Dropping
  <1>2. si.fd \in Fds
    BY <1>1 DEF SockInfo
  <1>3. /\ reg' \subseteq reg
        /\ \A c \in reg' : Listed(c) => Listed(c)'
        /\ \A c \in Clients : /\ conn'[c].peer = conn[c].peer /\ conn'[c].err = conn[c].err
                              /\ conn'[c].unread = conn[c].unread
    BY <1>0, <1>2, CloseEdge
  <1>4. ErrReset' /\ \A c \in reg' : Pending(c)' => Pending(c)
    BY <1>1, <1>3 DEF EInv, ErrReset, Pending
  <1>5. evs[nxt].who \notin reg'
    BY <1>0, <1>1, <1>3 DEF IInv, Freed
  <1>6. CASE apc = "hup_close" /\ "EPOLLERR" \in evs[nxt].mask
    <2>1. /\ si' = [si EXCEPT !.sock_status = "SST_ERR"] /\ apc' = "err_del"
          /\ UNCHANGED <<evs, nxt, que>>
      BY <1>6 DEF CheckClose
    <2>2. si'.who = si.who
      BY <1>1, <2>1 DEF SockInfo
    <2>3. BatchKnown'
      BY <1>0, <1>1, <2>1, <2>2 DEF EInv, BatchKnown, Dropping
    <2>4. \A c \in reg' : (Batched(c) => Batched(c)') /\ (SeenReset(c) => SeenReset(c)')
      BY <1>3, <2>1 DEF Batched, SeenReset
    <2>5. QED
      BY <1>0, <1>1, <1>3, <1>4, <2>1, <2>3, <2>4, AccessEdge DEF Grown
  <1>7. CASE LastTests(si, evs[nxt].mask)
    <2> DEFINE t == [si EXCEPT !.sock_status =
                       IF "EPOLLOUT" \in evs[nxt].mask THEN "SST_DATA_OUT"
                       ELSE IF "EPOLLIN" \in evs[nxt].mask THEN "SST_DATA_IN" ELSE @]
    <2>1. t \in SockInfo
      BY <1>1 DEF SockInfo, SST
    <2>2. Deliver(t)
      BY <1>7 DEF LastTests
    <2> HIDE DEF t
    <2>3. Grown
      BY <2>1, <2>2, DeliverEdge
    <2>4. nxt' = nxt + 1 /\ UNCHANGED evs /\ apc' = "check"
      BY <2>2 DEF Deliver
    <2>5. /\ BatchKnown' /\ \A c \in reg' : Batched(c) => Batched(c)'
          /\ \A c \in reg' : SeenReset(c) => SeenReset(c)'
      BY <1>1, <1>3, <1>5, <2>4, NextEdge
    <2>6. QED
      BY <1>0, <1>1, <1>3, <1>4, <2>3, <2>5, AccessEdge
  <1>8. QED
    BY <1>6, <1>7 DEF CheckClose

\* The edge of a registered socket is lost in four ways only: a batch is left
\* early, a full queue refuses an event, a worker ends, a read stops because
\* its buffer is full.  As long as none of them happens, every registered
\* socket with something to report has an event on its way, for any number
\* of workers, early closes and resets, descriptors reused in between.
THEOREM EdgesKept ==
    Spec /\ [][Kept]_vars => [](EdgesLive /\ NoLostEdge)
  <1>1. Init => EInv
    <2>1. SUFFICES ASSUME Init PROVE EInv
      OBVIOUS
    <2>2. BatchKnown /\ ErrReset /\ Working
      BY <2>1 DEF Init, BatchKnown, Dropping, ErrReset, Working
    <2>3. RstKnown /\ EdgesLive
      BY <2>1 DEF Init, RstKnown, EdgesLive
    <2>4. QED
      BY <2>2, <2>3 DEF EInv
  <1>2. ASSUME IInv, EInv, Next, Kept PROVE EInv'
    <2>0. NotCut /\ NoneRefused /\ NoneLeaves /\ NoneFull
      BY <1>2 DEF Kept
    <2>1. ASSUME NEW c \in Clients, Connect(c) \/ Send(c) \/ Finish(c) \/ Reset(c)
          PROVE  EInv'
      BY <1>2, <2>1, ConnectEdge, SendEdge, FinishEdge, ResetEdge
    <2>2. CASE Access
      BY <1>2, <2>0, <2>2, DetectEdge, ExhaustedEdge, ListenEdge, AddEdge, ClientEdge, DelEdge,
         CheckCloseEdge DEF Access
    <2>3. ASSUME NEW w \in Workers, Work(w) PROVE EInv'
      BY <1>2, <2>0, <2>3, HeadEdge, RecvEdge, ProcEdge, WorkCloseEdge, SwitchEdge, PopEdge DEF Work
    <2>4. QED
      BY <1>2, <2>1, <2>2, <2>3 DEF Next
  <1>3. ASSUME EInv, UNCHANGED vars PROVE EInv'
    <2>1. /\ UNCHANGED <<conn, reg, rdy>> /\ UNCHANGED <<apc, evs, nxt, si, infofd, freed, que>>
          /\ UNCHANGED <<wpc, recv_stat>>
      BY <1>3 DEF vars, kvars, avars, wvars
    <2>2. BatchKnown' /\ ErrReset' /\ Working'
      BY <1>3, <2>1 DEF EInv, BatchKnown, Dropping, ErrReset, Working
    <2>3. RstKnown'
      BY <1>3, <2>1 DEF EInv, RstKnown, SeenReset, Listed
    <2>4. EdgesLive'
      BY <1>3, <2>1 DEF EInv, EdgesLive, OnItsWay, PollMask
    <2>5. QED
      BY <2>2, <2>3, <2>4 DEF EInv
  <1>4. IInv /\ EInv /\ [Next]_vars /\ [Kept]_vars => EInv'
    BY <1>2, <1>3
  <1>5. EInv => EdgesLive /\ NoLostEdge
    BY DEF EInv, NoLostEdge
  <1>6. QED
    BY <1>1, <1>4, <1>5, ServerInvariant, PTL DEF Spec

-----------------------------------------------------------------------------
(* Closing, with clients that end their connections in order.              *)

\* No client resets: nothing but data and ends of connections is reported.
Quiet ==
    /\ \A c \in Clients : conn[c].peer # "rst" /\ ~conn[c].err
    /\ \A i \in 1 .. Len(evs) : evs[i].mask \subseteq {"EPOLLIN"}
    /\ ~Dropping

\* A worker that has seen the end of a connection still finds that connection
\* behind the descriptor.
EndSeen ==
    \A w \in Workers :
        /\ wpc[w] = "recv" => "RECV_DISC" \notin recv_stat[w]
        /\ wpc[w] = "close" => "RECV_DISC" \in recv_stat[w]
        /\ wpc[w] \in {"proc", "close"} /\ "RECV_DISC" \in recv_stat[w] =>
              /\ fdt[Head(que[w]).fd] # None
              /\ conn[fdt[Head(que[w]).fd]].peer = "fin"

CInv == Quiet /\ EndSeen

\* Steps that leave the workers where they are.
LEMMA EndFrame ==
    ASSUME IInv, CInv, Grown, UNCHANGED <<wpc, recv_stat>>,
           \A f \in Fds : fdt[f] # None => fdt'[f] = fdt[f],
           \A c \in Clients : conn[c].peer = "fin" => conn'[c].peer = "fin"
    PROVE  EndSeen'
  <1>1. ASSUME NEW w \in Workers, que[w] # <<>>
        PROVE  Head(que'[w]) = Head(que[w])
    <2>1. que \in [Workers -> Seq(SockInfo)]
      BY DEF IInv, QueueTypes
    <2>2. CASE UNCHANGED que
      BY <2>2
    <2>3. ASSUME NEW v \in Workers, NEW s \in SockInfo, que' = [que EXCEPT ![v] = Append(que[v], s)]
          PROVE  Head(que'[w]) = Head(que[w])
      <3>1. que'[w] = que[w] \/ que'[w] = Append(que[w], s)
        BY <2>1, <2>3
      <3>2. Head(Append(que[w], s)) = Head(que[w])
        BY <1>1, <2>1
      <3>3. QED
        BY <3>1, <3>2
    <2>4. QED
      BY <2>2, <2>3 DEF Grown
  <1> SUFFICES ASSUME NEW w \in Workers, wpc[w] \in {"proc", "close"}, "RECV_DISC" \in recv_stat[w]
               PROVE  /\ fdt'[Head(que'[w]).fd] # None
                      /\ conn'[fdt'[Head(que'[w]).fd]].peer = "fin"
    BY DEF CInv, EndSeen
  <1>2. que[w] # <<>> /\ Head(que[w]).fd \in Fds
    BY HeadBlock
  <1>3. /\ fdt[Head(que[w]).fd] # None /\ fdt[Head(que[w]).fd] \in Clients
        /\ conn[fdt[Head(que[w]).fd]].peer = "fin"
    BY HeadBlock DEF CInv, EndSeen
  <1>4. Head(que'[w]) = Head(que[w])
    BY <1>1, <1>2
  <1>5. QED
    BY <1>2, <1>3, <1>4

\* The peers of all connections, before and after.
Orderly == \A c \in Clients :
               /\ conn'[c].peer \in {"up", "fin"} /\ ~conn'[c].err
               /\ conn[c].peer = "fin" => conn'[c].peer = "fin"

LEMMA ClientEnd ==
    ASSUME ~Resets, IInv, CInv, NEW c \in Clients,
           Connect(c) \/ Send(c) \/ Finish(c) \/ Reset(c)
    PROVE  CInv'
  <1>1. UNCHANGED <<fdt, que>> /\ UNCHANGED avars /\ UNCHANGED wvars
    BY DEF Connect, Send, Finish, Reset
  <1>2. UNCHANGED <<apc, evs>> /\ UNCHANGED <<wpc, recv_stat>>
    BY <1>1 DEF avars, wvars
  <1>3. conn \in [Clients -> ConnType]
    BY DEF IInv, KernelTypes
  <1>4. Orderly
    <2>1. \A d \in Clients : conn[d].peer \in {"up", "fin"} /\ ~conn[d].err
      BY <1>3 DEF CInv, Quiet, ConnType
    <2>2. CASE Connect(c)
      <3>1. conn' = [conn EXCEPT ![c] = [conn[c] EXCEPT !.st = "backlog"]]
        BY <2>2 DEF Connect
      <3>2. \A n \in ConnType : LET m == [n EXCEPT !.st = "backlog"] IN m.peer = n.peer /\ m.err = n.err
        BY DEF ConnType
      <3>3. QED
        BY <1>3, <2>1, <3>1, <3>2 DEF Orderly
    <2>3. CASE Send(c)
      <3>1. conn' = [conn EXCEPT ![c].sent = @ + 1, ![c].unread = @ + 1]
        BY <2>3 DEF Send
      <3>2. \A n \in ConnType : LET m == [n EXCEPT !.sent = n.sent + 1, !.unread = n.unread + 1]
                                IN  m.peer = n.peer /\ m.err = n.err
        BY DEF ConnType
      <3>3. QED
        BY <1>3, <2>1, <3>1, <3>2 DEF Orderly
    <2>4. CASE Finish(c)
      <3>1. conn' = [conn EXCEPT ![c] = [conn[c] EXCEPT !.peer = "fin"]]
        BY <2>4 DEF Finish
      <3>2. \A n \in ConnType : LET m == [n EXCEPT !.peer = "fin"] IN m.peer = "fin" /\ m.err = n.err
        BY DEF ConnType
      <3>3. QED
        BY <1>3, <2>1, <3>1, <3>2 DEF Orderly
    <2>5. ~Reset(c)
      BY DEF Reset
    <2>6. QED
      BY <2>2, <2>3, <2>4, <2>5
  <1>5. Quiet'
    BY <1>2, <1>4 DEF Orderly, CInv, Quiet, Dropping
  <1>6. EndSeen'
    BY <1>1, <1>2, <1>4, EndFrame DEF Orderly, Grown
  <1>7. QED
    BY <1>5, <1>6 DEF CInv

\* The access thread, which has nothing to close.
LEMMA AccessEnd ==
    ASSUME IInv, CInv, Access
    PROVE  CInv' /\ \A c \in Clients : conn[c].st = "open" => conn'[c].st = "open"
  <1>0. /\ conn \in [Clients -> ConnType] /\ ~Dropping
        /\ \A c \in Clients : conn[c].peer # "rst" /\ ~conn[c].err
        /\ \A i \in 1 .. Len(evs) : evs[i].mask \subseteq {"EPOLLIN"}
    BY DEF IInv, KernelTypes, CInv, Quiet
  <1>1. ASSUME Grown, UNCHANGED wvars, apc' \in {"detect", "check", "add"},
               evs' \in {evs, <<>>} \/ \A i \in 1 .. Len(evs') : evs'[i].mask \subseteq {"EPOLLIN"},
               \A f \in Fds : fdt[f] # None => fdt'[f] = fdt[f],
               \A c \in Clients : conn'[c].peer = conn[c].peer /\ conn'[c].err = conn[c].err
        PROVE  CInv'
    <2>1. UNCHANGED <<wpc, recv_stat>>
      BY <1>1 DEF wvars
    <2>2. Quiet'
      <3>1. ~Dropping'
        BY <1>1 DEF Dropping
      <3>2. \A i \in 1 .. Len(evs') : evs'[i].mask \subseteq {"EPOLLIN"}
        BY <1>0, <1>1
      <3>3. QED
        BY <1>0, <1>1, <3>1, <3>2 DEF Quiet
    <2>3. EndSeen'
      BY <1>1, <2>1, EndFrame
    <2>4. QED
      BY <2>2, <2>3 DEF CInv
  <1>2. ASSUME NEW s \in SockInfo, Deliver(s)
        PROVE  Grown /\ apc' = "check" /\ evs' = evs
    <2>1. QueOf[s.who] \in Workers
      BY WorkersAssumption DEF SockInfo
    <2>2. QED
      BY <1>2, <2>1 DEF Deliver, Grown
  <1>3. CASE Detect
    <2>1. UNCHANGED <<conn, fdt, que>> /\ UNCHANGED wvars /\ apc' \in {"detect", "check"}
      BY <1>3 DEF Detect
    <2>2. \A i \in 1 .. Len(evs') : evs'[i].mask \subseteq {"EPOLLIN"}
      <3>0. PICK n \in 0 .. Len(rdy) : \E at \in [1 .. n -> DOMAIN rdy] :
               evs' = [k \in 1 .. n |-> Event(rdy[at[k]])]
        BY <1>3 DEF Detect
      <3>1. PICK at \in [1 .. n -> DOMAIN rdy] : evs' = [k \in 1 .. n |-> Event(rdy[at[k]])]
        BY <3>0
      <3>2. \A x \in Clients \cup {Listen} : Event(x).mask \subseteq {"EPOLLIN"}
        BY <1>0 DEF Event, PollMask
      <3>3. \A j \in DOMAIN rdy : rdy[j] \in Clients \cup {Listen}
        BY DEF IInv, KernelTypes
      <3>4. n \in Nat /\ Len(evs') = n /\ \A k \in 1 .. n : at[k] \in DOMAIN rdy
        BY <3>1
      <3>5. \A k \in 1 .. n : evs'[k] = Event(rdy[at[k]])
        BY <3>1
      <3>6. QED
        BY <3>2, <3>3, <3>4, <3>5
    <2>3. QED
      BY <1>1, <2>1, <2>2 DEF Grown
  <1>4. CASE CheckExhausted
    <2>1. /\ apc' = "detect" /\ evs' = <<>> /\ UNCHANGED que /\ UNCHANGED kvars /\ UNCHANGED wvars
      BY <1>4 DEF CheckExhausted, EndBatch
    <2>2. UNCHANGED <<conn, fdt>>
      BY <2>1 DEF kvars
    <2>3. QED
      BY <1>1, <2>1, <2>2 DEF Grown
  <1>5. CASE CheckListen
    <2>0. UNCHANGED wvars
      BY <1>5 DEF CheckListen
    <2>1. CASE si # None /\ Deliver(si) /\ UNCHANGED <<backlog, conn, fdt, infofd>>
      <3>1. si \in SockInfo
        BY <2>1 DEF IInv, AccessTypes
      <3>2. QED
        BY <1>1, <1>2, <2>0, <2>1, <3>1
    <2>2. ASSUME NEW f \in {g \in Fds : fdt[g] = None},
                 conn' = [conn EXCEPT ![Head(backlog)].st = "open"],
                 fdt' = [fdt EXCEPT ![f] = Head(backlog)],
                 UNCHANGED que,
                 \/ apc' = "add" /\ UNCHANGED evs
                 \/ EndBatch
          PROVE  CInv' /\ \A c \in Clients : conn[c].st = "open" => conn'[c].st = "open"
      <3> DEFINE c == Head(backlog)
      <3>1. /\ conn' = [conn EXCEPT ![c] = [conn[c] EXCEPT !.st = "open"]]
            /\ fdt' = [fdt EXCEPT ![f] = c]
            /\ apc' \in {"detect", "add"} /\ evs' \in {evs, <<>>}
        BY <2>2 DEF EndBatch
      <3> HIDE DEF c
      <3>2. \A n \in ConnType : LET m == [n EXCEPT !.st = "open"]
                                IN  m.peer = n.peer /\ m.err = n.err /\ m.st = "open"
        BY DEF ConnType
      <3>3. \A d \in Clients : /\ conn'[d].peer = conn[d].peer /\ conn'[d].err = conn[d].err
                               /\ conn[d].st = "open" => conn'[d].st = "open"
        BY <1>0, <3>1, <3>2
      <3>4. \A g \in Fds : fdt[g] # None => fdt'[g] = fdt[g]
        BY <2>2, <3>1 DEF IInv, KernelTypes
      <3>5. QED
        BY <1>1, <2>0, <2>2, <3>1, <3>3, <3>4 DEF Grown
    <2>3. QED
      BY <1>5, <2>1, <2>2 DEF CheckListen
  <1>6. CASE CheckAdd
    <2>1. UNCHANGED <<conn, fdt>> /\ UNCHANGED wvars /\ si \in SockInfo
      BY <1>6 DEF CheckAdd, IInv, Batch
    <2>2. (EndBatch /\ UNCHANGED que) \/ Deliver(si)
      BY <1>6 DEF CheckAdd
    <2>3. CASE EndBatch /\ UNCHANGED que
      BY <1>1, <2>1, <2>3 DEF Grown, EndBatch
    <2>4. CASE Deliver(si)
      BY <1>1, <1>2, <2>1, <2>4
    <2>5. QED
      BY <2>2, <2>3, <2>4
  <1>7. CASE CheckClient
    <2> DEFINE c == evs[nxt].who
               s == [who |-> c, fd |-> infofd[c], sock_status |-> "SST_UNKNOWN"]
               t == [s EXCEPT !.sock_status =
                       IF "EPOLLOUT" \in evs[nxt].mask THEN "SST_DATA_OUT"
                       ELSE IF "EPOLLIN" \in evs[nxt].mask THEN "SST_DATA_IN" ELSE @]
    <2>1. nxt <= Len(evs) /\ c # Listen /\ UNCHANGED kvars /\ UNCHANGED wvars
      BY <1>7 DEF CheckClient
    <2>2. c \in Clients /\ Accepted(c) /\ nxt \in 1 .. Len(evs) /\ UNCHANGED <<conn, fdt>>
      BY <2>1, AtEvent DEF IInv, Batch, kvars
    <2>3. evs[nxt].mask \cap {"EPOLLHUP", "EPOLLERR"} = {}
      BY <1>0, <2>2
    <2>4. Deliver(t)
      BY <1>7, <2>3 DEF CheckClient, LastTests
    <2>5. t \in SockInfo
      BY <2>2 DEF SockInfo, SST, Accepted
    <2> HIDE DEF t
    <2>6. QED
      BY <1>1, <1>2, <2>1, <2>2, <2>4, <2>5
  <1>8. ~CheckDel /\ ~CheckClose
    BY <1>0 DEF CheckDel, CheckClose, Dropping
  <1>9. QED
    BY <1>3, <1>4, <1>5, <1>6, <1>7, <1>8 DEF Access

\* The one worker.
LEMMA WorkEnd ==
    ASSUME \A u, v \in Workers : u = v, IInv, CInv, NEW w \in Workers, Work(w)
    PROVE  /\ CInv'
           /\ \A c \in Clients : conn[c].st = "open" /\ conn'[c].st = "closed" => conn[c].peer # "up"
  <1>0. /\ conn \in [Clients -> ConnType]
        /\ \A c \in Clients : conn[c].peer # "rst" /\ ~conn[c].err
        /\ wpc \in [Workers -> {"poll", "recv", "proc", "close", "switch", "pop", "exit"}]
        /\ recv_stat \in [Workers -> SUBSET {"RECV_OK", "RECV_MEM_LACK", "RECV_DISC",
                                             "RECV_TIMEOUT", "RECV_ERR"}]
    BY DEF IInv, KernelTypes, WorkerTypes, CInv, Quiet
  <1>1. UNCHANGED avars
    BY DEF Work, WorkHead, WorkRecv, WorkProc, WorkClose, WorkSwitch, WorkPop
  <1>2. ASSUME \A c \in Clients : conn'[c].peer = conn[c].peer /\ conn'[c].err = conn[c].err,
               EndSeen'
        PROVE  CInv'
    <2>1. UNCHANGED <<apc, evs>>
      BY <1>1 DEF avars
    <2>2. QED
      BY <1>2, <2>1 DEF CInv, Quiet, Dropping
  <1>3. ASSUME wpc'[w] \notin {"recv", "proc", "close"} PROVE EndSeen'
    BY <1>3 DEF EndSeen
  <1>4. CASE WorkHead(w)
    <2>1. /\ UNCHANGED kvars
          /\ \/ wpc' = [wpc EXCEPT ![w] = "recv"] /\ recv_stat' = [recv_stat EXCEPT ![w] = {}]
             \/ wpc' = [wpc EXCEPT ![w] = "switch"]
      BY <1>4 DEF WorkHead
    <2>2. UNCHANGED conn
      BY <2>1 DEF kvars
    <2>3. EndSeen'
      <3>1. CASE wpc' = [wpc EXCEPT ![w] = "recv"] /\ recv_stat' = [recv_stat EXCEPT ![w] = {}]
        <4>1. wpc'[w] = "recv" /\ recv_stat'[w] = {}
          BY <1>0, <3>1
        <4>2. QED
          BY <4>1 DEF EndSeen
      <3>2. QED
        BY <1>0, <1>3, <2>1, <3>1
    <2>4. QED
      BY <1>2, <2>2, <2>3
  <1>5. CASE WorkRecv(w)
    <2> DEFINE h == Head(que[w]).fd
               c == fdt[h]
               room == BufSize - Len(rdbuf[w])
               n == IF conn[c].unread < room THEN conn[c].unread ELSE room
    <2>1. wpc[w] = "recv" /\ UNCHANGED <<fdt, que>>
      BY <1>5 DEF WorkRecv
    <2>2. "RECV_DISC" \notin recv_stat[w] /\ (c # None => c \in Clients)
      BY <2>1, HeadBlock DEF CInv, EndSeen
    <2>3. ASSUME wpc'[w] \in {"recv", "proc"}, "RECV_DISC" \notin recv_stat'[w] PROVE EndSeen'
      BY <2>3 DEF EndSeen
    <2>4. ASSUME NEW bits, RecvEnds(w, bits)
          PROVE  wpc'[w] = "proc" /\ recv_stat'[w] = bits
      BY <1>0, <2>4 DEF RecvEnds
    <2>5. CASE c = None
      <3>1. RecvEnds(w, (recv_stat[w] \cap {"RECV_ERR"}) \ {"RECV_OK"}) /\ UNCHANGED conn
        BY <1>5, <2>5 DEF WorkRecv
      <3>2. EndSeen'
        BY <2>3, <2>4, <3>1
      <3>3. QED
        BY <1>2, <3>1, <3>2
    <2>6. CASE c # None /\ conn[c].unread > 0
      <3>0. ~(c = None) /\ ~(conn[c].unread = 0)
        BY <2>6
      <3>1. /\ conn' = [conn EXCEPT ![c] = [conn[c] EXCEPT !.unread = conn[c].unread - n]]
            /\ recv_stat' = [recv_stat EXCEPT ![w] = @ \cup
                   (IF n = room THEN {"RECV_OK", "RECV_MEM_LACK"} ELSE {"RECV_OK"})]
            /\ wpc' = [wpc EXCEPT ![w] = IF n = room THEN "proc" ELSE "recv"]
        <4>1. /\ conn' = [conn EXCEPT ![c].unread = @ - n]
              /\ recv_stat' = [recv_stat EXCEPT ![w] = @ \cup
                     (IF n = room THEN {"RECV_OK", "RECV_MEM_LACK"} ELSE {"RECV_OK"})]
              /\ wpc' = [wpc EXCEPT ![w] = IF n = room THEN "proc" ELSE "recv"]
          BY <1>5, <3>0, Zenon DEF WorkRecv
        <4> HIDE DEF n, room, c
        <4>2. QED
          BY <4>1
      <3> HIDE DEF n, room, c
      <3>2. EndSeen'
        <4>1. wpc'[w] \in {"recv", "proc"} /\ "RECV_DISC" \notin recv_stat'[w]
          BY <1>0, <2>2, <3>1
        <4>2. QED
          BY <2>3, <4>1
      <3>3. \A x \in ConnType : \A m : LET y == [x EXCEPT !.unread = m]
                                       IN  y.peer = x.peer /\ y.err = x.err /\ y.st = x.st
        BY DEF ConnType
      <3>4. \A d \in Clients : /\ conn'[d].peer = conn[d].peer /\ conn'[d].err = conn[d].err
                               /\ conn'[d].st = conn[d].st
        BY <1>0, <2>2, <2>6, <3>1, <3>3
      <3>5. QED
        BY <1>2, <3>2, <3>4
    <2>7. CASE c # None /\ conn[c].unread = 0 /\ conn[c].peer # "up"
      <3>0. ~(c = None) /\ ~(conn[c].unread > 0) /\ ~conn[c].err /\ conn[c].peer # "up"
        BY <1>0, <2>2, <2>7
      <3>1. RecvEnds(w, recv_stat[w] \cup {"RECV_DISC"}) /\ UNCHANGED conn
        BY <1>5, <3>0, Zenon DEF WorkRecv
      <3>2. conn[c].peer = "fin"
        BY <1>0, <2>2, <2>7 DEF ConnType
      <3>3. wpc'[w] = "proc" /\ recv_stat'[w] = recv_stat[w] \cup {"RECV_DISC"}
        BY <2>4, <3>1
      <3>4. EndSeen'
        BY <2>1, <2>7, <3>1, <3>2, <3>3 DEF EndSeen
      <3>5. QED
        BY <1>2, <3>1, <3>4
    <2>8. CASE c # None /\ conn[c].unread = 0 /\ conn[c].peer = "up"
      <3>0. ~(c = None) /\ ~(conn[c].unread > 0) /\ ~conn[c].err /\ ~(conn[c].peer # "up")
        BY <1>0, <2>2, <2>8
      <3>1. /\ \/ RecvEnds(w, recv_stat[w] \cup {"RECV_TIMEOUT"})
               \/ UNCHANGED <<recv_stat, wpc, rdbuf>>
            /\ UNCHANGED conn
        BY <1>5, <3>0, Zenon DEF WorkRecv
      <3>2. EndSeen'
        BY <2>1, <2>2, <2>3, <2>4, <3>1
      <3>3. QED
        BY <1>2, <3>1, <3>2
    <2>9. QED
      <3>1. c # None => conn[c].unread \in Nat
        BY <1>0, <2>2, BoundsAssumption DEF ConnType
      <3>2. QED
        BY <2>5, <2>6, <2>7, <2>8, <3>1
  <1>6. CASE WorkProc(w)
    <2>1. /\ wpc[w] = "proc" /\ UNCHANGED kvars /\ UNCHANGED <<que, recv_stat>>
      BY <1>6 DEF WorkProc
    <2>2. \E pc \in {"exit", IF "RECV_DISC" \in recv_stat[w] THEN "close" ELSE "switch"} :
              wpc' = [wpc EXCEPT ![w] = pc]
      BY <1>6 DEF WorkProc
    <2>3. UNCHANGED <<conn, fdt>>
      BY <2>1 DEF kvars
    <2>4. EndSeen'
      <3>1. CASE wpc' = [wpc EXCEPT ![w] = "close"] /\ "RECV_DISC" \in recv_stat[w]
        <4>1. wpc'[w] = "close"
          BY <1>0, <3>1
        <4>2. QED
          BY <2>1, <2>3, <3>1, <4>1 DEF CInv, EndSeen
      <3>2. CASE wpc' \in {[wpc EXCEPT ![w] = "switch"], [wpc EXCEPT ![w] = "exit"]}
        BY <1>0, <1>3, <3>2
      <3>3. QED
        BY <2>2, <3>1, <3>2
    <2>5. QED
      BY <1>2, <2>3, <2>4
  <1>7. CASE WorkClose(w)
    <2> DEFINE h == Head(que[w]).fd
               c == fdt[h]
    <2>1. wpc[w] = "close" /\ Close(h) /\ wpc' = [wpc EXCEPT ![w] = "switch"]
      BY <1>7 DEF WorkClose
    <2>2. c # None /\ c \in Clients /\ conn[c].peer = "fin"
      BY <2>1, HeadBlock DEF CInv, EndSeen
    <2>3. conn' = [conn EXCEPT ![c] = [conn[c] EXCEPT !.st = "closed"]]
      BY <2>1, <2>2 DEF Close
    <2>4. EndSeen'
      BY <1>0, <1>3, <2>1
    <2> HIDE DEF c
    <2>5. \A x \in ConnType : LET y == [x EXCEPT !.st = "closed"] IN y.peer = x.peer /\ y.err = x.err
      BY DEF ConnType
    <2>6. \A d \in Clients : /\ conn'[d].peer = conn[d].peer /\ conn'[d].err = conn[d].err
                             /\ d # c => conn'[d] = conn[d]
      BY <1>0, <2>2, <2>3, <2>5
    <2>7. \A d \in Clients : conn[d].st = "open" /\ conn'[d].st = "closed" => d = c
      BY <2>6
    <2>8. QED
      BY <1>2, <2>2, <2>4, <2>6, <2>7
  <1>8. CASE WorkSwitch(w)
    <2> DEFINE c == fdt[Head(que[w]).fd]
    <2>1. wpc[w] = "switch" /\ wpc' = [wpc EXCEPT ![w] = "pop"]
      BY <1>8 DEF WorkSwitch
    <2>2. c # None => c \in Clients
      BY <2>1, HeadBlock
    <2>3. UNCHANGED conn
      <3>1. CASE proc_stat[w] # "PROC_ST_SENDBUF" \/ c = None
        BY <1>8, <3>1 DEF WorkSwitch
      <3>2. CASE ~(proc_stat[w] # "PROC_ST_SENDBUF" \/ c = None)
        <4>1. ~(conn[c].peer = "rst")
          BY <1>0, <2>2, <3>2
        <4>2. QED
          BY <1>8, <3>2, <4>1 DEF WorkSwitch
      <3>3. QED
        BY <3>1, <3>2
    <2>4. QED
      BY <1>0, <1>2, <1>3, <2>1, <2>3
  <1>9. CASE WorkPop(w)
    <2>1. UNCHANGED kvars /\ \E pc \in {"exit", "poll"} : wpc' = [wpc EXCEPT ![w] = pc]
      BY <1>9 DEF WorkPop
    <2>2. UNCHANGED conn
      BY <2>1 DEF kvars
    <2>3. QED
      BY <1>0, <1>2, <1>3, <2>1, <2>2
  <1>10. QED
    BY <1>4, <1>5, <1>6, <1>7, <1>8, <1>9 DEF Work

\* When no client resets its connection and there is one worker, the server
\* closes a connection only after its client has ended it, for any number of
\* clients and descriptors, with full queues and early closes: the late
\* close(fd) of nonblk_recvfrom never meets a newer connection.
THEOREM OrderlyCloses ==
    ASSUME ~Resets, \A u, v \in Workers : u = v
    PROVE  Spec => ClosesOnlyEnded
  <1>1. Init => CInv
    BY DEF Init, CInv, Quiet, EndSeen, Dropping
  <1> DEFINE Ended == \A c \in Clients : conn[c].st = "open" /\ conn'[c].st = "closed"
                                            => conn[c].peer # "up"
  <1>2. ASSUME IInv, CInv, Next PROVE CInv' /\ Ended
    <2>1. ASSUME NEW c \in Clients, Connect(c) \/ Send(c) \/ Finish(c) \/ Reset(c)
          PROVE  CInv' /\ Ended
      <3>1. CInv'
        BY <1>2, <2>1, ClientEnd
      <3>2. conn \in [Clients -> ConnType]
        BY <1>2 DEF IInv, KernelTypes
      <3>3. \A d \in Clients : conn[d].st = "open" => conn'[d].st = "open"
        <4>1. CASE Connect(c)
          BY <3>2, <4>1 DEF Connect
        <4>2. CASE Send(c)
          <5>1. conn' = [conn EXCEPT ![c].sent = @ + 1, ![c].unread = @ + 1]
            BY <4>2 DEF Send
          <5>2. \A n \in ConnType : [n EXCEPT !.sent = n.sent + 1, !.unread = n.unread + 1].st = n.st
            BY DEF ConnType
          <5>3. QED
            BY <3>2, <5>1, <5>2
        <4>3. CASE Finish(c)
          <5>1. conn' = [conn EXCEPT ![c] = [conn[c] EXCEPT !.peer = "fin"]]
            BY <4>3 DEF Finish
          <5>2. \A n \in ConnType : [n EXCEPT !.peer = "fin"].st = n.st
            BY DEF ConnType
          <5>3. QED
            BY <3>2, <5>1, <5>2
        <4>4. ~Reset(c)
          BY DEF Reset
        <4>5. QED
          BY <2>1, <4>1, <4>2, <4>3, <4>4
      <3>4. QED
        BY <3>1, <3>3
    <2>2. CASE Access
      BY <1>2, <2>2, AccessEnd
    <2>3. ASSUME NEW w \in Workers, Work(w) PROVE CInv' /\ Ended
      BY <1>2, <2>3, WorkEnd
    <2>4. QED
      BY <1>2, <2>1, <2>2, <2>3 DEF Next
  <1>3. ASSUME CInv, UNCHANGED vars PROVE CInv'
    <2>1. /\ UNCHANGED <<conn, fdt>> /\ UNCHANGED <<apc, evs, que>> /\ UNCHANGED <<wpc, recv_stat>>
      BY <1>3 DEF vars, kvars, avars, wvars
    <2>2. QED
      BY <1>3, <2>1 DEF CInv, Quiet, EndSeen, Dropping
  <1>4. IInv /\ CInv /\ [Next]_vars => CInv' /\ [Ended]_vars
    BY <1>2, <1>3
  <1>5. QED
    BY <1>1, <1>4, ServerInvariant, PTL DEF Spec, ClosesOnlyEnded


\* A closed connection was ended by its client, an open one that has a
\* sock_info_t has its descriptor, and the connection to be registered is the
\* one just accepted.
Opened ==
    /\ \A c \in Clients : conn[c].st = "closed" => conn[c].peer # "up"
    /\ \A c \in Clients : conn[c].st = "open" /\ infofd[c] # None =>
          infofd[c] \in Fds /\ fdt[infofd[c]] = c
    /\ apc = "add" => si.fd = infofd[si.who] /\ conn[si.who].st \in {"open", "closed"}

LEMMA OpenedFrame ==
    ASSUME IInv, Opened, UNCHANGED <<fdt, infofd>>, apc' = "add" => apc = "add" /\ si' = si,
           \A c \in Clients : conn[c].peer # "up" => conn'[c].peer # "up",
           \A c \in Clients : \/ conn'[c].st = conn[c].st
                              \/ conn[c].st = "new" /\ conn'[c].st = "backlog"
    PROVE  Opened'
  <1>1. apc' = "add" => si \in SockInfo /\ si' = si
    BY DEF IInv, Batch
  <1>2. apc' = "add" => si.who \in Clients
    BY <1>1 DEF SockInfo
  <1>3. conn \in [Clients -> ConnType]
    BY DEF IInv, KernelTypes
  <1>4. apc' = "add" => conn'[si.who].st = conn[si.who].st
    BY <1>2, <1>3 DEF Opened
  <1>5. QED
    BY <1>1, <1>2, <1>4 DEF Opened

LEMMA ClientOpened ==
    ASSUME IInv, Opened, NEW c \in Clients, Connect(c) \/ Send(c) \/ Finish(c) \/ Reset(c)
    PROVE  Opened'
  <1>1. UNCHANGED <<fdt, infofd>> /\ UNCHANGED <<apc, si>>
    BY DEF Connect, Send, Finish, Reset, avars
  <1>2. conn \in [Clients -> ConnType]
    BY DEF IInv, KernelTypes
  <1>3. \A d \in Clients :
           /\ conn[d].peer # "up" => conn'[d].peer # "up"
           /\ \/ conn'[d].st = conn[d].st
              \/ conn[d].st = "new" /\ conn'[d].st = "backlog"
    <2>1. CASE Connect(c)
      <3>1. conn[c].st = "new" /\ conn' = [conn EXCEPT ![c] = [conn[c] EXCEPT !.st = "backlog"]]
        BY <2>1 DEF Connect
      <3>2. \A n \in ConnType : LET m == [n EXCEPT !.st = "backlog"]
                                IN  m.peer = n.peer /\ m.st = "backlog"
        BY DEF ConnType
      <3>3. QED
        BY <1>2, <3>1, <3>2
    <2>2. CASE Send(c)
      <3>1. conn' = [conn EXCEPT ![c].sent = @ + 1, ![c].unread = @ + 1]
        BY <2>2 DEF Send
      <3>2. \A n \in ConnType : LET m == [n EXCEPT !.sent = n.sent + 1, !.unread = n.unread + 1]
                                IN  m.peer = n.peer /\ m.st = n.st
        BY DEF ConnType
      <3>3. QED
        BY <1>2, <3>1, <3>2
    <2>3. CASE Finish(c)
      <3>1. conn' = [conn EXCEPT ![c] = [conn[c] EXCEPT !.peer = "fin"]]
        BY <2>3 DEF Finish
      <3>2. \A n \in ConnType : LET m == [n EXCEPT !.peer = "fin"]
                                IN  m.peer = "fin" /\ m.st = n.st
        BY DEF ConnType
      <3>3. QED
        BY <1>2, <3>1, <3>2
    <2>4. CASE Reset(c)
      <3>1. conn' = [conn EXCEPT ![c] = [conn[c] EXCEPT !.peer = "rst", !.err = TRUE]]
        BY <2>4 DEF Reset
      <3>2. \A n \in ConnType : LET m == [n EXCEPT !.peer = "rst", !.err = TRUE]
                                IN  m.peer = "rst" /\ m.st = n.st
        BY DEF ConnType
      <3>3. QED
        BY <1>2, <3>1, <3>2
    <2>5. QED
      BY <2>1, <2>2, <2>3, <2>4
  <1>4. QED
    BY <1>1, <1>3, OpenedFrame


\* The step of accessor_check_status that ends a batch.
CutByEnd ==
    apc # "detect" /\ apc' = "detect"
      => \/ nxt > Len(evs)
         \/ \E c \in Clients : /\ conn[c].st = "backlog" /\ conn'[c].st = "open"
                               /\ infofd'[c] = None
         \/ conn[si.who].peer # "up"

LEMMA AccessOpened ==
    ASSUME IInv, CInv, Opened, Access
    PROVE  Opened' /\ CutByEnd
  <1>0. conn \in [Clients -> ConnType] /\ ~Dropping
    BY DEF IInv, KernelTypes, CInv, Quiet
  <1>1. CASE Detect
    <2>1. apc = "detect" /\ apc' \in {"detect", "check"} /\ UNCHANGED <<conn, fdt, infofd>>
      BY <1>1 DEF Detect
    <2>2. QED
      BY <2>1, OpenedFrame DEF CutByEnd
  <1>2. CASE CheckExhausted
    <2>1. nxt > Len(evs) /\ apc' = "detect" /\ UNCHANGED <<conn, fdt, infofd>>
      BY <1>2 DEF CheckExhausted, EndBatch, kvars
    <2>2. QED
      BY <2>1, OpenedFrame DEF CutByEnd
  <1>3. CASE CheckListen
    <2>1. CASE si # None /\ Deliver(si) /\ UNCHANGED <<backlog, conn, fdt, infofd>>
      <3>1. apc' = "check" /\ UNCHANGED <<conn, fdt, infofd>>
        BY <2>1 DEF Deliver
      <3>2. QED
        BY <3>1, OpenedFrame DEF CutByEnd
    <2>2. ASSUME NEW f \in {g \in Fds : fdt[g] = None}, backlog # <<>>,
                 backlog' = Tail(backlog),
                 fdt' = [fdt EXCEPT ![f] = Head(backlog)],
                 conn' = [conn EXCEPT ![Head(backlog)].st = "open"],
                 infofd' \in {infofd, [infofd EXCEPT ![Head(backlog)] = f]},
                 UNCHANGED <<reg, rdy, got, up>>
          PROVE  /\ \A d \in Clients : conn'[d].st = "closed" => conn'[d].peer # "up"
                 /\ \A d \in Clients : conn'[d].st = "open" /\ infofd'[d] # None =>
                       infofd'[d] \in Fds /\ fdt'[infofd'[d]] = d
                 /\ conn[Head(backlog)].st = "backlog" /\ conn'[Head(backlog)].st = "open"
                 /\ Head(backlog) \in Clients /\ infofd \in [Clients -> Fds \cup {None}]
                 /\ infofd[Head(backlog)] = None
      <3> DEFINE c == Head(backlog)
      <3>1. c \in Clients /\ conn[c].st = "backlog" /\ infofd[c] = None
        BY <2>2, AcceptKeeps
      <3>2. /\ f \in Fds /\ fdt[f] = None /\ fdt \in [Fds -> Clients \cup {None}]
            /\ infofd \in [Clients -> Fds \cup {None}]
        BY DEF IInv, KernelTypes, AccessTypes
      <3>3. \A d \in Clients : d # None
        BY NamesAssumption
      <3>4. conn' = [conn EXCEPT ![c] = [conn[c] EXCEPT !.st = "open"]]
        BY <2>2
      <3>5. \A n \in ConnType : LET m == [n EXCEPT !.st = "open"]
                                IN  m.peer = n.peer /\ m.st = "open"
        BY DEF ConnType
      <3>6. infofd'[c] \in {f, None} /\ \A d \in Clients : d # c => infofd'[d] = infofd[d]
        BY <2>2, <3>1, <3>2
      <3>7. fdt'[f] = c /\ \A g \in Fds : g # f => fdt'[g] = fdt[g]
        BY <2>2, <3>2
      <3> HIDE DEF c
      <3>8. conn'[c].st = "open" /\ \A d \in Clients : d # c => conn'[d] = conn[d]
        BY <1>0, <3>1, <3>4, <3>5
      <3>9. \A d \in Clients : conn'[d].st = "closed" => conn'[d].peer # "up"
        BY <3>8 DEF Opened
      <3>10. ASSUME NEW d \in Clients, conn'[d].st = "open", infofd'[d] # None
             PROVE  infofd'[d] \in Fds /\ fdt'[infofd'[d]] = d
        <4>1. CASE d = c
          BY <3>2, <3>6, <3>7, <3>10, <4>1
        <4>2. CASE d # c
          <5>1. infofd[d] \in Fds /\ fdt[infofd[d]] = d
            BY <3>6, <3>8, <3>10, <4>2 DEF Opened
          <5>2. infofd[d] # f
            BY <3>2, <3>3, <5>1
          <5>3. QED
            BY <3>6, <3>7, <4>2, <5>1, <5>2
        <4>3. QED
          BY <4>1, <4>2
      <3>11. QED
        BY <3>1, <3>2, <3>8, <3>9, <3>10 DEF c
    <2>3. ASSUME NEW f \in {g \in Fds : fdt[g] = None}, backlog # <<>>,
                 backlog' = Tail(backlog),
                 fdt' = [fdt EXCEPT ![f] = Head(backlog)],
                 conn' = [conn EXCEPT ![Head(backlog)].st = "open"],
                 infofd' = [infofd EXCEPT ![Head(backlog)] = f],
                 si' = [who |-> Head(backlog), fd |-> f, sock_status |-> "SST_INIT"],
                 apc' = "add", UNCHANGED <<reg, rdy, got, up>>
          PROVE  Opened' /\ CutByEnd
      <3>1. /\ \A d \in Clients : conn'[d].st = "closed" => conn'[d].peer # "up"
            /\ \A d \in Clients : conn'[d].st = "open" /\ infofd'[d] # None =>
                  infofd'[d] \in Fds /\ fdt'[infofd'[d]] = d
            /\ conn'[Head(backlog)].st = "open"
            /\ Head(backlog) \in Clients /\ infofd \in [Clients -> Fds \cup {None}]
        BY <2>2, <2>3
      <3>2. si'.fd = infofd'[si'.who] /\ conn'[si'.who].st \in {"open", "closed"}
        BY <2>3, <3>1
      <3>3. QED
        BY <2>3, <3>1, <3>2 DEF Opened, CutByEnd
    <2>4. ASSUME NEW f \in {g \in Fds : fdt[g] = None}, backlog # <<>>,
                 backlog' = Tail(backlog),
                 fdt' = [fdt EXCEPT ![f] = Head(backlog)],
                 conn' = [conn EXCEPT ![Head(backlog)].st = "open"],
                 EndBatch, UNCHANGED <<infofd, si, reg, rdy, got, up>>
          PROVE  Opened' /\ CutByEnd
      <3>1. /\ \A d \in Clients : conn'[d].st = "closed" => conn'[d].peer # "up"
            /\ \A d \in Clients : conn'[d].st = "open" /\ infofd'[d] # None =>
                  infofd'[d] \in Fds /\ fdt'[infofd'[d]] = d
            /\ conn[Head(backlog)].st = "backlog" /\ conn'[Head(backlog)].st = "open"
            /\ Head(backlog) \in Clients /\ infofd'[Head(backlog)] = None
        BY <2>2, <2>4
      <3>2. apc' = "detect"
        BY <2>4 DEF EndBatch
      <3>3. QED
        BY <3>1, <3>2 DEF Opened, CutByEnd
    <2>5. UNCHANGED <<reg, rdy, got, up>>
      BY <1>3 DEF CheckListen
    <2>6. QED
      BY <1>3, <2>1, <2>3, <2>4, <2>5 DEF CheckListen
  <1>4. CASE CheckAdd
    <2>1. UNCHANGED <<conn, fdt, infofd>> /\ apc = "add" /\ apc' \in {"detect", "check"}
      BY <1>4 DEF CheckAdd, EndBatch, Deliver
    <2>2. CutByEnd
      <3>1. CASE fdt[si.fd] = None
        <4>1. si \in SockInfo /\ si.fd = infofd[si.who] /\ conn[si.who].st \in {"open", "closed"}
          BY <2>1 DEF IInv, Batch, Opened
        <4>2. si.who \in Clients /\ si.who # None
          BY <4>1, NamesAssumption DEF SockInfo
        <4>3. conn[si.who].st # "open"
          <5>1. si.fd \in Fds /\ None \notin Fds
            BY <4>1, NamesAssumption DEF SockInfo, Fds
          <5>2. QED
            BY <3>1, <4>1, <4>2, <5>1 DEF Opened
        <4>4. QED
          BY <4>1, <4>2, <4>3 DEF Opened, CutByEnd
      <3>2. CASE fdt[si.fd] # None
        <4>1. Deliver(si)
          BY <1>4, <3>2 DEF CheckAdd
        <4>2. QED
          BY <4>1 DEF Deliver, CutByEnd
      <3>3. QED
        BY <3>1, <3>2
    <2>3. QED
      BY <2>1, <2>2, OpenedFrame
  <1>5. CASE CheckClient
    <2>1. /\ UNCHANGED <<conn, fdt, infofd>>
          /\ apc' \in {"check", "hup_del", "err_del"}
      BY <1>5 DEF CheckClient, LastTests, Deliver, kvars
    <2>2. QED
      BY <2>1, OpenedFrame DEF CutByEnd
  <1>6. ~CheckDel /\ ~CheckClose
    BY <1>0 DEF CheckDel, CheckClose, Dropping
  <1>7. QED
    BY <1>1, <1>2, <1>3, <1>4, <1>5, <1>6 DEF Access

LEMMA WorkOpened ==
    ASSUME IInv, CInv, Opened, NEW w \in Workers, Work(w)
    PROVE  Opened'
  <1>0. conn \in [Clients -> ConnType]
    BY DEF IInv, KernelTypes
  <1>1. UNCHANGED <<apc, si, infofd>>
    BY DEF Work, WorkHead, WorkRecv, WorkProc, WorkClose, WorkSwitch, WorkPop, avars
  <1>2. CASE WorkHead(w) \/ WorkProc(w) \/ WorkPop(w)
    <2>1. UNCHANGED <<conn, fdt>>
      BY <1>2 DEF WorkHead, WorkProc, WorkPop, kvars
    <2>2. QED
      BY <1>1, <2>1, OpenedFrame
  <1>3. CASE WorkRecv(w) \/ WorkSwitch(w)
    <2> DEFINE c == fdt[Head(que[w]).fd]
    <2>1. UNCHANGED fdt /\ wpc[w] \notin {"poll", "exit"}
      BY <1>3 DEF WorkRecv, WorkSwitch
    <2>2. c # None => c \in Clients
      BY <2>1, HeadBlock
    <2>3. \/ UNCHANGED conn
          \/ c # None /\ \E u : conn' = [conn EXCEPT ![c] = [conn[c] EXCEPT !.unread = u]]
          \/ c # None /\ conn' = [conn EXCEPT ![c] = [conn[c] EXCEPT !.err = FALSE]]
      <3>1. CASE WorkSwitch(w)
        BY <3>1 DEF WorkSwitch
      <3>2. CASE WorkRecv(w)
        <4> DEFINE room == BufSize - Len(rdbuf[w])
                   n == IF conn[c].unread < room THEN conn[c].unread ELSE room
        <4>1. \/ UNCHANGED conn
              \/ c # None /\ conn' = [conn EXCEPT ![c].unread = @ - n]
              \/ c # None /\ conn' = [conn EXCEPT ![c].err = FALSE]
          BY <3>2, Zenon DEF WorkRecv
        <4> HIDE DEF n, c
        <4>2. QED
          BY <4>1
      <3>3. QED
        BY <1>3, <3>1, <3>2
    <2> HIDE DEF c
    <2>4. \A x \in ConnType : \A u : LET m == [x EXCEPT !.unread = u]
                                     IN  m.peer = x.peer /\ m.st = x.st
      BY DEF ConnType
    <2>5. \A x \in ConnType : LET m == [x EXCEPT !.err = FALSE]
                              IN  m.peer = x.peer /\ m.st = x.st
      BY DEF ConnType
    <2>6. \A d \in Clients : conn'[d].peer = conn[d].peer /\ conn'[d].st = conn[d].st
      <3>1. CASE UNCHANGED conn
        BY <3>1
      <3>2. ASSUME NEW u, c # None, conn' = [conn EXCEPT ![c] = [conn[c] EXCEPT !.unread = u]]
            PROVE  \A d \in Clients : conn'[d].peer = conn[d].peer /\ conn'[d].st = conn[d].st
        BY <1>0, <2>2, <2>4, <3>2
      <3>3. CASE c # None /\ conn' = [conn EXCEPT ![c] = [conn[c] EXCEPT !.err = FALSE]]
        BY <1>0, <2>2, <2>5, <3>3
      <3>4. QED
        BY <2>3, <3>1, <3>2, <3>3
    <2>7. QED
      BY <1>1, <2>1, <2>6, OpenedFrame
  <1>4. CASE WorkClose(w)
    <2> DEFINE h == Head(que[w]).fd
               c == fdt[h]
    <2>1. wpc[w] = "close" /\ Close(h)
      BY <1>4 DEF WorkClose
    <2>2. c # None /\ c \in Clients /\ conn[c].peer = "fin" /\ h \in Fds
      BY <2>1, HeadBlock DEF CInv, EndSeen
    <2>3. /\ conn' = [conn EXCEPT ![c] = [conn[c] EXCEPT !.st = "closed"]]
          /\ fdt' = [fdt EXCEPT ![h] = None]
      BY <2>1, <2>2 DEF Close
    <2>4. fdt \in [Fds -> Clients \cup {None}]
      BY DEF IInv, KernelTypes
    <2>5. c = fdt[h]
      OBVIOUS
    <2> HIDE DEF c, h
    <2>6. \A x \in ConnType : LET m == [x EXCEPT !.st = "closed"]
                              IN  m.peer = x.peer /\ m.st = "closed"
      BY DEF ConnType
    <2>7. /\ conn'[c].st = "closed" /\ conn'[c].peer = "fin"
          /\ \A d \in Clients : d # c => conn'[d] = conn[d]
          /\ \A g \in Fds : g # h => fdt'[g] = fdt[g]
      BY <1>0, <2>2, <2>3, <2>4, <2>6
    <2>8. \A d \in Clients : conn'[d].st = "closed" => conn'[d].peer # "up"
      BY <2>7 DEF Opened
    <2>9. ASSUME NEW d \in Clients, conn'[d].st = "open", infofd'[d] # None
          PROVE  infofd'[d] \in Fds /\ fdt'[infofd'[d]] = d
      <3>1. d # c
        BY <2>7, <2>9
      <3>2. infofd[d] \in Fds /\ fdt[infofd[d]] = d
        BY <1>1, <2>7, <2>9, <3>1 DEF Opened
      <3>3. infofd[d] # h
        BY <2>5, <3>1, <3>2
      <3>4. QED
        BY <1>1, <2>7, <3>2, <3>3
    <2>10. apc' = "add" => si'.fd = infofd'[si'.who] /\ conn'[si'.who].st \in {"open", "closed"}
      <3> SUFFICES ASSUME apc = "add"
                   PROVE  si.fd = infofd[si.who] /\ conn'[si.who].st \in {"open", "closed"}
        BY <1>1
      <3>1. si.who \in Clients
        BY DEF IInv, Batch, SockInfo
      <3>2. QED
        BY <2>7, <3>1 DEF Opened
    <2>11. QED
      BY <2>8, <2>9, <2>10 DEF Opened
  <1>5. QED
    BY <1>2, <1>3, <1>4 DEF Work

\* When no client resets its connection and there is one worker, the access
\* thread leaves a batch before its end only when it finds no memory for the
\* connection it accepts, or over a connection that its client has ended before
\* it was registered, for any number of clients and descriptors, with full
\* queues, failing accepts and early closes.
THEOREM OrderlyBatches ==
    ASSUME ~Resets, \A u, v \in Workers : u = v
    PROVE  Spec => BatchCutByEnd
  <1>1. Init => CInv /\ Opened
    BY DEF Init, CInv, Quiet, EndSeen, Dropping, Opened
  <1>2. ASSUME IInv, CInv, Opened, Next PROVE CInv' /\ Opened' /\ CutByEnd
    <2>1. ASSUME NEW c \in Clients, Connect(c) \/ Send(c) \/ Finish(c) \/ Reset(c)
          PROVE  CInv' /\ Opened' /\ CutByEnd
      <3>1. apc' = apc
        BY <2>1 DEF Connect, Send, Finish, Reset, avars
      <3>2. QED
        BY <1>2, <2>1, <3>1, ClientEnd, ClientOpened DEF CutByEnd
    <2>2. CASE Access
      BY <1>2, <2>2, AccessEnd, AccessOpened
    <2>3. ASSUME NEW w \in Workers, Work(w) PROVE CInv' /\ Opened' /\ CutByEnd
      <3>1. apc' = apc
        BY <2>3 DEF Work, WorkHead, WorkRecv, WorkProc, WorkClose, WorkSwitch, WorkPop, avars
      <3>2. QED
        BY <1>2, <2>3, <3>1, WorkEnd, WorkOpened DEF CutByEnd
    <2>4. QED
      BY <1>2, <2>1, <2>2, <2>3 DEF Next
  <1>3. ASSUME IInv, CInv, Opened, UNCHANGED vars PROVE CInv' /\ Opened'
    <2>1. /\ UNCHANGED <<conn, fdt, infofd>> /\ UNCHANGED <<apc, si, evs, que>>
          /\ UNCHANGED <<wpc, recv_stat>>
      BY <1>3 DEF vars, kvars, avars, wvars
    <2>2. QED
      BY <1>3, <2>1 DEF CInv, Quiet, EndSeen, Dropping, Opened
  <1>4. IInv /\ CInv /\ Opened /\ [Next]_vars => CInv' /\ Opened' /\ [CutByEnd]_vars
    BY <1>2, <1>3
  <1>5. QED
    BY <1>1, <1>4, ServerInvariant, PTL DEF Spec, BatchCutByEnd, CutByEnd
=============================================================================
