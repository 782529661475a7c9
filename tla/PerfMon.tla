------------------------------ MODULE PerfMon ------------------------------
(***************************************************************************)
(* perf_mon.c: a program brackets the code it measures with                *)
(* perf_mon_here(id, ST_START) and perf_mon_here(id, ST_END); SIGUSR1 runs *)
(* perf_statis, which writes out and restarts every point.                 *)
(*                                                                         *)
(* The program has one thread (test_perf.c), so the handler runs to its    *)
(* end between two instructions of perf_mon_here: Perf_statis is one step, *)
(* and every load and store of perf_mon_here is a step of its own.         *)
(*                                                                         *)
(* The list of a point is the sequence of its nodes in p_next order, and a *)
(* pointer into it is a position, 0 for NULL.  A measurement is a number;  *)
(* tb and te hold the number of the measurement whose time was taken.      *)
(***************************************************************************)
EXTENDS Integers, Sequences

CONSTANTS
    max_point, preset_times,    \* arguments of perf_mon_init
    MaxMeas,                    \* bound: measurements started
    MaxDumps                    \* bound: signals

ASSUME PerfAssumption ==
    /\ max_point \in Nat \ {0} /\ preset_times \in Int
    /\ MaxMeas \in Nat /\ MaxDumps \in Nat

VARIABLES
    num,        \* g_mon.num
    size,       \* size of each point
    list,       \* the nodes from p_head on
    cur,        \* p_cur of each point
    pc,         \* where perf_mon_here is
    id,         \* its id
    pcur,       \* its local p_cur
    acc,        \* p_cur->status as loaded for the |=
    meas,       \* history: measurements started
    open,       \* history: the measurement running at each point, 0 if none
    ended,      \* history: measurements whose ST_END call returned
    cut,        \* history: measurements a dump fell into
    dumps,
    written     \* the lines perf_statis wrote of each point

mvars == <<num, size, list, cur>>
hvars == <<pc, id, pcur, acc>>
gvars == <<meas, open, ended, cut, dumps, written>>
vars == <<mvars, hvars, gvars>>

ST_START == 1
ST_END == 2
DFT_PRESET_TIMES == 50000
DFT_MAX_POINT == 64

\* g_mon.max, and the length of a fresh list: the sign of preset_times decides
\* about both defaults.
Max == IF preset_times < 0 THEN DFT_MAX_POINT ELSE max_point
Preset == IF preset_times < 0 THEN DFT_PRESET_TIMES ELSE preset_times

Points == 0 .. (Max - 1)
Meas == 1 .. MaxMeas
Node == [tb : 0 .. MaxMeas, te : 0 .. MaxMeas, status : 0 .. 3]

\* linklist_create: zeroed nodes; NULL (no nodes) when elem_num is 0 or an
\* allocation fails.
linklist_create(elem_num) ==
    [i \in 1 .. elem_num |-> [tb |-> 0, te |-> 0, status |-> 0]]

HeadOf(l) == IF l = <<>> THEN 0 ELSE 1

\* status |= bit
Or(status, bit) == IF (status \div bit) % 2 = 1 THEN status ELSE status + bit

Init ==
    /\ num = 0
    /\ size = [p \in Points |-> Preset]
    /\ list = [p \in Points |-> linklist_create(Preset)]
    /\ cur = [p \in Points |-> HeadOf(linklist_create(Preset))]
    /\ pc = "idle" /\ id = 0 /\ pcur = 0 /\ acc = 0
    /\ meas = 0 /\ open = [p \in Points |-> 0]
    /\ ended = {} /\ cut = {} /\ dumps = 0
    /\ written = [p \in Points |-> {}]

\* A full table refuses (returns 1) and changes nothing.
Perf_mon_add ==
    /\ pc = "idle" /\ num < Max
    /\ num' = num + 1
    /\ UNCHANGED <<size, list, cur, hvars, gvars>>

-----------------------------------------------------------------------------
(* perf_mon_here.                                                          *)

\* The call, up to the load of p_point->p_cur.  A NULL there is used unseen.
Enter(p, first) ==
    /\ pc = "idle" /\ p < num
    /\ id' = p /\ pcur' = cur[p]
    /\ pc' = IF cur[p] = 0 THEN "segv" ELSE first
    /\ UNCHANGED acc

\* Callers bracket: ST_START, then ST_END, at each point.
Start(p) ==
    /\ meas < MaxMeas /\ open[p] = 0
    /\ Enter(p, "tb")
    /\ meas' = meas + 1 /\ open' = [open EXCEPT ![p] = meas + 1]
    /\ UNCHANGED <<mvars, ended, cut, dumps, written>>

End(p) ==
    /\ open[p] # 0
    /\ Enter(p, "te")
    /\ UNCHANGED <<mvars, gvars>>

\* gettimeofday into tb or te.
StoreTime ==
    /\ \/ /\ pc = "tb" /\ pc' = "or_start"
          /\ list' = [list EXCEPT ![id][pcur].tb = open[id]]
       \/ /\ pc = "te" /\ pc' = "or_end"
          /\ list' = [list EXCEPT ![id][pcur].te = open[id]]
    /\ UNCHANGED <<num, size, cur, id, pcur, acc, gvars>>

\* status |= ..., compiled into a load and a store.
LoadStatus ==
    /\ \/ pc = "or_start" /\ pc' = "set_start"
       \/ pc = "or_end" /\ pc' = "set_end"
    /\ acc' = list[id][pcur].status
    /\ UNCHANGED <<mvars, id, pcur, gvars>>

StoreStart ==
    /\ pc = "set_start" /\ pc' = "idle"
    /\ list' = [list EXCEPT ![id][pcur].status = Or(acc, ST_START)]
    /\ UNCHANGED <<num, size, cur, id, pcur, acc, gvars>>

StoreEnd ==
    /\ pc = "set_end" /\ pc' = "grow"
    /\ list' = [list EXCEPT ![id][pcur].status = Or(acc, ST_END)]
    /\ UNCHANGED <<num, size, cur, id, pcur, acc, gvars>>

\* Behind the last node a new list is hung on, which may fail; the size
\* grows all the same.
Grow(allocated) ==
    /\ pc = "grow" /\ pc' = "next"
    /\ LET more == size[id] \div 2 + 1
       IN  IF pcur = Len(list[id])
             THEN /\ list' = IF allocated
                               THEN [list EXCEPT ![id] = @ \o linklist_create(more)]
                               ELSE list
                  /\ size' = [size EXCEPT ![id] = @ + more]
             ELSE UNCHANGED <<list, size>>
    /\ UNCHANGED <<num, cur, id, pcur, acc, gvars>>

\* Mutant: the next measurement overwrites this one.
NextOmitted ==
    /\ pc = "next" /\ pc' = "idle"
    /\ ended' = ended \cup {open[id]} /\ open' = [open EXCEPT ![id] = 0]
    /\ UNCHANGED <<mvars, id, pcur, acc, meas, cut, dumps, written>>

\* p_point->p_cur = p_cur->p_next
Next_cur ==
    /\ pc = "next" /\ pc' = "idle"
    /\ cur' = [cur EXCEPT ![id] = IF pcur = Len(list[id]) THEN 0 ELSE pcur + 1]
    /\ ended' = ended \cup {open[id]} /\ open' = [open EXCEPT ![id] = 0]
    /\ UNCHANGED <<num, size, list, id, pcur, acc, meas, cut, dumps, written>>

-----------------------------------------------------------------------------
(* perf_statis.                                                            *)

\* The nodes the walk visits: it ends behind the node before p_cur, or at the
\* end of the list when p_cur is its head or NULL.
Walk(p) == 1 .. (IF cur[p] > 1 THEN cur[p] - 1 ELSE Len(list[p]))

\* The line of node i in the file of the next dump.
Line(p, i) == [dump |-> dumps, node |-> i, tb |-> list[p][i].tb, te |-> list[p][i].te]

\* Mutant: a node that was only ended is written as well.
RecordsOfEnded(p) == {Line(p, i) : i \in {j \in Walk(p) : list[p][j].status >= ST_END}}

\* The lines written of a point.
Records(p) ==
    {Line(p, i) : i \in {j \in Walk(p) : list[p][j].status = Or(ST_START, ST_END)}}

\* Mutant: the status of a written node is kept.
ClearedKept(p) == list[p]

\* p_cur->status = 0 in every node of the walk.
Cleared(p) ==
    [i \in DOMAIN list[p] |-> IF i \in Walk(p) THEN [list[p][i] EXCEPT !.status = 0]
                                               ELSE list[p][i]]

Perf_statis ==
    /\ pc # "segv" /\ dumps < MaxDumps
    /\ written' = [p \in Points |-> IF p < num THEN written[p] \cup Records(p) ELSE written[p]]
    /\ list' = [p \in Points |-> IF p < num THEN Cleared(p) ELSE list[p]]
    /\ cur' = [p \in Points |-> IF p < num THEN HeadOf(list[p]) ELSE cur[p]]
    /\ cut' = cut \cup {open[p] : p \in {r \in Points : open[r] # 0}}
    /\ dumps' = dumps + 1
    /\ UNCHANGED <<num, size, hvars, meas, open, ended>>

Next ==
    \/ Perf_mon_add
    \/ \E p \in Points : Start(p) \/ End(p)
    \/ StoreTime \/ LoadStatus \/ StoreStart \/ StoreEnd
    \/ \E allocated \in BOOLEAN : Grow(allocated)
    \/ Next_cur
    \/ Perf_statis

Spec == Init /\ [][Next]_vars

-----------------------------------------------------------------------------
(* Properties.                                                             *)

TypeOK ==
    /\ num \in 0 .. Max
    /\ size \in [Points -> Nat]
    /\ list \in [Points -> Seq(Node)]
    /\ cur \in [Points -> Nat]
    /\ \A p \in Points : cur[p] <= Len(list[p]) /\ Len(list[p]) <= size[p]
    /\ pc \in {"idle", "tb", "te", "or_start", "or_end", "set_start",
               "set_end", "grow", "next", "segv"}
    /\ id \in Points /\ pcur \in 0 .. Len(list[id]) /\ acc \in 0 .. 3
    /\ meas \in 0 .. MaxMeas /\ open \in [Points -> 0 .. MaxMeas]
    /\ ended \subseteq Meas /\ cut \subseteq Meas
    /\ dumps \in 0 .. MaxDumps
    /\ written \in [Points -> SUBSET [dump : 0 .. MaxDumps, node : Nat,
                                      tb : 0 .. MaxMeas, te : 0 .. MaxMeas]]

\* A written line holds the begin and the end of one and the same
\* measurement, wherever in perf_mon_here the signals fall: a node that keeps
\* ST_START of a measurement a dump cut never gets ST_END of another one.
RecordsArePairs == \A p \in Points : \A l \in written[p] : l.tb = l.te

\* No measurement is written twice, by one dump or by several.
WrittenOnce ==
    \A p \in Points : \A l, k \in written[p] : l.te = k.te => l = k

\* A measurement that no dump fell into is written, or the next dump writes
\* it: resetting p_cur from the handler, and the p_cur that perf_mon_here
\* holds across the handler, hide no finished node from the walk.
NoneLost ==
    \A m \in ended \ cut : \E p \in Points : \E l \in written[p] \cup Records(p) :
        l.tb = m /\ l.te = m
=============================================================================
