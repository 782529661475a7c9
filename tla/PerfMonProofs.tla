--------------------------- MODULE PerfMonProofs ---------------------------
(***************************************************************************)
(* Proofs about PerfMon: for every number of points, every initial length  *)
(* of their lists, and signals between any two loads and stores.           *)
(***************************************************************************)
EXTENDS PerfMon, TLAPS

St(p, i) == list[p][i].status
Busy == pc \notin {"idle", "segv"}
Starting(p) == id = p /\ pc \in {"tb", "or_start", "set_start"}
Ending(p) == id = p /\ pc \in {"te", "or_end", "set_end", "grow", "next"}

\* The ST_END of the running call is stored, p_cur not yet.
Closing(p) == id = p /\ pc \in {"grow", "next"}

\* perf_mon_here works on the node p_cur, or a dump has put p_cur back to the
\* head meanwhile.
Cursor ==
    /\ \A p \in Points : open[p] # 0 => p < num
    /\ Busy => /\ pcur \in 1 .. Len(list[id]) /\ open[id] # 0
               /\ cur[id] = pcur \/ cur[id] = 1
    /\ \A p \in Points : Starting(p) /\ cur[p] # pcur => St(p, 1) = 0

\* A measurement runs at one point at most, and not once it has ended.
Numbers ==
    /\ \A p \in Points : open[p] <= meas /\ open[p] \notin ended
    /\ \A p, r \in Points : open[p] = open[r] /\ open[p] # 0 => p = r
    /\ \A m \in ended \cup cut : m <= meas

\* What a node with ST_END holds: its measurement, which has ended, and then
\* p_cur is behind the node, or is just ending; and nothing else holds it.
Nodes ==
    \A p \in Points : \A i \in 1 .. Len(list[p]) : St(p, i) >= ST_END =>
        /\ IF Closing(p) /\ pcur = i
           THEN list[p][i].te = open[p]
           ELSE list[p][i].te \in ended /\ (i < cur[p] \/ cur[p] = 0)
        /\ St(p, i) = 3 => list[p][i].tb = list[p][i].te
        /\ \A j \in 1 .. Len(list[p]) :
              St(p, j) >= ST_END /\ list[p][j].te = list[p][i].te => i = j
        /\ \A l \in written[p] : l.te # list[p][i].te

Lines ==
    \A p \in Points : \A l \in written[p] :
        /\ l.tb = l.te
        /\ l.te \in ended \/ (Closing(p) /\ l.te = open[p])

\* The node on which ST_END falls has ST_START of the same measurement, or
\* none.
Started ==
    /\ \A p \in Points : open[p] # 0 /\ ~Starting(p) /\ ~Ending(p) /\ cur[p] # 0
           => (St(p, cur[p]) = 1 => list[p][cur[p]].tb = open[p])
    /\ pc \in {"te", "or_end", "set_end"} =>
           (St(id, pcur) = 1 => list[id][pcur].tb = open[id])
    /\ pc = "set_end" /\ acc = 1 => list[id][pcur].tb = open[id]
    /\ pc \in {"set_start", "set_end"} => acc \in {0, 1}
    /\ pc \in {"or_start", "set_start"} => list[id][pcur].tb = open[id]
    /\ pc \in {"or_end", "set_end", "grow", "next"} => list[id][pcur].te = open[id]

\* The node of a measurement no dump fell into has all that was stored.
Whole ==
    \A p \in Points : open[p] # 0 /\ open[p] \notin cut =>
        /\ Busy /\ id = p => cur[p] = pcur
        /\ ~Starting(p) /\ ~Closing(p) /\ cur[p] # 0
              => St(p, cur[p]) = 1 /\ list[p][cur[p]].tb = open[p]
        /\ id = p /\ pc = "set_end" => acc = 1
        /\ Closing(p) => St(p, pcur) = 3

Kept ==
    \A m \in ended \ cut : \E p \in Points :
        \/ \E l \in written[p] : l.tb = m /\ l.te = m
        \/ /\ p < num
           /\ \E i \in 1 .. Len(list[p]) :
                 St(p, i) = 3 /\ list[p][i].tb = m /\ list[p][i].te = m

IInv ==
    /\ TypeOK /\ Cursor /\ Numbers /\ Nodes /\ Lines /\ Started /\ Whole /\ Kept
    /\ WrittenOnce

-----------------------------------------------------------------------------
\* Points are counted from 0; there is at least one.
LEMMA PointFacts == Max \in Nat \ {0} /\ Preset \in Nat /\ 0 \in Points
  BY PerfAssumption DEF Max, Preset, Points, DFT_MAX_POINT, DFT_PRESET_TIMES

\* The store of a node: the others stay.
NodeStored(n) ==
    /\ list' \in [Points -> Seq(Node)]
    /\ \A p \in Points : Len(list'[p]) = Len(list[p])
    /\ \A p \in Points : \A i \in 1 .. Len(list[p]) :
          list'[p][i] = IF p = id /\ i = pcur THEN n ELSE list[p][i]

LEMMA NodeStore ==
    ASSUME TypeOK, pcur \in 1 .. Len(list[id]), NEW n \in Node,
           list' = [list EXCEPT ![id][pcur] = n]
    PROVE  NodeStored(n)
  BY DEF TypeOK, NodeStored

\* A node on which perf_mon_here works has no ST_END yet.
LEMMA LowStatus ==
    ASSUME IInv, Busy, ~Closing(id)
    PROVE  /\ pcur \in 1 .. Len(list[id]) /\ list[id][pcur] \in Node
           /\ St(id, pcur) \in {0, 1}
  <1>1. /\ pcur \in 1 .. Len(list[id]) /\ (cur[id] = pcur \/ cur[id] = 1)
        /\ id \in Points /\ list[id] \in Seq(Node)
    BY DEF IInv, TypeOK, Cursor
  <1>2. list[id][pcur] \in Node
    BY <1>1
  <1>3. St(id, pcur) \in 0 .. 3
    BY <1>2 DEF Node, St
  <1>4. ~(St(id, pcur) >= ST_END)
    BY <1>1, <1>3 DEF IInv, Nodes, Closing
  <1>5. QED
    BY <1>1, <1>2, <1>3, <1>4 DEF ST_END

\* Nodes with ST_END are as they were, and there are no new ones.
HighKept ==
    \A p \in Points :
        /\ Len(list'[p]) = Len(list[p])
        /\ \A i \in 1 .. Len(list[p]) :
              St(p, i)' >= ST_END \/ St(p, i) >= ST_END => list'[p][i] = list[p][i]

\* A store into a node that has no ST_END before or after it.
LEMMA LowStored ==
    ASSUME TypeOK, NEW n \in Node, NodeStored(n), n.status \in {0, 1},
           St(id, pcur) \in {0, 1}
    PROVE  HighKept
  <1> SUFFICES ASSUME NEW p \in Points, NEW i \in 1 .. Len(list[p]),
                      St(p, i)' >= ST_END \/ St(p, i) >= ST_END
               PROVE  list'[p][i] = list[p][i]
    BY DEF HighKept, NodeStored
  <1>1. CASE p = id /\ i = pcur
    <2>1. St(p, i)' = n.status
      BY <1>1 DEF NodeStored, St
    <2>2. QED
      BY <1>1, <2>1 DEF ST_END
  <1>2. QED
    BY <1>1 DEF NodeStored

\* Steps that keep them keep what is said of them.
LEMMA NodesFrame ==
    ASSUME IInv, UNCHANGED <<written, ended, cur>>, HighKept,
           ~(pc \in {"grow", "next"}), ~(pc' \in {"grow", "next"})
    PROVE  Nodes'
  <1>1. \A p \in Points : ~Closing(p) /\ ~Closing(p)'
    BY DEF Closing
  <1>2. SUFFICES ASSUME NEW p \in Points, NEW i \in 1 .. Len(list'[p]),
                        St(p, i)' >= ST_END
                 PROVE  /\ list'[p][i].te \in ended' /\ (i < cur'[p] \/ cur'[p] = 0)
                        /\ St(p, i)' = 3 => list'[p][i].tb = list'[p][i].te
                        /\ \A j \in 1 .. Len(list'[p]) :
                             St(p, j)' >= ST_END /\ list'[p][j].te = list'[p][i].te
                                => i = j
                        /\ \A l \in written'[p] : l.te # list'[p][i].te
    BY <1>1 DEF Nodes
  <1>3. /\ i \in 1 .. Len(list[p]) /\ list'[p][i] = list[p][i]
        /\ St(p, i)' = St(p, i) /\ St(p, i) >= ST_END
    BY <1>2 DEF HighKept, St
  <1>4. \A j \in 1 .. Len(list'[p]) : St(p, j)' >= ST_END =>
            /\ j \in 1 .. Len(list[p]) /\ list'[p][j] = list[p][j]
            /\ St(p, j) >= ST_END
    BY DEF HighKept, St
  <1>5. QED
    BY <1>1, <1>3, <1>4 DEF IInv, Nodes

\* Nodes with ST_END are as they were; there may be new ones.
EndedKept ==
    \A p \in Points : \A i \in 1 .. Len(list[p]) :
        St(p, i) >= ST_END => i \in 1 .. Len(list'[p]) /\ list'[p][i] = list[p][i]

\* Then what was finished is still there.
LEMMA KeptStep ==
    ASSUME IInv, UNCHANGED <<written, ended, cut>>, EndedKept,
           \A p \in Points : p < num => p < num'
    PROVE  Kept'
  <1> SUFFICES ASSUME NEW m \in ended \ cut
               PROVE  \E p \in Points :
                        \/ \E l \in written'[p] : l.tb = m /\ l.te = m
                        \/ /\ p < num'
                           /\ \E i \in 1 .. Len(list'[p]) :
                                /\ St(p, i)' = 3
                                /\ list'[p][i].tb = m /\ list'[p][i].te = m
    BY DEF Kept
  <1>1. PICK p \in Points :
           \/ \E l \in written[p] : l.tb = m /\ l.te = m
           \/ /\ p < num
              /\ \E i \in 1 .. Len(list[p]) :
                    St(p, i) = 3 /\ list[p][i].tb = m /\ list[p][i].te = m
    BY DEF IInv, Kept
  <1>2. CASE \E l \in written[p] : l.tb = m /\ l.te = m
    BY <1>2
  <1>3. ASSUME p < num, NEW i \in 1 .. Len(list[p]),
               St(p, i) = 3, list[p][i].tb = m, list[p][i].te = m
        PROVE  /\ p < num' /\ i \in 1 .. Len(list'[p]) /\ St(p, i)' = 3
               /\ list'[p][i].tb = m /\ list'[p][i].te = m
    <2>1. St(p, i) >= ST_END
      BY <1>3 DEF ST_END
    <2>2. list'[p][i] = list[p][i] /\ i \in 1 .. Len(list'[p])
      BY <2>1 DEF EndedKept
    <2>3. QED
      BY <1>3, <2>2 DEF St
  <1>4. QED
    BY <1>1, <1>2, <1>3

\* The same of steps that store into a node without ST_END.
LEMMA KeptFrame ==
    ASSUME IInv, UNCHANGED <<written, ended, cut>>, HighKept,
           \A p \in Points : p < num => p < num'
    PROVE  Kept'
  <1>1. EndedKept
    BY DEF HighKept, EndedKept
  <1>2. QED
    BY <1>1, KeptStep

\* Another point is used.
LEMMA AddInv == ASSUME IInv, Perf_mon_add PROVE IInv'
  <1>0. /\ pc = "idle"
        /\ num \in 0 .. Max
        /\ num < Max
        /\ num' = num + 1
        /\ UNCHANGED <<size, list, cur, pc, id, pcur, acc, meas, open, ended, cut, dumps, written>>
    BY DEF Perf_mon_add, hvars, gvars, IInv, TypeOK
  <1>1. TypeOK'
    <2>1. num' \in 0 .. Max
      BY <1>0, PointFacts
    <2>2. QED
      BY <1>0, <2>1 DEF IInv, TypeOK
  <1>2. Cursor'
    BY <1>0, PointFacts
    DEF IInv, Cursor, TypeOK, St, Busy, Starting, Ending, Closing, ST_START, ST_END, Points
  <1>3. Numbers'
    BY <1>0, PointFacts
    DEF IInv, Numbers, TypeOK, Points
  <1>4. Nodes'
    BY <1>0, NodesFrame DEF HighKept
  <1>5. Lines'
    BY <1>0, PointFacts
    DEF IInv, Lines, TypeOK, St, Busy, Starting, Ending, Closing, ST_START, ST_END, Points
  <1>6. Started'
    BY <1>0, PointFacts
    DEF IInv, Started, TypeOK, St, Busy, Starting, Ending, Closing, ST_START, ST_END, Points
  <1>7. Whole'
    BY <1>0, PointFacts
    DEF IInv, Whole, TypeOK, St, Busy, Starting, Ending, Closing, ST_START, ST_END, Points
  <1>8. Kept'
    BY <1>0, KeptFrame DEF Points, HighKept
  <1>9. WrittenOnce'
    BY <1>0, PointFacts
    DEF IInv, WrittenOnce, TypeOK, Points
  <1>10. QED
    BY <1>1, <1>2, <1>3, <1>4, <1>5, <1>6, <1>7, <1>8, <1>9 DEF IInv

\* A measurement starts.
LEMMA StartInv == ASSUME IInv, NEW p \in Points, Start(p) PROVE IInv'
  <1>0. /\ pc = "idle" /\ p < num /\ open[p] = 0 /\ meas < MaxMeas
        /\ id' = p /\ pcur' = cur[p]
        /\ pcur' = cur[p]
        /\ pc' = IF cur[p] = 0 THEN "segv" ELSE "tb"
        /\ meas' = meas + 1
        /\ open' = [open EXCEPT ![p] = meas + 1]
        /\ UNCHANGED <<num, size, list, cur, acc, ended, cut, dumps, written>>
    BY DEF Start, Enter, mvars
  <1>1. TypeOK'
    BY <1>0, PerfAssumption
    DEF IInv, TypeOK, Numbers
  <1>2. Cursor'
    BY <1>0, PerfAssumption
    DEF IInv, Cursor, TypeOK, St, Busy, Starting, Ending, Closing, ST_START, ST_END
  <1>3. Numbers'
    <2>1. /\ meas \in Nat
          /\ \A r \in Points : /\ open[r] \in Nat
                               /\ open'[r] = IF r = p THEN meas + 1 ELSE open[r]
      BY <1>0 DEF IInv, TypeOK
    <2>2. \A m \in ended \cup cut : m \in Nat /\ m <= meas
      BY DEF IInv, TypeOK, Numbers, Meas
    <2>3. \A r \in Points : open'[r] <= meas' /\ open'[r] \notin ended'
      BY <1>0, <2>1, <2>2 DEF IInv, Numbers
    <2>4. \A r, q \in Points : open'[r] = open'[q] /\ open'[r] # 0 => r = q
      BY <1>0, <2>1 DEF IInv, Numbers
    <2>5. \A m \in ended' \cup cut' : m <= meas'
      BY <1>0, <2>1, <2>2
    <2>6. QED
      BY <2>3, <2>4, <2>5 DEF Numbers
  <1>4. Nodes'
    BY <1>0, NodesFrame DEF HighKept
  <1>5. Lines'
    BY <1>0, PerfAssumption
    DEF IInv, Lines, TypeOK, Numbers, St, Busy, Starting, Ending, Closing, ST_START, ST_END
  <1>6. Started'
    BY <1>0, PerfAssumption
    DEF IInv, Started, TypeOK, Numbers, St, Busy, Starting, Ending, Closing, ST_START, ST_END
  <1>7. Whole'
    BY <1>0, PerfAssumption
    DEF IInv, Whole, TypeOK, Numbers, St, Busy, Starting, Ending, Closing, ST_START, ST_END
  <1>8. Kept'
    BY <1>0, KeptFrame DEF HighKept
  <1>9. WrittenOnce'
    BY <1>0, PerfAssumption
    DEF IInv, WrittenOnce, TypeOK, Numbers
  <1>10. QED
    BY <1>1, <1>2, <1>3, <1>4, <1>5, <1>6, <1>7, <1>8, <1>9 DEF IInv

\* A measurement is to end.
LEMMA EndInv == ASSUME IInv, NEW p \in Points, End(p) PROVE IInv'
  <1>0. /\ pc = "idle" /\ p < num /\ open[p] # 0
        /\ id' = p
        /\ pcur' = cur[p]
        /\ pc' = IF cur[p] = 0 THEN "segv" ELSE "te"
        /\ UNCHANGED <<num, size, list, cur, acc, meas, open, ended, cut, dumps, written>>
    BY DEF End, Enter, mvars, gvars
  <1>1. TypeOK'
    BY <1>0
    DEF IInv, TypeOK
  <1>2. Cursor'
    BY <1>0
    DEF IInv, Cursor, TypeOK, St, Busy, Starting, Ending, Closing, ST_START, ST_END
  <1>3. Numbers'
    BY <1>0
    DEF IInv, Numbers, TypeOK
  <1>4. Nodes'
    BY <1>0, NodesFrame DEF HighKept
  <1>5. Lines'
    BY <1>0
    DEF IInv, Lines, TypeOK, St, Busy, Starting, Ending, Closing, ST_START, ST_END
  <1>6. Started'
    BY <1>0
    DEF IInv, Started, TypeOK, St, Busy, Starting, Ending, Closing, ST_START, ST_END
  <1>7. Whole'
    BY <1>0
    DEF IInv, Whole, TypeOK, St, Busy, Starting, Ending, Closing, ST_START, ST_END
  <1>8. Kept'
    BY <1>0, KeptFrame DEF HighKept
  <1>9. WrittenOnce'
    BY <1>0
    DEF IInv, WrittenOnce, TypeOK
  <1>10. QED
    BY <1>1, <1>2, <1>3, <1>4, <1>5, <1>6, <1>7, <1>8, <1>9 DEF IInv

\* The time of ST_END.
LEMMA StoreTeInv == ASSUME IInv, StoreTime, pc = "te" PROVE IInv'
  <1>0. /\ pc = "te"
        /\ pc' = "or_end"
        /\ list' = [list EXCEPT ![id][pcur] = [list[id][pcur] EXCEPT !.te = open[id]]]
        /\ UNCHANGED <<num, size, cur, id, pcur, acc, meas, open, ended, cut, dumps, written>>
    BY DEF StoreTime, gvars
  <1>a. /\ pcur \in 1 .. Len(list[id]) /\ list[id][pcur] \in Node
        /\ St(id, pcur) \in {0, 1} /\ id \in Points /\ open[id] \in 0 .. MaxMeas
    BY <1>0, LowStatus DEF Busy, Closing, IInv, TypeOK
  <1> DEFINE n == [list[id][pcur] EXCEPT !.te = open[id]]
  <1>n. n \in Node /\ n.status = St(id, pcur)
    BY <1>a DEF Node, St
  <1> HIDE DEF n
  <1>b. NodeStored(n)
    BY <1>0, <1>a, <1>n, NodeStore DEF IInv, n
  <1>c. HighKept
    BY <1>a, <1>b, <1>n, LowStored DEF IInv
  <1> USE DEF n
  <1>1. TypeOK'
    BY <1>0, <1>a, <1>b
    DEF IInv, TypeOK, Cursor, NodeStored, Node
  <1>2. Cursor'
    BY <1>0, <1>a, <1>b
    DEF IInv, Cursor, TypeOK, St, Busy, Starting, Ending, Closing, ST_START, ST_END, NodeStored, Node
  <1>3. Numbers'
    BY <1>0, <1>a, <1>b
    DEF IInv, Numbers, NodeStored, Node
  <1>4. Nodes'
    BY <1>0, <1>c, NodesFrame
  <1>5. Lines'
    BY <1>0, <1>a, <1>b
    DEF IInv, Lines, TypeOK, Cursor, St, Busy, Starting, Ending, Closing, ST_START, ST_END, NodeStored, Node
  <1>6. Started'
    BY <1>0, <1>a, <1>b, SMTT(30)
    DEF IInv, Started, TypeOK, Cursor, St, Busy, Starting, Ending, Closing, ST_START, ST_END, NodeStored, Node
  <1>7. Whole'
    <2>1. \A p \in Points : cur[p] \in Nat /\ cur[p] <= Len(list[p])
      BY DEF IInv, TypeOK
    <2>2. \A p \in Points : \A i \in 1 .. Len(list[p]) :
             St(p, i)' = St(p, i) /\ list'[p][i].tb = list[p][i].tb
      BY <1>a, <1>b DEF NodeStored, St, Node
    <2>3. \A p \in Points : cur[p] # 0 =>
             St(p, cur[p])' = St(p, cur[p]) /\ list'[p][cur[p]].tb = list[p][cur[p]].tb
      BY <1>0, <2>1, <2>2 DEF St
    <2>4. QED
      BY <1>0, <2>3 DEF IInv, Whole, Busy, Starting, Closing
  <1>8. Kept'
    BY <1>0, <1>c, KeptFrame
  <1>9. WrittenOnce'
    BY <1>0, <1>a, <1>b
    DEF IInv, WrittenOnce, NodeStored, Node
  <1>10. QED
    BY <1>1, <1>2, <1>3, <1>4, <1>5, <1>6, <1>7, <1>8, <1>9 DEF IInv

\* The time of ST_START.
LEMMA StoreTbInv == ASSUME IInv, StoreTime, pc = "tb" PROVE IInv'
  <1>0. /\ pc = "tb"
        /\ pc' = "or_start"
        /\ list' = [list EXCEPT ![id][pcur] = [list[id][pcur] EXCEPT !.tb = open[id]]]
        /\ UNCHANGED <<num, size, cur, id, pcur, acc, meas, open, ended, cut, dumps, written>>
    BY DEF StoreTime, gvars
  <1>a. /\ pcur \in 1 .. Len(list[id]) /\ list[id][pcur] \in Node
        /\ St(id, pcur) \in {0, 1} /\ id \in Points /\ open[id] \in 0 .. MaxMeas
    BY <1>0, LowStatus DEF Busy, Closing, IInv, TypeOK
  <1> DEFINE n == [list[id][pcur] EXCEPT !.tb = open[id]]
  <1>n. n \in Node /\ n.status = St(id, pcur)
    BY <1>a DEF Node, St
  <1> HIDE DEF n
  <1>b. NodeStored(n)
    BY <1>0, <1>a, <1>n, NodeStore DEF IInv, n
  <1>c. HighKept
    BY <1>a, <1>b, <1>n, LowStored DEF IInv
  <1> USE DEF n
  <1>1. TypeOK'
    BY <1>0, <1>a, <1>b
    DEF IInv, TypeOK, Cursor, NodeStored, Node
  <1>2. Cursor'
    BY <1>0, <1>a, <1>b
    DEF IInv, Cursor, TypeOK, St, Busy, Starting, Ending, Closing, ST_START, ST_END, NodeStored, Node
  <1>3. Numbers'
    BY <1>0, <1>a, <1>b
    DEF IInv, Numbers, NodeStored, Node
  <1>4. Nodes'
    BY <1>0, <1>c, NodesFrame
  <1>5. Lines'
    BY <1>0, <1>a, <1>b
    DEF IInv, Lines, TypeOK, Cursor, St, Busy, Starting, Ending, Closing, ST_START, ST_END, NodeStored, Node
  <1>6. Started'
    BY <1>0, <1>a, <1>b
    DEF IInv, Started, TypeOK, Cursor, St, Busy, Starting, Ending, Closing, ST_START, ST_END, NodeStored, Node
  <1>7. Whole'
    BY <1>0, <1>a, <1>b
    DEF IInv, Whole, TypeOK, Cursor, St, Busy, Starting, Ending, Closing, ST_START, ST_END, NodeStored, Node
  <1>8. Kept'
    BY <1>0, <1>c, KeptFrame
  <1>9. WrittenOnce'
    BY <1>0, <1>a, <1>b
    DEF IInv, WrittenOnce, NodeStored, Node
  <1>10. QED
    BY <1>1, <1>2, <1>3, <1>4, <1>5, <1>6, <1>7, <1>8, <1>9 DEF IInv

\* The load of the status.
LEMMA LoadInv == ASSUME IInv, LoadStatus PROVE IInv'
  <1>0. /\ (pc = "or_start" /\ pc' = "set_start") \/ (pc = "or_end" /\ pc' = "set_end")
        /\ acc' = St(id, pcur)
        /\ UNCHANGED <<num, size, list, cur, id, pcur, meas, open, ended, cut, dumps, written>>
    BY DEF LoadStatus, mvars, gvars, St
  <1>a. /\ pcur \in 1 .. Len(list[id]) /\ St(id, pcur) \in {0, 1}
    BY <1>0, LowStatus DEF Busy, Closing
  <1>c. HighKept
    BY <1>0 DEF HighKept
  <1>1. TypeOK'
    BY <1>0, <1>a DEF IInv, TypeOK
  <1>2. Cursor'
    BY <1>0, <1>a DEF IInv, Cursor, TypeOK, St, Busy, Starting, Ending, Closing
  <1>3. Numbers'
    BY <1>0, <1>a DEF IInv, Numbers
  <1>4. Nodes'
    BY <1>0, <1>c, NodesFrame
  <1>5. Lines'
    BY <1>0, <1>a DEF IInv, Lines, TypeOK, Cursor, St, Busy, Starting, Ending, Closing
  <1>6. Started'
    BY <1>0, <1>a DEF IInv, Started, TypeOK, Cursor, St, Busy, Starting, Ending, Closing
  <1>7. Whole'
    BY <1>0, <1>a DEF IInv, Whole, TypeOK, Cursor, St, Busy, Starting, Ending, Closing
  <1>8. Kept'
    BY <1>0, <1>c, KeptFrame
  <1>9. WrittenOnce'
    BY <1>0, <1>a DEF IInv, WrittenOnce
  <1>10. QED
    BY <1>1, <1>2, <1>3, <1>4, <1>5, <1>6, <1>7, <1>8, <1>9 DEF IInv

\* The store of ST_START.
LEMMA StoreStartInv == ASSUME IInv, StoreStart PROVE IInv'
  <1> DEFINE n == [list[id][pcur] EXCEPT !.status = 1]
  <1>0. /\ pc = "set_start" /\ pc' = "idle"
        /\ list' = [list EXCEPT ![id][pcur] = n]
        /\ UNCHANGED <<num, size, cur, id, pcur, acc, meas, open, ended, cut, dumps, written>>
    <2>1. pc = "set_start" /\ acc \in {0, 1}
      BY DEF StoreStart, IInv, Started
    <2>2. Or(acc, ST_START) = 1
      BY <2>1 DEF Or, ST_START
    <2>3. QED
      BY <2>1, <2>2 DEF StoreStart, gvars
  <1>a. /\ pcur \in 1 .. Len(list[id]) /\ list[id][pcur] \in Node
        /\ St(id, pcur) \in {0, 1} /\ id \in Points
    BY <1>0, LowStatus DEF Busy, Closing, IInv, TypeOK
  <1>n. n \in Node /\ n.status = 1 /\ n.tb = list[id][pcur].tb
    BY <1>a DEF Node
  <1> HIDE DEF n
  <1>b. NodeStored(n)
    BY <1>0, <1>a, <1>n, NodeStore DEF IInv, n
  <1>c. HighKept
    BY <1>a, <1>b, <1>n, LowStored DEF IInv
  <1>1. TypeOK'
    BY <1>0, <1>a, <1>b, <1>n DEF IInv, TypeOK, NodeStored
  <1>2. Cursor'
    BY <1>0, <1>a, <1>b, <1>n DEF IInv, Cursor, TypeOK, St, Busy, Starting, Ending, Closing, NodeStored
  <1>3. Numbers'
    BY <1>0, <1>a, <1>b, <1>n DEF IInv, Numbers, NodeStored
  <1>4. Nodes'
    BY <1>0, <1>c, NodesFrame
  <1>5. Lines'
    BY <1>0, <1>a, <1>b, <1>n DEF IInv, Lines, TypeOK, Cursor, St, Busy, Starting, Ending, Closing, NodeStored
  <1>6. Started'
    BY <1>0, <1>a, <1>b, <1>n DEF IInv, Started, TypeOK, Cursor, St, Busy, Starting, Ending, Closing, NodeStored
  <1>7. Whole'
    <2> SUFFICES ASSUME NEW p \in Points, open[p] # 0, open[p] \notin cut, cur[p] # 0
                 PROVE  St(p, cur[p])' = 1 /\ list'[p][cur[p]].tb = open[p]
      BY <1>0 DEF Whole, Busy, Starting, Closing
    <2>1. cur[p] \in 1 .. Len(list[p])
      BY DEF IInv, TypeOK
    <2>2. CASE p = id
      <3>1. cur[p] = pcur /\ list[id][pcur].tb = open[id]
        BY <1>0, <2>2 DEF IInv, Whole, Busy, Started
      <3>2. QED
        BY <1>0, <1>a, <1>b, <1>n, <2>2, <3>1 DEF NodeStored, St
    <2>3. CASE p # id
      <3>1. St(p, cur[p]) = 1 /\ list[p][cur[p]].tb = open[p]
        BY <2>3 DEF IInv, Whole, Starting, Closing
      <3>2. QED
        BY <1>0, <1>b, <2>1, <2>3, <3>1 DEF NodeStored, St
    <2>4. QED
      BY <2>2, <2>3
  <1>8. Kept'
    BY <1>0, <1>c, KeptFrame
  <1>9. WrittenOnce'
    BY <1>0, <1>a, <1>b, <1>n DEF IInv, WrittenOnce, NodeStored
  <1>10. QED
    BY <1>1, <1>2, <1>3, <1>4, <1>5, <1>6, <1>7, <1>8, <1>9 DEF IInv

\* The store of ST_END.
LEMMA StoreEndInv == ASSUME IInv, StoreEnd PROVE IInv'
  <1> DEFINE n == [list[id][pcur] EXCEPT !.status = acc + 2]
  <1>0. /\ pc = "set_end" /\ pc' = "grow"
        /\ list' = [list EXCEPT ![id][pcur] = n]
        /\ UNCHANGED <<num, size, cur, id, pcur, acc, meas, open, ended, cut, dumps, written>>
    <2>1. pc = "set_end" /\ acc \in {0, 1}
      BY DEF StoreEnd, IInv, Started
    <2>2. Or(acc, ST_END) = acc + 2
      BY <2>1 DEF Or, ST_END
    <2>3. QED
      BY <2>1, <2>2 DEF StoreEnd, gvars
  <1>a. /\ pcur \in 1 .. Len(list[id]) /\ list[id][pcur] \in Node
        /\ St(id, pcur) \in {0, 1} /\ id \in Points
        /\ acc \in {0, 1} /\ open[id] # 0 /\ open[id] \notin ended
    BY <1>0, LowStatus DEF Busy, Closing, IInv, TypeOK, Started, Cursor, Numbers
  <1>n. /\ n \in Node /\ n.status = acc + 2
        /\ n.te = open[id] /\ (acc = 1 => n.tb = open[id])
    BY <1>0, <1>a DEF Node, IInv, Started
  <1> HIDE DEF n
  <1>b. NodeStored(n)
    BY <1>0, <1>a, <1>n, NodeStore DEF IInv, n
  <1>s. /\ St(id, pcur)' = acc + 2 /\ list'[id][pcur] = n
        /\ \A p \in Points : \A i \in 1 .. Len(list[p]) :
              p # id \/ i # pcur => St(p, i)' = St(p, i) /\ list'[p][i] = list[p][i]
    BY <1>0, <1>a, <1>b, <1>n DEF NodeStored, St
  <1>h. \A p \in Points : \A i \in 1 .. Len(list[p]) :
           (p # id \/ i # pcur) /\ St(p, i) >= ST_END =>
              /\ list[p][i].te \in ended /\ (i < cur[p] \/ cur[p] = 0)
              /\ St(p, i) = 3 => list[p][i].tb = list[p][i].te
              /\ \A j \in 1 .. Len(list[p]) :
                   St(p, j) >= ST_END /\ list[p][j].te = list[p][i].te => i = j
              /\ \A l \in written[p] : l.te # list[p][i].te
    BY <1>0 DEF IInv, Nodes, Closing
  <1>l. \A p \in Points : Len(list'[p]) = Len(list[p])
    BY <1>b DEF NodeStored
  <1>1. TypeOK'
    BY <1>0, <1>a, <1>b DEF IInv, TypeOK, NodeStored
  <1>2. Cursor'
    BY <1>0, <1>a, <1>l DEF IInv, Cursor, Busy, Starting
  <1>3. Numbers'
    BY <1>0 DEF IInv, Numbers
  <1>4. Nodes'
    <2>1. ASSUME NEW p \in Points, NEW i \in 1 .. Len(list[p]), St(p, i)' >= ST_END,
                 p # id \/ i # pcur
          PROVE  /\ list'[p][i].te \in ended /\ (i < cur[p] \/ cur[p] = 0)
                 /\ St(p, i)' = 3 => list'[p][i].tb = list'[p][i].te
                 /\ \A j \in 1 .. Len(list[p]) :
                      St(p, j)' >= ST_END /\ list'[p][j].te = list'[p][i].te => i = j
                 /\ \A l \in written[p] : l.te # list'[p][i].te
      <3>1. St(p, i) >= ST_END /\ list'[p][i] = list[p][i] /\ St(p, i)' = St(p, i)
        BY <1>s, <2>1
      <3>2. ASSUME NEW j \in 1 .. Len(list[p]), St(p, j)' >= ST_END,
                   list'[p][j].te = list'[p][i].te
            PROVE  i = j
        <4>1. CASE p = id /\ j = pcur
          BY <1>a, <1>n, <1>s, <1>h, <2>1, <3>1, <3>2, <4>1
        <4>2. CASE p # id \/ j # pcur
          BY <1>s, <1>h, <2>1, <3>1, <3>2, <4>2
        <4>3. QED
          BY <4>1, <4>2
      <3>3. QED
        BY <1>h, <2>1, <3>1, <3>2
    <2>2. /\ list'[id][pcur].te = open[id]
          /\ St(id, pcur)' = 3 => list'[id][pcur].tb = list'[id][pcur].te
      BY <1>a, <1>n, <1>s
    <2>3. \A j \in 1 .. Len(list[id]) :
             St(id, j)' >= ST_END /\ list'[id][j].te = open[id] => pcur = j
      BY <1>0, <1>a, <2>1
    <2>4. \A l \in written[id] : l.te # open[id]
      BY <1>0, <1>a DEF IInv, Lines, Closing
    <2>5. \A p \in Points : Closing(p)' <=> p = id
      BY <1>0 DEF Closing
    <2>6. ASSUME NEW p \in Points, NEW i \in 1 .. Len(list[p]), St(p, i)' >= ST_END
          PROVE  /\ IF Closing(p)' /\ pcur = i
                    THEN list'[p][i].te = open[p]
                    ELSE list'[p][i].te \in ended /\ (i < cur[p] \/ cur[p] = 0)
                 /\ St(p, i)' = 3 => list'[p][i].tb = list'[p][i].te
                 /\ \A j \in 1 .. Len(list[p]) :
                      St(p, j)' >= ST_END /\ list'[p][j].te = list'[p][i].te => i = j
                 /\ \A l \in written[p] : l.te # list'[p][i].te
      <3>1. CASE p = id /\ i = pcur
        BY <1>0, <2>2, <2>3, <2>4, <2>5, <3>1
      <3>2. CASE p # id \/ i # pcur
        BY <2>1, <2>5, <2>6, <3>2
      <3>3. QED
        BY <3>1, <3>2
    <2>7. QED
      BY <1>0, <1>l, <2>6 DEF Nodes
  <1>5. Lines'
    BY <1>0 DEF IInv, Lines, Closing
  <1>6. Started'
    <2>1. \A p \in Points : p # id /\ cur[p] # 0 =>
             St(p, cur[p])' = St(p, cur[p]) /\ list'[p][cur[p]] = list[p][cur[p]]
      BY <1>0, <1>s DEF IInv, TypeOK, St
    <2>2. \A p \in Points : p # id => ~Starting(p) /\ ~Ending(p)
      BY DEF Starting, Ending
    <2>3. Ending(id)'
      BY <1>0 DEF Ending
    <2>4. QED
      BY <1>0, <1>n, <1>s, <2>1, <2>2, <2>3 DEF IInv, Started
  <1>7. Whole'
    <2>1. \A p \in Points : p # id /\ cur[p] # 0 =>
             St(p, cur[p])' = St(p, cur[p]) /\ list'[p][cur[p]] = list[p][cur[p]]
      BY <1>0, <1>s DEF IInv, TypeOK, St
    <2>2. \A p \in Points : p # id => ~Starting(p) /\ ~Closing(p)
      BY DEF Starting, Closing
    <2>3. Closing(id)' /\ Busy
      BY <1>0 DEF Closing, Busy
    <2>4. open[id] \notin cut => acc = 1 /\ cur[id] = pcur
      BY <1>0, <1>a, <2>3 DEF IInv, Whole
    <2>5. St(id, pcur)' = 3 \/ acc # 1
      BY <1>s
    <2>6. ASSUME NEW p \in Points, open[p] # 0, open[p] \notin cut, p # id
          PROVE  cur[p] # 0 => St(p, cur[p])' = 1 /\ list'[p][cur[p]].tb = open[p]
      BY <2>1, <2>2, <2>6 DEF IInv, Whole
    <2>7. pc' # "set_end"
      BY <1>0
    <2>8. \A p \in Points : p # id => ~Closing(p)'
      BY <1>0 DEF Closing
    <2>9. QED
      BY <1>0, <2>3, <2>4, <2>5, <2>6, <2>7, <2>8 DEF Whole
  <1>8. Kept'
    <2>1. EndedKept
      BY <1>a, <1>s, <1>l DEF EndedKept, ST_END
    <2>2. QED
      BY <1>0, <2>1, KeptStep
  <1>9. WrittenOnce'
    BY <1>0 DEF IInv, WrittenOnce
  <1>10. QED
    BY <1>1, <1>2, <1>3, <1>4, <1>5, <1>6, <1>7, <1>8, <1>9 DEF IInv

\* What linklist_create returns is a list of zeroed nodes.
LEMMA CreatedList ==
    ASSUME NEW k \in Nat
    PROVE  /\ linklist_create(k) \in Seq(Node) /\ Len(linklist_create(k)) = k
           /\ \A i \in 1 .. k : linklist_create(k)[i].status = 0
  <1>1. [tb |-> 0, te |-> 0, status |-> 0] \in Node
    BY PerfAssumption DEF Node
  <1>2. QED
    BY <1>1 DEF linklist_create

\* The list grows, or the allocation fails.
LEMMA GrowInv == ASSUME IInv, NEW allocated \in BOOLEAN, Grow(allocated) PROVE IInv'
  <1>0. /\ pc = "grow" /\ pc' = "next"
        /\ UNCHANGED <<num, cur, id, pcur, acc, meas, open, ended, cut, dumps, written>>
    BY DEF Grow, gvars
  <1>a. /\ id \in Points /\ size[id] \in Nat /\ list[id] \in Seq(Node)
        /\ list \in [Points -> Seq(Node)] /\ size \in [Points -> Nat]
        /\ \A p \in Points : Len(list[p]) <= size[p] /\ Len(list[p]) \in Nat
    BY DEF IInv, TypeOK
  <1> DEFINE more == size[id] \div 2 + 1
             tail == linklist_create(more)
  <1>m. more \in Nat
    BY <1>a
  <1>t. /\ tail \in Seq(Node) /\ Len(tail) = more
        /\ \A i \in 1 .. more : tail[i].status = 0
    BY <1>m, CreatedList
  <1> HIDE DEF tail, more
  <1>e. \/ UNCHANGED list /\ (UNCHANGED size \/ size' = [size EXCEPT ![id] = @ + more])
        \/ /\ list' = [list EXCEPT ![id] = @ \o tail]
           /\ size' = [size EXCEPT ![id] = @ + more]
    BY DEF Grow, tail, more
  <1>b. /\ list' \in [Points -> Seq(Node)] /\ size' \in [Points -> Nat]
        /\ \A p \in Points : Len(list'[p]) <= size'[p] /\ Len(list[p]) <= Len(list'[p])
    <2>1. CASE UNCHANGED list
      <3>1. CASE UNCHANGED size
        BY <1>a, <2>1, <3>1
      <3>2. CASE size' = [size EXCEPT ![id] = @ + more]
        <4>1. size' \in [Points -> Nat] /\ \A p \in Points : size[p] <= size'[p]
          BY <1>a, <1>m, <3>2
        <4>2. QED
          BY <1>a, <2>1, <4>1
      <3>3. QED
        BY <1>e, <2>1, <3>1, <3>2
    <2>2. CASE /\ list' = [list EXCEPT ![id] = @ \o tail]
               /\ size' = [size EXCEPT ![id] = @ + more]
      <3>1. list[id] \o tail \in Seq(Node) /\ Len(list[id] \o tail) = Len(list[id]) + more
        <4>1. \A u, v \in Seq(Node) : u \o v \in Seq(Node) /\ Len(u \o v) = Len(u) + Len(v)
          OBVIOUS
        <4>2. QED
          BY <1>a, <1>t, <4>1
      <3>2. QED
        BY <1>a, <1>m, <2>2, <3>1
    <2>3. QED
      BY <1>e, <2>1, <2>2
  <1>c. \A p \in Points : \A i \in 1 .. Len(list'[p]) :
           /\ i \in 1 .. Len(list[p]) => list'[p][i] = list[p][i]
           /\ i \notin 1 .. Len(list[p]) => list'[p][i].status = 0
    <2>1. CASE UNCHANGED list
      BY <2>1
    <2>2. CASE list' = [list EXCEPT ![id] = @ \o tail]
      <3> SUFFICES ASSUME NEW i \in 1 .. Len(list[id] \o tail)
                   PROVE  /\ i \in 1 .. Len(list[id]) => (list[id] \o tail)[i] = list[id][i]
                          /\ i \notin 1 .. Len(list[id]) => (list[id] \o tail)[i].status = 0
        BY <1>a, <2>2
      <3>1. CASE i \in 1 .. Len(list[id])
        BY <1>a, <1>t, <3>1
      <3>2. CASE i \notin 1 .. Len(list[id])
        <4>1. /\ i - Len(list[id]) \in 1 .. more
              /\ (list[id] \o tail)[i] = tail[i - Len(list[id])]
          BY <1>a, <1>t, <1>m, <3>2
        <4>2. QED
          BY <1>t, <3>2, <4>1
      <3>3. QED
        BY <3>1, <3>2
    <2>3. QED
      BY <1>e, <2>1, <2>2
  <1>s. \A p \in Points : \A i \in 1 .. Len(list[p]) :
           /\ i \in 1 .. Len(list'[p])
           /\ list'[p][i] = list[p][i] /\ St(p, i)' = St(p, i)
    BY <1>a, <1>b, <1>c DEF St
  <1>h. \A p \in Points : \A i \in 1 .. Len(list'[p]) :
           St(p, i)' >= ST_END => i \in 1 .. Len(list[p]) /\ St(p, i) >= ST_END
    <2> SUFFICES ASSUME NEW p \in Points, NEW i \in 1 .. Len(list'[p]),
                        St(p, i)' >= ST_END
                 PROVE  i \in 1 .. Len(list[p]) /\ St(p, i) >= ST_END
      OBVIOUS
    <2>1. i \in 1 .. Len(list[p])
      BY <1>c DEF St, ST_END
    <2>2. QED
      BY <1>s, <2>1
  <1>p. /\ \A p \in Points : Closing(p)' <=> Closing(p)
        /\ \A p \in Points : Starting(p)' <=> Starting(p)
        /\ \A p \in Points : Ending(p)' <=> Ending(p)
        /\ \A p \in Points : Starting(p) => FALSE
        /\ Busy /\ Busy' /\ pcur \in 1 .. Len(list[id])
    BY <1>0 DEF Closing, Starting, Ending, Busy, IInv, Cursor
  <1>u. \A p \in Points : cur[p] # 0 => cur[p] \in 1 .. Len(list[p])
    BY DEF IInv, TypeOK
  <1>v. \A p \in Points : cur[p] # 0 => St(p, cur[p])' = St(p, cur[p])
                                       /\ list'[p][cur[p]] = list[p][cur[p]]
    BY <1>0, <1>s, <1>u DEF St
  <1>w. St(id, pcur)' = St(id, pcur) /\ list'[id][pcur] = list[id][pcur]
    BY <1>0, <1>a, <1>s, <1>p DEF St
  <1>1. TypeOK'
    <2>1. \A p \in Points : cur'[p] <= Len(list'[p])
      BY <1>0, <1>a, <1>b DEF IInv, TypeOK
    <2>2. pcur' \in 0 .. Len(list'[id'])
      BY <1>0, <1>a, <1>b, <1>p DEF IInv, TypeOK
    <2>3. QED
      BY <1>0, <1>b, <2>1, <2>2 DEF IInv, TypeOK
  <1>2. Cursor'
    BY <1>0, <1>a, <1>b, <1>p DEF IInv, Cursor
  <1>3. Numbers'
    BY <1>0 DEF IInv, Numbers
  <1>4. Nodes'
    <2> SUFFICES ASSUME NEW p \in Points, NEW i \in 1 .. Len(list'[p]),
                        St(p, i)' >= ST_END
                 PROVE  /\ IF Closing(p) /\ pcur = i
                           THEN list'[p][i].te = open[p]
                           ELSE list'[p][i].te \in ended /\ (i < cur[p] \/ cur[p] = 0)
                        /\ St(p, i)' = 3 => list'[p][i].tb = list'[p][i].te
                        /\ \A j \in 1 .. Len(list'[p]) :
                             St(p, j)' >= ST_END /\ list'[p][j].te = list'[p][i].te
                                => i = j
                        /\ \A l \in written[p] : l.te # list'[p][i].te
      BY <1>0, <1>p DEF Nodes
    <2>1. /\ i \in 1 .. Len(list[p]) /\ St(p, i) >= ST_END
          /\ list'[p][i] = list[p][i] /\ St(p, i)' = St(p, i)
      BY <1>h, <1>s
    <2>2. \A j \in 1 .. Len(list'[p]) : St(p, j)' >= ST_END =>
             j \in 1 .. Len(list[p]) /\ St(p, j) >= ST_END /\ list'[p][j] = list[p][j]
      BY <1>h, <1>s
    <2>3. QED
      BY <2>1, <2>2 DEF IInv, Nodes
  <1>5. Lines'
    BY <1>0, <1>p DEF IInv, Lines
  <1>6. Started'
    BY <1>0, <1>p, <1>v, <1>w DEF IInv, Started
  <1>7. Whole'
    <2>1. \A p \in Points : Closing(p) => p = id
      BY DEF Closing
    <2> SUFFICES ASSUME NEW p \in Points, open[p] # 0, open[p] \notin cut
                 PROVE  /\ id = p => cur[p] = pcur
                        /\ ~Closing(p) /\ cur[p] # 0
                              => St(p, cur[p]) = 1 /\ list[p][cur[p]].tb = open[p]
                        /\ Closing(p) => St(p, pcur) = 3
      BY <1>0, <1>p, <1>v, <1>w, <2>1 DEF Whole
    <2>2. QED
      BY <1>p DEF IInv, Whole
  <1>8. Kept'
    <2>1. EndedKept
      BY <1>s DEF EndedKept
    <2>2. QED
      BY <1>0, <2>1, KeptStep
  <1>9. WrittenOnce'
    BY <1>0 DEF IInv, WrittenOnce
  <1>10. QED
    BY <1>1, <1>2, <1>3, <1>4, <1>5, <1>6, <1>7, <1>8, <1>9 DEF IInv

\* p_cur moves behind the node, and the measurement has ended.
LEMMA NextCurInv == ASSUME IInv, Next_cur PROVE IInv'
  <1>0. /\ pc = "next" /\ pc' = "idle"
        /\ cur' = [cur EXCEPT ![id] = IF pcur = Len(list[id]) THEN 0 ELSE pcur + 1]
        /\ ended' = ended \cup {open[id]}
        /\ open' = [open EXCEPT ![id] = 0]
        /\ UNCHANGED <<num, size, list, id, pcur, acc, meas, cut, dumps, written>>
    BY DEF Next_cur
  <1>a. /\ id \in Points /\ pcur \in 1 .. Len(list[id]) /\ Len(list[id]) \in Nat
        /\ open[id] # 0 /\ open[id] \in Meas /\ (cur[id] = pcur \/ cur[id] = 1)
        /\ id < num
    BY <1>0 DEF IInv, TypeOK, Cursor, Busy, Meas
  <1>b. /\ \A p \in Points : p # id => cur'[p] = cur[p] /\ open'[p] = open[p]
        /\ open'[id] = 0
        /\ cur'[id] = IF pcur = Len(list[id]) THEN 0 ELSE pcur + 1
    BY <1>0, <1>a DEF IInv, TypeOK
  <1>p. /\ \A p \in Points : Closing(p) <=> p = id
        /\ \A p \in Points : ~Starting(p) /\ ~Starting(p)' /\ ~Ending(p)' /\ ~Closing(p)'
        /\ \A p \in Points : p # id => ~Ending(p)
        /\ ~Busy'
    BY <1>0 DEF Closing, Starting, Ending, Busy
  <1>1. TypeOK'
    BY <1>0, <1>a, <1>b, PerfAssumption DEF IInv, TypeOK
  <1>2. Cursor'
    BY <1>0, <1>b, <1>p DEF IInv, Cursor
  <1>3. Numbers'
    <2>1. ended' \subseteq Meas /\ \A p \in Points : open[p] \in Nat
      BY <1>0, <1>a DEF IInv, TypeOK
    <2>2. \A p \in Points : open'[p] <= meas' /\ open'[p] \notin ended'
      <3> SUFFICES ASSUME NEW p \in Points PROVE open'[p] <= meas' /\ open'[p] \notin ended'
        OBVIOUS
      <3>1. CASE p = id
        BY <1>0, <1>b, <2>1, <3>1 DEF IInv, TypeOK, Meas
      <3>2. CASE p # id
        <4>1. open[p] # open[id]
          BY <1>a, <3>2 DEF IInv, Numbers
        <4>2. QED
          BY <1>0, <1>b, <3>2, <4>1 DEF IInv, Numbers
      <3>3. QED
        BY <3>1, <3>2
    <2>3. \A p, r \in Points : open'[p] = open'[r] /\ open'[p] # 0 => p = r
      BY <1>0, <1>b DEF IInv, Numbers
    <2>4. \A m \in ended' \cup cut' : m <= meas'
      BY <1>0, <1>a DEF IInv, Numbers
    <2>5. QED
      BY <2>2, <2>3, <2>4 DEF Numbers
  <1>4. Nodes'
    <2> SUFFICES ASSUME NEW p \in Points, NEW i \in 1 .. Len(list[p]), St(p, i) >= ST_END
                 PROVE  list[p][i].te \in ended' /\ (i < cur'[p] \/ cur'[p] = 0)
      <3>1. \A p \in Points : \A i \in 1 .. Len(list[p]) :
               St(p, i)' = St(p, i) /\ list'[p][i] = list[p][i]
        BY <1>0 DEF St
      <3>2. QED
        BY <1>0, <1>p, <3>1 DEF IInv, Nodes
    <2>1. CASE p = id /\ i = pcur
      BY <1>0, <1>a, <1>b, <1>p, <2>1 DEF IInv, Nodes
    <2>2. CASE p = id /\ i # pcur
      <3>1. list[p][i].te \in ended /\ (i < cur[p] \/ cur[p] = 0)
        BY <2>2 DEF IInv, Nodes
      <3>2. i < pcur
        BY <1>a, <2>2, <3>1
      <3>3. QED
        BY <1>0, <1>a, <1>b, <2>2, <3>1, <3>2
    <2>3. CASE p # id
      BY <1>0, <1>b, <1>p, <2>3 DEF IInv, Nodes
    <2>4. QED
      BY <2>1, <2>2, <2>3
  <1>5. Lines'
    BY <1>0, <1>a, <1>p DEF IInv, Lines
  <1>6. Started'
    BY <1>0, <1>a, <1>b, <1>p DEF IInv, Started, St
  <1>7. Whole'
    BY <1>0, <1>a, <1>b, <1>p DEF IInv, Whole, St
  <1>8. Kept'
    <2>1. \A p \in Points : \A i \in 1 .. Len(list[p]) : St(p, i)' = St(p, i)
      BY <1>0 DEF St
    <2>2. open[id] \notin cut =>
             St(id, pcur) = 3 /\ list[id][pcur].tb = open[id] /\ list[id][pcur].te = open[id]
      <3>1. open[id] \notin cut => St(id, pcur) = 3
        BY <1>a, <1>p DEF IInv, Whole
      <3>2. QED
        BY <1>a, <1>p, <3>1 DEF IInv, Nodes, ST_END
    <2> SUFFICES ASSUME NEW m \in ended' \ cut
                 PROVE  \E p \in Points :
                          \/ \E l \in written[p] : l.tb = m /\ l.te = m
                          \/ /\ p < num
                             /\ \E i \in 1 .. Len(list[p]) :
                                  St(p, i) = 3 /\ list[p][i].tb = m /\ list[p][i].te = m
      BY <1>0, <2>1 DEF Kept
    <2>3. CASE m = open[id]
      BY <1>a, <2>2, <2>3
    <2>4. CASE m \in ended
      BY <2>4 DEF IInv, Kept
    <2>5. QED
      BY <1>0, <2>3, <2>4
  <1>9. WrittenOnce'
    BY <1>0 DEF IInv, WrittenOnce
  <1>10. QED
    BY <1>1, <1>2, <1>3, <1>4, <1>5, <1>6, <1>7, <1>8, <1>9 DEF IInv

\* The dump: the walk's nodes are cleared, the finished ones written.
LEMMA StatisInv == ASSUME IInv, Perf_statis PROVE IInv'
  <1>0. /\ pc # "segv" /\ dumps < MaxDumps
        /\ cut' = cut \cup {open[p] : p \in {r \in Points : open[r] # 0}}
        /\ dumps' = dumps + 1
        /\ UNCHANGED <<num, size, pc, id, pcur, acc, meas, open, ended>>
    BY DEF Perf_statis, hvars
  <1>a. /\ list \in [Points -> Seq(Node)] /\ cur \in [Points -> Nat]
        /\ \A p \in Points : list[p] \in Seq(Node) /\ Len(list[p]) \in Nat
                             /\ cur[p] \in Nat /\ cur[p] <= Len(list[p])
        /\ \A p \in Points : \A i \in 1 .. Len(list[p]) :
              /\ list[p][i] \in Node /\ St(p, i) \in 0 .. 3
              /\ list[p][i].tb \in 0 .. MaxMeas /\ list[p][i].te \in 0 .. MaxMeas
        /\ id \in Points /\ dumps \in 0 .. MaxDumps
    <2>1. /\ list \in [Points -> Seq(Node)] /\ cur \in [Points -> Nat]
          /\ \A p \in Points : cur[p] <= Len(list[p])
          /\ id \in Points /\ dumps \in 0 .. MaxDumps
      BY DEF IInv, TypeOK
    <2>2. \A p \in Points : \A i \in 1 .. Len(list[p]) : list[p][i] \in Node
      BY <2>1
    <2>3. \A n \in Node : n.status \in 0 .. 3 /\ n.tb \in 0 .. MaxMeas /\ n.te \in 0 .. MaxMeas
      BY DEF Node
    <2>4. QED
      BY <2>1, <2>2, <2>3 DEF St
  <1>k. \A p \in Points : Walk(p) \subseteq 1 .. Len(list[p])
    BY <1>a DEF Walk
  <1>o. \A p \in Points : \A i \in (1 .. Len(list[p])) \ Walk(p) : cur[p] > 1 /\ i >= cur[p]
    BY <1>a DEF Walk
  <1>f. \A p \in Points : list[p] # <<>> => 1 \in Walk(p)
    BY <1>a DEF Walk
  <1>z. \A p \in Points : \A i \in 1 .. Len(list[p]) :
           LET n == [list[p][i] EXCEPT !.status = 0]
           IN  n \in Node /\ n.status = 0 /\ n.tb = list[p][i].tb /\ n.te = list[p][i].te
    <2>1. ASSUME NEW n \in Node
          PROVE  LET z == [n EXCEPT !.status = 0]
                 IN  z \in Node /\ z.status = 0 /\ z.tb = n.tb /\ z.te = n.te
      BY DEF Node
    <2>2. QED
      BY <1>a, <2>1
  <1>l. /\ list' \in [Points -> Seq(Node)]
        /\ \A p \in Points : Len(list'[p]) = Len(list[p])
        /\ \A p \in Points : \A i \in 1 .. Len(list[p]) :
              list'[p][i] = IF p < num /\ i \in Walk(p)
                            THEN [list[p][i] EXCEPT !.status = 0] ELSE list[p][i]
    <2>1. ASSUME NEW p \in Points
          PROVE  /\ Cleared(p) \in Seq(Node) /\ Len(Cleared(p)) = Len(list[p])
                 /\ \A i \in 1 .. Len(list[p]) :
                       Cleared(p)[i] = IF i \in Walk(p)
                                       THEN [list[p][i] EXCEPT !.status = 0] ELSE list[p][i]
      <3>1. DOMAIN list[p] = 1 .. Len(list[p])
        BY <1>a
      <3>2. \A i \in 1 .. Len(list[p]) :
               (IF i \in Walk(p) THEN [list[p][i] EXCEPT !.status = 0] ELSE list[p][i]) \in Node
        BY <1>a, <1>z
      <3>3. QED
        BY <1>a, <3>1, <3>2 DEF Cleared
    <2>2. list' = [p \in Points |-> IF p < num THEN Cleared(p) ELSE list[p]]
      BY DEF Perf_statis
    <2>3. QED
      BY <1>a, <2>1, <2>2
  <1>s. \A p \in Points : \A i \in 1 .. Len(list[p]) :
           /\ list'[p][i].tb = list[p][i].tb /\ list'[p][i].te = list[p][i].te
           /\ IF p < num /\ i \in Walk(p) THEN St(p, i)' = 0
              ELSE St(p, i)' = St(p, i) /\ list'[p][i] = list[p][i]
    <2> SUFFICES ASSUME NEW p \in Points, NEW i \in 1 .. Len(list[p])
                 PROVE  /\ list'[p][i].tb = list[p][i].tb /\ list'[p][i].te = list[p][i].te
                        /\ IF p < num /\ i \in Walk(p) THEN St(p, i)' = 0
                           ELSE St(p, i)' = St(p, i) /\ list'[p][i] = list[p][i]
      OBVIOUS
    <2>1. CASE p < num /\ i \in Walk(p)
      <3>1. list'[p][i] = [list[p][i] EXCEPT !.status = 0]
        BY <1>l, <2>1
      <3>2. QED
        BY <1>z, <2>1, <3>1 DEF St
    <2>2. CASE ~(p < num /\ i \in Walk(p))
      BY <1>l, <2>2 DEF St
    <2>3. QED
      BY <2>1, <2>2
  <1>r. \A p \in Points :
           /\ cur'[p] = IF p < num THEN HeadOf(list[p]) ELSE cur[p]
           /\ written'[p] = IF p < num THEN written[p] \cup Records(p) ELSE written[p]
    BY DEF Perf_statis
  <1>w. \A p \in Points : \A l \in Records(p) : \E i \in Walk(p) :
           l = Line(p, i) /\ St(p, i) = 3
    BY DEF Records, St, Or, ST_START, ST_END
  <1>x. \A p \in Points : \A i \in Walk(p) : St(p, i) = 3 => Line(p, i) \in Records(p)
    BY DEF Records, St, Or, ST_START, ST_END
  <1>y. \A p \in Points : \A i \in Walk(p) :
           /\ Line(p, i).tb = list[p][i].tb /\ Line(p, i).te = list[p][i].te
    BY DEF Line
  <1>p. /\ \A p \in Points : Closing(p)' <=> Closing(p)
        /\ \A p \in Points : Starting(p)' <=> Starting(p)
        /\ \A p \in Points : Ending(p)' <=> Ending(p)
        /\ Busy' <=> Busy
    BY <1>0 DEF Closing, Starting, Ending, Busy
  <1>u. \A p \in Points : p < num /\ list[p] # <<>> => cur'[p] = 1 /\ St(p, 1)' = 0
    <2>1. \A p \in Points : list[p] # <<>> => 1 \in 1 .. Len(list[p])
      BY <1>a
    <2>2. QED
      BY <1>r, <1>f, <1>s, <2>1 DEF HeadOf
  <1>v. \A p \in Points : open[p] # 0 => p < num
    BY DEF IInv, Cursor
  <1>1. TypeOK'
    <2>1. cur' \in [Points -> Nat] /\ \A p \in Points : cur'[p] <= Len(list'[p])
      <3>1. \A p \in Points : HeadOf(list[p]) \in Nat /\ HeadOf(list[p]) <= Len(list[p])
        BY <1>a DEF HeadOf
      <3>2. cur' = [p \in Points |-> IF p < num THEN HeadOf(list[p]) ELSE cur[p]]
        BY DEF Perf_statis
      <3>3. QED
        BY <1>a, <1>l, <3>1, <3>2
    <2>2. cut' \subseteq Meas
      <3>1. \A p \in Points : open[p] # 0 => open[p] \in Meas
        BY DEF IInv, TypeOK, Meas
      <3>2. QED
        BY <1>0, <3>1 DEF IInv, TypeOK
    <2> DEFINE LineType == [dump : 0 .. MaxDumps, node : Nat,
                            tb : 0 .. MaxMeas, te : 0 .. MaxMeas]
    <2>3. \A p \in Points : Records(p) \subseteq LineType
      <3>1. \A p \in Points : \A i \in Walk(p) : Line(p, i) \in LineType
        BY <1>a, <1>k DEF Line
      <3>2. QED
        BY <1>w, <3>1
    <2>4. written' \in [Points -> SUBSET LineType]
      <3>1. written \in [Points -> SUBSET LineType]
        BY DEF IInv, TypeOK
      <3>2. written' = [p \in Points |-> IF p < num THEN written[p] \cup Records(p) ELSE written[p]]
        BY DEF Perf_statis
      <3> HIDE DEF LineType
      <3>3. QED
        BY <2>3, <3>1, <3>2
    <2>5. dumps' \in 0 .. MaxDumps
      BY <1>0, <1>a, PerfAssumption
    <2>6. pcur' \in 0 .. Len(list'[id'])
      BY <1>0, <1>a, <1>l DEF IInv, TypeOK
    <2>7. \A p \in Points : Len(list'[p]) <= size'[p]
      BY <1>0, <1>l DEF IInv, TypeOK
    <2>8. QED
      BY <1>0, <1>l, <2>1, <2>2, <2>4, <2>5, <2>6, <2>7 DEF IInv, TypeOK
  <1>2. Cursor'
    <2>1. Busy => pcur \in 1 .. Len(list[id]) /\ open[id] # 0
      BY DEF IInv, Cursor
    <2>2. Busy => id < num /\ list[id] # <<>>
      BY <1>a, <1>v, <2>1
    <2>3. \A p \in Points : Starting(p) => Busy /\ p = id
      BY DEF Starting, Busy
    <2>4. Busy => cur'[id] = 1
      BY <1>a, <1>u, <2>2
    <2>5. \A p \in Points : Starting(p) => St(p, 1)' = 0
      BY <1>a, <1>u, <2>2, <2>3
    <2>6. Len(list'[id]) = Len(list[id])
      BY <1>a, <1>l
    <2>7. QED
      BY <1>0, <1>p, <1>v, <2>1, <2>4, <2>5, <2>6 DEF Cursor
  <1>3. Numbers'
    BY <1>0 DEF IInv, Numbers, TypeOK
  <1>h. ASSUME NEW p \in Points, NEW i \in 1 .. Len(list[p]), St(p, i)' >= ST_END
        PROVE  /\ St(p, i) >= ST_END /\ list'[p][i] = list[p][i] /\ St(p, i)' = St(p, i)
               /\ ~(p < num /\ i \in Walk(p))
    BY <1>s, <1>h DEF ST_END
  <1>4. Nodes'
    <2> SUFFICES ASSUME NEW p \in Points, NEW i \in 1 .. Len(list[p]), St(p, i)' >= ST_END
                 PROVE  /\ IF Closing(p) /\ pcur = i
                           THEN list'[p][i].te = open[p]
                           ELSE list'[p][i].te \in ended /\ (i < cur'[p] \/ cur'[p] = 0)
                        /\ St(p, i)' = 3 => list'[p][i].tb = list'[p][i].te
                        /\ \A j \in 1 .. Len(list[p]) :
                             St(p, j)' >= ST_END /\ list'[p][j].te = list'[p][i].te => i = j
                        /\ \A l \in written'[p] : l.te # list'[p][i].te
      BY <1>0, <1>p, <1>l DEF Nodes
    <2>1. /\ St(p, i) >= ST_END /\ list'[p][i] = list[p][i] /\ St(p, i)' = St(p, i)
          /\ ~(p < num /\ i \in Walk(p))
      BY <1>h
    <2>2. /\ IF Closing(p) /\ pcur = i
             THEN list[p][i].te = open[p]
             ELSE list[p][i].te \in ended /\ (i < cur[p] \/ cur[p] = 0)
          /\ St(p, i) = 3 => list[p][i].tb = list[p][i].te
          /\ \A j \in 1 .. Len(list[p]) :
               St(p, j) >= ST_END /\ list[p][j].te = list[p][i].te => i = j
          /\ \A l \in written[p] : l.te # list[p][i].te
      BY <2>1 DEF IInv, Nodes
    <2>3. p < num => Closing(p) /\ pcur = i
      BY <1>a, <1>o, <2>1, <2>2
    <2>4. ~(p < num) => cur'[p] = cur[p]
      BY <1>r
    <2>5. \A j \in 1 .. Len(list[p]) :
             St(p, j)' >= ST_END /\ list'[p][j].te = list'[p][i].te => i = j
      BY <1>h, <2>1, <2>2
    <2>6. ASSUME NEW l \in written'[p] PROVE l.te # list[p][i].te
      <3>1. CASE l \in written[p]
        BY <2>2, <3>1
      <3>2. CASE p < num /\ l \in Records(p)
        <4>1. PICK j \in Walk(p) : l = Line(p, j) /\ St(p, j) = 3
          BY <1>w, <3>2
        <4>2. j \in 1 .. Len(list[p]) /\ j # i /\ l.te = list[p][j].te /\ St(p, j) >= ST_END
          BY <1>k, <1>y, <2>1, <3>2, <4>1 DEF ST_END
        <4>3. QED
          BY <2>2, <4>2
      <3>3. QED
        BY <1>r, <2>6, <3>1, <3>2
    <2>7. QED
      BY <2>1, <2>2, <2>3, <2>4, <2>5, <2>6
  <1>5. Lines'
    <2> SUFFICES ASSUME NEW p \in Points, NEW l \in written'[p]
                 PROVE  l.tb = l.te /\ (l.te \in ended \/ (Closing(p) /\ l.te = open[p]))
      BY <1>0, <1>p DEF Lines
    <2>1. CASE l \in written[p]
      BY <2>1 DEF IInv, Lines
    <2>2. CASE l \in Records(p)
      <3>1. PICK j \in Walk(p) : l = Line(p, j) /\ St(p, j) = 3
        BY <1>w, <2>2
      <3>2. /\ j \in 1 .. Len(list[p]) /\ l.te = list[p][j].te /\ l.tb = list[p][j].tb
            /\ St(p, j) >= ST_END
        BY <1>k, <1>y, <3>1 DEF ST_END
      <3>3. QED
        BY <3>1, <3>2 DEF IInv, Nodes
    <2>3. QED
      BY <1>r, <2>1, <2>2
  <1>6. Started'
    <2>1. \A p \in Points : open[p] # 0 /\ cur'[p] # 0 => St(p, 1)' = 0 /\ cur'[p] = 1
      <3> SUFFICES ASSUME NEW p \in Points, open[p] # 0, cur'[p] # 0
                   PROVE  St(p, 1)' = 0 /\ cur'[p] = 1
        OBVIOUS
      <3>1. list[p] # <<>>
        BY <1>r, <1>v DEF HeadOf
      <3>2. QED
        BY <1>u, <1>v, <3>1
    <2>2. \A p \in Points : open'[p] # 0 /\ cur'[p] # 0 => St(p, cur[p])' # 1
      BY <1>0, <2>1 DEF St
    <2>3. Busy => /\ pcur \in 1 .. Len(list[id])
                  /\ list'[id][pcur].tb = list[id][pcur].tb
                  /\ list'[id][pcur].te = list[id][pcur].te
                  /\ St(id, pcur)' = St(id, pcur) \/ St(id, pcur)' = 0
      BY <1>0, <1>a, <1>s DEF IInv, Cursor
    <2>4. pc \notin {"idle", "segv"} => Busy
      BY DEF Busy
    <2>5. QED
      BY <1>0, <2>2, <2>3, <2>4 DEF IInv, Started
  <1>7. Whole'
    BY <1>0 DEF Whole
  <1>8. Kept'
    <2> SUFFICES ASSUME NEW m \in ended \ cut
                 PROVE  \E p \in Points :
                          \/ \E l \in written'[p] : l.tb = m /\ l.te = m
                          \/ /\ p < num
                             /\ \E i \in 1 .. Len(list[p]) :
                                  St(p, i)' = 3 /\ list'[p][i].tb = m /\ list'[p][i].te = m
      BY <1>0, <1>l DEF Kept
    <2>1. PICK p \in Points :
             \/ \E l \in written[p] : l.tb = m /\ l.te = m
             \/ /\ p < num
                /\ \E i \in 1 .. Len(list[p]) :
                      St(p, i) = 3 /\ list[p][i].tb = m /\ list[p][i].te = m
      BY DEF IInv, Kept
    <2>2. CASE \E l \in written[p] : l.tb = m /\ l.te = m
      BY <1>r, <2>2
    <2>3. ASSUME p < num, NEW i \in 1 .. Len(list[p]),
                 St(p, i) = 3, list[p][i].tb = m, list[p][i].te = m
          PROVE  \/ \E l \in written'[p] : l.tb = m /\ l.te = m
                 \/ St(p, i)' = 3 /\ list'[p][i].tb = m /\ list'[p][i].te = m
      <3>1. CASE i \in Walk(p)
        <4>1. Line(p, i) \in written'[p] /\ Line(p, i).tb = m /\ Line(p, i).te = m
          BY <1>r, <1>x, <1>y, <2>3, <3>1
        <4>2. QED
          BY <4>1
      <3>2. CASE i \notin Walk(p)
        BY <1>s, <2>3, <3>2
      <3>3. QED
        BY <3>1, <3>2
    <2>4. QED
      BY <2>1, <2>2, <2>3
  <1>9. WrittenOnce'
    <2> SUFFICES ASSUME NEW p \in Points, NEW l \in written'[p], NEW k \in written'[p],
                        l.te = k.te
                 PROVE  l = k
      BY DEF WrittenOnce
    <2>1. ASSUME NEW q \in Records(p)
          PROVE  \E i \in 1 .. Len(list[p]) :
                    q = Line(p, i) /\ q.te = list[p][i].te /\ St(p, i) >= ST_END
      BY <1>k, <1>w, <1>y, <2>1 DEF ST_END
    <2>2. \A q \in Records(p) : \A o \in written[p] : o.te # q.te
      BY <2>1 DEF IInv, Nodes
    <2>3. \A q, o \in Records(p) : q.te = o.te => q = o
      <3> SUFFICES ASSUME NEW q \in Records(p), NEW o \in Records(p), q.te = o.te
                   PROVE  q = o
        OBVIOUS
      <3>1. PICK i \in 1 .. Len(list[p]) :
                    q = Line(p, i) /\ q.te = list[p][i].te /\ St(p, i) >= ST_END
        BY <2>1
      <3>2. PICK j \in 1 .. Len(list[p]) :
                    o = Line(p, j) /\ o.te = list[p][j].te /\ St(p, j) >= ST_END
        BY <2>1
      <3>3. i = j
        BY <3>1, <3>2 DEF IInv, Nodes
      <3>4. QED
        BY <3>1, <3>2, <3>3
    <2>4. \A q, o \in written[p] : q.te = o.te => q = o
      BY DEF IInv, WrittenOnce
    <2>5. QED
      BY <1>r, <2>2, <2>3, <2>4
  <1>10. QED
    BY <1>1, <1>2, <1>3, <1>4, <1>5, <1>6, <1>7, <1>8, <1>9 DEF IInv

\* The program starts with every point at the head of its list, unused.
LEMMA InitInv == ASSUME Init PROVE IInv
  <1>0. /\ num = 0 /\ pc = "idle" /\ id = 0 /\ pcur = 0 /\ acc = 0 /\ meas = 0
        /\ open = [p \in Points |-> 0] /\ ended = {} /\ cut = {} /\ dumps = 0
        /\ written = [p \in Points |-> {}]
        /\ size = [p \in Points |-> Preset]
        /\ list = [p \in Points |-> linklist_create(Preset)]
        /\ cur = [p \in Points |-> HeadOf(linklist_create(Preset))]
    BY DEF Init
  <1>a. /\ linklist_create(Preset) \in Seq(Node) /\ Len(linklist_create(Preset)) = Preset
        /\ \A i \in 1 .. Preset : linklist_create(Preset)[i].status = 0
    BY PointFacts, CreatedList
  <1>b. HeadOf(linklist_create(Preset)) \in 0 .. Len(linklist_create(Preset))
    BY <1>a DEF HeadOf
  <1>c. \A p \in Points : \A i \in 1 .. Len(list[p]) : St(p, i) = 0
    BY <1>0, <1>a DEF St
  <1>1. TypeOK
    BY <1>0, <1>a, <1>b, PointFacts, PerfAssumption DEF TypeOK
  <1>2. Cursor
    BY <1>0 DEF Cursor, Busy, Starting
  <1>3. Numbers
    BY <1>0 DEF Numbers
  <1>4. Nodes
    BY <1>c DEF Nodes, ST_END
  <1>5. Lines /\ WrittenOnce /\ Kept
    BY <1>0 DEF Lines, WrittenOnce, Kept
  <1>6. Started /\ Whole
    BY <1>0 DEF Started, Whole
  <1>7. QED
    BY <1>1, <1>2, <1>3, <1>4, <1>5, <1>6 DEF IInv

\* The inductive invariant holds throughout, for every number of points and
\* every preset length of their lists, wherever the signals fall.
THEOREM PerfInvariant == Spec => []IInv
  <1>1. Init => IInv
    BY InitInv
  <1>2. ASSUME IInv, [Next]_vars PROVE IInv'
    <2>1. CASE Perf_mon_add
      BY <1>2, <2>1, AddInv
    <2>2. ASSUME NEW p \in Points, Start(p) \/ End(p) PROVE IInv'
      BY <1>2, <2>2, StartInv, EndInv
    <2>3. CASE StoreTime
      <3>1. pc \in {"tb", "te"}
        BY <2>3 DEF StoreTime
      <3>2. QED
        BY <1>2, <2>3, <3>1, StoreTeInv, StoreTbInv
    <2>4. CASE LoadStatus
      BY <1>2, <2>4, LoadInv
    <2>5. CASE StoreStart
      BY <1>2, <2>5, StoreStartInv
    <2>6. CASE StoreEnd
      BY <1>2, <2>6, StoreEndInv
    <2>7. ASSUME NEW allocated \in BOOLEAN, Grow(allocated) PROVE IInv'
      BY <1>2, <2>7, GrowInv
    <2>8. CASE Next_cur
      BY <1>2, <2>8, NextCurInv
    <2>9. CASE Perf_statis
      BY <1>2, <2>9, StatisInv
    <2>10. CASE UNCHANGED vars
      <3>1. UNCHANGED <<num, size, list, cur, pc, id, pcur, acc, meas, open, ended, cut,
                        dumps, written>>
        BY <2>10 DEF vars, mvars, hvars, gvars
      <3>2. TypeOK' /\ Cursor' /\ Numbers' /\ Nodes'
        BY <1>2, <3>1
        DEF IInv, TypeOK, Cursor, Numbers, Nodes, St, Busy, Starting, Closing
      <3>3. Lines' /\ Started' /\ Whole' /\ Kept' /\ WrittenOnce'
        BY <1>2, <3>1
        DEF IInv, Lines, Started, Whole, Kept, WrittenOnce, St, Busy, Starting, Ending, Closing
      <3>4. QED
        BY <3>2, <3>3 DEF IInv
    <2>11. QED
      BY <1>2, <2>1, <2>2, <2>3, <2>4, <2>5, <2>6, <2>7, <2>8, <2>9, <2>10 DEF Next
  <1>3. QED
    BY <1>1, <1>2, PTL DEF Spec

\* The variables keep their types: p_cur stays within its list, and status
\* within the two bits.
THEOREM PerfTypeOK == Spec => []TypeOK
  <1>1. IInv => TypeOK
    BY DEF IInv
  <1>2. QED
    BY <1>1, PerfInvariant, PTL

\* perf_statis never pairs the begin of one measurement with the end of
\* another.
THEOREM LinesArePairs == Spec => []RecordsArePairs
  <1>1. IInv => RecordsArePairs
    BY DEF IInv, Lines, RecordsArePairs
  <1>2. QED
    BY <1>1, PerfInvariant, PTL

\* No measurement is written twice.
THEOREM LinesWrittenOnce == Spec => []WrittenOnce
  <1>1. IInv => WrittenOnce
    BY DEF IInv
  <1>2. QED
    BY <1>1, PerfInvariant, PTL

\* A measurement no signal fell into is in a dump, or in the next one.
THEOREM NoMeasurementLost == Spec => []NoneLost
  <1>1. IInv => NoneLost
    <2> SUFFICES ASSUME IInv, NEW m \in ended \ cut
                 PROVE  \E p \in Points : \E l \in written[p] \cup Records(p) :
                           l.tb = m /\ l.te = m
      BY DEF NoneLost
    <2>1. PICK p \in Points :
             \/ \E l \in written[p] : l.tb = m /\ l.te = m
             \/ /\ p < num
                /\ \E i \in 1 .. Len(list[p]) :
                      St(p, i) = 3 /\ list[p][i].tb = m /\ list[p][i].te = m
      BY DEF IInv, Kept
    <2>2. CASE \E l \in written[p] : l.tb = m /\ l.te = m
      BY <2>2
    <2>3. ASSUME NEW i \in 1 .. Len(list[p]),
                 St(p, i) = 3, list[p][i].tb = m, list[p][i].te = m
          PROVE  \E l \in Records(p) : l.tb = m /\ l.te = m
      <3>1. i < cur[p] \/ cur[p] = 0
        <4>1. m # open[p]
          BY DEF IInv, Numbers
        <4>2. QED
          BY <2>3, <4>1 DEF IInv, Nodes, ST_END
      <3>2. i \in Walk(p)
        BY <3>1 DEF IInv, TypeOK, Walk
      <3>3. Line(p, i) \in Records(p)
        BY <2>3, <3>2 DEF Records, St, Or, ST_START, ST_END
      <3>4. QED
        BY <2>3, <3>3 DEF Line
    <2>4. QED
      BY <2>1, <2>2, <2>3
  <1>2. QED
    BY <1>1, PerfInvariant, PTL
=============================================================================
