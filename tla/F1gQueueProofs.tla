--------------------------- MODULE F1gQueueProofs ---------------------------
(***************************************************************************)
(* Proofs about F1gQueue for every size of the ring and of its blocks.     *)
(*                                                                         *)
(* The inductive invariant has three parts.  Control says what each thread *)
(* knows at each of its program points although the other one moves on     *)
(* (a test for room stays true, the head does not move).  Progress says    *)
(* how much of a block is already written or read.  Contents relates the   *)
(* ring to the two histories.                                              *)
(***************************************************************************)
EXTENDS F1gQueue, SequenceTheorems, TLAPS

\* Between its test for room and its store of tail, the producer's room
\* cannot vanish; the consumer's block cannot cease to be the head.
Control ==
    /\ ppc # "idle" => Len(published) < MaxPuts
    /\ pchk = "room" => ~que_obj_full
    /\ ppc \in {"add_len", "add_status", "add_copy", "mv_tail"}
           => ~que_obj_full
    /\ cpc = "head" => ~que_obj_empty
    /\ HeadStable

\* b holds the first n words of m.
Holds(b, m, n) == \A i \in 1 .. n : blk[b].data[i] = m[i]

\* What the producer has written of its block, and the consumer read of its.
Progress ==
    /\ pidx <= Len(pmsg)
    /\ ppc \in {"add_full", "add_len", "add_status"} => pidx = 0
    /\ ppc \in {"mv_full", "mv_tail"} => pidx = Len(pmsg)
    /\ ppc \in {"add_status", "add_copy", "mv_full", "mv_tail"}
           => blk[tail].data_len = Len(pmsg)
    /\ ppc \in PWriting => Holds(tail, pmsg, pidx)
    /\ cpc \in {"read", "pop_len"} =>
           /\ blk[front].data_len \in 0 .. words
           /\ Len(cbuf) <= blk[front].data_len
           /\ Holds(front, cbuf, Len(cbuf))
    /\ cpc = "pop_len" => Len(cbuf) = blk[front].data_len

\* The ring holds exactly the published messages that were not taken.
Contents ==
    /\ Len(published) = Len(consumed) + Waiting
    /\ \A i \in 1 .. Len(consumed) : consumed[i] = published[i]
    /\ \A i \in 1 .. Waiting :
           /\ blk[Slot(i)].data_len = Len(published[Len(consumed) + i])
           /\ Holds(Slot(i), published[Len(consumed) + i],
                    Len(published[Len(consumed) + i]))

IInv == TypeOK /\ Control /\ Progress /\ Contents

-----------------------------------------------------------------------------
\* The index after pos, without the remainder.
LEMMA NextPosWraps == \A pos \in Pos : NextPos(pos) = Wrap(pos + 1)
  BY BlkNumAssumption DEF NextPos, Wrap, Pos

\* The index after an index is one.
LEMMA NextPosInPos == \A pos \in Pos : NextPos(pos) \in Pos
  BY BlkNumAssumption DEF NextPos, Pos

\* What callers put and fits is a message; messages fit into a block.
LEMMA MsgFacts ==
    /\ <<>> \in Msg
    /\ \A m \in Payloads : Len(m) <= words => m \in Msg
    /\ \A m \in Msg : m \in Seq(Data) /\ Len(m) \in 0 .. words
  BY WordsAssumption, PayloadsAssumption DEF Msg

\* The three stores into a block keep its type.
LEMMA BlockStores ==
    ASSUME NEW B \in [Pos -> Block], NEW p \in Pos
    PROVE  /\ \A n \in 0 .. words :
                 [B EXCEPT ![p].data_len = n] \in [Pos -> Block]
           /\ \A st \in {0, 1} :
                 [B EXCEPT ![p].status = st] \in [Pos -> Block]
           /\ \A i \in 1 .. words, d \in Data :
                 [B EXCEPT ![p].data[i] = d] \in [Pos -> Block]
  BY DEF Block

\* One word of the producer's memcpy stays inside the block.
LEMMA CopyWordType == IInv /\ CopyWord => TypeOK'
  <1> SUFFICES ASSUME IInv, CopyWord PROVE TypeOK'
    OBVIOUS
  <1>1. pmsg \in Seq(Data) /\ Len(pmsg) \in 0 .. words
    BY MsgFacts DEF IInv, TypeOK
  <1>2. pidx + 1 \in 1 .. Len(pmsg) /\ pidx + 1 \in 1 .. words
    BY <1>1, WordsAssumption DEF IInv, TypeOK, CopyWord
  <1>3. pmsg[pidx + 1] \in Data
    BY <1>1, <1>2
  <1>4. blk' \in [Pos -> Block]
    BY <1>2, <1>3, BlockStores DEF IInv, TypeOK, CopyWord
  <1>5. QED
    BY <1>2, <1>4, WordsAssumption DEF IInv, TypeOK, CopyWord, cvars

\* Publishing keeps the types; the bound on the puts holds because it held
\* when the call started.
LEMMA StoreTailType == IInv /\ StoreTail /\ ppc # "idle" => TypeOK'
  <1> SUFFICES ASSUME IInv, StoreTail, ppc # "idle" PROVE TypeOK'
    OBVIOUS
  <1>1. published' \in Seq(Msg) /\ Len(published') <= MaxPuts
    BY MaxPutsAssumption DEF IInv, TypeOK, StoreTail, Control
  <1>2. QED
    BY <1>1, NextPosInPos, MsgFacts, WordsAssumption
    DEF IInv, TypeOK, StoreTail, PReturn, F1G_OK, cvars

\* A step keeps the types.
LEMMA TypeStep == IInv /\ [Next]_vars => TypeOK'
  <1> SUFFICES ASSUME IInv, [Next]_vars PROVE TypeOK'
    OBVIOUS
  <1> USE DEF IInv
  <1>1. ASSUME NEW m \in Payloads, AddCall(m) PROVE TypeOK'
    <2>1. CASE words < Len(m)
      BY <1>1, <2>1, MsgFacts, WordsAssumption
      DEF AddCall, PReturn, TypeOK, F1G_OK, F1G_ERR, qvars, cvars
    <2>2. CASE ~(words < Len(m))
      <3>1. m \in Msg
        BY <2>2, MsgFacts, WordsAssumption, PayloadsAssumption
      <3>2. QED
        BY <1>1, <2>2, <3>1, WordsAssumption DEF AddCall, TypeOK, qvars, cvars
    <2>3. QED
      BY <2>1, <2>2
  <1>2. ASSUME NEW m \in Payloads, FreeBlkCall(m) PROVE TypeOK'
    BY <1>2, NextPosInPos, MsgFacts, BlockStores, BlkNumAssumption, WordsAssumption, PayloadsAssumption, MaxPutsAssumption
    DEF FreeBlkCall, TypeOK, Progress, Control, HeadStable, Pos, Null, F1G_OK, F1G_ERR, PWriting, CHolding, vars, qvars, pvars, cvars
  <1>3. CASE PollFull
    BY <1>3, NextPosInPos, MsgFacts, BlockStores, BlkNumAssumption, WordsAssumption, PayloadsAssumption, MaxPutsAssumption
    DEF PollFull, TypeOK, Progress, Control, HeadStable, Pos, Null, F1G_OK, F1G_ERR, PWriting, CHolding, vars, qvars, pvars, cvars
  <1>4. CASE AddFull
    BY <1>4, NextPosInPos, MsgFacts, BlockStores, BlkNumAssumption, WordsAssumption, PayloadsAssumption, MaxPutsAssumption
    DEF AddFull, PReturn, TypeOK, Progress, Control, HeadStable, Pos, Null, F1G_OK, F1G_ERR, PWriting, CHolding, vars, qvars, pvars, cvars
  <1>5. CASE AddLen
    BY <1>5, NextPosInPos, MsgFacts, BlockStores, BlkNumAssumption, WordsAssumption, PayloadsAssumption, MaxPutsAssumption
    DEF AddLen, TypeOK, Progress, Control, HeadStable, Pos, Null, F1G_OK, F1G_ERR, PWriting, CHolding, vars, qvars, pvars, cvars
  <1>6. CASE AddStatus
    BY <1>6, NextPosInPos, MsgFacts, BlockStores, BlkNumAssumption, WordsAssumption, PayloadsAssumption, MaxPutsAssumption
    DEF AddStatus, TypeOK, Progress, Control, HeadStable, Pos, Null, F1G_OK, F1G_ERR, PWriting, CHolding, vars, qvars, pvars, cvars
  <1>7. CASE AddCopy
    BY <1>7, CopyWordType DEF AddCopy
  <1>8. CASE AddTail
    BY <1>8, StoreTailType DEF AddTail
  <1>9. CASE FreeBlkCopy
    BY <1>9, CopyWordType DEF FreeBlkCopy
  <1>10. CASE FreeBlkLen
    BY <1>10, NextPosInPos, MsgFacts, BlockStores, BlkNumAssumption, WordsAssumption, PayloadsAssumption, MaxPutsAssumption
    DEF FreeBlkLen, TypeOK, Progress, Control, HeadStable, Pos, Null, F1G_OK, F1G_ERR, PWriting, CHolding, vars, qvars, pvars, cvars
  <1>11. CASE MoveNextFull
    BY <1>11, NextPosInPos, MsgFacts, BlockStores, BlkNumAssumption, WordsAssumption, PayloadsAssumption, MaxPutsAssumption
    DEF MoveNextFull, PReturn, TypeOK, Progress, Control, HeadStable, Pos, Null, F1G_OK, F1G_ERR, PWriting, CHolding, vars, qvars, pvars, cvars
  <1>12. CASE MoveNextTail
    BY <1>12, StoreTailType DEF MoveNextTail
  <1>13. CASE PollEmpty
    BY <1>13, NextPosInPos, MsgFacts, BlockStores, BlkNumAssumption, WordsAssumption, PayloadsAssumption, MaxPutsAssumption
    DEF PollEmpty, TypeOK, Progress, Control, HeadStable, Pos, Null, F1G_OK, F1G_ERR, PWriting, CHolding, vars, qvars, pvars, cvars
  <1>14. CASE HeadCall
    BY <1>14, NextPosInPos, MsgFacts, BlockStores, BlkNumAssumption, WordsAssumption, PayloadsAssumption, MaxPutsAssumption
    DEF HeadCall, TypeOK, Progress, Control, HeadStable, Pos, Null, F1G_OK, F1G_ERR, PWriting, CHolding, vars, qvars, pvars, cvars
  <1>15. CASE ReadWord
    <2>1. cblk = front /\ blk[front].data_len \in 0 .. words
      BY <1>15 DEF ReadWord, Control, HeadStable, Progress, CHolding
    <2>2. blk[cblk].data[Len(cbuf) + 1] \in Data \cup {Junk}
      BY <1>15, <2>1, WordsAssumption DEF ReadWord, TypeOK, Block
    <2>3. cbuf' \in Seq(Data \cup {Junk})
      BY <1>15, <2>2 DEF ReadWord, TypeOK
    <2>4. QED
      BY <1>15, <2>3 DEF ReadWord, TypeOK, qvars, pvars
  <1>16. CASE PopTest
    BY <1>16, NextPosInPos, MsgFacts, BlockStores, BlkNumAssumption, WordsAssumption, PayloadsAssumption, MaxPutsAssumption
    DEF PopTest, TypeOK, Progress, Control, HeadStable, Pos, Null, F1G_OK, F1G_ERR, PWriting, CHolding, vars, qvars, pvars, cvars
  <1>17. CASE PopLen
    <2>0. 0 \in 0 .. words
      BY WordsAssumption
    <2>1. blk' \in [Pos -> Block]
      BY <1>17, <2>0, BlockStores DEF PopLen, TypeOK
    <2>2. consumed' \in Seq(Seq(Data \cup {Junk}))
      BY <1>17 DEF PopLen, TypeOK
    <2>3. QED
      BY <1>17, <2>1, <2>2 DEF PopLen, TypeOK, pvars, CHolding
  <1>18. CASE PopStatus
    BY <1>18, NextPosInPos, MsgFacts, BlockStores, BlkNumAssumption, WordsAssumption, PayloadsAssumption, MaxPutsAssumption
    DEF PopStatus, TypeOK, Progress, Control, HeadStable, Pos, Null, F1G_OK, F1G_ERR, PWriting, CHolding, vars, qvars, pvars, cvars
  <1>19. CASE PopFront
    BY <1>19, NextPosInPos, MsgFacts, BlockStores, BlkNumAssumption, WordsAssumption, PayloadsAssumption, MaxPutsAssumption
    DEF PopFront, TypeOK, Progress, Control, HeadStable, Pos, Null, F1G_OK, F1G_ERR, PWriting, CHolding, vars, qvars, pvars, cvars
  <1>20. CASE TailRead
    <2>1. cblk' \in Pos \cup {Null}
      BY <1>20, BlkNumAssumption DEF TailRead, TypeOK, Pos, Null
    <2>2. QED
      BY <1>20, <2>1 DEF TailRead, TypeOK, qvars, pvars
  <1>21. CASE TailEmpty
    <2>1. cblk' \in Pos \cup {Null}
      BY <1>21, BlkNumAssumption DEF TailEmpty, TypeOK, Pos, Null
    <2>2. QED
      BY <1>21, <2>1 DEF TailEmpty, TypeOK, qvars, pvars
  <1>22. CASE TailDone
    BY <1>22 DEF TailDone, TypeOK, qvars, pvars
  <1>23. CASE UNCHANGED vars
    BY <1>23 DEF TypeOK, vars, qvars, pvars, cvars
  <1>24. QED
    BY <1>1, <1>2, <1>3, <1>4, <1>5, <1>6, <1>7, <1>8, <1>9, <1>10, <1>11, <1>12, <1>13, <1>14, <1>15, <1>16, <1>17, <1>18, <1>19, <1>20, <1>21, <1>22, <1>23 DEF Next, Producer, Consumer, Loop

\* A step keeps what the threads know of the indices.
LEMMA ControlStep == IInv /\ [Next]_vars => Control'
  <1> SUFFICES ASSUME IInv, [Next]_vars PROVE Control'
    OBVIOUS
  <1> USE DEF IInv
  <1>1. ASSUME NEW m \in Payloads, AddCall(m) PROVE Control'
    BY <1>1, NextPosWraps, BlkNumAssumption
    DEF AddCall, PReturn, TypeOK, Control, HeadStable, que_obj_full, que_obj_empty, Wrap, Pos, Null, PWriting, CHolding, vars, qvars, pvars, cvars
  <1>2. ASSUME NEW m \in Payloads, FreeBlkCall(m) PROVE Control'
    BY <1>2, NextPosWraps, BlkNumAssumption
    DEF FreeBlkCall, TypeOK, Control, HeadStable, que_obj_full, que_obj_empty, Wrap, Pos, Null, PWriting, CHolding, vars, qvars, pvars, cvars
  <1>3. CASE PollFull
    BY <1>3, NextPosWraps, BlkNumAssumption
    DEF PollFull, TypeOK, Control, HeadStable, que_obj_full, que_obj_empty, Wrap, Pos, Null, PWriting, CHolding, vars, qvars, pvars, cvars
  <1>4. CASE AddFull
    BY <1>4, NextPosWraps, BlkNumAssumption
    DEF AddFull, PReturn, TypeOK, Control, HeadStable, que_obj_full, que_obj_empty, Wrap, Pos, Null, PWriting, CHolding, vars, qvars, pvars, cvars
  <1>5. CASE AddLen
    BY <1>5, NextPosWraps, BlkNumAssumption
    DEF AddLen, TypeOK, Control, HeadStable, que_obj_full, que_obj_empty, Wrap, Pos, Null, PWriting, CHolding, vars, qvars, pvars, cvars
  <1>6. CASE AddStatus
    BY <1>6, NextPosWraps, BlkNumAssumption
    DEF AddStatus, TypeOK, Control, HeadStable, que_obj_full, que_obj_empty, Wrap, Pos, Null, PWriting, CHolding, vars, qvars, pvars, cvars
  <1>7. CASE AddCopy
    BY <1>7, NextPosWraps, BlkNumAssumption
    DEF AddCopy, CopyWord, TypeOK, Control, HeadStable, que_obj_full, que_obj_empty, Wrap, Pos, Null, PWriting, CHolding, vars, qvars, pvars, cvars
  <1>8. CASE AddTail
    BY <1>8, NextPosWraps, BlkNumAssumption
    DEF AddTail, StoreTail, PReturn, TypeOK, Control, HeadStable, que_obj_full, que_obj_empty, Wrap, Pos, Null, PWriting, CHolding, vars, qvars, pvars, cvars
  <1>9. CASE FreeBlkCopy
    BY <1>9, NextPosWraps, BlkNumAssumption
    DEF FreeBlkCopy, CopyWord, TypeOK, Control, HeadStable, que_obj_full, que_obj_empty, Wrap, Pos, Null, PWriting, CHolding, vars, qvars, pvars, cvars
  <1>10. CASE FreeBlkLen
    BY <1>10, NextPosWraps, BlkNumAssumption
    DEF FreeBlkLen, TypeOK, Control, HeadStable, que_obj_full, que_obj_empty, Wrap, Pos, Null, PWriting, CHolding, vars, qvars, pvars, cvars
  <1>11. CASE MoveNextFull
    BY <1>11, NextPosWraps, BlkNumAssumption
    DEF MoveNextFull, PReturn, TypeOK, Control, HeadStable, que_obj_full, que_obj_empty, Wrap, Pos, Null, PWriting, CHolding, vars, qvars, pvars, cvars
  <1>12. CASE MoveNextTail
    BY <1>12, NextPosWraps, BlkNumAssumption
    DEF MoveNextTail, StoreTail, PReturn, TypeOK, Control, HeadStable, que_obj_full, que_obj_empty, Wrap, Pos, Null, PWriting, CHolding, vars, qvars, pvars, cvars
  <1>13. CASE PollEmpty
    BY <1>13, NextPosWraps, BlkNumAssumption
    DEF PollEmpty, TypeOK, Control, HeadStable, que_obj_full, que_obj_empty, Wrap, Pos, Null, PWriting, CHolding, vars, qvars, pvars, cvars
  <1>14. CASE HeadCall
    BY <1>14, NextPosWraps, BlkNumAssumption
    DEF HeadCall, TypeOK, Control, HeadStable, que_obj_full, que_obj_empty, Wrap, Pos, Null, PWriting, CHolding, vars, qvars, pvars, cvars
  <1>15. CASE ReadWord
    BY <1>15, NextPosWraps, BlkNumAssumption
    DEF ReadWord, TypeOK, Control, HeadStable, que_obj_full, que_obj_empty, Wrap, Pos, Null, PWriting, CHolding, vars, qvars, pvars, cvars
  <1>16. CASE PopTest
    BY <1>16, NextPosWraps, BlkNumAssumption
    DEF PopTest, TypeOK, Control, HeadStable, que_obj_full, que_obj_empty, Wrap, Pos, Null, PWriting, CHolding, vars, qvars, pvars, cvars
  <1>17. CASE PopLen
    BY <1>17, NextPosWraps, BlkNumAssumption
    DEF PopLen, TypeOK, Control, HeadStable, que_obj_full, que_obj_empty, Wrap, Pos, Null, PWriting, CHolding, vars, qvars, pvars, cvars
  <1>18. CASE PopStatus
    BY <1>18, NextPosWraps, BlkNumAssumption
    DEF PopStatus, TypeOK, Control, HeadStable, que_obj_full, que_obj_empty, Wrap, Pos, Null, PWriting, CHolding, vars, qvars, pvars, cvars
  <1>19. CASE PopFront
    BY <1>19, NextPosWraps, BlkNumAssumption
    DEF PopFront, TypeOK, Control, HeadStable, que_obj_full, que_obj_empty, Wrap, Pos, Null, PWriting, CHolding, vars, qvars, pvars, cvars
  <1>20. CASE TailRead
    BY <1>20, NextPosWraps, BlkNumAssumption
    DEF TailRead, TypeOK, Control, HeadStable, que_obj_full, que_obj_empty, Wrap, Pos, Null, PWriting, CHolding, vars, qvars, pvars, cvars
  <1>21. CASE TailEmpty
    BY <1>21, NextPosWraps, BlkNumAssumption
    DEF TailEmpty, TypeOK, Control, HeadStable, que_obj_full, que_obj_empty, Wrap, Pos, Null, PWriting, CHolding, vars, qvars, pvars, cvars
  <1>22. CASE TailDone
    BY <1>22, NextPosWraps, BlkNumAssumption
    DEF TailDone, TypeOK, Control, HeadStable, que_obj_full, que_obj_empty, Wrap, Pos, Null, PWriting, CHolding, vars, qvars, pvars, cvars
  <1>23. CASE UNCHANGED vars
    BY <1>23 DEF Control, HeadStable, que_obj_full, que_obj_empty, vars, qvars, pvars, cvars
  <1>24. QED
    BY <1>1, <1>2, <1>3, <1>4, <1>5, <1>6, <1>7, <1>8, <1>9, <1>10, <1>11, <1>12, <1>13, <1>14, <1>15, <1>16, <1>17, <1>18, <1>19, <1>20, <1>21, <1>22, <1>23 DEF Next, Producer, Consumer, Loop

-----------------------------------------------------------------------------
\* Where the waiting messages are: in blocks of the ring, never in the block
\* at tail, and the first of them at front while nothing is taken.
LEMMA SlotFacts ==
    ASSUME TypeOK, HeadStable
    PROVE  /\ Taken \in {0, 1}
           /\ Waiting \in Nat
           /\ \A i \in 1 .. Waiting : Slot(i) \in Pos /\ Slot(i) # tail
           /\ Taken = 0 /\ front # tail => Waiting >= 1 /\ Slot(1) = front
           /\ \A i \in 1 .. Waiting :
                  Slot(i) = front => Taken = 0 /\ i = 1
  BY BlkNumAssumption
  DEF TypeOK, HeadStable, Taken, Waiting, Used, Slot, Wrap, Pos, CHolding

\* Contents depends on the blocks of the waiting messages only.
LEMMA ContentsFrame ==
    ASSUME Contents, UNCHANGED <<front, tail, published, consumed>>,
           Taken' = Taken,
           \A i \in 1 .. Waiting :
              /\ blk'[Slot(i)].data_len = blk[Slot(i)].data_len
              /\ blk'[Slot(i)].data = blk[Slot(i)].data
    PROVE  Contents'
  <1>1. Waiting' = Waiting /\ \A i \in 1 .. Waiting : Slot(i)' = Slot(i)
    BY DEF Waiting, Used, Slot, Wrap
  <1>2. /\ Len(published') = Len(consumed') + Waiting'
        /\ \A i \in 1 .. Len(consumed') : consumed'[i] = published'[i]
    BY <1>1 DEF Contents
  <1>3. ASSUME NEW i \in 1 .. Waiting
        PROVE  /\ blk'[Slot(i)'].data_len = Len(published'[Len(consumed') + i])
               /\ Holds(Slot(i), published[Len(consumed) + i],
                        Len(published[Len(consumed) + i]))'
    <2>1. /\ blk[Slot(i)].data_len = Len(published[Len(consumed) + i])
          /\ Holds(Slot(i), published[Len(consumed) + i], Len(published[Len(consumed) + i]))
      BY DEF Contents
    <2>2. /\ Slot(i)' = Slot(i) /\ blk'[Slot(i)].data_len = blk[Slot(i)].data_len
          /\ blk'[Slot(i)].data = blk[Slot(i)].data
      BY <1>1
    <2>3. QED
      BY <2>1, <2>2 DEF Holds
  <1>4. QED
    BY <1>1, <1>2, <1>3 DEF Contents

\* The producer's stores go to the block at tail, which holds no message.
LEMMA WriteAtTail ==
    ASSUME IInv, UNCHANGED <<front, tail, cpc, published, consumed>>,
           \A b \in Pos : b # tail => blk'[b] = blk[b]
    PROVE  Contents'
  <1>1. \A i \in 1 .. Waiting : Slot(i) \in Pos /\ Slot(i) # tail
    BY SlotFacts DEF IInv, Control
  <1>2. Taken' = Taken
    BY DEF Taken
  <1>3. QED
    BY <1>1, <1>2, ContentsFrame DEF IInv

\* A message is determined by its length and its words.
LEMMA SeqEquality ==
    \A s \in Seq(Data \cup {Junk}), t \in Seq(Data) :
        Len(s) = Len(t) /\ (\A i \in 1 .. Len(s) : s[i] = t[i]) => s = t
  OBVIOUS

\* The block at tail, once written, becomes the last waiting message.
LEMMA StoreTailContents ==
    ASSUME IInv, StoreTail, ~que_obj_full, pidx = Len(pmsg),
           blk[tail].data_len = Len(pmsg), Holds(tail, pmsg, pidx)
    PROVE  Contents'
  <1> USE DEF IInv
  <1>1. /\ Waiting' = Waiting + 1
        /\ \A i \in 1 .. Waiting : Slot(i)' = Slot(i)
        /\ \A i \in Nat : i = Waiting + 1 => Slot(i)' = tail
    <2>1. /\ tail' = IF tail + 1 >= blk_num THEN tail + 1 - blk_num ELSE tail + 1
          /\ tail' # front /\ front' = front /\ Taken' = Taken
      <3>1. tail' = Wrap(tail + 1) /\ tail' # front /\ front' = front
        BY NextPosWraps DEF StoreTail, que_obj_full, TypeOK
      <3>2. cpc' = cpc
        BY DEF StoreTail, cvars
      <3>3. QED
        BY <3>1, <3>2, BlkNumAssumption DEF Wrap, Taken, TypeOK, Pos
    <2>2. Used' = Used + 1
      BY <2>1, BlkNumAssumption DEF TypeOK, Used, Pos
    <2>3. Taken \in {0, 1}
      BY DEF Taken
    <2>4. QED
      BY <2>1, <2>2, <2>3, BlkNumAssumption
      DEF TypeOK, Waiting, Used, Slot, Wrap, Pos
  <1>2. Waiting \in Nat
    BY SlotFacts DEF Control
  <1>3. /\ published \in Seq(Msg) /\ published' = Append(published, pmsg)
        /\ consumed' = consumed /\ blk' = blk
        /\ consumed \in Seq(Seq(Data \cup {Junk}))
    BY DEF StoreTail, TypeOK
  <1>4. Len(published) = Len(consumed) + Waiting
    BY DEF Contents
  <1>5. Len(published') = Len(consumed') + Waiting'
    BY <1>1, <1>2, <1>3, <1>4
  <1>6. \A i \in 1 .. Len(consumed') : consumed'[i] = published'[i]
    BY <1>2, <1>3, <1>4 DEF Contents
  <1>7. ASSUME NEW i \in 1 .. Waiting'
        PROVE  /\ blk'[Slot(i)'].data_len = Len(published'[Len(consumed') + i])
               /\ Holds(Slot(i), published[Len(consumed) + i],
                        Len(published[Len(consumed) + i]))'
    <2>1. CASE i = Waiting + 1
      <3>1. published'[Len(consumed') + i] = pmsg
        BY <1>2, <1>3, <1>4, <2>1
      <3>2. QED
        BY <1>1, <1>3, <2>1, <3>1 DEF Holds
    <2>2. CASE i # Waiting + 1
      <3>1. i \in 1 .. Waiting
        BY <1>1, <1>2, <2>2
      <3>2. published'[Len(consumed') + i] = published[Len(consumed) + i]
        BY <1>2, <1>3, <1>4, <3>1
      <3>3. QED
        BY <1>1, <1>3, <3>1, <3>2 DEF Holds, Contents
    <2>3. QED
      BY <2>1, <2>2
  <1>8. QED
    BY <1>5, <1>6, <1>7 DEF Contents

\* One word of the producer's memcpy extends the part of the block that is
\* written, and is not seen by the consumer.
LEMMA CopyWordProgress ==
    ASSUME IInv, CopyWord, ppc \in {"add_copy", "fb_copy"} PROVE Progress'
  <1> USE DEF IInv
  <1>1. pmsg \in Seq(Data) /\ Len(pmsg) \in 0 .. words /\ pidx \in Nat
    BY MsgFacts DEF TypeOK
  <1>2. pidx + 1 \in 1 .. words
    BY <1>1, WordsAssumption DEF CopyWord
  <1>3. /\ blk'[tail].data_len = blk[tail].data_len
        /\ blk'[tail].data = [blk[tail].data EXCEPT ![pidx + 1] = pmsg[pidx + 1]]
        /\ \A b \in Pos : b # tail => blk'[b] = blk[b]
    BY DEF CopyWord, TypeOK, Block
  <1>4. Holds(tail, pmsg, pidx)'
    <2>1. pidx' = pidx + 1 /\ pmsg' = pmsg /\ tail' = tail
      BY DEF CopyWord
    <2>2. Holds(tail, pmsg, pidx)
      BY DEF Progress, PWriting
    <2>3. DOMAIN blk[tail].data = 1 .. words
      BY DEF TypeOK, Block
    <2>4. \A i \in 1 .. (pidx + 1) : blk'[tail].data[i] = pmsg[i]
      BY <1>1, <1>2, <1>3, <2>2, <2>3, WordsAssumption DEF Holds
    <2>5. QED
      BY <2>1, <2>4 DEF Holds
  <1>5. cpc \in {"read", "pop_len"} => front \in Pos /\ front # tail
    BY DEF Control, HeadStable, CHolding, TypeOK
  <1>6. QED
    BY <1>1, <1>3, <1>4, <1>5
    DEF CopyWord, Progress, Holds, cvars

\* A step keeps what is known of the two blocks in hand.
LEMMA ProgressStep == IInv /\ [Next]_vars => Progress'
  <1> SUFFICES ASSUME IInv, [Next]_vars PROVE Progress'
    OBVIOUS
  <1> USE DEF IInv
  <1>1. ASSUME NEW m \in Payloads, AddCall(m) PROVE Progress'
    BY <1>1, MsgFacts, PayloadsAssumption
    DEF AddCall, PReturn, TypeOK, Progress, Holds, PWriting, qvars, cvars
  <1>2. ASSUME NEW m \in Payloads, FreeBlkCall(m) PROVE Progress'
    BY <1>2, MsgFacts, NextPosInPos, WordsAssumption, PayloadsAssumption
    DEF FreeBlkCall, TypeOK, Control, HeadStable, Progress, Holds, Block, PWriting, CHolding, vars, qvars, pvars, cvars
  <1>3. CASE PollFull
    BY <1>3, MsgFacts, NextPosInPos, WordsAssumption, PayloadsAssumption
    DEF PollFull, TypeOK, Control, HeadStable, Progress, Holds, Block, PWriting, CHolding, vars, qvars, pvars, cvars
  <1>4. CASE AddFull
    BY <1>4, MsgFacts, NextPosInPos, WordsAssumption, PayloadsAssumption
    DEF AddFull, PReturn, TypeOK, Control, HeadStable, Progress, Holds, Block, PWriting, CHolding, vars, qvars, pvars, cvars
  <1>5. CASE AddLen
    BY <1>5, MsgFacts, NextPosInPos, WordsAssumption, PayloadsAssumption
    DEF AddLen, TypeOK, Control, HeadStable, Progress, Holds, Block, PWriting, CHolding, vars, qvars, pvars, cvars
  <1>6. CASE AddStatus
    BY <1>6, MsgFacts, NextPosInPos, WordsAssumption, PayloadsAssumption
    DEF AddStatus, TypeOK, Control, HeadStable, Progress, Holds, Block, PWriting, CHolding, vars, qvars, pvars, cvars
  <1>7. CASE AddCopy
    BY <1>7, CopyWordProgress DEF AddCopy, PWriting
  <1>8. CASE AddTail
    BY <1>8, MsgFacts, NextPosInPos, WordsAssumption, PayloadsAssumption
    DEF AddTail, StoreTail, PReturn, TypeOK, Control, HeadStable, Progress, Holds, Block, PWriting, CHolding, vars, qvars, pvars, cvars
  <1>9. CASE FreeBlkCopy
    BY <1>9, CopyWordProgress DEF FreeBlkCopy, PWriting
  <1>10. CASE FreeBlkLen
    BY <1>10, MsgFacts, NextPosInPos, WordsAssumption, PayloadsAssumption
    DEF FreeBlkLen, TypeOK, Control, HeadStable, Progress, Holds, Block, PWriting, CHolding, vars, qvars, pvars, cvars
  <1>11. CASE MoveNextFull
    BY <1>11
    DEF MoveNextFull, PReturn, Progress, Holds, PWriting, qvars, cvars
  <1>12. CASE MoveNextTail
    BY <1>12, MsgFacts, NextPosInPos, WordsAssumption, PayloadsAssumption
    DEF MoveNextTail, StoreTail, PReturn, TypeOK, Control, HeadStable, Progress, Holds, Block, PWriting, CHolding, vars, qvars, pvars, cvars
  <1>13. CASE PollEmpty
    BY <1>13, MsgFacts, NextPosInPos, WordsAssumption, PayloadsAssumption
    DEF PollEmpty, TypeOK, Control, HeadStable, Progress, Holds, Block, PWriting, CHolding, vars, qvars, pvars, cvars
  <1>14. CASE HeadCall
    <2>1. Waiting >= 1 /\ Slot(1) = front /\ Waiting \in Nat
      BY <1>14, SlotFacts
      DEF HeadCall, Control, Taken, que_obj_empty
    <2>2. published[Len(consumed) + 1] \in Msg
      BY <2>1 DEF TypeOK, Contents
    <2>3. blk[front].data_len \in 0 .. words
      BY <2>1, <2>2, MsgFacts DEF Contents
    <2>4. Len(cbuf') = 0
      BY <1>14 DEF HeadCall
    <2>5. QED
      BY <1>14, <2>3, <2>4
      DEF HeadCall, Progress, Holds, PWriting, qvars, pvars
  <1>15. CASE ReadWord
    <2>1. cblk = front /\ blk[front].data_len \in 0 .. words
      BY <1>15 DEF ReadWord, Control, HeadStable, Progress, CHolding
    <2>2. /\ Len(cbuf') = Len(cbuf) + 1
          /\ \A i \in 1 .. Len(cbuf) : cbuf'[i] = cbuf[i]
          /\ cbuf'[Len(cbuf) + 1] = blk[front].data[Len(cbuf) + 1]
      BY <1>15, <2>1 DEF ReadWord, TypeOK
    <2>3. Holds(front, cbuf, Len(cbuf))'
      BY <1>15, <2>1, <2>2 DEF ReadWord, Progress, Holds, TypeOK, qvars
    <2>4. Len(cbuf') <= blk[front].data_len
      BY <1>15, <2>1, <2>2 DEF ReadWord, TypeOK
    <2>5. QED
      BY <1>15, <2>1, <2>3, <2>4
      DEF ReadWord, Progress, Holds, qvars, pvars
  <1>16. CASE PopTest
    BY <1>16, MsgFacts, NextPosInPos, WordsAssumption, PayloadsAssumption
    DEF PopTest, TypeOK, Control, HeadStable, Progress, Holds, Block, PWriting, CHolding, vars, qvars, pvars, cvars
  <1>17. CASE PopLen
    BY <1>17, MsgFacts, NextPosInPos, WordsAssumption, PayloadsAssumption
    DEF PopLen, TypeOK, Control, HeadStable, Progress, Holds, Block, PWriting, CHolding, vars, qvars, pvars, cvars
  <1>18. CASE PopStatus
    BY <1>18, MsgFacts, NextPosInPos, WordsAssumption, PayloadsAssumption
    DEF PopStatus, TypeOK, Control, HeadStable, Progress, Holds, Block, PWriting, CHolding, vars, qvars, pvars, cvars
  <1>19. CASE PopFront
    BY <1>19, MsgFacts, NextPosInPos, WordsAssumption, PayloadsAssumption
    DEF PopFront, TypeOK, Control, HeadStable, Progress, Holds, Block, PWriting, CHolding, vars, qvars, pvars, cvars
  <1>20. CASE TailRead
    BY <1>20, MsgFacts, NextPosInPos, WordsAssumption, PayloadsAssumption
    DEF TailRead, TypeOK, Control, HeadStable, Progress, Holds, Block, PWriting, CHolding, vars, qvars, pvars, cvars
  <1>21. CASE TailEmpty
    BY <1>21, MsgFacts, NextPosInPos, WordsAssumption, PayloadsAssumption
    DEF TailEmpty, TypeOK, Control, HeadStable, Progress, Holds, Block, PWriting, CHolding, vars, qvars, pvars, cvars
  <1>22. CASE TailDone
    BY <1>22, MsgFacts, NextPosInPos, WordsAssumption, PayloadsAssumption
    DEF TailDone, TypeOK, Control, HeadStable, Progress, Holds, Block, PWriting, CHolding, vars, qvars, pvars, cvars
  <1>23. CASE UNCHANGED vars
    BY <1>23 DEF Progress, Holds, vars, qvars, pvars, cvars
  <1>24. QED
    BY <1>1, <1>2, <1>3, <1>4, <1>5, <1>6, <1>7, <1>8, <1>9, <1>10, <1>11, <1>12, <1>13, <1>14, <1>15, <1>16, <1>17, <1>18, <1>19, <1>20, <1>21, <1>22, <1>23 DEF Next, Producer, Consumer, Loop

\* A step keeps the relation of the ring to the histories.
LEMMA ContentsStep == IInv /\ [Next]_vars => Contents'
  <1> SUFFICES ASSUME IInv, [Next]_vars PROVE Contents'
    OBVIOUS
  <1> USE DEF IInv
  <1>1. ASSUME NEW m \in Payloads, AddCall(m) PROVE Contents'
    BY <1>1, NextPosWraps, BlkNumAssumption
    DEF AddCall, PReturn, TypeOK, Control, HeadStable, que_obj_full, que_obj_empty, Progress, Contents, Holds, Waiting, Used, Taken, Slot, Wrap, Pos, PWriting, CHolding, vars, qvars, pvars, cvars
  <1>2. ASSUME NEW m \in Payloads, FreeBlkCall(m) PROVE Contents'
    BY <1>2, NextPosWraps, BlkNumAssumption
    DEF FreeBlkCall, TypeOK, Control, HeadStable, que_obj_full, que_obj_empty, Progress, Contents, Holds, Waiting, Used, Taken, Slot, Wrap, Pos, PWriting, CHolding, vars, qvars, pvars, cvars
  <1>3. CASE PollFull
    BY <1>3, NextPosWraps, BlkNumAssumption
    DEF PollFull, TypeOK, Control, HeadStable, que_obj_full, que_obj_empty, Progress, Contents, Holds, Waiting, Used, Taken, Slot, Wrap, Pos, PWriting, CHolding, vars, qvars, pvars, cvars
  <1>4. CASE AddFull
    BY <1>4, NextPosWraps, BlkNumAssumption
    DEF AddFull, PReturn, TypeOK, Control, HeadStable, que_obj_full, que_obj_empty, Progress, Contents, Holds, Waiting, Used, Taken, Slot, Wrap, Pos, PWriting, CHolding, vars, qvars, pvars, cvars
  <1>5. CASE AddLen
    BY <1>5, WriteAtTail DEF AddLen, TypeOK, cvars
  <1>6. CASE AddStatus
    BY <1>6, WriteAtTail DEF AddStatus, TypeOK, cvars
  <1>7. CASE AddCopy
    BY <1>7, WriteAtTail DEF AddCopy, CopyWord, TypeOK, cvars
  <1>8. CASE AddTail
    BY <1>8, StoreTailContents DEF AddTail, Control, Progress, PWriting
  <1>9. CASE FreeBlkCopy
    BY <1>9, WriteAtTail DEF FreeBlkCopy, CopyWord, TypeOK, cvars
  <1>10. CASE FreeBlkLen
    BY <1>10, WriteAtTail DEF FreeBlkLen, TypeOK, cvars
  <1>11. CASE MoveNextFull
    BY <1>11, NextPosWraps, BlkNumAssumption
    DEF MoveNextFull, PReturn, TypeOK, Control, HeadStable, que_obj_full, que_obj_empty, Progress, Contents, Holds, Waiting, Used, Taken, Slot, Wrap, Pos, PWriting, CHolding, vars, qvars, pvars, cvars
  <1>12. CASE MoveNextTail
    BY <1>12, StoreTailContents DEF MoveNextTail, Control, Progress, PWriting
  <1>13. CASE PollEmpty
    BY <1>13, NextPosWraps, BlkNumAssumption
    DEF PollEmpty, TypeOK, Control, HeadStable, que_obj_full, que_obj_empty, Progress, Contents, Holds, Waiting, Used, Taken, Slot, Wrap, Pos, PWriting, CHolding, vars, qvars, pvars, cvars
  <1>14. CASE HeadCall
    BY <1>14, NextPosWraps, BlkNumAssumption
    DEF HeadCall, TypeOK, Control, HeadStable, que_obj_full, que_obj_empty, Progress, Contents, Holds, Waiting, Used, Taken, Slot, Wrap, Pos, PWriting, CHolding, vars, qvars, pvars, cvars
  <1>15. CASE ReadWord
    BY <1>15, NextPosWraps, BlkNumAssumption
    DEF ReadWord, TypeOK, Control, HeadStable, que_obj_full, que_obj_empty, Progress, Contents, Holds, Waiting, Used, Taken, Slot, Wrap, Pos, PWriting, CHolding, vars, qvars, pvars, cvars
  <1>16. CASE PopTest
    BY <1>16, NextPosWraps, BlkNumAssumption
    DEF PopTest, TypeOK, Control, HeadStable, que_obj_full, que_obj_empty, Progress, Contents, Holds, Waiting, Used, Taken, Slot, Wrap, Pos, PWriting, CHolding, vars, qvars, pvars, cvars
  <1>17. CASE PopLen
    <2>1. cblk = front /\ front # tail /\ Taken = 0 /\ Taken' = 1
      BY <1>17 DEF PopLen, Control, HeadStable, Taken, CHolding
    <2>2. Waiting \in Nat /\ Waiting >= 1 /\ Slot(1) = front
      BY <2>1, SlotFacts DEF Control
    <2>3. /\ Waiting' = Waiting - 1
          /\ \A i \in 1 .. Waiting' : Slot(i)' = Slot(i + 1)
      BY <1>17, <2>1, BlkNumAssumption, SMTT(30)
      DEF PopLen, TypeOK, Waiting, Used, Slot, Wrap, Pos
    <2>4. \A i \in 1 .. Waiting' : /\ i + 1 \in 1 .. Waiting
                                  /\ Slot(i + 1) \in Pos
                                  /\ Slot(i + 1) # front
      BY <2>2, <2>3, SlotFacts DEF Control
    <2>5. \A i \in 1 .. Waiting' : blk'[Slot(i + 1)] = blk[Slot(i + 1)]
      BY <1>17, <2>4 DEF PopLen, TypeOK
    <2>6. /\ published \in Seq(Msg) /\ published' = published
          /\ consumed \in Seq(Seq(Data \cup {Junk}))
          /\ consumed' = Append(consumed, cbuf)
          /\ cbuf \in Seq(Data \cup {Junk})
          /\ Len(published) = Len(consumed) + Waiting
      BY <1>17 DEF PopLen, TypeOK, Contents
    <2>7. cbuf = published[Len(consumed) + 1]
      <3>1. published[Len(consumed) + 1] \in Seq(Data)
        BY <2>2, <2>6, MsgFacts
      <3>2. Len(cbuf) = Len(published[Len(consumed) + 1])
        BY <1>17, <2>2 DEF PopLen, Progress, Contents
      <3>3. \A i \in 1 .. Len(cbuf) :
              cbuf[i] = published[Len(consumed) + 1][i]
        BY <1>17, <2>2, <3>2 DEF PopLen, Progress, Contents, Holds
      <3>4. QED
        BY <2>6, <3>1, <3>2, <3>3, SeqEquality
    <2>8. Len(published') = Len(consumed') + Waiting'
      BY <2>2, <2>3, <2>6
    <2>9. \A i \in 1 .. Len(consumed') : consumed'[i] = published'[i]
      BY <2>6, <2>7 DEF Contents
    <2>10. ASSUME NEW i \in 1 .. Waiting'
           PROVE /\ blk'[Slot(i)'].data_len
                       = Len(published'[Len(consumed') + i])
                 /\ Holds(Slot(i), published[Len(consumed) + i],
                          Len(published[Len(consumed) + i]))'
      <3>1. Len(consumed') + i = Len(consumed) + (i + 1)
        BY <2>3, <2>6
      <3>2. published'[Len(consumed') + i] = published[Len(consumed) + (i + 1)]
        BY <2>6, <3>1
      <3>3. /\ blk[Slot(i + 1)].data_len
                   = Len(published[Len(consumed) + (i + 1)])
            /\ Holds(Slot(i + 1), published[Len(consumed) + (i + 1)],
                     Len(published[Len(consumed) + (i + 1)]))
        BY <2>4 DEF Contents
      <3>4. blk'[Slot(i)'] = blk[Slot(i + 1)]
        BY <2>3, <2>5
      <3>5. QED
        BY <3>2, <3>3, <3>4 DEF Holds
    <2>11. QED
      BY <2>8, <2>9, <2>10 DEF Contents
  <1>18. CASE PopStatus
    <2>1. Taken' = Taken
      BY <1>18 DEF PopStatus, Taken
    <2>2. \A b \in Pos : /\ blk'[b].data_len = blk[b].data_len
                        /\ blk'[b].data = blk[b].data
      BY <1>18 DEF PopStatus, TypeOK, Block
    <2>3. QED
      BY <1>18, <2>1, <2>2, SlotFacts, ContentsFrame DEF PopStatus, Control
  <1>19. CASE PopFront
    <2>1. /\ Waiting' = Waiting
          /\ \A i \in 1 .. Waiting : Slot(i)' = Slot(i)
      <3>1. /\ front' = IF front + 1 >= blk_num THEN front + 1 - blk_num
                                                ELSE front + 1
            /\ tail' = tail /\ front # tail /\ Taken = 1 /\ Taken' = 0
        <4>1. front' = Wrap(front + 1) /\ tail' = tail
          BY <1>19, NextPosWraps DEF PopFront, TypeOK
        <4>2. front # tail
          BY <1>19 DEF PopFront, Control, HeadStable, CHolding
        <4>3. Taken = 1 /\ Taken' = 0
          BY <1>19 DEF PopFront, Taken
        <4>4. QED
          BY <4>1, <4>2, <4>3, BlkNumAssumption DEF Wrap, TypeOK, Pos
      <3>2. Used' = Used - 1
        BY <3>1, BlkNumAssumption DEF TypeOK, Used, Pos
      <3>3. QED
        BY <3>1, <3>2, BlkNumAssumption
        DEF TypeOK, Waiting, Used, Slot, Wrap, Pos
    <2>2. QED
      BY <1>19, <2>1 DEF PopFront, Contents, Holds
  <1>20. CASE TailRead
    BY <1>20, NextPosWraps, BlkNumAssumption
    DEF TailRead, TypeOK, Control, HeadStable, que_obj_full, que_obj_empty, Progress, Contents, Holds, Waiting, Used, Taken, Slot, Wrap, Pos, PWriting, CHolding, vars, qvars, pvars, cvars
  <1>21. CASE TailEmpty
    BY <1>21, NextPosWraps, BlkNumAssumption
    DEF TailEmpty, TypeOK, Control, HeadStable, que_obj_full, que_obj_empty, Progress, Contents, Holds, Waiting, Used, Taken, Slot, Wrap, Pos, PWriting, CHolding, vars, qvars, pvars, cvars
  <1>22. CASE TailDone
    BY <1>22, NextPosWraps, BlkNumAssumption
    DEF TailDone, TypeOK, Control, HeadStable, que_obj_full, que_obj_empty, Progress, Contents, Holds, Waiting, Used, Taken, Slot, Wrap, Pos, PWriting, CHolding, vars, qvars, pvars, cvars
  <1>23. CASE UNCHANGED vars
    BY <1>23 DEF Contents, Holds, Waiting, Used, Taken, Slot, Wrap, vars, qvars, pvars, cvars
  <1>24. QED
    BY <1>1, <1>2, <1>3, <1>4, <1>5, <1>6, <1>7, <1>8, <1>9, <1>10, <1>11, <1>12, <1>13, <1>14, <1>15, <1>16, <1>17, <1>18, <1>19, <1>20, <1>21, <1>22, <1>23 DEF Next, Producer, Consumer, Loop

-----------------------------------------------------------------------------
\* The first state, in which nothing was put or taken.
LEMMA InitIInv == Init => IInv
  <1> SUFFICES ASSUME Init PROVE IInv
    OBVIOUS
  <1>1. TypeOK
    BY BlkNumAssumption, WordsAssumption, MaxPutsAssumption, MsgFacts
    DEF Init, TypeOK, Block, Pos, Null, F1G_OK
  <1>2. Control /\ Progress
    BY DEF Init, Control, HeadStable, Progress, Holds, PWriting, CHolding
  <1>3. Contents
    BY DEF Init, Contents, Waiting, Used, Taken
  <1>4. QED
    BY <1>1, <1>2, <1>3 DEF IInv

\* The inductive invariant holds in every state of every execution.
THEOREM QueueInvariant == Spec => []IInv
  <1>1. IInv /\ [Next]_vars => IInv'
    BY TypeStep, ControlStep, ProgressStep, ContentsStep DEF IInv
  <1>2. QED
    BY InitIInv, <1>1, PTL DEF Spec

\* Every variable of the queue and of its two threads keeps its type: in
\* particular the indices stay inside the ring and no store of que_obj_add,
\* que_obj_pop or the in-place caller leaves its block.
THEOREM TypeCorrect == Spec => []TypeOK
  BY QueueInvariant, PTL DEF IInv

\* The block que_obj_head returned stays the head until que_obj_pop moves
\* front, for every interleaving with the producer.
THEOREM HeadIsStable == Spec => []HeadStable
  BY QueueInvariant, PTL DEF IInv, Control

\* The producer and the consumer never use the same block, without any lock.
THEOREM BlocksDisjoint == Spec => []NoOverlap
  <1>1. IInv => NoOverlap
    BY DEF IInv, Control, HeadStable, NoOverlap
  <1>2. QED
    BY <1>1, QueueInvariant, PTL

\* Asking que_obj_full first makes the silent drop of que_obj_add and the
\* F1G_ERR of que_obj_move_next impossible.
THEOREM CheckedCallSucceeds == Spec => []CheckedCallHasRoom
  <1>1. IInv => CheckedCallHasRoom
    BY DEF IInv, Control, CheckedCallHasRoom
  <1>2. QED
    BY <1>1, QueueInvariant, PTL

-----------------------------------------------------------------------------
\* The waiting messages of the ring, as Fifo's q.
Ring == [i \in 1 .. Waiting |-> BlkMsg(Slot(i))]

\* The ring, read block by block, is what was published and not taken.
LEMMA RingIsRest ==
    ASSUME IInv
    PROVE  /\ Ring \in Seq(Msg) /\ Len(Ring) = Waiting
           /\ \A i \in 1 .. Waiting : Ring[i] = published[Len(consumed) + i]
  <1> USE DEF IInv
  <1>1. Waiting \in Nat
    BY SlotFacts DEF Control
  <1>2. ASSUME NEW i \in 1 .. Waiting
        PROVE  /\ BlkMsg(Slot(i)) = published[Len(consumed) + i]
               /\ published[Len(consumed) + i] \in Msg
    <2>1. published[Len(consumed) + i] \in Msg
      BY <1>1 DEF TypeOK, Contents
    <2>2. /\ published[Len(consumed) + i] \in Seq(Data)
          /\ Len(published[Len(consumed) + i]) \in 0 .. words
      BY <2>1, MsgFacts
    <2>3. blk[Slot(i)].data_len = Len(published[Len(consumed) + i])
      BY DEF Contents
    <2>4. blk[Slot(i)].data_len # Junk
      BY <2>2, <2>3, JunkAssumption
    <2>5. BlkMsg(Slot(i))
            = [j \in 1 .. Len(published[Len(consumed) + i])
                 |-> published[Len(consumed) + i][j]]
      BY <2>3, <2>4 DEF BlkMsg, Contents, Holds
    <2>6. QED
      BY <2>1, <2>2, <2>5
  <1>3. QED
    BY <1>1, <1>2 DEF Ring

\* A sequence is its first part followed by the rest.
LEMMA ConcatEquality ==
    ASSUME NEW S, NEW s \in Seq(S), NEW t \in Seq(S), NEW u \in Seq(S),
           Len(u) = Len(s) + Len(t),
           \A i \in 1 .. Len(u) :
              u[i] = IF i <= Len(s) THEN s[i] ELSE t[i - Len(s)]
    PROVE  u = s \o t
  <1>1. /\ s \o t \in Seq(S) /\ Len(s \o t) = Len(s) + Len(t)
        /\ \A i \in 1 .. Len(s) + Len(t) :
              (s \o t)[i] = IF i <= Len(s) THEN s[i] ELSE t[i - Len(s)]
    BY ConcatProperties
  <1>2. QED
    BY <1>1, SeqEqual

\* What was popped, followed by what the ring holds, is what was published:
\* nothing is lost, repeated, reordered or torn, for every ring size.
THEOREM QueueConserves == Spec => []Conservation
  <1>1. ASSUME IInv PROVE Conservation
    <2> USE DEF IInv
    <2>1. published = consumed \o Ring
      <3>1. /\ Waiting \in Nat /\ published \in Seq(Msg)
            /\ consumed \in Seq(Seq(Data \cup {Junk}))
            /\ Len(published) = Len(consumed) + Waiting
            /\ \A i \in 1 .. Len(consumed) : consumed[i] = published[i]
        BY <1>1, SlotFacts DEF Control, TypeOK, Contents
      <3>2. Ring \in Seq(Msg) /\ Len(Ring) = Waiting
        BY <1>1, RingIsRest
      <3>3. \A m \in Msg : m \in Seq(Data \cup {Junk})
        BY MsgFacts
      <3>4. /\ Ring \in Seq(Seq(Data \cup {Junk}))
            /\ published \in Seq(Seq(Data \cup {Junk}))
        BY <3>1, <3>2, <3>3
      <3>5. \A i \in 1 .. Len(published) :
               published[i] = IF i <= Len(consumed) THEN consumed[i]
                              ELSE Ring[i - Len(consumed)]
        BY <1>1, <3>1, RingIsRest
      <3>6. QED
        BY <3>1, <3>2, <3>4, <3>5, ConcatEquality
    <2>2. QED
      BY <2>1 DEF Conservation, Fifo!Conservation, Ring
  <1>2. QED
    BY <1>1, QueueInvariant, PTL

-----------------------------------------------------------------------------
(* The refinement of BoundedFifo.                                          *)

\* A call in progress puts one of the callers' payloads, and one that fits.
CallPays == ppc # "idle" => pmsg \in Payloads /\ Len(pmsg) <= words

\* Only a call sets the message, and it tests the length first.
LEMMA CallPaysStep == TypeOK /\ CallPays /\ [Next]_vars => CallPays'
  <1> SUFFICES ASSUME TypeOK, CallPays, [Next]_vars PROVE CallPays'
    OBVIOUS
  <1>1. ASSUME NEW m \in Payloads, AddCall(m) \/ FreeBlkCall(m) PROVE CallPays'
    <2>1. Len(m) \in Nat
      BY PayloadsAssumption
    <2>2. QED
      BY <1>1, <2>1, WordsAssumption
      DEF AddCall, FreeBlkCall, PReturn, CallPays
  <1>2. CASE PollFull \/ AddFull \/ AddLen \/ AddStatus \/ AddCopy \/ AddTail
    BY <1>2 DEF PollFull, AddFull, AddLen, AddStatus, AddCopy, AddTail,
                CopyWord, StoreTail, PReturn, CallPays
  <1>3. CASE FreeBlkCopy \/ FreeBlkLen \/ MoveNextFull \/ MoveNextTail
    BY <1>3 DEF FreeBlkCopy, FreeBlkLen, MoveNextFull, MoveNextTail,
                CopyWord, StoreTail, PReturn, CallPays
  <1>4. CASE Consumer \/ UNCHANGED vars
    BY <1>4 DEF Consumer, Loop, PollEmpty, HeadCall, ReadWord, PopTest, PopLen,
                PopStatus, PopFront, TailRead, TailEmpty, TailDone, CallPays,
                vars, pvars
  <1>5. QED
    BY <1>1, <1>2, <1>3, <1>4 DEF Next, Producer

\* The rest of the published messages, which is what the ring holds.
Rest == [i \in 1 .. (Len(published) - Len(consumed)) |->
            published[Len(consumed) + i]]

RestFacts ==
    /\ Ring = Rest /\ Rest \in Seq(Msg)
    /\ Len(Rest) = Len(published) - Len(consumed) /\ Len(Rest) = Waiting
    /\ Len(published) \in Nat /\ Len(consumed) \in Nat
    /\ \A i \in 1 .. Len(Rest) : Rest[i] = published[Len(consumed) + i]

\* So the mapped queue changes with the two histories only.
LEMMA RingIsRestSeq == IInv => RestFacts
  <1> SUFFICES ASSUME IInv PROVE RestFacts
    OBVIOUS
  <1>1. /\ Waiting \in Nat /\ Len(published) = Len(consumed) + Waiting
        /\ published \in Seq(Msg) /\ Len(consumed) \in Nat
    BY SlotFacts DEF IInv, Control, TypeOK, Contents
  <1>2. /\ Ring \in Seq(Msg) /\ Len(Ring) = Waiting
        /\ \A i \in 1 .. Waiting : Ring[i] = published[Len(consumed) + i]
    BY RingIsRest
  <1>3. Waiting = Len(published) - Len(consumed)
    BY <1>1
  <1>4. Rest = [i \in 1 .. Waiting |-> published[Len(consumed) + i]]
    BY <1>3 DEF Rest
  <1>5. Ring = Rest
    BY <1>2, <1>4 DEF Ring
  <1>6. QED
    BY <1>1, <1>2, <1>3, <1>5 DEF RestFacts

\* The same of the state after a step.
LEMMA RingIsRestNext == IInv' => RestFacts'
  BY RingIsRestSeq, PTL

\* The store of tail is a Put of BoundedFifo: there was room, since the test
\* for it cannot have become stale.
LEMMA StoreTailPuts ==
    ASSUME IInv, IInv', CallPays, StoreTail, ppc # "idle", ~que_obj_full
    PROVE  \E m \in {p \in Payloads : Len(p) <= words} : Fifo!Put(m)
  <1>1. Waiting < blk_num - 1
    <2>1. NextPos(tail) = Wrap(tail + 1)
      BY NextPosWraps DEF IInv, TypeOK
    <2>2. front # Wrap(tail + 1)
      BY <2>1 DEF que_obj_full
    <2>3. Taken \in {0, 1}
      BY DEF Taken
    <2>4. QED
      BY <2>2, <2>3, BlkNumAssumption
      DEF Waiting, Used, Wrap, IInv, TypeOK, Pos
  <1>2. /\ published' = Append(published, pmsg) /\ consumed' = consumed
        /\ published \in Seq(Msg) /\ pmsg \in Msg
    BY DEF StoreTail, IInv, TypeOK
  <1>3. /\ Rest \in Seq(Msg) /\ Len(Rest) = Len(published) - Len(consumed)
        /\ Len(Rest) = Waiting /\ Ring = Rest
        /\ Len(published) \in Nat /\ Len(consumed) \in Nat
        /\ \A i \in 1 .. Len(Rest) : Rest[i] = published[Len(consumed) + i]
    BY RingIsRestSeq DEF RestFacts
  <1>4. /\ Rest' \in Seq(Msg) /\ Len(Rest') = Len(published') - Len(consumed')
        /\ Ring' = Rest'
        /\ \A i \in 1 .. Len(Rest') : Rest'[i] = published'[Len(consumed') + i]
    BY RingIsRestNext DEF RestFacts
  <1>5. Rest' = Append(Rest, pmsg)
    <2>1. Len(published') = Len(published) + 1
      BY <1>2
    <2>2. Len(Rest') = Len(Rest) + 1
      BY <1>2, <1>3, <1>4, <2>1
    <2>3. /\ Len(Rest) \in Nat /\ Len(consumed) \in Nat /\ Len(published) \in Nat
          /\ Len(consumed) + Len(Rest) = Len(published)
      BY <1>3
    <2>4. Append(Rest, pmsg) \in Seq(Msg)
          /\ Len(Append(Rest, pmsg)) = Len(Rest) + 1
      BY <1>2, <1>3
    <2>5. ASSUME NEW i \in 1 .. Len(Rest') PROVE Rest'[i] = Append(Rest, pmsg)[i]
      <3>1. i \in 1 .. (Len(Rest) + 1)
        BY <2>2
      <3>2. Rest'[i] = published'[Len(consumed) + i]
        BY <1>2, <1>4
      <3>3. CASE i \in 1 .. Len(Rest)
        <4>1. Len(consumed) + i \in 1 .. Len(published)
          BY <1>3, <2>3, <3>3
        <4>2. published'[Len(consumed) + i] = published[Len(consumed) + i]
          BY <1>2, <4>1
        <4>3. Append(Rest, pmsg)[i] = Rest[i]
          BY <1>2, <1>3, <3>3
        <4>4. QED
          BY <1>3, <3>2, <3>3, <4>2, <4>3
      <3>4. CASE i = Len(Rest) + 1
        <4>1. Len(consumed) + i = Len(published) + 1
          BY <2>3, <3>4
        <4>2. QED
          BY <1>2, <1>3, <3>2, <3>4, <4>1
      <3>5. QED
        BY <2>3, <3>1, <3>3, <3>4
    <2>6. QED
      BY <1>4, <2>2, <2>4, <2>5, SeqEqual
  <1>6. Fifo!Put(pmsg)
    BY <1>1, <1>2, <1>3, <1>4, <1>5 DEF Fifo!Put, Ring
  <1>7. pmsg \in {p \in Payloads : Len(p) <= words}
    BY DEF CallPays
  <1>8. QED
    BY <1>6, <1>7

\* The first store of que_obj_pop is a Take: the head is what was read.
LEMMA PopLenTakes == ASSUME IInv, IInv', PopLen PROVE Fifo!Take
  <1>1. /\ published' = published /\ consumed' = Append(consumed, cbuf)
        /\ published \in Seq(Msg) /\ consumed \in Seq(Seq(Data \cup {Junk}))
        /\ cbuf \in Seq(Data \cup {Junk})
    BY DEF PopLen, IInv, TypeOK
  <1>2. /\ Rest \in Seq(Msg) /\ Len(Rest) = Len(published) - Len(consumed)
        /\ Len(Rest) = Waiting /\ Ring = Rest
        /\ Len(published) \in Nat /\ Len(consumed) \in Nat
        /\ \A i \in 1 .. Len(Rest) : Rest[i] = published[Len(consumed) + i]
    BY RingIsRestSeq DEF RestFacts
  <1>3. /\ Rest' \in Seq(Msg) /\ Len(Rest') = Len(published') - Len(consumed')
        /\ Ring' = Rest'
        /\ \A i \in 1 .. Len(Rest') : Rest'[i] = published'[Len(consumed') + i]
    BY RingIsRestNext DEF RestFacts
  <1>4. Len(consumed') = Len(consumed) + 1
    BY <1>1
  <1>5. Len(Rest) = Len(Rest') + 1
    BY <1>1, <1>2, <1>3, <1>4
  <1>6. Rest # <<>> /\ Head(Rest) = published[Len(consumed) + 1]
    BY <1>2, <1>3, <1>5
  <1>7. cbuf = published[Len(consumed) + 1]
    <2>1. consumed'[Len(consumed) + 1] = published'[Len(consumed) + 1]
      BY <1>2, <1>4 DEF IInv, Contents
    <2>2. QED
      BY <1>1, <1>2, <2>1
  <1>8. Rest' = Tail(Rest)
    <2>1. Tail(Rest) \in Seq(Msg) /\ Len(Tail(Rest)) = Len(Rest')
          /\ \A i \in 1 .. Len(Rest') : Tail(Rest)[i] = Rest[i + 1]
      BY <1>2, <1>3, <1>5, <1>6
    <2>2. ASSUME NEW i \in 1 .. Len(Rest') PROVE Rest'[i] = Tail(Rest)[i]
      <3>1. i + 1 \in 1 .. Len(Rest) /\ i \in Nat
        BY <1>2, <1>3, <1>5
      <3>2. Tail(Rest)[i] = published[Len(consumed) + (i + 1)]
        BY <1>2, <2>1, <3>1
      <3>3. Rest'[i] = published[(Len(consumed) + 1) + i]
        BY <1>1, <1>3, <1>4
      <3>4. Len(consumed) + (i + 1) = (Len(consumed) + 1) + i
        BY <1>2, <3>1
      <3>5. QED
        BY <3>2, <3>3, <3>4
    <2>3. QED
      BY <1>3, <2>1, <2>2, SeqEqual
  <1>9. QED
    BY <1>1, <1>2, <1>3, <1>6, <1>7, <1>8 DEF Fifo!Take, Ring

\* Every step of the two threads is a step of BoundedFifo or none.
LEMMA StepRefines ==
    ASSUME IInv, IInv', CallPays, [Next]_vars PROVE [Fifo!Next]_(Fifo!vars)
  <1>1. CASE UNCHANGED <<published, consumed>>
    <2>1. Ring = Rest /\ Ring' = Rest'
      BY RingIsRestSeq, RingIsRestNext DEF RestFacts
    <2>2. Rest' = Rest
      BY <1>1 DEF Rest
    <2>3. QED
      BY <1>1, <2>1, <2>2 DEF Fifo!vars, Ring
  <1>2. CASE AddTail \/ MoveNextTail
    <2>1. StoreTail /\ ppc # "idle" /\ ~que_obj_full
      BY <1>2 DEF AddTail, MoveNextTail, IInv, Control
    <2>2. QED
      BY <2>1, StoreTailPuts DEF Fifo!Next
  <1>3. CASE PopLen
    BY <1>3, PopLenTakes DEF Fifo!Next
  <1>4. AddTail \/ MoveNextTail \/ PopLen \/ UNCHANGED <<published, consumed>>
    BY DEF Next, Producer, PollFull, AddCall, AddFull, AddLen, AddStatus,
           AddCopy, FreeBlkCall, FreeBlkCopy, FreeBlkLen, MoveNextFull, CopyWord,
           Consumer, Loop, PollEmpty, HeadCall, ReadWord, PopTest, PopStatus,
           PopFront, TailRead, TailEmpty, TailDone, vars
  <1>5. QED
    BY <1>1, <1>2, <1>3, <1>4

\* The ring implements the bounded FIFO of blk_num - 1 messages, for every
\* size of it and every interleaving of the stores of the two threads.
THEOREM QueueImplementsFifo == Spec => RingImplementsFifo
  <1>1. Init => CallPays
    BY DEF Init, CallPays
  <1>2. IInv /\ CallPays /\ [Next]_vars => CallPays'
    BY CallPaysStep DEF IInv
  <1>3. Spec => []CallPays
    BY <1>1, <1>2, QueueInvariant, PTL DEF Spec
  <1>4. Init => Fifo!Init
    BY DEF Init, Fifo!Init, Waiting, Used, Taken
  <1>5. IInv /\ IInv' /\ CallPays /\ [Next]_vars => [Fifo!Next]_(Fifo!vars)
    BY StepRefines
  <1>6. QED
    BY <1>3, <1>4, <1>5, QueueInvariant, PTL DEF Spec, Fifo!Spec, RingImplementsFifo
=============================================================================
