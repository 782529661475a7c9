------------------------------ MODULE F1gQueue ------------------------------
(***************************************************************************)
(* que_obj_t of f1g_queue.c, shared without a lock by one producer thread  *)
(* and one consumer thread (the access thread and one worker of            *)
(* f1g_server.c, main and consumer_cb of test_queue.c).                    *)
(*                                                                         *)
(* Every step is one access to the shared memory, in the order of the C    *)
(* statements (the build is gcc -g without optimisation): a read of the    *)
(* other thread's index, a store to one field of a block header, one word  *)
(* of a memcpy, a store to an index.  Payloads have up to `words` words,   *)
(* so a block read while it is written shows as a torn message.            *)
(***************************************************************************)
EXTENDS Integers, Sequences

CONSTANTS
    blk_num,    \* p_obj->blk_num
    words,      \* words of payload in one block (blk_size of que_obj_create)
    Data,       \* values of one word
    Payloads,   \* what callers put: sequences of words, some too long
    Junk,       \* what malloc leaves in the buffer
    MaxPuts     \* bound: no call starts after MaxPuts published messages

ASSUME BlkNumAssumption == blk_num \in Nat \ {0}
ASSUME WordsAssumption == words \in Nat
ASSUME PayloadsAssumption == Payloads \subseteq Seq(Data)
ASSUME MaxPutsAssumption == MaxPuts \in Nat
ASSUME JunkAssumption == Junk \notin Data /\ Junk \notin Int

VARIABLES
    front,      \* p_obj->front, stored by the consumer only
    tail,       \* p_obj->tail, stored by the producer only
    blk,        \* the blocks of p_obj->buffer
    ppc,        \* where the producer is
    pmsg,       \* p_data and data_size of the producer's call
    pidx,       \* words of pmsg already copied by memcpy
    pret,       \* what the producer's last call returned
    pchk,       \* "room" if que_obj_full was 0 when the caller last asked
    cpc,        \* where the consumer is
    cblk,       \* the block que_obj_head or que_obj_tail returned (its index)
    cbuf,       \* the words the consumer has read from that block
    published,  \* history: every message whose tail store was done
    consumed    \* history: every message read and then popped

qvars == <<front, tail, blk>>
pvars == <<ppc, pmsg, pidx, pret, pchk>>
cvars == <<cpc, cblk, cbuf>>
vars == <<qvars, pvars, cvars, published, consumed>>

Pos == 0 .. (blk_num - 1)
Null == -1          \* the NULL of que_obj_head and que_obj_tail

F1G_OK == 0
F1G_ERR == -1

\* A message is what BLK_DATA holds: data_len words.
Msg == {m \in Seq(Data) : Len(m) <= words}

\* elem_t followed by the payload.
Block == [status : {0, 1, Junk}, data_len : (0 .. words) \cup {Junk},
          data : [1 .. words -> Data \cup {Junk}]]

\* Mutant: the remainder is forgotten.
NextPosUnwrapped(pos) == pos + 1

\* (pos + 1) % blk_num
NextPos(pos) == (pos + 1) % blk_num

\* Mutant: the test for room in the place of the test for emptiness.
EmptyAsFull == front = NextPos(tail)

que_obj_empty == front = tail
que_obj_full == front = NextPos(tail)

-----------------------------------------------------------------------------
(* que_obj_create, que_obj_init: malloc does not clear the buffer.         *)

Init ==
    /\ front = 0
    /\ tail = 0
    /\ blk = [b \in Pos |-> [status |-> Junk, data_len |-> Junk,
                             data |-> [i \in 1 .. words |-> Junk]]]
    /\ ppc = "idle"
    /\ pmsg = <<>>
    /\ pidx = 0
    /\ pret = F1G_OK
    /\ pchk = "none"
    /\ cpc = "idle"
    /\ cblk = Null
    /\ cbuf = <<>>
    /\ published = <<>>
    /\ consumed = <<>>

-----------------------------------------------------------------------------
(* The producer.                                                           *)

PReturn(code) ==
    /\ ppc' = "idle" /\ pret' = code /\ pchk' = "none"
    /\ pmsg' = <<>> /\ pidx' = 0

\* Mutant: the caller takes a queue that is not empty for one with room.
PollFullByEmpty ==
    /\ ppc = "idle"
    /\ pchk' = IF que_obj_empty THEN "none" ELSE "room"
    /\ UNCHANGED <<qvars, ppc, pmsg, pidx, pret, cvars, published, consumed>>

\* if (!que_obj_full(p_que)) ..., as the main loop of test_queue.c asks.
PollFull ==
    /\ ppc = "idle"
    /\ pchk' = IF que_obj_full THEN "none" ELSE "room"
    /\ UNCHANGED <<qvars, ppc, pmsg, pidx, pret, cvars, published, consumed>>

\* memcpy(BLK_DATA(...)): one word of the payload into the block at tail.
CopyWord ==
    /\ pidx < Len(pmsg)
    /\ blk' = [blk EXCEPT ![tail].data[pidx + 1] = pmsg[pidx + 1]]
    /\ pidx' = pidx + 1
    /\ UNCHANGED <<front, tail, ppc, pmsg, pret, pchk, cvars, published, consumed>>

\* p_obj->tail = (p_obj->tail + 1) % p_obj->blk_num; the message is published.
StoreTail ==
    /\ tail' = NextPos(tail)
    /\ published' = Append(published, pmsg)
    /\ PReturn(F1G_OK)
    /\ UNCHANGED <<front, blk, cvars, consumed>>

\* que_obj_add(p_obj, m, Len(m)).
AddCall(m) ==
    /\ ppc = "idle" /\ Len(published) < MaxPuts
    /\ IF words < Len(m)
         THEN PReturn(F1G_ERR)
         ELSE /\ ppc' = "add_full" /\ pmsg' = m /\ pidx' = 0
              /\ UNCHANGED <<pret, pchk>>
    /\ UNCHANGED <<qvars, cvars, published, consumed>>

\* Mutant: no test for room.
AddFullUntested ==
    /\ ppc = "add_full" /\ ppc' = "add_len"
    /\ UNCHANGED <<qvars, pmsg, pidx, pret, pchk, cvars, published, consumed>>

\* The test for room: without room the call returns F1G_OK and stores nothing.
AddFull ==
    /\ ppc = "add_full"
    /\ IF que_obj_full
         THEN PReturn(F1G_OK)
         ELSE ppc' = "add_len" /\ UNCHANGED <<pmsg, pidx, pret, pchk>>
    /\ UNCHANGED <<qvars, cvars, published, consumed>>

AddLen ==
    /\ ppc = "add_len" /\ ppc' = "add_status"
    /\ blk' = [blk EXCEPT ![tail].data_len = Len(pmsg)]
    /\ UNCHANGED <<front, tail, pmsg, pidx, pret, pchk, cvars, published, consumed>>

AddStatus ==
    /\ ppc = "add_status" /\ ppc' = "add_copy"
    /\ blk' = [blk EXCEPT ![tail].status = 1]
    /\ UNCHANGED <<front, tail, pmsg, pidx, pret, pchk, cvars, published, consumed>>

AddCopy == ppc = "add_copy" /\ CopyWord

AddTail == ppc = "add_copy" /\ pidx = Len(pmsg) /\ StoreTail

\* que_obj_next_freeblk returns the block at tail whether or not there is
\* room; the caller fills BLK_DATA of it in place (access_cb_dft).
FreeBlkCall(m) ==
    /\ ppc = "idle" /\ Len(published) < MaxPuts
    /\ Len(m) <= words
    /\ pmsg' = m /\ pidx' = 0
    /\ ppc' = "fb_copy"
    /\ UNCHANGED <<qvars, pret, pchk, cvars, published, consumed>>

FreeBlkCopy == ppc = "fb_copy" /\ CopyWord

\* Mutant: the caller counts one word too few.
FreeBlkLenShort ==
    /\ ppc = "fb_copy" /\ pidx = Len(pmsg) /\ ppc' = "mv_full"
    /\ blk' = [blk EXCEPT ![tail].data_len = IF pidx = 0 THEN 0 ELSE pidx - 1]
    /\ UNCHANGED <<front, tail, pmsg, pidx, pret, pchk, cvars, published, consumed>>

\* BLK_DATA_LEN(buf) = len, by the caller.
FreeBlkLen ==
    /\ ppc = "fb_copy" /\ pidx = Len(pmsg) /\ ppc' = "mv_full"
    /\ blk' = [blk EXCEPT ![tail].data_len = Len(pmsg)]
    /\ UNCHANGED <<front, tail, pmsg, pidx, pret, pchk, cvars, published, consumed>>

\* que_obj_move_next: the test for room, after the block was written.
MoveNextFull ==
    /\ ppc = "mv_full"
    /\ IF que_obj_full
         THEN PReturn(F1G_ERR)
         ELSE ppc' = "mv_tail" /\ UNCHANGED <<pmsg, pidx, pret, pchk>>
    /\ UNCHANGED <<qvars, cvars, published, consumed>>

MoveNextTail == ppc = "mv_tail" /\ StoreTail

Producer ==
    \/ PollFull
    \/ \E m \in Payloads : AddCall(m)
    \/ AddFull \/ AddLen \/ AddStatus \/ AddCopy \/ AddTail
    \/ \E m \in Payloads : FreeBlkCall(m)
    \/ FreeBlkCopy \/ FreeBlkLen \/ MoveNextFull \/ MoveNextTail

-----------------------------------------------------------------------------
(* The consumer: the loop of consumer_cb and of worker_cb_dft.             *)

\* Mutant: indices are compared as if the ring never wrapped.
PollEmptyUnwrapped ==
    /\ cpc = "idle"
    /\ cpc' = IF front >= tail THEN "idle" ELSE "head"
    /\ UNCHANGED <<qvars, pvars, cblk, cbuf, published, consumed>>

\* if (que_obj_empty(p_que)) { usleep(..); continue; }
PollEmpty ==
    /\ cpc = "idle"
    /\ cpc' = IF que_obj_empty THEN "idle" ELSE "head"
    /\ UNCHANGED <<qvars, pvars, cblk, cbuf, published, consumed>>

\* que_obj_head tests for emptiness once more; the callers do not test the
\* pointer it returns.
HeadCall ==
    /\ cpc = "head" /\ cpc' = "read"
    /\ cblk' = IF que_obj_empty THEN Null ELSE front
    /\ cbuf' = <<>>
    /\ UNCHANGED <<qvars, pvars, published, consumed>>

\* The caller reads BLK_DATA_LEN words of BLK_DATA.
ReadWord ==
    /\ cpc = "read"
    /\ cblk # Null
    /\ Len(cbuf) < blk[cblk].data_len
    /\ cbuf' = Append(cbuf, blk[cblk].data[Len(cbuf) + 1])
    /\ UNCHANGED <<qvars, pvars, cpc, cblk, published, consumed>>

\* que_obj_pop: the test, then the three stores.
PopTest ==
    /\ cpc = "read"
    /\ cblk # Null
    /\ Len(cbuf) = blk[cblk].data_len
    /\ cpc' = IF que_obj_empty THEN "idle" ELSE "pop_len"
    /\ UNCHANGED <<qvars, pvars, cblk, cbuf, published, consumed>>

PopLen ==
    /\ cpc = "pop_len" /\ cpc' = "pop_status"
    /\ blk' = [blk EXCEPT ![front].data_len = 0]
    /\ consumed' = Append(consumed, cbuf)
    /\ UNCHANGED <<front, tail, pvars, cblk, cbuf, published>>

PopStatus ==
    /\ cpc = "pop_status" /\ cpc' = "pop_front"
    /\ blk' = [blk EXCEPT ![front].status = 0]
    /\ UNCHANGED <<front, tail, pvars, cblk, cbuf, published, consumed>>

PopFront ==
    /\ cpc = "pop_front" /\ cpc' = "idle"
    /\ front' = NextPos(front)
    /\ cblk' = Null /\ cbuf' = <<>>
    /\ UNCHANGED <<tail, blk, pvars, published, consumed>>

\* que_obj_tail, between two rounds of the loop: it reads the tail first and
\* tests for emptiness afterwards.
TailRead ==
    /\ cpc = "idle" /\ cpc' = "tail_empty"
    /\ cblk' = tail - 1
    /\ UNCHANGED <<qvars, pvars, cbuf, published, consumed>>

TailEmpty ==
    /\ cpc = "tail_empty" /\ cpc' = "tail_ret"
    /\ cblk' = IF que_obj_empty THEN Null
               ELSE IF cblk < 0 THEN blk_num - 1 ELSE cblk
    /\ UNCHANGED <<qvars, pvars, cbuf, published, consumed>>

TailDone ==
    /\ cpc = "tail_ret" /\ cpc' = "idle"
    /\ cblk' = Null
    /\ UNCHANGED <<qvars, pvars, cbuf, published, consumed>>

Loop ==
    \/ PollEmpty \/ HeadCall \/ ReadWord
    \/ PopTest \/ PopLen \/ PopStatus \/ PopFront

Consumer == Loop \/ TailRead \/ TailEmpty \/ TailDone

Next == Producer \/ Consumer

\* Both threads are scheduled; the producer may stop between two calls, and
\* the consumer does not look at the tail for ever instead of popping.
Fairness ==
    /\ WF_vars(AddFull \/ AddLen \/ AddStatus \/ AddCopy \/ AddTail
               \/ FreeBlkCopy \/ FreeBlkLen \/ MoveNextFull \/ MoveNextTail)
    /\ SF_vars(PollEmpty /\ cpc' = "head")
    /\ WF_vars(HeadCall \/ ReadWord \/ PopTest \/ PopLen \/ PopStatus
               \/ PopFront \/ TailEmpty \/ TailDone)

Spec == Init /\ [][Next]_vars
FairSpec == Spec /\ Fairness

-----------------------------------------------------------------------------
(* What the queue holds.                                                   *)

\* The index of a block, counted from `pos` without regard to the wrap.
Wrap(pos) == IF pos >= blk_num THEN pos - blk_num ELSE pos

\* The head block counts as taken from the first store of que_obj_pop on.
Taken == IF cpc \in {"pop_status", "pop_front"} THEN 1 ELSE 0

\* Blocks from front up to, and without, tail.
Used == IF tail >= front THEN tail - front ELSE tail - front + blk_num

Waiting == Used - Taken
Slot(i) == Wrap(front + Taken + i - 1)

\* The message a block holds, as its reader would read it.
BlkMsg(b) ==
    [i \in 1 .. (IF blk[b].data_len = Junk THEN 0 ELSE blk[b].data_len)
        |-> blk[b].data[i]]

Fifo == INSTANCE BoundedFifo
          WITH Msg <- {m \in Payloads : Len(m) <= words}, Cap <- blk_num - 1,
               q <- [i \in 1 .. Waiting |-> BlkMsg(Slot(i))],
               inp <- published, out <- consumed

-----------------------------------------------------------------------------
(* Properties.                                                             *)

PWriting == {"add_len", "add_status", "add_copy", "fb_copy", "mv_full",
             "mv_tail"}
CHolding == {"read", "pop_len", "pop_status", "pop_front"}

TypeOK ==
    /\ front \in Pos /\ tail \in Pos
    /\ blk \in [Pos -> Block]
    /\ ppc \in {"idle", "add_full"} \cup PWriting
    /\ pmsg \in Msg /\ pidx \in 0 .. words
    /\ pret \in {F1G_OK, F1G_ERR} /\ pchk \in {"none", "room"}
    /\ cpc \in {"idle", "head", "tail_empty", "tail_ret"} \cup CHolding
    /\ cblk \in Pos \cup {Null}
    /\ cbuf \in Seq(Data \cup {Junk})
    /\ published \in Seq(Msg) /\ Len(published) <= MaxPuts
    /\ consumed \in Seq(Seq(Data \cup {Junk}))

\* The producer never writes the block the consumer has from que_obj_head
\* and has not popped, although que_obj_next_freeblk hands out the block at
\* tail without asking for room and no lock is taken.
NoOverlap == ppc \in PWriting /\ cpc \in CHolding => tail # cblk

\* Between que_obj_empty = 0 and the store of front in que_obj_pop, the head
\* stays what it was: que_obj_head does not return NULL (worker_cb_dft uses
\* its result unseen), and que_obj_pop removes the block that was read.
HeadStable == cpc \in CHolding => cblk = front /\ front # tail

\* Nothing published is lost, repeated, reordered, torn or overwritten: what
\* was popped, followed by what the ring holds, is what was published.
Conservation == Fifo!Conservation

\* A caller that saw que_obj_full = 0 (test_queue.c asks before it calls
\* que_obj_add) finds room in the call that follows: the consumer can only
\* make more of it, so the silent drop of que_obj_add cannot happen.
CheckedCallHasRoom ==
    pchk = "room" /\ ppc \in {"add_full", "mv_full"} => ~que_obj_full

\* The ring, stepped by two unsynchronised threads at the granularity of
\* single stores, implements the atomic bounded FIFO of blk_num - 1 messages.
RingImplementsFifo == Fifo!Spec

\* Whatever was published is popped in the end.
Drained ==
    \A k \in 1 .. MaxPuts : Len(published) >= k ~> Len(consumed) >= k
=============================================================================
