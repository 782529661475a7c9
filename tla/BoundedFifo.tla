---------------------------- MODULE BoundedFifo ----------------------------
(***************************************************************************)
(* What the queue of f1g_queue.h promises to one producer and one consumer *)
(* of the same que_obj_t: messages leave in the order in which they were   *)
(* put, each exactly once and as they were put, and at most Cap of them    *)
(* wait at a time.  A call that stores nothing (the queue is full, the     *)
(* message is too long) is a stuttering step.                              *)
(***************************************************************************)
EXTENDS Naturals, Sequences

CONSTANTS
    Msg,    \* the messages that may be put
    Cap     \* how many messages may wait

VARIABLES
    q,      \* the messages that wait, the oldest first
    inp,    \* every message put so far
    out     \* every message taken so far

vars == <<q, inp, out>>

Init ==
    /\ q = <<>>
    /\ inp = <<>>
    /\ out = <<>>

Put(m) ==
    /\ Len(q) < Cap
    /\ q' = Append(q, m)
    /\ inp' = Append(inp, m)
    /\ UNCHANGED out

Take ==
    /\ q # <<>>
    /\ q' = Tail(q)
    /\ out' = Append(out, Head(q))
    /\ UNCHANGED inp

Next == Take \/ \E m \in Msg : Put(m)

Spec == Init /\ [][Next]_vars

\* Nothing is lost, duplicated or reordered between que_obj_add or
\* que_obj_move_next on one side and que_obj_pop on the other.
Conservation == inp = out \o q
=============================================================================
