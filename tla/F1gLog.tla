-------------------------------- MODULE F1gLog --------------------------------
(***************************************************************************)
(* f1g_log.c: messages are collected in a buffer and written to the file   *)
(* when they reach a limit.  Allocations and writes succeed.               *)
(***************************************************************************)
EXTENDS F1gBuffer

CONSTANTS
    Messages,       \* what is logged: texts that are not empty
    LogSizes,       \* <<buf_size, limit>>
    ExternRoom,     \* 1024: what a longer message adds to the buffer
    MaxLogged       \* bound on what is logged

\* The limit lies within the buffer: f1g_log_init takes any, and with a larger
\* one vsnprintf is given room that the buffer does not have.
ASSUME LogAssumption ==
    /\ Messages \subseteq Seq(STRING) \ {<<>>} /\ ExternRoom \in Nat
    /\ \A s \in LogSizes : /\ s[1] \in Nat /\ s[2] \in Nat
                           /\ 0 < s[2] /\ s[2] <= s[1]

VARIABLES
    plog,           \* the f1g_log_t, <<>> before init and after destroy
    lfile,          \* the file
    logged,         \* history: all messages
    lcut            \* history: the places in logged that lay beyond the room

lvars == <<plog, lfile, logged, lcut>>

f1g_log_init(buf_size, limit) ==
    [buf |-> Filled(NUL, buf_size), buf_size |-> buf_size, data_len |-> 0,
     w_sz_limit |-> limit]

Pending(l) == SubSeq(l.buf, 1, l.data_len)

\* Called when nothing is pending: data_len is 0.
f1g_log_extern_buf(l, size) ==
    [l EXCEPT !.buf = Put(Filled(NUL, size), 1, Pending(l)), !.buf_size = size,
              !.w_sz_limit = size - ExternRoom]

\* Mutant: what was written stays in the buffer.
FlushedKept(l) == l

\* write(fd, buf, data_len), without the file's side.
Flushed(l) == [l EXCEPT !.data_len = 0]

\* A message that does not fit below the limit comes after those that are
\* pending; one that does not fit into the buffer is cut to the old size, but
\* counted whole, and so is one that just fills its room.
Logs(l, msg) ==
    LET cap == l.w_sz_limit - l.data_len
        first == [l EXCEPT !.buf = Printed(@, l.data_len + 1, msg, cap)]
        empty == Flushed(first)
        room == empty.buf_size - empty.data_len
        grown == IF Len(msg) > room
                 THEN f1g_log_extern_buf(empty, Len(msg) + ExternRoom) ELSE empty
        again == [grown EXCEPT !.buf = Printed(@, grown.data_len + 1, msg, room)]
        late == Len(msg) > cap
        done == [IF late THEN again ELSE first EXCEPT !.data_len = @ + Len(msg)]
        limit == done.data_len >= done.w_sz_limit
    IN  [log |-> IF limit THEN Flushed(done) ELSE done,
         out |-> (IF late THEN Pending(first) ELSE <<>>)
                    \o (IF limit THEN Pending(done) ELSE <<>>),
         room |-> IF late THEN room ELSE cap]

f1g_log_write(msg) ==
    LET r == Logs(plog, msg)
    IN  /\ plog # <<>>
        /\ plog' = r.log /\ lfile' = lfile \o r.out
        /\ logged' = logged \o msg /\ lcut' = lcut \cup CutOff(logged, msg, r.room)

\* An empty format writes what is pending.
LogFlush ==
    /\ plog # <<>>
    /\ plog' = Flushed(plog) /\ lfile' = lfile \o Pending(plog)
    /\ UNCHANGED <<logged, lcut>>

f1g_log_destroy ==
    /\ plog # <<>>
    /\ plog' = <<>> /\ lfile' = lfile \o Pending(plog)
    /\ UNCHANGED <<logged, lcut>>

\* The file is opened again, to append to it.
LogOpen ==
    /\ plog = <<>>
    /\ \E s \in LogSizes : plog' = f1g_log_init(s[1], s[2])
    /\ UNCHANGED <<lfile, logged, lcut>>

LogIdle == plog = <<>> /\ lfile = <<>> /\ logged = <<>> /\ lcut = {}

LogNext ==
    \/ LogOpen \/ LogFlush \/ f1g_log_destroy
    \/ Len(logged) < MaxLogged /\ \E msg \in Messages : f1g_log_write(msg)

LogSpec == LogIdle /\ [][LogNext]_lvars

\* File and buffer together hold every message once and in order, and after
\* destroy the file does, whatever is flushed and reopened in between: no text
\* is written twice or lost when the buffer grows under a long message, and
\* such a message, or one that fills its room, is there as far as the room
\* went (f1g_log.c:62-107).
LogComplete ==
    AgreeBut(lfile \o (IF plog = <<>> THEN <<>> ELSE Pending(plog)), logged, lcut)
=============================================================================
