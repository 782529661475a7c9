----------------------------- MODULE ServerLife -----------------------------
(***************************************************************************)
(* f1g_server.c around the two thread functions of F1gServer: serv_load,   *)
(* serv_create with accessor_init, serv_set_work_cb, serv_run and          *)
(* serv_destroy, as test_server.c calls them.                              *)
(*                                                                         *)
(* A configuration file is what the getters of SmartConf answer for it.    *)
(* The threads are reduced to the events they pass on: the access thread   *)
(* delivers one to the queue it selects, a worker takes one from its own.  *)
(* serv_destroy is called only while no thread runs.                       *)
(***************************************************************************)
EXTENDS Integers, SequencesExt

CONSTANTS
    Confs,          \* [Keys -> a value, Absent or Malformed]
    Absent, Malformed,
    Default,        \* the library's own functions
    Workfs, Procfs, Cleanfs, Contexts,  \* arguments of serv_set_work_cb
    Null,
    Addresses,      \* the clients', as four signed bytes
    MaxSets,        \* calls of serv_set_work_cb
    MaxEvents       \* events delivered

ASSUME AddressAssumption == Addresses \subseteq [1 .. 4 -> -128 .. 127]

VARIABLES
    ini, conf,      \* serv.ini and the server_conf_t
    workers,        \* p_obj->p_workers, a sequence of worker_t
    ques,           \* p_access->p_ques; a queue is a number
    que,            \* the number of events in each queue
    listener,       \* how far accessor_init came: an index into Stages
    started,        \* workers whose thread runs
    access,         \* the access thread runs
    to_start,       \* the worker serv_run starts next
    cleaned,        \* the clean call for each worker that had one: <<context, function>>
    sets,           \* history: the arguments of each serv_set_work_cb
    events,         \* history: the number of events
    lpc             \* of main; "end" after a failure, "crash" of the process

setvars == <<ini, conf, workers, ques, sets, cleaned>>
lifevars == <<setvars, listener, que, started, access, to_start, events, lpc>>

-----------------------------------------------------------------------------
(* serv_load.                                                              *)

\* A call reads the item `key` into the field `fld`.
Getters == <<
    [key |-> "work_mode", dft |-> 0, fld |-> "work_mode"],
    [key |-> "worker_num", dft |-> 1, fld |-> "worker_num"],
    [key |-> "que_mode", dft |-> 1, fld |-> "que_mode"],
    [key |-> "que_size", dft |-> 512, fld |-> "que_size"],
    [key |-> "que_cap", dft |-> 1024, fld |-> "que_cap"],
    [key |-> "serv_type", dft |-> 17, fld |-> "serv_type"],
    [key |-> "serv_win", dft |-> "", fld |-> "serv_win"],
    [key |-> "access_mode", dft |-> 0, fld |-> "serv_type"]>>

Keys == {Getters[i].key : i \in DOMAIN Getters}

\* memset of the server_conf_t.
ZeroConf == [k \in Keys |-> IF k = "serv_win" THEN "" ELSE 0]

Got(f, g) == IF f[g.key] = Absent THEN g.dft ELSE f[g.key]

\* The getters run one after the other until one finds what it cannot read.
serv_load(f) ==
    IF \E k \in Keys : f[k] = Malformed THEN Null
    ELSE FoldLeft(LAMBDA c, g : [c EXCEPT ![g.fld] = Got(f, g)],
                  ZeroConf, Getters)

LifeInit ==
    /\ ini \in Confs
    /\ conf = ZeroConf
    /\ workers = <<>> /\ ques = <<>> /\ que = <<>>
    /\ listener = 1 /\ started = {} /\ access = FALSE /\ to_start = 1
    /\ cleaned = <<>> /\ sets = <<>> /\ events = 0
    /\ lpc = "load"

\* Without the file, or with a value no getter takes, main ends.
MainLoads ==
    /\ lpc = "load"
    /\ \/ /\ lpc' = "end"
          /\ UNCHANGED conf
       \/ /\ serv_load(ini) # Null
          /\ conf' = serv_load(ini) /\ lpc' = "create"
    /\ UNCHANGED <<ini, workers, ques, que, listener, started, access, to_start,
                   cleaned, sets, events>>

-----------------------------------------------------------------------------
(* serv_create, serv_set_work_cb.                                          *)

\* Worker i and the access thread share queue i.
NewWorker(i) ==
    [p_worker_f |-> Default, p_proc_f |-> Default, p_que |-> i,
     p_ctx |-> Null, p_ctx_clean_f |-> Null]

\* The object, the tables and the queues: where a malloc fails, main ends with
\* all that was made before.  A negative number of workers is a size malloc
\* refuses.
serv_create ==
    /\ lpc = "create"
    /\ \/ /\ lpc' = "end"
          /\ UNCHANGED <<workers, ques, que>>
       \/ /\ conf.worker_num \in Nat
          /\ workers' = [i \in 1 .. conf.worker_num |-> NewWorker(i)]
          /\ ques' = [i \in 1 .. conf.worker_num |-> i]
          /\ que' = [i \in 1 .. conf.worker_num |-> 0]
          /\ lpc' = "accessor"
    /\ UNCHANGED <<ini, conf, listener, started, access, to_start, cleaned, sets,
                   events>>

\* accessor_init at the end of serv_create, call by call: the listener is
\* registered with epoll before it is bound.  Any call may fail; nothing is
\* closed or freed then.
Stages == <<"none", "epoll_create", "fcntl", "epoll_ctl", "bind", "listen">>
epoller_init ==
    /\ lpc = "accessor"
    /\ \/ /\ listener < Len(Stages)
          /\ listener' = listener + 1
          /\ UNCHANGED lpc
       \/ /\ listener = Len(Stages)
          /\ lpc' = "set"
          /\ UNCHANGED listener
       \/ /\ lpc' = "end"
          /\ UNCHANGED listener
    /\ UNCHANGED <<setvars, que, started, access, to_start, events>>

\* Mutant: the clean function is stored before the `continue`.
SetWorkerCleanFirst(w, call, i, a) ==
    [w EXCEPT !.p_worker_f = IF a.worker = Null THEN @ ELSE a.worker,
              !.p_proc_f = IF a.proc = Null THEN @ ELSE a.proc,
              !.p_ctx = IF a.ctx = Null THEN @ ELSE <<call, i>>,
              !.p_ctx_clean_f = a.clean]

\* One round of the loop of serv_set_work_cb; no context is also one of no
\* size.  The memory of a context is <<call, worker>>, and nothing is copied
\* into it.
SetWorker(w, call, i, a) ==
    [w EXCEPT !.p_worker_f = IF a.worker = Null THEN @ ELSE a.worker,
              !.p_proc_f = IF a.proc = Null THEN @ ELSE a.proc,
              !.p_ctx = IF a.ctx = Null THEN @ ELSE <<call, i>>,
              !.p_ctx_clean_f = IF a.ctx = Null THEN @ ELSE a.clean]

\* When malloc fails for worker `stop`, that one has the new functions but
\* the old context, and the ones behind it have neither.
serv_set_work_cb ==
    /\ lpc = "set" /\ Len(sets) < MaxSets
    /\ \E a \in [worker : Workfs \cup {Null}, proc : Procfs \cup {Null},
                 ctx : Contexts \cup {Null}, clean : Cleanfs \cup {Null}],
          stop \in 1 .. (Len(workers) + 1) :
         /\ a.ctx = Null => stop = Len(workers) + 1
         /\ workers' = [i \in DOMAIN workers |->
              CASE i < stop -> SetWorker(workers[i], Len(sets) + 1, i, a)
                [] i = stop -> SetWorker(workers[i], Len(sets) + 1, i,
                                          [a EXCEPT !.ctx = Null])
                [] OTHER -> workers[i]]
         /\ sets' = Append(sets, a)
    /\ UNCHANGED <<ini, conf, ques, que, listener, started, access, to_start,
                   cleaned, events, lpc>>

-----------------------------------------------------------------------------
(* serv_run and the threads.                                               *)

MainRuns ==
    /\ lpc = "set"
    /\ lpc' = "run"
    /\ UNCHANGED <<setvars, listener, que, started, access, to_start, events>>

\* Mutant: a thread that cannot be created is passed over.
StartWorkerAnyway ==
    /\ lpc = "run" /\ to_start <= Len(workers)
    /\ \/ started' = started \cup {to_start}
       \/ UNCHANGED started
    /\ to_start' = to_start + 1
    /\ UNCHANGED <<setvars, listener, que, access, events, lpc>>

\* pthread_create for the next worker: where it fails serv_run returns, and
\* the workers before it run on.
StartWorker ==
    /\ lpc = "run" /\ to_start <= Len(workers)
    /\ \/ /\ started' = started \cup {to_start} /\ to_start' = to_start + 1
          /\ UNCHANGED lpc
       \/ /\ lpc' = "sleep"
          /\ UNCHANGED <<started, to_start>>
    /\ UNCHANGED <<setvars, listener, que, access, events>>

StartAccess ==
    /\ lpc = "run" /\ to_start > Len(workers)
    /\ access' \in BOOLEAN
    /\ lpc' = "sleep"
    /\ UNCHANGED <<setvars, listener, que, started, to_start, events>>

\* The four rounds of the loop.  In 32 bits without a sign; four signed bytes
\* stay far below 2^31, so a negative sum stands for the sum + 2^32.
dig_hash(key) == ((key[1] * 32 + key[2]) * 32 + key[3]) * 32 + key[4]

sel_que_by_ip(key, que_num) ==
    LET h == dig_hash(key)
        r == 65536 % que_num
    IN  IF h >= 0 THEN h % que_num ELSE ((h % que_num) + r * r) % que_num

\* access_cb_dft with the event of one client: without queues it divides by
\* 0, outside p_ques it reads what is not a queue.
Deliver(key) ==
    /\ access /\ lpc # "crash" /\ events < MaxEvents
    /\ events' = events + 1
    /\ IF ques = <<>> \/ sel_que_by_ip(key, Len(ques)) + 1 \notin DOMAIN ques
         THEN lpc' = "crash" /\ UNCHANGED que
         ELSE /\ que' = [que EXCEPT ![ques[sel_que_by_ip(key, Len(ques)) + 1]] = @ + 1]
              /\ UNCHANGED lpc
    /\ UNCHANGED <<setvars, listener, started, access, to_start>>

\* worker_cb_dft takes an event from its own queue.
Take(i) ==
    /\ i \in started /\ lpc # "crash" /\ que[workers[i].p_que] > 0
    /\ que' = [que EXCEPT ![workers[i].p_que] = @ - 1]
    /\ UNCHANGED <<setvars, listener, started, access, to_start, events, lpc>>

\* Contexts with a clean function are cleaned and freed; the others are only
\* forgotten, as are the accessor's descriptors and buffers.
serv_destroy ==
    /\ lpc = "set"
    /\ cleaned' = [i \in {j \in DOMAIN workers : /\ workers[j].p_ctx # Null
                                                 /\ workers[j].p_ctx_clean_f # Null} |->
                     <<workers[i].p_ctx, workers[i].p_ctx_clean_f>>]
    /\ workers' = <<>> /\ ques' = <<>> /\ que' = <<>>
    /\ lpc' = "end"
    /\ UNCHANGED <<ini, conf, listener, sets, started, access, to_start, events>>

LifeNext ==
    \/ MainLoads \/ serv_create \/ epoller_init \/ serv_set_work_cb \/ MainRuns
    \/ StartWorker \/ StartAccess
    \/ \E key \in Addresses : Deliver(key)
    \/ \E i \in started : Take(i)
    \/ serv_destroy

\* No server: nothing happens to it.
LifeIdle ==
    /\ ini = Null /\ conf = ZeroConf
    /\ workers = <<>> /\ ques = <<>> /\ que = <<>>
    /\ listener = 1 /\ started = {} /\ access = FALSE /\ to_start = 1
    /\ cleaned = <<>> /\ sets = <<>> /\ events = 0
    /\ lpc = "none"

LifeSpec == LifeInit /\ [][LifeNext]_lifevars

-----------------------------------------------------------------------------
(* Properties.                                                             *)

\* Whatever event waits in a queue, a worker's thread runs that takes it,
\* whichever malloc or pthread_create failed before: the access thread is
\* started last, and shares each of its queues with a worker.  The index an
\* address selects lies in p_ques, also with bytes that are negative as chars:
\* only a server without workers (worker_num = 0) fails at an event.
EventHasWorker ==
    /\ \A q \in DOMAIN que : que[q] > 0 =>
        \E i \in started : workers[i].p_que = q
    /\ lpc = "crash" => conf.worker_num = 0

\* A context is cleaned once, and by the function that came with it: a later
\* serv_set_work_cb without a context, or one that failed half way, does not
\* pair it with another.
CleanedByItsOwn ==
    \A j, k \in DOMAIN cleaned :
        /\ cleaned[j][1] = cleaned[k][1] => j = k
        /\ cleaned[j][2] = sets[cleaned[j][1][1]].clean
=============================================================================
