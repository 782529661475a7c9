# f1goal in TLA+

f1goal (`src/f1goal`) is a C library for small TCP servers: a lock-free queue, an
epoll front end with worker threads, an INI reader, a performance monitor that is
dumped by a signal, a packet-capture thread, and text utilities (HTTP, URL,
templates, character sets), with a few command-line tools on top.  This directory
holds TLA+ models of its components, TLC configurations for small instances of
them, and TLAPS proofs, for every instance, about thirteen of them.

Every definition is taken from the C code.  `PROJECT.json` has, for each
definition, the lines it stands for (`map`), and the runs, findings, hazards and
theorems in machine-readable form.

## 1. The system

| Component | State | Operations | Talks to |
|---|---|---|---|
| queue (`f1g_queue.c`) | ring of `blk_num` blocks, `front`, `tail`; no lock | `que_obj_add`, `next_freeblk` + `move_next`, `head`, `tail`, `pop`, `empty`, `full` | one producer thread, one consumer thread |
| accessor (`f1g_accessor.c`) | epoll set, batch of events, position in it, one `sock_info_t` per socket | `accessor_detect`, `accessor_check_status`, `accessor_clear`, `nonblk_recvfrom`, `nonblk_sendto` | kernel; called by the access thread (detect/check) and the workers (recv/send) |
| server (`f1g_server.c`) | threads, one queue per worker, two buffers per worker, `proc_stat` | `access_cb_dft`, `worker_cb_dft`, `worker_data_fproc_dft`, `serv_create/load/run/destroy` | accessor, queues, buffers, smart_conf |
| smart_conf (`f1g_smart_conf.c`) | growing table of sections, each with a growing table of items | `init`, `read`, getters, `destroy` | `serv_load` |
| perf_mon (`perf_mon.c`) | per point a growing list of nodes and `p_cur` | `init`, `add`, `here`, `perf_statis` (SIGUSR1) | the measured program, its own signal handler |
| eth_scrapy (`f1g_eth_scrapy.c`) | `run_flag`, `sg_scraper`, `sg_handler`, capture thread | `init`, `reg`, `start`, `control`, `destroy` | libpcap, a controlling thread |
| buffer (`f1g_buffer.c`) | growing memory, or a reference to foreign memory | `init`, `set`, `enlarge`, `append`, `append_format`, `clear`, `destroy` | server, regset |
| log (`f1g_log.c`) | collected text, a limit, a file | `init`, `write`, `destroy` | all |
| http object, bit array (`f1g_http.c`, `f1g_bit_array.c`) | one buffer of fixed size, positions in it, one bit per header | `create`, `reset`, `add_header`, `add_content`, `get_header` (a stub), `destroy` | pksender |
| http parser (`f1g_http_parser.c`) | the fields found | one function | pkreceiver |
| data_op (`f1g_data_op.c`) | a table of items that keep their memory | `init`, `add`, `clean`, `split` | pksender |
| net_forge (`f1g_net_forge.c`) | none | IP header, checksums | pksender |
| template, data set | nodes and keys in growing tables | parse, add, render | buffer |
| url parser, regset | parts of the last URL; a growing table of rules | split, clear; add, match | buffer |
| charset_code, lang_code, GBK table | two tables made of a generated one | decoding, conversions, code by code | test_langcode_conv |
| bitree, basic_alg, basic functions | a tree that only grows; none | insert; rotate; string helpers | all |
| tools, tests | command-line programs | | all of the above |

**How the running server works.**  `serv_run` starts one access thread and
`worker_num` workers.  The access thread waits in `epoll_wait` (edge triggered),
then walks the batch: for the listener it accepts *one* connection and registers
it; for a client socket it looks at EPOLLHUP, EPOLLERR, EPOLLIN and EPOLLOUT in
that order, freeing, deregistering and closing on the first two.  After each event
it copies its `sock_info` into the block at the tail of the queue chosen by the
client's address, and publishes the block.  A worker polls its queue, reads the
socket until EAGAIN (three tries), end of stream, error or a full buffer, calls the
processing function, closes the descriptor if it saw the end of the stream, acts on
`proc_stat`, and pops the block.

**What is hard.**  The queue has no lock and two writers of one buffer.  Access
thread and workers share descriptors: both close them, and the kernel hands the
number out again while events for the old connection are still in a batch or a
queue.  Edge-triggered events come once, so an event dropped is a connection that
hangs.  The signal handler of perf_mon runs between any two instructions of
`perf_mon_here` and rewrites the lists it works on.  The capture thread and its
controller race on one flag.  The INI reader carries bytes from block to block and
grows two tables while it fills them.

**What makes each part correct** (and which property states it)

- queue: one block never has two users (`NoOverlap`); the head does not change
  under its reader (`HeadStable`); nothing is lost, torn, reordered
  (`Conservation`, `RingImplementsFifo`); an answer "not full" stays true
  (`CheckedCallHasRoom`); what is put is taken (`Drained`).
- server and accessor: no event is lost (`NoLostEdge`); only ended connections are closed
  (`ClosesOnlyEnded`); freed memory is not reached (`InfoLive`); workers work their queues off
  (`QueuesDrain`); a batch is left early only for want of memory, or over a connection that has
  already ended (`BatchCutByEnd`); requests are answered (`RequestsAnswered`), by the right reply
  (`ReplyOnlyToRequester`).
- server around the threads: events wait only where a worker takes them, and
  in queues there are (`EventHasWorker`); contexts are cleaned once,
  by their own function (`CleanedByItsOwn`).
- perf_mon: records are whole (`RecordsArePairs`), unique (`WrittenOnce`) and
  complete (`NoneLost`).
- eth_scrapy: no handle leaks (`NoHandleLost`), a capture that has ended is
  reported as ended (`GoneIsOff`), STOP stops (`StopHonoured`), a closed handle is
  not used (`DispatchOnOpenHandle`).
- template: a file is accepted if and only if its variables are well formed
  (`ParseMatches`), execution writes what it means but for the last byte of its end
  (`ExecMatches`), and every escape is written (`EscapesWritten`, violated).
- packet sender and what it is made of: each line of its file is sent, as it says
  (`AllSent`, `SentAsConfigured`, `IpHeaderVerifies`); an HTTP message is what was
  given unless a header stands between two contents (`MessageIsWhatWasGiven`), has the
  headers it was given and no others, with a test for existence that misses exactly
  those below a higher bit (`HeadersFound`), and is read back by the parser
  (`ParsedBack`).
- text library: conversions keep the characters (`CharsKept`, `WholeCharacters`, `LangDecoded`)
  and stay inside the output (`WithinBuffer`); buffer and log keep every text in order, as far as
  the room went it was printed with (`BufferContent`, `LogComplete`); the first rule that matches
  wins (`FirstRuleMatches`); a URL is taken apart into its own parts (`UrlTakenApart`); the tree
  is a search tree whose heights reach down far enough (`SearchTree`); arrays are rotated
  (`RotatedLeft`).
- smart_conf: a file is accepted if and only if it is well formed, and getters
  answer what it says (`ReadMatchesFile`); reading ends (`Advances`).

`PROJECT.json` lists the hazards line by line, each with the properties that would
notice it, or the reason why none does.

## 2. Modules

| Module | Models | Lines of argument |
|---|---|---|
| `BoundedFifo` | what a queue promises: the abstract specification | |
| `F1gQueue` | `que_obj_t` with one producer and one consumer, one shared-memory access per step | implements `BoundedFifo` |
| `F1gQueueProofs` | theorems about `F1gQueue` | TLAPS |
| `F1gServer` | access thread, accessor, queues, workers, over an external kernel | the queues are FIFOs, as `F1gQueue` shows |
| `F1gServerProofs` | theorems about `F1gServer` | TLAPS |
| `PerfMon` | the points, `perf_mon_here` per load and store, the signal handler | |
| `PerfMonProofs` | theorems about `PerfMon` | TLAPS |
| `EthScrapy` | the five functions and the capture thread over an external libpcap | |
| `EthScrapyProofs` | theorems about `EthScrapy` | TLAPS |
| `SmartConf` | initialisation, `ini_read`, look-up, getters, destroy, and what a file means | |
| `SmartConfProofs` | theorems about `SmartConf` | TLAPS |
| `Template` | template parsing and execution, the data set, and what a template means | |
| `ServerLife` | `serv_load`, `serv_create`, `serv_set_work_cb`, `serv_run`, `serv_destroy`, `accessor_init`, the choice of a queue | the files are what `SmartConf`'s getters answer; the threads are `F1gServer`'s, reduced to events |
| `BasicFuncs` | string helpers of `f1g_basic_funcs.c` | used by the parsers |
| `HttpParser` | the request parser | extends `BasicFuncs` |
| `HttpObject` | HTTP object and bit array, with a client that calls anything | extends `HttpParser` |
| `DataField` | the items of `f1g_data_op.c` | |
| `NetForge` | checksum and IP header | |
| `PkSender` | `pksender_v2.c` | composes `HttpObject`, `DataField`, `NetForge` |
| `PkSenderProofs` | theorems about `NetForge` and `PkSender` | TLAPS |
| `CharsetCode` | `charset_code.c`, `str_decode` | |
| `F1gBuffer`, `F1gLog`, `RegSet`, `UrlParser`, `BiTree`, `BasicAlg` | the component of that name | |
| `BufferProofs` | theorems about `F1gBuffer`, `F1gLog`, `RegSet` and `HttpObject` | TLAPS; lemmas about memory (`Filled`, `Put`, `Printed`, `Cut`) once for all |
| `LibraryProofs` | theorems about `BasicAlg`, `CharsetCode`, `UrlParser`, `BiTree` and `ServerLife` | TLAPS; a section for each |
| `MC...` | constants for TLC; `MCLibrary` has nine clients, one at a time, and extends `MCTemplate` | |

Definitions marked "Mutant" in a comment are wrong variants of the definition that
follows them.  `PROJECT.json` names, for every property of a passing run, a mutant
that violates it, which shows that the property can tell a plausible bug.

### F1gQueue

`front`, `tail` and `blk` are the fields of `que_obj_t`; a block has `status`,
`data_len` and `words` words of payload.  Each step of `que_obj_add`,
`que_obj_move_next` and `que_obj_pop` is one load of the other thread's index or one
store.  Two reads need no step of their own: a thread's own index (nobody else
stores it), and the payload pointer.  The granularity is justified by the build
(`gcc -g` without optimisation: statements are executed as written) and by x86,
where stores of one thread become visible in order.  On a machine that
reorders stores, or with an optimiser that moves them, the queue has no barrier and
the model does not speak for it.

The producer may use both ways to put: `que_obj_add` (test_queue.c), and
`que_obj_next_freeblk`, fill, `que_obj_move_next` (access_cb_dft).  The second way
hands out the block at `tail` without a test for room and never stores `status`.
That is safe because the block at `tail` is never a waiting one: one block always
stays free (`que_obj_full` is true at `blk_num - 1`).  The consumer is the loop of
`worker_cb_dft` and `consumer_cb`; the message it read is recorded at the first store
of `que_obj_pop`.

`published` and `consumed` are history.  `Fifo` maps the ring to the sequence of
waiting messages; the head counts as taken from the first store of `que_obj_pop`, as
its length is gone then.

### F1gServer

Kernel and clients are external.  `conn[c]` is a client's connection, `fdt` the
descriptor table (lowest free number first, reused after close), `reg` the epoll
set and `rdy` its ready list.  Payload is the sending client's name, so a reply
shows whose request it carries.

Access thread: `Detect` is `epoll_wait`; `CheckListen` and `CheckAdd` are accept and
`EPOLL_CTL_ADD`; `CheckClient`, `CheckDel`, `CheckClose` are the branches for a client
event, one system call per step, because the workers' system calls fall between
them.  With `MemFails` the `malloc` for an accepted connection may fail
(f1g_accessor.c:292): the batch is left, and the connection stays open and is never
registered (`Refused`).  `CheckExhausted` and `EndBatch` are the two ways the inner loop ends, both
followed by `accessor_clear`.  `Deliver` is the rest of the loop body: the block is
written and published, or the queue is full and the refusal is ignored.

Worker: `WorkHead` (empty? head, kind of event), `WorkRecv` (one `recvfrom` of the
loop), `WorkProc` (clear the write buffer, call the processing function),
`WorkClose`, `WorkSwitch` (send), `WorkPop`.

`sel_que_by_ip` is a constant function from clients to workers: the address of a
client does not change.  Buffers are bounded sequences; `BufSize` stands for 2048
bytes.  `sendto` on a reset connection takes the pending error or, if there is
none, raises SIGPIPE, which ends the process (`up`).

### PerfMon

The list of a point is a sequence of nodes, a pointer a position in it.  The program has one
thread, so the handler is one step between any two loads and stores of `perf_mon_here`;
`status |=` is a load and a store.  Time stamps are the number of the measurement they were taken
for, which is what a record must agree on.  The lines written are a set; a line carries its dump
and its node, so that none is counted for another.  A failed extension is modelled: `p_cur`
becomes NULL and the next `perf_mon_here` crashes (`segv`), unless a dump put `p_cur` back first.

### EthScrapy

`run_flag` and `sg_scraper` are shared, one access per step; handles are numbers.
Every call of `eth_scrapy_init` that can fail does.  `Polls` and `Outlasts` say what
the controlling thread does right: to wait for SCRAPY_RUNNING before STOP, and to
sleep longer than the capture thread needs.  The tools in the repository do neither.

### SmartConf

A file is a sequence of lines with their meaning and their text; the parser sees
only the text, in tokens of one byte.  The buffer, what is carried between
blocks, and the tables with their growth are the code's.  `WellFormed` and `Meaning`
are the reference: they look at the lines, never at the text or the tables.

### Template

The buffer is cut in place: nodes are positions in it, and `Unescape` moves the rest of
it to the left for every `$$`.  `find_variable` is one step per byte.  A file is a
sequence of segments (text, escape, variable, malformed variable); `Meaning` puts
together what they stand for and what was added to the data set, and never looks at
the buffer or at the nodes.  The parser leaves out the last byte of a file that does
not end with a variable (f1g_template.c:225-230).  That is usually its newline, and
`Written` takes it from `Meaning` so that `ExecMatches` can say what the rest is; it can
also be the dollar of an escape, which `EscapesWritten` is about.

### ServerLife

`main` is test_server.c with more calls of `serv_set_work_cb`.  Each item of the file is
a value, absent or malformed, which is all the getters of `SmartConf` tell apart.  All
that may fail does: the file, each malloc, each call of `epoller_init`, each
`pthread_create`.  Contexts are named by call and worker.  `dig_hash` is kept as a
number with a sign, and `sel_que_by_ip` adds 2^32 in the remainder, as the unsigned C
arithmetic does.  A delivery without queues, or outside of `p_ques`, is a crash.

### PkSender, HttpObject, DataField, NetForge, HttpParser

A file of web hosts is what it says and its text; the program sees only the text,
and `WellFormed`, `Fits` and `Field` only what it says.  The four strings of a host are
arrays in one piece of memory, so that a string that fills its array runs on into the
next one, as in the struct; behind the cookie lies the type of the next host
(`Behind`), which the next line writes over a NUL that was put there, and behind the
last host there is nothing (`CookieFills`).  `load` is `load_size`, which starts out unset and is
taken for the TCP checksum of hosts of other types, too: without an earlier host that
is an uninitialised length ("ub").  `g_buf` and the object's buffer are memory of fixed size.
Packets are taken apart by the same parser the receivers use.  A header is a
sequence of 16-bit words; an address is two of them, and what `htons` is given is cut to
one.  Words such as
"Host" or "HTTP/1.1" count as one character.  What C does not define ends in the
state "ub".

The HTTP object has a second user in `MCPkSender`: a client that creates, resets,
adds headers and contents of all kinds, exchanges the buffer, reads files and destroys
in any order.  (`http_object_get_header` is a stub, f1g_http.c:215.)

### CharsetCode

A step is one round of a conversion's loop.  The caller makes any single call, with
buffers of any of the sizes, or the seven of test_langcode_conv.c in a row.  The
reference (`WellFormed`, `Ucs2Of`) is the definition of the encodings, from the
characters and not from the code.  `nul` is the place of the terminating 0 a call stores
behind its output (charset_code.c:133, 200, 272, 320, 372, 421, 454, 486).

### F1gBuffer, F1gLog, RegSet, UrlParser, BiTree, BasicAlg

Each has a client that calls its operations in any order.  History variables hold
what was given; the properties compare the component's memory with them.  `bcut` and
`lcut` are the places of the history that a text had beyond the room it was printed
with: the code counts these characters and does not store them.

## 3. Runs

| Run | Expected | What it shows |
|---|---|---|
| `queue_ring` | pass | safety, refinement of `BoundedFifo`, and `Drained`, over a ring of 3 blocks |
| `server_orderly` | pass | clients that wait for their answers, and a `malloc` that may fail: no lost edge, no batch left without that or an ended connection, no wrong close, all requests answered unless memory was missing |
| `server_resets` | pass | clients that come together, half-close and reset: no freed `sock_info_t` is reached, queues drain |
| `server_stale_reply` | violation of `ReplyOnlyToRequester` | the connect event of a second client is answered with the first one's reply |
| `server_burst` | violation of `RequestsAnswered` | two connections, one edge, one accept: the second client waits for ever |
| `perf_signals` | pass | signals everywhere in `perf_mon_here`: records whole, unique, complete |
| `scrapy_stop` | pass | a careful controller: STOP ends the capture, its end is reported, handles do not leak |
| `scrapy_close_race` | violation of `DispatchOnOpenHandle` | the controller of the tools: destroy closes the handle `pcap_dispatch` is using |
| `conf_read` | pass | files of up to four lines: accepted iff well formed, getters right, reading ends |
| `template_escapes` | violation of `EscapesWritten` | a template that ends in `$$` is written without it |
| `pk_sender` | pass | files of two and three lines, well formed or not, and any use of the HTTP object: packets and messages are what was asked for |
| `library` | pass | buffer, log, regset, URL parser, conversions, tree, rotation, templates of up to four segments and the life of a server over bounded inputs, each with a client of its own |

The four violations are disagreements between the code and what its headers,
comments or tests say; `findings` quotes the line for each.

A wrong index or a missing field stops TLC wherever it is used, so a type invariant
is among the properties of the queue only; the others (`TypeOK` of each module) are
stated for the proofs.  `TypeOK` of the capture, of perf_mon, of the server and of
smart_conf are proved, each as a part of the inductive invariant.

### Bounds, and why they are enough

- Queue: 3 blocks (two messages and the free block), payloads of one and two words
  of which a torn reading is neither, one payload too long, 4 messages: both
  indices wrap, and the queue is full, empty and in between at every offset.  The
  proofs cover every size.
- Server: two clients, one worker, two descriptors.  A descriptor is reused when the
  first connection has ended, which is the case all races are about; the second
  worker would only add queues that share nothing but the kernel.  In
  `server_orderly` one client has three requests and the other one, which is the
  least with which a batch is cut over a connection that has ended; `que_cap = 7`
  (six events) is the least with which no event is refused: with 6, `NoLostEdge` fails,
  which is its mutant.  In `server_resets` 3 blocks (two events) make the queue full.
  `Backlog = 1` is "one connection at a time", 2 allows a burst.  `MemFails` is TRUE in
  `server_orderly`: `NoLostEdge` and `RequestsAnswered` speak of the behaviours in
  which no connection was refused for it, `BatchCutByEnd` and `ClosesOnlyEnded` of
  all.  The runs keep requests smaller than the worker's buffer (`MaxSend < BufSize`).
  What a third client can lose is in section 4.
- PerfMon: two points, lists that start with one node and grow, four
  measurements, three dumps: enough for a measurement cut by a dump, one that
  reuses its node, and a dump of both.
- EthScrapy: four calls of init, so that each failing branch is followed by another
  try.  The state space is complete.
- SmartConf: twelve kinds of lines, files of up to four of them, with and without a
  newline at the end.  `item_size0 = 1` makes the item table grow twice; a block of
  18 bytes is filled by some of the files and exceeded by others.
- ServerLife: files with -1, 0, 1, 2 and 3 workers, and items given, absent and
  malformed; two calls of `serv_set_work_cb` with every combination of
  arguments and every place to fail; three events from addresses with and without
  negative bytes.
- PkSender: ten kinds of lines in all pairs, 27 files of three lines, and files with
  a wrong count, separator, column limit or end.  The arrays of a host have 3 to 4
  bytes, so that strings fit, fill and exceed them; the two addresses are chosen so that
  the checksum carries in both additions.  The client of the object gives up to
  four headers or contents into buffers of 33 and 34 bytes, some of which do not fit.
- Library: characters on both sides of every boundary of UTF-8 (127 and 128, 2047 and 2048) and of
  the table; strings of up to three bytes out of ten, and escapes whole and cut; output buffers
  from 0 to 7 bytes.  Buffers, logs and rule tables start small enough to grow more than once,
  also under a formatted text or a message that exceeds them.  Trees of all orders of five
  elements.  Arrays of 1, 2 and 5.
- Template: twelve kinds of segments, files of up to four of them, tables that start
  with one entry, two keys and two executions, an output buffer that some results
  fill and others exceed.

Deadlock is checked in `queue_ring` only: clients may stop, a capture, a reading, a
conversion or a program ends, and measurements, signals and events are bounded.

### Fairness

- Queue: both threads are scheduled within a call (weak fairness); the producer may
  stop between calls.  The consumer's poll finds the queue not empty if that keeps
  being so (strong fairness on leaving the poll): it could otherwise call
  `que_obj_tail` for ever, which no caller does.
- Server: weak fairness for the access thread and for each worker; they are
  threads in endless loops.  Clients owe nothing: `RequestsAnswered` needs no further
  step of theirs.
- PkSender: weak fairness of the program, which has one thread and never waits.
- EthScrapy: weak fairness of the capture thread; the handle is in non-blocking
  mode, so `pcap_dispatch` returns.

## 4. Proofs

TLAPS checks all of the following for every value of the constants that satisfies
the named assumptions.

**Queue** (`F1gQueueProofs`; `blk_num >= 1`, any block size, any payloads, any number
of messages).  The invariants the runs check are not inductive: `HeadStable`, for
instance, does not say what happened between the test for emptiness and the call
of `que_obj_head`.  `QueueInvariant` proves `IInv`:

- `TypeOK`;
- `Control`: what each program counter knows.  Once the consumer has found the queue
  not empty, `front # tail` until it stores `front`; once the producer has found
  room, `tail`'s successor is not `front` until it stores `tail`; `cblk = front` while
  the consumer holds a block.  Both hold because each index has one writer, and the
  other thread's moves only add room, or messages;
- `Progress`: what is copied so far.  The words the producer has written are in the
  block at `tail`, the words the consumer has read are those of the message at the
  head;
- `Contents`: `published` is `consumed` followed by the messages in the waiting
  blocks, counted with the wrap.

The step that matters is that a store at `tail` touches no waiting block
(`WriteAtTail`) and that the store of `tail` adds exactly the written block
(`StoreTailContents`).  From `IInv` follow `TypeCorrect`, `HeadIsStable`,
`BlocksDisjoint`, `CheckedCallSucceeds` and `QueueConserves`, which are the
invariants of `queue_ring`.  With `blk_num = 1` the ring is always full, and the
theorems still hold.

**Capture** (`EthScrapyProofs`; any number of calls of init, any behaviour of the
controller).  `ScrapyInvariant` proves `TypeOK`, `NoHandleLost` and `GoneIsOff`
together with `Stages`: there is no capture thread before `start`, and no
open handle before an init has opened one or after destroy has closed it.
`NoHandleLost` needs it because the next init would otherwise forget an open handle,
`GoneIsOff` because `InitOk` stores `run_flag`.  `HandlesKept` and `GoneReported` are
the two properties of the run `scrapy_stop`.

**Queue as a FIFO** (`QueueImplementsFifo`, same assumptions).  `Spec` implies
`RingImplementsFifo`.  Besides `IInv` it needs `CallPays`: a call in progress carries a
payload that passed the length test.  By `Contents`, the mapped queue is `published`
without `consumed`, so a step is a `Put` of `BoundedFifo` exactly if it extends
`published`, a `Get` if it extends `consumed`, and a stutter otherwise.

**Server** (`F1gServerProofs`; any set of clients, any workers, descriptors, queue and
buffer sizes, resets and early closes or not).  `InfoNeverFreed` is about data three
parties change: the access thread frees a `sock_info_t`, a worker may have closed
its descriptor before, and the kernel may have given the number to somebody else.
`InfoLive` says nothing of what happens within `accessor_check_status`, so
`ServerInvariant` proves, beside the types (`ServerTypeOK`):

- `Table`: a descriptor leads to the connection whose `sock_info_t` holds it, and a
  registered connection has its descriptor.  So the EPOLL_CTL_DEL and the close
  of the access thread meet their own connection, or none;
- `Waiting`, `ReadyList`, `Batch`: a connection is at most once in the backlog,
  on the ready list and in the batch, and on the ready list only if registered.
  A second event of the same connection in one batch would be a use after free;
- `Freed`: a freed `sock_info_t` is out of reach, except through the event that is just
  being dropped, and through its registration until the EPOLL_CTL_DEL;
- `Held`: a worker that works has its block in the queue; `Unread`: nobody reads more
  than was sent.

Three more theorems rest on `ServerInvariant`.  `EdgesKept` says when `NoLostEdge` holds for every
instance: in a behaviour whose steps all satisfy `Kept`.  The four parts of `Kept` are the four
ways in which an edge is lost: a batch is left early (`NotCut`), a full queue refuses an event
(`NoneRefused`), a worker ends (`NoneLeaves`), a read stops because its buffer is full
(`NoneFull`).  The code excludes none of them; `server_orderly` meets the first, where nothing
else waits in the batch or memory is missing; and there are no others.  `EInv` adds to
`NoLostEdge` what the access thread knows of the batch it is in (`BatchKnown`), that an error
comes with a reset (`ErrReset`), that no worker has ended (`Working`), and that a reset is on the
ready list or in the batch and not only in a queue (`RstKnown`), because a `recvfrom` that takes
the pending error leaves a worker nothing to see.

`OrderlyCloses` and `OrderlyBatches` are `ClosesOnlyEnded` and `BatchCutByEnd`, for any number of
clients and descriptors, queues of any size, failing accepts, failing `malloc`s and early closes,
but without resets and with one worker.  `CInv` is why one worker suffices: the access thread
closes nothing then (`Quiet`), so that between the read that saw the end of a connection and the
close that follows it, the descriptor stays that connection's (`EndSeen`).  With two workers it
may not: an event that waits in the queue of one of them can name a descriptor that the other has
closed and the kernel has given away.  `Opened` adds that an open connection is the one its
descriptor leads to, so that `EPOLL_CTL_ADD` fails only if the connection was closed meanwhile.
The other way to leave a batch is the `malloc` between accept and `EPOLL_CTL_ADD`, which falls on
a connection that is alive.

It can be, which is why `BatchCutByEnd` does not say that batches are worked to their end.  The
counterexample has three clients: events of an ended connection still wait in a queue when its
descriptor is given to the next client; the worker takes them for the new connection, answers its
request, sees its end and closes it before the access thread, which has just returned from
`accept`, registers it.  `EPOLL_CTL_ADD` fails, the rest of the batch is forgotten, and with it
the edge of a third client, whose request stays unread.  The cut itself needs two clients, one of
them with three requests: `server_orderly` has it.

**Server life** (`LibraryProofs`; any file, any number of workers, any
address of four signed bytes).  `Shared`: worker i and the access thread have queue i
in common.  `Threads`: threads are started in order and the access thread last, so
that an event implies that all workers run.  `Contexted`: a worker's context and
its clean function come from one call; a failing `serv_set_work_cb` must not
separate them.  `Selected` is the arithmetic: the remainder of the unsigned sum is an
index of `p_ques`, whatever the sign of the bytes.  From these follow
`EventsHaveWorkers` and `ContextsCleaned`.

**Performance monitor** (`PerfMonProofs`; at least one point, any `preset_times`, also
negative ones, for which the code takes its default).  The handler may run between
any two accesses of `perf_mon_here`, resets the nodes under it and puts `p_cur`
back, so none of the three properties is inductive:

- `Cursor`: the local `p_cur` is the point's, or a dump has put that one back to the
  head; in the second case the call stores into a node the list will use again;
- `Nodes`: a node with ST_END holds a measurement that has ended, lies before
  `p_cur`, and no other node and no line has the same (what `WrittenOnce` needs);
- `Started`: ST_END falls on a node whose ST_START is of the same measurement, or that
  has none (what `RecordsArePairs` needs: the loaded `status` of the `|=` is stale if
  a dump came in between);
- `Whole`, `Kept`: the node of a measurement that no dump fell into has all that
  was stored, and it stays until it is written (what `NoneLost` needs);
- `Numbers`, `Lines`: no two points have the same measurement; lines are of ended ones.

`LinesArePairs`, `LinesWrittenOnce` and `NoMeasurementLost` are the three invariants of
the run `perf_signals`.

**Buffer, log and rules** (`BufferProofs`; any texts, any sizes).
`BufferHoldsTexts`: the invariant is that the memory has `size` characters and `len` of
them are the texts taken, but for the places in `bcut`; it must hold for owned and for
referenced memory, as `buffer_set` changes between them.  What carries it through a
formatted text is `PrintedText`: whatever the room, what lies before the text is left
alone, and the text is itself up to the room's last character; `AgreeWithMore` puts
such a text behind the ones before.  The growth of buffer_append_format copies `len`
characters and prints behind them with the old room.  `LogKeepsMessages`: the pending text
ends at or below the limit, and the limit lies in the buffer.  A caller of
`f1g_log_init` has to see to the second: `LogAssumption` takes 0 < limit <= buf_size,
which the code does not test, and without which it prints behind its buffer.
`FirstRuleWins`: the table holds the rules in the order they were added, through every
`regset_enlarge_cap`; it has at least the entries it counts.  An initial size of 0
is covered.

**HTTP object** (`BufferProofs`; any buffer size, any headers and contents in any
order).  `MessageKept` and `HeadersKept` follow from `HttpInv`.  While the buffer is the
one the message was begun in (`intact`), the first `data_len` bytes are `written`, the
accepted pieces in order, if no header stands between two contents (`MessageAt`); the
content is one piece, `body`, in any case (`BodyAt`), because each goes behind the last
(f1g_http.c:195); and each header lies where `hdr_set` and `hdr_len_set` say unless it
is one of those in between, over which the next content goes (`HeaderAt`).  `BitsKnown`:
a bit is set if and only if its header was given, and no two headers share one.
`bit_array_bit_value` shifts as an int and answers 1 only if the byte has no higher bit
(`HighestBit`, `BitsOfByte`), so the test "check existence of header" refuses a second
header of a kind only until one with a higher bit in the same byte is there;
`HeadersFound` has both directions.

**Rotation and conversions** (`LibraryProofs`).  `ArrayRotated` says of METHOD_SEQ that the array
is the caller's turned left by all the places asked for, for every non-empty array and every count
that is not negative, also one beyond its length: the rounds are counted down from the remainder,
and turning by the length is no turn. `StaysInBuffer` holds for every byte string, buffer size and
table: no byte of the text lies behind the buffer, and the terminating 0 at most one byte behind
it, where the text fills it.  The invariant adds that `*d_len` keeps the size of the buffer while
a call runs, which is what the tests for E_OBUF compare with.  The output for a character has at
most as many bytes as were tested for, code by code. `CharactersWhole` says that even malformed
input is stored as whole, well-formed characters. Its invariant `WholeInv` rests on two facts:
whatever the two or three bytes of a unit are, and whatever the table makes of them, the result is
a number of 16 bits (`UnitIsCode`, `TableCodes`), and `Encoded` makes of such a number one
character, which a well-formed text can go on with (`CharacterAdded`).  Of three bytes after 224
the second is at least 160, because only codes from 2048 on get three.

**URL parser** (`LibraryProofs`).  `UrlsTakenApart` holds for every URL of the shape the
property describes (`IsUrl`, no parameters), with parts of any length and whatever was
loaded before: its path is always its own, the other parts are if it has them, and the
ones it does not have are empty in a parser that was new or cleared (`LoadKeepsFields`,
`LoadedApart`).  The argument is about the three scans of
`url_parser_load`: the first separator of each kind is found where the URL has it,
because the parts before it have none.

**Tree** (`LibraryProofs`; any integers in any order).  `TreeInv`: the nodes are closed under
prefixes (`Rooted`), as many as the elements (`Counted`), in order along every path
(`Ordered`), and a height reaches down to every node below, exactly so where
the tree below is a single branch (`Heights`).  The insertion goes down one
path, and its end is found with the least free position on it (`Least`).

**INI reader** (`SmartConfProofs`; any files, initial sizes and block size above 1).
`PositionsKept`: after a block, at most one byte is carried over
into the next.  So a block always has room, every read takes at least one byte, and the NUL
behind a line lies in the buffer; `ReadEnds` is `Advances`, for the measure `Left`.
`TablesKept` is `TypeOK` from `Tables`: a table has at least the entries it counts,
sections behind `sec_seq` have none, and the current section is the last one, so
that the store of the next item stays inside a table that was just extended.

**Packet headers** (`PkSenderProofs`; any file of hosts, any addresses, lengths and process
ids).  `HeadersVerify` is the arithmetic of `chk_sum`: the sum of ten words is below
10 * 2^16, and after two additions of the carries nothing is left to carry.
`PacketsVerify` carries it to the packets: of a host in use both texts were
addresses (`Hosts`, `Current`), and the length is a number (`Lengths`), which
`htons` cuts to 16 bits before it is checksummed and sent.

**Only model-checked**:

- liveness (`Drained`, `RequestsAnswered`, `QueuesDrain`, `StopHonoured`,
  `AllSent`): the prover has no rule for fairness;
- `NoLostEdge` without the hypothesis `Kept`: in `server_orderly` a batch that is cut
  has no other client's edge behind the cut, and six events are all that can be under
  way.  With more clients both fail;
- properties that compare the result of a loop over data with a recursive
  reference (`ReadMatchesFile`, `ParseMatches`, `ExecMatches`, `SentAsConfigured`,
  `ParsedBack`, `CharsKept`, `LangDecoded`): they need induction over data.  Of
  `CharsKept`, the part that is about one character at a time is proved
  (`WholeCharacters`); that they are the same characters is not.

## 5. Limits

What the models leave out, and what they say on the side:

- Server: the default processing function answers with PROC_ST_SENDBUF; the model
  has the other results (`ProcResults`), and one that fails or asks for
  PROC_ST_BRKOUT ends the worker while its queue fills on.  A client that
  half-closes before it has its answer loses it: the worker closes the descriptor
  before the switch sends.  A reply to a connection that was reset can end the
  process by SIGPIPE; `QueuesDrain` excepts that.  A failed accept delivers the
  previous event once more; the runs have enough descriptors.  `que_size` is taken to
  be at least the size of `sock_info_t`.
  EPOLLHUP together with EPOLLERR ends a batch early, because the second
  `EPOLL_CTL_DEL` fails (f1g_accessor.c:331); it needs a reset, which
  `server_orderly` leaves out.  A failing `EPOLL_CTL_ADD` ends it without one
  (section 4).  What is left of such a batch is forgotten, edges of others included.
- Server life: `serv_load` stores the item `access_mode` over `serv_type` (f1g_server.c:63), so
  that the configured service type is lost; neither is used later.  `serv_set_work_cb` allocates
  contexts and copies nothing into them.  A failing `serv_load`, `serv_create` or `serv_run`
  releases nothing, not even the descriptors of `epoller_init`, and the workers already started
  run on. `serv_destroy` leaves contexts without a clean function, the accessor and the table of
  queues behind.  A `buffer_init` that fails is not noticed.  With `worker_num = 0` the first
  event divides by 0.
- PerfMon: two dumps within one second write the same file from its beginning; file
  names are not modelled.
- SmartConf: a file larger than `st_blksize` is misread where a block cuts a line
  (`proc_left` is counted from the end of the scan).  No property says what such a
  file is read as; that it is read to an end is `Advances`.  Growing the section
  table forgets all earlier sections, because `sec_num` is still 0 then
  (f1g_smart_conf.c:57); the table of the run is large enough.  An item before the
  first section, and a value of one space, crash (`SEGV` in the model); the files of
  the runs avoid both.  Allocation failures and read errors are left out: after a
  read error the loop of `ini_read` starts over for ever.
- Queue: `que_obj_add` on a full ring stores nothing and returns F1G_OK all the same;
  `CheckedCallHasRoom` says why a caller that asked first never meets that.
- Template: a template initialised with 0 nodes is written outside its table; a
  variable is looked up by prefix, so that an earlier key that is longer answers for
  it; a number of one digit in a key behind the first growth of the table, or one that
  fills its block, loses its last digit.  The runs stay clear of the three, which the
  model has.  Parsing twice into one template is not modelled.
- PkSender: the code looks for `Sep=` where its own comment documents `SEP=`
  (pksender_v2.c:131 and :65); a host of a type other than 0 and 1 is sent without a load, and its
  TCP checksum is taken over `load_size` of an earlier host, or over one that was never
  set; the NUL of a cookie that fills its array goes into the next host's type, or behind
  the table; a file that announces one line gets no memory for it, one
  that announces more than it has sends hosts nobody wrote, a string as long as its
  array has no end, and a path of 256 bytes does not fit the request line of 128.  The
  model has all of these; the properties speak of files without them.  The TCP
  checksum is complemented twice and taken over the length of the packet before, so
  it is not the one of the protocol; it is not modelled.
- HttpObject: a header may be accepted twice, although the code tests for it, and a content
  behind an earlier one goes over the headers in between; `HeadersFound` and
  `MessageIsWhatWasGiven` say exactly when, and neither is undone by the code.  They say
  nothing of a message whose buffer the caller exchanged.  `http_object_get_header` is a
  stub (f1g_http.c:215).  `http_object_parse_data` loops for ever on a message without
  an end of its header.
- DataField: the entries of a grown table are not initialised.
- Charset: the terminating 0 of a text that fills its buffer is stored one byte behind it
  (`WithinBuffer` allows that byte and says where it cannot happen); a buffer that is full makes
  `str_esc_decode` return 0 with `*d_len` unchanged; characters that are not hexadecimal digits
  count as 0; the code 0xFFFF is outside of the tables; GBK output of an ASCII character has one
  byte where the conversions from GBK read two.  `str_decode` of lang_code drops hexadecimal
  digits outside of escapes, which its comment calls normal text.
- Buffer and log: a formatted text that did not fit is printed again with the old
  room, after the memory has grown, and one that fills its room exactly loses its last
  character; its whole length is counted.  `bcut` and `lcut` are the lost places.  The
  texts of the model have no arguments: with some, the second `vsnprintf` of
  buffer_append_format uses a `va_list` the first one has used up.  `buffer_append`
  stores a NUL behind a buffer that it fills (f1g_buffer.c:104), which is left out.
  `f1g_log_init` does not test that the limit lies within the buffer; with a larger one
  the log prints behind it (`LogAssumption`).
- Regset: `regset_init` does not store `rule_size`, so the first rule exchanges the table;
  `regset_enlarge_cap` does store it (f1g_regset.c:50).  That growing fails is not
  noticed, and is left out.
- UrlParser: values of parameters are written outside of their table, which ends the
  model.  A part that a URL does not have keeps its value from the URL before, unless
  the parser was cleared: `UrlTakenApart` says nothing of it then.
- BiTree: a node with two subtrees may keep a height larger than its own;
  `SearchTree` has the half that holds.
- BasicAlg: only the sequential method does anything, and only for counts that are not
  negative; the other three return success and leave the array as it is, although
  basic_alg.h:14-16 lists them as methods to rotate.  The sequential one reads one
  element past the array, which it then overwrites.
- External: the kernel's sockets and epoll, libpcap, the clients.

### Not modelled

- Stubs and dead code: `f1g_udp.c`, `f1g_string.c`, `f1g_cmd_line.c`, `f1g_ini_conf.c`,
  `f1g_general_conf.c`, `f1g_word_segment.c`, the empty linkers of the accessor, the
  parser of HTTP answers, and `f1g_fl_mgr.c`, which does not compile.
- Generated data: `ucs2_gbk_map.c` is a table of 22,053 lines, two thirds of all lines
  of C under `src/f1goal`; the headers of libpcap under `include/pcap` and
  `dep/include` are another 4,000 and belong to libpcap.  Of the library's own
  code the models cover most; of all lines, these included, about one in eight.
- The conversions of `f1g_lang_code.c`: nothing calls them; `utf8_to_unicode` and
  `unicode_to_utf8` do not do what their names say.
- Pure input and output: `lang_conv`, `simple_server`, `simple_client`, `pksender_v1`,
  printing and showing functions, and the TCP header of `f1g_net_forge.c`.

## 6. Plan

The components that keep state or decide something are modelled.  What remains for the
models: `F1gServer` with requests that fill the buffer and with failing accepts, and a
section table of `SmartConf` that grows.

Proofs: the table and position invariants of `Template`, which need no recursion and
are the ground for `ParseMatches`; action properties that follow from the inductive
invariants (only the access thread frees a `sock_info_t`, a written line is never
taken back).  The properties that need induction over data, and liveness, wait for a
prover that has them.
