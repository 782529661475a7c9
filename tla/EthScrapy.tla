----------------------------- MODULE EthScrapy -----------------------------
(***************************************************************************)
(* f1g_eth_scrapy.c: a capture thread and a controlling thread share       *)
(* run_flag and sg_scraper without a lock.  The controlling thread is the  *)
(* main of pkreceiver_v1.c and pkreceiver_v2.c: init, reg, start, then     *)
(* STOP and destroy.  It may also ask for the status, call START, and try  *)
(* again after a failed init.  libpcap is external: a handle is a number,  *)
(* open or not.                                                            *)
(***************************************************************************)
EXTENDS Integers

CONSTANTS
    MaxInit,    \* bound: calls of eth_scrapy_init
    Polls,      \* TRUE: STOP waits until STATUS has answered SCRAPY_RUNNING
    Outlasts    \* TRUE: the usleep of STOP outlasts the capture thread

ASSUME ScrapyAssumption ==
    MaxInit \in Nat /\ Polls \in BOOLEAN /\ Outlasts \in BOOLEAN

VARIABLES
    run_flag,
    sg_scraper,     \* a handle, or 0 for NULL
    sg_handler,     \* "NULL" or "set"
    opened,         \* handles libpcap holds open
    mpc,            \* where the controlling thread is
    inits,          \* calls of eth_scrapy_init so far
    seen,           \* the last answer of STATUS
    resumed,        \* history: "yes" once START was called
    tpc,            \* where the capture thread is
    th              \* the handle it passed to pcap_dispatch

lvars == <<run_flag, sg_scraper, sg_handler, opened>>
mvars == <<mpc, inits, seen, resumed>>
tvars == <<tpc, th>>
vars == <<lvars, mvars, tvars>>

SCRAPY_INIT == 0
SCRAPY_RUNNING == 1
SCRAPY_OFF == 2
Unasked == -1

Handles == 1 .. MaxInit

Init ==
    /\ run_flag = 0 /\ sg_scraper = 0 /\ sg_handler = "NULL" /\ opened = {}
    /\ mpc = "new" /\ inits = 0 /\ seen = Unasked
    /\ resumed = "no"
    /\ tpc = "none" /\ th = 0

-----------------------------------------------------------------------------
(* The controlling thread.                                                 *)

\* pcap_lookupnet fails, or the type is neither card nor file.
InitRefused ==
    /\ mpc = "new" /\ inits < MaxInit
    /\ inits' = inits + 1
    /\ UNCHANGED <<lvars, mpc, seen, resumed, tvars>>

\* pcap_open_live, pcap_open_offline: a handle or NULL.
InitOpen(ok) ==
    /\ mpc = "new" /\ inits < MaxInit
    /\ inits' = inits + 1
    /\ sg_scraper' = IF ok THEN inits + 1 ELSE 0
    /\ opened' = IF ok THEN opened \cup {inits + 1} ELSE opened
    /\ mpc' = IF ok THEN "opened" ELSE "new"
    /\ UNCHANGED <<run_flag, sg_handler, seen, resumed, tvars>>

\* Mutant: the handle is forgotten, not closed.
InitFailsOpen ==
    /\ mpc = "opened" /\ mpc' = "new"
    /\ sg_scraper' = 0
    /\ UNCHANGED <<run_flag, sg_handler, opened, inits, seen, resumed, tvars>>

\* pcap_setnonblock, pcap_compile or pcap_setfilter fails.
InitFails ==
    /\ mpc = "opened" /\ mpc' = "new"
    /\ opened' = opened \ {sg_scraper}
    /\ sg_scraper' = 0
    /\ UNCHANGED <<run_flag, sg_handler, inits, seen, resumed, tvars>>

InitOk ==
    /\ mpc = "opened" /\ mpc' = "inited"
    /\ run_flag' = SCRAPY_INIT
    /\ UNCHANGED <<sg_scraper, sg_handler, opened, inits, seen, resumed, tvars>>

eth_scrapy_reg ==
    /\ mpc = "inited" /\ mpc' = "registered"
    /\ sg_handler' = "set"
    /\ UNCHANGED <<run_flag, sg_scraper, opened, inits, seen, resumed, tvars>>

\* pthread_create; when it fails the caller destroys.
eth_scrapy_start(ok) ==
    /\ mpc = "registered"
    /\ mpc' = IF ok THEN "started" ELSE "destroy"
    /\ tpc' = IF ok THEN "born" ELSE tpc
    /\ UNCHANGED <<lvars, inits, seen, resumed, th>>

ControlStatus ==
    /\ mpc \in {"started", "stopped"}
    /\ seen' = run_flag
    /\ UNCHANGED <<lvars, mpc, inits, resumed, tvars>>

\* Mutant: STOP and START share a case.
ControlStopAsStart ==
    /\ mpc = "started" /\ mpc' = "stopped"
    /\ Polls => seen = SCRAPY_RUNNING
    /\ run_flag' = SCRAPY_RUNNING
    /\ UNCHANGED <<sg_scraper, sg_handler, opened, inits, seen, resumed, tvars>>

ControlStop ==
    /\ mpc = "started" /\ mpc' = "stopped"
    /\ Polls => seen = SCRAPY_RUNNING
    /\ run_flag' = SCRAPY_OFF
    /\ UNCHANGED <<sg_scraper, sg_handler, opened, inits, seen, resumed, tvars>>

\* START, by which a caller takes a STOP back.  Only run_flag changes: no
\* thread is created.
ControlStart ==
    /\ mpc = "stopped" /\ mpc' = "started"
    /\ run_flag' = SCRAPY_RUNNING
    /\ seen' = Unasked /\ resumed' = "yes"
    /\ UNCHANGED <<sg_scraper, sg_handler, opened, inits, tvars>>

\* The usleep of STOP is over.
Slept ==
    /\ mpc = "stopped" /\ mpc' = "destroy"
    /\ Outlasts => tpc = "done"
    /\ UNCHANGED <<lvars, inits, seen, resumed, tvars>>

\* pcap_close, and then the store of NULL.
DestroyClose ==
    /\ mpc = "destroy" /\ mpc' = "forget"
    /\ opened' = opened \ {sg_scraper}
    /\ UNCHANGED <<run_flag, sg_scraper, sg_handler, inits, seen, resumed, tvars>>

DestroyForget ==
    /\ mpc = "forget" /\ mpc' = "end"
    /\ sg_scraper' = 0
    /\ UNCHANGED <<run_flag, sg_handler, opened, inits, seen, resumed, tvars>>

-----------------------------------------------------------------------------
(* eth_scrapy_callback.                                                    *)

ThreadRuns ==
    /\ tpc = "born" /\ tpc' = "test"
    /\ run_flag' = SCRAPY_RUNNING
    /\ UNCHANGED <<sg_scraper, sg_handler, opened, mvars, th>>

\* while (1 == run_flag)
ThreadTests ==
    /\ tpc = "test"
    /\ tpc' = IF run_flag = SCRAPY_RUNNING THEN "call" ELSE "leave"
    /\ UNCHANGED <<lvars, mvars, th>>

ThreadCalls ==
    /\ tpc = "call" /\ tpc' = "dispatch"
    /\ th' = sg_scraper
    /\ UNCHANGED <<lvars, mvars>>

\* pcap_dispatch returns, with -1 or not; sg_handler ran for every packet.
ThreadReturns(ok) ==
    /\ tpc = "dispatch" /\ tpc' = IF ok THEN "test" ELSE "leave"
    /\ th' = 0
    /\ UNCHANGED <<lvars, mvars>>

\* Mutant: the thread ends without a word.
ThreadLeavesSilently ==
    /\ tpc = "leave" /\ tpc' = "done"
    /\ UNCHANGED <<lvars, mvars, th>>

ThreadLeaves ==
    /\ tpc = "leave" /\ tpc' = "done"
    /\ run_flag' = SCRAPY_OFF
    /\ UNCHANGED <<sg_scraper, sg_handler, opened, mvars, th>>

Thread ==
    \/ ThreadRuns \/ ThreadTests \/ ThreadCalls
    \/ \E ok \in BOOLEAN : ThreadReturns(ok)
    \/ ThreadLeaves

Control ==
    \/ InitRefused \/ (\E ok \in BOOLEAN : InitOpen(ok))
    \/ InitFails \/ InitOk
    \/ eth_scrapy_reg \/ (\E ok \in BOOLEAN : eth_scrapy_start(ok))
    \/ ControlStatus \/ ControlStop \/ ControlStart \/ Slept
    \/ DestroyClose \/ DestroyForget

Next == Thread \/ Control

\* The capture thread is scheduled; pcap_dispatch is non-blocking.
Spec == Init /\ [][Next]_vars
FairSpec == Spec /\ WF_vars(Thread)

-----------------------------------------------------------------------------
(* Properties.                                                             *)

TypeOK ==
    /\ run_flag \in {SCRAPY_INIT, SCRAPY_RUNNING, SCRAPY_OFF}
    /\ sg_scraper \in Handles \cup {0} /\ sg_handler \in {"NULL", "set"}
    /\ opened \subseteq Handles
    /\ mpc \in {"new", "opened", "inited", "registered", "started", "stopped",
                "destroy", "forget", "end"}
    /\ inits \in 0 .. MaxInit /\ resumed \in {"no", "yes"}
    /\ tpc \in {"none", "born", "test", "call", "dispatch", "leave", "done"}
    /\ seen \in {Unasked, SCRAPY_INIT, SCRAPY_RUNNING, SCRAPY_OFF}
    /\ th \in Handles \cup {0}

\* STOP ends the capture unless START takes it back, for a caller that waits
\* for SCRAPY_RUNNING first: then the new thread's own store of run_flag no
\* longer overwrites the SCRAPY_OFF.
StopHonoured == mpc = "stopped" ~> (tpc = "done" \/ mpc = "started")

\* Whichever call of eth_scrapy_init fails, and however often, no handle is
\* open that sg_scraper does not hold.
NoHandleLost == opened \subseteq {sg_scraper}

\* A capture thread that has left its loop, on STOP or on an error, is not
\* reported as running, although its last store races with STOP.  (START
\* says otherwise: it sets the flag whether or not there is a thread.)
GoneIsOff == tpc = "done" /\ resumed = "no" => run_flag = SCRAPY_OFF

\* eth_scrapy_control: "please wait %d useconds to exit!"; after that wait
\* the thread has left, so pcap_dispatch does not use the handle destroy
\* closes.
DispatchOnOpenHandle == tpc = "dispatch" => th \in opened
=============================================================================
