-------------------------- MODULE EthScrapyProofs --------------------------
(***************************************************************************)
(* Proofs about EthScrapy, for any number of calls of eth_scrapy_init and  *)
(* any behaviour of the controlling thread.                                *)
(***************************************************************************)
EXTENDS EthScrapy, TLAPS

\* Before the thread is created there is none; before a handle is opened and
\* after pcap_close none is open, so that storing NULL forgets none.
Stages ==
    /\ mpc \in {"new", "opened", "inited", "registered"} => tpc = "none"
    /\ mpc \in {"new", "forget", "end"} => opened = {}

IInv == TypeOK /\ NoHandleLost /\ GoneIsOff /\ Stages

\* The first state.
LEMMA InitEstablishes == Init => IInv
<1> SUFFICES ASSUME Init PROVE IInv
  OBVIOUS
<1>1. TypeOK
  BY ScrapyAssumption
  DEF Init, TypeOK, Handles, Unasked, SCRAPY_INIT, SCRAPY_RUNNING, SCRAPY_OFF
<1>2. NoHandleLost /\ GoneIsOff /\ Stages
  BY DEF Init, NoHandleLost, GoneIsOff, Stages
<1>3. QED
  BY <1>1, <1>2 DEF IInv

\* A step of the controlling thread.
LEMMA ControlPreserves == IInv /\ Control => IInv'
<1> SUFFICES ASSUME IInv, Control PROVE IInv'
  OBVIOUS
<1> USE ScrapyAssumption
    DEF IInv, TypeOK, NoHandleLost, GoneIsOff, Stages, Handles, Unasked,
        SCRAPY_INIT, SCRAPY_RUNNING, SCRAPY_OFF, lvars, mvars, tvars
<1>1. CASE InitRefused
  BY <1>1 DEF InitRefused
<1>2. ASSUME NEW ok \in BOOLEAN, InitOpen(ok) PROVE IInv'
  BY <1>2 DEF InitOpen
<1>3. CASE InitFails
  BY <1>3 DEF InitFails
<1>4. CASE InitOk
  BY <1>4 DEF InitOk
<1>5. CASE eth_scrapy_reg
  BY <1>5 DEF eth_scrapy_reg
<1>6. ASSUME NEW ok \in BOOLEAN, eth_scrapy_start(ok) PROVE IInv'
  BY <1>6 DEF eth_scrapy_start
<1>7. CASE ControlStatus
  BY <1>7 DEF ControlStatus
<1>8. CASE ControlStop
  BY <1>8 DEF ControlStop
<1>9. CASE ControlStart
  BY <1>9 DEF ControlStart
<1>10. CASE Slept
  BY <1>10 DEF Slept
<1>11. CASE DestroyClose
  BY <1>11 DEF DestroyClose
<1>12. CASE DestroyForget
  BY <1>12 DEF DestroyForget
<1> HIDE DEF IInv
<1>13. QED
  BY <1>1, <1>2, <1>3, <1>4, <1>5, <1>6, <1>7, <1>8, <1>9, <1>10, <1>11, <1>12
  DEF Control

\* A step of the capture thread.
LEMMA ThreadPreserves == IInv /\ Thread => IInv'
<1> SUFFICES ASSUME IInv, Thread PROVE IInv'
  OBVIOUS
<1> USE ScrapyAssumption
    DEF IInv, TypeOK, NoHandleLost, GoneIsOff, Stages, Handles, Unasked,
        SCRAPY_INIT, SCRAPY_RUNNING, SCRAPY_OFF, lvars, mvars, tvars
<1>1. CASE ThreadRuns
  BY <1>1 DEF ThreadRuns
<1>2. CASE ThreadTests
  BY <1>2 DEF ThreadTests
<1>3. CASE ThreadCalls
  BY <1>3 DEF ThreadCalls
<1>4. ASSUME NEW ok \in BOOLEAN, ThreadReturns(ok) PROVE IInv'
  BY <1>4 DEF ThreadReturns
<1>5. CASE ThreadLeaves
  BY <1>5 DEF ThreadLeaves
<1>6. QED
  BY <1>1, <1>2, <1>3, <1>4, <1>5 DEF Thread

\* The inductive invariant holds throughout.
THEOREM ScrapyInvariant == Spec => []IInv
<1>1. Init => IInv
  BY InitEstablishes
<1>2. IInv /\ [Next]_vars => IInv'
  <2>1. CASE Next
    BY <2>1, ControlPreserves, ThreadPreserves DEF Next
  <2>2. CASE UNCHANGED vars
    BY <2>2 DEF vars, lvars, mvars, tvars, IInv, TypeOK, NoHandleLost,
                GoneIsOff, Stages
  <2>3. QED
    BY <2>1, <2>2
<1>3. QED
  BY <1>1, <1>2, PTL DEF Spec

\* No sequence of failing and succeeding calls of eth_scrapy_init leaves a
\* handle open that sg_scraper does not hold.
THEOREM HandlesKept == Spec => []NoHandleLost
<1>1. IInv => NoHandleLost
  BY DEF IInv
<1>2. QED
  BY <1>1, ScrapyInvariant, PTL

\* A capture thread that is gone is never reported as running, unless START
\* said so, however its last store and the stores of STOP are ordered.
THEOREM GoneReported == Spec => []GoneIsOff
<1>1. IInv => GoneIsOff
  BY DEF IInv
<1>2. QED
  BY <1>1, ScrapyInvariant, PTL
=============================================================================
