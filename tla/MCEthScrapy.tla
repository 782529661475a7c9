---------------------------- MODULE MCEthScrapy ----------------------------
(* The controlling thread that waits, and the one of pkreceiver.           *)
EXTENDS EthScrapy
=============================================================================
