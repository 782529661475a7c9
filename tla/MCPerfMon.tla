----------------------------- MODULE MCPerfMon -----------------------------
(* Bounds for PerfMon: lists of one node that grow, signals everywhere.    *)
EXTENDS PerfMon
=============================================================================
