--------------------------- MODULE MCQueueMonitor ---------------------------
(* Three depths, sequence numbers of two bits, so that the fourth packet   *)
(* overflows them.  The invariants of the proofs are checked with the      *)
(* rest.                                                                   *)
EXTENDS QueueMonitorProofs
=============================================================================
