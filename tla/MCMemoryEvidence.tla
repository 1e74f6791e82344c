------------------------- MODULE MCMemoryEvidence --------------------------
(* Three threads append four events. *)
EXTENDS MemoryEvidence, TLC

CONSTANTS t1, t2, t3, v1, v2, v3, v4
============================================================================
