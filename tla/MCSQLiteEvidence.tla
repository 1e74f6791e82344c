------------------------- MODULE MCSQLiteEvidence --------------------------
(* Two processes with two threads each on one file. *)
EXTENDS SQLiteEvidence, TLC

CONSTANTS p1, p2, t1, t2, v1, v2, v3, v4

\* Two events of one process meet two of the other.
MCIssuer == v1 :> p1 @@ v2 :> p1 @@ v3 :> p2 @@ v4 :> p2
============================================================================
