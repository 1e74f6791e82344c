-------------------------- MODULE MCApprovalQueue --------------------------
(* The queue on a small instance: two approvals, two attempt ids, a        *)
(* clock of two ticks.                                                     *)
EXTENDS ApprovalQueue, TLC

CONSTANTS a1, a2, e1, e2

Symmetry == Permutations({a1, a2}) \cup Permutations({e1, e2})
============================================================================
