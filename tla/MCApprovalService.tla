------------------------- MODULE MCApprovalService -------------------------
(* The failing service on a small instance. *)
EXTENDS ApprovalService, TLC

CONSTANTS h1, h2, a1, a2, e1, e2

Symmetry == Permutations({h1, h2}) \cup Permutations({a1, a2})
               \cup Permutations({e1, e2})
============================================================================
