------------------------- MODULE MCApprovalGateway -------------------------
(* The gateway on small instances: each cfg picks the approvals, the       *)
(* attempts and the provider results its question needs.                   *)
EXTENDS ApprovalGateway, TLC

CONSTANTS h1, h2, a1, a2, e1, e2, e3

Symmetry == Permutations({h1, h2}) \cup Permutations({a1, a2})
               \cup Permutations({e1, e2})
============================================================================
