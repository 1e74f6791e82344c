-------------------------- MODULE MCAdminDashboard --------------------------
(* One approval, two refreshes and two clicks under way. *)
EXTENDS AdminDashboard, TLC

CONSTANTS a1, s1, s2, c1, c2

Symmetry == Permutations({s1, s2}) \cup Permutations({c1, c2})
=============================================================================
