----------------------------- MODULE MCPiiMasking -----------------------------
(* Every list of up to three matches of three patterns in a short text. *)
EXTENDS PiiMasking
===============================================================================
