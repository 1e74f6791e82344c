------------------------------- MODULE Orders -------------------------------
(***************************************************************************)
(* Lists made by their order: what Python's sorted() and a filtering       *)
(* comprehension return.  Each element is placed by the number of elements *)
(* before it, which needs no recursion.  An order is a set of pairs.       *)
(***************************************************************************)
EXTENDS Integers, FiniteSets

\* How many elements of S come before i.
Rank(i, S, order) == Cardinality({j \in S : <<j, i>> \in order})

\* The elements of S in order.
Ordered(S, order) ==
    [k \in 1..Cardinality(S) |-> CHOOSE i \in S : Rank(i, S, order) = k - 1]

\* The elements of the list s at the positions in I, in the order of the list.
Selected(s, I) ==
    LET positions == Ordered(I, {p \in I \X I : p[1] < p[2]})
    IN  [k \in 1..Cardinality(I) |-> s[positions[k]]]
=============================================================================
