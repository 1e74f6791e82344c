---------------------------- MODULE EvidenceLog ----------------------------
(* What an evidence store promises its callers: a log to which each event  *)
(* is appended at most once, and from which nothing is ever taken away.    *)
EXTENDS Sequences

CONSTANT Events

VARIABLE chain    \* the events, in append order

Init == chain = <<>>

AppendEvent(event) ==
    /\ \A i \in DOMAIN chain : chain[i] # event
    /\ chain' = Append(chain, event)

Next == \E event \in Events : AppendEvent(event)

Spec == Init /\ [][Next]_chain
============================================================================
