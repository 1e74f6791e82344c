----------------------------- MODULE HashChain -----------------------------
(***************************************************************************)
(* The hash chain both evidence stores keep (evidence/store.py and         *)
(* evidence/sqlite_store.py compute the same hashes).  A hash is the       *)
(* sequence of the events it commits to, the first hash "" is <<>>: two    *)
(* hashes are equal only if everything hashed is equal, which is what the  *)
(* code expects of sha256.  An event stands for its id, request id,        *)
(* timestamp, type and payload together.                                   *)
(***************************************************************************)
EXTENDS Naturals, Sequences

\* _compute_event_hash.
Hash(event, previous) == Append(previous, event)

\* What append stores: the event, the hash before it and its own hash.
Row(event, previous) ==
    [event |-> event, previous |-> previous, hash |-> Hash(event, previous)]

TailHash(rows) == IF rows = <<>> THEN <<>> ELSE rows[Len(rows)].hash

\* Mutant: only the rows' own hashes are verified.
VerifiesHashesOnly(rows) ==
    \A i \in DOMAIN rows : rows[i].hash = Hash(rows[i].event, rows[i].previous)

\* What verify_chain asks of one row.
RowVerifies(rows, i) ==
    /\ rows[i].previous = TailHash(SubSeq(rows, 1, i - 1))
    /\ rows[i].hash = Hash(rows[i].event, rows[i].previous)

\* verify_chain.
Verifies(rows) == \A i \in DOMAIN rows : RowVerifies(rows, i)

\* The log of events the rows record.
EventsOf(rows) == [i \in DOMAIN rows |-> rows[i].event]

\* Two rows that were chained to the same hash.
Forked(rows) ==
    \E i, j \in DOMAIN rows : i # j /\ rows[i].previous = rows[j].previous
============================================================================
