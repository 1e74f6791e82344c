-------------------------- MODULE MemoryEvidence ---------------------------
(***************************************************************************)
(* InMemoryEvidenceStore of src/kai_security/evidence/store.py, appended   *)
(* to by the threads of the web server's pool.  append reads the last      *)
(* hash, hashes, and then calls list.append; there is no lock, so the      *)
(* interpreter may run another thread between the read and the append.     *)
(* list.append itself is atomic.                                           *)
(***************************************************************************)
EXTENDS HashChain

CONSTANTS
    Threads,
    Events,     \* what callers append; each AuditEvent has its own uuid
    NoEvent

ASSUME NoEventAssumption == NoEvent \notin Events

VARIABLES
    rows,       \* self._events
    appender    \* thread -> its append call: the event and previous_hash

vars == <<rows, appender>>

Idle == [at |-> "idle", event |-> NoEvent, previous |-> <<>>]

Started(event) ==
    \/ \E i \in DOMAIN rows : rows[i].event = event
    \/ \E t \in Threads : appender[t].event = event

Init ==
    /\ rows = <<>>
    /\ appender = [t \in Threads |-> Idle]

ReadTail(t, event) ==
    /\ appender[t].at = "idle"
    /\ ~Started(event)
    /\ appender' = [appender EXCEPT ![t] =
                       [at |-> "hashed", event |-> event, previous |-> TailHash(rows)]]
    /\ UNCHANGED rows

\* Mutant: the list is rebuilt around the hash that was read.
AppendRowTruncating(t) ==
    /\ appender[t].at = "hashed"
    /\ rows' = Append(SubSeq(rows, 1, Len(appender[t].previous)),
                      Row(appender[t].event, appender[t].previous))
    /\ appender' = [appender EXCEPT ![t] = Idle]

AppendRow(t) ==
    /\ appender[t].at = "hashed"
    /\ rows' = Append(rows, Row(appender[t].event, appender[t].previous))
    /\ appender' = [appender EXCEPT ![t] = Idle]

Next ==
    \E t \in Threads :
        \/ \E event \in Events : ReadTail(t, event)
        \/ AppendRow(t)

Spec == Init /\ [][Next]_vars

----------------------------------------------------------------------------

Log == INSTANCE EvidenceLog WITH chain <- EventsOf(rows)

\* However the threads interleave, no event is lost, repeated or moved: as a
\* log of events the store is append-only.
ImplementsLog == Log!Spec

\* verify_chain fails exactly when two events were chained to the same hash:
\* a race is the only thing that breaks the chain, and it is always noticed.
BrokenMeansForked == ~Verifies(rows) <=> Forked(rows)

\* The chain the store keeps always verifies: events are appended in order and
\* each hash is computed from the one before (docs/event-schema.md, Integrity).
ChainVerifies == Verifies(rows)
============================================================================
