-------------------------- MODULE SQLiteEvidence ---------------------------
(***************************************************************************)
(* SQLiteEvidenceStore of src/kai_security/evidence/sqlite_store.py: the   *)
(* threads of each gateway process share one connection and one lock; all  *)
(* processes share the database file.  sqlite3 opens a transaction only    *)
(* before the INSERT, so the SELECT of append reads committed rows outside *)
(* of it.  A process may be killed at any moment and started again.        *)
(***************************************************************************)
EXTENDS HashChain

CONSTANTS
    Processes,
    Threads,    \* of each process
    Events,     \* what callers append; each AuditEvent has its own uuid
    Issuer,     \* event -> the process whose handler makes it
    NoEvent,
    NoWriter,
    MaxCrashes  \* bound on the number of crashes

Writers == Processes \X Threads

ProcessOf(w) == w[1]

ASSUME StoreAssumption ==
    /\ NoEvent \notin Events
    /\ NoWriter \notin Writers
    /\ Issuer \in [Events -> Processes]
    /\ MaxCrashes \in Nat

VARIABLES
    rows,       \* evidence_events, committed, by sequence
    lock,       \* process -> the thread that holds self._lock
    database,   \* who holds SQLite's write lock on the file
    appender,   \* writer -> its append call
    appended,   \* events whose append call returned (history)
    failed,     \* events whose append call raised (history)
    killed,     \* events whose append call died with its process (history)
    crashes

vars == <<rows, lock, database, appender, appended, failed, killed, crashes>>

Idle == [at |-> "idle", event |-> NoEvent, previous |-> <<>>]

Fresh(event) ==
    /\ event \notin appended \cup failed \cup killed
    /\ \A w \in Writers : appender[w].event # event

Init ==
    /\ rows = <<>>
    /\ lock = [p \in Processes |-> NoWriter]
    /\ database = NoWriter
    /\ appender = [w \in Writers |-> Idle]
    /\ appended = {}
    /\ failed = {}
    /\ killed = {}
    /\ crashes = 0

Call(w, event) ==
    /\ appender[w].at = "idle"
    /\ Issuer[event] = ProcessOf(w)
    /\ Fresh(event)
    /\ appender' = [appender EXCEPT ![w] = [Idle EXCEPT !.at = "called", !.event = event]]
    /\ UNCHANGED <<rows, lock, database, appended, failed, killed, crashes>>

\* Mutant: the lock is not taken.
AcquireUnlocked(w) ==
    /\ appender[w].at = "called"
    /\ appender' = [appender EXCEPT ![w].at = "locked"]
    /\ UNCHANGED <<rows, lock, database, appended, failed, killed, crashes>>

Acquire(w) ==
    /\ appender[w].at = "called"
    /\ lock[ProcessOf(w)] = NoWriter
    /\ lock' = [lock EXCEPT ![ProcessOf(w)] = w]
    /\ appender' = [appender EXCEPT ![w].at = "locked"]
    /\ UNCHANGED <<rows, database, appended, failed, killed, crashes>>

SelectTail(w) ==
    /\ appender[w].at = "locked"
    /\ appender' = [appender EXCEPT ![w].at = "hashed", ![w].previous = TailHash(rows)]
    /\ UNCHANGED <<rows, lock, database, appended, failed, killed, crashes>>

\* BEGIN and INSERT: takes the write lock of the file.
Insert(w) ==
    /\ appender[w].at = "hashed"
    /\ database = NoWriter
    /\ database' = w
    /\ appender' = [appender EXCEPT ![w].at = "inserted"]
    /\ UNCHANGED <<rows, lock, appended, failed, killed, crashes>>

Release(w) ==
    /\ lock' = [lock EXCEPT ![ProcessOf(w)] = NoWriter]
    /\ appender' = [appender EXCEPT ![w] = Idle]

\* Another connection has the file: it writes, or it reads while w commits.
Busy(w) ==
    \/ /\ appender[w].at \in {"locked", "hashed"}
       /\ database \notin {NoWriter, w}
    \/ /\ appender[w].at = "inserted"
       /\ Processes # {ProcessOf(w)}

\* Mutant: an append that times out leaves the lock taken.
TimeOutLocked(w) ==
    /\ Busy(w)
    /\ failed' = failed \cup {appender[w].event}
    /\ database' = IF database = w THEN NoWriter ELSE database
    /\ appender' = [appender EXCEPT ![w] = Idle]
    /\ UNCHANGED <<rows, lock, appended, killed, crashes>>

\* "database is locked": a statement waited too long; the append is undone.
TimeOut(w) ==
    /\ Busy(w)
    /\ failed' = failed \cup {appender[w].event}
    /\ database' = IF database = w THEN NoWriter ELSE database
    /\ Release(w)
    /\ UNCHANGED <<rows, appended, killed, crashes>>

\* Mutants: the connection does not commit, or the row replaces the last one.
CommitReplacing(w) ==
    /\ appender[w].at = "inserted"
    /\ rows' = Append(SubSeq(rows, 1, Len(rows) - 1),
                      Row(appender[w].event, appender[w].previous))
    /\ database' = NoWriter
    /\ appender' = [appender EXCEPT ![w].at = "committed"]
    /\ UNCHANGED <<lock, appended, failed, killed, crashes>>

CommitDropped(w) ==
    /\ appender[w].at = "inserted"
    /\ database' = NoWriter
    /\ appender' = [appender EXCEPT ![w].at = "committed"]
    /\ UNCHANGED <<rows, lock, appended, failed, killed, crashes>>

Commit(w) ==
    /\ appender[w].at = "inserted"
    /\ rows' = Append(rows, Row(appender[w].event, appender[w].previous))
    /\ database' = NoWriter
    /\ appender' = [appender EXCEPT ![w].at = "committed"]
    /\ UNCHANGED <<lock, appended, failed, killed, crashes>>

\* The caller has its answer; until then the lock is held.
Return(w) ==
    /\ appender[w].at = "committed"
    /\ appended' = appended \cup {appender[w].event}
    /\ Release(w)
    /\ UNCHANGED <<rows, database, failed, killed, crashes>>

\* A process dies and starts again: its transaction is rolled back.
Crash(p) ==
    /\ crashes < MaxCrashes
    /\ crashes' = crashes + 1
    /\ killed' = killed \cup ({appender[w].event : w \in {p} \X Threads} \ {NoEvent})
    /\ appender' = [w \in Writers |-> IF ProcessOf(w) = p THEN Idle ELSE appender[w]]
    /\ lock' = [lock EXCEPT ![p] = NoWriter]
    /\ database' = IF database \in {p} \X Threads THEN NoWriter ELSE database
    /\ UNCHANGED <<rows, appended, failed>>

Work(w) ==
    \/ Acquire(w)
    \/ SelectTail(w)
    \/ Insert(w)
    \/ TimeOut(w)
    \/ Commit(w)
    \/ Return(w)

Next ==
    \/ \E w \in Writers : Work(w) \/ \E event \in Events : Call(w, event)
    \/ \E p \in Processes : Crash(p)

Spec == Init /\ [][Next]_vars

\* A thread in an append keeps running.  Neither lock is fair, so a thread may
\* wait while others append; here, as in any run, they append finitely often.
FairSpec == Spec /\ \A w \in Writers : WF_vars(Work(w))

----------------------------------------------------------------------------

Log == INSTANCE EvidenceLog WITH chain <- EventsOf(rows)

TypeOK ==
    /\ \A i \in DOMAIN rows : rows[i].event \in Events
    /\ lock \in [Processes -> Writers \cup {NoWriter}]
    /\ database \in Writers \cup {NoWriter}
    /\ \A w \in Writers : /\ appender[w].at \in {"idle", "called", "locked", "hashed",
                                            "inserted", "committed"}
                          /\ appender[w].event \in Events \cup {NoEvent}
    /\ appended \cup failed \cup killed \subseteq Events
    /\ crashes \in 0..MaxCrashes

\* As a log of events the table is append-only, also across crashes.
ImplementsLog == Log!Spec

\* What was acknowledged is in the table and what was refused is not; only an
\* append that was killed between its commit and its return leaves an event its
\* caller does not know of.
AcknowledgedIsStored ==
    LET stored == {rows[i].event : i \in DOMAIN rows}
        onTheWay == {appender[w].event : w \in {v \in Writers : appender[v].at = "committed"}}
    IN  /\ appended \cup onTheWay \subseteq stored
        /\ failed \cap stored = {}
        /\ stored \subseteq appended \cup onTheWay \cup killed

\* verify_chain fails exactly when two processes chained a row to the same hash:
\* the threads of one process never do, wherever it is killed, so the chain of a
\* single process always verifies (the RLock spans the SELECT and the commit).
BrokenMeansForked ==
    ~Verifies(rows) <=>
        \E i, j \in DOMAIN rows :
            /\ rows[i].previous = rows[j].previous
            /\ Issuer[rows[i].event] # Issuer[rows[j].event]

\* Every append call returns or fails: no thread waits for ever for a lock that
\* a timed-out, crashed or finished append left behind.
AppendsEnd == \A w \in Writers : appender[w].at # "idle" ~> appender[w].at = "idle"
============================================================================
